--------------------------- MODULE DateTime_proofs ---------------------------
(***************************************************************************)
(* Proofs about the date library, for all dates and all amounts: that the  *)
(* loops over years and months, and the carries from one field into the    *)
(* next, lead to the date that is as far away as the caller has asked for. *)
(***************************************************************************)
EXTENDS DateTime, WellFoundedInduction, TLAPS

(* The days before the first of January, and before the first of a month   *)
(* in its year: what the loops add up, in closed form.                     *)
YearStart(y) ==
  365 * (y - 1) + (y - 1) \div 4 - (y - 1) \div 100 + (y - 1) \div 400

MonthStart(y, m) ==
  (367 * m - 362) \div 12
    - (IF m <= 2 THEN 0 ELSE 2 - (IF IsLeapYear(y) THEN 1 ELSE 0))

(* A set of natural numbers has a least element.                           *)
LEMMA LeastElement ==
  ASSUME NEW T \in SUBSET Nat, T # {}
  PROVE  \E x \in T : \A y \in T : x <= y
<1> DEFINE R == OpToRel(<, Nat)
<1>1. IsWellFoundedOn(R, Nat)
  BY NatLessThanWellFounded
<1>2. PICK x \in T : \A y \in T : ~(<<y, x>> \in R)
  <2> HIDE DEF R
  <2> QED
    BY <1>1, WFMin
<1>3. \A y \in T : ~(y < x)
  BY <1>2 DEF OpToRel
<1> QED
  BY <1>3

(* What holds at the beginning of an interval, and from each number to the *)
(* next, holds in all of it.                                               *)
LEMMA Upwards ==
  ASSUME NEW a \in Int, NEW b \in Int, NEW H, a \in H,
         \A k \in a + 1 .. b : k - 1 \in H => k \in H
  PROVE  a .. b \subseteq H
<1> DEFINE T == {i \in Nat : a + i <= b /\ a + i \notin H}
<1>1. CASE T = {}
  <2> SUFFICES ASSUME NEW k \in a .. b PROVE k \in H
    OBVIOUS
  <2>1. k - a \in Nat /\ a + (k - a) = k /\ k <= b
    OBVIOUS
  <2>2. k - a \notin T
    BY <1>1
  <2> QED
    BY <2>1, <2>2
<1>2. CASE T # {}
  <2>1. PICK i \in T : \A j \in T : i <= j
    <3> HIDE DEF T
    <3> QED
      BY <1>2, LeastElement, T \in SUBSET Nat DEF T
  <2>2. i # 0
    BY <2>1
  <2>3. i - 1 \in Nat /\ a + (i - 1) <= b /\ ~(i <= i - 1)
    BY <2>1, <2>2
  <2>4. a + (i - 1) \in H
    BY <2>1, <2>3
  <2>5. a + i \in a + 1 .. b /\ (a + i) - 1 = a + (i - 1)
    BY <2>1, <2>2
  <2>6. a + i \in H
    BY <2>4, <2>5
  <2> QED
    BY <2>1, <2>6
<1> QED
  BY <1>1, <1>2

(* One year after the other.                                               *)
LEMMA NextYear ==
  ASSUME NEW y \in Int
  PROVE  /\ YearStart(y + 1) = YearStart(y) + DaysInYear(y)
         /\ DaysInYear(y) \in {365, 366}
         /\ YearStart(y) \in Int
<1>1. (y \div 4) - ((y - 1) \div 4) = IF y % 4 = 0 THEN 1 ELSE 0
  BY Z3
<1>2. (y \div 100) - ((y - 1) \div 100) = IF y % 100 = 0 THEN 1 ELSE 0
  BY Z3
<1>3. (y \div 400) - ((y - 1) \div 400) = IF y % 400 = 0 THEN 1 ELSE 0
  BY Z3
<1>4. y % 400 = 0 => y % 100 = 0 /\ y % 4 = 0
  BY Z3
<1>5. y % 100 = 0 => y % 4 = 0
  BY Z3
<1> QED
  BY <1>1, <1>2, <1>3, <1>4, <1>5, Z3 DEF YearStart, DaysInYear, IsLeapYear

(* A year later is at least 365 days later.                                *)
LEMMA YearsApart ==
  ASSUME NEW y \in Int, NEW z \in Int, y <= z
  PROVE  YearStart(z) - YearStart(y) >= 365 * (z - y)
<1> DEFINE u == y - 1
           v == z - 1
<1>1. u \in Int /\ v \in Int /\ u <= v
  OBVIOUS
<1> HIDE DEF u, v
<1>2. v \div 400 >= u \div 400
  BY <1>1, Z3
<1>3. v \div 4 - v \div 100 >= u \div 4 - u \div 100
  BY <1>1, Z3
<1> QED
  BY <1>1, <1>2, <1>3, Z3 DEF YearStart, u, v

(* The calendar begins with year 1.                                        *)
LEMMA FirstYear ==
  ASSUME NEW y \in Int, y >= 1
  PROVE  YearStart(1) = 0 /\ YearStart(y) \in Nat
<1>1. YearStart(1) = 0
  BY DEF YearStart
<1>2. YearStart(y) - YearStart(1) >= 365 * (y - 1)
  BY YearsApart
<1>3. YearStart(y) \in Int
  BY NextYear
<1> QED
  BY <1>1, <1>2, <1>3

(* What the loops of addDays, subtractDays and timeBetween count.          *)
LEMMA YearsSum ==
  ASSUME NEW y \in Int, NEW z \in Int, y <= z
  PROVE  DaysOf(y, z) = YearStart(z) - YearStart(y)
<1> DEFINE f == [k \in y .. z |-> YearStart(k) - YearStart(y)]
           G(g) == [k \in y .. z |-> IF k = y THEN 0 ELSE g[k - 1] + DaysInYear(k - 1)]
<1>1. ASSUME NEW k \in y + 1 .. z
      PROVE  YearStart(k) = YearStart(k - 1) + DaysInYear(k - 1)
  <2>1. k - 1 \in Int /\ (k - 1) + 1 = k
    OBVIOUS
  <2> QED
    BY <2>1, NextYear
<1>2. f = G(f)
  <2>1. \A k \in y .. z : YearStart(k) \in Int
    BY NextYear
  <2>2. ASSUME NEW k \in y .. z
        PROVE  f[k] = IF k = y THEN 0 ELSE f[k - 1] + DaysInYear(k - 1)
    <3>1. CASE k = y
      BY <2>1, <3>1
    <3>2. CASE k # y
      <4>1. k \in y + 1 .. z /\ k - 1 \in y .. z
        BY <3>2
      <4>2. DaysInYear(k - 1) \in Int
        BY NextYear
      <4> HIDE DEF f
      <4>3. f[k] = YearStart(k) - YearStart(y) /\ f[k - 1] = YearStart(k - 1) - YearStart(y)
        BY <4>1 DEF f
      <4> QED
        BY <1>1, <2>1, <3>2, <4>1, <4>2, <4>3
    <3> QED
      BY <3>1, <3>2
  <2> QED
    BY <2>2
<1>3. PICK sum : sum = G(sum) /\ DaysOf(y, z) = sum[z]
  <2> HIDE DEF f
  <2> QED
    BY <1>2 DEF DaysOf
<1>4. \A k \in y .. z : sum[k] = f[k]
  <2> DEFINE H == {k \in y .. z : sum[k] = f[k]}
  <2> HIDE DEF f
  <2>1. y \in H
    <3>1. y \in y .. z
      OBVIOUS
    <3> QED
      BY <1>2, <1>3, <3>1
  <2>2. ASSUME NEW k \in y + 1 .. z, k - 1 \in H PROVE k \in H
    <3>1. k \in y .. z /\ k # y
      OBVIOUS
    <3> QED
      BY <1>2, <1>3, <2>2, <3>1
  <2>3. y .. z \subseteq H
    <3> HIDE DEF H
    <3> QED
      BY <2>1, <2>2, Upwards
  <2> QED
    BY <2>3
<1> QED
  BY <1>3, <1>4
-----------------------------------------------------------------------------
(* One month after the other.                                              *)
LEMMA NextMonth ==
  ASSUME NEW y \in Int, NEW m \in 1 .. 12
  PROVE  /\ MonthStart(y, m) \in Nat
         /\ DaysInMonth(y, m) \in 28 .. 31
         /\ MonthStart(y, 1) = 0
         /\ m < 12 => MonthStart(y, m + 1) = MonthStart(y, m) + DaysInMonth(y, m)
         /\ m = 12 => DaysInYear(y) = MonthStart(y, m) + DaysInMonth(y, m)
         /\ MonthStart(y, m) + DaysInMonth(y, m) <= DaysInYear(y)
<1> DEFINE leap == IsLeapYear(y)
<1>1. /\ MonthLengths[1] = 31 /\ MonthLengths[2] = 28 /\ MonthLengths[3] = 31
      /\ MonthLengths[4] = 30 /\ MonthLengths[5] = 31 /\ MonthLengths[6] = 30
      /\ MonthLengths[7] = 31 /\ MonthLengths[8] = 31 /\ MonthLengths[9] = 30
      /\ MonthLengths[10] = 31 /\ MonthLengths[11] = 30 /\ MonthLengths[12] = 31
  BY DEF MonthLengths
<1>2. /\ DaysInMonth(y, m) = MonthLengths[m] + (IF m = 2 /\ leap THEN 1 ELSE 0)
      /\ DaysInYear(y) = IF leap THEN 366 ELSE 365
      /\ \A k \in 1 .. 13 : MonthStart(y, k) = (367 * k - 362) \div 12
             - (IF k <= 2 THEN 0 ELSE 2 - (IF leap THEN 1 ELSE 0))
  BY DEF DaysInMonth, DaysInYear, MonthStart
<1> HIDE DEF leap
<1>3. m \in 1 .. 13 /\ m + 1 \in 1 .. 13 /\ 1 \in 1 .. 13
  OBVIOUS
<1>4. /\ MonthStart(y, m) = (367 * m - 362) \div 12
             - (IF m <= 2 THEN 0 ELSE 2 - (IF leap THEN 1 ELSE 0))
      /\ MonthStart(y, m + 1) = (367 * (m + 1) - 362) \div 12
             - (IF m + 1 <= 2 THEN 0 ELSE 2 - (IF leap THEN 1 ELSE 0))
      /\ MonthStart(y, 1) = 0
  BY <1>2, <1>3
<1>5. \/ m = 1 \/ m = 2 \/ m = 3 \/ m = 4 \/ m = 5 \/ m = 6
      \/ m = 7 \/ m = 8 \/ m = 9 \/ m = 10 \/ m = 11 \/ m = 12
  OBVIOUS
<1> QED
  BY <1>1, <1>2, <1>4, <1>5

(* What getDayOfYear adds up.                                              *)
LEMMA MonthsSum ==
  ASSUME NEW y \in Int, NEW m \in 1 .. 12
  PROVE  DaysBefore(y, m) = MonthStart(y, m)
<1> DEFINE f == [k \in 1 .. 12 |-> MonthStart(y, k)]
           G(g) == [k \in 1 .. 12 |->
                      IF k = 1 THEN 0 ELSE g[k - 1] + DaysInMonth(y, k - 1)]
<1>1. f = G(f)
  <2> SUFFICES ASSUME NEW k \in 1 .. 12
               PROVE  f[k] = IF k = 1 THEN 0 ELSE f[k - 1] + DaysInMonth(y, k - 1)
    OBVIOUS
  <2>1. CASE k = 1
    BY <2>1, NextMonth
  <2>2. CASE k # 1
    <3>1. k - 1 \in 1 .. 12 /\ k - 1 < 12 /\ (k - 1) + 1 = k
      BY <2>2
    <3> QED
      BY <2>2, <3>1, NextMonth
  <2> QED
    BY <2>1, <2>2
<1>2. PICK sum : sum = G(sum) /\ DaysBefore(y, m) = sum[m]
  <2> HIDE DEF f
  <2> QED
    BY <1>1 DEF DaysBefore
<1>3. 1 .. 12 \subseteq {k \in 1 .. 12 : sum[k] = f[k]}
  <2> DEFINE H == {k \in 1 .. 12 : sum[k] = f[k]}
  <2> HIDE DEF f
  <2>1. 1 \in H
    BY <1>1, <1>2
  <2>2. ASSUME NEW k \in 1 + 1 .. 12, k - 1 \in H PROVE k \in H
    <3>1. k \in 1 .. 12 /\ k # 1
      OBVIOUS
    <3> QED
      BY <1>1, <1>2, <2>2, <3>1
  <2> HIDE DEF H
  <2>3. 1 .. 12 \subseteq H
    BY <2>1, <2>2, Upwards
  <2> QED
    BY <2>3 DEF H
<1> QED
  BY <1>2, <1>3

(* A day of the year falls into the month that getReverseDayOfYear finds.  *)
LEMMA DayInMonth ==
  ASSUME NEW y \in Int, NEW n \in 1 .. DaysInYear(y)
  PROVE  \E m \in 1 .. 12, d \in 1 .. 31 :
            /\ GetReverseDayOfYear(y, n) = <<m, d>>
            /\ d <= DaysInMonth(y, m)
            /\ MonthStart(y, m) + d = n
<1> DEFINE Fits(k) == /\ n > DaysBefore(y, k) \/ k = 1
                      /\ k = 12 \/ n <= DaysBefore(y, k) + DaysInMonth(y, k)
<1>0. n \in Nat /\ n >= 1 /\ n <= DaysInYear(y)
  BY NextYear
<1>1. \E k \in 1 .. 12 : Fits(k)
  <2> DEFINE T == {k \in 1 .. 12 : k = 12 \/ n <= DaysBefore(y, k) + DaysInMonth(y, k)}
  <2>1. T \in SUBSET Nat /\ T # {}
    <3>1. 12 \in T
      OBVIOUS
    <3> QED
      BY <3>1
  <2>2. PICK k \in T : \A j \in T : k <= j
    <3> HIDE DEF T
    <3> QED
      BY <2>1, LeastElement
  <2>3. k = 1 \/ n > DaysBefore(y, k)
    <3> SUFFICES ASSUME k # 1 PROVE n > DaysBefore(y, k)
      OBVIOUS
    <3>1. k - 1 \in 1 .. 12 /\ k - 1 < 12 /\ (k - 1) + 1 = k /\ k - 1 \notin T /\ k \in 1 .. 12
      BY <2>2
    <3>2. /\ MonthStart(y, (k - 1) + 1) = MonthStart(y, k - 1) + DaysInMonth(y, k - 1)
          /\ MonthStart(y, k - 1) \in Nat /\ DaysInMonth(y, k - 1) \in 28 .. 31
      BY <3>1, NextMonth
    <3>4. /\ DaysBefore(y, k - 1) = MonthStart(y, k - 1)
          /\ DaysBefore(y, k) = MonthStart(y, k)
      BY <3>1, MonthsSum
    <3>3. ~(n <= DaysBefore(y, k - 1) + DaysInMonth(y, k - 1))
      BY <3>1
    <3> QED
      BY <1>0, <3>1, <3>2, <3>3, <3>4
  <2> QED
    BY <2>2, <2>3
<1> DEFINE m == CHOOSE k \in 1 .. 12 : Fits(k)
<1>2. m \in 1 .. 12 /\ Fits(m)
  <2> HIDE DEF Fits
  <2> QED
    BY <1>1
<1>3. GetReverseDayOfYear(y, n) = <<m, n - DaysBefore(y, m)>>
  BY DEF GetReverseDayOfYear
<1> HIDE DEF m
<1>4. /\ DaysBefore(y, m) = MonthStart(y, m) /\ MonthStart(y, m) \in Nat
      /\ DaysInMonth(y, m) \in 28 .. 31 /\ MonthStart(y, 1) = 0
      /\ m = 12 => DaysInYear(y) = MonthStart(y, m) + DaysInMonth(y, m)
  BY <1>2, NextMonth, MonthsSum
<1>5. n > MonthStart(y, m) /\ n <= MonthStart(y, m) + DaysInMonth(y, m)
  BY <1>0, <1>2, <1>4
<1>6. /\ n - MonthStart(y, m) \in 1 .. 31
      /\ n - MonthStart(y, m) <= DaysInMonth(y, m)
      /\ MonthStart(y, m) + (n - MonthStart(y, m)) = n
  BY <1>0, <1>4, <1>5
<1> QED
  BY <1>2, <1>3, <1>4, <1>6
-----------------------------------------------------------------------------
(* A date by its fields.                                                   *)
LEMMA DateFields ==
  ASSUME NEW t \in Date
  PROVE  /\ t.year \in Nat /\ t.year >= 1 /\ t.month \in 1 .. 12 /\ t.day \in 1 .. 31
         /\ t.day <= DaysInMonth(t.year, t.month)
         /\ t.hour \in 0 .. 23 /\ t.minute \in 0 .. 59 /\ t.second \in 0 .. 59
         /\ t.millisecond \in 0 .. 999
  BY DEF Date, ValidDate

(* The fields of the time of the day, in the terms arithmetic needs.       *)
LEMMA TimeFields ==
  ASSUME NEW t \in Date
  PROVE  /\ t.hour \in Nat /\ t.minute \in Nat /\ t.second \in Nat /\ t.millisecond \in Nat
         /\ t.hour \in Int /\ t.minute \in Int /\ t.second \in Int /\ t.millisecond \in Int
         /\ t.hour <= 23 /\ t.minute <= 59 /\ t.second <= 59 /\ t.millisecond <= 999
<1> DEFINE h == t.hour
           m == t.minute
           sec == t.second
           ms == t.millisecond
<1>1. h \in 0 .. 23 /\ m \in 0 .. 59 /\ sec \in 0 .. 59 /\ ms \in 0 .. 999
  BY DateFields
<1> HIDE DEF h, m, sec, ms
<1>2. h \in Nat /\ m \in Nat /\ sec \in Nat /\ ms \in Nat
  BY <1>1
<1>3. h \in Int /\ m \in Int /\ sec \in Int /\ ms \in Int
  BY <1>2
<1>4. h <= 23 /\ m <= 59 /\ sec <= 59 /\ ms <= 999
  BY <1>1
<1> QED
  BY <1>2, <1>3, <1>4 DEF h, m, sec, ms

(* The day of the year, and the instant, of a date.                        *)
LEMMA DateInstant ==
  ASSUME NEW t \in Date
  PROVE  /\ DayOfYear(t) = MonthStart(t.year, t.month) + t.day
         /\ DayOfYear(t) \in 1 .. DaysInYear(t.year)
         /\ Instant(t) = [days |-> YearStart(t.year) + DayOfYear(t), ms |-> MsOfDay(t)]
         /\ YearStart(t.year) + DayOfYear(t) \in Int
<1>1. t.year \in Int /\ t.month \in 1 .. 12 /\ t.day \in 1 .. 31
      /\ t.day <= DaysInMonth(t.year, t.month)
  BY DateFields
<1>2. DayOfYear(t) = MonthStart(t.year, t.month) + t.day
  BY <1>1, MonthsSum DEF DayOfYear, GetDayOfYear
<1>3. /\ MonthStart(t.year, t.month) \in Nat /\ DaysInYear(t.year) \in {365, 366}
      /\ DaysInMonth(t.year, t.month) \in 28 .. 31
      /\ MonthStart(t.year, t.month) + DaysInMonth(t.year, t.month) <= DaysInYear(t.year)
      /\ YearStart(t.year) \in Int
  <2>1. DaysInYear(t.year) \in {365, 366} /\ YearStart(t.year) \in Int
    BY <1>1, NextYear
  <2>2. PICK y \in Int, m \in 1 .. 12 : y = t.year /\ m = t.month
    BY <1>1
  <2>3. /\ MonthStart(y, m) \in Nat /\ DaysInMonth(y, m) \in 28 .. 31
        /\ MonthStart(y, m) + DaysInMonth(y, m) <= DaysInYear(y)
    BY NextMonth
  <2> QED
    BY <2>1, <2>2, <2>3, Zenon
<1>4. DayOfYear(t) \in 1 .. DaysInYear(t.year)
  BY <1>1, <1>2, <1>3
<1>5. /\ Instant(t).ms = MsOfDay(t)
      /\ Instant(t) = [days |-> Instant(t).days, ms |-> Instant(t).ms]
      /\ Instant(t).days = YearStart(t.year) + MonthStart(t.year, t.month) + t.day
  <2> DEFINE y == t.year - 1
             a == 365 * y + y \div 4 - y \div 100 + y \div 400
             b == (367 * t.month - 362) \div 12
             c == IF t.month <= 2 THEN 0 ELSE 2 - (IF IsLeapYear(t.year) THEN 1 ELSE 0)
  <2>1. Instant(t) = [days |-> a + b - c + t.day, ms |-> MsOfDay(t)]
    BY DEF Instant
  <2>2. YearStart(t.year) = a /\ MonthStart(t.year, t.month) = b - c
    BY DEF YearStart, MonthStart
  <2>3. a \in Int /\ b \in Int /\ c \in Int
    <3>1. (IF IsLeapYear(t.year) THEN 1 ELSE 0) \in {0, 1}
      BY Zenon
    <3> QED
      BY <1>1, <3>1
  <2> HIDE DEF a, b, c, y
  <2> QED
    BY <1>1, <2>1, <2>2, <2>3
<1> QED
  BY <1>1, <1>2, <1>3, <1>4, <1>5

(* The time of the day, which the setters of the date leave alone.         *)
SameTime(s, t) ==
  /\ s.hour = t.hour /\ s.minute = t.minute
  /\ s.second = t.second /\ s.millisecond = t.millisecond

(* The fields of a date, each in its own range.                            *)
Ranged ==
  [year : Nat, month : 1 .. 12, day : 1 .. 31, hour : 0 .. 23,
   minute : 0 .. 59, second : 0 .. 59, millisecond : 0 .. 999]

(* One field of the date at a time.                                        *)
LEMMA PutYear ==
  ASSUME NEW t \in Ranged, NEW y \in Nat
  PROVE  /\ [t EXCEPT !.year = y] \in Ranged
         /\ [t EXCEPT !.year = y].year = y
         /\ SameTime([t EXCEPT !.year = y], t)
<1>1. [t EXCEPT !.year = y] \in Ranged
  BY DEF Ranged
<1>2. /\ [t EXCEPT !.year = y].year = y
      /\ SameTime([t EXCEPT !.year = y], t)
  BY DEF Ranged, SameTime
<1> QED
  BY <1>1, <1>2

(* Setting a month changes nothing but the month.                          *)
LEMMA PutMonth ==
  ASSUME NEW t \in Ranged, NEW m \in 1 .. 12
  PROVE  /\ [t EXCEPT !.month = m] \in Ranged
         /\ [t EXCEPT !.month = m].month = m
         /\ [t EXCEPT !.month = m].year = t.year
         /\ SameTime([t EXCEPT !.month = m], t)
<1>1. [t EXCEPT !.month = m] \in Ranged
  BY DEF Ranged
<1>2. /\ [t EXCEPT !.month = m].month = m
      /\ [t EXCEPT !.month = m].year = t.year
      /\ SameTime([t EXCEPT !.month = m], t)
  BY DEF Ranged, SameTime
<1> QED
  BY <1>1, <1>2

(* Setting a day of the month changes nothing but the day.                 *)
LEMMA PutDay ==
  ASSUME NEW t \in Ranged, NEW d \in 1 .. 31
  PROVE  /\ [t EXCEPT !.day = d] \in Ranged
         /\ [t EXCEPT !.day = d].day = d
         /\ [t EXCEPT !.day = d].year = t.year
         /\ [t EXCEPT !.day = d].month = t.month
         /\ SameTime([t EXCEPT !.day = d], t)
<1>1. [t EXCEPT !.day = d] \in Ranged
  BY DEF Ranged
<1>2. /\ [t EXCEPT !.day = d].day = d
      /\ [t EXCEPT !.day = d].year = t.year
      /\ [t EXCEPT !.day = d].month = t.month
      /\ SameTime([t EXCEPT !.day = d], t)
  BY DEF Ranged, SameTime
<1> QED
  BY <1>1, <1>2

(* The setters of addDays and subtractDays: the day n of the year y.       *)
LEMMA DateSet ==
  ASSUME NEW t \in Date, NEW y \in Nat, y >= 1, NEW n \in 1 .. DaysInYear(y),
         NEW r, r = SetDayOfYear(SetYear(t, y), n)
  PROVE  /\ r \in Date /\ SameTime(r, t)
         /\ r.year = y /\ DayOfYear(r) = n
<1>1. PICK m \in 1 .. 12, d \in 1 .. 31 :
        /\ GetReverseDayOfYear(y, n) = <<m, d>>
        /\ d <= DaysInMonth(y, m)
        /\ MonthStart(y, m) + d = n
  <2>1. y \in Int
    OBVIOUS
  <2> QED
    BY <2>1, DayInMonth
<1> DEFINE s == SetYear(t, y)
<1>2. r = [SetMonth(s, m) EXCEPT !.day = d]
  <2>1. s.year = y
    BY DEF SetYear, Date
  <2> HIDE DEF s
  <2>2. r = SetDayOfYear(s, n)
    BY DEF s
  <2> QED
    BY <1>1, <2>1, <2>2 DEF SetDayOfYear
<1>3. s \in Ranged /\ s.year = y /\ SameTime(s, t)
  <2>1. t \in Ranged /\ 1 \in 1 .. 12 /\ 1 \in 1 .. 31
    BY DEF Date, Ranged
  <2> DEFINE u == [t EXCEPT !.year = y]
             v == [u EXCEPT !.month = 1]
  <2>2. s = u \/ s = [v EXCEPT !.day = 1]
    BY Zenon DEF SetYear
  <2> HIDE DEF s
  <2>3. u \in Ranged /\ u.year = y /\ SameTime(u, t)
    BY <2>1, PutYear
  <2> HIDE DEF u
  <2>4. v \in Ranged /\ v.year = y /\ SameTime(v, u)
    BY <2>1, <2>3, PutMonth
  <2> HIDE DEF v
  <2>5. /\ [v EXCEPT !.day = 1] \in Ranged /\ [v EXCEPT !.day = 1].year = y
        /\ SameTime([v EXCEPT !.day = 1], v)
    BY <2>1, <2>4, PutDay
  <2>6. SameTime([v EXCEPT !.day = 1], t)
    BY <2>3, <2>4, <2>5 DEF SameTime
  <2>7. CASE s = u
    BY <2>3, <2>7
  <2>8. CASE s = [v EXCEPT !.day = 1]
    <3> DEFINE w == [v EXCEPT !.day = 1]
    <3>1. w \in Ranged /\ w.year = y /\ SameTime(w, t) /\ s = w
      BY <2>5, <2>6, <2>8
    <3> HIDE DEF w
    <3> QED
      BY <3>1
  <2> QED
    BY <2>2, <2>7, <2>8
<1> HIDE DEF s
<1>4. r \in Ranged /\ r.year = y /\ r.month = m /\ r.day = d /\ SameTime(r, t)
  <2> DEFINE u == [s EXCEPT !.month = m]
  <2>1. r = [u EXCEPT !.day = d]
    BY <1>2, Zenon DEF SetMonth
  <2>2. u \in Ranged /\ u.year = y /\ u.month = m /\ SameTime(u, s)
    BY <1>3, PutMonth
  <2> HIDE DEF u
  <2> DEFINE v == [u EXCEPT !.day = d]
  <2>3. v \in Ranged /\ v.year = y /\ v.month = m /\ v.day = d /\ SameTime(v, u)
    BY <2>2, PutDay
  <2> HIDE DEF v
  <2>4. r = v
    BY <2>1 DEF v
  <2> QED
    BY <1>3, <2>2, <2>3, <2>4 DEF SameTime
<1>5. r \in Date
  BY <1>1, <1>4 DEF Date, ValidDate, Ranged
<1>6. DayOfYear(r) = n
  BY <1>1, <1>4, <1>5, DateInstant
<1> QED
  BY <1>4, <1>5, <1>6
-----------------------------------------------------------------------------
(* The days from the beginning of year 1.                                  *)
DayNumber(t) == YearStart(t.year) + DayOfYear(t)

(* Every day falls into a year.                                            *)
LEMMA YearOfDay ==
  ASSUME NEW D \in Int, D >= 1
  PROVE  \E z \in Nat : YearStart(z) < D /\ D <= YearStart(z) + DaysInYear(z)
<1> DEFINE T == {z \in Nat : D <= YearStart(z + 1)}
<1>1. YearStart(1) = 0
  BY DEF YearStart
<1>2. D \in T
  <2>1. YearStart(D + 1) - YearStart(1) >= 365 * ((D + 1) - 1) /\ YearStart(D + 1) \in Int
    BY YearsApart, NextYear
  <2> QED
    BY <1>1, <2>1
<1>3. PICK z \in T : \A k \in T : z <= k
  <2>1. T \in SUBSET Nat /\ T # {}
    BY <1>2
  <2> HIDE DEF T
  <2> QED
    BY <2>1, LeastElement
<1>4. z \in Nat /\ D <= YearStart(z + 1)
  BY <1>3
<1>5. z # 0
  BY <1>1, <1>4
<1>6. z - 1 \in Nat /\ z - 1 \notin T /\ (z - 1) + 1 = z
  BY <1>3, <1>4, <1>5
<1>7. ~(D <= YearStart(z)) /\ YearStart(z) \in Int
  BY <1>4, <1>6, NextYear
<1> QED
  BY <1>4, <1>7, NextYear

(* addDays: as many days on, whatever months and years that takes.         *)
LEMMA AddDaysRight ==
  ASSUME NEW t \in Date, NEW n \in Nat
  PROVE  /\ AddDays(t, n) \in Date
         /\ SameTime(AddDays(t, n), t)
         /\ DayNumber(AddDays(t, n)) = DayNumber(t) + n
<1> DEFINE y == t.year
           day == DayOfYear(t) + n
           In(k) == DaysOf(y, k) < day /\ day <= DaysOf(y, k) + DaysInYear(k)
           z == CHOOSE k \in y .. y + day \div 365 : In(k)
<1>1. y \in Nat /\ y >= 1 /\ day \in Nat /\ day >= 1 /\ YearStart(y) \in Int
      /\ DayOfYear(t) \in Nat
  <2>1. y \in Nat /\ y >= 1
    BY DateFields
  <2>2. YearStart(y) \in Int /\ DaysInYear(y) \in {365, 366}
    BY <2>1, NextYear
  <2>3. DayOfYear(t) \in 1 .. DaysInYear(y)
    BY DateInstant
  <2> QED
    BY <2>1, <2>2, <2>3
<1>2. AddDays(t, n) = SetDayOfYear(SetYear(t, z), day - DaysOf(y, z))
  BY DEF AddDays, OnTo
<1> HIDE DEF y, day
<1>3. \E k \in y .. y + day \div 365 : In(k)
  <2>1. PICK k \in Nat : /\ YearStart(k) < YearStart(y) + day
                         /\ YearStart(y) + day <= YearStart(k) + DaysInYear(k)
    <3>1. YearStart(y) \in Nat
      BY <1>1, FirstYear
    <3>2. YearStart(y) + day \in Int /\ YearStart(y) + day >= 1
      BY <1>1, <3>1
    <3> QED
      BY <3>2, YearOfDay
  <2>2. /\ YearStart(k + 1) = YearStart(k) + DaysInYear(k)
        /\ YearStart(k) \in Int /\ DaysInYear(k) \in {365, 366}
    BY NextYear
  <2>3. k >= y
    <3> SUFFICES ASSUME k + 1 <= y PROVE FALSE
      BY <1>1
    <3>1. YearStart(y) - YearStart(k + 1) >= 365 * (y - (k + 1))
      BY <1>1, YearsApart
    <3> QED
      BY <1>1, <2>1, <2>2, <3>1
  <2>4. /\ DaysOf(y, k) = YearStart(k) - YearStart(y)
        /\ YearStart(k) - YearStart(y) >= 365 * (k - y)
    <3>1. y \in Int /\ k \in Int /\ y <= k
      BY <1>1, <2>3
    <3>2. DaysOf(y, k) = YearStart(k) - YearStart(y)
      BY <3>1, YearsSum
    <3>3. YearStart(k) - YearStart(y) >= 365 * (k - y)
      BY <3>1, YearsApart
    <3> QED
      BY <3>2, <3>3
  <2>5. 365 * (k - y) < day
    BY <1>1, <2>1, <2>2, <2>4
  <2>6. k - y <= day \div 365
    BY <1>1, <2>5, Z3
  <2>7. k \in y .. y + day \div 365
    BY <1>1, <2>3, <2>6
  <2>8. In(k)
    BY <1>1, <2>1, <2>2, <2>4
  <2> QED
    BY <2>7, <2>8
<1>4. z \in y .. y + day \div 365 /\ In(z)
  <2> HIDE DEF In
  <2> QED
    BY <1>3
<1>5. z \in Nat /\ z >= y /\ z >= 1
  BY <1>1, <1>4
<1> HIDE DEF z
<1>6. DaysOf(y, z) = YearStart(z) - YearStart(y)
  BY <1>1, <1>5, YearsSum
<1>7. YearStart(z) \in Int /\ DaysInYear(z) \in {365, 366}
  BY <1>5, NextYear
<1>8. day - DaysOf(y, z) \in 1 .. DaysInYear(z)
  BY <1>1, <1>4, <1>6, <1>7
<1>9. PICK r : r = AddDays(t, n)
  OBVIOUS
<1>10. r \in Date /\ SameTime(r, t) /\ r.year = z /\ DayOfYear(r) = day - DaysOf(y, z)
  BY <1>2, <1>5, <1>8, <1>9, DateSet
<1>11. DayNumber(r) = YearStart(y) + day
  BY <1>1, <1>6, <1>7, <1>10 DEF DayNumber
<1>12. DayNumber(t) + n = YearStart(y) + day
  BY <1>1 DEF DayNumber, y, day
<1> QED
  BY <1>9, <1>10, <1>11, <1>12

(* subtractDays: as many days back, as long as that is not before year 1.  *)
LEMMA SubtractDaysRight ==
  ASSUME NEW t \in Date, NEW n \in Nat, DayNumber(t) - n >= 1
  PROVE  /\ SubtractDays(t, n) \in Date
         /\ SameTime(SubtractDays(t, n), t)
         /\ DayNumber(SubtractDays(t, n)) = DayNumber(t) - n
<1> DEFINE y == t.year
           day == DayOfYear(t)
           In(k) == n < day + DaysOf(k, y) /\ day + DaysOf(k, y) <= n + DaysInYear(k)
           z == CHOOSE k \in y - n \div 365 - 1 .. y : In(k)
<1>1. /\ y \in Nat /\ y >= 1 /\ YearStart(y) \in Int /\ DaysInYear(y) \in {365, 366}
      /\ day \in Nat /\ day >= 1 /\ day <= DaysInYear(y)
  <2>1. y \in Nat /\ y >= 1
    BY DateFields
  <2>2. YearStart(y) \in Int /\ DaysInYear(y) \in {365, 366}
    BY <2>1, NextYear
  <2>3. day \in 1 .. DaysInYear(y)
    BY DateInstant
  <2> QED
    BY <2>1, <2>2, <2>3
<1>2. SubtractDays(t, n) = SetDayOfYear(SetYear(t, z), day + DaysOf(z, y) - n)
  BY DEF SubtractDays, BackTo
<1>3. DayNumber(t) = YearStart(y) + day
  BY DEF DayNumber
<1> HIDE DEF y, day
<1>4. \E k \in y - n \div 365 - 1 .. y : In(k)
  <2>1. PICK k \in Nat : /\ YearStart(k) < YearStart(y) + day - n
                         /\ YearStart(y) + day - n <= YearStart(k) + DaysInYear(k)
    <3>1. YearStart(y) + day - n \in Int /\ YearStart(y) + day - n >= 1
      BY <1>1, <1>3
    <3> QED
      BY <3>1, YearOfDay
  <2>2. /\ YearStart(k + 1) = YearStart(k) + DaysInYear(k)
        /\ YearStart(k) \in Int /\ DaysInYear(k) \in {365, 366}
    BY NextYear
  <2>3. k <= y
    <3> SUFFICES ASSUME y + 1 <= k PROVE FALSE
      BY <1>1
    <3>1. YearStart(k) - YearStart(y + 1) >= 365 * (k - (y + 1))
      BY <1>1, YearsApart
    <3>2. YearStart(y + 1) = YearStart(y) + DaysInYear(y)
      BY <1>1, NextYear
    <3> QED
      BY <1>1, <2>1, <2>2, <3>1, <3>2
  <2>4. DaysOf(k, y) = YearStart(y) - YearStart(k)
    BY <1>1, <2>3, YearsSum
  <2>5. k >= y - n \div 365 - 1
    <3>1. CASE k = y
      BY <1>1, <3>1, Z3
    <3>2. CASE k # y
      <4>1. k + 1 <= y
        BY <1>1, <2>3, <3>2
      <4>2. YearStart(y) - YearStart(k + 1) >= 365 * (y - (k + 1))
        BY <1>1, <4>1, YearsApart
      <4>3. 365 * (y - (k + 1)) <= n
        BY <1>1, <2>1, <2>2, <4>2
      <4>4. y - (k + 1) <= n \div 365
        BY <1>1, <4>3, Z3
      <4> QED
        BY <1>1, <4>4, Z3
    <3> QED
      BY <3>1, <3>2
  <2>6. k \in y - n \div 365 - 1 .. y
    BY <1>1, <2>3, <2>5
  <2>7. In(k)
    BY <1>1, <2>1, <2>2, <2>4
  <2> QED
    BY <2>6, <2>7
<1>5. z \in y - n \div 365 - 1 .. y /\ In(z)
  <2> HIDE DEF In
  <2> QED
    BY <1>4
<1>6. z \in Int /\ z <= y
  BY <1>1, <1>5
<1> HIDE DEF z
<1>7. DaysOf(z, y) = YearStart(y) - YearStart(z)
  BY <1>1, <1>6, YearsSum
<1>8. /\ YearStart(z) \in Int /\ DaysInYear(z) \in {365, 366}
      /\ YearStart(z + 1) = YearStart(z) + DaysInYear(z)
  BY <1>6, NextYear
<1>9. z \in Nat /\ z >= 1
  <2> SUFFICES ASSUME z + 1 <= 1 PROVE FALSE
    BY <1>6
  <2>1. YearStart(1) - YearStart(z + 1) >= 365 * (1 - (z + 1))
    BY <1>6, YearsApart
  <2>2. YearStart(1) = 0
    BY DEF YearStart
  <2>3. YearStart(z + 1) >= 1
    BY <1>1, <1>3, <1>5, <1>7, <1>8
  <2> QED
    BY <1>6, <1>8, <2>1, <2>2, <2>3
<1>10. day + DaysOf(z, y) - n \in 1 .. DaysInYear(z)
  BY <1>1, <1>5, <1>7, <1>8
<1>11. PICK r : r = SubtractDays(t, n)
  OBVIOUS
<1>12. r \in Date /\ SameTime(r, t) /\ r.year = z /\ DayOfYear(r) = day + DaysOf(z, y) - n
  BY <1>2, <1>9, <1>10, <1>11, DateSet
<1>13. DayNumber(r) = DayNumber(t) - n
  BY <1>1, <1>3, <1>7, <1>8, <1>12 DEF DayNumber
<1> QED
  BY <1>11, <1>12, <1>13
-----------------------------------------------------------------------------
(* A date in each of its units, with what the larger fields contribute.    *)
HourNumber(t) == DayNumber(t) * 24 + t.hour
MinuteNumber(t) == HourNumber(t) * 60 + t.minute
SecondNumber(t) == MinuteNumber(t) * 60 + t.second
MsNumber(t) == SecondNumber(t) * 1000 + t.millisecond

(* A date counted in days, hours, minutes, seconds or milliseconds is an   *)
(* integer, and the first day of the calendar is day 1.                    *)
LEMMA Numbers ==
  ASSUME NEW t \in Date
  PROVE  /\ DayNumber(t) \in Int /\ HourNumber(t) \in Int /\ MinuteNumber(t) \in Int
         /\ SecondNumber(t) \in Int /\ MsNumber(t) \in Int
         /\ DayNumber(t) >= 1
<1>1. DayNumber(t) \in Int /\ DayNumber(t) >= 1
  <2>1. PICK y \in Int : y = t.year /\ y >= 1
    BY DateFields
  <2>2. YearStart(y) \in Int /\ DaysInYear(y) \in {365, 366}
    BY NextYear
  <2>3. DayOfYear(t) \in 1 .. DaysInYear(y)
    BY <2>1, DateInstant
  <2>4. YearStart(y) \in Nat
    BY <2>1, FirstYear
  <2> QED
    BY <2>1, <2>2, <2>3, <2>4 DEF DayNumber
<1>2. t.hour \in Int /\ t.minute \in Int /\ t.second \in Int /\ t.millisecond \in Int
  BY DateFields
<1> QED
  BY <1>1, <1>2 DEF HourNumber, MinuteNumber, SecondNumber, MsNumber

(* The setters of the time leave the larger and the smaller fields alone.  *)
LEMMA PutHour ==
  ASSUME NEW t \in Date, NEW k \in Nat, k <= 23
  PROVE  /\ [t EXCEPT !["hour"] = k] \in Date
         /\ DayNumber([t EXCEPT !["hour"] = k]) = DayNumber(t)
         /\ [t EXCEPT !["hour"] = k].hour = k
         /\ [t EXCEPT !["hour"] = k].minute = t.minute
         /\ [t EXCEPT !["hour"] = k].second = t.second
         /\ [t EXCEPT !["hour"] = k].millisecond = t.millisecond
<1> DEFINE r == [t EXCEPT !["hour"] = k]
<1>1. t \in Ranged /\ ValidDate(t.year, t.month, t.day)
  BY DEF Date, Ranged
<1>2. r \in Ranged
  BY <1>1, k \in 0 .. 23 DEF Ranged
<1>3. /\ r.year = t.year /\ r.month = t.month /\ r.day = t.day /\ r.hour = k
      /\ r.minute = t.minute
      /\ r.second = t.second
      /\ r.millisecond = t.millisecond
  BY <1>1 DEF Ranged
<1> HIDE DEF r
<1>4. r \in Date
  BY <1>1, <1>2, <1>3 DEF Date, Ranged
<1>5. DayNumber(r) = DayNumber(t)
  BY <1>3, Zenon DEF DayNumber, DayOfYear
<1> QED
  BY <1>3, <1>4, <1>5 DEF r

(* A field that is set within its range leaves a date a date, and its      *)
(* number in the next larger unit as it was.                               *)
LEMMA PutMinute ==
  ASSUME NEW t \in Date, NEW k \in Nat, k <= 59
  PROVE  /\ [t EXCEPT !["minute"] = k] \in Date
         /\ HourNumber([t EXCEPT !["minute"] = k]) = HourNumber(t)
         /\ [t EXCEPT !["minute"] = k].minute = k
         /\ [t EXCEPT !["minute"] = k].second = t.second
         /\ [t EXCEPT !["minute"] = k].millisecond = t.millisecond
<1> DEFINE r == [t EXCEPT !["minute"] = k]
<1>1. t \in Ranged /\ ValidDate(t.year, t.month, t.day)
  BY DEF Date, Ranged
<1>2. r \in Ranged
  BY <1>1, k \in 0 .. 59 DEF Ranged
<1>3. /\ r.year = t.year /\ r.month = t.month /\ r.day = t.day /\ r.minute = k
      /\ r.hour = t.hour
      /\ r.second = t.second
      /\ r.millisecond = t.millisecond
  BY <1>1 DEF Ranged
<1> HIDE DEF r
<1>4. r \in Date
  BY <1>1, <1>2, <1>3 DEF Date, Ranged
<1>5. HourNumber(r) = HourNumber(t)
  BY <1>3, Zenon DEF HourNumber, DayNumber, DayOfYear
<1> QED
  BY <1>3, <1>4, <1>5 DEF r

(* The same of the seconds.                                                *)
LEMMA PutSecond ==
  ASSUME NEW t \in Date, NEW k \in Nat, k <= 59
  PROVE  /\ [t EXCEPT !["second"] = k] \in Date
         /\ MinuteNumber([t EXCEPT !["second"] = k]) = MinuteNumber(t)
         /\ [t EXCEPT !["second"] = k].second = k
         /\ [t EXCEPT !["second"] = k].millisecond = t.millisecond
<1> DEFINE r == [t EXCEPT !["second"] = k]
<1>1. t \in Ranged /\ ValidDate(t.year, t.month, t.day)
  BY DEF Date, Ranged
<1>2. r \in Ranged
  BY <1>1, k \in 0 .. 59 DEF Ranged
<1>3. /\ r.year = t.year /\ r.month = t.month /\ r.day = t.day /\ r.second = k
      /\ r.hour = t.hour
      /\ r.minute = t.minute
      /\ r.millisecond = t.millisecond
  BY <1>1 DEF Ranged
<1> HIDE DEF r
<1>4. r \in Date
  BY <1>1, <1>2, <1>3 DEF Date, Ranged
<1>5. MinuteNumber(r) = MinuteNumber(t)
  BY <1>3, Zenon DEF MinuteNumber, HourNumber, DayNumber, DayOfYear
<1> QED
  BY <1>3, <1>4, <1>5 DEF r

(* The same of the milliseconds.                                           *)
LEMMA PutMillisecond ==
  ASSUME NEW t \in Date, NEW k \in Nat, k <= 999
  PROVE  /\ [t EXCEPT !["millisecond"] = k] \in Date
         /\ SecondNumber([t EXCEPT !["millisecond"] = k]) = SecondNumber(t)
         /\ [t EXCEPT !["millisecond"] = k].millisecond = k
<1> DEFINE r == [t EXCEPT !["millisecond"] = k]
<1>1. t \in Ranged /\ ValidDate(t.year, t.month, t.day)
  BY DEF Date, Ranged
<1>2. r \in Ranged
  BY <1>1, k \in 0 .. 999 DEF Ranged
<1>3. /\ r.year = t.year /\ r.month = t.month /\ r.day = t.day /\ r.millisecond = k
      /\ r.hour = t.hour
      /\ r.minute = t.minute
      /\ r.second = t.second
  BY <1>1 DEF Ranged
<1> HIDE DEF r
<1>4. r \in Date
  BY <1>1, <1>2, <1>3 DEF Date, Ranged
<1>5. SecondNumber(r) = SecondNumber(t)
  BY <1>3, Zenon DEF SecondNumber, MinuteNumber, HourNumber, DayNumber, DayOfYear
<1> QED
  BY <1>3, <1>4, <1>5 DEF r
-----------------------------------------------------------------------------
(* What stays in a field f of the given base when n is added to it, and    *)
(* what is carried into the next larger one; the same for a subtraction.   *)
Kept(f, n, base) == (f + (n % base)) % base
Carried(f, n, base) == n \div base + (IF f + (n % base) >= base THEN 1 ELSE 0)

Left(f, n, base) ==
  IF n % base > f THEN base - ((n % base) - f) ELSE f - (n % base)
Borrowed(f, n, base) == n \div base + (IF n % base > f THEN 1 ELSE 0)

(* What a field of this base keeps and passes on to the next larger one    *)
(* adds up to what it had and what is added, or taken away.                *)
LEMMA Carries24 ==
  ASSUME NEW f \in Nat, f <= 23, NEW n \in Nat
  PROVE  /\ Carried(f, n, 24) \in Nat
         /\ Kept(f, n, 24) \in Nat /\ Kept(f, n, 24) <= 23
         /\ Carried(f, n, 24) * 24 + Kept(f, n, 24) = f + n
         /\ Borrowed(f, n, 24) \in Nat
         /\ Left(f, n, 24) \in Nat /\ Left(f, n, 24) <= 23
         /\ Left(f, n, 24) - Borrowed(f, n, 24) * 24 = f - n
  BY Z3 DEF Carried, Kept, Borrowed, Left

(* The same of minutes and seconds.                                        *)
LEMMA Carries60 ==
  ASSUME NEW f \in Nat, f <= 59, NEW n \in Nat
  PROVE  /\ Carried(f, n, 60) \in Nat
         /\ Kept(f, n, 60) \in Nat /\ Kept(f, n, 60) <= 59
         /\ Carried(f, n, 60) * 60 + Kept(f, n, 60) = f + n
         /\ Borrowed(f, n, 60) \in Nat
         /\ Left(f, n, 60) \in Nat /\ Left(f, n, 60) <= 59
         /\ Left(f, n, 60) - Borrowed(f, n, 60) * 60 = f - n
  BY Z3 DEF Carried, Kept, Borrowed, Left

(* The same of milliseconds.                                               *)
LEMMA Carries1000 ==
  ASSUME NEW f \in Nat, f <= 999, NEW n \in Nat
  PROVE  /\ Carried(f, n, 1000) \in Nat
         /\ Kept(f, n, 1000) \in Nat /\ Kept(f, n, 1000) <= 999
         /\ Carried(f, n, 1000) * 1000 + Kept(f, n, 1000) = f + n
         /\ Borrowed(f, n, 1000) \in Nat
         /\ Left(f, n, 1000) \in Nat /\ Left(f, n, 1000) <= 999
         /\ Left(f, n, 1000) - Borrowed(f, n, 1000) * 1000 = f - n
  BY Z3 DEF Carried, Kept, Borrowed, Left

(* addHours: hours that are too many for the day are added to the days.   *)
LEMMA AddHoursRight ==
  ASSUME NEW t \in Date, NEW n \in Nat
  PROVE  /\ AddHours(t, n) \in Date
         /\ HourNumber(AddHours(t, n)) = HourNumber(t) + n
         /\ AddHours(t, n).minute = t.minute
         /\ AddHours(t, n).second = t.second
         /\ AddHours(t, n).millisecond = t.millisecond
<1>1. PICK f \in Nat : f = t.hour /\ f <= 23
  BY TimeFields
<1> DEFINE carry == Carried(f, n, 24)
           keep == Kept(f, n, 24)
           u == IF carry > 0 THEN AddDays(t, carry) ELSE t
<1>2. AddHours(t, n) = [u EXCEPT !["hour"] = keep]
  BY <1>1 DEF AddHours, Added, Carried, Kept
<1>3. /\ carry \in Nat /\ keep \in Nat /\ keep <= 23
      /\ carry * 24 + keep = f + n
  BY <1>1, Carries24, ZenonT(40)
<1> HIDE DEF carry, keep
<1>0. DayNumber(t) \in Int
  BY Numbers
<1>4. u \in Date /\ DayNumber(u) = DayNumber(t) + carry /\ SameTime(u, t)
  <2>1. CASE carry > 0
    BY <1>3, <2>1, AddDaysRight
  <2>2. CASE ~(carry > 0)
    BY <1>0, <1>1, <1>3, <2>2 DEF SameTime
  <2> QED
    BY <2>1, <2>2
<1> HIDE DEF u
<1> DEFINE r == [u EXCEPT !["hour"] = keep]
<1>6. /\ r \in Date /\ DayNumber(r) = DayNumber(u) /\ r.hour = keep
      /\ r.minute = u.minute
      /\ r.second = u.second
      /\ r.millisecond = u.millisecond
  BY <1>3, <1>4, PutHour
<1> HIDE DEF r
<1>7. HourNumber(r) = HourNumber(t) + n
  BY <1>0, <1>1, <1>3, <1>4, <1>6 DEF HourNumber
<1> QED
  BY <1>2, <1>4, <1>6, <1>7 DEF SameTime, r

(* addMinutes, on top of addHours.                                         *)
LEMMA AddMinutesRight ==
  ASSUME NEW t \in Date, NEW n \in Nat
  PROVE  /\ AddMinutes(t, n) \in Date
         /\ MinuteNumber(AddMinutes(t, n)) = MinuteNumber(t) + n
         /\ AddMinutes(t, n).second = t.second
         /\ AddMinutes(t, n).millisecond = t.millisecond
<1>1. PICK f \in Nat : f = t.minute /\ f <= 59
  BY TimeFields
<1> DEFINE carry == Carried(f, n, 60)
           keep == Kept(f, n, 60)
           u == IF carry > 0 THEN AddHours(t, carry) ELSE t
<1>2. AddMinutes(t, n) = [u EXCEPT !["minute"] = keep]
  BY <1>1 DEF AddMinutes, Added, Carried, Kept
<1>3. /\ carry \in Nat /\ keep \in Nat /\ keep <= 59
      /\ carry * 60 + keep = f + n
  BY <1>1, Carries60, ZenonT(40)
<1> HIDE DEF carry, keep
<1>0. HourNumber(t) \in Int
  BY Numbers
<1>4. u \in Date /\ HourNumber(u) = HourNumber(t) + carry /\ u.second = t.second /\ u.millisecond = t.millisecond
  <2>1. CASE carry > 0
    BY <1>3, <2>1, AddHoursRight
  <2>2. CASE ~(carry > 0)
    BY <1>0, <1>1, <1>3, <2>2
  <2> QED
    BY <2>1, <2>2
<1> HIDE DEF u
<1> DEFINE r == [u EXCEPT !["minute"] = keep]
<1>6. /\ r \in Date /\ HourNumber(r) = HourNumber(u) /\ r.minute = keep
      /\ r.second = u.second
      /\ r.millisecond = u.millisecond
  BY <1>3, <1>4, PutMinute
<1> HIDE DEF r
<1>7. MinuteNumber(r) = MinuteNumber(t) + n
  BY <1>0, <1>1, <1>3, <1>4, <1>6 DEF MinuteNumber
<1> QED
  BY <1>2, <1>4, <1>6, <1>7 DEF r

(* addSeconds, on top of addMinutes.                                       *)
LEMMA AddSecondsRight ==
  ASSUME NEW t \in Date, NEW n \in Nat
  PROVE  /\ AddSeconds(t, n) \in Date
         /\ SecondNumber(AddSeconds(t, n)) = SecondNumber(t) + n
         /\ AddSeconds(t, n).millisecond = t.millisecond
<1>1. PICK f \in Nat : f = t.second /\ f <= 59
  BY TimeFields
<1> DEFINE carry == Carried(f, n, 60)
           keep == Kept(f, n, 60)
           u == IF carry > 0 THEN AddMinutes(t, carry) ELSE t
<1>2. AddSeconds(t, n) = [u EXCEPT !["second"] = keep]
  BY <1>1 DEF AddSeconds, Added, Carried, Kept
<1>3. /\ carry \in Nat /\ keep \in Nat /\ keep <= 59
      /\ carry * 60 + keep = f + n
  BY <1>1, Carries60, ZenonT(40)
<1> HIDE DEF carry, keep
<1>0. MinuteNumber(t) \in Int
  BY Numbers
<1>4. u \in Date /\ MinuteNumber(u) = MinuteNumber(t) + carry /\ u.millisecond = t.millisecond
  <2>1. CASE carry > 0
    BY <1>3, <2>1, AddMinutesRight
  <2>2. CASE ~(carry > 0)
    BY <1>0, <1>1, <1>3, <2>2
  <2> QED
    BY <2>1, <2>2
<1> HIDE DEF u
<1> DEFINE r == [u EXCEPT !["second"] = keep]
<1>6. /\ r \in Date /\ MinuteNumber(r) = MinuteNumber(u) /\ r.second = keep
      /\ r.millisecond = u.millisecond
  BY <1>3, <1>4, PutSecond
<1> HIDE DEF r
<1>7. SecondNumber(r) = SecondNumber(t) + n
  BY <1>0, <1>1, <1>3, <1>4, <1>6 DEF SecondNumber
<1> QED
  BY <1>2, <1>4, <1>6, <1>7 DEF r

(* addMilliseconds, on top of addSeconds.                                  *)
LEMMA AddMillisecondsRight ==
  ASSUME NEW t \in Date, NEW n \in Nat
  PROVE  /\ AddMilliseconds(t, n) \in Date
         /\ MsNumber(AddMilliseconds(t, n)) = MsNumber(t) + n
<1>1. PICK f \in Nat : f = t.millisecond /\ f <= 999
  BY TimeFields
<1> DEFINE carry == Carried(f, n, 1000)
           keep == Kept(f, n, 1000)
           u == IF carry > 0 THEN AddSeconds(t, carry) ELSE t
<1>2. AddMilliseconds(t, n) = [u EXCEPT !["millisecond"] = keep]
  BY <1>1 DEF AddMilliseconds, Added, Carried, Kept
<1>3. /\ carry \in Nat /\ keep \in Nat /\ keep <= 999
      /\ carry * 1000 + keep = f + n
  <2>1. f <= 999
    BY <1>1
  <2>2. carry \in Nat
    BY <2>1, Carries1000, SMT
  <2>3. keep \in Nat
    BY <2>1, Carries1000, SMT
  <2>4. keep <= 999
    BY <2>1, Carries1000, SMT
  <2>5. carry * 1000 + keep = f + n
    BY <2>1, Carries1000, SMT
  <2> QED
    BY <2>2, <2>3, <2>4, <2>5
<1> HIDE DEF carry, keep
<1>0. SecondNumber(t) \in Int
  BY Numbers
<1>4. u \in Date /\ SecondNumber(u) = SecondNumber(t) + carry
  <2>1. CASE carry > 0
    BY <1>3, <2>1, AddSecondsRight
  <2>2. CASE ~(carry > 0)
    BY <1>0, <1>1, <1>3, <2>2
  <2> QED
    BY <2>1, <2>2
<1> HIDE DEF u
<1> DEFINE r == [u EXCEPT !["millisecond"] = keep]
<1>6. /\ r \in Date /\ SecondNumber(r) = SecondNumber(u) /\ r.millisecond = keep
  BY <1>3, <1>4, PutMillisecond
<1> HIDE DEF r
<1>7. MsNumber(r) = MsNumber(t) + n
  BY <1>0, <1>1, <1>3, <1>4, <1>6 DEF MsNumber
<1> QED
  BY <1>2, <1>4, <1>6, <1>7 DEF r

(* subtractHours: what the hour lacks is borrowed from the days.           *)
LEMMA SubtractHoursRight ==
  ASSUME NEW t \in Date, NEW n \in Nat, HourNumber(t) - n >= 24
  PROVE  /\ SubtractHours(t, n) \in Date
         /\ HourNumber(SubtractHours(t, n)) = HourNumber(t) - n
         /\ SubtractHours(t, n).minute = t.minute
         /\ SubtractHours(t, n).second = t.second
         /\ SubtractHours(t, n).millisecond = t.millisecond
<1>1. PICK f \in Nat : f = t.hour /\ f <= 23
  BY TimeFields
<1> DEFINE carry == Borrowed(f, n, 24)
           keep == Left(f, n, 24)
           u == IF carry > 0 THEN SubtractDays(t, carry) ELSE t
<1>2. SubtractHours(t, n) = [u EXCEPT !["hour"] = keep]
  BY <1>1 DEF SubtractHours, Subtracted, Borrowed, Left
<1>3. /\ carry \in Nat /\ keep \in Nat /\ keep <= 23
      /\ keep - carry * 24 = f - n
  BY <1>1, Carries24, ZenonT(40)
<1> HIDE DEF carry, keep
<1>0. DayNumber(t) \in Int
  BY Numbers
<1>4. DayNumber(t) - carry >= 1
  BY <1>0, <1>1, <1>3, Z3 DEF HourNumber
<1>5. u \in Date /\ DayNumber(u) = DayNumber(t) - carry /\ SameTime(u, t)
  <2>1. CASE carry > 0
    BY <1>3, <1>4, <2>1, SubtractDaysRight
  <2>2. CASE ~(carry > 0)
    BY <1>0, <1>1, <1>3, <2>2 DEF SameTime
  <2> QED
    BY <2>1, <2>2
<1> HIDE DEF u
<1> DEFINE r == [u EXCEPT !["hour"] = keep]
<1>6. /\ r \in Date /\ DayNumber(r) = DayNumber(u) /\ r.hour = keep
      /\ r.minute = u.minute
      /\ r.second = u.second
      /\ r.millisecond = u.millisecond
  BY <1>3, <1>5, PutHour
<1> HIDE DEF r
<1>7. HourNumber(r) = HourNumber(t) - n
  BY <1>0, <1>1, <1>3, <1>5, <1>6 DEF HourNumber
<1> QED
  BY <1>2, <1>5, <1>6, <1>7 DEF SameTime, r

(* subtractMinutes, on top of subtractHours.                               *)
LEMMA SubtractMinutesRight ==
  ASSUME NEW t \in Date, NEW n \in Nat, MinuteNumber(t) - n >= 24 * 60
  PROVE  /\ SubtractMinutes(t, n) \in Date
         /\ MinuteNumber(SubtractMinutes(t, n)) = MinuteNumber(t) - n
         /\ SubtractMinutes(t, n).second = t.second
         /\ SubtractMinutes(t, n).millisecond = t.millisecond
<1>1. PICK f \in Nat : f = t.minute /\ f <= 59
  BY TimeFields
<1> DEFINE carry == Borrowed(f, n, 60)
           keep == Left(f, n, 60)
           u == IF carry > 0 THEN SubtractHours(t, carry) ELSE t
<1>2. SubtractMinutes(t, n) = [u EXCEPT !["minute"] = keep]
  BY <1>1 DEF SubtractMinutes, Subtracted, Borrowed, Left
<1>3. /\ carry \in Nat /\ keep \in Nat /\ keep <= 59
      /\ keep - carry * 60 = f - n
  BY <1>1, Carries60, ZenonT(40)
<1> HIDE DEF carry, keep
<1>0. HourNumber(t) \in Int
  BY Numbers
<1>4. HourNumber(t) - carry >= 24
  BY <1>0, <1>1, <1>3, Z3 DEF MinuteNumber
<1>5. u \in Date /\ HourNumber(u) = HourNumber(t) - carry /\ u.second = t.second /\ u.millisecond = t.millisecond
  <2>1. CASE carry > 0
    BY <1>3, <1>4, <2>1, SubtractHoursRight
  <2>2. CASE ~(carry > 0)
    BY <1>0, <1>1, <1>3, <2>2
  <2> QED
    BY <2>1, <2>2
<1> HIDE DEF u
<1> DEFINE r == [u EXCEPT !["minute"] = keep]
<1>6. /\ r \in Date /\ HourNumber(r) = HourNumber(u) /\ r.minute = keep
      /\ r.second = u.second
      /\ r.millisecond = u.millisecond
  BY <1>3, <1>5, PutMinute
<1> HIDE DEF r
<1>7. MinuteNumber(r) = MinuteNumber(t) - n
  BY <1>0, <1>1, <1>3, <1>5, <1>6 DEF MinuteNumber
<1> QED
  BY <1>2, <1>5, <1>6, <1>7 DEF r

(* subtractSeconds, on top of subtractMinutes.                             *)
LEMMA SubtractSecondsRight ==
  ASSUME NEW t \in Date, NEW n \in Nat, SecondNumber(t) - n >= 24 * 60 * 60
  PROVE  /\ SubtractSeconds(t, n) \in Date
         /\ SecondNumber(SubtractSeconds(t, n)) = SecondNumber(t) - n
         /\ SubtractSeconds(t, n).millisecond = t.millisecond
<1>1. PICK f \in Nat : f = t.second /\ f <= 59
  BY TimeFields
<1> DEFINE carry == Borrowed(f, n, 60)
           keep == Left(f, n, 60)
           u == IF carry > 0 THEN SubtractMinutes(t, carry) ELSE t
<1>2. SubtractSeconds(t, n) = [u EXCEPT !["second"] = keep]
  BY <1>1 DEF SubtractSeconds, Subtracted, Borrowed, Left
<1>3. /\ carry \in Nat /\ keep \in Nat /\ keep <= 59
      /\ keep - carry * 60 = f - n
  BY <1>1, Carries60, ZenonT(40)
<1> HIDE DEF carry, keep
<1>0. MinuteNumber(t) \in Int
  BY Numbers
<1>4. MinuteNumber(t) - carry >= 24 * 60
  BY <1>0, <1>1, <1>3, Z3 DEF SecondNumber
<1>5. u \in Date /\ MinuteNumber(u) = MinuteNumber(t) - carry /\ u.millisecond = t.millisecond
  <2>1. CASE carry > 0
    BY <1>3, <1>4, <2>1, SubtractMinutesRight
  <2>2. CASE ~(carry > 0)
    BY <1>0, <1>1, <1>3, <2>2
  <2> QED
    BY <2>1, <2>2
<1> HIDE DEF u
<1> DEFINE r == [u EXCEPT !["second"] = keep]
<1>6. /\ r \in Date /\ MinuteNumber(r) = MinuteNumber(u) /\ r.second = keep
      /\ r.millisecond = u.millisecond
  BY <1>3, <1>5, PutSecond
<1> HIDE DEF r
<1>7. SecondNumber(r) = SecondNumber(t) - n
  BY <1>0, <1>1, <1>3, <1>5, <1>6 DEF SecondNumber
<1> QED
  BY <1>2, <1>5, <1>6, <1>7 DEF r

(* subtractMilliseconds, on top of subtractSeconds.                        *)
LEMMA SubtractMillisecondsRight ==
  ASSUME NEW t \in Date, NEW n \in Nat, MsNumber(t) - n >= 24 * 60 * 60 * 1000
  PROVE  /\ SubtractMilliseconds(t, n) \in Date
         /\ MsNumber(SubtractMilliseconds(t, n)) = MsNumber(t) - n
<1>1. PICK f \in Nat : f = t.millisecond /\ f <= 999
  BY TimeFields
<1> DEFINE carry == Borrowed(f, n, 1000)
           keep == Left(f, n, 1000)
           u == IF carry > 0 THEN SubtractSeconds(t, carry) ELSE t
<1>2. SubtractMilliseconds(t, n) = [u EXCEPT !["millisecond"] = keep]
  BY <1>1 DEF SubtractMilliseconds, Subtracted, Borrowed, Left
<1>3. /\ carry \in Nat /\ keep \in Nat /\ keep <= 999
      /\ keep - carry * 1000 = f - n
  <2>1. f <= 999
    BY <1>1
  <2>2. carry \in Nat
    BY <2>1, Carries1000, SMT
  <2>3. keep \in Nat
    BY <2>1, Carries1000, SMT
  <2>4. keep <= 999
    BY <2>1, Carries1000, SMT
  <2>5. keep - carry * 1000 = f - n
    BY <2>1, Carries1000, SMT
  <2> QED
    BY <2>2, <2>3, <2>4, <2>5
<1> HIDE DEF carry, keep
<1>0. SecondNumber(t) \in Int
  BY Numbers
<1>4. SecondNumber(t) - carry >= 24 * 60 * 60
  BY <1>0, <1>1, <1>3, Z3 DEF MsNumber
<1>5. u \in Date /\ SecondNumber(u) = SecondNumber(t) - carry
  <2>1. CASE carry > 0
    BY <1>3, <1>4, <2>1, SubtractSecondsRight
  <2>2. CASE ~(carry > 0)
    BY <1>0, <1>1, <1>3, <2>2
  <2> QED
    BY <2>1, <2>2
<1> HIDE DEF u
<1> DEFINE r == [u EXCEPT !["millisecond"] = keep]
<1>6. /\ r \in Date /\ SecondNumber(r) = SecondNumber(u) /\ r.millisecond = keep
  BY <1>3, <1>5, PutMillisecond
<1> HIDE DEF r
<1>7. MsNumber(r) = MsNumber(t) - n
  BY <1>0, <1>1, <1>3, <1>5, <1>6 DEF MsNumber
<1> QED
  BY <1>2, <1>5, <1>6, <1>7 DEF r
-----------------------------------------------------------------------------
(* As many milliseconds apart as hours, minutes or seconds, if the smaller *)
(* fields are the same.                                                    *)
LEMMA ApartInMs ==
  ASSUME NEW s \in Date, NEW t \in Date, NEW n \in Int
  PROVE  /\ DayNumber(s) = DayNumber(t) + n /\ SameTime(s, t) =>
              MsNumber(s) = MsNumber(t) + n * MsPerDay
         /\ (/\ HourNumber(s) = HourNumber(t) + n
             /\ s.minute = t.minute /\ s.second = t.second
             /\ s.millisecond = t.millisecond) =>
              MsNumber(s) = MsNumber(t) + n * MsPerHour
         /\ (/\ MinuteNumber(s) = MinuteNumber(t) + n
             /\ s.second = t.second /\ s.millisecond = t.millisecond) =>
              MsNumber(s) = MsNumber(t) + n * MsPerMinute
         /\ SecondNumber(s) = SecondNumber(t) + n /\ s.millisecond = t.millisecond =>
              MsNumber(s) = MsNumber(t) + n * 1000
<1>1. PICK d \in Int, hn \in Int, mn \in Int, sn \in Int :
        /\ d = DayNumber(t) /\ hn = HourNumber(t)
        /\ mn = MinuteNumber(t) /\ sn = SecondNumber(t)
  BY Numbers
<1>2. PICK h \in Int, m \in Int, sec \in Int, ms \in Int :
        h = t.hour /\ m = t.minute /\ sec = t.second /\ ms = t.millisecond
  BY TimeFields
<1>3. hn = d * 24 + h /\ mn = hn * 60 + m /\ sn = mn * 60 + sec
  BY <1>1, <1>2 DEF HourNumber, MinuteNumber, SecondNumber
<1>4. MsNumber(t) = sn * 1000 + ms
  BY <1>1, <1>2 DEF MsNumber
<1>5. /\ n * MsPerMinute = n * 60 * 1000 /\ n * MsPerHour = n * 60 * 60 * 1000
      /\ n * MsPerDay = n * 24 * 60 * 60 * 1000
  BY DEF MsPerDay, MsPerHour, MsPerMinute
<1>6. ASSUME SecondNumber(s) = SecondNumber(t) + n, s.millisecond = t.millisecond
      PROVE  MsNumber(s) = MsNumber(t) + n * 1000
  <2>1. MsNumber(s) = (sn + n) * 1000 + ms
    BY <1>1, <1>2, <1>6 DEF MsNumber
  <2> QED
    BY <1>4, <2>1
<1>7. ASSUME MinuteNumber(s) = MinuteNumber(t) + n,
             s.second = t.second, s.millisecond = t.millisecond
      PROVE  MsNumber(s) = MsNumber(t) + n * MsPerMinute
  <2>1. SecondNumber(s) = (mn + n) * 60 + sec
    BY <1>1, <1>2, <1>7 DEF SecondNumber
  <2>2. MsNumber(s) = ((mn + n) * 60 + sec) * 1000 + ms
    BY <1>2, <1>7, <2>1 DEF MsNumber
  <2>3. MsNumber(s) = (sn * 1000 + ms) + n * 60 * 1000
    BY <1>3, <2>2
  <2> QED
    BY <1>4, <1>5, <2>3
<1>8. ASSUME HourNumber(s) = HourNumber(t) + n, s.minute = t.minute,
             s.second = t.second, s.millisecond = t.millisecond
      PROVE  MsNumber(s) = MsNumber(t) + n * MsPerHour
  <2>1. MinuteNumber(s) = (hn + n) * 60 + m
    BY <1>1, <1>2, <1>8 DEF MinuteNumber
  <2>2. SecondNumber(s) = ((hn + n) * 60 + m) * 60 + sec
    BY <1>2, <1>8, <2>1 DEF SecondNumber
  <2>3. MsNumber(s) = (((hn + n) * 60 + m) * 60 + sec) * 1000 + ms
    BY <1>2, <1>8, <2>2 DEF MsNumber
  <2>4. MsNumber(s) = (sn * 1000 + ms) + n * 60 * 60 * 1000
    BY <1>3, <2>3
  <2> QED
    BY <1>4, <1>5, <2>4
<1>9. ASSUME DayNumber(s) = DayNumber(t) + n, SameTime(s, t)
      PROVE  MsNumber(s) = MsNumber(t) + n * MsPerDay
  <2>1. HourNumber(s) = (d + n) * 24 + h
    BY <1>1, <1>2, <1>9 DEF HourNumber, SameTime
  <2>2. MinuteNumber(s) = ((d + n) * 24 + h) * 60 + m
    BY <1>2, <1>9, <2>1 DEF MinuteNumber, SameTime
  <2>3. SecondNumber(s) = (((d + n) * 24 + h) * 60 + m) * 60 + sec
    BY <1>2, <1>9, <2>2 DEF SecondNumber, SameTime
  <2>4. MsNumber(s) = ((((d + n) * 24 + h) * 60 + m) * 60 + sec) * 1000 + ms
    BY <1>2, <1>9, <2>3 DEF MsNumber, SameTime
  <2>5. MsNumber(s) = (sn * 1000 + ms) + n * 24 * 60 * 60 * 1000
    BY <1>3, <2>4
  <2> QED
    BY <1>4, <1>5, <2>5
<1> QED
  BY <1>6, <1>7, <1>8, <1>9

(* A date that is late enough in milliseconds is so in the larger units.   *)
LEMMA LateEnough ==
  ASSUME NEW t \in Date, NEW n \in Nat
  PROVE  /\ MsNumber(t) - n * MsPerDay >= MsPerDay => DayNumber(t) - n >= 1
         /\ MsNumber(t) - n * MsPerHour >= MsPerDay => HourNumber(t) - n >= 24
         /\ MsNumber(t) - n * MsPerMinute >= MsPerDay => MinuteNumber(t) - n >= 24 * 60
         /\ MsNumber(t) - n * 1000 >= MsPerDay => SecondNumber(t) - n >= 24 * 60 * 60
<1>1. /\ t.hour \in Int /\ t.minute \in Int /\ t.second \in Int /\ t.millisecond \in Int
      /\ t.hour <= 23 /\ t.minute <= 59 /\ t.second <= 59 /\ t.millisecond <= 999
  BY TimeFields
<1> DEFINE h == t.hour
           m == t.minute
           sec == t.second
           ms == t.millisecond
           d == DayNumber(t)
           hn == HourNumber(t)
           mn == MinuteNumber(t)
           sn == SecondNumber(t)
<1>0. /\ h \in Int /\ m \in Int /\ sec \in Int /\ ms \in Int
      /\ h <= 23 /\ m <= 59 /\ sec <= 59 /\ ms <= 999
  BY <1>1
<1>2. d \in Int /\ hn \in Int /\ mn \in Int /\ sn \in Int
  BY Numbers
<1>3. hn = d * 24 + h /\ mn = hn * 60 + m /\ sn = mn * 60 + sec
  BY DEF HourNumber, MinuteNumber, SecondNumber
<1>4. MsNumber(t) = sn * 1000 + ms
  BY DEF MsNumber
<1> HIDE DEF h, m, sec, ms, d, hn, mn, sn
<1>5. /\ n * MsPerMinute = n * 60 * 1000 /\ n * MsPerHour = n * 60 * 60 * 1000
      /\ n * MsPerDay = n * 24 * 60 * 60 * 1000 /\ MsPerDay = 24 * 60 * 60 * 1000
  BY DEF MsPerDay, MsPerHour, MsPerMinute
<1>6. MsNumber(t) - n * 1000 >= MsPerDay => sn - n >= 24 * 60 * 60
  BY <1>0, <1>2, <1>4, <1>5, Z3
<1>7. MsNumber(t) - n * MsPerMinute >= MsPerDay => mn - n >= 24 * 60
  BY <1>0, <1>2, <1>3, <1>4, <1>5, Z3
<1>8. MsNumber(t) - n * MsPerHour >= MsPerDay => hn - n >= 24
  BY <1>0, <1>2, <1>3, <1>4, <1>5, Z3
<1>9. MsNumber(t) - n * MsPerDay >= MsPerDay => d - n >= 1
  BY <1>0, <1>2, <1>3, <1>4, <1>5, Z3
<1> QED
  BY <1>6, <1>7, <1>8, <1>9 DEF d, hn, mn, sn

(* A call in milliseconds, which is what the clock counts in.              *)
LEMMA AddUnits ==
  ASSUME NEW t \in Date, NEW n \in Nat
  PROVE  /\ AddDays(t, n) \in Date
         /\ MsNumber(AddDays(t, n)) = MsNumber(t) + n * MsPerDay
         /\ AddHours(t, n) \in Date
         /\ MsNumber(AddHours(t, n)) = MsNumber(t) + n * MsPerHour
         /\ AddMinutes(t, n) \in Date
         /\ MsNumber(AddMinutes(t, n)) = MsNumber(t) + n * MsPerMinute
         /\ AddSeconds(t, n) \in Date
         /\ MsNumber(AddSeconds(t, n)) = MsNumber(t) + n * 1000
         /\ AddMilliseconds(t, n) \in Date
         /\ MsNumber(AddMilliseconds(t, n)) = MsNumber(t) + n
<1>1. /\ AddDays(t, n) \in Date
      /\ MsNumber(AddDays(t, n)) = MsNumber(t) + n * MsPerDay
  BY AddDaysRight, ApartInMs, n \in Int
<1>2. /\ AddHours(t, n) \in Date
      /\ MsNumber(AddHours(t, n)) = MsNumber(t) + n * MsPerHour
  BY AddHoursRight, ApartInMs, n \in Int
<1>3. /\ AddMinutes(t, n) \in Date
      /\ MsNumber(AddMinutes(t, n)) = MsNumber(t) + n * MsPerMinute
  BY AddMinutesRight, ApartInMs, n \in Int
<1>4. /\ AddSeconds(t, n) \in Date
      /\ MsNumber(AddSeconds(t, n)) = MsNumber(t) + n * 1000
  BY AddSecondsRight, ApartInMs, n \in Int
<1>5. /\ AddMilliseconds(t, n) \in Date
      /\ MsNumber(AddMilliseconds(t, n)) = MsNumber(t) + n
  BY AddMillisecondsRight
<1> QED
  BY <1>1, <1>2, <1>3, <1>4, <1>5

(* The same for a subtraction that does not lead before year 1.            *)
LEMMA SubtractUnits ==
  ASSUME NEW t \in Date, NEW n \in Nat
  PROVE  /\ MsNumber(t) - n * MsPerDay >= MsPerDay =>
              /\ SubtractDays(t, n) \in Date
              /\ MsNumber(SubtractDays(t, n)) = MsNumber(t) - n * MsPerDay
         /\ MsNumber(t) - n * MsPerHour >= MsPerDay =>
              /\ SubtractHours(t, n) \in Date
              /\ MsNumber(SubtractHours(t, n)) = MsNumber(t) - n * MsPerHour
         /\ MsNumber(t) - n * MsPerMinute >= MsPerDay =>
              /\ SubtractMinutes(t, n) \in Date
              /\ MsNumber(SubtractMinutes(t, n)) = MsNumber(t) - n * MsPerMinute
         /\ MsNumber(t) - n * 1000 >= MsPerDay =>
              /\ SubtractSeconds(t, n) \in Date
              /\ MsNumber(SubtractSeconds(t, n)) = MsNumber(t) - n * 1000
         /\ MsNumber(t) - n >= MsPerDay =>
              /\ SubtractMilliseconds(t, n) \in Date
              /\ MsNumber(SubtractMilliseconds(t, n)) = MsNumber(t) - n
<1>1. ASSUME MsNumber(t) - n * MsPerDay >= MsPerDay
      PROVE  /\ SubtractDays(t, n) \in Date
             /\ MsNumber(SubtractDays(t, n)) = MsNumber(t) - n * MsPerDay
  <2> DEFINE r == SubtractDays(t, n)
  <2>1. r \in Date /\ DayNumber(r) = DayNumber(t) - n
        /\ SameTime(r, t)
    BY <1>1, LateEnough, SubtractDaysRight
  <2>2. DayNumber(r) = DayNumber(t) + (-n) /\ -n \in Int
    BY <2>1, Numbers
  <2>3. MsNumber(r) = MsNumber(t) + (-n) * MsPerDay
    <3> HIDE DEF r
    <3> QED
      BY <2>1, <2>2, ApartInMs
  <2>4. MsNumber(t) + (-n) * MsPerDay = MsNumber(t) - n * MsPerDay
    BY Numbers DEF MsPerDay, MsPerHour, MsPerMinute
  <2> QED
    BY <2>1, <2>3, <2>4
<1>2. ASSUME MsNumber(t) - n * MsPerHour >= MsPerDay
      PROVE  /\ SubtractHours(t, n) \in Date
             /\ MsNumber(SubtractHours(t, n)) = MsNumber(t) - n * MsPerHour
  <2> DEFINE r == SubtractHours(t, n)
  <2>1. r \in Date /\ HourNumber(r) = HourNumber(t) - n
        /\ r.minute = t.minute /\ r.second = t.second /\ r.millisecond = t.millisecond
    BY <1>2, LateEnough, SubtractHoursRight
  <2>2. HourNumber(r) = HourNumber(t) + (-n) /\ -n \in Int
    BY <2>1, Numbers
  <2>3. MsNumber(r) = MsNumber(t) + (-n) * MsPerHour
    <3> HIDE DEF r
    <3> QED
      BY <2>1, <2>2, ApartInMs
  <2>4. MsNumber(t) + (-n) * MsPerHour = MsNumber(t) - n * MsPerHour
    BY Numbers DEF MsPerDay, MsPerHour, MsPerMinute
  <2> QED
    BY <2>1, <2>3, <2>4
<1>3. ASSUME MsNumber(t) - n * MsPerMinute >= MsPerDay
      PROVE  /\ SubtractMinutes(t, n) \in Date
             /\ MsNumber(SubtractMinutes(t, n)) = MsNumber(t) - n * MsPerMinute
  <2> DEFINE r == SubtractMinutes(t, n)
  <2>1. r \in Date /\ MinuteNumber(r) = MinuteNumber(t) - n
        /\ r.second = t.second /\ r.millisecond = t.millisecond
    BY <1>3, LateEnough, SubtractMinutesRight
  <2>2. MinuteNumber(r) = MinuteNumber(t) + (-n) /\ -n \in Int
    BY <2>1, Numbers
  <2>3. MsNumber(r) = MsNumber(t) + (-n) * MsPerMinute
    <3> HIDE DEF r
    <3> QED
      BY <2>1, <2>2, ApartInMs
  <2>4. MsNumber(t) + (-n) * MsPerMinute = MsNumber(t) - n * MsPerMinute
    BY Numbers DEF MsPerDay, MsPerHour, MsPerMinute
  <2> QED
    BY <2>1, <2>3, <2>4
<1>4. ASSUME MsNumber(t) - n * 1000 >= MsPerDay
      PROVE  /\ SubtractSeconds(t, n) \in Date
             /\ MsNumber(SubtractSeconds(t, n)) = MsNumber(t) - n * 1000
  <2> DEFINE r == SubtractSeconds(t, n)
  <2>1. r \in Date /\ SecondNumber(r) = SecondNumber(t) - n
        /\ r.millisecond = t.millisecond
    BY <1>4, LateEnough, SubtractSecondsRight
  <2>2. SecondNumber(r) = SecondNumber(t) + (-n) /\ -n \in Int
    BY <2>1, Numbers
  <2>3. MsNumber(r) = MsNumber(t) + (-n) * 1000
    <3> HIDE DEF r
    <3> QED
      BY <2>1, <2>2, ApartInMs
  <2>4. MsNumber(t) + (-n) * 1000 = MsNumber(t) - n * 1000
    BY Numbers DEF MsPerDay, MsPerHour, MsPerMinute
  <2> QED
    BY <2>1, <2>3, <2>4
<1>5. ASSUME MsNumber(t) - n >= MsPerDay
      PROVE  /\ SubtractMilliseconds(t, n) \in Date
             /\ MsNumber(SubtractMilliseconds(t, n)) = MsNumber(t) - n
  BY <1>5, SubtractMillisecondsRight DEF MsPerDay, MsPerHour, MsPerMinute
<1> QED
  BY <1>1, <1>2, <1>3, <1>4, <1>5
-----------------------------------------------------------------------------
(* The clock: days and milliseconds of the day, against all milliseconds.  *)
LEMMA DividedByDay ==
  ASSUME NEW a \in Int, NEW q \in Int, NEW r \in Nat, r < MsPerDay, a = q * MsPerDay + r
  PROVE  a \div MsPerDay = q /\ a % MsPerDay = r
  BY Z3 DEF MsPerDay, MsPerHour, MsPerMinute

(* Any number of milliseconds is a number of days and a part of a day.     *)
LEMMA DayDivision ==
  ASSUME NEW a \in Int
  PROVE  /\ a \div MsPerDay \in Int /\ a % MsPerDay \in Nat /\ a % MsPerDay < MsPerDay
         /\ a = (a \div MsPerDay) * MsPerDay + (a % MsPerDay)
  BY Z3 DEF MsPerDay, MsPerHour, MsPerMinute

(* The instant of a date is its number of the day and of the millisecond   *)
(* in the day.                                                             *)
LEMMA DateClock ==
  ASSUME NEW t \in Date
  PROVE  /\ Instant(t) = [days |-> DayNumber(t), ms |-> MsOfDay(t)]
         /\ DayNumber(t) \in Int /\ MsOfDay(t) \in Nat /\ MsOfDay(t) < MsPerDay
         /\ MsNumber(t) = DayNumber(t) * MsPerDay + MsOfDay(t)
<1>1. Instant(t) = [days |-> DayNumber(t), ms |-> MsOfDay(t)]
  BY DateInstant DEF DayNumber
<1>2. /\ t.hour \in Nat /\ t.minute \in Nat /\ t.second \in Nat /\ t.millisecond \in Nat
      /\ t.hour <= 23 /\ t.minute <= 59 /\ t.second <= 59 /\ t.millisecond <= 999
  BY TimeFields
<1>3. DayNumber(t) \in Int
  BY Numbers
<1> DEFINE d == DayNumber(t)
           h == t.hour
           m == t.minute
           sec == t.second
           ms == t.millisecond
<1>4. /\ MsOfDay(t) = h * MsPerHour + m * MsPerMinute + sec * 1000 + ms
      /\ MsNumber(t) = (((d * 24 + h) * 60 + m) * 60 + sec) * 1000 + ms
  BY DEF MsOfDay, MsNumber, SecondNumber, MinuteNumber, HourNumber
<1>5. /\ d \in Int /\ h \in Nat /\ m \in Nat /\ sec \in Nat /\ ms \in Nat
      /\ h <= 23 /\ m <= 59 /\ sec <= 59 /\ ms <= 999
  BY <1>2, <1>3
<1> HIDE DEF d, h, m, sec, ms
<1>6. /\ MsOfDay(t) \in Nat /\ MsOfDay(t) < MsPerDay
      /\ MsNumber(t) = d * MsPerDay + MsOfDay(t)
  BY <1>4, <1>5, Z3 DEF MsPerDay, MsPerHour, MsPerMinute
<1> QED
  BY <1>1, <1>3, <1>6 DEF d

(* A date that is as many milliseconds away as the clock has been moved.   *)
LEMMA ClockMoves ==
  ASSUME NEW t \in Date, NEW days \in Int, NEW ms \in Int
  PROVE  /\ Shifted(Instant(t), days, ms).days >= 1 =>
              MsNumber(t) + days * MsPerDay + ms >= MsPerDay
         /\ \A r \in Date : MsNumber(r) = MsNumber(t) + days * MsPerDay + ms =>
              Instant(r) = Shifted(Instant(t), days, ms)
<1> DEFINE d == DayNumber(t)
           s == MsOfDay(t)
           q == (s + ms) \div MsPerDay
           m == (s + ms) % MsPerDay
<1>1. /\ d \in Int /\ s \in Nat /\ s < MsPerDay /\ MsNumber(t) = d * MsPerDay + s
      /\ Shifted(Instant(t), days, ms) = [days |-> d + days + q, ms |-> m]
  BY DateClock DEF Shifted
<1>2. MsPerDay \in Nat /\ MsPerDay > 0
  BY DEF MsPerDay, MsPerHour, MsPerMinute
<1>3. q \in Int /\ m \in Nat /\ m < MsPerDay /\ s + ms = q * MsPerDay + m
  <2>1. s + ms \in Int
    BY <1>1
  <2> HIDE DEF s
  <2> QED
    BY <2>1, DayDivision
<1>4. MsNumber(t) + days * MsPerDay + ms = (d + days + q) * MsPerDay + m
  <2> HIDE DEF d, s, q, m
  <2> QED
    BY <1>1, <1>3, Z3 DEF MsPerDay, MsPerHour, MsPerMinute
<1>5. Shifted(Instant(t), days, ms).days >= 1 =>
        MsNumber(t) + days * MsPerDay + ms >= MsPerDay
  <2> HIDE DEF d, s, q, m
  <2>1. SUFFICES ASSUME d + days + q >= 1
                 PROVE  (d + days + q) * MsPerDay + m >= MsPerDay
    BY <1>1, <1>4
  <2> QED
    BY <1>1, <1>3, <2>1, Z3 DEF MsPerDay, MsPerHour, MsPerMinute
<1>6. ASSUME NEW r \in Date, MsNumber(r) = MsNumber(t) + days * MsPerDay + ms
      PROVE  Instant(r) = Shifted(Instant(t), days, ms)
  <2>1. /\ Instant(r) = [days |-> DayNumber(r), ms |-> MsOfDay(r)]
        /\ DayNumber(r) \in Int /\ MsOfDay(r) \in Nat /\ MsOfDay(r) < MsPerDay
        /\ MsNumber(r) = DayNumber(r) * MsPerDay + MsOfDay(r)
    BY DateClock
  <2>2. DayNumber(r) = d + days + q /\ MsOfDay(r) = m
    <3> DEFINE e == DayNumber(r)
               v == MsOfDay(r)
    <3>1. /\ e \in Int /\ v \in Nat /\ v < MsPerDay
          /\ e * MsPerDay + v = (d + days + q) * MsPerDay + m
      BY <1>4, <1>6, <2>1
    <3> HIDE DEF d, s, q, m, e, v
    <3>2. e = d + days + q /\ v = m
      BY <1>1, <1>3, <3>1, Z3 DEF MsPerDay, MsPerHour, MsPerMinute
    <3> QED
      BY <3>2 DEF e, v
  <2> QED
    BY <1>1, <2>1, <2>2
<1> QED
  BY <1>5, <1>6
-----------------------------------------------------------------------------
(* How long a duration is, and the durations there are.                    *)
Total(days, hours, minutes, seconds, ms) ==
  days * MsPerDay + hours * MsPerHour + minutes * MsPerMinute + seconds * 1000 + ms

Length(dur) == Total(dur.days, dur.hours, dur.minutes, dur.seconds, dur.ms)

Durations ==
  [days : Nat, hours : Nat, minutes : Nat, seconds : Nat, ms : Nat, negative : BOOLEAN]

(* What the constructor is to do, in one word so that it can be cited for   *)
(* given numbers: it loses nothing by carrying.                            *)
Sound(days, hours, minutes, seconds, ms) ==
  /\ Duration(days, hours, minutes, seconds, ms, FALSE) \in Durations
  /\ Length(Duration(days, hours, minutes, seconds, ms, FALSE))
       = Total(days, hours, minutes, seconds, ms)

(* The constructor of Duration loses nothing by carrying.                  *)
LEMMA DurationSound ==
  ASSUME NEW days \in Nat, NEW hours \in Nat, NEW minutes \in Nat,
         NEW seconds \in Nat, NEW ms \in Nat
  PROVE  Sound(days, hours, minutes, seconds, ms)
<1> DEFINE s == seconds + ms \div 1000
           m == minutes + s \div 60
           h == hours + m \div 60
           dur == Duration(days, hours, minutes, seconds, ms, FALSE)
<1>1. /\ ms \div 1000 \in Nat /\ ms % 1000 \in Nat
      /\ ms = (ms \div 1000) * 1000 + (ms % 1000)
  BY Z3
<1>2. s \in Nat
  BY <1>1
<1>3. s \div 60 \in Nat /\ s % 60 \in Nat /\ s = (s \div 60) * 60 + (s % 60)
  <2> HIDE DEF s
  <2> QED
    BY <1>2, Z3
<1>4. m \in Nat
  BY <1>3
<1>5. m \div 60 \in Nat /\ m % 60 \in Nat /\ m = (m \div 60) * 60 + (m % 60)
  <2> HIDE DEF m
  <2> QED
    BY <1>4, Z3
<1>6. h \in Nat
  BY <1>5
<1>7. h \div 24 \in Nat /\ h % 24 \in Nat /\ h = (h \div 24) * 24 + (h % 24)
  <2> HIDE DEF h
  <2> QED
    BY <1>6, Z3
<1>8. dur = [days |-> days + h \div 24, hours |-> h % 24, minutes |-> m % 60,
             seconds |-> s % 60, ms |-> ms % 1000, negative |-> FALSE]
  BY DEF Duration
<1> HIDE DEF dur
<1>9. dur \in Durations
  <2> HIDE DEF h, m, s
  <2> QED
    BY <1>1, <1>3, <1>5, <1>7, <1>8 DEF Durations
<1>10. Length(dur) = Total(days, hours, minutes, seconds, ms)
  <2> DEFINE hq == h \div 24
             hr == h % 24
             mq == m \div 60
             mr == m % 60
             sq == s \div 60
             sr == s % 60
             q == ms \div 1000
             r == ms % 1000
  <2>1. Length(dur) = (days + hq) * MsPerDay + hr * MsPerHour + mr * MsPerMinute
                        + sr * 1000 + r
    BY <1>8 DEF Length, Total
  <2>2. /\ hours + mq = hq * 24 + hr /\ minutes + sq = mq * 60 + mr
        /\ seconds + q = sq * 60 + sr /\ ms = q * 1000 + r
    BY <1>1, <1>3, <1>5, <1>7
  <2>3. /\ hq \in Nat /\ hr \in Nat /\ mq \in Nat /\ mr \in Nat
        /\ sq \in Nat /\ sr \in Nat /\ q \in Nat /\ r \in Nat
    BY <1>1, <1>3, <1>5, <1>7
  <2> HIDE DEF hq, hr, mq, mr, sq, sr, q, r, h, m, s
  <2> QED
    BY <2>1, <2>2, <2>3, Z3 DEF Total, MsPerDay, MsPerHour, MsPerMinute
<1> QED
  BY <1>9, <1>10 DEF dur, Sound

(* add, for a duration that is not negative: unit by unit.                 *)
LEMMA AddRight ==
  ASSUME NEW t \in Date, NEW dur \in Durations, ~dur.negative
  PROVE  Add(t, dur) \in Date /\ MsNumber(Add(t, dur)) = MsNumber(t) + Length(dur)
<1>1. PICK d \in Nat, h \in Nat, m \in Nat, sec \in Nat, ms \in Nat :
        /\ d = dur.days /\ h = dur.hours /\ m = dur.minutes
        /\ sec = dur.seconds /\ ms = dur.ms
  <2>1. /\ dur.days \in Nat /\ dur.hours \in Nat /\ dur.minutes \in Nat
        /\ dur.seconds \in Nat /\ dur.ms \in Nat
    BY DEF Durations
  <2> QED
    BY <2>1, Zenon
<1> DEFINE t1 == AddMilliseconds(t, ms)
           t2 == AddSeconds(t1, sec)
           t3 == AddMinutes(t2, m)
           t4 == AddHours(t3, h)
           t5 == AddDays(t4, d)
<1>2. Add(t, dur) = t5
  BY <1>1 DEF Add
<1>3. t1 \in Date /\ MsNumber(t1) = MsNumber(t) + ms
  BY AddUnits
<1> HIDE DEF t1
<1>4. t2 \in Date /\ MsNumber(t2) = MsNumber(t1) + sec * 1000
  <2>1. PICK s \in Date : s = t1
    BY <1>3
  <2>2. /\ AddSeconds(s, sec) \in Date
        /\ MsNumber(AddSeconds(s, sec)) = MsNumber(s) + sec * 1000
    BY AddUnits
  <2> QED
    BY <2>1, <2>2
<1> HIDE DEF t2
<1>5. t3 \in Date /\ MsNumber(t3) = MsNumber(t2) + m * MsPerMinute
  <2>1. PICK s \in Date : s = t2
    BY <1>4
  <2>2. /\ AddMinutes(s, m) \in Date
        /\ MsNumber(AddMinutes(s, m)) = MsNumber(s) + m * MsPerMinute
    BY AddUnits
  <2> QED
    BY <2>1, <2>2
<1> HIDE DEF t3
<1>6. t4 \in Date /\ MsNumber(t4) = MsNumber(t3) + h * MsPerHour
  <2>1. PICK s \in Date : s = t3
    BY <1>5
  <2>2. /\ AddHours(s, h) \in Date
        /\ MsNumber(AddHours(s, h)) = MsNumber(s) + h * MsPerHour
    BY AddUnits
  <2> QED
    BY <2>1, <2>2
<1> HIDE DEF t4
<1>7. t5 \in Date /\ MsNumber(t5) = MsNumber(t4) + d * MsPerDay
  <2>1. PICK s \in Date : s = t4
    BY <1>6
  <2>2. /\ AddDays(s, d) \in Date
        /\ MsNumber(AddDays(s, d)) = MsNumber(s) + d * MsPerDay
    BY AddUnits
  <2> QED
    BY <2>1, <2>2
<1> HIDE DEF t5
<1>8. MsNumber(t5) = MsNumber(t) + Length(dur)
  <2>1. /\ MsNumber(t) \in Int /\ MsNumber(t1) \in Int /\ MsNumber(t2) \in Int
        /\ MsNumber(t3) \in Int /\ MsNumber(t4) \in Int /\ MsNumber(t5) \in Int
    BY <1>3, <1>4, <1>5, <1>6, <1>7, Numbers
  <2>2. d * MsPerDay \in Nat /\ h * MsPerHour \in Nat /\ m * MsPerMinute \in Nat
    BY DEF MsPerDay, MsPerHour, MsPerMinute
  <2>3. Length(dur) = d * MsPerDay + h * MsPerHour + m * MsPerMinute + sec * 1000 + ms
    BY <1>1 DEF Length, Total
  <2> QED
    BY <1>3, <1>4, <1>5, <1>6, <1>7, <2>1, <2>2, <2>3
<1> QED
  BY <1>2, <1>7, <1>8

(* The same for a negative one that does not lead before year 1.           *)
LEMMA AddNegativeRight ==
  ASSUME NEW t \in Date, NEW dur \in Durations, dur.negative,
         MsNumber(t) - Length(dur) >= MsPerDay
  PROVE  Add(t, dur) \in Date /\ MsNumber(Add(t, dur)) = MsNumber(t) - Length(dur)
<1>1. /\ dur.days \in Nat /\ dur.hours \in Nat /\ dur.minutes \in Nat
      /\ dur.seconds \in Nat /\ dur.ms \in Nat
  BY DEF Durations
<1> DEFINE t1 == SubtractMilliseconds(t, dur.ms)
           t2 == SubtractSeconds(t1, dur.seconds)
           t3 == SubtractMinutes(t2, dur.minutes)
           t4 == SubtractHours(t3, dur.hours)
           t5 == SubtractDays(t4, dur.days)
           x1 == dur.ms
           x2 == dur.seconds * 1000
           x3 == dur.minutes * MsPerMinute
           x4 == dur.hours * MsPerHour
           x5 == dur.days * MsPerDay
<1>2. Add(t, dur) = t5
  BY DEF Add
<1>3. /\ x1 \in Nat /\ x2 \in Nat /\ x3 \in Nat /\ x4 \in Nat /\ x5 \in Nat
      /\ MsPerDay \in Nat
  BY <1>1 DEF MsPerDay, MsPerHour, MsPerMinute
<1>4. MsNumber(t) \in Int /\ MsNumber(t) - (x5 + x4 + x3 + x2 + x1) >= MsPerDay
      /\ Length(dur) = x5 + x4 + x3 + x2 + x1
  BY Numbers DEF Length, Total
<1>5. t1 \in Date /\ MsNumber(t1) = MsNumber(t) - x1
  <2>1. MsNumber(t) - x1 >= MsPerDay
    <3> HIDE DEF x1, x2, x3, x4, x5
    <3> QED
      BY <1>3, <1>4
  <2> QED
    BY <1>1, <2>1, SubtractUnits
<1> HIDE DEF t1
<1>6. t2 \in Date /\ MsNumber(t2) = MsNumber(t1) - x2
  <2>1. MsNumber(t1) - x2 >= MsPerDay
    <3> HIDE DEF x1, x2, x3, x4, x5
    <3> QED
      BY <1>3, <1>4, <1>5
  <2> QED
    BY <1>1, <1>5, <2>1, SubtractUnits
<1> HIDE DEF t2
<1>7. t3 \in Date /\ MsNumber(t3) = MsNumber(t2) - x3
  <2>1. MsNumber(t2) - x3 >= MsPerDay
    <3> HIDE DEF x1, x2, x3, x4, x5
    <3> QED
      BY <1>3, <1>4, <1>5, <1>6
  <2> QED
    BY <1>1, <1>6, <2>1, SubtractUnits
<1> HIDE DEF t3
<1>8. t4 \in Date /\ MsNumber(t4) = MsNumber(t3) - x4
  <2>1. MsNumber(t3) - x4 >= MsPerDay
    <3> HIDE DEF x1, x2, x3, x4, x5
    <3> QED
      BY <1>3, <1>4, <1>5, <1>6, <1>7
  <2> QED
    BY <1>1, <1>7, <2>1, SubtractUnits
<1> HIDE DEF t4
<1>9. t5 \in Date /\ MsNumber(t5) = MsNumber(t4) - x5
  <2>1. MsNumber(t4) - x5 >= MsPerDay
    <3> HIDE DEF x1, x2, x3, x4, x5
    <3> QED
      BY <1>3, <1>4, <1>5, <1>6, <1>7, <1>8
  <2> QED
    BY <1>1, <1>8, <2>1, SubtractUnits
<1> HIDE DEF t5, x1, x2, x3, x4, x5
<1>10. MsNumber(t5) = MsNumber(t) - Length(dur)
  BY <1>3, <1>4, <1>5, <1>6, <1>7, <1>8, <1>9
<1> QED
  BY <1>2, <1>9, <1>10
-----------------------------------------------------------------------------
(* What every step keeps: both dates exist, and the clock is right.        *)
IInv == KeepsTime /\ start \in Date

(* A call whose date is as far away as the call says.                      *)
LEMMA CallKeeps ==
  ASSUME IInv, NEW r, NEW days \in Int, NEW ms \in Int,
         MsNumber(now) + days * MsPerDay + ms >= MsPerDay =>
           r \in Date /\ MsNumber(r) = MsNumber(now) + days * MsPerDay + ms,
         Call(r, days, ms)
  PROVE  IInv'
<1>1. now \in Date /\ Instant(now) = clock /\ start \in Date
  BY DEF IInv, KeepsTime
<1>2. /\ Shifted(clock, days, ms).days >= 1
      /\ now' = r /\ clock' = Shifted(clock, days, ms) /\ start' = start
  BY DEF Call
<1>3. MsNumber(now) + days * MsPerDay + ms >= MsPerDay
  BY <1>1, <1>2, ClockMoves
<1>4. r \in Date /\ MsNumber(r) = MsNumber(now) + days * MsPerDay + ms
  BY <1>3
<1>5. Instant(r) = Shifted(clock, days, ms)
  BY <1>1, <1>4, ClockMoves
<1> QED
  BY <1>1, <1>2, <1>4, <1>5, Zenon DEF IInv, KeepsTime

(* add and subtract of days keep the invariant (DateTime.cpp, addDays and  *)
(* subtractDays).                                                          *)
LEMMA DaysKeeps ==
  ASSUME IInv, NEW n \in Nat, Days(n)
  PROVE  IInv'
<1>1. now \in Date /\ MsNumber(now) \in Int
  BY Numbers DEF IInv, KeepsTime
<1>2. n * MsPerDay \in Int /\ (-n) * MsPerDay = -(n * MsPerDay) /\ MsPerDay \in Int /\ -n \in Int
  BY DEF MsPerDay, MsPerHour, MsPerMinute
<1>3. CASE Call(AddDays(now, n), n, 0)
  <2>1. /\ AddDays(now, n) \in Date
        /\ MsNumber(AddDays(now, n)) = MsNumber(now) + n * MsPerDay + 0
    BY <1>1, <1>2, AddUnits
  <2> QED
    BY <1>3, <2>1, CallKeeps, n \in Int
<1>4. CASE Call(SubtractDays(now, n), -n, 0)
  <2>1. MsNumber(now) + (-n) * MsPerDay + 0 >= MsPerDay =>
          /\ SubtractDays(now, n) \in Date
          /\ MsNumber(SubtractDays(now, n)) = MsNumber(now) + (-n) * MsPerDay + 0
    BY <1>1, <1>2, SubtractUnits
  <2> QED
    BY <1>2, <1>4, <2>1, CallKeeps
<1> QED
  BY <1>3, <1>4 DEF Days

(* The same of hours, which carry into days.                               *)
LEMMA HoursKeeps ==
  ASSUME IInv, NEW n \in Nat, Hours(n)
  PROVE  IInv'
<1>1. now \in Date /\ MsNumber(now) \in Int
  BY Numbers DEF IInv, KeepsTime
<1> DEFINE days == n \div 24
           ms == (n % 24) * MsPerHour
<1>2. days \in Nat /\ n % 24 \in Nat /\ n = days * 24 + (n % 24)
  BY Z3
<1>3. /\ n * MsPerHour = days * MsPerDay + ms /\ n * MsPerHour \in Int
      /\ days * MsPerDay \in Int /\ ms \in Int /\ MsPerDay \in Int
      /\ (-days) * MsPerDay = -(days * MsPerDay) /\ -days \in Int /\ -ms \in Int
  <2> DEFINE m == n % 24
  <2> HIDE DEF days, m
  <2> QED
    BY <1>2, Z3 DEF m, MsPerDay, MsPerHour, MsPerMinute
<1>4. CASE Call(AddHours(now, n), days, ms)
  <2>1. /\ AddHours(now, n) \in Date
        /\ MsNumber(AddHours(now, n)) = MsNumber(now) + days * MsPerDay + ms
    <3> HIDE DEF days, ms
    <3> QED
      BY <1>1, <1>3, AddUnits
  <2> HIDE DEF days, ms
  <2> QED
    BY <1>2, <1>3, <1>4, <2>1, CallKeeps, days \in Int
<1>5. CASE Call(SubtractHours(now, n), -days, -ms)
  <2> HIDE DEF days, ms
  <2>1. MsNumber(now) + (-days) * MsPerDay + (-ms) = MsNumber(now) - n * MsPerHour
    BY <1>1, <1>3
  <2>2. MsNumber(now) + (-days) * MsPerDay + (-ms) >= MsPerDay =>
          /\ SubtractHours(now, n) \in Date
          /\ MsNumber(SubtractHours(now, n)) = MsNumber(now) + (-days) * MsPerDay + (-ms)
    BY <1>1, <2>1, SubtractUnits
  <2> QED
    BY <1>3, <1>5, <2>2, CallKeeps
<1> QED
  BY <1>4, <1>5 DEF Hours

(* The same of milliseconds, which carry through all units.                *)
LEMMA MillisecondsKeeps ==
  ASSUME IInv, NEW n \in Nat, Milliseconds(n)
  PROVE  IInv'
<1>1. now \in Date /\ MsNumber(now) \in Int
  BY Numbers DEF IInv, KeepsTime
<1>2. 0 * MsPerDay = 0 /\ MsPerDay \in Int /\ -n \in Int /\ n \in Int /\ 0 \in Int
  BY DEF MsPerDay, MsPerHour, MsPerMinute
<1>3. CASE Call(AddMilliseconds(now, n), 0, n)
  <2>1. /\ AddMilliseconds(now, n) \in Date
        /\ MsNumber(AddMilliseconds(now, n)) = MsNumber(now) + 0 * MsPerDay + n
    BY <1>1, <1>2, AddUnits
  <2> QED
    BY <1>2, <1>3, <2>1, CallKeeps
<1>4. CASE Call(SubtractMilliseconds(now, n), 0, -n)
  <2>1. MsNumber(now) + 0 * MsPerDay + (-n) = MsNumber(now) - n
    BY <1>1, <1>2
  <2>2. MsNumber(now) + 0 * MsPerDay + (-n) >= MsPerDay =>
          /\ SubtractMilliseconds(now, n) \in Date
          /\ MsNumber(SubtractMilliseconds(now, n)) = MsNumber(now) + 0 * MsPerDay + (-n)
    BY <1>1, <2>1, SubtractUnits
  <2> QED
    BY <1>2, <1>4, <2>2, CallKeeps
<1> QED
  BY <1>3, <1>4 DEF Milliseconds

(* The same of a duration that has something of every unit.                *)
LEMMA EverythingKeeps ==
  ASSUME IInv, NEW n \in Nat, Everything(n)
  PROVE  IInv'
<1>1. now \in Date /\ MsNumber(now) \in Int
  BY Numbers DEF IInv, KeepsTime
<1> DEFINE dur == Duration(n, n, n, n, n, FALSE)
           back == [dur EXCEPT !.negative = ~@]
           days == n + n \div 24
           ms == (n % 24) * MsPerHour + n * (MsPerMinute + 1001)
<1>2. /\ dur \in Durations /\ dur.negative = FALSE
      /\ Length(dur) = n * MsPerDay + n * MsPerHour + n * MsPerMinute + n * 1000 + n
  <2>0. Sound(n, n, n, n, n)
    BY DurationSound
  <2>1. dur \in Durations
    BY <2>0 DEF Sound
  <2>2. dur.negative = FALSE
    BY DEF Duration
  <2>3. Length(dur) = n * MsPerDay + n * MsPerHour + n * MsPerMinute + n * 1000 + n
    BY <2>0 DEF Sound, Total
  <2> QED
    BY <2>1, <2>2, <2>3
<1>3. CASE Call(Add(now, dur), days, ms) \/ Call(Subtract(now, dur), -days, -ms)
  <2>1. back \in Durations /\ back.negative /\ Length(back) = Length(dur)
    <3> HIDE DEF dur
    <3>1. back = [dur EXCEPT !.negative = TRUE]
      BY <1>2 DEF Durations
    <3> HIDE DEF back
    <3>2. back.negative = TRUE
      BY <1>2, <3>1, ZenonT(40) DEF Durations
    <3>4. back \in Durations
      BY <1>2, <3>1 DEF Durations
    <3>3. /\ back.days = dur.days /\ back.hours = dur.hours
          /\ back.minutes = dur.minutes /\ back.seconds = dur.seconds /\ back.ms = dur.ms
      BY <1>2, <3>1 DEF Durations
    <3> QED
      BY <3>2, <3>3, <3>4, Zenon DEF Length
  <2>2. Subtract(now, dur) = Add(now, back)
    BY DEF Subtract
  <2> HIDE DEF dur, back
  <2>3. n \div 24 \in Nat /\ n % 24 \in Nat /\ n = (n \div 24) * 24 + (n % 24)
    BY Z3
  <2>4. /\ days \in Int /\ ms \in Int /\ -days \in Int /\ -ms \in Int
        /\ Length(dur) = days * MsPerDay + ms /\ days * MsPerDay \in Int
        /\ (-days) * MsPerDay = -(days * MsPerDay) /\ MsPerDay \in Int
    <3> DEFINE q == n \div 24
               m == n % 24
    <3>1. q \in Nat /\ m \in Nat /\ n = q * 24 + m
      BY <2>3
    <3> HIDE DEF q, m
    <3> QED
      BY <1>2, <3>1, Z3 DEF q, m, MsPerDay, MsPerHour, MsPerMinute
  <2> HIDE DEF days, ms
  <2>5. CASE Call(Add(now, dur), days, ms)
    <3>1. /\ Add(now, dur) \in Date
          /\ MsNumber(Add(now, dur)) = MsNumber(now) + days * MsPerDay + ms
      BY <1>1, <1>2, <2>4, AddRight
    <3> QED
      BY <2>4, <2>5, <3>1, CallKeeps
  <2>6. CASE Call(Subtract(now, dur), -days, -ms)
    <3>1. MsNumber(now) + (-days) * MsPerDay + (-ms) = MsNumber(now) - Length(back)
      BY <1>1, <2>1, <2>4
    <3>2. MsNumber(now) + (-days) * MsPerDay + (-ms) >= MsPerDay =>
            /\ Subtract(now, dur) \in Date
            /\ MsNumber(Subtract(now, dur)) = MsNumber(now) + (-days) * MsPerDay + (-ms)
      BY <1>1, <2>1, <2>2, <3>1, AddNegativeRight
    <3> QED
      BY <2>4, <2>6, <3>2, CallKeeps
  <2> QED
    BY <1>3, <2>5, <2>6
<1> QED
  BY <1>3, ZenonT(40) DEF Everything
-----------------------------------------------------------------------------
(* A month is over when a later one begins, and a year when a later one    *)
(* does.                                                                   *)
LEMMA LaterMonth ==
  ASSUME NEW y \in Int, NEW m \in 1 .. 12, NEW n \in 1 .. 12, m < n
  PROVE  MonthStart(y, m) + DaysInMonth(y, m) <= MonthStart(y, n)
<1> DEFINE over == MonthStart(y, m) + DaysInMonth(y, m)
           H == {k \in m + 1 .. 12 : over <= MonthStart(y, k)}
<1> HIDE DEF H
<1>0. m < 12
  OBVIOUS
<1>1. over \in Int
  <2>1. MonthStart(y, m) \in Nat /\ DaysInMonth(y, m) \in 28 .. 31
    BY NextMonth
  <2> QED
    BY <2>1
<1> USE DEF H
<1>2. m + 1 \in H
  <2>1. MonthStart(y, m + 1) = MonthStart(y, m) + DaysInMonth(y, m)
    <3> HIDE DEF H, over
    <3> QED
      BY <1>0, NextMonth
  <2>2. m + 1 \in m + 1 .. 12
    OBVIOUS
  <2>3. over <= MonthStart(y, m + 1)
    BY <1>1, <2>1
  <2> QED
    BY <2>2, <2>3
<1> HIDE DEF over
<1>3. ASSUME NEW k \in (m + 1) + 1 .. 12, k - 1 \in H PROVE k \in H
  <2>1. k - 1 \in 1 .. 12 /\ k - 1 < 12 /\ (k - 1) + 1 = k /\ k \in m + 1 .. 12
    OBVIOUS
  <2>2. /\ MonthStart(y, (k - 1) + 1) = MonthStart(y, k - 1) + DaysInMonth(y, k - 1)
        /\ MonthStart(y, k - 1) \in Nat /\ DaysInMonth(y, k - 1) \in 28 .. 31
    BY <2>1, NextMonth
  <2>3. over <= MonthStart(y, k - 1)
    BY <1>3
  <2>4. over <= MonthStart(y, k)
    BY <1>1, <2>1, <2>2, <2>3
  <2> QED
    BY <2>1, <2>4
<1>4. m + 1 .. 12 \subseteq H
  <2> HIDE DEF H
  <2> QED
    BY <1>2, <1>3, Upwards
<1>5. n \in m + 1 .. 12
  OBVIOUS
<1> QED
  BY <1>4, <1>5 DEF over

(* A date in a later year has a later day: its year begins after the day   *)
(* of the year that the other one can have.                                *)
LEMMA LaterYear ==
  ASSUME NEW s \in Date, NEW t \in Date, s.year < t.year
  PROVE  DayNumber(s) < DayNumber(t)
<1>1. PICK y \in Int, z \in Int : y = s.year /\ z = t.year /\ y < z
  BY DateFields
<1>2. DayOfYear(s) \in 1 .. DaysInYear(y) /\ DayOfYear(t) \in 1 .. DaysInYear(z)
  BY <1>1, DateInstant
<1>3. /\ YearStart(y + 1) = YearStart(y) + DaysInYear(y) /\ YearStart(y) \in Int
      /\ DaysInYear(y) \in {365, 366} /\ DaysInYear(z) \in {365, 366}
      /\ YearStart(z) \in Int
  BY NextYear
<1>4. YearStart(z) - YearStart(y + 1) >= 365 * (z - (y + 1))
  <2>1. y + 1 \in Int /\ y + 1 <= z
    BY <1>1
  <2> QED
    BY <2>1, YearsApart
<1>5. DayNumber(s) = YearStart(y) + DayOfYear(s) /\ DayNumber(t) = YearStart(z) + DayOfYear(t)
  BY <1>1 DEF DayNumber
<1> QED
  BY <1>1, <1>2, <1>3, <1>4, <1>5

(* Of two dates, the one that is smaller in the first field that differs   *)
(* comes first.                                                            *)
LEMMA FirstDifference ==
  ASSUME NEW s \in Date, NEW t \in Date
  PROVE  /\ s.year < t.year => Before(Instant(s), Instant(t))
         /\ s.year = t.year =>
              /\ s.month < t.month => Before(Instant(s), Instant(t))
              /\ s.month = t.month =>
                   /\ s.day < t.day => Before(Instant(s), Instant(t))
                   /\ s.day = t.day =>
                        /\ DayNumber(s) = DayNumber(t)
                        /\ MsOfDay(s) < MsOfDay(t) => Before(Instant(s), Instant(t))
<1>1. /\ Before(Instant(s), Instant(t)) <=>
           \/ DayNumber(s) < DayNumber(t)
           \/ DayNumber(s) = DayNumber(t) /\ MsOfDay(s) < MsOfDay(t)
      /\ DayNumber(s) \in Int /\ DayNumber(t) \in Int
  <2>1. /\ Instant(s).days = DayNumber(s) /\ Instant(s).ms = MsOfDay(s)
        /\ Instant(t).days = DayNumber(t) /\ Instant(t).ms = MsOfDay(t)
        /\ DayNumber(s) \in Int /\ DayNumber(t) \in Int
    BY DateClock
  <2> QED
    BY <2>1 DEF Before
<1>2. s.year < t.year => DayNumber(s) < DayNumber(t)
  BY LaterYear
<1>3. ASSUME s.year = t.year
      PROVE  /\ s.month < t.month => DayNumber(s) < DayNumber(t)
             /\ s.month = t.month /\ s.day < t.day => DayNumber(s) < DayNumber(t)
             /\ s.month = t.month /\ s.day = t.day => DayNumber(s) = DayNumber(t)
  <2>1. PICK y \in Int, m \in 1 .. 12, n \in 1 .. 12, d \in 1 .. 31, e \in 1 .. 31 :
          /\ y = s.year /\ y = t.year /\ m = s.month /\ n = t.month
          /\ d = s.day /\ e = t.day /\ d <= DaysInMonth(y, m)
    <3>1. /\ s.year \in Int /\ s.month \in 1 .. 12 /\ s.day \in 1 .. 31
          /\ s.day <= DaysInMonth(s.year, s.month)
          /\ t.month \in 1 .. 12 /\ t.day \in 1 .. 31
      BY DateFields
    <3>2. PICK y \in Int : y = s.year
      BY <3>1
    <3>3. y = t.year
      BY <1>3, <3>2
    <3> QED
      BY <3>1, <3>2, <3>3, Zenon
  <2>2. /\ DayNumber(s) = YearStart(y) + (MonthStart(y, m) + d)
        /\ DayNumber(t) = YearStart(y) + (MonthStart(y, n) + e)
    BY <2>1, DateInstant DEF DayNumber
  <2>3. /\ YearStart(y) \in Int /\ MonthStart(y, m) \in Nat /\ MonthStart(y, n) \in Nat
        /\ DaysInMonth(y, m) \in 28 .. 31
    BY NextYear, NextMonth
  <2>4. m < n => MonthStart(y, m) + DaysInMonth(y, m) <= MonthStart(y, n)
    BY LaterMonth
  <2>5. m < n => DayNumber(s) < DayNumber(t)
    BY <2>1, <2>2, <2>3, <2>4
  <2>6. m = n /\ d < e => DayNumber(s) < DayNumber(t)
    BY <2>2, <2>3
  <2>7. m = n /\ d = e => DayNumber(s) = DayNumber(t)
    BY <2>2
  <2> QED
    BY <2>1, <2>5, <2>6, <2>7
<1> QED
  BY <1>1, <1>2, <1>3

(* The same for the time of the day.                                       *)
LEMMA FirstDifferenceOfTime ==
  ASSUME NEW s \in Date, NEW t \in Date
  PROVE  /\ s.hour < t.hour => MsOfDay(s) < MsOfDay(t)
         /\ s.hour = t.hour =>
              /\ s.minute < t.minute => MsOfDay(s) < MsOfDay(t)
              /\ s.minute = t.minute =>
                   /\ s.second < t.second => MsOfDay(s) < MsOfDay(t)
                   /\ s.second = t.second =>
                        /\ s.millisecond < t.millisecond => MsOfDay(s) < MsOfDay(t)
                        /\ s.millisecond = t.millisecond => MsOfDay(s) = MsOfDay(t)
<1> DEFINE a == s.hour
           b == s.minute
           c == s.second
           d == s.millisecond
           e == t.hour
           f == t.minute
           g == t.second
           h == t.millisecond
<1>1. /\ a \in Nat /\ b \in Nat /\ c \in Nat /\ d \in Nat
      /\ a <= 23 /\ b <= 59 /\ c <= 59 /\ d <= 999
      /\ e \in Nat /\ f \in Nat /\ g \in Nat /\ h \in Nat
      /\ e <= 23 /\ f <= 59 /\ g <= 59 /\ h <= 999
  <2>1. /\ a \in Nat /\ b \in Nat /\ c \in Nat /\ d \in Nat
        /\ a <= 23 /\ b <= 59 /\ c <= 59 /\ d <= 999
    BY TimeFields
  <2>2. /\ e \in Nat /\ f \in Nat /\ g \in Nat /\ h \in Nat
        /\ e <= 23 /\ f <= 59 /\ g <= 59 /\ h <= 999
    BY TimeFields
  <2> QED
    BY <2>1, <2>2
<1>2. /\ MsOfDay(s) = a * MsPerHour + b * MsPerMinute + c * 1000 + d
      /\ MsOfDay(t) = e * MsPerHour + f * MsPerMinute + g * 1000 + h
  BY DEF MsOfDay
<1> HIDE DEF a, b, c, d, e, f, g, h
<1>3. /\ a < e => MsOfDay(s) < MsOfDay(t)
      /\ a = e =>
           /\ b < f => MsOfDay(s) < MsOfDay(t)
           /\ b = f =>
                /\ c < g => MsOfDay(s) < MsOfDay(t)
                /\ c = g =>
                     /\ d < h => MsOfDay(s) < MsOfDay(t)
                     /\ d = h => MsOfDay(s) = MsOfDay(t)
  BY <1>1, <1>2, Z3 DEF MsPerHour, MsPerMinute
<1> QED
  BY <1>3 DEF a, b, c, d, e, f, g, h

(* The fields of a date are integers, which compare may order.             *)
LEMMA DateNumbers ==
  ASSUME NEW t \in Date
  PROVE  /\ t.year \in Int /\ t.month \in Int /\ t.day \in Int /\ t.hour \in Int
         /\ t.minute \in Int /\ t.second \in Int /\ t.millisecond \in Int
<1>1. t.year \in Int /\ t.month \in Int /\ t.day \in Int
  BY DateFields
<1>2. t.hour \in Int /\ t.minute \in Int /\ t.second \in Int /\ t.millisecond \in Int
  BY TimeFields
<1> QED
  BY <1>1, <1>2

(* What compare looks for.                                                 *)
Differ(s, t) == {i \in 1 .. 7 : s[InOrder[i]] # t[InOrder[i]]}

(* The first field that differs, from the year on, tells which of two      *)
(* dates is earlier.                                                       *)
LEMMA Difference ==
  ASSUME NEW s \in Date, NEW t \in Date, NEW i \in 1 .. 7,
         \A j \in 1 .. 7 : j < i => s[InOrder[j]] = t[InOrder[j]],
         s[InOrder[i]] # t[InOrder[i]]
  PROVE  /\ s[InOrder[i]] < t[InOrder[i]] => Before(Instant(s), Instant(t))
         /\ ~(s[InOrder[i]] < t[InOrder[i]]) => Before(Instant(t), Instant(s))
<1>1. /\ InOrder[1] = "year" /\ InOrder[2] = "month" /\ InOrder[3] = "day"
      /\ InOrder[4] = "hour" /\ InOrder[5] = "minute" /\ InOrder[6] = "second"
      /\ InOrder[7] = "millisecond"
  BY DEF InOrder
<1>2. ASSUME NEW u \in Date
      PROVE  /\ u.year \in Int /\ u.month \in Int /\ u.day \in Int /\ u.hour \in Int
             /\ u.minute \in Int /\ u.second \in Int /\ u.millisecond \in Int
  BY DateNumbers
<1>3. /\ i > 1 => s.year = t.year
      /\ i > 2 => s.month = t.month
      /\ i > 3 => s.day = t.day
      /\ i > 4 => s.hour = t.hour
      /\ i > 5 => s.minute = t.minute
      /\ i > 6 => s.second = t.second
  BY <1>1
<1>4. CASE i = 1
  BY <1>1, <1>2, <1>4, FirstDifference
<1>5. CASE i = 2
  BY <1>1, <1>2, <1>3, <1>5, FirstDifference
<1>6. CASE i = 3
  BY <1>1, <1>2, <1>3, <1>6, FirstDifference
<1>7. CASE i > 3
  <2>1. s.year = t.year /\ s.month = t.month /\ s.day = t.day
    BY <1>3, <1>7
  <2>2. /\ MsOfDay(s) < MsOfDay(t) => Before(Instant(s), Instant(t))
        /\ MsOfDay(t) < MsOfDay(s) => Before(Instant(t), Instant(s))
    BY <2>1, FirstDifference
  <2>3. CASE i = 4
    BY <1>1, <1>2, <2>2, <2>3, FirstDifferenceOfTime
  <2>4. CASE i = 5
    BY <1>1, <1>2, <1>3, <2>2, <2>4, FirstDifferenceOfTime
  <2>5. CASE i = 6
    BY <1>1, <1>2, <1>3, <2>2, <2>5, FirstDifferenceOfTime
  <2>6. CASE i = 7
    BY <1>1, <1>2, <1>3, <2>2, <2>6, FirstDifferenceOfTime
  <2> QED
    BY <1>7, <2>3, <2>4, <2>5, <2>6
<1> QED
  BY <1>4, <1>5, <1>6, <1>7

(* compare, for all pairs of dates.                                        *)
LEMMA CompareRight ==
  ASSUME NEW s \in Date, NEW t \in Date
  PROVE  /\ Compare(s, t) = IF Before(Instant(s), Instant(t)) THEN -1
                            ELSE IF Before(Instant(t), Instant(s)) THEN 1 ELSE 0
         /\ Instant(s) = Instant(t) => s = t
         /\ Compare(s, t) = 0 => s = t
<1> DEFINE first == CHOOSE i \in Differ(s, t) : \A j \in Differ(s, t) : i <= j
<1>1. Compare(s, t) = IF Differ(s, t) = {} THEN 0
                      ELSE IF s[InOrder[first]] < t[InOrder[first]] THEN -1 ELSE 1
  BY DEF Compare, Differ
<1>2. /\ ~(Before(Instant(s), Instant(t)) /\ Before(Instant(t), Instant(s)))
      /\ Instant(s) = Instant(t) =>
           ~Before(Instant(s), Instant(t)) /\ ~Before(Instant(t), Instant(s))
  <2>1. /\ Instant(s).days \in Int /\ Instant(s).ms \in Int
        /\ Instant(t).days \in Int /\ Instant(t).ms \in Int
    BY DateClock
  <2> QED
    BY <2>1 DEF Before
<1>3. CASE Differ(s, t) = {}
  <2>1. \A i \in 1 .. 7 : s[InOrder[i]] = t[InOrder[i]]
    BY <1>3 DEF Differ
  <2>2. /\ s.year = t.year /\ s.month = t.month /\ s.day = t.day /\ s.hour = t.hour
        /\ s.minute = t.minute /\ s.second = t.second /\ s.millisecond = t.millisecond
    BY <2>1 DEF InOrder
  <2>3. s = t
    BY <2>2 DEF Date
  <2> QED
    BY <1>1, <1>2, <1>3, <2>3
<1>4. CASE Differ(s, t) # {}
  <2>1. Differ(s, t) \in SUBSET Nat /\ Differ(s, t) \subseteq 1 .. 7
    BY DEF Differ
  <2>2. \E i \in Differ(s, t) : \A j \in Differ(s, t) : i <= j
    BY <1>4, <2>1, LeastElement
  <2>3. first \in Differ(s, t) /\ \A j \in Differ(s, t) : first <= j
    BY <2>2
  <2> HIDE DEF first
  <2>4. first \in 1 .. 7 /\ s[InOrder[first]] # t[InOrder[first]]
    BY <2>3 DEF Differ
  <2>5. \A j \in 1 .. 7 : j < first => s[InOrder[j]] = t[InOrder[j]]
    BY <2>1, <2>3, <2>4 DEF Differ
  <2>6. /\ s[InOrder[first]] < t[InOrder[first]] => Before(Instant(s), Instant(t))
        /\ ~(s[InOrder[first]] < t[InOrder[first]]) => Before(Instant(t), Instant(s))
    BY <2>4, <2>5, Difference
  <2> QED
    BY <1>1, <1>2, <1>4, <2>6
<1> QED
  BY <1>3, <1>4

(* Every date that the calls lead to exists and agrees with the clock, and *)
(* the start stays the date it was.                                        *)
LEMMA InductiveInvariant == Spec => []IInv
<1>1. Init => IInv
  BY DateAssumption DEF Init, IInv, KeepsTime
<1>2. IInv /\ [Next]_vars => IInv'
  <2> SUFFICES ASSUME IInv, [Next]_vars PROVE IInv'
    OBVIOUS
  <2>1. CASE Next
    <3>1. PICK n \in Amounts : Days(n) \/ Hours(n) \/ Milliseconds(n) \/ Everything(n)
      BY <2>1 DEF Next
    <3>2. n \in Nat
      BY DateAssumption
    <3> QED
      BY <3>1, <3>2, DaysKeeps, HoursKeeps, MillisecondsKeeps, EverythingKeeps
  <2>2. CASE UNCHANGED vars
    BY <2>2, Zenon DEF vars, IInv, KeepsTime
  <2> QED
    BY <2>1, <2>2
<1> QED
  BY <1>1, <1>2, PTL DEF Spec

(* For all dates and all amounts: whatever calls of add and subtract       *)
(* (DateTime.cpp:701-1035) follow each other, the date exists, and is where *)
(* they should have led to.                                                *)
THEOREM DateKeepsTime == Spec => []KeepsTime
<1>1. IInv => KeepsTime
  BY DEF IInv
<1> QED
  BY <1>1, InductiveInvariant, PTL

(* compare (DateTime.cpp:337) orders all dates that the calls can lead to  *)
(* by time.                                                                *)
THEOREM DateOrderAgrees == Spec => []OrderAgrees
<1>1. IInv => OrderAgrees
  <2> SUFFICES ASSUME IInv PROVE OrderAgrees
    OBVIOUS
  <2>1. now \in Date /\ start \in Date /\ Instant(now) = clock
    BY DEF IInv, KeepsTime
  <2>2. Compare(now, start) =
          IF Before(Instant(now), Instant(start)) THEN -1
          ELSE IF Before(Instant(start), Instant(now)) THEN 1 ELSE 0
    BY <2>1, CompareRight
  <2> QED
    BY <2>1, <2>2, Zenon DEF OrderAgrees
<1> QED
  BY <1>1, InductiveInvariant, PTL
-----------------------------------------------------------------------------
(* A duration of days and milliseconds.                                    *)
LEMMA DurationOfDays ==
  ASSUME NEW p \in Nat, NEW q \in Nat
  PROVE  /\ Duration(p, 0, 0, 0, q, FALSE) \in Durations
         /\ Length(Duration(p, 0, 0, 0, q, FALSE)) = Total(p, 0, 0, 0, q)
<1>1. Sound(p, 0, 0, 0, q)
  BY DurationSound
<1> QED
  BY <1>1 DEF Sound

(* timeBetween of two dates in one year, the first of them later: what it  *)
(* counts is as long as the time between them.                             *)
LEMMA SameYear ==
  ASSUME NEW s \in Date, NEW t \in Date, DayNumber(s) <= DayNumber(t)
  PROVE  s.year <= t.year
<1>1. s.year \in Int /\ t.year \in Int /\ DayNumber(s) \in Int /\ DayNumber(t) \in Int
  BY DateNumbers, Numbers
<1>2. ~(t.year < s.year)
  <2>1. t.year < s.year => DayNumber(t) < DayNumber(s)
    BY LaterYear
  <2> QED
    BY <1>1, <2>1
<1> QED
  BY <1>1, <1>2

(* What timeBetween counts between two dates of a year is as long as the   *)
(* time between them: the whole days, and the rest of a day.               *)
LEMMA ElapsedInYear ==
  ASSUME NEW t \in Date, NEW rhs \in Date, t.year = rhs.year, MsNumber(rhs) < MsNumber(t)
  PROVE  /\ Elapsed(t, rhs) \in Durations /\ Elapsed(t, rhs).negative = FALSE
         /\ Length(Elapsed(t, rhs)) = MsNumber(t) - MsNumber(rhs)
<1> DEFINE a == MsOfDay(t)
           b == MsOfDay(rhs)
           d == DayNumber(t)
           e == DayNumber(rhs)
           day == IF b > a THEN 1 ELSE 0
<1>1. /\ a \in Nat /\ a < MsPerDay /\ b \in Nat /\ b < MsPerDay /\ d \in Int /\ e \in Int
      /\ MsNumber(t) = d * MsPerDay + a /\ MsNumber(rhs) = e * MsPerDay + b
  BY DateClock
<1>2. day \in Nat /\ e + day <= d
  <2>1. e * MsPerDay + b < d * MsPerDay + a
    BY <1>1
  <2> HIDE DEF a, b, d, e
  <2> QED
    BY <1>1, <2>1, Z3 DEF MsPerDay, MsPerHour, MsPerMinute
<1>3. PICK s \in Date : s = Stop(t, rhs) /\ DayNumber(s) = e + day
  <2>1. CASE b > a
    <3>1. AddDays(rhs, 1) \in Date /\ DayNumber(AddDays(rhs, 1)) = DayNumber(rhs) + 1
      BY AddDaysRight
    <3>2. Stop(t, rhs) = AddDays(rhs, 1) /\ day = 1
      BY <2>1 DEF Stop
    <3> QED
      BY <3>1, <3>2
  <2>2. CASE ~(b > a)
    <3>1. Stop(t, rhs) = rhs /\ day = 0
      BY <2>2 DEF Stop
    <3>2. e + day = e
      BY <1>1, <3>1
    <3> QED
      BY <3>1, <3>2
  <2> QED
    BY <2>1, <2>2
<1> HIDE DEF day
<1>4. s.year = t.year
  <2>1. e <= DayNumber(s) /\ DayNumber(s) <= d
    <3> HIDE DEF d, e
    <3> QED
      BY <1>1, <1>2, <1>3
  <2>2. rhs.year <= s.year /\ s.year <= t.year
    BY <2>1, SameYear
  <2>3. s.year \in Int /\ t.year \in Int
    BY DateNumbers
  <2> QED
    BY <2>2, <2>3
<1>5. YearsDown(t, s) = 0
  <2>1. ~(t.year > s.year)
    BY <1>4, DateNumbers
  <2> QED
    BY <2>1 DEF YearsDown
<1>6. DaysDown(t, s) = d - (e + day)
  <2>1. PICK y \in Int : y = t.year /\ y = s.year
    BY <1>4, DateNumbers
  <2>2. /\ d = YearStart(y) + DayOfYear(t) /\ DayNumber(s) = YearStart(y) + DayOfYear(s)
        /\ YearStart(y) \in Int
    BY <2>1, NextYear DEF DayNumber
  <2>3. DayOfYear(t) \in Int /\ DayOfYear(s) \in Int
    <3>1. DaysInYear(y) \in {365, 366}
      BY NextYear
    <3>2. DayOfYear(t) \in 1 .. DaysInYear(y) /\ DayOfYear(s) \in 1 .. DaysInYear(y)
      BY <2>1, DateInstant
    <3> QED
      BY <3>1, <3>2
  <2> HIDE DEF d, e
  <2> QED
    BY <1>1, <1>2, <1>3, <2>2, <2>3 DEF DaysDown
<1> DEFINE days == d - (e + day)
           ms == (a - b) % MsPerDay
<1>7. Elapsed(t, rhs) = Duration(days, 0, 0, 0, ms, FALSE)
  <2>1. days \in Int /\ 0 + days = days
    <3> HIDE DEF d, e
    <3> QED
      BY <1>1, <1>2
  <2> HIDE DEF days
  <2>2. YearsDown(t, s) + DaysDown(t, s) = days
    BY <1>5, <1>6, <2>1 DEF days
  <2> QED
    BY <1>3, <2>2 DEF Elapsed
<1>8. ms \in Nat /\ days \in Nat /\ a - b = ms - day * MsPerDay
  <2>1. days \in Nat
    <3> HIDE DEF d, e
    <3> QED
      BY <1>1, <1>2
  <2> HIDE DEF a, b
  <2>2. CASE b > a
    <3>1. a - b + MsPerDay \in Nat /\ a - b + MsPerDay < MsPerDay
      BY <1>1, <2>2, Z3 DEF MsPerDay, MsPerHour, MsPerMinute
    <3>2. a - b = (-1) * MsPerDay + (a - b + MsPerDay) /\ a - b \in Int
      BY <1>1, Z3 DEF MsPerDay, MsPerHour, MsPerMinute
    <3>3. ms = a - b + MsPerDay
      BY <3>1, <3>2, DividedByDay
    <3>4. day = 1
      BY <2>2 DEF day, a, b
    <3> QED
      BY <1>1, <2>1, <3>1, <3>3, <3>4, Z3 DEF MsPerDay, MsPerHour, MsPerMinute
  <2>3. CASE ~(b > a)
    <3>1. a - b \in Nat /\ a - b < MsPerDay /\ a - b = 0 * MsPerDay + (a - b)
      BY <1>1, <2>3, Z3 DEF MsPerDay, MsPerHour, MsPerMinute
    <3>2. ms = a - b
      BY <3>1, DividedByDay
    <3>3. day = 0
      BY <2>3 DEF day, a, b
    <3> QED
      BY <1>1, <2>1, <3>1, <3>2, <3>3, Z3 DEF MsPerDay, MsPerHour, MsPerMinute
  <2> QED
    BY <2>2, <2>3
<1> HIDE DEF ms
<1>9. days * MsPerDay + ms = MsNumber(t) - MsNumber(rhs)
  <2> HIDE DEF a, b, d, e
  <2> QED
    BY <1>1, <1>2, <1>8, Z3 DEF MsPerDay, MsPerHour, MsPerMinute
<1> HIDE DEF days
<1>10. /\ Elapsed(t, rhs) \in Durations
       /\ Length(Elapsed(t, rhs)) = Total(days, 0, 0, 0, ms)
  BY <1>7, <1>8, DurationOfDays
<1>11. Elapsed(t, rhs).negative = FALSE
  BY <1>7 DEF Duration
<1>12. Total(days, 0, 0, 0, ms) = days * MsPerDay + ms
  BY <1>8, Z3 DEF Total, MsPerDay, MsPerHour, MsPerMinute
<1> QED
  BY <1>9, <1>10, <1>11, <1>12

(* A duration that is turned round stays as long as it is.                 *)
LEMMA Negated ==
  ASSUME NEW dur \in Durations
  PROVE  /\ [dur EXCEPT !.negative = TRUE] \in Durations
         /\ [dur EXCEPT !.negative = TRUE].negative = TRUE
         /\ Length([dur EXCEPT !.negative = TRUE]) = Length(dur)
         /\ [[dur EXCEPT !.negative = TRUE] EXCEPT !.negative = ~@]
              = [dur EXCEPT !.negative = FALSE]
<1> DEFINE back == [dur EXCEPT !.negative = TRUE]
<1>1. back.negative = TRUE
  BY Zenon DEF Durations
<1>2. back \in Durations
  BY DEF Durations
<1>3. /\ back.days = dur.days /\ back.hours = dur.hours
      /\ back.minutes = dur.minutes /\ back.seconds = dur.seconds /\ back.ms = dur.ms
  BY DEF Durations
<1>4. Length(back) = Length(dur)
  <2> HIDE DEF back
  <2> QED
    BY <1>3, Zenon DEF Length
<1>5. [back EXCEPT !.negative = ~@] = [dur EXCEPT !.negative = FALSE]
  <2>1. [back EXCEPT !.negative = ~@] = [back EXCEPT !.negative = FALSE]
    <3> HIDE DEF back
    <3> QED
      BY <1>1
  <2>2. [back EXCEPT !.negative = FALSE] = [dur EXCEPT !.negative = FALSE]
    BY DEF Durations
  <2> QED
    BY <2>1, <2>2
<1> QED
  BY <1>1, <1>2, <1>4, <1>5

(* A duration as long as the time between two dates leads from the one to  *)
(* the other.                                                              *)
LEMMA LeadsBack ==
  ASSUME NEW s \in Date, NEW t \in Date, NEW dur \in Durations,
         dur.negative = FALSE, Length(dur) = MsNumber(t) - MsNumber(s)
  PROVE  /\ Add(s, dur) = t
         /\ Add(t, [dur EXCEPT !.negative = TRUE]) = s
<1>1. ASSUME NEW u \in Date, NEW v \in Date, MsNumber(u) = MsNumber(v)
      PROVE  u = v
  <2>1. MsNumber(u) = MsNumber(v) + 0 * MsPerDay + 0 /\ 0 \in Int
    BY <1>1, Numbers DEF MsPerDay, MsPerHour, MsPerMinute
  <2>2. MsNumber(v) = MsNumber(v) + 0 * MsPerDay + 0
    BY Numbers DEF MsPerDay, MsPerHour, MsPerMinute
  <2>3. Instant(u) = Shifted(Instant(v), 0, 0) /\ Instant(v) = Shifted(Instant(v), 0, 0)
    BY <2>1, <2>2, ClockMoves
  <2> QED
    BY <2>3, CompareRight
<1>2. MsNumber(s) \in Int /\ MsNumber(t) \in Int /\ MsNumber(s) >= MsPerDay
  <2>1. /\ DayNumber(s) \in Int /\ DayNumber(s) >= 1 /\ MsOfDay(s) \in Nat
        /\ MsNumber(s) = DayNumber(s) * MsPerDay + MsOfDay(s)
        /\ MsNumber(s) \in Int /\ MsNumber(t) \in Int
    BY DateClock, Numbers
  <2> QED
    BY <2>1, Z3 DEF MsPerDay, MsPerHour, MsPerMinute
<1>3. Add(s, dur) = t
  <2>1. Add(s, dur) \in Date /\ MsNumber(Add(s, dur)) = MsNumber(s) + Length(dur)
    BY AddRight
  <2>2. MsNumber(Add(s, dur)) = MsNumber(t)
    BY <1>2, <2>1
  <2> QED
    BY <1>1, <2>1, <2>2
<1>4. Add(t, [dur EXCEPT !.negative = TRUE]) = s
  <2>1. PICK back \in Durations : /\ back = [dur EXCEPT !.negative = TRUE]
                                  /\ back.negative = TRUE
                                  /\ Length(back) = Length(dur)
    BY Negated
  <2>2. MsNumber(t) - Length(back) = MsNumber(s)
    BY <1>2, <2>1
  <2>3. Add(t, back) \in Date /\ MsNumber(Add(t, back)) = MsNumber(t) - Length(back)
    BY <1>2, <2>1, <2>2, AddNegativeRight
  <2>4. Add(t, back) = s
    BY <1>1, <2>2, <2>3
  <2> QED
    BY <2>1, <2>4
<1> QED
  BY <1>3, <1>4

(* timeBetween, add and subtract for two dates of a year, whichever is     *)
(* later.                                                                  *)
LEMMA BetweenRight ==
  ASSUME NEW s \in Date, NEW t \in Date, s.year = t.year
  PROVE  /\ Add(s, TimeBetween(t, s)) = t
         /\ Subtract(t, TimeBetween(t, s)) = s
<1>1. ASSUME NEW u \in Date, NEW v \in Date
      PROVE  Before(Instant(u), Instant(v)) => MsNumber(u) < MsNumber(v)
  <2>1. /\ Instant(u).days = DayNumber(u) /\ Instant(u).ms = MsOfDay(u)
        /\ DayNumber(u) \in Int /\ MsOfDay(u) \in Nat /\ MsOfDay(u) < MsPerDay
        /\ MsNumber(u) = DayNumber(u) * MsPerDay + MsOfDay(u)
    BY DateClock
  <2>2. /\ Instant(v).days = DayNumber(v) /\ Instant(v).ms = MsOfDay(v)
        /\ DayNumber(v) \in Int /\ MsOfDay(v) \in Nat /\ MsOfDay(v) < MsPerDay
        /\ MsNumber(v) = DayNumber(v) * MsPerDay + MsOfDay(v)
    BY DateClock
  <2> DEFINE a == DayNumber(u)
             b == MsOfDay(u)
             c == DayNumber(v)
             d == MsOfDay(v)
  <2>3. a < c \/ (a = c /\ b < d) => a * MsPerDay + b < c * MsPerDay + d
    <3>1. a \in Int /\ b \in Nat /\ b < MsPerDay /\ c \in Int /\ d \in Nat /\ d < MsPerDay
      BY <2>1, <2>2
    <3> HIDE DEF a, b, c, d
    <3> QED
      BY <3>1, Z3 DEF MsPerDay, MsPerHour, MsPerMinute
  <2> QED
    BY <2>1, <2>2, <2>3 DEF Before
<1>2. CASE Compare(s, t) = 0
  <2>1. s = t
    BY <1>2, CompareRight
  <2>2. PICK dur \in Durations : /\ dur = Duration(0, 0, 0, 0, 0, FALSE)
                                 /\ Length(dur) = 0 /\ dur.negative = FALSE
    <3>0. Sound(0, 0, 0, 0, 0)
      BY DurationSound
    <3>1. /\ Duration(0, 0, 0, 0, 0, FALSE) \in Durations
          /\ Length(Duration(0, 0, 0, 0, 0, FALSE)) = Total(0, 0, 0, 0, 0)
      BY <3>0 DEF Sound
    <3>2. Total(0, 0, 0, 0, 0) = 0
      BY DEF Total, MsPerDay, MsPerHour, MsPerMinute
    <3>3. Duration(0, 0, 0, 0, 0, FALSE).negative = FALSE
      BY DEF Duration
    <3> QED
      BY <3>1, <3>2, <3>3
  <2>3. TimeBetween(t, s) = dur
    BY <1>2, <2>2 DEF TimeBetween
  <2>4. Length(dur) = MsNumber(t) - MsNumber(s)
    <3>1. MsNumber(t) \in Int /\ MsNumber(s) = MsNumber(t)
      BY <2>1, Numbers
    <3>2. MsNumber(t) - MsNumber(s) = 0
      BY <3>1
    <3> QED
      BY <2>2, <3>2, Zenon
  <2>5. [dur EXCEPT !.negative = ~@] = [dur EXCEPT !.negative = TRUE]
    BY <2>2
  <2> QED
    BY <2>2, <2>3, <2>4, <2>5, LeadsBack DEF Subtract
<1>3. CASE Compare(s, t) = 1
  <2>1. MsNumber(t) < MsNumber(s)
    BY <1>1, <1>3, CompareRight
  <2>2. PICK dur \in Durations : /\ dur = Elapsed(s, t) /\ dur.negative = FALSE
                                 /\ Length(dur) = MsNumber(s) - MsNumber(t)
    BY <2>1, ElapsedInYear
  <2>3. TimeBetween(t, s) = [dur EXCEPT !.negative = TRUE]
    BY <1>3, <2>2 DEF TimeBetween
  <2>4. Add(t, dur) = s /\ Add(s, [dur EXCEPT !.negative = TRUE]) = t
    BY <2>2, LeadsBack
  <2>5. [[dur EXCEPT !.negative = TRUE] EXCEPT !.negative = ~@]
          = [dur EXCEPT !.negative = FALSE]
    BY Negated
  <2>6. [dur EXCEPT !.negative = FALSE] = dur
    BY <2>2 DEF Durations
  <2> QED
    BY <2>3, <2>4, <2>5, <2>6 DEF Subtract
<1>4. CASE Compare(s, t) = -1
  <2>1. MsNumber(s) < MsNumber(t)
    BY <1>1, <1>4, CompareRight
  <2>2. PICK dur \in Durations : /\ dur = Elapsed(t, s) /\ dur.negative = FALSE
                                 /\ Length(dur) = MsNumber(t) - MsNumber(s)
    BY <2>1, ElapsedInYear
  <2>3. TimeBetween(t, s) = dur
    BY <1>4, <2>2 DEF TimeBetween
  <2>4. [dur EXCEPT !.negative = ~@] = [dur EXCEPT !.negative = TRUE]
    BY <2>2
  <2> QED
    BY <2>2, <2>3, <2>4, LeadsBack DEF Subtract
<1> QED
  BY <1>2, <1>3, <1>4, CompareRight

(* timeBetween (DateTime.cpp:1037), add and subtract agree for all dates   *)
(* within one year.                                                        *)
THEOREM DateBetweenInYear == Spec => []BetweenInYear
<1>1. IInv => BetweenInYear
  BY BetweenRight DEF IInv, KeepsTime, BetweenInYear
<1> QED
  BY <1>1, InductiveInvariant, PTL
=============================================================================
