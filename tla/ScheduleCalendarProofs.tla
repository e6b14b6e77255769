----------------------- MODULE ScheduleCalendarProofs ------------------------
(***************************************************************************)
(* The dates of the schedules, for every calendar whose months have 28 to  *)
(* 31 days, every schedule, every hour of a save and every lateness of a   *)
(* claim: what the web tier and the dispatcher compute is the same, lies   *)
(* ahead, and is what the user has configured.                             *)
(***************************************************************************)
EXTENDS ScheduleCalendar, WellFoundedInduction, TLAPS

-----------------------------------------------------------------------------
(* Arithmetic.                                                             *)
LEMMA HoursOfDays ==
  ASSUME NEW d \in Int, NEW h \in 0..23
  PROVE  (24 * d + h) \div 24 = d /\ (24 * d + h) % 24 = h
OBVIOUS

LEMMA DaysAndHours ==
  ASSUME NEW t \in Nat
  PROVE  t \div 24 \in Nat /\ t % 24 \in 0..23 /\ t = 24 * (t \div 24) + (t % 24)
OBVIOUS

LEMMA SundayAndMonday ==
  ASSUME NEW first \in 0..6, NEW day \in Nat, NEW dow \in 0..6
  PROVE  (((dow + 6) % 7) - ((((first + day) % 7) + 6) % 7)) % 7
           = (dow - ((first + day) % 7) + 7) % 7
OBVIOUS

LEMMA NextOccurrence ==
  ASSUME NEW first \in 0..6, NEW day \in Nat, NEW dow \in 0..6
  PROVE  /\ (dow - ((first + day) % 7) + 7) % 7 \in 0..6
         /\ (first + (day + ((dow - ((first + day) % 7) + 7) % 7))) % 7 = dow
         /\ (first + (day + 7)) % 7 = (first + day) % 7
OBVIOUS

-----------------------------------------------------------------------------
(* The calendar.                                                           *)

(* A set of numbers has a least one.                                       *)
LEMMA LeastNumber ==
  ASSUME NEW T, T \subseteq Nat, T # {}
  PROVE  \E x \in T : \A y \in T : x <= y
<1>1. PICK R : IsWellFoundedOn(R, Nat) /\ \A x, y \in Nat : y < x => <<y, x>> \in R
  <2>1. \A x, y \in Nat : y < x => <<y, x>> \in OpToRel(<, Nat)
    BY DEF OpToRel
  <2> QED BY <2>1, NatLessThanWellFounded, Zenon
<1>2. PICK x \in T : \A y \in T : ~(<<y, x>> \in R)
  BY <1>1, WFMin
<1>3. ASSUME NEW y \in T PROVE x <= y
  <2>1. x \in Nat /\ y \in Nat
    OBVIOUS
  <2>2. ~(y < x)
    BY <1>1, <1>2, <2>1
  <2> QED BY <2>1, <2>2
<1> QED BY <1>3

LEMMA MonthTyped ==
  ASSUME NEW m \in Months
  PROVE  /\ m \in Nat /\ m + 1 \in 1..Len(MonthStart)
         /\ MonthStart[m] \in Nat /\ MonthStart[m + 1] \in Nat
         /\ MonthDays(m) \in 28..31
         /\ MonthStart[m + 1] = MonthStart[m] + MonthDays(m)
         /\ MonthStart[m] < MonthStart[m + 1]
<1>1. Len(MonthStart) \in Nat
  BY CalendarAssumption
<1>2. m \in 1..Len(MonthStart) - 1 /\ m \in 1..Len(MonthStart) /\ m + 1 \in 1..Len(MonthStart)
  BY <1>1 DEF Months
<1>3. MonthStart[m] \in Nat /\ MonthStart[m + 1] \in Nat
  BY <1>2, CalendarAssumption
<1>4. MonthStart[m + 1] - MonthStart[m] \in 28..31
  BY <1>2, CalendarAssumption
<1> QED BY <1>2, <1>3, <1>4 DEF MonthDays

LEMMA MonthsApart ==
  ASSUME NEW m \in Months
  PROVE  MonthStart[m] + 28 <= MonthStart[m + 1]
<1>1. /\ MonthDays(m) \in 28..31 /\ MonthStart[m] \in Nat
      /\ MonthStart[m + 1] = MonthStart[m] + MonthDays(m)
  BY MonthTyped
<1> QED BY <1>1

(* Later months start later.                                               *)
LEMMA StartsAscend ==
  ASSUME NEW i \in 1..Len(MonthStart), NEW j \in 1..Len(MonthStart), i < j
  PROVE  MonthStart[i] < MonthStart[j]
<1> DEFINE T == {k \in 1..Len(MonthStart) : i < k /\ MonthStart[k] <= MonthStart[i]}
<1>0. Len(MonthStart) \in Nat /\ i \in Nat
  BY CalendarAssumption
<1>1. SUFFICES ASSUME T # {} PROVE FALSE
  <2>1. MonthStart[i] \in Nat /\ MonthStart[j] \in Nat
    BY CalendarAssumption
  <2> QED BY <1>1, <2>1
<1>2. PICK k \in T : \A y \in T : k <= y
  <2>1. T \subseteq Nat
    BY <1>0
  <2> HIDE DEF T
  <2> QED BY <1>1, <2>1, LeastNumber
<1>3. /\ k - 1 \in 1..Len(MonthStart) /\ k - 1 \in Months /\ i <= k - 1
      /\ MonthStart[k] <= MonthStart[i]
  BY <1>0 DEF Months
<1>4. MonthStart[k - 1] \in Nat /\ MonthStart[k] \in Nat /\ MonthStart[i] \in Nat
  <2>1. k \in 1..Len(MonthStart)
    OBVIOUS
  <2> QED BY <1>3, <2>1, CalendarAssumption
<1>5. MonthStart[k - 1] < MonthStart[k]
  <2>1. (k - 1) + 1 = k
    BY <1>0
  <2>2. MonthStart[k - 1] < MonthStart[(k - 1) + 1]
    BY <1>3, MonthTyped
  <2> QED BY <2>1, <2>2
<1>6. i # k - 1
  BY <1>3, <1>4, <1>5
<1>7. k - 1 \in T
  BY <1>0, <1>3, <1>4, <1>5, <1>6
<1> QED BY <1>0, <1>2, <1>7

(* A day is of one month.                                                  *)
LEMMA MonthIs ==
  ASSUME NEW m \in Months, NEW day \in Int, MonthStart[m] <= day, day < MonthStart[m + 1]
  PROVE  MonthOf(day) = m
<1>0. Len(MonthStart) \in Nat
  BY CalendarAssumption
<1>1. ASSUME NEW a \in Months, NEW b \in Months, a < b, MonthStart[b] <= day
      PROVE  ~(day < MonthStart[a + 1])
  <2>1. MonthStart[a + 1] <= MonthStart[b]
    <3>1. /\ a + 1 \in 1..Len(MonthStart) /\ b \in 1..Len(MonthStart)
          /\ MonthStart[a + 1] \in Nat
          /\ (a + 1 < b \/ a + 1 = b)
      BY <1>0, <1>1, MonthTyped DEF Months
    <3>2. CASE a + 1 < b
      <4>1. MonthStart[a + 1] < MonthStart[b]
        BY <3>1, <3>2, StartsAscend
      <4> QED BY <3>1, <4>1, MonthTyped
    <3>3. CASE a + 1 = b
      BY <3>1, <3>3
    <3> QED BY <3>1, <3>2, <3>3
  <2>2. MonthStart[a + 1] \in Nat /\ MonthStart[b] \in Nat
    BY MonthTyped
  <2> QED BY <1>1, <2>1, <2>2
<1>2. ASSUME NEW n \in Months, MonthStart[n] <= day, day < MonthStart[n + 1]
      PROVE  n = m
  <2>1. n \in Nat /\ m \in Nat
    BY MonthTyped
  <2> QED BY <1>1, <1>2, <2>1
<1> QED BY <1>2 DEF MonthOf

(* A day before the end of the calendar has a month.                       *)
LEMMA MonthExists ==
  ASSUME NEW day \in Nat, NEW k \in 1..Len(MonthStart), day < MonthStart[k]
  PROVE  /\ MonthOf(day) \in Months /\ MonthOf(day) < k
         /\ MonthStart[MonthOf(day)] <= day /\ day < MonthStart[MonthOf(day) + 1]
<1> DEFINE T == {m \in 1..Len(MonthStart) : day < MonthStart[m]}
<1>0. Len(MonthStart) \in Nat
  BY CalendarAssumption
<1>1. PICK n \in T : \A y \in T : n <= y
  <2>1. T \subseteq Nat /\ k \in T
    BY <1>0
  <2> HIDE DEF T
  <2> QED BY <2>1, LeastNumber
<1>2. n # 1 /\ n <= k
  BY <1>0, <1>1, CalendarAssumption
<1>3. n - 1 \in Months /\ n - 1 \in 1..Len(MonthStart) /\ n - 1 < k /\ (n - 1) + 1 = n
  BY <1>0, <1>2 DEF Months
<1>4. MonthStart[n - 1] \in Nat /\ MonthStart[n - 1] <= day
  <2>1. n - 1 \notin T
    BY <1>0, <1>1
  <2>2. MonthStart[n - 1] \in Nat
    BY <1>3, MonthTyped
  <2> QED BY <1>3, <2>1, <2>2
<1>5. day < MonthStart[(n - 1) + 1]
  BY <1>1, <1>3
<1> HIDE DEF T
<1>6. MonthOf(day) = n - 1
  BY <1>3, <1>4, <1>5, MonthIs
<1> QED BY <1>3, <1>4, <1>5, <1>6

-----------------------------------------------------------------------------
(* Times.  Hours and days of KST are the quotient and the remainder.       *)
LEMMA KstParts ==
  ASSUME NEW t \in Nat
  PROVE  KstDay(t) \in Nat /\ KstHour(t) \in 0..23 /\ t = At(KstDay(t), KstHour(t))
<1>1. t + 9 \in Nat /\ t = (t + 9) - 9
  OBVIOUS
<1> QED BY <1>1, DaysAndHours DEF KstDay, KstHour, At

LEMMA AtParts ==
  ASSUME NEW d \in Int, NEW h \in 0..23
  PROVE  KstDay(At(d, h)) = d /\ KstHour(At(d, h)) = h /\ At(d, h) \in Int
<1>1. At(d, h) + 9 = 24 * d + h
  BY DEF At
<1>2. (24 * d + h) \div 24 = d /\ (24 * d + h) % 24 = h
  BY HoursOfDays
<1> QED BY <1>1, <1>2 DEF KstDay, KstHour, At

LEMMA Fields ==
  ASSUME NEW s \in Schedules
  PROVE  /\ s.type \in Types
         /\ HourOr0(s) \in 0..23 /\ (HasHour(s) => s.hour = HourOr0(s))
         /\ HasPartner(s) /\ s.type = "monthly" => s.dom \in 1..28
         /\ HasPartner(s) /\ s.type # "monthly" => s.dow \in 0..6
BY CalendarAssumption DEF Schedule, Types, HourOr0, HasHour, HasPartner

(* The days to the next occurrence of a weekday, counted by either program.*)
LEMMA WeekdaysAgree ==
  ASSUME NEW day \in Nat, NEW dow \in 0..6
  PROVE  /\ (MondayFirst(dow) - PyWeekday(day)) % 7 = (dow - Weekday(day) + 7) % 7
         /\ (dow - Weekday(day) + 7) % 7 \in 0..6
         /\ Weekday(day + ((dow - Weekday(day) + 7) % 7)) = dow
         /\ Weekday(day + 7) = Weekday(day)
<1>1. FirstWeekday \in 0..6
  BY CalendarAssumption
<1>2. (MondayFirst(dow) - PyWeekday(day)) % 7 = (dow - Weekday(day) + 7) % 7
  BY <1>1, SundayAndMonday DEF MondayFirst, PyWeekday, Weekday
<1> QED BY <1>1, <1>2, NextOccurrence DEF Weekday

(* The month of a date that every month has.                               *)
LEMMA DateInMonth ==
  ASSUME NEW m \in Months, NEW date \in 1..28
  PROVE  /\ DayOf(m, date) \in Nat
         /\ MonthStart[m] <= DayOf(m, date) /\ DayOf(m, date) < MonthStart[m + 1]
         /\ MonthOf(DayOf(m, date)) = m /\ DateOf(DayOf(m, date)) = date
<1>1. /\ DayOf(m, date) \in Nat
      /\ MonthStart[m] <= DayOf(m, date) /\ DayOf(m, date) < MonthStart[m + 1]
  BY MonthTyped DEF DayOf
<1>2. MonthOf(DayOf(m, date)) = m
  BY <1>1, MonthIs
<1>3. DateOf(DayOf(m, date)) = DayOf(m, date) - MonthStart[m] + 1
  BY <1>2 DEF DateOf
<1>4. MonthStart[m] \in Nat
  BY MonthTyped
<1> QED BY <1>1, <1>2, <1>3, <1>4 DEF DayOf

(* While the calendar lasts, a time has a month and two more after it.     *)
LEMMA CoveredMonths ==
  ASSUME NEW t \in Nat, Covered(t), NEW day \in {KstDay(t), UtcDay(t)}, NEW m, m = MonthOf(day)
  PROVE  /\ day \in Nat
         /\ m \in Months /\ m + 1 \in Months /\ (m + 1) + 1 \in Months
         /\ MonthStart[m] <= day /\ day < MonthStart[m + 1]
<1>1. day \in Nat /\ day <= KstDay(t) /\ KstDay(t) \in Nat
  BY DEF KstDay, UtcDay
<1>2. Len(MonthStart) \in Nat /\ Len(MonthStart) - 2 \in 1..Len(MonthStart)
  BY CalendarAssumption
<1>3. MonthStart[Len(MonthStart) - 2] \in Nat
  BY <1>2, CalendarAssumption
<1>4. day < MonthStart[Len(MonthStart) - 2]
  BY <1>1, <1>3 DEF Covered
<1>5. /\ m \in Months /\ m < Len(MonthStart) - 2
      /\ MonthStart[m] <= day /\ day < MonthStart[m + 1]
  BY <1>1, <1>2, <1>4, MonthExists
<1> QED BY <1>1, <1>2, <1>5 DEF Months

(* 32 days from the first of a month are in the next.                      *)
LEMMA HopIsNext ==
  ASSUME NEW day \in Nat, NEW m \in Months, m = MonthOf(day), m + 1 \in Months
  PROVE  Hop(day) = m + 1
<1> DEFINE d == DayOf(m, 1) + 32
<1>1. MonthStart[m + 1] <= d /\ d < MonthStart[(m + 1) + 1] /\ d \in Int
  <2>1. MonthStart[m + 1] = MonthStart[m] + MonthDays(m) /\ MonthDays(m) \in 28..31
        /\ MonthStart[m] \in Nat
    BY MonthTyped
  <2>2. MonthStart[(m + 1) + 1] = MonthStart[m + 1] + MonthDays(m + 1)
        /\ MonthDays(m + 1) \in 28..31
    BY MonthTyped
  <2>3. d = MonthStart[m] + 32
    BY <2>1 DEF DayOf
  <2>4. MonthStart[m + 1] <= MonthStart[m] + 32
    BY <2>1
  <2>5. MonthStart[m + 1] \in Nat /\ MonthStart[m] + 28 <= MonthStart[m + 1]
    BY <2>1
  <2>6. MonthStart[(m + 1) + 1] \in Nat /\ MonthStart[m + 1] + 28 <= MonthStart[(m + 1) + 1]
    BY <2>2, <2>5
  <2> HIDE DEF d
  <2> QED BY <2>1, <2>3, <2>4, <2>5, <2>6
<1>2. MonthOf(d) = m + 1
  BY <1>1, MonthIs
<1> QED BY <1>2 DEF Hop

-----------------------------------------------------------------------------
(* diagnosis-schedule.ts:37-38: both programs compute the same date.       *)
LEMMA ProgramsAgree ==
  ASSUME NEW s \in Schedules, NEW t \in Nat, Covered(t)
  PROVE  DispatcherNext(s, t) = ComputeNextRun(s, t)
<1>1. CASE ~HasPartner(s)
  <2> DEFINE claimed == PlusInterval(s.type, t)
  <2>1. ComputeNextRun(s, t) = IF HasHour(s) THEN At(KstDay(claimed), s.hour) ELSE claimed
    BY <1>1 DEF ComputeNextRun, ComputeInterval
  <2>2. DispatcherNext(s, t) = IF HasHour(s) THEN At(KstDay(claimed), s.hour) ELSE claimed
    BY <1>1 DEF DispatcherNext, Pinned
  <2> QED BY <2>1, <2>2
<1>2. CASE HasPartner(s) /\ s.type = "monthly"
  <2> DEFINE m == MonthOf(KstDay(t))
  <2>1. m \in Months /\ m + 1 \in Months /\ KstDay(t) \in Nat
    BY CoveredMonths
  <2>2. Hop(KstDay(t)) = m + 1
    BY <2>1, HopIsNext
  <2>3. PreciseMonthly(s, t) = ComputeMonthly(s, t)
    BY <2>2 DEF PreciseMonthly, ComputeMonthly
  <2> QED BY <1>2, <2>3 DEF DispatcherNext, ComputeNextRun
<1>3. CASE HasPartner(s) /\ s.type # "monthly"
  <2>1. KstDay(t) \in Nat /\ s.dow \in 0..6 /\ HourOr0(s) \in 0..23
    BY <1>3, KstParts, Fields
  <2> DEFINE k == (s.dow - Weekday(KstDay(t)) + 7) % 7
             cand == At(KstDay(t) + k, HourOr0(s))
  <2>2. (MondayFirst(s.dow) - PyWeekday(KstDay(t))) % 7 = k /\ k \in 0..6
    BY <2>1, WeekdaysAgree
  <2>3. PreciseWeekly(s, t) = SkipWeek(s, Upcoming(cand, cand + Week, t))
    BY <2>2 DEF PreciseWeekly
  <2>4. ComputeWeekly(s, t)
          = Upcoming(cand, cand + Week, t) + (IF s.type = "biweekly" THEN Week ELSE 0)
    BY DEF ComputeWeekly
  <2>5. cand \in Int
    <3>1. KstDay(t) + k \in Int
      BY <2>1, <2>2
    <3> HIDE DEF k
    <3> QED BY <2>1, <3>1, AtParts
  <2> HIDE DEF cand
  <2>6. Upcoming(cand, cand + Week, t) \in Int
    BY <2>5 DEF Upcoming, Week
  <2>7. PreciseWeekly(s, t) = ComputeWeekly(s, t)
    BY <2>3, <2>4, <2>6 DEF SkipWeek
  <2> QED BY <1>3, <2>7 DEF DispatcherNext, ComputeNextRun
<1> QED BY <1>1, <1>2, <1>3

-----------------------------------------------------------------------------
(* Where the computed run lies.                                            *)

(* The interval of a claim is a week at least.                             *)
LEMMA IntervalAhead ==
  ASSUME NEW type \in Types, NEW t \in Nat, Covered(t)
  PROVE  PlusInterval(type, t) \in Nat /\ PlusInterval(type, t) >= t + Week
<1>1. CASE type = "weekly"
  <2>1. PlusInterval(type, t) = t + Week
    BY <1>1 DEF PlusInterval
  <2> QED BY <2>1 DEF Week
<1>2. CASE type = "biweekly"
  <2>1. PlusInterval(type, t) = t + 2 * Week
    BY <1>2 DEF PlusInterval
  <2> QED BY <2>1 DEF Week
<1>3. CASE type = "monthly"
  <2> DEFINE day == UtcDay(t)
             m == MonthOf(day)
             date == DateOf(day)
             last == MonthDays(m + 1)
             x == Min({date, last})
             first == MonthStart[m]
             following == MonthStart[m + 1]
  <2>1. PlusInterval(type, t) = 24 * (following + x - 1) + (t % 24)
    BY <1>3 DEF PlusInterval, PlusMonth, DayOf
  <2>2. /\ day \in Nat /\ m \in Months /\ m + 1 \in Months
        /\ first <= day /\ day < following
    BY CoveredMonths
  <2>3. /\ first \in Nat /\ following \in Nat
        /\ MonthDays(m) \in 28..31 /\ following = first + MonthDays(m)
    BY <2>2, MonthTyped
  <2>4. last \in 28..31
    BY <2>2, MonthTyped
  <2>5. date = day - first + 1
    BY DEF DateOf
  <2>6. t % 24 \in 0..23 /\ t = 24 * day + (t % 24)
    BY DaysAndHours DEF UtcDay
  <2>7. x \in {date, last} /\ (x = date \/ x = last)
    <3>1. date \in Int /\ last \in Int
      BY <2>2, <2>3, <2>4, <2>5
    <3> HIDE DEF date, last
    <3>2. \E y \in {date, last} : \A z \in {date, last} : y <= z
      BY <3>1
    <3> QED BY <3>2 DEF Min
  <2> HIDE DEF day, m, date, last, x, first, following
  <2>8. following + x - 1 >= day + 28 /\ x \in Int
    BY <2>2, <2>3, <2>4, <2>5, <2>7
  <2> HIDE DEF x
  <2>9. PlusInterval(type, t) \in Int /\ PlusInterval(type, t) >= t + 28 * 24
    BY <2>1, <2>2, <2>3, <2>6, <2>8
  <2> QED BY <2>9 DEF Week
<1> QED BY <1>1, <1>2, <1>3 DEF Types

(* With no day to fall on, the run is at most an hour of a day earlier     *)
(* than the interval ends, and on its hour.                                *)
LEMMA IntervalRun ==
  ASSUME NEW s \in Schedules, NEW t \in Nat, Covered(t), ~HasPartner(s)
  PROVE  /\ ComputeNextRun(s, t) \in Nat /\ ComputeNextRun(s, t) >= t + 6 * 24
         /\ HasHour(s) => KstHour(ComputeNextRun(s, t)) = s.hour
<1> DEFINE end == PlusInterval(s.type, t)
<1>1. ComputeNextRun(s, t) = IF HasHour(s) THEN At(KstDay(end), s.hour) ELSE end
  BY DEF ComputeNextRun, ComputeInterval
<1>2. end \in Nat /\ end >= t + Week
  BY Fields, IntervalAhead
<1> HIDE DEF end
<1>3. CASE ~HasHour(s)
  BY <1>1, <1>2, <1>3 DEF Week
<1>4. CASE HasHour(s)
  <2>1. s.hour \in 0..23
    BY <1>4, Fields
  <2>2. KstDay(end) \in Nat /\ KstHour(end) \in 0..23 /\ end = At(KstDay(end), KstHour(end))
    BY <1>2, KstParts
  <2>3. At(KstDay(end), s.hour) >= end - 23 /\ At(KstDay(end), s.hour) \in Int
    BY <2>1, <2>2 DEF At
  <2>4. KstHour(At(KstDay(end), s.hour)) = s.hour
    <3>1. KstDay(end) \in Int
      BY <2>2
    <3> QED BY <2>1, <3>1, AtParts
  <2> QED BY <1>1, <1>2, <1>4, <2>3, <2>4 DEF Week
<1> QED BY <1>3, <1>4

(* A weekday's run is the one hour of that weekday in the seven days from  *)
(* now, a week later for a biweekly schedule.                              *)
LEMMA WeeklyRun ==
  ASSUME NEW s \in Schedules, NEW t \in Nat, HasPartner(s), s.type # "monthly"
  PROVE  \E day \in Nat :
           /\ ComputeNextRun(s, t)
                = At(day, HourOr0(s)) + (IF s.type = "biweekly" THEN Week ELSE 0)
           /\ Weekday(day) = s.dow
           /\ t < At(day, HourOr0(s)) /\ At(day, HourOr0(s)) <= t + Week
<1> DEFINE today == KstDay(t)
           k == (s.dow - Weekday(today) + 7) % 7
           h == HourOr0(s)
           cand == At(today + k, h)
<1>1. today \in Nat /\ KstHour(t) \in 0..23 /\ t = 24 * today + KstHour(t) - 9
  BY KstParts DEF At
<1>2. s.dow \in 0..6 /\ h \in 0..23
  BY Fields
<1>3. k \in 0..6 /\ Weekday(today + k) = s.dow
  BY <1>1, <1>2, WeekdaysAgree
<1>4. ComputeNextRun(s, t)
        = Upcoming(cand, cand + Week, t) + (IF s.type = "biweekly" THEN Week ELSE 0)
  BY DEF ComputeNextRun, ComputeWeekly
<1> HIDE DEF today, k, h
<1>5. /\ cand = 24 * (today + k) + h - 9 /\ cand \in Int /\ today + k \in Nat
      /\ cand <= t + Week /\ t < cand + Week
  BY <1>1, <1>2, <1>3 DEF At, Week
<1>6. cand + Week = At((today + k) + 7, h) /\ (today + k) + 7 \in Nat
  BY <1>1, <1>2, <1>3 DEF At, Week
<1>7. Weekday((today + k) + 7) = s.dow
  BY <1>3, <1>5, <1>2, WeekdaysAgree
<1>8. CASE cand <= t
  <2>1. Upcoming(cand, cand + Week, t) = At((today + k) + 7, h)
    BY <1>6, <1>8 DEF Upcoming
  <2>2. t < At((today + k) + 7, h) /\ At((today + k) + 7, h) <= t + Week
    <3> HIDE DEF cand
    <3> QED BY <1>5, <1>6, <1>8 DEF Week
  <2> QED BY <1>4, <1>6, <1>7, <2>1, <2>2 DEF h
<1>9. CASE ~(cand <= t)
  <2>1. Upcoming(cand, cand + Week, t) = cand
    BY <1>9 DEF Upcoming
  <2>2. t < cand /\ cand <= t + Week
    <3> HIDE DEF cand
    <3> QED BY <1>5, <1>9
  <2> QED BY <1>3, <1>4, <1>5, <2>1, <2>2 DEF h
<1> QED BY <1>8, <1>9

(* Such an hour is unique.                                                 *)
LEMMA OneWeekdayPerWeek ==
  ASSUME NEW a \in Nat, NEW b \in Nat, NEW h \in 0..23, NEW t \in Nat,
         Weekday(a) = Weekday(b),
         t < At(a, h), At(a, h) <= t + Week, t < At(b, h), At(b, h) <= t + Week
  PROVE  a = b
<1>1. a - b \in (-6)..6
  BY DEF At, Week
<1>2. FirstWeekday \in 0..6
  BY CalendarAssumption
<1> QED BY <1>1, <1>2 DEF Weekday

(* The run of a date is this month's when that is still ahead, and the     *)
(* next month's otherwise.                                                 *)
LEMMA MonthlyRun ==
  ASSUME NEW s \in Schedules, NEW t \in Nat, Covered(t), HasPartner(s), s.type = "monthly",
         NEW m, m = MonthOf(KstDay(t))
  PROVE  /\ m \in Months /\ m + 1 \in Months /\ s.dom \in 1..28 /\ HourOr0(s) \in 0..23
         /\ \E n \in {m, m + 1} :
              /\ ComputeNextRun(s, t) = At(DayOf(n, s.dom), HourOr0(s))
              /\ t < At(DayOf(n, s.dom), HourOr0(s))
              /\ n = m + 1 => At(DayOf(m, s.dom), HourOr0(s)) <= t
<1> DEFINE h == HourOr0(s)
           this == At(DayOf(m, s.dom), h)
           following == At(DayOf(m + 1, s.dom), h)
<1>1. /\ KstDay(t) \in Nat /\ m \in Months /\ m + 1 \in Months
      /\ MonthStart[m] <= KstDay(t) /\ KstDay(t) < MonthStart[m + 1]
  BY CoveredMonths
<1>2. s.dom \in 1..28 /\ h \in 0..23
  BY Fields
<1>3. ComputeNextRun(s, t) = IF this <= t THEN following ELSE this
  BY DEF ComputeNextRun, ComputeMonthly, Upcoming
<1>4. KstHour(t) \in 0..23 /\ t = 24 * KstDay(t) + KstHour(t) - 9
  BY KstParts DEF At
<1>5. DayOf(m, s.dom) \in Nat
  BY <1>1, <1>2, DateInMonth
<1>6. DayOf(m + 1, s.dom) \in Nat /\ MonthStart[m + 1] <= DayOf(m + 1, s.dom)
  BY <1>1, <1>2, DateInMonth
<1>7. MonthStart[m + 1] \in Nat
  BY <1>1, MonthTyped
<1> HIDE DEF h
<1>8. t < following /\ this \in Int
  <2>1. KstDay(t) + 1 <= DayOf(m + 1, s.dom)
    BY <1>1, <1>6, <1>7
  <2> QED BY <1>1, <1>2, <1>4, <1>5, <1>6, <2>1 DEF At
<1>9. CASE this <= t
  <2> HIDE DEF this, following
  <2>1. ComputeNextRun(s, t) = following
    BY <1>3, <1>9
  <2> QED BY <1>1, <1>2, <1>8, <1>9, <2>1 DEF this, following, h
<1>10. CASE ~(this <= t)
  <2>1. ComputeNextRun(s, t) = this /\ t < this
    <3> HIDE DEF this, following
    <3> QED BY <1>3, <1>8, <1>10
  <2>2. m # m + 1
    BY <1>1, MonthTyped
  <2> QED BY <1>1, <1>2, <2>1, <2>2 DEF h
<1> QED BY <1>9, <1>10

(* The computed run is ahead and is what the schedule says.                *)
LEMMA RunIsAhead ==
  ASSUME NEW s \in Schedules, NEW t \in Nat, Covered(t)
  PROVE  ComputeNextRun(s, t) \in Nat /\ ComputeNextRun(s, t) > t
<1>1. CASE ~HasPartner(s)
  BY <1>1, IntervalRun
<1>2. CASE HasPartner(s) /\ s.type # "monthly"
  <2>1. PICK day \in Nat :
          /\ ComputeNextRun(s, t)
               = At(day, HourOr0(s)) + (IF s.type = "biweekly" THEN Week ELSE 0)
          /\ t < At(day, HourOr0(s))
    BY <1>2, WeeklyRun
  <2>2. At(day, HourOr0(s)) \in Int
    BY Fields DEF At
  <2> QED BY <2>1, <2>2 DEF Week
<1>3. CASE HasPartner(s) /\ s.type = "monthly"
  <2>1. PICK n \in Months :
          /\ ComputeNextRun(s, t) = At(DayOf(n, s.dom), HourOr0(s))
          /\ t < At(DayOf(n, s.dom), HourOr0(s))
          /\ s.dom \in 1..28
    BY <1>3, MonthlyRun
  <2>2. DayOf(n, s.dom) \in Nat /\ HourOr0(s) \in 0..23
    BY <2>1, DateInMonth, Fields
  <2> QED BY <2>1, <2>2 DEF At
<1> QED BY <1>1, <1>2, <1>3

LEMMA RunIsConfigured ==
  ASSUME NEW s \in Schedules, NEW t \in Nat, Covered(t), NEW run, run = ComputeNextRun(s, t)
  PROVE  /\ HasHour(s) => KstHour(run) = s.hour
         /\ HasPartner(s) =>
              /\ KstHour(run) = HourOr0(s)
              /\ IF s.type = "monthly" THEN DateOf(KstDay(run)) = s.dom
                                       ELSE Weekday(KstDay(run)) = s.dow
<1>0. HourOr0(s) \in 0..23 /\ (HasHour(s) => s.hour = HourOr0(s))
  BY Fields
<1>1. CASE ~HasPartner(s)
  BY <1>1, IntervalRun
<1>2. CASE HasPartner(s) /\ s.type # "monthly"
  <2>1. PICK day \in Nat :
          /\ run = At(day, HourOr0(s)) + (IF s.type = "biweekly" THEN Week ELSE 0)
          /\ Weekday(day) = s.dow
    BY <1>2, WeeklyRun
  <2>2. PICK d \in Nat : run = At(d, HourOr0(s)) /\ Weekday(d) = s.dow
    <3>1. CASE s.type # "biweekly"
      <4>1. run = At(day, HourOr0(s))
        BY <1>0, <2>1, <3>1 DEF At
      <4> QED BY <2>1, <4>1
    <3>2. CASE s.type = "biweekly"
      <4>1. run = At(day + 7, HourOr0(s)) /\ day + 7 \in Nat
        BY <1>0, <2>1, <3>2 DEF At, Week
      <4>2. Weekday(day + 7) = s.dow
        BY <1>2, <2>1, WeekdaysAgree, Fields
      <4> QED BY <4>1, <4>2
    <3> QED BY <3>1, <3>2
  <2>3. KstDay(run) = d /\ KstHour(run) = HourOr0(s)
    <3>1. d \in Int
      BY <2>2
    <3> QED BY <1>0, <2>2, <3>1, AtParts
  <2> QED BY <1>0, <1>2, <2>2, <2>3
<1>3. CASE HasPartner(s) /\ s.type = "monthly"
  <2>1. PICK n \in Months : run = At(DayOf(n, s.dom), HourOr0(s)) /\ s.dom \in 1..28
    BY <1>3, MonthlyRun
  <2>2. DayOf(n, s.dom) \in Nat /\ DateOf(DayOf(n, s.dom)) = s.dom
    BY <2>1, DateInMonth
  <2>3. KstDay(run) = DayOf(n, s.dom) /\ KstHour(run) = HourOr0(s)
    <3>1. DayOf(n, s.dom) \in Int
      BY <2>2
    <3> QED BY <1>0, <2>1, <3>1, AtParts
  <2> QED BY <1>0, <1>3, <2>2, <2>3
<1> QED BY <1>1, <1>2, <1>3

-----------------------------------------------------------------------------
(* The steps.                                                              *)

(* What every state satisfies: the times are of the calendar, and a run    *)
(* whose refinement was not lost is the one that the web tier computes.    *)
CalInv ==
  /\ TypeOK
  /\ Covered(now)
  /\ FirstAndNextAgree

LEMMA InitCalInv == Init => CalInv
<1> SUFFICES ASSUME Init PROVE CalInv
  OBVIOUS
<1>1. /\ schedule \in Schedules /\ now \in Nat /\ Covered(now)
      /\ next = ComputeNextRun(schedule, now) /\ refined = TRUE
  BY CalendarAssumption, SavesAssumption DEF Init
<1>2. next \in Nat /\ next > now
  BY <1>1, RunIsAhead
<1> QED BY <1>1, <1>2 DEF CalInv, TypeOK, FirstAndNextAgree

(* A claim is a lateness after the run was due, and keeps the schedule.    *)
LEMMA DueIsLate ==
  ASSUME CalInv, Due
  PROVE  /\ schedule \in Schedules /\ schedule' = schedule
         /\ now' \in Nat /\ Covered(now')
         /\ \E late \in Lates : late \in Nat /\ now' = next + late
<1>1. schedule \in Schedules /\ next \in Nat /\ schedule' = schedule
  BY DEF CalInv, TypeOK, Due
<1>2. PICK late \in Lates : now' = next + late
  BY DEF Due
<1>3. late \in Nat
  BY CalendarAssumption
<1>4. now' \in Nat
  BY <1>1, <1>2, <1>3
<1>5. Covered(now')
  BY DEF Due, Covered
<1> QED BY <1>1, <1>2, <1>3, <1>4, <1>5

(* A refined claim leaves the run that the web tier would compute.         *)
LEMMA ClaimComputes ==
  ASSUME CalInv, Claim
  PROVE  next' = ComputeNextRun(schedule, now') /\ refined' = TRUE
<1>1. Due /\ next' = DispatcherNext(schedule, now') /\ refined' = TRUE
  BY DEF Claim
<1> QED BY <1>1, DueIsLate, ProgramsAgree

LEMMA NextCalInv == CalInv /\ [Next]_vars => CalInv'
<1> SUFFICES ASSUME CalInv, [Next]_vars PROVE CalInv'
  OBVIOUS
<1>1. CASE Claim
  <2>1. schedule \in Schedules /\ schedule' = schedule /\ now' \in Nat /\ Covered(now')
    BY <1>1, DueIsLate DEF Claim
  <2>2. next' = ComputeNextRun(schedule, now') /\ refined' = TRUE
    BY <1>1, ClaimComputes
  <2>3. next' \in Nat /\ next' > now'
    BY <2>1, <2>2, RunIsAhead
  <2>4. TypeOK'
    BY <2>1, <2>2, <2>3 DEF TypeOK
  <2>5. FirstAndNextAgree'
    BY <2>1, <2>2 DEF FirstAndNextAgree
  <2>6. Covered(now)'
    BY <2>1 DEF Covered
  <2> QED BY <2>4, <2>5, <2>6 DEF CalInv
<1>2. CASE ClaimOnly
  <2>1. schedule \in Schedules /\ schedule' = schedule /\ now' \in Nat /\ Covered(now')
    BY <1>2, DueIsLate DEF ClaimOnly
  <2>2. next' = PlusInterval(schedule.type, now') /\ refined' = FALSE
    BY <1>2 DEF ClaimOnly
  <2>3. next' \in Nat /\ next' >= now' + Week
    BY <2>1, <2>2, Fields, IntervalAhead
  <2>4. next' > now'
    <3>1. \A a, b \in Nat : b >= a + Week => b > a
      BY DEF Week
    <3> QED BY <2>1, <2>3, <3>1
  <2>5. TypeOK'
    BY <2>1, <2>2, <2>3, <2>4 DEF TypeOK
  <2>6. FirstAndNextAgree'
    BY <2>2 DEF FirstAndNextAgree
  <2>7. Covered(now)'
    BY <2>1 DEF Covered
  <2> QED BY <2>5, <2>6, <2>7 DEF CalInv
<1>3. CASE UNCHANGED vars
  BY <1>3 DEF CalInv, TypeOK, Covered, FirstAndNextAgree, vars
<1> QED BY <1>1, <1>2, <1>3 DEF Next

LEMMA Calendar == Spec => []CalInv
<1>1. Init => CalInv
  BY InitCalInv
<1>2. CalInv /\ [Next]_vars => CalInv'
  BY NextCalInv
<1> QED BY <1>1, <1>2, PTL DEF Spec

(* A run is always ahead of the time it was computed at, whatever the date, *)
(* the lengths of the months and the hour: no schedule is claimed again in *)
(* the tick that has claimed it.                                           *)
THEOREM TypeCorrect == Spec => []TypeOK
<1>1. CalInv => TypeOK
  BY DEF CalInv
<1> QED BY <1>1, Calendar, PTL

(* The web tier and the dispatcher compute the same run, at every claim and *)
(* on every calendar (diagnosis-schedule.ts:37-38).                        *)
THEOREM ProgramsNeverDiffer == Spec => []FirstAndNextAgree
<1>1. CalInv => FirstAndNextAgree
  BY DEF CalInv
<1> QED BY <1>1, Calendar, PTL

(* The run is on the weekday or the date, and at the hour, that the user   *)
(* has configured in KST, whichever day it is in UTC.                      *)
THEOREM RunsAsConfigured == Spec => []AsConfigured
<1>1. CalInv => AsConfigured
  <2> SUFFICES ASSUME CalInv, refined
               PROVE  /\ HasHour(schedule) => KstHour(next) = schedule.hour
                      /\ HasPartner(schedule) =>
                           /\ KstHour(next) = HourOr0(schedule)
                           /\ IF schedule.type = "monthly"
                                THEN DateOf(KstDay(next)) = schedule.dom
                                ELSE Weekday(KstDay(next)) = schedule.dow
    BY DEF AsConfigured
  <2>1. /\ schedule \in Schedules /\ now \in Nat /\ Covered(now)
        /\ next = ComputeNextRun(schedule, now)
    BY DEF CalInv, TypeOK, FirstAndNextAgree
  <2> QED BY <2>1, RunIsConfigured
<1> QED BY <1>1, Calendar, PTL

-----------------------------------------------------------------------------
(* Late claims.                                                            *)

(* A run of a weekday that is claimed less than a week late is followed by *)
(* the one of the next week, or of the week after it.                      *)
LEMMA WeekLater ==
  ASSUME NEW s \in Schedules, HasPartner(s), s.type # "monthly",
         NEW t \in Nat, NEW late \in Nat, late < Week,
         NEW run \in Nat, run = ComputeNextRun(s, t)
  PROVE  ComputeNextRun(s, run + late)
           = run + (IF s.type = "biweekly" THEN 2 * Week ELSE Week)
<1> DEFINE h == HourOr0(s)
           skip == IF s.type = "biweekly" THEN Week ELSE 0
<1>0. h \in 0..23 /\ skip \in {0, Week} /\ Week = 168 /\ run + late \in Nat /\ s.dow \in 0..6
  BY Fields DEF Week
<1>1. PICK a \in Nat : run = At(a, h) + skip /\ Weekday(a) = s.dow
  BY WeeklyRun
<1>2. PICK b \in Nat :
        /\ ComputeNextRun(s, run + late) = At(b, h) + skip /\ Weekday(b) = s.dow
        /\ run + late < At(b, h) /\ At(b, h) <= (run + late) + Week
  BY <1>0, WeeklyRun
<1>3. PICK c \in Nat : run = At(c, h) /\ Weekday(c) = s.dow
  <2>1. CASE skip = 0
    <3>1. run = At(a, h)
      BY <1>0, <1>1, <2>1 DEF At
    <3> QED BY <1>1, <3>1
  <2>2. CASE skip = Week
    <3>1. run = At(a + 7, h) /\ a + 7 \in Nat
      BY <1>0, <1>1, <2>2 DEF At
    <3>2. Weekday(a + 7) = s.dow
      BY <1>0, <1>1, WeekdaysAgree
    <3> QED BY <3>1, <3>2
  <2> QED BY <1>0, <2>1, <2>2
<1>4. At(c + 7, h) = run + Week /\ c + 7 \in Nat
  BY <1>0, <1>3 DEF At
<1>5. Weekday(c + 7) = s.dow
  BY <1>0, <1>3, WeekdaysAgree
<1>6. run + late < At(c + 7, h) /\ At(c + 7, h) <= (run + late) + Week
  BY <1>0, <1>4
<1>7. b = c + 7
  <2>1. Weekday(b) = Weekday(c + 7)
    BY <1>2, <1>5
  <2> DEFINE d == c + 7
             now1 == run + late
  <2>2. d \in Nat /\ now1 \in Nat
    BY <1>0, <1>4
  <2>3. /\ now1 < At(b, h) /\ At(b, h) <= now1 + Week
        /\ now1 < At(d, h) /\ At(d, h) <= now1 + Week
    BY <1>2, <1>6
  <2>4. h \in 0..23 /\ Weekday(b) = Weekday(d)
    BY <1>0, <2>1
  <2> HIDE DEF h, skip, d, now1
  <2>5. b = d
    BY <2>2, <2>3, <2>4, OneWeekdayPerWeek
  <2> QED BY <2>5 DEF d
<1>8. ComputeNextRun(s, run + late) = (run + Week) + skip
  BY <1>2, <1>4, <1>7
<1> QED BY <1>0, <1>8

(* A run of a date that is claimed less than a week late is followed by    *)
(* the one of the next month.                                              *)
LEMMA MonthLater ==
  ASSUME NEW s \in Schedules, HasPartner(s), s.type = "monthly",
         NEW t \in Nat, Covered(t), NEW late \in Nat, late < Week,
         NEW run \in Nat, run = ComputeNextRun(s, t), Covered(run + late)
  PROVE  \E m \in Months :
           /\ m + 1 \in Months /\ s.dom \in 1..28 /\ HourOr0(s) \in 0..23
           /\ run = At(DayOf(m, s.dom), HourOr0(s))
           /\ ComputeNextRun(s, run + late) = At(DayOf(m + 1, s.dom), HourOr0(s))
<1> DEFINE h == HourOr0(s)
           claim == run + late
           today == KstDay(claim)
<1>0. s.dom \in 1..28 /\ h \in 0..23 /\ claim \in Nat
  BY Fields
<1>1. PICK m \in Months : run = At(DayOf(m, s.dom), h)
  BY MonthlyRun
<1> HIDE DEF h, claim
<1>2. PICK c \in Months :
        /\ c = MonthOf(today) /\ c + 1 \in Months
        /\ MonthStart[c] <= today /\ today < MonthStart[c + 1] /\ today \in Nat
  BY <1>0, CoveredMonths DEF claim
<1>3. PICK n \in {c, c + 1} :
        /\ ComputeNextRun(s, claim) = At(DayOf(n, s.dom), h)
        /\ claim < At(DayOf(n, s.dom), h)
        /\ n = c + 1 => At(DayOf(c, s.dom), h) <= claim
  BY <1>0, <1>2, MonthlyRun DEF h, claim
<1>4. /\ DayOf(m, s.dom) \in Nat /\ DayOf(m, s.dom) = MonthStart[m] + s.dom - 1
      /\ MonthStart[m] <= DayOf(m, s.dom) /\ DayOf(m, s.dom) < MonthStart[m + 1]
      /\ MonthStart[m] \in Nat /\ MonthStart[m + 1] \in Nat /\ m \in Nat
      /\ MonthStart[m] + 28 <= MonthStart[m + 1]
  <2>1. MonthStart[m] \in Nat /\ MonthStart[m + 1] \in Nat /\ m \in Nat
    BY MonthTyped
  <2>2. MonthStart[m] + 28 <= MonthStart[m + 1]
    BY MonthsApart
  <2> QED BY <1>0, <2>1, <2>2, DateInMonth DEF DayOf
<1>5. DayOf(m, s.dom) <= today /\ today <= DayOf(m, s.dom) + 7
  <2>1. KstHour(claim) \in 0..23 /\ claim = 24 * today + KstHour(claim) - 9
    BY <1>0, KstParts DEF At
  <2>2. claim = run + late /\ run = 24 * DayOf(m, s.dom) + h - 9
    BY <1>1 DEF claim, At
  <2>3. late < 168
    BY DEF Week
  <2> HIDE DEF today
  <2> QED BY <1>0, <1>2, <1>4, <2>1, <2>2, <2>3
(* The claim is made in the month of the run or in the next.               *)
<1>6. c = m \/ c = m + 1
  <2>1. CASE today < MonthStart[m + 1]
    <3>1. MonthStart[m] <= today
      BY <1>2, <1>4, <1>5
    <3> QED BY <1>2, <2>1, <3>1, MonthIs
  <2>2. CASE MonthStart[m + 1] <= today
    <3>1. m < c
      <4>1. c \in Nat /\ MonthStart[c + 1] \in Nat /\ c + 1 \in 1..Len(MonthStart)
        BY MonthTyped
      <4>2. c + 1 # m + 1
        BY <1>2, <1>4, <2>2
      <4>3. ~(c + 1 < m + 1)
        <5>1. m + 1 \in 1..Len(MonthStart)
          BY MonthTyped
        <5>2. ASSUME c + 1 < m + 1 PROVE FALSE
          <6>1. MonthStart[c + 1] < MonthStart[m + 1]
            BY <4>1, <5>1, <5>2, StartsAscend
          <6> QED BY <1>2, <1>4, <2>2, <4>1, <6>1
        <5> QED BY <5>2
      <4> QED BY <1>4, <4>1, <4>2, <4>3
    <3>2. m + 1 \in Months
      BY <3>1, MonthTyped, CalendarAssumption DEF Months
    <3>3. today < MonthStart[(m + 1) + 1]
      <4>1. MonthStart[m + 1] + 28 <= MonthStart[(m + 1) + 1]
            /\ MonthStart[(m + 1) + 1] \in Nat
        BY <3>2, MonthTyped, MonthsApart
      <4> HIDE DEF today
      <4> QED BY <1>2, <1>4, <1>5, <4>1
    <3> QED BY <1>2, <2>2, <3>2, <3>3, MonthIs
  <2> QED BY <1>2, <1>4, <2>1, <2>2
<1>7. n = m + 1 /\ m + 1 \in Months
  <2>1. CASE c = m
    <3>1. ~(claim < At(DayOf(m, s.dom), h))
      BY <1>0, <1>1, <1>4 DEF claim, At
    <3>2. n # m
      BY <1>3, <3>1
    <3> QED BY <1>2, <1>3, <2>1, <3>2
  <2>2. CASE c = m + 1
    <3>1. DayOf(c, s.dom) = MonthStart[m + 1] + s.dom - 1
      BY <2>2 DEF DayOf
    <3>2. claim = run + late /\ run = 24 * DayOf(m, s.dom) + h - 9 /\ late < 168
      BY <1>1 DEF claim, At, Week
    <3>3. DayOf(m, s.dom) + 28 <= DayOf(c, s.dom) /\ DayOf(c, s.dom) \in Nat
      BY <1>0, <1>4, <3>1
    <3>4. ~(At(DayOf(c, s.dom), h) <= claim)
      <4>1. At(DayOf(c, s.dom), h) = 24 * DayOf(c, s.dom) + h - 9
        BY DEF At
      <4> QED BY <1>0, <1>4, <3>2, <3>3, <4>1
    <3>5. n # c + 1
      BY <1>3, <3>4
    <3> QED BY <1>2, <1>3, <2>2, <3>5
  <2> QED BY <1>6, <2>1, <2>2
<1> QED BY <1>0, <1>1, <1>3, <1>7 DEF h, claim

(* schedule_dispatcher.py:62-64: for every calendar and every schedule, a  *)
(* run of the configured dates that is claimed within three days is not    *)
(* followed by another for four, whether or not its refinement is lost.    *)
(* Three days are exact: a weekly run that is claimed later is followed by *)
(* the next one sooner than that.                                          *)
THEOREM NeverADoubleRun ==
  ASSUME \A late \in Lates : late <= 3 * 24
  PROVE  Spec => NoDoubleRun
<1>1. ASSUME CalInv, [Next]_vars, refined, ~(UNCHANGED vars)
      PROVE  next' >= now' + 4 * 24
  <2>0. Claim \/ ClaimOnly
    BY <1>1 DEF Next
  <2>1. Due
    BY <2>0 DEF Claim, ClaimOnly
  <2>2. PICK late \in Nat : now' = next + late /\ late <= 72
    BY <1>1, <2>1, DueIsLate
  <2>3. /\ schedule \in Schedules /\ now \in Nat /\ Covered(now) /\ next \in Nat
        /\ next = ComputeNextRun(schedule, now)
    BY <1>1 DEF CalInv, TypeOK, FirstAndNextAgree
  <2>4. PICK claim \in Nat : claim = now' /\ claim = next + late /\ Covered(claim)
    BY <1>1, <2>1, <2>2, DueIsLate
  <2>5. Covered(next + late)
    BY <2>4
  <2>6. late < Week /\ Week = 168
    BY <2>2 DEF Week
  <2>7. CASE ClaimOnly
    <3>1. next' = PlusInterval(schedule.type, claim)
      BY <2>4, <2>7 DEF ClaimOnly
    <3>2. PlusInterval(schedule.type, claim) \in Nat
          /\ PlusInterval(schedule.type, claim) >= claim + Week
      BY <2>3, <2>4, Fields, IntervalAhead
    <3>3. PlusInterval(schedule.type, claim) >= claim + 4 * 24
      BY <2>4, <2>6, <3>2
    <3> QED BY <2>4, <3>1, <3>3
  <2>8. CASE Claim
    <3>1. next' = ComputeNextRun(schedule, claim)
      BY <1>1, <2>4, <2>8, ClaimComputes
    <3>2. ComputeNextRun(schedule, claim) >= claim + 4 * 24
      <4>1. CASE ~HasPartner(schedule)
        <5>1. ComputeNextRun(schedule, claim) \in Nat
              /\ ComputeNextRun(schedule, claim) >= claim + 6 * 24
          BY <2>3, <2>4, <4>1, IntervalRun
        <5> QED BY <2>4, <5>1
      <4>2. CASE HasPartner(schedule) /\ schedule.type # "monthly"
        <5>1. ComputeNextRun(schedule, next + late)
                = next + (IF schedule.type = "biweekly" THEN 2 * Week ELSE Week)
          BY <2>3, <2>6, <4>2, WeekLater
        <5> QED BY <2>2, <2>3, <2>4, <2>6, <5>1
      <4>3. CASE HasPartner(schedule) /\ schedule.type = "monthly"
        <5>1. PICK m \in Months :
                /\ m + 1 \in Months /\ schedule.dom \in 1..28 /\ HourOr0(schedule) \in 0..23
                /\ next = At(DayOf(m, schedule.dom), HourOr0(schedule))
                /\ ComputeNextRun(schedule, next + late)
                     = At(DayOf(m + 1, schedule.dom), HourOr0(schedule))
          BY <2>3, <2>5, <2>6, <4>3, MonthLater
        <5>2. MonthStart[m] + 28 <= MonthStart[m + 1]
              /\ MonthStart[m] \in Nat /\ MonthStart[m + 1] \in Nat
          BY MonthsApart, MonthTyped
        <5>3. ComputeNextRun(schedule, next + late) >= next + 28 * 24
          BY <5>1, <5>2 DEF At, DayOf
        <5>4. ComputeNextRun(schedule, next + late) \in Int
          BY <5>1, <5>2 DEF At, DayOf
        <5> QED BY <2>2, <2>3, <2>4, <5>3, <5>4
      <4> QED BY <4>1, <4>2, <4>3
    <3> QED BY <2>4, <3>1, <3>2
  <2> QED BY <2>0, <2>7, <2>8
<1>2. CalInv /\ [Next]_vars => [refined => next' >= now' + 4 * 24]_vars
  BY <1>1
<1> QED BY <1>2, Calendar, PTL DEF Spec, NoDoubleRun

(* Lateness does not add up: on every calendar, a run that is claimed less *)
(* than a week after it was due leaves one that is a week, two weeks or a  *)
(* month of KST after the time it was due, not after the claim.  (A run of *)
(* a weekday that is claimed a week late has been missed, and the next one *)
(* is of a later week.)                                                    *)
THEOREM LatenessDoesNotAddUp ==
  ASSUME \A late \in Lates : late < Week
  PROVE  Spec => NoDrift
<1> DEFINE Step ==
      CASE schedule.type = "weekly"   -> next' = next + Week
        [] schedule.type = "biweekly" -> next' = next + 2 * Week
        [] schedule.type = "monthly"  -> MonthOf(KstDay(next')) = MonthOf(KstDay(next)) + 1
<1>1. ASSUME CalInv, [Next]_vars, HasPartner(schedule), refined, refined', ~(UNCHANGED vars)
      PROVE  Step
  <2>1. Claim /\ Due
    BY <1>1 DEF Next, Claim, ClaimOnly
  <2>2. PICK late \in Nat : now' = next + late /\ late < Week
    BY <1>1, <2>1, DueIsLate
  <2>3. /\ schedule \in Schedules /\ now \in Nat /\ Covered(now) /\ next \in Nat
        /\ next = ComputeNextRun(schedule, now)
    BY <1>1 DEF CalInv, TypeOK, FirstAndNextAgree
  <2>4. PICK claim \in Nat : claim = now' /\ claim = next + late /\ Covered(claim)
    BY <1>1, <2>1, <2>2, DueIsLate
  <2>5. Covered(next + late)
    BY <2>4
  <2>6. next' = ComputeNextRun(schedule, next + late)
    BY <1>1, <2>1, <2>4, ClaimComputes
  <2>7. CASE schedule.type # "monthly"
    <3>1. ComputeNextRun(schedule, next + late)
            = next + (IF schedule.type = "biweekly" THEN 2 * Week ELSE Week)
      BY <1>1, <2>2, <2>3, <2>7, WeekLater
    <3>2. schedule.type = "weekly" \/ schedule.type = "biweekly"
      BY <2>3, <2>7, Fields DEF Types
    <3> QED BY <2>6, <3>1, <3>2
  <2>8. CASE schedule.type = "monthly"
    <3>1. PICK m \in Months :
            /\ m + 1 \in Months /\ schedule.dom \in 1..28 /\ HourOr0(schedule) \in 0..23
            /\ next = At(DayOf(m, schedule.dom), HourOr0(schedule))
            /\ ComputeNextRun(schedule, next + late)
                 = At(DayOf(m + 1, schedule.dom), HourOr0(schedule))
      BY <1>1, <2>2, <2>3, <2>5, <2>8, MonthLater
    <3>2. /\ DayOf(m, schedule.dom) \in Int /\ MonthOf(DayOf(m, schedule.dom)) = m
          /\ DayOf(m + 1, schedule.dom) \in Int /\ MonthOf(DayOf(m + 1, schedule.dom)) = m + 1
      BY <3>1, DateInMonth
    <3>3. MonthOf(KstDay(next)) = m
      BY <3>1, <3>2, AtParts
    <3>4. MonthOf(KstDay(next')) = m + 1
      BY <2>6, <3>1, <3>2, AtParts
    <3> QED BY <2>8, <3>3, <3>4
  <2> QED BY <2>7, <2>8
<1>2. CalInv /\ [Next]_vars => [HasPartner(schedule) /\ refined /\ refined' => Step]_vars
  BY <1>1
<1> QED BY <1>2, Calendar, PTL DEF Spec, NoDrift

=============================================================================
