--------------------------- MODULE ScheduleCalendar ---------------------------
(***************************************************************************)
(* When a scheduled diagnosis runs next.  The same dates are computed      *)
(* twice: computeNextRun (web/lib/diagnosis-schedule.ts) when the user     *)
(* saves a schedule, and the claim's interval refined by _precise_next_run *)
(* (schedule_dispatcher.py) when a run is claimed.                         *)
(*                                                                         *)
(* A time is an hour of UTC; the detail fields of a schedule are read in   *)
(* KST, nine hours ahead.  A day is counted from the calendar's first, and *)
(* the same number names the UTC day and the KST day of that date.  Within *)
(* an hour nothing differs: a run pinned to the hour of the claim is past. *)
(***************************************************************************)
EXTENDS Integers, Sequences, FiniteSetsExt

CONSTANTS
  MonthStart,     \* the calendar: the first days of its consecutive months, then its end
  FirstWeekday,   \* weekday of its first day, 0 = Sunday
  Schedules,      \* schedules to look at: [type, dow, dom, hour]
  SaveTimes,      \* hours at which one may be saved
  Lates,          \* hours by which a claim may come after the run was due
  Absent          \* a detail field that is not configured

Types    == {"weekly", "biweekly", "monthly"}
Schedule == [type : Types, dow : 0..6 \cup {Absent}, dom : 1..28 \cup {Absent},
             hour : 0..23 \cup {Absent}]

ASSUME CalendarAssumption ==
  /\ MonthStart \in Seq(Nat)
  /\ Len(MonthStart) > 3 /\ MonthStart[1] = 0
  /\ \A m \in 1..Len(MonthStart) - 1 : MonthStart[m + 1] - MonthStart[m] \in 28..31
  /\ FirstWeekday \in 0..6
  /\ Schedules \subseteq Schedule
  /\ SaveTimes \subseteq Nat
  /\ Lates \subseteq Nat
  (* route.ts:50-57: the partner field fits the cadence *)
  /\ \A s \in Schedules : IF s.type = "monthly" THEN s.dow = Absent ELSE s.dom = Absent

-----------------------------------------------------------------------------
(* The calendar.                                                           *)
Months         == 1..Len(MonthStart) - 1
MonthDays(m)   == MonthStart[m + 1] - MonthStart[m]
MonthOf(day)   == CHOOSE m \in Months : MonthStart[m] <= day /\ day < MonthStart[m + 1]
DateOf(day)    == day - MonthStart[MonthOf(day)] + 1
DayOf(m, date) == MonthStart[m] + date - 1
Weekday(day)   == (FirstWeekday + day) % 7

Week        == 7 * 24
UtcDay(t)   == t \div 24
KstDay(t)   == (t + 9) \div 24
KstHour(t)  == (t + 9) % 24
At(day, h)  == 24 * day + h - 9     \* hour h of the KST day

(* The calendar lasts for another run.                                     *)
Covered(t) == KstDay(t) < MonthStart[Len(MonthStart) - 2]

ASSUME SavesAssumption == \A t \in SaveTimes : Covered(t)

-----------------------------------------------------------------------------
(* now + interval: Postgres, and computeNextRun's arithmetic on UTC dates. *)
(* A month that is too short ends the interval on its last day.            *)
PlusMonth(t) ==
  LET m == MonthOf(UtcDay(t))
  IN  24 * DayOf(m + 1, Min({DateOf(UtcDay(t)), MonthDays(m + 1)})) + (t % 24)

PlusInterval(type, t) ==
  CASE type = "weekly"   -> t + Week
    [] type = "biweekly" -> t + 2 * Week
    [] type = "monthly"  -> PlusMonth(t)

HasHour(s)    == s.hour # Absent
HasPartner(s) == IF s.type = "monthly" THEN s.dom # Absent ELSE s.dow # Absent
HourOr0(s)    == IF HasHour(s) THEN s.hour ELSE 0

(* The first candidate that is not past, one step on otherwise.            *)
Upcoming(cand, later, now) == IF cand <= now THEN later ELSE cand

(* computeNextRun.                                                         *)
ComputeWeekly(s, now) ==
  LET day == KstDay(now)
      cand == At(day + ((s.dow - Weekday(day) + 7) % 7), HourOr0(s))
  IN  Upcoming(cand, cand + Week, now) + (IF s.type = "biweekly" THEN Week ELSE 0)

ComputeMonthly(s, now) ==
  LET m == MonthOf(KstDay(now))
  IN  Upcoming(At(DayOf(m, s.dom), HourOr0(s)), At(DayOf(m + 1, s.dom), HourOr0(s)), now)

ComputeInterval(s, now) ==
  LET next == PlusInterval(s.type, now)
  IN  IF HasHour(s) THEN At(KstDay(next), s.hour) ELSE next

ComputeNextRun(s, now) ==
  CASE ~HasPartner(s) -> ComputeInterval(s, now)
    [] HasPartner(s) /\ s.type = "monthly" -> ComputeMonthly(s, now)
    [] HasPartner(s) /\ s.type # "monthly" -> ComputeWeekly(s, now)

-----------------------------------------------------------------------------
(* _precise_next_run.  Python's weeks begin on Monday, and the field's on  *)
(* Sunday: the conversion, and its omission.                               *)
SundayFirst(dow) == dow
MondayFirst(dow) == (dow + 6) % 7
PyWeekday(day)   == (Weekday(day) + 6) % 7

(* The biweekly step forgotten, and taken.                                 *)
EveryWeek(s, cand) == cand
SkipWeek(s, cand)  == IF s.type = "biweekly" THEN cand + Week ELSE cand

PreciseWeekly(s, now) ==
  LET day == KstDay(now)
      cand == At(day + ((MondayFirst(s.dow) - PyWeekday(day)) % 7), HourOr0(s))
  IN  SkipWeek(s, Upcoming(cand, cand + Week, now))

(* The hop to the next month goes by 32 days from the first; by 28 it can  *)
(* stay where it is.                                                       *)
HopBy28(day) == MonthOf(DayOf(MonthOf(day), 1) + 28)
Hop(day)     == MonthOf(DayOf(MonthOf(day), 1) + 32)

PreciseMonthly(s, now) ==
  LET day == KstDay(now)
  IN  Upcoming(At(DayOf(MonthOf(day), s.dom), HourOr0(s)), At(DayOf(Hop(day), s.dom), HourOr0(s)), now)

(* The hour alone is pinned on the date that the claim has written.        *)
PinnedToday(s, now, claimed) == At(KstDay(now), s.hour)
Pinned(s, now, claimed)      == At(KstDay(claimed), s.hour)

(* What the claim and its refinement leave in next_run_at.                 *)
DispatcherNext(s, now) ==
  LET claimed == PlusInterval(s.type, now)
  IN  CASE ~HasPartner(s) /\ ~HasHour(s) -> claimed
        [] ~HasPartner(s) /\ HasHour(s)  -> Pinned(s, now, claimed)
        [] HasPartner(s) /\ s.type = "monthly" -> PreciseMonthly(s, now)
        [] HasPartner(s) /\ s.type # "monthly" -> PreciseWeekly(s, now)

-----------------------------------------------------------------------------
VARIABLES
  schedule,  \* the saved schedule
  now,       \* the hour of its save or of its last claim
  next,      \* its next_run_at
  refined    \* FALSE when that is only what the claim wrote

vars == <<schedule, now, next, refined>>

(* A run is always ahead of the time it was computed at, also when it      *)
(* returns to the configured dates after a lost refinement.                *)
TypeOK ==
  /\ schedule \in Schedules
  /\ now \in Nat
  /\ next \in Nat /\ next > now
  /\ refined \in BOOLEAN

Init ==
  /\ schedule \in Schedules
  /\ now \in SaveTimes
  /\ next = ComputeNextRun(schedule, now)
  /\ refined = TRUE

(* The row is due: _CLAIM_SQL stamps the hour.                             *)
Due ==
  /\ \E late \in Lates : now' = next + late
  /\ Covered(now')
  /\ UNCHANGED schedule

Claim == Due /\ next' = DispatcherNext(schedule, now') /\ refined' = TRUE

(* The report is not enqueued, or the invocation ends before the second    *)
(* UPDATE: the interval stands.                                            *)
ClaimOnly == Due /\ next' = PlusInterval(schedule.type, now') /\ refined' = FALSE

Next == Claim \/ ClaimOnly

Spec == Init /\ [][Next]_vars
-----------------------------------------------------------------------------
(* diagnosis-schedule.ts:37-38: the run that the web tier would compute    *)
(* and the one the dispatcher leaves in the row agree, at every claim.     *)
FirstAndNextAgree == refined => next = ComputeNextRun(schedule, now)

(* schedule_dispatcher.py:62-64, "never a double run": a run of the         *)
(* configured dates is not followed by another for four days, even when it *)
(* was claimed late and whether or not the refinement is lost.  (After a   *)
(* lost one the next run is off those dates, and the one that returns to   *)
(* them may come any time later.)                                          *)
NoDoubleRun == [][refined => next' >= now' + 4 * 24]_vars

(* The run falls on the weekday or the date of the configuration, and on   *)
(* its hour, in KST, whichever day it is in UTC.                           *)
AsConfigured ==
  refined =>
    /\ HasHour(schedule) => KstHour(next) = schedule.hour
    /\ HasPartner(schedule) =>
         /\ KstHour(next) = HourOr0(schedule)
         /\ IF schedule.type = "monthly" THEN DateOf(KstDay(next)) = schedule.dom
                                         ELSE Weekday(KstDay(next)) = schedule.dow

(* Of a run that is claimed less than a week late, the one that follows is *)
(* one week, two weeks, or a month of KST after the time at which it was   *)
(* due: lateness does not add up.                                          *)
NoDrift ==
  [][HasPartner(schedule) /\ refined /\ refined' =>
       CASE schedule.type = "weekly"   -> next' = next + Week
         [] schedule.type = "biweekly" -> next' = next + 2 * Week
         [] schedule.type = "monthly"  -> MonthOf(KstDay(next')) = MonthOf(KstDay(next)) + 1]_vars
=============================================================================
