-------------------------- MODULE MCScheduleCalendar --------------------------
(***************************************************************************)
(* Sixteen months, of a plain year and of the leap year after it, from a   *)
(* Friday on.                                                              *)
(***************************************************************************)
EXTENDS ScheduleCalendar

Plain == <<31, 28, 31, 30, 31, 30, 31, 31, 30, 31, 30, 31>>
Leap  == [Plain EXCEPT ![2] = 29]

MCMonthStart ==
  LET lengths == Plain \o SubSeq(Leap, 1, 4)
      Start[m \in 1..Len(lengths) + 1] ==
        IF m = 1 THEN 0 ELSE Start[m - 1] + lengths[m - 1]
  IN  Start

(* The boundaries of each field: midnight and nine o'clock in KST are the  *)
(* hours at which the KST and the UTC day begin.                           *)
MCHours == {Absent, 0, 8, 9, 23}
MCSchedules ==
  [type : {"weekly", "biweekly"}, dow : {Absent, 0, 1, 6}, dom : {Absent}, hour : MCHours]
    \cup [type : {"monthly"}, dow : {Absent}, dom : {Absent, 1, 15, 28}, hour : MCHours]

(* The days about the end of January and some before, in steps that meet   *)
(* both midnights.                                                         *)
MCSaveTimes == {24 * day + h : day \in {0, 1, 9, 13} \cup 26..32, h \in {0, 8, 14, 15, 23}}

(* In the hour it was due, on the far side of midnight, and days after.    *)
MCLates == {0, 2, 60}
=============================================================================
