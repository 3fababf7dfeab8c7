------------------------------ MODULE Calendar ------------------------------
(***************************************************************************)
(* The calendar arithmetic of a recurring series.  Times are hours: of UTC *)
(* when stored, of the series' time zone when the next deadline is worked  *)
(* out.  Days and months are numbered from the origin of the local clock,  *)
(* days from 0 and months from 1; a year is only a run of months.          *)
(*                                                                         *)
(* The zone has one summer time, one hour ahead of its winter time.        *)
(***************************************************************************)
EXTENDS Integers, Sequences

CONSTANTS HoursPerDay,
          FirstDay,      \* the day each month begins, as far as the model
                         \* goes; the last of them ends the last month
          Winter,        \* hours the zone is ahead of UTC in winter
          SummerBegins,  \* hours of UTC
          SummerEnds

Months == 1 .. Len(FirstDay) - 1

ASSUME DayAssumption    == HoursPerDay \in Nat \ {0, 1}
ASSUME MonthsAssumption ==
    /\ FirstDay \in Seq(Nat)
    /\ FirstDay # << >> /\ FirstDay[1] = 0
    /\ \A m, k \in DOMAIN FirstDay : m < k => FirstDay[m] < FirstDay[k]
ASSUME ZoneAssumption ==
    /\ Winter \in Int /\ SummerBegins \in Int /\ SummerEnds \in Int
    /\ SummerBegins < SummerEnds

-----------------------------------------------------------------------------
(* The zone: time.Time.In and time.Date of Go. *)

Period(utc) == IF utc < SummerBegins THEN 1 ELSE IF utc < SummerEnds THEN 2 ELSE 3

Offset(utc) == IF Period(utc) = 2 THEN Winter + 1 ELSE Winter

Local(utc) == utc + Offset(utc)

(* time.Date looks the offset up as if local were a time of UTC, and again *)
(* if the result lies in another period.  For an hour that summer time     *)
(* skips it returns one that exists, an hour earlier or later.             *)
FromLocal(local) ==
    LET guess == Offset(local)
        utc   == local - guess
    IN IF guess = 0 \/ Period(utc) = Period(local) THEN utc
       ELSE local - Offset(utc)

-----------------------------------------------------------------------------
(* Dates of the local clock. *)

Day(local)   == local \div HoursPerDay
Clock(local) == local % HoursPerDay
Month(local) == CHOOSE m \in Months : FirstDay[m] <= Day(local) /\ Day(local) < FirstDay[m + 1]

(* The months of the model include this time. *)
InCalendar(local) == 0 <= Day(local) /\ Day(local) < FirstDay[Len(FirstDay)]

DayOfMonth(local) == Day(local) - FirstDay[Month(local)] + 1

(* time.Date with a day that the month need not have. *)
Date(month, day, clock) ==
    FromLocal((FirstDay[month] + day - 1) * HoursPerDay + clock)

(* Mutant of AddCalendarMonths: the day is not clamped, as AddDate has it. *)
AddMonthsNormalised(local, n) ==
    Date(Month(local) + n, DayOfMonth(local), Clock(local))

AddCalendarMonths(local, n) ==
    LET first  == Local(Date(Month(local) + n, 1, Clock(local)))
        last   == Local(Date(Month(first) + 1, 0, Clock(local)))
        day    == IF DayOfMonth(local) > DayOfMonth(last)
                  THEN DayOfMonth(last) ELSE DayOfMonth(local)
    IN Date(Month(first), day, Clock(local))

AddDays(local, n) == FromLocal(local + n * HoursPerDay)

Frequency == {"DAILY", "WEEKLY", "MONTHLY"}

(* Mutant of NextDeadline: days are added to the time of UTC. *)
NextDeadlineOfUTC(frequency, interval, utc) ==
    CASE frequency = "DAILY"   -> utc + interval * HoursPerDay
      [] frequency = "WEEKLY"  -> utc + 7 * interval * HoursPerDay
      [] frequency = "MONTHLY" -> AddCalendarMonths(Local(utc), interval)

NextDeadline(frequency, interval, utc) ==
    CASE frequency = "DAILY"   -> AddDays(Local(utc), interval)
      [] frequency = "WEEKLY"  -> AddDays(Local(utc), 7 * interval)
      [] frequency = "MONTHLY" -> AddCalendarMonths(Local(utc), interval)
=============================================================================
