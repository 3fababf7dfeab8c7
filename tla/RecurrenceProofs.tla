-------------------------- MODULE RecurrenceProofs --------------------------
(***************************************************************************)
(* Recurrence for every set of series and runners, every length of days    *)
(* and months, and every zone with one summer time.                        *)
(***************************************************************************)
EXTENDS Recurrence, FiniteSetTheorems, WellFoundedInduction, TLAPS

(* The hour of the local clock that summer time skips.                     *)
Skipped == SummerBegins + Winter

(* Summer time does not begin at the turn of a month.  Where it does,      *)
(* time.Date moves the first of the month at the skipped hour to the end   *)
(* of the month before, and a monthly series at that hour stays where it   *)
(* is for ever.                                                            *)
SummerBeginsWithinMonth ==
    \A m \in DOMAIN FirstDay :
        Skipped \notin {FirstDay[m] * HoursPerDay - 1, FirstDay[m] * HoursPerDay}

Timed(s) == FrequencyOf[s] = "MONTHLY" => Regular(s) \/ SummerBeginsWithinMonth

AllTimed == \A s \in Series : Timed(s)

-----------------------------------------------------------------------------
(* Days and hours. *)

LEMMA DayAndClock ==
    ASSUME NEW t \in Int
    PROVE  /\ t = HoursPerDay * Day(t) + Clock(t)
           /\ Day(t) \in Int
           /\ Clock(t) \in 0 .. HoursPerDay - 1
  BY DayAssumption DEF Day, Clock

LEMMA DayAndClockAre ==
    ASSUME NEW d \in Int, NEW c \in 0 .. HoursPerDay - 1,
           NEW t \in Int, t = HoursPerDay * d + c
    PROVE  Day(t) = d /\ Clock(t) = c
  BY DayAssumption DEF Day, Clock

LEMMA LaterDay ==
    ASSUME NEW t \in Int, NEW n \in Int
    PROVE  Day(t + n * HoursPerDay) = Day(t) + n /\ Clock(t + n * HoursPerDay) = Clock(t)
  <1>1. PICK d \in Int, c \in 0 .. HoursPerDay - 1 :
           d = Day(t) /\ c = Clock(t) /\ t = HoursPerDay * d + c
    BY DayAndClock
  <1>2. t + n * HoursPerDay = HoursPerDay * (d + n) + c
    BY <1>1, DayAssumption
  <1>3. d + n \in Int /\ t + n * HoursPerDay \in Int
    BY DayAssumption
  <1> QED BY <1>1, <1>2, <1>3, DayAndClockAre

LEMMA DayIsMonotonic ==
    ASSUME NEW t \in Int, NEW u \in Int, t <= u
    PROVE  Day(t) <= Day(u)
  <1>1. PICK d \in Int, c \in 0 .. HoursPerDay - 1 : d = Day(t) /\ t = HoursPerDay * d + c
    BY DayAndClock
  <1>2. PICK e \in Int, b \in 0 .. HoursPerDay - 1 : e = Day(u) /\ u = HoursPerDay * e + b
    BY DayAndClock
  <1>3. ASSUME e + 1 <= d PROVE FALSE
    <2>1. HoursPerDay * (e + 1) <= HoursPerDay * d
      BY <1>3, DayAssumption
    <2>2. HoursPerDay * (e + 1) = HoursPerDay * e + HoursPerDay
      BY DayAssumption
    <2> QED BY <1>1, <1>2, <2>1, <2>2, DayAssumption
  <1> QED BY <1>1, <1>2, <1>3

(* An hour more or less does not leave a run of days, away from its ends.  *)
LEMMA NearbyHour ==
    ASSUME NEW f \in Int, NEW g \in Int, NEW d \in Int, f <= d, d < g,
           NEW c \in 0 .. HoursPerDay - 1,
           NEW t \in Int, t = HoursPerDay * d + c,
           t # f * HoursPerDay, t # g * HoursPerDay - 1,
           NEW u \in {t - 1, t, t + 1}
    PROVE  f <= Day(u) /\ Day(u) < g /\ Day(u) \in Int
  <1>1. /\ f * HoursPerDay \in Int /\ g * HoursPerDay \in Int /\ HoursPerDay * d \in Int
        /\ f * HoursPerDay <= HoursPerDay * d
        /\ HoursPerDay * d + HoursPerDay <= g * HoursPerDay
    <2>1. HoursPerDay * (d + 1) = HoursPerDay * d + HoursPerDay
      BY DayAssumption
    <2>2. HoursPerDay * (d + 1) <= g * HoursPerDay
      BY DayAssumption
    <2> QED BY <2>1, <2>2, DayAssumption
  <1>2. u \in Int /\ f * HoursPerDay <= u /\ u < g * HoursPerDay
    BY <1>1, DayAssumption
  <1>3. PICK e \in Int, b \in 0 .. HoursPerDay - 1 : e = Day(u) /\ u = HoursPerDay * e + b
    BY <1>2, DayAndClock
  <1>4. ASSUME e + 1 <= f PROVE FALSE
    <2>1. HoursPerDay * (e + 1) <= f * HoursPerDay
      BY <1>4, DayAssumption
    <2>2. HoursPerDay * (e + 1) = HoursPerDay * e + HoursPerDay
      BY DayAssumption
    <2> QED BY <1>1, <1>2, <1>3, <2>1, <2>2, DayAssumption
  <1>5. ASSUME g <= e PROVE FALSE
    <2>1. g * HoursPerDay <= HoursPerDay * e
      BY <1>5, DayAssumption
    <2> QED BY <1>1, <1>2, <1>3, <2>1, DayAssumption
  <1> QED BY <1>3, <1>4, <1>5

-----------------------------------------------------------------------------
(* The zone. *)

LEMMA ZoneTypes ==
    ASSUME NEW t \in Int
    PROVE  Local(t) \in Int /\ FromLocal(t) \in Int /\ Skipped \in Int
  BY ZoneAssumption DEF Local, FromLocal, Offset, Period, Skipped

(* time.Date gives back the local time it is asked for, except the hour    *)
(* that does not exist; that one it moves by an hour.                      *)
LEMMA LocalOfDate ==
    ASSUME NEW t \in Int
    PROVE  /\ t # Skipped => Local(FromLocal(t)) = t
           /\ Local(FromLocal(t)) \in {t - 1, t, t + 1}
  BY ZoneAssumption DEF Local, FromLocal, Offset, Period, Skipped

LEMMA LaterOnTheClock ==
    ASSUME NEW t \in Int, NEW u \in Int, Local(t) < Local(u)
    PROVE  t < u
  BY ZoneAssumption DEF Local, Offset, Period

LEMMA LocalBound ==
    ASSUME NEW t \in Int, NEW u \in Int, t <= u
    PROVE  Local(t) <= u + Winter + 1
  BY ZoneAssumption DEF Local, Offset, Period

-----------------------------------------------------------------------------
(* Months. *)

(* A non-empty set of naturals has a smallest element: the library states  *)
(* it of predicates, and for well-founded relations of sets.               *)
Below == {p \in Nat \X Nat : p[1] < p[2]}

LEMMA LeastOf ==
    ASSUME NEW S \in SUBSET Nat, S # {}
    PROVE  \E x \in S : \A y \in S : x <= y
  <1>1. IsWellFoundedOn(Below, Nat)
    BY NatLessThanWellFounded DEF Below, OpToRel
  <1>2. PICK x \in S : \A y \in S : ~(<<y, x>> \in Below)
    BY <1>1, WFMin
  <1>3. ASSUME NEW y \in S PROVE x <= y
    <2>1. ~(y < x)
      BY <1>2 DEF Below
    <2> QED BY <2>1
  <1> QED BY <1>3

LEMMA FirstDays ==
    /\ Len(FirstDay) \in Nat \ {0}
    /\ DOMAIN FirstDay = 1 .. Len(FirstDay)
    /\ \A m \in 1 .. Len(FirstDay) : FirstDay[m] \in Nat
    /\ \A m, k \in 1 .. Len(FirstDay) : m < k => FirstDay[m] < FirstDay[k]
    /\ FirstDay[1] = 0
  BY MonthsAssumption

LEMMA MonthBounds ==
    ASSUME NEW m \in Months
    PROVE  /\ m \in 1 .. Len(FirstDay) /\ m + 1 \in 1 .. Len(FirstDay)
           /\ FirstDay[m] \in Nat /\ FirstDay[m + 1] \in Nat
           /\ FirstDay[m] < FirstDay[m + 1]
           /\ \A k \in Months : k < m => FirstDay[k + 1] <= FirstDay[m]
  <1>1. m \in 1 .. Len(FirstDay) /\ m + 1 \in 1 .. Len(FirstDay)
    BY FirstDays DEF Months
  <1>2. ASSUME NEW k \in Months, k < m PROVE FirstDay[k + 1] <= FirstDay[m]
    <2>1. k + 1 \in 1 .. Len(FirstDay) /\ (k + 1 = m \/ k + 1 < m)
      BY <1>1, <1>2, FirstDays DEF Months
    <2> QED BY <1>1, <2>1, FirstDays
  <1> QED BY <1>1, <1>2, FirstDays

(* At most one month has a day ... *)
LEMMA MonthIs ==
    ASSUME NEW m \in Months, NEW t, Day(t) \in Int,
           FirstDay[m] <= Day(t), Day(t) < FirstDay[m + 1]
    PROVE  Month(t) = m /\ InCalendar(t)
  <1>1. m \in 1 .. Len(FirstDay) /\ m + 1 \in 1 .. Len(FirstDay)
    BY FirstDays DEF Months
  <1>2. ASSUME NEW k \in Months, FirstDay[k] <= Day(t), Day(t) < FirstDay[k + 1]
        PROVE  k = m
    <2>0. k \in 1 .. Len(FirstDay) /\ k + 1 \in 1 .. Len(FirstDay)
      BY FirstDays DEF Months
    <2>1. CASE k < m
      <3>1. FirstDay[k + 1] <= FirstDay[m]
        BY <1>1, <2>0, <2>1, FirstDays
      <3> QED BY <1>1, <1>2, <2>0, <3>1, FirstDays
    <2>2. CASE m < k
      <3>1. FirstDay[m + 1] <= FirstDay[k]
        BY <1>1, <2>0, <2>2, FirstDays
      <3> QED BY <1>1, <1>2, <2>0, <3>1, FirstDays
    <2> QED BY <1>1, <2>0, <2>1, <2>2
  <1>3. Month(t) = m
    BY <1>2 DEF Month
  <1>4. InCalendar(t)
    <2>1. FirstDay[m + 1] <= FirstDay[Len(FirstDay)]
      BY <1>1, FirstDays
    <2> QED BY <1>1, <2>1, FirstDays DEF InCalendar
  <1> QED BY <1>3, <1>4

(* ... and every day of the calendar is in one. *)
LEMMA MonthOf ==
    ASSUME NEW t, Day(t) \in Int, InCalendar(t)
    PROVE  /\ Month(t) \in Months
           /\ FirstDay[Month(t)] <= Day(t)
           /\ Day(t) < FirstDay[Month(t) + 1]
  <1> DEFINE S == {k \in 1 .. Len(FirstDay) : Day(t) < FirstDay[k]}
  <1>1. S \in SUBSET Nat /\ S # {}
    BY FirstDays DEF InCalendar
  <1>2. PICK k \in S : \A j \in S : k <= j
    BY <1>1, LeastOf
  <1>3. k # 1
    BY <1>2, FirstDays DEF InCalendar
  <1>4. k - 1 \in 1 .. Len(FirstDay) /\ k - 1 \in Months /\ k - 1 \notin S
    BY <1>2, <1>3, FirstDays DEF Months
  <1>5. FirstDay[k - 1] <= Day(t) /\ Day(t) < FirstDay[(k - 1) + 1]
    BY <1>2, <1>4, FirstDays
  <1> QED BY <1>4, <1>5, MonthIs

LEMMA MonthTypes ==
    ASSUME NEW t \in Int, InCalendar(t)
    PROVE  Month(t) \in Int /\ DayOfMonth(t) \in Int
  <1>1. Day(t) \in Int
    BY DayAndClock
  <1>2. Month(t) \in Months
    BY <1>1, MonthOf
  <1>3. Month(t) \in Int
    BY <1>2, FirstDays DEF Months
  <1>4. FirstDay[Month(t)] \in Int
    BY <1>2, MonthBounds
  <1> QED BY <1>1, <1>3, <1>4 DEF DayOfMonth

(* A date of a month is in that month, on its day and at its hour, unless  *)
(* it falls on the skipped hour; even then in its month, if the turn of    *)
(* the month is not skipped.                                               *)
LEMMA DateIsInMonth ==
    ASSUME NEW m \in Months, NEW d \in Int, 1 <= d, d <= FirstDay[m + 1] - FirstDay[m],
           NEW c \in 0 .. HoursPerDay - 1,
           c # SkippedClock \/ SummerBeginsWithinMonth
    PROVE  /\ Date(m, d, c) \in Int
           /\ InCalendar(Local(Date(m, d, c)))
           /\ Month(Local(Date(m, d, c))) = m
           /\ c # SkippedClock => /\ Clock(Local(Date(m, d, c))) = c
                                 /\ DayOfMonth(Local(Date(m, d, c))) = d
  <1>0. /\ m \in 1 .. Len(FirstDay) /\ m + 1 \in 1 .. Len(FirstDay)
        /\ FirstDay[m] \in Nat /\ FirstDay[m + 1] \in Nat
    BY FirstDays DEF Months
  <1> DEFINE day == FirstDay[m] + d - 1
             t == day * HoursPerDay + c
             u == Local(Date(m, d, c))
  <1>1. day \in Int /\ t \in Int /\ t = HoursPerDay * day + c
    BY <1>0, DayAssumption
  <1>2. Day(t) = day /\ Clock(t) = c
    BY <1>1, DayAndClockAre
  <1>3. Date(m, d, c) = FromLocal(t) /\ Date(m, d, c) \in Int /\ u \in Int
    BY <1>1, ZoneTypes DEF Date
  <1>4. CASE t # Skipped
    <2>1. u = t
      BY <1>1, <1>3, <1>4, LocalOfDate
    <2>2. FirstDay[m] <= Day(u) /\ Day(u) < FirstDay[m + 1] /\ Day(u) \in Int
      BY <1>0, <1>1, <1>2, <2>1
    <2>3. Month(u) = m /\ InCalendar(u)
      BY <2>2, MonthIs
    <2> QED BY <1>0, <1>2, <1>3, <2>1, <2>3 DEF DayOfMonth
  <1>5. CASE t = Skipped
    <2>1. c = SkippedClock
      BY <1>2, <1>5 DEF Skipped, SkippedClock
    <2>2. t # FirstDay[m] * HoursPerDay /\ t # FirstDay[m + 1] * HoursPerDay - 1
      BY <1>0, <1>5, <2>1, FirstDays DEF SummerBeginsWithinMonth
    <2>3. u \in {t - 1, t, t + 1}
      BY <1>1, <1>3, LocalOfDate
    <2>4. FirstDay[m] <= Day(u) /\ Day(u) < FirstDay[m + 1] /\ Day(u) \in Int
      <3>1. FirstDay[m] <= day /\ day < FirstDay[m + 1]
        BY <1>0
      <3> HIDE DEF day, t, u
      <3> QED BY <1>0, <1>1, <1>3, <2>2, <2>3, <3>1, NearbyHour
    <2>5. Month(u) = m /\ InCalendar(u)
      BY <2>4, MonthIs
    <2> QED BY <1>3, <2>1, <2>5
  <1> QED BY <1>4, <1>5

(* addCalendarMonths: the month n later, at the same hour, and not on a    *)
(* later day of the month.                                                 *)
LEMMA MonthsLater ==
    ASSUME NEW t \in Int, InCalendar(t), NEW n \in Nat \ {0}, Month(t) + n \in Months,
           Clock(t) # SkippedClock \/ SummerBeginsWithinMonth
    PROVE  LET v == AddCalendarMonths(t, n) IN
           /\ v \in Int
           /\ InCalendar(Local(v))
           /\ Month(Local(v)) = Month(t) + n
           /\ Clock(t) # SkippedClock => /\ Clock(Local(v)) = Clock(t)
                                        /\ DayOfMonth(Local(v)) <= DayOfMonth(t)
           /\ t < Local(v)
  <1> DEFINE c == Clock(t)
             m == Month(t) + n
             length == FirstDay[m + 1] - FirstDay[m]
             first == Local(Date(m, 1, c))
             last == Local(Date(m + 1, 0, c))
             day == IF DayOfMonth(t) > DayOfMonth(last) THEN DayOfMonth(last) ELSE DayOfMonth(t)
             v == AddCalendarMonths(t, n)
  <1>1. /\ Day(t) \in Int /\ c \in 0 .. HoursPerDay - 1
        /\ Month(t) \in Months
        /\ FirstDay[Month(t)] <= Day(t) /\ Day(t) < FirstDay[Month(t) + 1]
    BY DayAndClock, MonthOf
  <1>2. /\ m \in Months /\ m \in Nat
        /\ FirstDay[m] \in Nat /\ FirstDay[m + 1] \in Nat
        /\ length \in Nat \ {0}
        /\ FirstDay[Month(t)] \in Nat
        /\ FirstDay[Month(t) + 1] <= FirstDay[m]
    <2>1. m \in Months /\ m \in Nat /\ Month(t) < m
      BY <1>1, MonthBounds
    <2>2. FirstDay[m] \in Nat /\ FirstDay[m + 1] \in Nat /\ FirstDay[m] < FirstDay[m + 1]
      BY <2>1, MonthBounds
    <2>3. FirstDay[Month(t)] \in Nat /\ FirstDay[Month(t) + 1] <= FirstDay[m]
      <3> HIDE DEF m
      <3> QED BY <1>1, <2>1, MonthBounds
    <2> QED BY <2>1, <2>2, <2>3
  <1>3. Month(first) = m
    BY <1>1, <1>2, DateIsInMonth
  <1>4. Month(last) = m /\ DayOfMonth(last) \in Int /\ 1 <= DayOfMonth(last)
        /\ DayOfMonth(last) <= length
    <2>1. Date(m + 1, 0, c) = Date(m, length, c)
      <3>1. FirstDay[m + 1] + 0 - 1 = FirstDay[m] + length - 1
        BY <1>2
      <3> QED BY <3>1 DEF Date
    <2>2. /\ length \in Int /\ 1 <= length
          /\ Date(m, length, c) \in Int
          /\ InCalendar(last) /\ Month(last) = m
      <3> HIDE DEF m, length, c
      <3>1. length \in Int /\ 1 <= length
        BY <1>2
      <3>2. c # SkippedClock \/ SummerBeginsWithinMonth
        BY DEF c
      <3>3. length <= FirstDay[m + 1] - FirstDay[m]
        BY <1>2 DEF length
      <3>4. /\ Date(m, length, c) \in Int
            /\ InCalendar(Local(Date(m, length, c))) /\ Month(Local(Date(m, length, c))) = m
        BY <1>1, <1>2, <3>1, <3>2, <3>3, DateIsInMonth
      <3> QED BY <2>1, <3>1, <3>4
    <2>3. Day(last) \in Int
      BY <2>1, <2>2, ZoneTypes, DayAndClock
    <2>4. FirstDay[m] <= Day(last) /\ Day(last) < FirstDay[m + 1]
      BY <2>2, <2>3, MonthOf
    <2> HIDE DEF last, m
    <2> QED BY <1>2, <2>2, <2>3, <2>4 DEF DayOfMonth, length
  <1>5. /\ DayOfMonth(t) \in Int /\ 1 <= DayOfMonth(t)
        /\ day \in Int /\ 1 <= day /\ day <= length /\ day <= DayOfMonth(t)
    <2>1. DayOfMonth(t) \in Int /\ 1 <= DayOfMonth(t)
      BY <1>1, <1>2 DEF DayOfMonth
    <2>2. length \in Int
      BY <1>2
    <2> HIDE DEF last, length
    <2> QED BY <1>4, <2>1, <2>2
  <1>6. v = Date(m, day, c)
    BY <1>3 DEF AddCalendarMonths
  <1>7. /\ v \in Int /\ InCalendar(Local(v)) /\ Month(Local(v)) = m
        /\ c # SkippedClock => Clock(Local(v)) = c /\ DayOfMonth(Local(v)) = day
    <2> HIDE DEF day, v
    <2> QED BY <1>1, <1>2, <1>5, <1>6, DateIsInMonth
  <1>8. t < Local(v)
    <2> HIDE DEF v
    <2>1. Local(v) \in Int
      BY <1>7, ZoneTypes
    <2>2. Day(Local(v)) \in Int /\ FirstDay[m] <= Day(Local(v))
      BY <1>7, <2>1, DayAndClock, MonthOf
    <2>3. Day(t) < Day(Local(v))
      <3> HIDE DEF m
      <3>1. FirstDay[Month(t) + 1] \in Int
        BY <1>1, MonthBounds
      <3> QED BY <1>1, <1>2, <2>2, <3>1
    <2>4. CASE Local(v) <= t
      BY <1>1, <2>1, <2>2, <2>3, <2>4, DayIsMonotonic
    <2> QED BY <2>1, <2>4
  <1> HIDE DEF day, v
  <1> QED BY <1>5, <1>7, <1>8 DEF v

(* AddDate(0, 0, n): the day n later, at the same hour. *)
LEMMA DaysLater ==
    ASSUME NEW t \in Int, NEW n \in Nat \ {0}
    PROVE  LET v == AddDays(t, n) IN
           /\ v \in Int
           /\ Clock(t) # SkippedClock => /\ Clock(Local(v)) = Clock(t)
                                        /\ Day(Local(v)) = Day(t) + n
           /\ t < Local(v)
  <1> DEFINE u == t + n * HoursPerDay
             v == AddDays(t, n)
  <1>1. u \in Int /\ t + 2 <= u
    BY DayAssumption
  <1>2. Day(u) = Day(t) + n /\ Clock(u) = Clock(t)
    BY LaterDay
  <1>3. v = FromLocal(u) /\ v \in Int /\ Local(v) \in Int
    BY <1>1, ZoneTypes DEF AddDays
  <1>4. Local(v) \in {u - 1, u, u + 1} /\ (u # Skipped => Local(v) = u)
    BY <1>1, <1>3, LocalOfDate
  <1>5. Clock(t) # SkippedClock => u # Skipped
    BY <1>2 DEF SkippedClock, Skipped
  <1> HIDE DEF u, v
  <1>6. t < Local(v)
    BY <1>1, <1>3, <1>4
  <1> QED BY <1>2, <1>3, <1>4, <1>5, <1>6 DEF v

-----------------------------------------------------------------------------
(* One series, as a deadline, the set of tasks made for it and whether it  *)
(* is active.  The invariant is stated of these three, so that what an     *)
(* advance does to it needs no variable.                                   *)

First(s) == Local(FirstDeadline[s])

FollowingOf(s, at) == NextDeadline(FrequencyOf[s], Interval[s], at)

(* The calendar holds this deadline and the one after it. *)
InRange(s, at) ==
    FrequencyOf[s] = "MONTHLY" =>
        InCalendar(Local(at)) /\ Month(Local(at)) + Interval[s] \in Months

OnClock(s, at) == Regular(s) => Clock(Local(at)) = Clock(First(s))

(* The deadline is n periods after the first one. *)
PeriodsOn(s, at, n) ==
    /\ FrequencyOf[s] = "MONTHLY" =>
          /\ Month(Local(at)) = Month(First(s)) + n
          /\ Regular(s) => DayOfMonth(Local(at)) <= DayOfMonth(First(s))
    /\ FrequencyOf[s] = "WEEKLY" /\ Regular(s) => Day(Local(at)) = Day(First(s)) + 7 * n
    /\ FrequencyOf[s] = "DAILY" /\ Regular(s) => Day(Local(at)) = Day(First(s)) + n

Times(M, on) == IF on THEN Cardinality(M) ELSE Cardinality(M) - 1

Within(s, deadline) == deadline = FirstDeadline[s] \/ deadline <= EndsAt[s]

(* Tasks were made for earlier deadlines, and for the present one exactly  *)
(* when the series has been given up there: so a deadline that is due and  *)
(* active is a new one, and counts.                                        *)
Sound(s, at, M, on) ==
    /\ at \in Int /\ on \in BOOLEAN
    /\ IsFiniteSet(M) /\ M \subseteq Int
    /\ \A deadline \in M : deadline <= at /\ Within(s, deadline)
    /\ Within(s, at)
    /\ on <=> ~(at \in M)
    /\ ~on => FollowingOf(s, at) > EndsAt[s]
    /\ InRange(s, at)
    /\ OnClock(s, at)
    /\ PeriodsOn(s, at, Times(M, on) * Interval[s])

(* What a poll has claimed is nobody else's and stays due until it ends. *)
ClaimsInv ==
    \A r \in Runner :
        /\ batch[r] \subseteq Series
        /\ \A s \in batch[r] : Timed(s) => s \in Due
        /\ \A q \in Runner : q # r => batch[q] \cap batch[r] = {}

SeriesInv == \A s \in Series : Timed(s) => Sound(s, next[s], made[s], active[s])

ShapeInv ==
    /\ clock \in 0 .. MaxTime
    /\ next = [s \in Series |-> next[s]]
    /\ active \in [Series -> BOOLEAN]
    /\ made = [s \in Series |-> made[s]]
    /\ deadlines = [s \in Series |-> deadlines[s]]
    /\ batch = [r \in Runner |-> batch[r]]

IInv == ShapeInv /\ ClaimsInv /\ SeriesInv

-----------------------------------------------------------------------------
(* What an advance does to one series. *)

LEMMA Parameters ==
    ASSUME NEW s \in Series
    PROVE  /\ FrequencyOf[s] \in Frequency
           /\ Interval[s] \in Nat \ {0}
           /\ FirstDeadline[s] \in Int /\ EndsAt[s] \in Int
  BY SeriesAssumption

(* The next deadline is a later one: at the same hour, one period on. *)
LEMMA FollowingIsNext ==
    ASSUME NEW s \in Series, Timed(s),
           NEW at \in Int, InRange(s, at), OnClock(s, at)
    PROVE  LET f == FollowingOf(s, at) IN
           /\ f \in Int /\ at < f
           /\ OnClock(s, f)
           /\ FrequencyOf[s] = "MONTHLY" =>
                 /\ InCalendar(Local(f))
                 /\ Month(Local(f)) = Month(Local(at)) + Interval[s]
                 /\ Regular(s) => DayOfMonth(Local(f)) <= DayOfMonth(Local(at))
           /\ FrequencyOf[s] = "WEEKLY" /\ Regular(s) =>
                 Day(Local(f)) = Day(Local(at)) + 7 * Interval[s]
           /\ FrequencyOf[s] = "DAILY" /\ Regular(s) =>
                 Day(Local(f)) = Day(Local(at)) + Interval[s]
  <1> DEFINE t == Local(at)
             f == FollowingOf(s, at)
  <1>1. t \in Int /\ Interval[s] \in Nat \ {0} /\ 7 * Interval[s] \in Nat \ {0}
    BY ZoneTypes, Parameters
  <1>2. Regular(s) => Clock(t) # SkippedClock /\ Clock(t) = Clock(First(s))
    BY DEF OnClock, Regular, First
  <1>3. CASE FrequencyOf[s] = "MONTHLY"
    <2>1. f = AddCalendarMonths(t, Interval[s])
      BY <1>3 DEF FollowingOf, NextDeadline
    <2>2. InCalendar(t) /\ Month(t) + Interval[s] \in Months
      BY <1>3 DEF InRange
    <2>3. Clock(t) # SkippedClock \/ SummerBeginsWithinMonth
      BY <1>2, <1>3 DEF Timed
    <2>4. /\ f \in Int /\ InCalendar(Local(f))
          /\ Month(Local(f)) = Month(t) + Interval[s]
          /\ Clock(t) # SkippedClock => /\ Clock(Local(f)) = Clock(t)
                                       /\ DayOfMonth(Local(f)) <= DayOfMonth(t)
          /\ t < Local(f)
      <3> HIDE DEF t, f
      <3> QED BY <1>1, <2>1, <2>2, <2>3, MonthsLater
    <2>5. at < f
      BY <2>4, LaterOnTheClock
    <2> HIDE DEF f
    <2> QED BY <1>2, <1>3, <2>4, <2>5 DEF OnClock, f
  <1>4. CASE FrequencyOf[s] = "WEEKLY"
    <2>1. f = AddDays(t, 7 * Interval[s])
      BY <1>4 DEF FollowingOf, NextDeadline
    <2>2. /\ f \in Int /\ t < Local(f)
          /\ Clock(t) # SkippedClock => /\ Clock(Local(f)) = Clock(t)
                                       /\ Day(Local(f)) = Day(t) + 7 * Interval[s]
      <3> HIDE DEF t, f
      <3> QED BY <1>1, <2>1, DaysLater
    <2>3. at < f
      BY <2>2, LaterOnTheClock
    <2> HIDE DEF f
    <2> QED BY <1>2, <1>4, <2>2, <2>3 DEF OnClock, f
  <1>5. CASE FrequencyOf[s] = "DAILY"
    <2>1. f = AddDays(t, Interval[s])
      BY <1>5 DEF FollowingOf, NextDeadline
    <2>2. /\ f \in Int /\ t < Local(f)
          /\ Clock(t) # SkippedClock => /\ Clock(Local(f)) = Clock(t)
                                       /\ Day(Local(f)) = Day(t) + Interval[s]
      <3> HIDE DEF t, f
      <3> QED BY <1>1, <2>1, DaysLater
    <2>3. at < f
      BY <2>2, LaterOnTheClock
    <2> HIDE DEF f
    <2> QED BY <1>2, <1>5, <2>2, <2>3 DEF OnClock, f
  <1> QED BY <1>3, <1>4, <1>5, Parameters DEF Frequency

(* As long as the clock runs the calendar does not end. *)
LEMMA FollowingInRange ==
    ASSUME NEW s \in Series, Timed(s),
           NEW at \in Int, InRange(s, at), OnClock(s, at), at <= MaxTime
    PROVE  InRange(s, FollowingOf(s, at))
  <1> DEFINE t == Local(at)
             f == FollowingOf(s, at)
  <1> SUFFICES ASSUME FrequencyOf[s] = "MONTHLY"
               PROVE  InCalendar(Local(f)) /\ Month(Local(f)) + Interval[s] \in Months
    BY DEF InRange
  <1>1. /\ t \in Int /\ t <= MaxTime + Winter + 1 /\ MaxTime + Winter + 1 \in Int
        /\ InCalendar(t)
    BY ZoneTypes, LocalBound, BoundsAssumption, ZoneAssumption DEF InRange
  <1>2. Month(t) \in Months /\ FirstDay[Month(t)] <= Day(t) /\ FirstDay[Month(t)] \in Nat
    BY <1>1, DayAndClock, MonthOf, MonthBounds
  <1>3. FirstDay[Month(t)] <= Day(MaxTime + Winter + 1)
    <2>1. Day(t) \in Int /\ Day(MaxTime + Winter + 1) \in Int
      BY <1>1, DayAndClock
    <2>2. Day(t) <= Day(MaxTime + Winter + 1)
      BY <1>1, DayIsMonotonic
    <2> QED BY <1>2, <2>1, <2>2
  <1>4. Month(t) + 2 * Interval[s] \in Months
    BY <1>2, <1>3, HorizonAssumption
  <1>5. InCalendar(Local(f)) /\ Month(Local(f)) = Month(t) + Interval[s]
    BY FollowingIsNext
  <1>6. Month(t) \in Int /\ Interval[s] \in Int
    BY <1>2, Parameters, FirstDays DEF Months
  <1>7. Month(Local(f)) + Interval[s] = Month(t) + 2 * Interval[s]
    BY <1>5, <1>6
  <1> QED BY <1>4, <1>5, <1>7

LEMMA OneMore ==
    ASSUME NEW n \in Nat, NEW i \in Nat
    PROVE  (n + 1) * i = n * i + i /\ n * i \in Nat
  OBVIOUS

(* One period on from n periods is n + 1 periods. *)
LEMMA FollowingPeriod ==
    ASSUME NEW s \in Series, Timed(s), NEW n \in Nat,
           NEW at \in Int, InRange(s, at), OnClock(s, at), PeriodsOn(s, at, n * Interval[s])
    PROVE  PeriodsOn(s, FollowingOf(s, at), (n + 1) * Interval[s])
  <1> DEFINE f == FollowingOf(s, at)
             i == Interval[s]
             p == n * i
  <1>1. i \in Nat /\ p \in Nat /\ (n + 1) * i = p + i
    BY Parameters, OneMore
  <1>2. /\ f \in Int /\ Day(First(s)) \in Int /\ First(s) \in Int
        /\ Day(Local(at)) \in Int /\ Day(Local(f)) \in Int
    BY FollowingIsNext, Parameters, ZoneTypes, DayAndClock DEF First
  <1>3. CASE FrequencyOf[s] = "MONTHLY"
    <2>1. InCalendar(First(s)) /\ InCalendar(Local(at)) /\ InCalendar(Local(f))
      BY <1>3, HorizonAssumption, FollowingIsNext DEF InRange, First
    <2>2. Local(at) \in Int /\ Local(f) \in Int
      BY <1>2, ZoneTypes
    <2>3. /\ Month(First(s)) \in Int /\ Month(Local(at)) \in Int
          /\ DayOfMonth(First(s)) \in Int /\ DayOfMonth(Local(at)) \in Int
          /\ DayOfMonth(Local(f)) \in Int
      <3> HIDE DEF f
      <3> QED BY <1>2, <2>1, <2>2, MonthTypes
    <2>4. /\ Month(Local(f)) = Month(Local(at)) + i
          /\ Regular(s) => DayOfMonth(Local(f)) <= DayOfMonth(Local(at))
      BY <1>3, FollowingIsNext
    <2>5. /\ Month(Local(at)) = Month(First(s)) + p
          /\ Regular(s) => DayOfMonth(Local(at)) <= DayOfMonth(First(s))
      BY <1>3 DEF PeriodsOn
    <2> HIDE DEF f, i, p
    <2>6. Month(Local(f)) = Month(First(s)) + (p + i)
      BY <1>1, <2>3, <2>4, <2>5
    <2>7. Regular(s) => DayOfMonth(Local(f)) <= DayOfMonth(First(s))
      BY <2>3, <2>4, <2>5
    <2> QED BY <1>1, <1>3, <2>6, <2>7 DEF PeriodsOn, f, i
  <1>4. CASE FrequencyOf[s] = "WEEKLY"
    <2>1. Regular(s) => /\ Day(Local(f)) = Day(Local(at)) + 7 * i
                        /\ Day(Local(at)) = Day(First(s)) + 7 * p
      BY <1>4, FollowingIsNext DEF PeriodsOn
    <2> HIDE DEF f, i, p
    <2>2. Regular(s) => Day(Local(f)) = Day(First(s)) + 7 * (p + i)
      BY <1>1, <1>2, <2>1
    <2> QED BY <1>1, <1>4, <2>2 DEF PeriodsOn, f, i
  <1>5. CASE FrequencyOf[s] = "DAILY"
    <2>1. Regular(s) => /\ Day(Local(f)) = Day(Local(at)) + i
                        /\ Day(Local(at)) = Day(First(s)) + p
      BY <1>5, FollowingIsNext DEF PeriodsOn
    <2> HIDE DEF f, i, p
    <2>2. Regular(s) => Day(Local(f)) = Day(First(s)) + (p + i)
      BY <1>1, <1>2, <2>1
    <2> QED BY <1>1, <1>5, <2>2 DEF PeriodsOn, f, i
  <1> QED BY <1>3, <1>4, <1>5, Parameters DEF Frequency

(* A due series becomes a task, and goes on to its next deadline or ends. *)
LEMMA AdvanceIsSound ==
    ASSUME NEW s \in Series, Timed(s), NEW at, NEW M,
           Sound(s, at, M, TRUE), at <= MaxTime
    PROVE  /\ FollowingOf(s, at) > EndsAt[s] => Sound(s, at, M \cup {at}, FALSE)
           /\ ~(FollowingOf(s, at) > EndsAt[s]) =>
                 Sound(s, FollowingOf(s, at), M \cup {at}, TRUE)
  <1> DEFINE f == FollowingOf(s, at)
             made1 == M \cup {at}
             n == Cardinality(M)
  <1>1. /\ at \in Int /\ IsFiniteSet(M) /\ M \subseteq Int
        /\ \A deadline \in M : deadline <= at /\ Within(s, deadline)
        /\ Within(s, at) /\ at \notin M
        /\ InRange(s, at) /\ OnClock(s, at)
        /\ PeriodsOn(s, at, n * Interval[s])
    BY DEF Sound, Times
  <1>2. f \in Int /\ at < f /\ OnClock(s, f) /\ EndsAt[s] \in Int
    BY <1>1, FollowingIsNext, Parameters
  <1>3. InRange(s, f)
    BY <1>1, FollowingInRange
  <1>4. n \in Nat /\ IsFiniteSet(made1) /\ Cardinality(made1) = n + 1
    BY <1>1, FS_CardinalityType, FS_AddElement
  <1>5. PeriodsOn(s, f, (n + 1) * Interval[s])
    BY <1>1, <1>4, FollowingPeriod
  <1> HIDE DEF f, n
  <1>6. /\ made1 \subseteq Int
        /\ \A deadline \in made1 : deadline <= at /\ deadline <= f /\ deadline # f
        /\ \A deadline \in made1 : Within(s, deadline)
    <2>1. ASSUME NEW d \in made1
          PROVE  d \in Int /\ d <= at /\ d <= f /\ d # f
      BY <1>1, <1>2
    <2> QED BY <1>1, <2>1
  <1>7. ASSUME f > EndsAt[s] PROVE Sound(s, at, made1, FALSE)
    <2>1. Times(made1, FALSE) = n
      BY <1>4 DEF Times
    <2> HIDE DEF made1
    <2>2. at \in made1
      BY DEF made1
    <2> QED BY <1>1, <1>4, <1>6, <1>7, <2>1, <2>2 DEF Sound, f, n
  <1>8. ASSUME ~(f > EndsAt[s]) PROVE Sound(s, f, made1, TRUE)
    <2>1. Times(made1, TRUE) = n + 1
      BY <1>4 DEF Times
    <2>2. Within(s, f)
      BY <1>2, <1>8 DEF Within
    <2>3. f \notin made1
      BY <1>6
    <2> HIDE DEF made1
    <2> QED BY <1>2, <1>3, <1>4, <1>5, <1>6, <2>1, <2>2, <2>3 DEF Sound, n
  <1> QED BY <1>7, <1>8 DEF f

-----------------------------------------------------------------------------
(* The invariant is inductive. *)

LEMMA Initially == Init => IInv
  <1> SUFFICES ASSUME Init PROVE IInv
    OBVIOUS
  <1>1. ShapeInv
    BY BoundsAssumption, SeriesAssumption DEF Init, ShapeInv
  <1>2. ClaimsInv
    BY DEF Init, ClaimsInv
  <1>3. ASSUME NEW s \in Series PROVE Sound(s, next[s], made[s], active[s])
    <2>1. next[s] = FirstDeadline[s] /\ made[s] = {} /\ active[s] = TRUE
      BY DEF Init
    <2>2. Times(made[s], active[s]) * Interval[s] = 0
      BY <2>1, FS_EmptySet, Parameters DEF Times
    <2>3. FirstDeadline[s] \in Int /\ First(s) \in Int /\ Day(First(s)) \in Int
      BY Parameters, ZoneTypes, DayAndClock DEF First
    <2>4. InRange(s, next[s])
      BY <2>1, HorizonAssumption DEF InRange
    <2>5. PeriodsOn(s, next[s], 0)
      <3>1. FrequencyOf[s] = "MONTHLY" =>
               Month(First(s)) \in Int /\ DayOfMonth(First(s)) \in Int
        BY <2>1, <2>3, <2>4, MonthTypes DEF InRange, First
      <3>2. next[s] = FirstDeadline[s] /\ Local(next[s]) = First(s)
        BY <2>1 DEF First
      <3> QED BY <2>3, <3>1, <3>2 DEF PeriodsOn
    <2>6. OnClock(s, next[s])
      BY <2>1 DEF OnClock, First
    <2> QED BY <2>1, <2>2, <2>3, <2>4, <2>5, <2>6, FS_EmptySet DEF Sound, Within
  <1> QED BY <1>1, <1>2, <1>3 DEF IInv, SeriesInv

(* The locks of a poll go, and nobody else's. *)
LEMMA EndKeepsClaims ==
    ASSUME ShapeInv, ClaimsInv, NEW r \in Runner, Ends(r)
    PROVE  /\ batch' = [q \in Runner |-> batch'[q]]
           /\ \A q \in Runner : batch'[q] = IF q = r THEN {} ELSE batch[q]
           /\ \A q \in Runner :
                 /\ batch'[q] \subseteq Series
                 /\ \A p \in Runner : p # q => batch'[p] \cap batch'[q] = {}
  BY DEF ShapeInv, ClaimsInv, Ends

LEMMA SeriesUnchanged ==
    ASSUME SeriesInv, next' = next, made' = made, active' = active
    PROVE  SeriesInv'
  BY DEF SeriesInv

LEMMA TickKeeps == IInv /\ Tick => IInv'
  <1> SUFFICES ASSUME IInv, Tick PROVE IInv'
    OBVIOUS
  <1> USE DEF Tick, series
  <1>1. ShapeInv'
    BY BoundsAssumption DEF IInv, ShapeInv
  <1>2. SeriesInv'
    BY SeriesUnchanged DEF IInv
  <1>3. ASSUME NEW r \in Runner, NEW s \in batch[r], Timed(s) PROVE s \in Due'
    <2>1. s \in Due /\ s \in Series
      BY <1>3 DEF IInv, ClaimsInv
    <2>2. next[s] \in Int
      BY <1>3, <2>1 DEF IInv, SeriesInv, Sound
    <2>3. clock \in Int /\ next[s] <= clock
      BY <2>1 DEF IInv, ShapeInv, Due
    <2>4. next[s] <= clock + 1
      BY <2>2, <2>3
    <2> QED BY <2>1, <2>4 DEF Due
  <1>4. ClaimsInv'
    BY <1>3 DEF IInv, ClaimsInv, Timed, Regular, SummerBeginsWithinMonth
  <1> QED BY <1>1, <1>2, <1>4 DEF IInv

LEMMA ClaimKeeps == ASSUME NEW r \in Runner PROVE IInv /\ ClaimDue(r) => IInv'
  <1> SUFFICES ASSUME IInv, ClaimDue(r) PROVE IInv'
    OBVIOUS
  <1>1. UNCHANGED <<clock, next, active, made, deadlines>>
    BY DEF ClaimDue, series
  <1>2. PICK claimed \in SUBSET Claimable : batch' = [batch EXCEPT ![r] = claimed]
    BY DEF ClaimDue
  <1>3. /\ batch' = [q \in Runner |-> batch'[q]]
        /\ \A q \in Runner : batch'[q] = IF q = r THEN claimed ELSE batch[q]
    BY <1>2 DEF IInv, ShapeInv
  <1>4. claimed \subseteq Due /\ \A q \in Runner : claimed \cap batch[q] = {}
    BY <1>2 DEF Claimable, Locked
  <1>5. Due' = Due /\ Due \subseteq Series
    BY <1>1 DEF Due
  <1>6. ClaimsInv'
    <2>1. ASSUME NEW q \in Runner
          PROVE  /\ batch'[q] \subseteq Series
                 /\ \A s \in batch'[q] : Timed(s) => s \in Due
                 /\ \A p \in Runner : p # q => batch'[p] \cap batch'[q] = {}
      BY <1>3, <1>4, <1>5 DEF IInv, ClaimsInv
    <2> QED BY <1>5, <2>1 DEF ClaimsInv
  <1> QED BY <1>1, <1>3, <1>6, SeriesUnchanged DEF IInv, ShapeInv

LEMMA GenerateKeeps == ASSUME NEW r \in Runner PROVE IInv /\ Generate(r) => IInv'
  <1> SUFFICES ASSUME IInv, Generate(r) PROVE IInv'
    OBVIOUS
  <1>1. /\ Ends(r) /\ Advance(batch[r]) /\ clock' = clock
        /\ made' = WithNext(made, batch[r]) /\ deadlines' = WithNext(deadlines, batch[r])
    BY DEF Generate
  <1>2. ASSUME NEW s \in Series, s \in batch[r]
        PROVE  /\ made'[s] = made[s] \cup {next[s]}
               /\ FollowingOf(s, next[s]) > EndsAt[s] =>
                     next'[s] = next[s] /\ active'[s] = FALSE
               /\ ~(FollowingOf(s, next[s]) > EndsAt[s]) =>
                     next'[s] = FollowingOf(s, next[s]) /\ active'[s] = active[s]
    BY <1>1, <1>2 DEF Advance, WithNext, IsOver, Following, FollowingOf, IInv, ShapeInv
  <1>3. ASSUME NEW s \in Series, s \notin batch[r]
        PROVE  made'[s] = made[s] /\ next'[s] = next[s] /\ active'[s] = active[s]
    BY <1>1, <1>3 DEF Advance, WithNext, IInv, ShapeInv
  <1>4. ShapeInv'
    BY <1>1, EndKeepsClaims DEF Advance, WithNext, IInv, ShapeInv
  <1>5. SeriesInv'
    <2>1. ASSUME NEW s \in Series, Timed(s)
          PROVE  Sound(s, next'[s], made'[s], active'[s])
      <3>1. Sound(s, next[s], made[s], active[s])
        BY <2>1 DEF IInv, SeriesInv
      <3>2. CASE s \in batch[r]
        <4>1. s \in Due /\ active[s] = TRUE /\ next[s] <= clock
          BY <2>1, <3>2 DEF IInv, ClaimsInv, ShapeInv, Due
        <4>2. next[s] <= MaxTime
          BY <3>1, <4>1, BoundsAssumption DEF Sound, IInv, ShapeInv
        <4>3. /\ FollowingOf(s, next[s]) > EndsAt[s] =>
                    Sound(s, next[s], made[s] \cup {next[s]}, FALSE)
              /\ ~(FollowingOf(s, next[s]) > EndsAt[s]) =>
                    Sound(s, FollowingOf(s, next[s]), made[s] \cup {next[s]}, TRUE)
          BY <2>1, <3>1, <4>1, <4>2, AdvanceIsSound
        <4>4. CASE FollowingOf(s, next[s]) > EndsAt[s]
          BY <1>2, <3>2, <4>3, <4>4
        <4>5. CASE ~(FollowingOf(s, next[s]) > EndsAt[s])
          BY <1>2, <3>2, <4>1, <4>3, <4>5
        <4> QED BY <4>4, <4>5
      <3>3. CASE s \notin batch[r]
        BY <1>3, <3>1, <3>3
      <3> QED BY <3>2, <3>3
    <2> QED BY <2>1 DEF SeriesInv
  <1>6. ClaimsInv'
    <2>1. ASSUME NEW q \in Runner, NEW s \in batch'[q], Timed(s) PROVE s \in Due'
      <3>1. q # r /\ s \in batch[q] /\ s \in Series /\ s \in Due /\ s \notin batch[r]
        BY <1>1, <2>1, EndKeepsClaims DEF IInv, ClaimsInv
      <3> QED BY <1>1, <1>3, <3>1 DEF Due
    <2> QED BY <1>1, <2>1, EndKeepsClaims DEF ClaimsInv, IInv
  <1> QED BY <1>4, <1>5, <1>6 DEF IInv

LEMMA RollbackKeeps == ASSUME NEW r \in Runner PROVE IInv /\ Rollback(r) => IInv'
  <1> SUFFICES ASSUME IInv, Rollback(r) PROVE IInv'
    OBVIOUS
  <1>1. Ends(r) /\ UNCHANGED <<clock, next, active, made, deadlines>>
    BY DEF Rollback, series
  <1>2. ClaimsInv'
    <2>1. ASSUME NEW q \in Runner, NEW s \in batch'[q], Timed(s) PROVE s \in Due'
      BY <1>1, <2>1, EndKeepsClaims DEF IInv, ClaimsInv, Due
    <2> QED BY <1>1, <2>1, EndKeepsClaims DEF ClaimsInv, IInv
  <1> QED BY <1>1, <1>2, EndKeepsClaims, SeriesUnchanged DEF IInv, ShapeInv

LEMMA MoveKeeps ==
    ASSUME NEW s, NEW from, NEW to PROVE IInv /\ MoveOccurrence(s, from, to) => IInv'
  <1> SUFFICES ASSUME IInv, MoveOccurrence(s, from, to) PROVE IInv'
    OBVIOUS
  <1>1. /\ UNCHANGED <<clock, next, active, made, batch>>
        /\ deadlines' = [deadlines EXCEPT ![s] = (@ \ {from}) \cup to]
    BY DEF MoveOccurrence, series
  <1>2. ShapeInv'
    BY <1>1 DEF IInv, ShapeInv
  <1>3. ClaimsInv'
    BY <1>1 DEF IInv, ClaimsInv, Due, Timed
  <1> QED BY <1>1, <1>2, <1>3, SeriesUnchanged DEF IInv

LEMMA StepKeeps == IInv /\ [Next]_vars => IInv'
  <1> SUFFICES ASSUME IInv, [Next]_vars PROVE IInv'
    OBVIOUS
  <1>1. CASE Tick
    BY <1>1, TickKeeps
  <1>2. CASE \E r \in Runner : ClaimDue(r) \/ Generate(r) \/ FailBatch(r) \/ Interrupt(r)
    BY <1>2, ClaimKeeps, GenerateKeeps, RollbackKeeps DEF FailBatch, Interrupt
  <1>3. CASE \E s \in Series :
                \E from \in deadlines[s], to \in {{next[s]}, {Following(s)}, {}} :
                   MoveOccurrence(s, from, to)
    BY <1>3, MoveKeeps
  <1>4. CASE UNCHANGED vars
    BY <1>4, SeriesUnchanged DEF vars, series, IInv, ShapeInv, ClaimsInv, Due
  <1> QED BY <1>1, <1>2, <1>3, <1>4 DEF Next

LEMMA Invariance == Spec => []IInv
  BY Initially, StepKeeps, PTL DEF Spec

-----------------------------------------------------------------------------
(* What remains of the types.  They are those of every series only where   *)
(* every series is timed: the date that follows a deadline outside of the  *)
(* calendar is none.                                                       *)

RestInv ==
    /\ \A s \in Series : deadlines[s] \subseteq Int
    /\ \A r \in Runner : Cardinality(batch[r]) <= BatchSize
    /\ faults \in 0 .. MaxFaults
    /\ moves \in 0 .. MaxMoves

LEMMA TimedForEver == AllTimed => []AllTimed
  <1>1. AllTimed => AllTimed'
    BY DEF AllTimed, Timed
  <1> QED BY <1>1, PTL

LEMMA Followings ==
    ASSUME AllTimed, IInv, NEW s \in Series
    PROVE  next[s] \in Int /\ Following(s) \in Int
  BY FollowingIsNext DEF AllTimed, IInv, SeriesInv, Sound, Following, FollowingOf

LEMMA RestKeeps == AllTimed /\ IInv /\ RestInv /\ [Next]_vars => RestInv'
  <1> SUFFICES ASSUME AllTimed, IInv, RestInv, [Next]_vars PROVE RestInv'
    OBVIOUS
  <1>1. CASE Tick
    BY <1>1 DEF Tick, series, RestInv
  <1>2. ASSUME NEW r \in Runner, ClaimDue(r) PROVE RestInv'
    <2>1. UNCHANGED <<deadlines, faults, moves>>
      BY <1>2 DEF ClaimDue
    <2>2. PICK claimed \in SUBSET Claimable :
             /\ Cardinality(claimed) = BatchSize \/ Cardinality(claimed) < BatchSize
             /\ batch' = [batch EXCEPT ![r] = claimed]
      BY <1>2 DEF ClaimDue
    <2>3. Cardinality(claimed) <= BatchSize
      <3>1. IsFiniteSet(claimed)
        BY SeriesAssumption, FS_Subset DEF Claimable, Due
      <3> QED BY <2>2, <3>1, FS_CardinalityType, BoundsAssumption
    <2>4. ASSUME NEW q \in Runner PROVE Cardinality(batch'[q]) <= BatchSize
      BY <2>2, <2>3 DEF IInv, ShapeInv, RestInv
    <2> QED BY <2>1, <2>4 DEF RestInv
  <1>3. ASSUME NEW r \in Runner, Ends(r) PROVE \A q \in Runner : Cardinality(batch'[q]) <= BatchSize
    BY <1>3, EndKeepsClaims, FS_EmptySet, BoundsAssumption DEF IInv, RestInv
  <1>4. ASSUME NEW r \in Runner, Generate(r) PROVE RestInv'
    <2>1. \A s \in Series : deadlines'[s] \subseteq Int
      BY <1>4, Followings DEF Generate, WithNext, RestInv
    <2> QED BY <1>3, <1>4, <2>1 DEF Generate, RestInv
  <1>5. ASSUME NEW r \in Runner, FailBatch(r) PROVE RestInv'
    BY <1>3, <1>5 DEF FailBatch, Rollback, RestInv
  <1>6. ASSUME NEW r \in Runner, Interrupt(r) PROVE RestInv'
    BY <1>3, <1>6, BoundsAssumption DEF Interrupt, Rollback, RestInv
  <1>7. ASSUME NEW s \in Series, NEW from \in deadlines[s],
               NEW to \in {{next[s]}, {Following(s)}, {}}, MoveOccurrence(s, from, to)
        PROVE  RestInv'
    <2>1. \A t \in Series : deadlines'[t] \subseteq Int
      BY <1>7, Followings DEF MoveOccurrence, IInv, ShapeInv, RestInv
    <2> QED BY <1>7, <2>1, BoundsAssumption DEF MoveOccurrence, RestInv
  <1>8. CASE UNCHANGED vars
    BY <1>8 DEF vars, series, RestInv
  <1> QED BY <1>1, <1>2, <1>4, <1>5, <1>6, <1>7, <1>8 DEF Next

(* The claims of a runner are series, no more than a poll may claim; the   *)
(* deadlines of every series and of its tasks are times.                   *)
THEOREM TypeCorrect == AllTimed /\ Spec => []TypeOK
  <1>1. AllTimed /\ Init => RestInv
    BY FS_EmptySet, BoundsAssumption DEF Init, RestInv
  <1>2. AllTimed /\ IInv /\ RestInv => TypeOK
    <2> SUFFICES ASSUME AllTimed, IInv, RestInv PROVE TypeOK
      OBVIOUS
    <2>1. next \in [Series -> Int]
      BY Followings DEF IInv, ShapeInv
    <2>2. \A s \in Series : made[s] \subseteq Int
      BY DEF AllTimed, IInv, SeriesInv, Sound
    <2> QED BY <2>1, <2>2 DEF IInv, ShapeInv, ClaimsInv, RestInv, TypeOK
  <1>3. AllTimed /\ IInv /\ RestInv /\ [Next]_vars => RestInv'
    BY RestKeeps
  <1> QED BY <1>1, <1>2, <1>3, Invariance, TimedForEver, PTL DEF Spec

(* A series not at the hour that summer time skips keeps its hour of the   *)
(* local clock, for ever and whatever the zone and the calendar are.       *)
THEOREM HourIsKept == Spec => []WallClockPreserved
  <1>1. IInv => WallClockPreserved
    BY DEF IInv, SeriesInv, Sound, OnClock, First, Timed, WallClockPreserved
  <1> QED BY <1>1, Invariance, PTL

(* No deadline of a series is left out or given two tasks: after n tasks   *)
(* it is n periods on.                                                     *)
THEOREM NoneIsLeftOut == AllTimed /\ Spec => []OnSchedule
  <1>1. AllTimed /\ IInv => OnSchedule
    <2> SUFFICES ASSUME AllTimed, IInv, NEW s \in Series
                 PROVE  LET first == Local(FirstDeadline[s])
                            now   == Local(next[s])
                            n     == Advances(s) * Interval[s]
                        IN CASE FrequencyOf[s] = "MONTHLY" ->
                                   /\ Month(now) = Month(first) + n
                                   /\ Regular(s) => DayOfMonth(now) <= DayOfMonth(first)
                             [] FrequencyOf[s] = "WEEKLY" ->
                                   Regular(s) => Day(now) = Day(first) + 7 * n
                             [] FrequencyOf[s] = "DAILY"  ->
                                   Regular(s) => Day(now) = Day(first) + n
      BY DEF OnSchedule
    <2>1. PeriodsOn(s, next[s], Advances(s) * Interval[s])
      BY DEF AllTimed, IInv, SeriesInv, Sound, Times, Advances
    <2> HIDE DEF Advances
    <2>2. FrequencyOf[s] \in Frequency
      BY Parameters
    <2> QED BY <2>1, <2>2 DEF PeriodsOn, First, Frequency
  <1> QED BY <1>1, Invariance, TimedForEver, PTL

(* A series makes no task after its end, and ends only there. *)
THEOREM EndIsKept == AllTimed /\ Spec => []EndsInTime
  <1>1. AllTimed /\ IInv => EndsInTime
    BY DEF AllTimed, IInv, SeriesInv, Sound, Within, FollowingOf, Following, EndsInTime
  <1> QED BY <1>1, Invariance, TimedForEver, PTL
=============================================================================
