----------------------------- MODULE Recurrence -----------------------------
(***************************************************************************)
(* Recurring series: the recurrence runners of the scheduler processes     *)
(* turn each due deadline of a series into a task with its reminders and   *)
(* move the series on to its next deadline.                                *)
(*                                                                         *)
(* A poll is ONE transaction over a batch of series, whose rows it keeps   *)
(* locked; a failure on any of them takes the whole batch back.  Tasks of  *)
(* one series have distinct deadlines (a unique index), and their creator  *)
(* may move them like any other task's.                                    *)
(***************************************************************************)
EXTENDS Calendar, FiniteSets

CONSTANTS Series,
          Runner,      \* recurrence runners: one per scheduler process
          FrequencyOf, Interval,
          FirstDeadline,
          EndsAt,      \* a time beyond the model for a series without end
          BatchSize,
          MaxTime,     \* bound: the clock stops
          MaxFaults,   \* bound: transactions that fail by no fault of the data
          MaxMoves     \* bound: occurrences moved by their creator

ASSUME SeriesAssumption ==
    /\ FrequencyOf \in [Series -> Frequency]
    /\ Interval \in [Series -> Nat \ {0}]
    /\ FirstDeadline \in [Series -> Int]
    /\ EndsAt \in [Series -> Int]
    /\ IsFiniteSet(Series)
ASSUME BoundsAssumption ==
    /\ BatchSize \in Nat \ {0}
    /\ MaxTime \in Nat /\ MaxFaults \in Nat /\ MaxMoves \in Nat

(* The calendar goes two periods of each series further than the clock.    *)
ASSUME HorizonAssumption ==
    \A s \in Series : FrequencyOf[s] = "MONTHLY" =>
        LET first == Local(FirstDeadline[s]) IN
        /\ InCalendar(first) /\ Month(first) + Interval[s] \in Months
        /\ \A m \in Months : FirstDay[m] <= Day(MaxTime + Winter + 1) =>
               m + 2 * Interval[s] \in Months

VARIABLES clock,     \* hours of UTC
          next,      \* next_deadline_at
          active,    \* is_active
          made,      \* history: the deadlines tasks were created with
          deadlines, \* deadline_at of its tasks, as they are now
          batch,     \* the series a runner has claimed
          faults, moves

series == <<next, active>>
vars   == <<clock, series, made, deadlines, batch, faults, moves>>

Init ==
    /\ clock = 0
    /\ next = FirstDeadline
    /\ active = [s \in Series |-> TRUE]
    /\ made = [s \in Series |-> {}]
    /\ deadlines = [s \in Series |-> {}]
    /\ batch = [r \in Runner |-> {}]
    /\ faults = 0
    /\ moves = 0

Due    == {s \in Series : active[s] /\ next[s] <= clock}
Locked == UNION {batch[r] : r \in Runner}

Claimable == Due \ Locked

-----------------------------------------------------------------------------
(* Mutant of ClaimDue: no LIMIT. *)
ClaimAllDue(r) ==
    /\ batch[r] = {}
    /\ Claimable # {}
    /\ batch' = [batch EXCEPT ![r] = Claimable]
    /\ UNCHANGED <<clock, series, made, deadlines, faults, moves>>

(* Mutant of ClaimDue: the poll waits until its batch is full. *)
ClaimFullBatch(r) ==
    /\ batch[r] = {}
    /\ \E claimed \in SUBSET Claimable :
          /\ Cardinality(claimed) = BatchSize
          /\ \A s \in claimed, t \in Claimable \ claimed : next[s] <= next[t]
          /\ batch' = [batch EXCEPT ![r] = claimed]
    /\ UNCHANGED <<clock, series, made, deadlines, faults, moves>>

(* A poll claims the oldest due series that nobody has locked.  Ties are   *)
(* broken by id, in an order that means nothing.                           *)
ClaimDue(r) ==
    /\ batch[r] = {}
    /\ \E claimed \in SUBSET Claimable :
          /\ claimed # {}
          /\ \/ Cardinality(claimed) = BatchSize
             \/ Cardinality(claimed) < BatchSize /\ claimed = Claimable
          /\ \A s \in claimed, t \in Claimable \ claimed : next[s] <= next[t]
          /\ batch' = [batch EXCEPT ![r] = claimed]
    /\ UNCHANGED <<clock, series, made, deadlines, faults, moves>>

(* The unique index on (series_id, deadline_at). *)
Conflict(s) == next[s] \in deadlines[s]

Following(s) == NextDeadline(FrequencyOf[s], Interval[s], next[s])

(* Mutant of IsOver: a deadline at the very end is left out. *)
IsOverAtEnd(s) == Following(s) >= EndsAt[s]

IsOver(s) == Following(s) > EndsAt[s]

(* AdvanceAfterOccurrence and the update of the row. *)
Advance(S) ==
    /\ next' = [s \in Series |-> IF s \in S /\ ~IsOver(s) THEN Following(s) ELSE next[s]]
    /\ active' = [s \in Series |-> active[s] /\ ~(s \in S /\ IsOver(s))]

(* The transaction ends, and the locks with it. *)
Ends(r) ==
    /\ batch[r] # {}
    /\ batch' = [batch EXCEPT ![r] = {}]

WithNext(sets, S) == [s \in Series |-> IF s \in S THEN sets[s] \cup {next[s]} ELSE sets[s]]

(* processOne for every series of the batch, and the commit. *)
Generate(r) ==
    /\ Ends(r)
    /\ \A s \in batch[r] : ~Conflict(s)
    /\ made' = WithNext(made, batch[r])
    /\ deadlines' = WithNext(deadlines, batch[r])
    /\ Advance(batch[r])
    /\ UNCHANGED <<clock, faults, moves>>

Rollback(r) ==
    /\ Ends(r)
    /\ UNCHANGED <<clock, series, made, deadlines, moves>>

(* The task of one series cannot be created: the poll is logged, and tried *)
(* again at the next tick.                                                 *)
FailBatch(r) ==
    /\ \E s \in batch[r] : Conflict(s)
    /\ Rollback(r)
    /\ UNCHANGED faults

(* A database error, a crash of the process, its shutdown. *)
Interrupt(r) ==
    /\ faults < MaxFaults
    /\ faults' = faults + 1
    /\ Rollback(r)

-----------------------------------------------------------------------------
(* UpdateTask of an occurrence: its creator puts it off to one of the      *)
(* deadlines that the series is going to have, or to any other time.       *)
MoveOccurrence(s, from, to) ==
    /\ moves < MaxMoves
    /\ moves' = moves + 1
    /\ from \in deadlines[s]
    /\ to \cap deadlines[s] = {}
    /\ deadlines' = [deadlines EXCEPT ![s] = (@ \ {from}) \cup to]
    /\ UNCHANGED <<clock, series, made, batch, faults>>

Tick ==
    /\ clock < MaxTime
    /\ clock' = clock + 1
    /\ UNCHANGED <<series, made, deadlines, batch, faults, moves>>

Next ==
    \/ Tick
    \/ \E r \in Runner : ClaimDue(r) \/ Generate(r) \/ FailBatch(r) \/ Interrupt(r)
    \/ \E s \in Series : \E from \in deadlines[s], to \in {{next[s]}, {Following(s)}, {}} :
          MoveOccurrence(s, from, to)

Spec == Init /\ [][Next]_vars

(* A runner polls again after every tick of its ticker, and a poll ends,   *)
(* well or badly, without a fault of its own.                              *)
Fairness ==
    \A r \in Runner : WF_batch(ClaimDue(r)) /\ WF_batch(Ends(r) /\ UNCHANGED faults)

FairSpec == Spec /\ Fairness

-----------------------------------------------------------------------------
(* Properties *)

TypeOK ==
    /\ clock \in 0..MaxTime
    /\ next \in [Series -> Int]
    /\ active \in [Series -> BOOLEAN]
    /\ \A s \in Series : made[s] \subseteq Int /\ deadlines[s] \subseteq Int
    /\ \A r \in Runner : batch[r] \subseteq Series /\ Cardinality(batch[r]) <= BatchSize
    /\ faults \in 0..MaxFaults
    /\ moves \in 0..MaxMoves

(* Summer time takes one hour away: the local clock shows this one never,  *)
(* on that day.  A series at another hour is not affected.                 *)
SkippedClock == Clock(SummerBegins + Winter)
Regular(s)   == Clock(Local(FirstDeadline[s])) # SkippedClock

(* A series keeps its hour of the local clock, through both changes of the *)
(* zone (NextDeadline).                                                    *)
WallClockPreserved ==
    \A s \in Series : Regular(s) =>
        Clock(Local(next[s])) = Clock(Local(FirstDeadline[s]))

(* How often the series has been moved on. *)
Advances(s) == IF active[s] THEN Cardinality(made[s]) ELSE Cardinality(made[s]) - 1

(* Every deadline of the series gets one task, and none is left out: after *)
(* n tasks a series is n periods further, whatever crashed, was rolled     *)
(* back or was tried by two schedulers.  A monthly series has one deadline *)
(* in each of its months, also in those that lack its day.                 *)
OnSchedule ==
    \A s \in Series :
        LET first == Local(FirstDeadline[s])
            now   == Local(next[s])
            n     == Advances(s) * Interval[s]
        IN CASE FrequencyOf[s] = "MONTHLY" ->
                   /\ Month(now) = Month(first) + n
                   /\ Regular(s) => DayOfMonth(now) <= DayOfMonth(first)
             [] FrequencyOf[s] = "WEEKLY" -> Regular(s) => Day(now) = Day(first) + 7 * n
             [] FrequencyOf[s] = "DAILY"  -> Regular(s) => Day(now) = Day(first) + n

(* No task is made for a deadline after the end of the series, the first   *)
(* one excepted, and a series is given up only when its next deadline      *)
(* would be (AdvanceAfterOccurrence).                                      *)
EndsInTime ==
    \A s \in Series :
        /\ \A deadline \in made[s] : deadline = FirstDeadline[s] \/ deadline <= EndsAt[s]
        /\ active[s] <=> ~(next[s] \in made[s])
        /\ ~active[s] => Following(s) > EndsAt[s]

(* A series whose due deadline is the deadline of another of its tasks. *)
Stuck == {s \in Due : Conflict(s)}

(* Unless a moved occurrence stands in the way of some series, every due   *)
(* series is turned into tasks, however many deadlines it has missed.      *)
CatchesUp == <>[](Stuck = {}) => \A s \in Series : []<>(s \notin Due)
=============================================================================
