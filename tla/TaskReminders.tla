---------------------------- MODULE TaskReminders ----------------------------
(***************************************************************************)
(* One task, its reminders, the API requests that change them             *)
(* (internal/task, internal/reminder) and the reminder schedulers that     *)
(* fire the due ones (internal/reminder/adapter/in/scheduler).             *)
(*                                                                         *)
(* The database runs at READ COMMITTED and the services read without row   *)
(* locks.  A request reads the task, decides and builds the row to write   *)
(* in memory; a completion or a new deadline then has its statement about  *)
(* the reminders; the task's row is written whole and the transaction      *)
(* commits.  Anything may commit between these steps.  The statement about *)
(* the reminders is in two parts, as in PostgreSQL: it finds the rows when *)
(* it starts, and changes those that still qualify when it has their locks,*)
(* which may be as late as the commit.  Schedulers lock what they read     *)
(* from the claim to the commit.                                           *)
(*                                                                         *)
(* Times are numbers, 0 stands for no deadline.  Of the task's row only    *)
(* status and deadline matter here: an edit of anything else, a            *)
(* reassignment and archiving write them back as they were read.  A        *)
(* reminder's offset is 0 when its kind is ABSOLUTE.                       *)
(***************************************************************************)
EXTENDS Integers, FiniteSets

CONSTANTS Reminder,    \* ids of the reminders that may be created
          Offset,      \* offsets of BEFORE_DEADLINE reminders
          Session,     \* API requests in flight at a time
          Scheduler,   \* reminder schedulers
          BatchSize,   \* ReminderSchedulerConfig.BatchSize
          MaxTime,     \* bound of the clock
          MaxFaults,   \* bound: batches rolled back
          MaxRevivals, \* bound: fired reminders made pending again, per id
          Ops          \* operations the clients of this instance use

Operations == {"start", "complete", "edit", "archive", "create", "reschedule", "delete"}

ASSUME OpsAssumption    == Ops \subseteq Operations
ASSUME BoundsAssumption ==
    /\ BatchSize \in Nat \ {0} /\ MaxTime \in Nat
    /\ MaxFaults \in Nat /\ MaxRevivals \in Nat
    /\ Offset \subseteq Nat \ {0}

VARIABLES task,      \* the row of the task
          reminder,  \* the rows of its reminders
          session,   \* what each request in flight has read and decided
          claimed,   \* rows each scheduler's transaction has locked
          inserted,  \* ... those whose outbox event it has inserted
          marked,    \* ... and those it has marked sent
          fired,     \* committed outbox events per reminder
          now,       \* the clock
          faults,    \* batches rolled back so far
          late,      \* history: reminders a request made pending that was
                     \* overtaken by the task's completion
          adrift,    \* history: reminders a request put out of step with the
                     \* deadline that was overtaken by another deadline
          revived    \* history: how often a rescheduling made a reminder
                     \* pending again that had fired since it was read

batches == <<claimed, inserted, marked, fired, faults>>
history == <<late, adrift, revived>>
vars    == <<task, reminder, session, batches, now, history>>

Time == 0 .. MaxTime
Trigger == {0} \cup Time \cup {d - o : d \in Time \ {0}, o \in Offset}
Status == {"OPEN", "IN_PROGRESS", "DONE"}
Transition == {<<"OPEN", "IN_PROGRESS">>, <<"OPEN", "DONE">>, <<"IN_PROGRESS", "DONE">>}
State == {"NONE", "PENDING", "SENT", "CANCELLED", "DELETED"}

TaskRow == [status : Status, deadline : Time]
ReminderRow == [state : State, offset : Offset \cup {0}, trigger : Trigger]
Idle == [step |-> "idle"]
NoReminder == [state |-> "NONE", offset |-> 0, trigger |-> 0]

Pending(r) == reminder[r].state = "PENDING"
Relative(r) == reminder[r].offset # 0
Exists(r) == reminder[r].state \notin {"NONE", "DELETED"}
Locked == UNION {claimed[p] : p \in Scheduler}

Init ==
    /\ \E d \in Time : task = [status |-> "OPEN", deadline |-> d]
    /\ reminder = [r \in Reminder |-> NoReminder]
    /\ session = [s \in Session |-> Idle]
    /\ claimed = [p \in Scheduler |-> {}]
    /\ inserted = [p \in Scheduler |-> {}]
    /\ marked = [p \in Scheduler |-> {}]
    /\ fired = [r \in Reminder |-> 0]
    /\ now = 0
    /\ faults = 0
    /\ late = {}
    /\ adrift = {}
    /\ revived = [r \in Reminder |-> 0]

-----------------------------------------------------------------------------
(* Requests that write the task: the checks, and the row built from the one *)
(* that was read.                                                          *)

Begin(s, op, request) ==
    /\ op \in Ops
    /\ session[s] = Idle
    /\ session' = [session EXCEPT ![s] = request]
    /\ UNCHANGED <<task, reminder, batches, now, history>>

Decide(s, op, row) == Begin(s, op, [step |-> "decided", read |-> task, row |-> row])

BeginChangeStatus(s) ==
    \E next \in Status :
        /\ <<task.status, next>> \in Transition
        /\ Decide(s, IF next = "DONE" THEN "complete" ELSE "start", [task EXCEPT !.status = next])

(* UpdateTask and ReassignTask: a deadline, or something else. *)
BeginUpdateTask(s) == \E d \in Time : Decide(s, "edit", [task EXCEPT !.deadline = d])

BeginArchiveOrRestore(s) == Decide(s, "archive", task)

Completes(q) == q.row.status = "DONE" /\ q.read.status # "DONE"

(* Mutant: removing the deadline is no reason to look at the reminders. *)
MovesToDeadline(q) == q.row.deadline \notin {q.read.deadline, 0}

Moves(q) == q.row.deadline # q.read.deadline

(* The pending reminders that a completion, or else a new deadline, is     *)
(* about.                                                                  *)
Concerned(q) == {r \in Reminder : Pending(r) /\ (Completes(q) \/ Relative(r))}

(* The statement about the reminders finds its rows. *)
FindReminders(s) ==
    /\ session' = [session EXCEPT ![s] =
                      [step |-> "found", read |-> session[s].read, row |-> session[s].row,
                       found |-> Concerned(session[s])]]
    /\ UNCHANGED <<task, reminder, batches, now, history>>

CancelPending(s) ==
    /\ session[s].step = "decided"
    /\ Completes(session[s])
    /\ FindReminders(s)

(* Mutant: removing the deadline recalculates instead of failing. *)
RecalculateAlways(s) ==
    /\ session[s].step = "decided"
    /\ Moves(session[s])
    /\ FindReminders(s)

(* A deadline cannot be removed while relative reminders are pending. *)
RecalculatePending(s) ==
    /\ session[s].step = "decided"
    /\ Moves(session[s])
    /\ session[s].row.deadline = 0 => \A r \in Reminder : ~(Pending(r) /\ Relative(r))
    /\ FindReminders(s)

End(s) == session' = [session EXCEPT ![s] = Idle]

RecalculateFails(s) ==
    /\ session[s].step = "decided"
    /\ Moves(session[s])
    /\ session[s].row.deadline = 0
    /\ \E r \in Reminder : Pending(r) /\ Relative(r)
    /\ End(s)
    /\ UNCHANGED <<task, reminder, batches, now, history>>

(* Mutant: the statement skips the rows a scheduler has locked. *)
ChangedUnlocked(q) == (q.found \cap Concerned(q)) \ Locked

(* The rows the statement changes: those it has found that still qualify.  *)
Changed(q) == q.found \cap Concerned(q)

(* The task's row is written whole, as read but for what was asked.  The    *)
(* reminders that end up at odds with it are those the statement has not   *)
(* found, and any, when the row was read before others changed it.         *)
WriteTask(s) ==
    LET q == session[s] IN
    /\ task' = q.row
    /\ late' = IF Completes(q) THEN Concerned(q) \ q.found
               ELSE IF q.read.status = "DONE" /\ task.status # "DONE"
                    THEN late \cup {r \in Reminder : Pending(r)}
               ELSE late
    /\ adrift' = IF Moves(q) THEN Concerned(q) \ q.found
                 ELSE IF q.read.deadline # task.deadline
                      THEN adrift \cup {r \in Reminder : Pending(r) /\ Relative(r)}
                 ELSE adrift
    /\ End(s)
    /\ UNCHANGED <<batches, now, revived>>

ChangeTask(s) ==
    /\ session[s].step = "decided"
    /\ ~Completes(session[s]) /\ ~Moves(session[s])
    /\ UNCHANGED reminder
    /\ WriteTask(s)

(* Completing a task cancels its pending reminders, a new deadline moves   *)
(* the pending relative ones with it, in the transaction that writes the   *)
(* task.  Locked rows are waited for.                                      *)
ChangeTaskAndReminders(s) ==
    LET q == session[s] IN
    /\ q.step = "found"
    /\ Changed(q) \cap Locked = {}
    /\ reminder' = [r \in Reminder |->
           IF r \notin Changed(q) THEN reminder[r]
           ELSE IF Completes(q) THEN [reminder[r] EXCEPT !.state = "CANCELLED"]
           ELSE [reminder[r] EXCEPT !.trigger = q.row.deadline - reminder[r].offset]]
    /\ WriteTask(s)

-----------------------------------------------------------------------------
(* Requests about a reminder. *)

(* What the clients may ask for: a trigger time, or an offset that needs a *)
(* deadline; either way the trigger must lie in the future.                *)
NewRows(deadline) ==
    LET absolute == {[state |-> "PENDING", offset |-> 0, trigger |-> t] : t \in Time}
        relative == {[state |-> "PENDING", offset |-> o, trigger |-> deadline - o] : o \in Offset}
    IN  {rem \in absolute \cup relative :
            /\ rem.trigger > now
            /\ rem.offset # 0 => deadline # 0}

BeginCreateReminder(s) ==
    \E r \in Reminder, rem \in NewRows(task.deadline) :
        /\ task.status # "DONE"
        /\ Begin(s, "create", [step |-> "create", read |-> task, id |-> r, new |-> rem])

(* UpdateReminder reads the task, then the reminder, and builds the row.   *)
BeginUpdateReminder(s) ==
    \E r \in Reminder :
        /\ Exists(r)
        /\ Begin(s, "reschedule", [step |-> "read", read |-> task, id |-> r])

(* Mutant: the state that was read is not looked at. *)
ReadReminderAnyState(s) ==
    LET r == session[s].id IN
    /\ session[s].step = "read"
    /\ \E rem \in NewRows(session[s].read.deadline) :
          /\ (rem.offset = 0) = (reminder[r].offset = 0)
          /\ session' = [session EXCEPT ![s] = [step |-> "reschedule", read |-> session[s].read,
                                                id |-> r, seen |-> reminder[r].state, new |-> rem]]
    /\ UNCHANGED <<task, reminder, batches, now, history>>

(* The kind cannot change; only a reminder read as PENDING is rescheduled. *)
ReadReminder(s) ==
    LET r == session[s].id IN
    /\ session[s].step = "read"
    /\ Pending(r)
    /\ \E rem \in NewRows(session[s].read.deadline) :
          /\ (rem.offset = 0) = (reminder[r].offset = 0)
          /\ session' = [session EXCEPT ![s] = [step |-> "reschedule", read |-> session[s].read,
                                                id |-> r, seen |-> reminder[r].state, new |-> rem]]
    /\ UNCHANGED <<task, reminder, batches, now, history>>

(* The row is written whole. *)
WriteReminder(s) ==
    LET q == session[s] IN
    /\ reminder' = [reminder EXCEPT ![q.id] = q.new]
    /\ End(s)
    /\ adrift' = IF q.read.deadline # task.deadline THEN adrift \cup {q.id} ELSE adrift \ {q.id}
    /\ UNCHANGED <<task, batches, now>>

CreateReminder(s) ==
    LET q == session[s] IN
    /\ q.step = "create"
    /\ reminder[q.id].state = "NONE"
    /\ WriteReminder(s)
    /\ late' = IF task.status = "DONE" /\ q.read.status # "DONE" THEN late \cup {q.id} ELSE late
    /\ UNCHANGED revived

(* UPDATE ... WHERE id = ? of every column, state and sent_at included. *)
UpdateReminder(s) ==
    LET q == session[s] IN
    /\ q.step = "reschedule"
    /\ Exists(q.id)
    /\ q.id \notin Locked
    /\ reminder[q.id].state = "SENT" => revived[q.id] < MaxRevivals
    /\ WriteReminder(s)
    /\ late' = IF task.status = "DONE" /\ q.seen = "PENDING" /\ ~Pending(q.id)
               THEN late \cup {q.id} ELSE late
    /\ revived' = IF q.seen = "PENDING" /\ reminder[q.id].state = "SENT"
                  THEN [revived EXCEPT ![q.id] = @ + 1] ELSE revived

(* What DeleteReminder reads (creator, task of the reminder) never changes, *)
(* so its reads and its DELETE are one step.                                *)
DeleteReminder(s) ==
    /\ "delete" \in Ops
    /\ session[s] = Idle
    /\ \E r \in Reminder \ Locked :
          /\ Exists(r)
          /\ reminder' = [reminder EXCEPT ![r] = [NoReminder EXCEPT !.state = "DELETED"]]
    /\ UNCHANGED <<task, session, batches, now, history>>

(* A refused or failed request, or a crash of the API, before its writes. *)
Abandon(s) ==
    /\ session[s] # Idle
    /\ End(s)
    /\ UNCHANGED <<task, reminder, batches, now, history>>

-----------------------------------------------------------------------------
(* ClaimDue: the oldest due rows nobody has locked. *)
Due == {r \in Reminder : Pending(r) /\ reminder[r].trigger <= now}

IsOldestBatch(S, from) ==
    /\ S \subseteq from
    /\ Cardinality(S) <= BatchSize
    /\ S # from => Cardinality(S) = BatchSize
    /\ \A r \in S, q \in from \ S : reminder[r].trigger <= reminder[q].trigger

Claim(p, from) ==
    /\ claimed[p] = {}
    /\ \E S \in SUBSET from :
          /\ S # {}
          /\ IsOldestBatch(S, from)
          /\ claimed' = [claimed EXCEPT ![p] = S]
    /\ UNCHANGED <<task, reminder, session, inserted, marked, fired, now, faults, history>>

(* Mutant: the due rows are read without FOR UPDATE SKIP LOCKED. *)
ClaimUnlocked(p) == Claim(p, Due)

ClaimDue(p) == Claim(p, Due \ Locked)

(* Process, in the order of the claim: an outbox event, ... *)
InsertEvent(p) ==
    /\ inserted[p] = marked[p]
    /\ \E r \in claimed[p] \ marked[p] :
          /\ \A q \in claimed[p] \ marked[p] : reminder[r].trigger <= reminder[q].trigger
          /\ inserted' = [inserted EXCEPT ![p] = @ \cup {r}]
    /\ UNCHANGED <<task, reminder, session, claimed, marked, fired, now, faults, history>>

(* Mutant: the mark is written outside the batch's transaction. *)
MarkSentAtOnce(p) ==
    /\ inserted[p] # marked[p]
    /\ marked' = [marked EXCEPT ![p] = inserted[p]]
    /\ reminder' = [r \in Reminder |-> IF r \in inserted[p]
                                       THEN [reminder[r] EXCEPT !.state = "SENT"]
                                       ELSE reminder[r]]
    /\ UNCHANGED <<task, session, claimed, inserted, fired, now, faults, history>>

(* ... then the SENT mark. *)
MarkSent(p) ==
    /\ inserted[p] # marked[p]
    /\ marked' = [marked EXCEPT ![p] = inserted[p]]
    /\ UNCHANGED <<task, reminder, session, claimed, inserted, fired, now, faults, history>>

EndBatch(p) ==
    /\ claimed' = [claimed EXCEPT ![p] = {}]
    /\ inserted' = [inserted EXCEPT ![p] = {}]
    /\ marked' = [marked EXCEPT ![p] = {}]

(* Mutant: an error of the handler ends the batch, and it is committed. *)
CommitPartOfBatch(p) ==
    /\ inserted[p] # {}
    /\ reminder' = [r \in Reminder |-> IF r \in marked[p]
                                       THEN [reminder[r] EXCEPT !.state = "SENT"]
                                       ELSE reminder[r]]
    /\ fired' = [r \in Reminder |-> IF r \in inserted[p] THEN fired[r] + 1 ELSE fired[r]]
    /\ EndBatch(p)
    /\ UNCHANGED <<task, session, now, faults, history>>

(* Mutant: the runner is left with its no-op processor. *)
CommitUnprocessed(p) ==
    /\ claimed[p] # {}
    /\ EndBatch(p)
    /\ UNCHANGED <<task, reminder, session, fired, now, faults, history>>

(* COMMIT, when every reminder of the batch is done: now it is visible.    *)
CommitBatch(p) ==
    /\ claimed[p] # {}
    /\ marked[p] = claimed[p]
    /\ reminder' = [r \in Reminder |-> IF r \in marked[p]
                                       THEN [reminder[r] EXCEPT !.state = "SENT"]
                                       ELSE reminder[r]]
    /\ fired' = [r \in Reminder |-> IF r \in inserted[p] THEN fired[r] + 1 ELSE fired[r]]
    /\ EndBatch(p)
    /\ UNCHANGED <<task, session, now, faults, history>>

(* An error in any step of the batch, or a crash of the scheduler. *)
RollbackBatch(p) ==
    /\ claimed[p] # {}
    /\ faults < MaxFaults
    /\ faults' = faults + 1
    /\ EndBatch(p)
    /\ UNCHANGED <<task, reminder, session, fired, now, history>>

Tick ==
    /\ now < MaxTime
    /\ now' = now + 1
    /\ UNCHANGED <<task, reminder, session, batches, history>>

TaskRequest(s) ==
    \/ BeginChangeStatus(s) \/ BeginUpdateTask(s) \/ BeginArchiveOrRestore(s)
    \/ CancelPending(s) \/ RecalculatePending(s) \/ RecalculateFails(s)
    \/ ChangeTask(s) \/ ChangeTaskAndReminders(s)

ReminderRequest(s) ==
    \/ BeginCreateReminder(s) \/ CreateReminder(s)
    \/ BeginUpdateReminder(s) \/ ReadReminder(s) \/ UpdateReminder(s)
    \/ DeleteReminder(s)

Poll(p) == ClaimDue(p) \/ InsertEvent(p) \/ MarkSent(p) \/ CommitBatch(p)

Next ==
    \/ Tick
    \/ \E s \in Session : TaskRequest(s) \/ ReminderRequest(s) \/ Abandon(s)
    \/ \E p \in Scheduler : Poll(p) \/ RollbackBatch(p)

Spec == Init /\ [][Next]_vars

(* A scheduler polls on a ticker and goes on after errors. *)
FairSpec == Spec /\ \A p \in Scheduler : WF_vars(Poll(p))

-----------------------------------------------------------------------------
Requests ==
    [step : {"idle"}]
    \cup [step : {"decided"}, read : TaskRow, row : TaskRow]
    \cup [step : {"found"}, read : TaskRow, row : TaskRow, found : SUBSET Reminder]
    \cup [step : {"create"}, read : TaskRow, id : Reminder, new : ReminderRow]
    \cup [step : {"read"}, read : TaskRow, id : Reminder]
    \cup [step : {"reschedule"}, read : TaskRow, id : Reminder, seen : State, new : ReminderRow]

TypeOK ==
    /\ task \in TaskRow
    /\ reminder \in [Reminder -> ReminderRow]
    /\ session \in [Session -> Requests]
    /\ claimed \in [Scheduler -> SUBSET Reminder]
    /\ inserted \in [Scheduler -> SUBSET Reminder]
    /\ marked \in [Scheduler -> SUBSET Reminder]
    /\ fired \in [Reminder -> Nat]
    /\ now \in Time
    /\ faults \in 0 .. MaxFaults
    /\ late \subseteq Reminder
    /\ adrift \subseteq Reminder
    /\ revived \in [Reminder -> Nat]

(* Two schedulers never hold the same reminder (FOR UPDATE SKIP LOCKED),   *)
(* and what they hold is still due when they fire it: no request changes   *)
(* a row between the claim and the commit.                                 *)
ClaimedStaysDue ==
    /\ \A p, q \in Scheduler : p # q => claimed[p] \cap claimed[q] = {}
    /\ Locked \subseteq Due

(* NotificationProcessor.Process and the batch's transaction: whatever step *)
(* of a batch fails, a reminder is never marked sent without an event; one *)
(* that was made pending again and marked again has another event.         *)
SentHasEvent ==
    \A r \in Reminder : reminder[r].state = "SENT" => fired[r] > revived[r]

(* ... and never has an event more than once, whichever schedulers poll it *)
(* and however their batches fail, but for one case: UpdateReminder writes *)
(* PENDING back to a reminder that has fired since it was read.            *)
FiresAtMostOnce == \A r \in Reminder : fired[r] <= 1 + revived[r]

(* A due reminder is fired, cancelled, moved or deleted, never forgotten.  *)
DueIsHandled == \A r \in Reminder : r \in Due ~> r \notin Due

(* reminder_service_test.go:178, TestReminderServiceRejectsCompletedTask,  *)
(* and tests/integration/reminder_repository_test.go, "completion cancels  *)
(* pending reminders": a completed task has no pending reminder, but for   *)
(* those made pending by a request that was overtaken: a create that read  *)
(* the task, or a rescheduling that read the reminder, before the          *)
(* completion; and those found when an older DONE is written back.         *)
DoneHasNoPending ==
    task.status = "DONE" => \A r \in Reminder : Pending(r) => r \in late

(* tests/integration/reminder_repository_test.go, "deadline change         *)
(* recalculates relative only": a pending relative reminder triggers at    *)
(* the task's deadline minus its offset, and there is a deadline under it, *)
(* unless it was written from a deadline that had changed meanwhile, or an *)
(* older deadline was written back by a request about something else.      *)
RelativeFollowsDeadline ==
    \A r \in Reminder : Pending(r) /\ Relative(r) /\ r \notin adrift =>
        /\ task.deadline # 0
        /\ reminder[r].trigger = task.deadline - reminder[r].offset
=============================================================================
