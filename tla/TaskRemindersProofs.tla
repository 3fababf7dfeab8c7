------------------------ MODULE TaskRemindersProofs -------------------------
(***************************************************************************)
(* TaskReminders for every number of reminders, requests and schedulers,   *)
(* every batch size and every bound, whatever overlaps.                    *)
(***************************************************************************)
EXTENDS TaskReminders, TLAPS

(* What a request in flight has decided, as far as the rows as they are    *)
(* now bear it out.                                                        *)
TaskRequestOK(q) ==
    q.step \in {"decided", "found"} => ~(Completes(q) /\ Moves(q))

FoundOK(q) ==
    q.step = "found" =>
        /\ Completes(q) \/ Moves(q)
        /\ Moves(q) /\ q.row.deadline = 0 => q.found = {}

NewRowOK(q) ==
    q.step \in {"create", "reschedule"} =>
        /\ q.new.state = "PENDING"
        /\ q.new.offset # 0 => /\ q.read.deadline # 0
                               /\ q.new.trigger = q.read.deadline - q.new.offset

CreateOK(q) == q.step = "create" => q.read.status # "DONE"

(* A reminder is never created again, and its kind never changes. *)
RescheduleOK(q) ==
    q.step = "reschedule" =>
        /\ q.seen = "PENDING"
        /\ reminder[q.id].state # "NONE"
        /\ Exists(q.id) => ((q.new.offset = 0) <=> (reminder[q.id].offset = 0))

RequestOK(q) ==
    TaskRequestOK(q) /\ FoundOK(q) /\ NewRowOK(q) /\ CreateOK(q) /\ RescheduleOK(q)

SessionsOK == \A s \in Session : RequestOK(session[s])

BatchesOK == \A p \in Scheduler : marked[p] \subseteq inserted[p] /\ inserted[p] \subseteq claimed[p]

(* A reminder has one event for each time it fired, and was made pending   *)
(* again after all of them or all but the last.                            *)
FiringOK ==
    \A r \in Reminder :
        /\ reminder[r].state \in {"NONE", "PENDING", "CANCELLED"} => fired[r] = revived[r]
        /\ reminder[r].state = "SENT" => fired[r] = revived[r] + 1
        /\ fired[r] <= revived[r] + 1

IInv ==
    /\ TypeOK
    /\ SessionsOK
    /\ BatchesOK
    /\ ClaimedStaysDue
    /\ FiringOK
    /\ DoneHasNoPending
    /\ RelativeFollowsDeadline

-----------------------------------------------------------------------------
(* The members of Requests, by the step they are at. *)
LEMMA RequestShape ==
    ASSUME NEW q \in Requests
    PROVE  /\ q.step = "idle" => q = Idle
           /\ q.step \in {"decided", "found"} => q.read \in TaskRow /\ q.row \in TaskRow
           /\ q.step = "found" => q.found \subseteq Reminder
           /\ q.step \in {"create", "reschedule", "read"} => q.read \in TaskRow /\ q.id \in Reminder
           /\ q.step \in {"create", "reschedule"} => q.new \in ReminderRow
  BY DEF Requests, Idle

LEMMA IdleRequest == Idle \in Requests /\ RequestOK(Idle)
  BY DEF Requests, Idle, RequestOK, TaskRequestOK, FoundOK, NewRowOK, CreateOK, RescheduleOK

(* What the clients ask for are rows, pending and in keeping with the      *)
(* deadline they were made for.                                            *)
LEMMA NewRowsShape ==
    ASSUME NEW deadline \in Time, NEW rem \in NewRows(deadline)
    PROVE  /\ rem \in ReminderRow
           /\ rem.state = "PENDING"
           /\ rem.offset # 0 => deadline # 0 /\ rem.trigger = deadline - rem.offset
  <1>1. CASE \E t \in Time : rem = [state |-> "PENDING", offset |-> 0, trigger |-> t]
    BY <1>1 DEF ReminderRow, Trigger, State
  <1>2. CASE \E o \in Offset : rem = [state |-> "PENDING", offset |-> o, trigger |-> deadline - o]
    <2>1. deadline # 0
      BY <1>2, BoundsAssumption DEF NewRows
    <2> QED BY <1>2, <2>1 DEF ReminderRow, Trigger, State
  <1> QED BY <1>1, <1>2 DEF NewRows

LEMMA LockedFact == \A r : r \in Locked <=> \E p \in Scheduler : r \in claimed[p]
  BY DEF Locked

LEMMA LockedFactPrime == \A r : r \in Locked' <=> \E p \in Scheduler : r \in claimed'[p]
  BY DEF Locked

LEMMA InitInv == Init => IInv
  <1> SUFFICES ASSUME Init PROVE IInv
    OBVIOUS
  <1>1. TypeOK
    <2>1. reminder \in [Reminder -> ReminderRow]
      BY DEF Init, NoReminder, ReminderRow, Trigger, State
    <2>2. session \in [Session -> Requests]
      BY IdleRequest DEF Init
    <2>3. 0 \in 0 .. MaxFaults /\ 0 \in Time
      BY BoundsAssumption DEF Time
    <2> QED BY <2>1, <2>2, <2>3 DEF Init, TypeOK, TaskRow, Status
  <1>2. SessionsOK
    BY IdleRequest DEF Init, SessionsOK
  <1>3. ClaimedStaysDue /\ BatchesOK
    BY LockedFact DEF Init, ClaimedStaysDue, BatchesOK
  <1>4. FiringOK /\ DoneHasNoPending /\ RelativeFollowsDeadline
    BY DEF Init, FiringOK, DoneHasNoPending, RelativeFollowsDeadline, Pending, NoReminder
  <1> QED BY <1>1, <1>2, <1>3, <1>4 DEF IInv

-----------------------------------------------------------------------------
(* Steps of a request that write nothing to the database. *)
LEMMA QuietStep ==
    ASSUME IInv, NEW s \in Session, NEW q \in Requests, RequestOK(q),
           session' = [session EXCEPT ![s] = q],
           UNCHANGED <<task, reminder, batches, now, history>>
    PROVE  IInv'
  <1> USE DEF IInv, batches, history
  <1>1. TypeOK'
    BY DEF TypeOK
  <1>2. \A t \in Session : session'[t] = IF t = s THEN q ELSE session[t]
    BY DEF TypeOK
  <1>3. ASSUME NEW t \in Session PROVE RequestOK(session[t])' 
    <2>1. RequestOK(session'[t])
      BY <1>2 DEF SessionsOK
    <2> QED BY <2>1 DEF RequestOK, TaskRequestOK, FoundOK, NewRowOK, CreateOK, RescheduleOK,
                        Completes, Moves, Pending, Relative, Exists
  <1>4. BatchesOK' /\ ClaimedStaysDue' /\ FiringOK'
    BY DEF BatchesOK, ClaimedStaysDue, FiringOK, Locked, Due, Pending
  <1>5. DoneHasNoPending' /\ RelativeFollowsDeadline'
    BY DEF DoneHasNoPending, RelativeFollowsDeadline, Pending, Relative
  <1> QED BY <1>1, <1>3, <1>4, <1>5 DEF SessionsOK

LEMMA DecideStep ==
    ASSUME IInv, NEW s \in Session, NEW op, NEW row \in TaskRow, Decide(s, op, row),
           row.status = task.status \/ row.deadline = task.deadline
    PROVE  IInv'
  <1> DEFINE q == [step |-> "decided", read |-> task, row |-> row]
  <1>1. q \in Requests
    BY DEF Requests, IInv, TypeOK
  <1>2. RequestOK(q)
    BY DEF RequestOK, TaskRequestOK, FoundOK, NewRowOK, CreateOK, RescheduleOK, Completes, Moves
  <1> QED BY <1>1, <1>2, QuietStep DEF Decide, Begin

LEMMA BeginTaskStep ==
    ASSUME IInv, NEW s \in Session,
           BeginChangeStatus(s) \/ BeginUpdateTask(s) \/ BeginArchiveOrRestore(s)
    PROVE  IInv'
  <1>0. task \in TaskRow
    BY DEF IInv, TypeOK
  <1>1. CASE BeginChangeStatus(s)
    <2>1. PICK next \in Status :
             Decide(s, IF next = "DONE" THEN "complete" ELSE "start", [task EXCEPT !.status = next])
      BY <1>1 DEF BeginChangeStatus
    <2>2. [task EXCEPT !.status = next] \in TaskRow /\ [task EXCEPT !.status = next].deadline = task.deadline
      BY <1>0 DEF TaskRow
    <2> QED BY <2>1, <2>2, DecideStep
  <1>2. CASE BeginUpdateTask(s)
    <2>1. PICK d \in Time : Decide(s, "edit", [task EXCEPT !.deadline = d])
      BY <1>2 DEF BeginUpdateTask
    <2>2. [task EXCEPT !.deadline = d] \in TaskRow /\ [task EXCEPT !.deadline = d].status = task.status
      BY <1>0 DEF TaskRow
    <2> QED BY <2>1, <2>2, DecideStep
  <1>3. CASE BeginArchiveOrRestore(s)
    BY <1>0, <1>3, DecideStep DEF BeginArchiveOrRestore
  <1> QED BY <1>1, <1>2, <1>3

(* The statement about the reminders finds its rows. *)
LEMMA FindStep ==
    ASSUME IInv, NEW s \in Session, CancelPending(s) \/ RecalculatePending(s)
    PROVE  IInv'
  <1> DEFINE q == [step |-> "found", read |-> session[s].read, row |-> session[s].row,
                   found |-> Concerned(session[s])]
  <1>1. /\ session[s].step = "decided" /\ session[s] \in Requests /\ TaskRequestOK(session[s])
        /\ FindReminders(s)
    BY DEF CancelPending, RecalculatePending, IInv, TypeOK, SessionsOK, RequestOK
  <1>2. q \in Requests
    BY <1>1, RequestShape DEF Requests, Concerned
  <1>3. (Completes(q) <=> Completes(session[s])) /\ (Moves(q) <=> Moves(session[s]))
    BY DEF Completes, Moves
  <1>4. RequestOK(q)
    <2>1. TaskRequestOK(q) /\ FoundOK(q)
      BY <1>1, <1>3 DEF TaskRequestOK, FoundOK, CancelPending, RecalculatePending, Concerned
    <2> QED BY <2>1 DEF RequestOK, NewRowOK, CreateOK, RescheduleOK
  <1> QED BY <1>1, <1>2, <1>4, QuietStep DEF FindReminders

LEMMA BeginReminderStep ==
    ASSUME IInv, NEW s \in Session, BeginCreateReminder(s) \/ BeginUpdateReminder(s) \/ ReadReminder(s)
    PROVE  IInv'
  <1>0. task \in TaskRow /\ task.deadline \in Time /\ session[s] \in Requests
    BY DEF IInv, TypeOK, TaskRow
  <1>1. CASE BeginCreateReminder(s)
    <2>1. PICK r \in Reminder, rem \in NewRows(task.deadline) :
             /\ task.status # "DONE"
             /\ Begin(s, "create", [step |-> "create", read |-> task, id |-> r, new |-> rem])
      BY <1>1 DEF BeginCreateReminder
    <2> DEFINE q == [step |-> "create", read |-> task, id |-> r, new |-> rem]
    <2>2. q \in Requests
      BY <1>0, NewRowsShape DEF Requests
    <2>3. RequestOK(q)
      BY <1>0, <2>1, NewRowsShape DEF RequestOK, TaskRequestOK, FoundOK, NewRowOK, CreateOK, RescheduleOK
    <2> QED BY <2>1, <2>2, <2>3, QuietStep DEF Begin
  <1>2. CASE BeginUpdateReminder(s)
    <2>1. PICK r \in Reminder : Begin(s, "reschedule", [step |-> "read", read |-> task, id |-> r])
      BY <1>2 DEF BeginUpdateReminder
    <2> DEFINE q == [step |-> "read", read |-> task, id |-> r]
    <2>2. q \in Requests
      BY <1>0 DEF Requests
    <2>3. RequestOK(q)
      BY DEF RequestOK, TaskRequestOK, FoundOK, NewRowOK, CreateOK, RescheduleOK
    <2> QED BY <2>1, <2>2, <2>3, QuietStep DEF Begin
  <1>3. CASE ReadReminder(s)
    <2>1. /\ session[s].step = "read" /\ session[s].read \in TaskRow
          /\ session[s].id \in Reminder /\ session[s].read.deadline \in Time
      BY <1>0, <1>3, RequestShape DEF ReadReminder, TaskRow
    <2> DEFINE r == session[s].id
    <2>2. PICK rem \in NewRows(session[s].read.deadline) :
             /\ (rem.offset = 0) = (reminder[r].offset = 0)
             /\ session' = [session EXCEPT ![s] = [step |-> "reschedule", read |-> session[s].read,
                                                   id |-> r, seen |-> reminder[r].state, new |-> rem]]
      BY <1>3 DEF ReadReminder
    <2> DEFINE q == [step |-> "reschedule", read |-> session[s].read,
                     id |-> r, seen |-> reminder[r].state, new |-> rem]
    <2>3. reminder[r].state = "PENDING"
      BY <1>3 DEF ReadReminder, Pending
    <2>4. q \in Requests
      BY <2>1, <2>3, NewRowsShape DEF Requests, State
    <2>5. RequestOK(q)
      BY <2>1, <2>2, <2>3, NewRowsShape
         DEF RequestOK, TaskRequestOK, FoundOK, NewRowOK, CreateOK, RescheduleOK
    <2> QED BY <1>3, <2>2, <2>4, <2>5, QuietStep DEF ReadReminder
  <1> QED BY <1>1, <1>2, <1>3

LEMMA GiveUpStep ==
    ASSUME IInv, NEW s \in Session, RecalculateFails(s) \/ Abandon(s)
    PROVE  IInv'
  BY IdleRequest, QuietStep DEF RecalculateFails, Abandon, End

-----------------------------------------------------------------------------
(* The requests in flight stay as they should while no reminder comes back *)
(* from its deletion or changes its kind.                                  *)
LEMMA SessionsStay ==
    ASSUME IInv, \A t \in Session : session'[t] \in {Idle, session[t]},
           \A r \in Reminder : reminder[r].state # "NONE" =>
               /\ reminder'[r].state # "NONE"
               /\ Exists(r)' => Exists(r) /\ ((reminder'[r].offset = 0) <=> (reminder[r].offset = 0))
    PROVE  SessionsOK'
  <1> SUFFICES ASSUME NEW t \in Session PROVE RequestOK(session[t])'
    BY DEF SessionsOK
  <1>1. CASE session'[t] = Idle
    BY <1>1 DEF Idle, RequestOK, TaskRequestOK, FoundOK, NewRowOK, CreateOK, RescheduleOK
  <1>2. CASE session'[t] = session[t]
    <2>1. RequestOK(session[t]) /\ session[t] \in Requests
      BY DEF IInv, SessionsOK, TypeOK
    <2>2. TaskRequestOK(session[t])' /\ NewRowOK(session[t])' /\ CreateOK(session[t])'
      BY <1>2, <2>1 DEF RequestOK, TaskRequestOK, NewRowOK, CreateOK, Completes, Moves
    <2>3. FoundOK(session[t])'
      BY <1>2, <2>1 DEF RequestOK, FoundOK, Completes, Moves
    <2>4. RescheduleOK(session[t])'
      <3>1. CASE session[t].step # "reschedule"
        BY <1>2, <3>1 DEF RescheduleOK
      <3>2. CASE session[t].step = "reschedule"
        <4>1. session[t].id \in Reminder /\ RescheduleOK(session[t])
          BY <2>1, <3>2, RequestShape DEF RequestOK
        <4> QED BY <1>2, <3>2, <4>1 DEF RescheduleOK, Exists
      <3> QED BY <3>1, <3>2
    <2> QED BY <2>2, <2>3, <2>4 DEF RequestOK
  <1> QED BY <1>1, <1>2

(* A row nobody has locked may change, what the schedulers hold stays due. *)
LEMMA ClaimsStay ==
    ASSUME IInv, UNCHANGED <<claimed, inserted, marked, now>>,
           \A r \in Locked : reminder'[r] = reminder[r]
    PROVE  BatchesOK' /\ ClaimedStaysDue'
  <1>1. BatchesOK'
    BY DEF IInv, BatchesOK
  <1>2. Locked' = Locked
    BY DEF Locked
  <1>3. Locked' \subseteq Due'
    BY <1>2 DEF IInv, ClaimedStaysDue, Due, Pending
  <1> QED BY <1>1, <1>3 DEF IInv, ClaimedStaysDue

LEMMA ChangeTaskStep ==
    ASSUME IInv, NEW s \in Session, ChangeTask(s)
    PROVE  IInv'
  <1> DEFINE q == session[s]
  <1>1. /\ q \in Requests /\ q.read \in TaskRow /\ q.row \in TaskRow
        /\ session' = [session EXCEPT ![s] = Idle] /\ task' = q.row
        /\ UNCHANGED <<reminder, claimed, inserted, marked, fired, faults, now, revived>>
    BY RequestShape DEF IInv, TypeOK, ChangeTask, WriteTask, End, batches
  <1>2. /\ late' = IF q.read.status = "DONE" /\ task.status # "DONE"
                   THEN late \cup {r \in Reminder : Pending(r)} ELSE late
        /\ adrift' = IF q.read.deadline # task.deadline
                     THEN adrift \cup {r \in Reminder : Pending(r) /\ Relative(r)} ELSE adrift
    BY DEF ChangeTask, WriteTask
  <1>3. TypeOK'
    BY <1>1, <1>2, IdleRequest DEF IInv, TypeOK
  <1>4. SessionsOK'
    BY <1>1, SessionsStay DEF IInv, TypeOK, Pending, Relative, Exists
  <1>5. BatchesOK' /\ ClaimedStaysDue'
    BY <1>1, ClaimsStay
  <1>6. FiringOK'
    BY <1>1 DEF IInv, FiringOK
  <1>7. DoneHasNoPending'
    BY <1>1, <1>2 DEF IInv, DoneHasNoPending, Pending, ChangeTask, Completes
  <1>8. RelativeFollowsDeadline'
    BY <1>1, <1>2 DEF IInv, RelativeFollowsDeadline, Pending, Relative, ChangeTask, Moves
  <1> QED BY <1>3, <1>4, <1>5, <1>6, <1>7, <1>8 DEF IInv

LEMMA ChangeTaskAndRemindersStep ==
    ASSUME IInv, NEW s \in Session, ChangeTaskAndReminders(s)
    PROVE  IInv'
  <1> DEFINE q == session[s]
             C == Changed(q)
  <1>1. /\ q \in Requests /\ q.step = "found" /\ q.read \in TaskRow /\ q.row \in TaskRow
        /\ q.found \subseteq Reminder
        /\ session' = [session EXCEPT ![s] = Idle] /\ task' = q.row
        /\ UNCHANGED <<claimed, inserted, marked, fired, faults, now, revived>>
    BY RequestShape DEF IInv, TypeOK, ChangeTaskAndReminders, WriteTask, End, batches
  <1>2. /\ late' = IF Completes(q) THEN Concerned(q) \ q.found
                   ELSE IF q.read.status = "DONE" /\ task.status # "DONE"
                        THEN late \cup {r \in Reminder : Pending(r)}
                   ELSE late
        /\ adrift' = IF Moves(q) THEN Concerned(q) \ q.found
                     ELSE IF q.read.deadline # task.deadline
                          THEN adrift \cup {r \in Reminder : Pending(r) /\ Relative(r)}
                     ELSE adrift
    BY DEF ChangeTaskAndReminders, WriteTask
  <1>3. /\ TaskRequestOK(q) /\ FoundOK(q)
        /\ Completes(q) \/ Moves(q)
        /\ ~(Completes(q) /\ Moves(q))
    BY <1>1 DEF IInv, SessionsOK, RequestOK, FoundOK, TaskRequestOK
  <1>4. \A r \in Reminder :
           reminder'[r] = IF r \notin C THEN reminder[r]
                          ELSE IF Completes(q) THEN [reminder[r] EXCEPT !.state = "CANCELLED"]
                          ELSE [reminder[r] EXCEPT !.trigger = q.row.deadline - reminder[r].offset]
    BY DEF ChangeTaskAndReminders
  <1>5. \A r \in Reminder : r \in C <=> r \in q.found /\ r \in Concerned(q)
    BY DEF Changed
  <1>5a. \A r \in Reminder : r \in Concerned(q) <=> Pending(r) /\ (Completes(q) \/ Relative(r))
    BY DEF Concerned
  <1>6. \A r \in Reminder : reminder[r] \in ReminderRow
    BY DEF IInv, TypeOK
  <1>7. ASSUME NEW r \in C, ~Completes(q)
        PROVE  /\ Pending(r) /\ Relative(r) /\ q.row.deadline # 0
               /\ q.row.deadline - reminder[r].offset \in Trigger
    <2>1. r \in Reminder /\ Pending(r) /\ Relative(r) /\ r \in q.found
      BY <1>1, <1>5, <1>5a, <1>7 DEF Changed
    <2>2. q.row.deadline # 0
      BY <1>1, <1>3, <1>7, <2>1 DEF FoundOK
    <2>3. q.row.deadline \in Time \ {0} /\ reminder[r].offset \in Offset
      BY <1>1, <1>6, <2>1, <2>2 DEF TaskRow, ReminderRow, Relative
    <2> QED BY <2>1, <2>2, <2>3 DEF Trigger
  <1>8. \A r \in Reminder :
           /\ reminder'[r].offset = reminder[r].offset
           /\ reminder'[r].state = IF r \in C /\ Completes(q) THEN "CANCELLED" ELSE reminder[r].state
    BY <1>4, <1>6 DEF ReminderRow
  <1>9. TypeOK'
    <2>1. reminder' \in [Reminder -> ReminderRow]
      <3>1. ASSUME NEW r \in Reminder PROVE reminder'[r] \in ReminderRow
        <4>1. CASE r \notin C
          BY <1>4, <1>6, <4>1
        <4>2. CASE r \in C /\ Completes(q)
          <5>1. reminder'[r] = [reminder[r] EXCEPT !.state = "CANCELLED"]
            BY <1>4, <4>2
          <5> QED BY <1>6, <5>1 DEF ReminderRow, State
        <4>3. CASE r \in C /\ ~Completes(q)
          <5>1. reminder'[r] = [reminder[r] EXCEPT !.trigger = q.row.deadline - reminder[r].offset]
            BY <1>4, <4>3
          <5>2. q.row.deadline - reminder[r].offset \in Trigger
            BY <1>7, <4>3
          <5> QED BY <1>6, <5>1, <5>2 DEF ReminderRow
        <4> QED BY <4>1, <4>2, <4>3
      <3> QED BY <3>1 DEF ChangeTaskAndReminders
    <2>2. late' \subseteq Reminder /\ adrift' \subseteq Reminder
      BY <1>1, <1>2 DEF IInv, TypeOK, Concerned
    <2> QED BY <1>1, <2>1, <2>2, IdleRequest DEF IInv, TypeOK
  <1>10. SessionsOK'
    <2>1. \A t \in Session : session'[t] \in {Idle, session[t]}
      BY <1>1 DEF IInv, TypeOK
    <2>2. \A r \in Reminder : reminder[r].state # "NONE" =>
             /\ reminder'[r].state # "NONE"
             /\ Exists(r)' => Exists(r) /\ ((reminder'[r].offset = 0) <=> (reminder[r].offset = 0))
      BY <1>5, <1>5a, <1>8 DEF Exists, Pending
    <2> QED BY <2>1, <2>2, SessionsStay
  <1>11. BatchesOK' /\ ClaimedStaysDue'
    <2>1. \A r \in Locked : r \in Reminder /\ r \notin C
      BY LockedFact DEF ChangeTaskAndReminders, IInv, TypeOK
    <2> QED BY <1>1, <1>4, <2>1, ClaimsStay
  <1>12. FiringOK'
    BY <1>1, <1>5, <1>5a, <1>8 DEF IInv, FiringOK, Pending
  <1>13. DoneHasNoPending'
    <2>1. CASE Completes(q)
      BY <1>2, <1>5, <1>5a, <1>8, <2>1 DEF DoneHasNoPending, Pending
    <2>2. CASE ~Completes(q)
      BY <1>1, <1>2, <1>8, <2>2 DEF IInv, DoneHasNoPending, Pending, Completes
    <2> QED BY <2>1, <2>2
  <1>14. RelativeFollowsDeadline'
    <2>1. CASE Moves(q)
      <3> SUFFICES ASSUME NEW r \in Reminder, (Pending(r) /\ Relative(r))', r \notin adrift'
                   PROVE  /\ task'.deadline # 0
                          /\ reminder'[r].trigger = task'.deadline - reminder'[r].offset
        BY DEF RelativeFollowsDeadline
      <3>1. Pending(r) /\ Relative(r) /\ ~Completes(q)
        BY <1>3, <1>8, <2>1 DEF Pending, Relative
      <3>2. r \in C
        BY <1>2, <1>5, <1>5a, <2>1, <3>1
      <3>3. reminder'[r] = [reminder[r] EXCEPT !.trigger = q.row.deadline - reminder[r].offset]
        BY <1>4, <3>1, <3>2
      <3> QED BY <1>1, <1>6, <1>7, <3>1, <3>2, <3>3 DEF ReminderRow
    <2>2. CASE ~Moves(q)
      <3>1. ASSUME NEW r \in Reminder, Pending(r)' PROVE reminder'[r] = reminder[r]
        BY <1>3, <1>4, <1>8, <2>2, <3>1 DEF Pending
      <3> QED BY <1>1, <1>2, <2>2, <3>1 DEF IInv, RelativeFollowsDeadline, Pending, Relative, Moves
    <2> QED BY <2>1, <2>2
  <1> QED BY <1>9, <1>10, <1>11, <1>12, <1>13, <1>14 DEF IInv

(* The rescheduled or created row: it has the kind of the row it replaces. *)
LEMMA WriteReminderStep ==
    ASSUME IInv, NEW s \in Session, CreateReminder(s) \/ UpdateReminder(s)
    PROVE  IInv'
  <1> DEFINE q == session[s]
  <1>1. /\ q \in Requests /\ q.step \in {"create", "reschedule"} /\ q.read \in TaskRow
        /\ q.id \in Reminder /\ q.new \in ReminderRow /\ q.new.state = "PENDING"
        /\ NewRowOK(q) /\ CreateOK(q) /\ RescheduleOK(q)
    <2>1. q \in Requests /\ RequestOK(q) /\ q.step \in {"create", "reschedule"}
      BY DEF IInv, TypeOK, SessionsOK, CreateReminder, UpdateReminder
    <2> QED BY <2>1, RequestShape DEF RequestOK, NewRowOK
  <1>2. /\ WriteReminder(s)
        /\ reminder' = [reminder EXCEPT ![q.id] = q.new]
        /\ UNCHANGED <<task, claimed, inserted, marked, fired, faults, now>>
    BY DEF CreateReminder, UpdateReminder, WriteReminder, batches
  <1>3. \A r \in Reminder : reminder'[r] = IF r = q.id THEN q.new ELSE reminder[r]
    BY <1>2 DEF IInv, TypeOK
  <1>4. \A t \in Session : session'[t] \in {Idle, session[t]}
    BY <1>2 DEF WriteReminder, End, IInv, TypeOK
  <1>5. /\ late \subseteq late' /\ late' \subseteq Reminder
        /\ adrift' = IF q.read.deadline # task.deadline THEN adrift \cup {q.id} ELSE adrift \ {q.id}
        /\ adrift' \subseteq Reminder
    BY <1>1 DEF IInv, TypeOK, CreateReminder, UpdateReminder, WriteReminder
  <1>6. /\ reminder[q.id].state = "NONE" \/ Exists(q.id)
        /\ Exists(q.id) => ((q.new.offset = 0) <=> (reminder[q.id].offset = 0))
    BY <1>1 DEF CreateReminder, UpdateReminder, RescheduleOK, Exists
  <1>8. TypeOK'
    <2>2. session' \in [Session -> Requests]
      BY <1>2, IdleRequest DEF WriteReminder, End, IInv, TypeOK
    <2>3. reminder' \in [Reminder -> ReminderRow]
      BY <1>1, <1>2 DEF IInv, TypeOK
    <2>4. revived' \in [Reminder -> Nat]
      BY DEF IInv, TypeOK, CreateReminder, UpdateReminder
    <2> QED BY <1>2, <1>5, <2>2, <2>3, <2>4 DEF IInv, TypeOK
  <1>9. SessionsOK'
    BY <1>1, <1>3, <1>4, <1>6, SessionsStay DEF Exists
  <1>10. BatchesOK' /\ ClaimedStaysDue'
    <2>1. q.id \notin Locked
      BY DEF CreateReminder, UpdateReminder, IInv, ClaimedStaysDue, Due, Pending
    <2>2. \A r \in Locked : r \in Reminder
      BY LockedFact DEF IInv, TypeOK
    <2> QED BY <1>2, <1>3, <2>1, <2>2, ClaimsStay
  <1>11. FiringOK'
    <2> SUFFICES ASSUME NEW r \in Reminder
                 PROVE  /\ reminder'[r].state \in {"NONE", "PENDING", "CANCELLED"} => fired'[r] = revived'[r]
                        /\ reminder'[r].state = "SENT" => fired'[r] = revived'[r] + 1
                        /\ fired'[r] <= revived'[r] + 1
      BY DEF FiringOK
    <2>1. fired'[r] = fired[r] /\ fired[r] \in Nat /\ revived[r] \in Nat
      BY <1>2 DEF IInv, TypeOK
    <2>2. CASE r # q.id
      <3>1. revived'[r] = revived[r]
        BY <2>2 DEF CreateReminder, UpdateReminder, IInv, TypeOK
      <3> QED BY <1>3, <2>1, <2>2, <3>1 DEF IInv, FiringOK
    <2>3. CASE r = q.id /\ reminder[r].state = "SENT"
      <3>1. UpdateReminder(s) /\ q.seen = "PENDING"
        BY <1>1, <2>3 DEF CreateReminder, UpdateReminder, RescheduleOK
      <3>2. revived'[r] = revived[r] + 1
        BY <1>1, <2>3, <3>1 DEF UpdateReminder, IInv, TypeOK
      <3> QED BY <1>1, <1>3, <2>1, <2>3, <3>2 DEF IInv, FiringOK
    <2>4. CASE r = q.id /\ reminder[r].state # "SENT"
      <3>1. revived'[r] = revived[r]
        BY <2>4 DEF CreateReminder, UpdateReminder
      <3>2. reminder[r].state \in {"NONE", "PENDING", "CANCELLED"}
        BY <1>6, <2>4 DEF Exists, IInv, TypeOK, ReminderRow, State
      <3> QED BY <1>1, <1>3, <2>1, <2>4, <3>1, <3>2 DEF IInv, FiringOK
    <2> QED BY <2>2, <2>3, <2>4
  <1>12. DoneHasNoPending'
    <2> SUFFICES ASSUME task.status = "DONE", NEW r \in Reminder, Pending(r)'
                 PROVE  r \in late'
      BY <1>2 DEF DoneHasNoPending
    <2>1. CASE r # q.id \/ Pending(q.id)
      BY <1>3, <1>5, <2>1 DEF IInv, DoneHasNoPending, Pending
    <2>2. CASE r = q.id /\ ~Pending(q.id) /\ CreateReminder(s)
      BY <1>1, <2>2 DEF CreateReminder, CreateOK
    <2>3. CASE r = q.id /\ ~Pending(q.id) /\ UpdateReminder(s)
      BY <1>1, <2>3 DEF UpdateReminder, RescheduleOK
    <2> QED BY <2>1, <2>2, <2>3
  <1>13. RelativeFollowsDeadline'
    <2> SUFFICES ASSUME NEW r \in Reminder, (Pending(r) /\ Relative(r))', r \notin adrift'
                 PROVE  /\ task.deadline # 0
                        /\ reminder'[r].trigger = task.deadline - reminder'[r].offset
      BY <1>2 DEF RelativeFollowsDeadline
    <2>1. CASE r # q.id
      BY <1>3, <1>5, <2>1 DEF IInv, RelativeFollowsDeadline, Pending, Relative
    <2>2. CASE r = q.id
      <3>1. q.read.deadline = task.deadline
        BY <1>5, <2>2
      <3> QED BY <1>1, <1>3, <2>2, <3>1 DEF NewRowOK, Relative
    <2> QED BY <2>1, <2>2
  <1> QED BY <1>8, <1>9, <1>10, <1>11, <1>12, <1>13 DEF IInv

LEMMA DeleteReminderStep ==
    ASSUME IInv, NEW s \in Session, DeleteReminder(s)
    PROVE  IInv'
  <1>1. PICK d \in Reminder \ Locked :
           reminder' = [reminder EXCEPT ![d] = [NoReminder EXCEPT !.state = "DELETED"]]
    BY DEF DeleteReminder
  <1>2. UNCHANGED <<task, session, claimed, inserted, marked, fired, faults, now, late, adrift, revived>>
    BY DEF DeleteReminder, batches, history
  <1>3. [NoReminder EXCEPT !.state = "DELETED"] = [state |-> "DELETED", offset |-> 0, trigger |-> 0]
    BY DEF NoReminder
  <1>4. \A r \in Reminder :
           reminder'[r] = IF r = d THEN [state |-> "DELETED", offset |-> 0, trigger |-> 0] ELSE reminder[r]
    BY <1>1, <1>3 DEF IInv, TypeOK
  <1>5. TypeOK'
    <2>1. [state |-> "DELETED", offset |-> 0, trigger |-> 0] \in ReminderRow
      BY DEF ReminderRow, State, Trigger
    <2>2. reminder' \in [Reminder -> ReminderRow]
      BY <1>1, <1>3, <2>1 DEF IInv, TypeOK
    <2> QED BY <1>2, <2>2 DEF IInv, TypeOK
  <1>6. SessionsOK'
    BY <1>2, <1>4, SessionsStay DEF Pending, Relative, Exists
  <1>7. BatchesOK' /\ ClaimedStaysDue'
    <2>1. \A r \in Locked : r \in Reminder
      BY LockedFact DEF IInv, TypeOK
    <2> QED BY <1>2, <1>4, <2>1, ClaimsStay
  <1>8. FiringOK'
    BY <1>2, <1>4 DEF IInv, FiringOK
  <1>9. DoneHasNoPending' /\ RelativeFollowsDeadline'
    BY <1>2, <1>4 DEF IInv, DoneHasNoPending, RelativeFollowsDeadline, Pending, Relative
  <1> QED BY <1>5, <1>6, <1>7, <1>8, <1>9 DEF IInv

-----------------------------------------------------------------------------
(* The schedulers.  A step of a batch changes only what the batch holds. *)
LEMMA BatchStep ==
    ASSUME IInv, NEW p \in Scheduler, ClaimDue(p) \/ InsertEvent(p) \/ MarkSent(p) \/ RollbackBatch(p)
    PROVE  IInv'
  <1>1. UNCHANGED <<task, reminder, session, fired, now, late, adrift, revived>>
    BY DEF ClaimDue, Claim, InsertEvent, MarkSent, RollbackBatch, history
  <1>2. TypeOK' /\ BatchesOK' /\ ClaimedStaysDue'
    <2>1. CASE ClaimDue(p)
      <3>1. PICK S \in SUBSET (Due \ Locked) : claimed' = [claimed EXCEPT ![p] = S]
        BY <2>1 DEF ClaimDue, Claim
      <3>2. /\ UNCHANGED <<inserted, marked, faults>> /\ claimed[p] = {}
            /\ \A u \in Scheduler : claimed'[u] = IF u = p THEN S ELSE claimed[u]
        BY <2>1, <3>1 DEF ClaimDue, Claim, IInv, TypeOK
      <3>3. TypeOK'
        BY <1>1, <3>1, <3>2 DEF IInv, TypeOK, Due
      <3>4. BatchesOK'
        BY <3>2 DEF IInv, BatchesOK
      <3>5. Locked' \subseteq Due'
        BY <1>1, <3>2, LockedFact, LockedFactPrime DEF IInv, ClaimedStaysDue, Due, Pending
      <3>6. \A u, v \in Scheduler : u # v => claimed'[u] \cap claimed'[v] = {}
        BY <3>2, LockedFact DEF IInv, ClaimedStaysDue
      <3> QED BY <3>3, <3>4, <3>5, <3>6 DEF ClaimedStaysDue
    <2>2. CASE InsertEvent(p)
      <3>1. UNCHANGED <<claimed, marked, faults>>
        BY <2>2 DEF InsertEvent
      <3>2. PICK r \in claimed[p] : inserted' = [inserted EXCEPT ![p] = @ \cup {r}]
        BY <2>2 DEF InsertEvent
      <3>3. TypeOK'
        BY <1>1, <3>1, <3>2 DEF IInv, TypeOK
      <3>4. BatchesOK'
        BY <3>1, <3>2 DEF IInv, TypeOK, BatchesOK
      <3>5. ClaimedStaysDue'
        BY <1>1, <3>1 DEF IInv, ClaimedStaysDue, Locked, Due, Pending
      <3> QED BY <3>3, <3>4, <3>5
    <2>3. CASE MarkSent(p)
      <3>1. UNCHANGED <<claimed, inserted, faults>> /\ marked' = [marked EXCEPT ![p] = inserted[p]]
        BY <2>3 DEF MarkSent
      <3>2. TypeOK' /\ BatchesOK'
        BY <1>1, <3>1 DEF IInv, TypeOK, BatchesOK
      <3>3. ClaimedStaysDue'
        BY <1>1, <3>1 DEF IInv, ClaimedStaysDue, Locked, Due, Pending
      <3> QED BY <3>2, <3>3
    <2>4. CASE RollbackBatch(p)
      <3>1. EndBatch(p) /\ faults' \in 0 .. MaxFaults
        BY <2>4, BoundsAssumption DEF RollbackBatch, IInv, TypeOK
      <3>2. TypeOK' /\ BatchesOK'
        BY <1>1, <3>1 DEF EndBatch, IInv, TypeOK, BatchesOK
      <3>3. \A u \in Scheduler : claimed'[u] \subseteq claimed[u]
        BY <3>1 DEF EndBatch, IInv, TypeOK
      <3>4. ClaimedStaysDue'
        BY <1>1, <3>3, LockedFact, LockedFactPrime DEF IInv, ClaimedStaysDue, Due, Pending
      <3> QED BY <3>2, <3>4
    <2> QED BY <2>1, <2>2, <2>3, <2>4
  <1>3. SessionsOK'
    BY <1>1, SessionsStay DEF Pending, Relative, Exists
  <1>4. FiringOK' /\ DoneHasNoPending' /\ RelativeFollowsDeadline'
    BY <1>1 DEF IInv, FiringOK, DoneHasNoPending, RelativeFollowsDeadline, Pending, Relative
  <1> QED BY <1>2, <1>3, <1>4 DEF IInv

(* What is committed was locked, so it is still pending: each of its       *)
(* reminders gets the event it has not had.                                *)
LEMMA CommitStep ==
    ASSUME IInv, NEW p \in Scheduler, CommitBatch(p)
    PROVE  IInv'
  <1> DEFINE B == claimed[p]
  <1>1. inserted[p] = B /\ marked[p] = B /\ B \subseteq Reminder
    BY DEF CommitBatch, IInv, BatchesOK, TypeOK
  <1>2. UNCHANGED <<task, session, now, faults, late, adrift, revived>> /\ EndBatch(p)
    BY DEF CommitBatch, history
  <1>3. \A r \in Reminder :
           /\ reminder'[r] = IF r \in B THEN [reminder[r] EXCEPT !.state = "SENT"] ELSE reminder[r]
           /\ fired'[r] = IF r \in B THEN fired[r] + 1 ELSE fired[r]
    BY <1>1 DEF CommitBatch
  <1>4. \A r \in Reminder : reminder[r] \in ReminderRow
    BY DEF IInv, TypeOK
  <1>5. \A r \in Reminder : /\ reminder'[r].state = IF r \in B THEN "SENT" ELSE reminder[r].state
                            /\ reminder'[r].offset = reminder[r].offset
                            /\ reminder'[r].trigger = reminder[r].trigger
                            /\ reminder'[r] \in ReminderRow
    BY <1>3, <1>4 DEF ReminderRow, State
  <1>6. \A r \in B : r \in Reminder /\ Pending(r)
    BY <1>1, LockedFact DEF IInv, ClaimedStaysDue, Due
  <1>7. TypeOK'
    <2>1. reminder' \in [Reminder -> ReminderRow] /\ fired' \in [Reminder -> Nat]
      BY <1>3, <1>5 DEF CommitBatch, IInv, TypeOK
    <2> QED BY <1>2, <2>1 DEF EndBatch, IInv, TypeOK
  <1>8. SessionsOK'
    BY <1>2, <1>5, <1>6, SessionsStay DEF Pending, Relative, Exists
  <1>9. BatchesOK' /\ ClaimedStaysDue'
    <2>1. \A u \in Scheduler : claimed'[u] = IF u = p THEN {} ELSE claimed[u]
      BY <1>2 DEF EndBatch, IInv, TypeOK
    <2>2. BatchesOK'
      BY <1>2 DEF EndBatch, IInv, TypeOK, BatchesOK
    <2>3. ASSUME NEW r \in Locked' PROVE r \in Due'
      <3>1. PICK u \in Scheduler : u # p /\ r \in claimed[u]
        BY <2>1, <2>3, LockedFactPrime
      <3>2. r \notin B /\ r \in Due
        BY <3>1, LockedFact DEF IInv, ClaimedStaysDue
      <3> QED BY <1>2, <1>5, <3>2 DEF Due, Pending
    <2> QED BY <2>1, <2>2, <2>3 DEF IInv, ClaimedStaysDue
  <1>10. FiringOK'
    <2> SUFFICES ASSUME NEW r \in Reminder
                 PROVE  /\ reminder'[r].state \in {"NONE", "PENDING", "CANCELLED"} => fired'[r] = revived[r]
                        /\ reminder'[r].state = "SENT" => fired'[r] = revived[r] + 1
                        /\ fired'[r] <= revived[r] + 1
      BY <1>2 DEF FiringOK
    <2>1. fired[r] \in Nat /\ revived[r] \in Nat
      BY DEF IInv, TypeOK
    <2>2. CASE r \in B
      <3>1. fired'[r] = fired[r] + 1 /\ reminder'[r].state = "SENT"
        BY <1>3, <1>5, <2>2
      <3>2. fired[r] = revived[r]
        BY <1>6, <2>2 DEF IInv, FiringOK, Pending
      <3> QED BY <2>1, <3>1, <3>2
    <2>3. CASE r \notin B
      BY <1>3, <1>5, <2>1, <2>3 DEF IInv, FiringOK
    <2> QED BY <2>2, <2>3
  <1>11. DoneHasNoPending' /\ RelativeFollowsDeadline'
    BY <1>2, <1>5 DEF IInv, DoneHasNoPending, RelativeFollowsDeadline, Pending, Relative
  <1> QED BY <1>7, <1>8, <1>9, <1>10, <1>11 DEF IInv

LEMMA TickStep == IInv /\ Tick => IInv'
  <1> SUFFICES ASSUME IInv, Tick PROVE IInv'
    OBVIOUS
  <1>1. /\ UNCHANGED <<task, reminder, session, claimed, inserted, marked, fired, faults>>
        /\ UNCHANGED <<late, adrift, revived>>
        /\ now \in Nat /\ now' = now + 1 /\ now' \in Time
    BY BoundsAssumption DEF Tick, batches, history, IInv, TypeOK, Time
  <1>2. TypeOK' /\ BatchesOK'
    BY <1>1 DEF IInv, TypeOK, BatchesOK
  <1>3. Locked' \subseteq Due'
    <2>1. \A r \in Reminder : reminder[r].trigger \in Int
      BY BoundsAssumption DEF IInv, TypeOK, ReminderRow, Trigger, Time
    <2> QED BY <1>1, <2>1 DEF IInv, ClaimedStaysDue, Locked, Due, Pending
  <1>4. SessionsOK'
    BY <1>1, SessionsStay DEF Pending, Relative, Exists
  <1>5. FiringOK' /\ DoneHasNoPending' /\ RelativeFollowsDeadline'
    BY <1>1 DEF IInv, FiringOK, DoneHasNoPending, RelativeFollowsDeadline, Pending, Relative
  <1> QED BY <1>1, <1>2, <1>3, <1>4, <1>5 DEF IInv, ClaimedStaysDue

LEMMA StutterStep == IInv /\ UNCHANGED vars => IInv'
  <1> SUFFICES ASSUME IInv, UNCHANGED vars PROVE IInv'
    OBVIOUS
  <1>1. /\ UNCHANGED <<task, reminder, session, claimed, inserted, marked, fired, faults, now>>
        /\ UNCHANGED <<late, adrift, revived>>
    BY DEF vars, batches, history
  <1>2. TypeOK' /\ BatchesOK' /\ ClaimedStaysDue'
    BY <1>1 DEF IInv, TypeOK, BatchesOK, ClaimedStaysDue, Locked, Due, Pending
  <1>3. SessionsOK'
    BY <1>1, SessionsStay DEF Pending, Relative, Exists
  <1>4. FiringOK' /\ DoneHasNoPending' /\ RelativeFollowsDeadline'
    BY <1>1 DEF IInv, FiringOK, DoneHasNoPending, RelativeFollowsDeadline, Pending, Relative
  <1> QED BY <1>2, <1>3, <1>4 DEF IInv

LEMMA InvStep == IInv /\ [Next]_vars => IInv'
  <1> SUFFICES ASSUME IInv, [Next]_vars PROVE IInv'
    OBVIOUS
  <1>1. ASSUME NEW s \in Session, TaskRequest(s) PROVE IInv'
    BY <1>1, BeginTaskStep, FindStep, GiveUpStep, ChangeTaskStep, ChangeTaskAndRemindersStep
       DEF TaskRequest
  <1>2. ASSUME NEW s \in Session, ReminderRequest(s) PROVE IInv'
    BY <1>2, BeginReminderStep, WriteReminderStep, DeleteReminderStep DEF ReminderRequest
  <1>3. ASSUME NEW s \in Session, Abandon(s) PROVE IInv'
    BY <1>3, GiveUpStep
  <1>4. ASSUME NEW p \in Scheduler, Poll(p) \/ RollbackBatch(p) PROVE IInv'
    BY <1>4, BatchStep, CommitStep DEF Poll
  <1> QED BY <1>1, <1>2, <1>3, <1>4, TickStep, StutterStep DEF Next

LEMMA Invariance == Spec => []IInv
  BY InitInv, InvStep, PTL DEF Spec

-----------------------------------------------------------------------------
(* Every reachable state of the rows, the requests and the batches is well *)
(* typed: a trigger is never computed from a deadline that is not there    *)
(* (RecalculateForDeadline), whatever overlaps.                            *)
THEOREM TypeCorrect == Spec => []TypeOK
  <1>1. IInv => TypeOK
    BY DEF IInv
  <1> QED BY <1>1, Invariance, PTL

(* Two schedulers never hold the same reminder, and what they hold is      *)
(* still pending and due when they fire it (ClaimDue and the locks of the  *)
(* requests' UPDATEs).                                                     *)
THEOREM ClaimsStayDue == Spec => []ClaimedStaysDue
  <1>1. IInv => ClaimedStaysDue
    BY DEF IInv
  <1> QED BY <1>1, Invariance, PTL

(* A batch inserts its events and marks its rows one by one and any of     *)
(* these steps may fail: what is marked sent still has an event for every  *)
(* time it was marked (NotificationProcessor.Process, the transaction of   *)
(* the runner).                                                            *)
THEOREM SentIsAnnounced == Spec => []SentHasEvent
  <1>1. IInv => SentHasEvent
    BY DEF IInv, FiringOK, SentHasEvent, TypeOK
  <1> QED BY <1>1, Invariance, PTL

(* ... and no reminder has a second event, unless an UpdateReminder that   *)
(* had read it as pending wrote PENDING over SENT.                         *)
THEOREM FiresOnce == Spec => []FiresAtMostOnce
  <1>1. IInv => FiresAtMostOnce
    BY DEF IInv, FiringOK, FiresAtMostOnce, TypeOK
  <1> QED BY <1>1, Invariance, PTL

(* With any number of overlapping requests, a pending reminder on a        *)
(* completed task was made pending by a request the completion overtook,   *)
(* or the completed row was written back from an older reading.            *)
THEOREM CompletionCancels == Spec => []DoneHasNoPending
  <1>1. IInv => DoneHasNoPending
    BY DEF IInv
  <1> QED BY <1>1, Invariance, PTL

(* With any number of overlapping requests, a pending relative reminder    *)
(* follows the deadline, unless it was written from a deadline that has    *)
(* been overtaken, or an older deadline was written back.                  *)
THEOREM RelativeRemindersFollow == Spec => []RelativeFollowsDeadline
  <1>1. IInv => RelativeFollowsDeadline
    BY DEF IInv
  <1> QED BY <1>1, Invariance, PTL

=============================================================================
