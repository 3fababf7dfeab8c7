----------------------------- MODULE ApiServer ------------------------------
(***************************************************************************)
(* The API process: its requests, the database connections they share, who *)
(* may do what to a task, and the way the process stops.                   *)
(*                                                                         *)
(* Every SQL statement outside a transaction takes a connection from the   *)
(* pool and gives it back; a transaction keeps one until it ends.  The     *)
(* permission check of a reassignment uses the pool even inside the        *)
(* transaction of UpdateTask, which then holds one connection and waits    *)
(* for another.                                                            *)
(*                                                                         *)
(* A request is here from its acceptance to its answer, behind the         *)
(* authentication; requests refused before they reach the database leave   *)
(* nothing behind and are left out.  The model follows one task; its title *)
(* and deadline, its archived flag and its reminders are left out, so      *)
(* "archive" stands for ArchiveTask and RestoreTask alike.                 *)
(***************************************************************************)
EXTENDS Integers, FiniteSets

CONSTANTS User, NoUser,
          NoTask,
          Request,       \* the requests of a behaviour
          Call,          \* what the clients of this instance ask for
          InitialTask,   \* what earlier processes left in the database
          Permission,    \* assignment_permissions: <<assigner, assignee>>
          MaxOpenConns

(* The table of tasks, as far as this module is concerned. *)
Row == [creator : User, assignee : User, done : BOOLEAN]

OnTask    == {"get", "update", "complete", "archive"}
Operation == OnTask \cup {"create", "list", "assigned", "created", "me", "assignable", "ready"}

(* An update that names no assignee changes the title. *)
CallType == [op : Operation, actor : User, assignee : User \cup {NoUser}]
NoCall   == [op |-> "none"]

ASSUME UserAssumption == NoUser \notin User /\ NoTask \notin Row
ASSUME CallAssumption == Call \subseteq CallType
ASSUME PermissionAssumption == Permission \subseteq User \X User
ASSUME PoolAssumption == MaxOpenConns \in Nat \ {0} /\ IsFiniteSet(Request)

CanAssign(assigner, assignee) == assigner = assignee \/ <<assigner, assignee>> \in Permission

ASSUME InitialTaskAssumption ==
    InitialTask \subseteq {t \in Row : CanAssign(t.creator, t.assignee)} \cup {NoTask}

VARIABLES phase,    \* of the process
          task,     \* the committed row
          seen,     \* history: who else than its creator was shown the task
          call,     \* what a request asks for, and its next statement
          at,
          row,      \* the row as a request has read it, changed in memory
          inTx,     \* the request holds the connection of its transaction
          own       \* and one for the statement it is about to run

request == <<call, at, row, inTx, own>>
vars    == <<phase, task, seen, request>>

Phase     == {"up", "unready", "draining", "closed", "killed"}
Statement == {"begin", "find", "check", "insert", "write", "commit", "assignees", "scan", "ping"}

Init ==
    /\ phase = "up"
    /\ task \in InitialTask
    /\ seen = {}
    /\ call = [r \in Request |-> NoCall]
    /\ at = [r \in Request |-> "new"]
    /\ row = [r \in Request |-> NoTask]
    /\ inTx = [r \in Request |-> FALSE]
    /\ own = [r \in Request |-> FALSE]

Active(r) == at[r] \in Statement

-----------------------------------------------------------------------------
(* The connection pool: sql.DB with SetMaxOpenConns. *)

(* The statement at hand goes through the pool: it is outside a            *)
(* transaction, or it is the permission check.                             *)
Waiting(r) == Active(r) /\ ~own[r] /\ (inTx[r] => at[r] = "check")

InUse == Cardinality({r \in Request : inTx[r]}) + Cardinality({r \in Request : own[r]})

Acquire(r) ==
    /\ Waiting(r)
    /\ InUse < MaxOpenConns
    /\ own' = [own EXCEPT ![r] = TRUE]
    /\ UNCHANGED <<phase, task, seen, call, at, row, inTx>>

Runs(r, statement) == at[r] = statement /\ ~Waiting(r)

GoesOn(r, statement) ==
    /\ at' = [at EXCEPT ![r] = statement]
    /\ own' = [own EXCEPT ![r] = FALSE]
    /\ UNCHANGED <<phase, seen, call>>

(* Mutant of Ends: a request that is refused leaves its transaction open. *)
EndsUnlessRefused(r, result) ==
    /\ at' = [at EXCEPT ![r] = "ended"]
    /\ call' = [call EXCEPT ![r] = NoCall]
    /\ row' = [row EXCEPT ![r] = NoTask]
    /\ inTx' = [inTx EXCEPT ![r] = @ /\ result = "forbidden"]
    /\ own' = [own EXCEPT ![r] = FALSE]
    /\ seen' = IF result = "task" THEN seen \cup ({call[r].actor} \ {task.creator}) ELSE seen
    /\ UNCHANGED phase

(* The request is answered, by the task itself or otherwise, and its       *)
(* transaction is committed or rolled back.                                *)
Ends(r, result) ==
    /\ at' = [at EXCEPT ![r] = "ended"]
    /\ call' = [call EXCEPT ![r] = NoCall]
    /\ row' = [row EXCEPT ![r] = NoTask]
    /\ inTx' = [inTx EXCEPT ![r] = FALSE]
    /\ own' = [own EXCEPT ![r] = FALSE]
    /\ seen' = IF result = "task" THEN seen \cup ({call[r].actor} \ {task.creator}) ELSE seen
    /\ UNCHANGED phase

-----------------------------------------------------------------------------
(* The operations *)

Assignee(c) == IF c.assignee = NoUser THEN c.actor ELSE c.assignee

(* The first statement of a request. *)
First(c) ==
    CASE c.op \in {"update", "complete"} -> "begin"
      [] c.op \in {"get", "archive"}     -> "find"
      [] c.op = "create" -> IF Assignee(c) = c.actor THEN "insert" ELSE "check"
      [] c.op = "assignable"             -> "assignees"
      [] c.op = "ready"                  -> "ping"
      [] OTHER                           -> "scan"

(* A probe is turned away by the readiness gate of a stopping process.     *)
(* While the server drains, a connection accepted before the listener was  *)
(* closed may still bring its first request.                               *)
Accept(r, c) ==
    /\ phase = "up" \/ (phase \in {"unready", "draining"} /\ c.op # "ready")
    /\ at[r] = "new"
    /\ call' = [call EXCEPT ![r] = c]
    /\ at' = [at EXCEPT ![r] = First(c)]
    /\ UNCHANGED <<phase, task, seen, row, inTx, own>>

Begin(r) ==
    /\ Runs(r, "begin")
    /\ inTx' = [inTx EXCEPT ![r] = TRUE]
    /\ GoesOn(r, "find")
    /\ UNCHANGED <<task, row>>

(* Mutant of MayTouch: whoever knows the task's id may read it. *)
MayTouchToRead(c, t) ==
    CASE c.op = "get"      -> TRUE
      [] c.op = "complete" -> c.actor = t.assignee
      [] OTHER             -> c.actor = t.creator

MayTouch(c, t) ==
    CASE c.op = "get"      -> c.actor \in {t.creator, t.assignee}
      [] c.op = "complete" -> c.actor = t.assignee
      [] OTHER             -> c.actor = t.creator

(* The row that will be written. *)
Changed(c, t) ==
    CASE c.op = "complete" -> [t EXCEPT !.done = TRUE]
      [] c.op = "update" /\ c.assignee # NoUser -> [t EXCEPT !.assignee = c.assignee]
      [] OTHER -> t

(* Mutant of NeedsCheck: the creator's reassignments are not checked. *)
NeedsNoCheck(c, t) == FALSE

NeedsCheck(c, t) == c.op = "update" /\ c.assignee \notin {NoUser, t.assignee, c.actor}

FindToChange(r) ==
    /\ Runs(r, "find")
    /\ task # NoTask
    /\ MayTouch(call[r], task)
    /\ call[r].op \in {"update", "archive"} \/ (call[r].op = "complete" /\ ~task.done)
    /\ ~(call[r].op = "update" /\ call[r].assignee = task.assignee)
    /\ row' = [row EXCEPT ![r] = Changed(call[r], task)]
    /\ GoesOn(r, IF NeedsCheck(call[r], task) THEN "check" ELSE "write")
    /\ UNCHANGED <<task, inTx>>

(* The requests that end with what they have found. *)
FindOnly(r) ==
    /\ Runs(r, "find")
    /\ \/ task = NoTask /\ Ends(r, "not found")
       \/ /\ task # NoTask
          /\ \/ ~MayTouch(call[r], task) /\ Ends(r, "forbidden")
             \/ /\ MayTouch(call[r], task)
                /\ \/ call[r].op = "get" /\ Ends(r, "task")
                   \/ call[r].op = "complete" /\ task.done /\ Ends(r, "conflict")
                   \/ /\ call[r].op = "update" /\ call[r].assignee = task.assignee
                      /\ Ends(r, "task")
    /\ UNCHANGED task

Check(r) ==
    /\ Runs(r, "check")
    /\ \/ /\ CanAssign(call[r].actor, Assignee(call[r]))
          /\ GoesOn(r, IF call[r].op = "create" THEN "insert" ELSE "write")
          /\ UNCHANGED <<row, inTx>>
       \/ /\ ~CanAssign(call[r].actor, Assignee(call[r]))
          /\ Ends(r, "forbidden")
    /\ UNCHANGED task

(* A second task is not followed. *)
Insert(r) ==
    /\ Runs(r, "insert")
    /\ task' = IF task = NoTask
               THEN [creator |-> call[r].actor, assignee |-> Assignee(call[r]), done |-> FALSE]
               ELSE task
    /\ Ends(r, "ok")

(* A transaction that has written keeps the row locked. *)
RowLocked == \E r \in Request : at[r] = "commit"

(* The whole row is written as it was read.  Outside a transaction it is   *)
(* then read back by another statement.                                    *)
Write(r) ==
    /\ Runs(r, "write")
    /\ ~RowLocked
    /\ IF inTx[r] THEN GoesOn(r, "commit") /\ UNCHANGED <<task, row>>
       ELSE /\ task' = row[r]
            /\ row' = [row EXCEPT ![r] = NoTask]
            /\ GoesOn(r, "scan")
    /\ UNCHANGED inTx

Commit(r) ==
    /\ Runs(r, "commit")
    /\ task' = row[r]
    /\ Ends(r, "task")

(* Whether the rows selected at the end include the task. *)
Shows(c) ==
    /\ task # NoTask
    /\ CASE c.op = "list"     -> c.actor \in {task.creator, task.assignee}
         [] c.op = "assigned" -> c.actor = task.assignee
         [] c.op = "created"  -> c.actor = task.creator
         [] OTHER             -> c.op = "archive"

Assignees(r) ==
    /\ Runs(r, "assignees")
    /\ GoesOn(r, "scan")
    /\ UNCHANGED <<task, row, inTx>>

Scan(r) ==
    /\ Runs(r, "scan")
    /\ Ends(r, IF Shows(call[r]) THEN "task" ELSE "ok")
    /\ UNCHANGED task

Ping(r) ==
    /\ Runs(r, "ping")
    /\ Ends(r, "ok")
    /\ UNCHANGED task

-----------------------------------------------------------------------------
(* What cuts a request short *)

(* A probe gives up after two seconds. *)
PingFails(r) ==
    /\ at[r] = "ping"
    /\ Ends(r, "unavailable")
    /\ UNCHANGED task

(* The client hangs up, a statement fails, or the reminders refuse the new *)
(* deadline: a transaction is rolled back.                                 *)
Abandon(r) ==
    /\ Active(r)
    /\ Ends(r, "failed")
    /\ UNCHANGED task

(* SIGTERM: first the readiness gate, then the listener is closed. *)
MarkShuttingDown ==
    /\ phase = "up"
    /\ phase' = "unready"
    /\ UNCHANGED <<task, seen, request>>

CloseListener ==
    /\ phase = "unready"
    /\ phase' = "draining"
    /\ UNCHANGED <<task, seen, request>>

CloseDatabase ==
    /\ phase = "draining"
    /\ \A r \in Request : ~Active(r)
    /\ phase' = "closed"
    /\ UNCHANGED <<task, seen, request>>

(* Mutant of ShutdownTimeout: the server waits as long as it takes. *)
NoTimeout == FALSE /\ UNCHANGED vars

(* Ten seconds have passed: the process exits with its requests. *)
ShutdownTimeout ==
    /\ phase = "draining"
    /\ \E r \in Request : Active(r)
    /\ phase' = "killed"
    /\ at' = [r \in Request |-> "ended"]
    /\ call' = [r \in Request |-> NoCall]
    /\ row' = [r \in Request |-> NoTask]
    /\ inTx' = [r \in Request |-> FALSE]
    /\ own' = [r \in Request |-> FALSE]
    /\ UNCHANGED <<task, seen>>

Run(r) ==
    \/ Begin(r) \/ FindToChange(r) \/ FindOnly(r) \/ Check(r) \/ Insert(r)
    \/ Write(r) \/ Commit(r) \/ Assignees(r) \/ Scan(r) \/ Ping(r)

Stop == CloseListener \/ CloseDatabase \/ ShutdownTimeout

Next ==
    \/ \E r \in Request :
          \/ \E c \in Call : Accept(r, c)
          \/ Acquire(r) \/ Run(r) \/ PingFails(r) \/ Abandon(r)
    \/ MarkShuttingDown \/ Stop

Spec == Init /\ [][Next]_vars

(* A free connection goes to a waiting request, statements end, a probe     *)
(* gives up.  Clients need not hang up, and nobody need stop the process.   *)
Fairness ==
    /\ \A r \in Request : WF_vars(Acquire(r)) /\ WF_vars(Run(r)) /\ WF_vars(PingFails(r))
    /\ WF_vars(Stop)

FairSpec == Spec /\ Fairness

-----------------------------------------------------------------------------
(* Properties *)

TypeOK ==
    /\ phase \in Phase
    /\ task \in Row \cup {NoTask}
    /\ seen \subseteq User
    /\ call \in [Request -> Call \cup {NoCall}]
    /\ at \in [Request -> Statement \cup {"new", "ended"}]
    /\ row \in [Request -> Row \cup {NoTask}]
    /\ inTx \in [Request -> BOOLEAN]
    /\ own \in [Request -> BOOLEAN]

(* The pool never opens more connections than it may, and whichever way a  *)
(* request ends, also refused inside its transaction, it gives back both.  *)
ConnectionsAreBounded ==
    /\ InUse <= MaxOpenConns
    /\ \A r \in Request : ~Active(r) => ~inTx[r] /\ ~own[r]

(* However reassignments race with requests that write back an older row,  *)
(* a task is assigned to its creator or to someone its creator may assign. *)
AssigneesArePermitted == task # NoTask => CanAssign(task.creator, task.assignee)

(* A user whom the creator may not assign is shown the task by no request  *)
(* and changes it by none: an answer carries the task then.                *)
OutsidersSeeNothing ==
    \A u \in seen : task # NoTask /\ CanAssign(task.creator, u)

(* The transactions that hold a connection and wait for another. *)
Starving == {r \in Request : inTx[r] /\ Waiting(r)}

(* Nobody gets a connection any more: all of them belong to UpdateTasks    *)
(* that wait for their permission check.                                   *)
Exhausted == Cardinality(Starving) = MaxOpenConns

(* That is the only way in which requests wait for each other for ever: an *)
(* accepted request is answered, or the pool is exhausted and stays so.    *)
EveryRequestEnds ==
    \A r \in Request : Active(r) ~> (at[r] = "ended" \/ []Exhausted)

(* A process that exits in good order has answered all it accepted.        *)
ClosedWhenIdle == phase = "closed" => \A r \in Request : ~Active(r)

(* SIGTERM stops the process, also one whose pool is exhausted.            *)
StopsInTime == phase = "unready" ~> phase \in {"closed", "killed"}
=============================================================================
