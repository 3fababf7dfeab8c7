-------------------------- MODULE ApiServerProofs ---------------------------
(***************************************************************************)
(* Proofs about ApiServer, for any users, permissions, calls, requests and *)
(* size of the pool.  The invariant has three parts that are proved one    *)
(* after the other: where a request can be and what it then is (TypeInv),  *)
(* who may be given and shown the task (TaskInv), and the connections.     *)
(***************************************************************************)
EXTENDS ApiServer, FiniteSetTheorems, TLAPS

(* Where a request is, by what it asks for. *)
Position(r) ==
    /\ Active(r) => call[r] \in Call
    /\ ~Active(r) => ~inTx[r] /\ ~own[r]
    /\ at[r] = "begin" => ~inTx[r]
    /\ at[r] \in {"begin", "find", "write", "commit"} => call[r].op \in OnTask
    /\ at[r] = "check" => call[r].op \in {"create", "update"}
    /\ at[r] = "insert" => CanAssign(call[r].actor, Assignee(call[r]))
    /\ at[r] = "assignees" => call[r].op = "assignable"

TypeInv == TypeOK /\ \A r \in Request : Position(r)

-----------------------------------------------------------------------------
(* Type correctness *)

LEMMA InitType == Init => TypeInv
  BY InitialTaskAssumption
  DEF Init, TypeInv, TypeOK, Position, Active, Statement, Phase, Row

(* The end of a request keeps the types, whatever becomes of the task. *)
LEMMA EndsKeepsType ==
    ASSUME TypeInv, NEW r \in Request, NEW result, Active(r), Ends(r, result),
           task' \in Row \cup {NoTask}
    PROVE  TypeInv'
  <1>1. call[r].actor \in User
    BY CallAssumption DEF TypeInv, Position, CallType
  <1>2. TypeOK'
    BY <1>1 DEF TypeInv, TypeOK, Ends
  <1>3. ASSUME NEW q \in Request PROVE Position(q)'
    <2>1. CASE q = r
      BY <2>1 DEF TypeInv, TypeOK, Ends, Position, Active, Statement
    <2>2. CASE q # r
      <3>1. UNCHANGED <<call[q], at[q], inTx[q], own[q]>>
        BY <2>2 DEF TypeInv, TypeOK, Ends
      <3>. QED  BY <3>1 DEF TypeInv, Position, Active
    <2>. QED  BY <2>1, <2>2
  <1>. QED  BY <1>2, <1>3 DEF TypeInv

(* So does the way to a next statement. *)
LEMMA GoesOnKeepsType ==
    ASSUME TypeInv, NEW r \in Request, NEW statement \in Statement, Active(r),
           GoesOn(r, statement),
           task' \in Row \cup {NoTask},
           row' \in [Request -> Row \cup {NoTask}],
           inTx' = inTx \/ inTx' = [inTx EXCEPT ![r] = TRUE],
           statement # "begin",
           statement \in {"find", "write", "commit"} => call[r].op \in OnTask,
           statement = "check" => call[r].op \in {"create", "update"},
           statement = "insert" => CanAssign(call[r].actor, Assignee(call[r])),
           statement # "assignees"
    PROVE  TypeInv'
  <1>1. TypeOK'
    BY DEF TypeInv, TypeOK, GoesOn
  <1>2. ASSUME NEW q \in Request PROVE Position(q)'
    <2>1. CASE q = r
      <3>1. at'[q] = statement /\ call' = call
        BY <2>1 DEF TypeInv, TypeOK, GoesOn
      <3>. QED  BY <2>1, <3>1 DEF TypeInv, Position, Active, CanAssign, Assignee
    <2>2. CASE q # r
      <3>1. UNCHANGED <<call[q], at[q], inTx[q], own[q]>>
        BY <2>2 DEF TypeInv, TypeOK, GoesOn
      <3>. QED  BY <3>1 DEF TypeInv, Position, Active
    <2>. QED  BY <2>1, <2>2
  <1>. QED  BY <1>1, <1>2 DEF TypeInv

(* A transaction begins where none was open. *)
LEMMA TxStart ==
    ASSUME TypeInv, NEW r \in Request, Begin(r), call[r].op \in OnTask
    PROVE  TypeInv'
  <1>1. Active(r) /\ inTx' = [inTx EXCEPT ![r] = TRUE] /\ UNCHANGED <<task, row>>
    BY DEF Begin, Runs, Active, Statement
  <1>2. task \in Row \cup {NoTask} /\ row \in [Request -> Row \cup {NoTask}]
    BY DEF TypeInv, TypeOK
  <1>. QED  BY <1>1, <1>2, GoesOnKeepsType DEF Begin, Statement

LEMMA ChangedIsRow ==
    ASSUME NEW c \in CallType, NEW t \in Row PROVE Changed(c, t) \in Row
  BY DEF Changed, CallType, Row

LEMMA TypeStep == TypeInv /\ [Next]_vars => TypeInv'
  <1>. SUFFICES ASSUME TypeInv, [Next]_vars PROVE TypeInv'
    OBVIOUS
  <1>1. ASSUME NEW r \in Request, NEW c \in Call, Accept(r, c) PROVE TypeInv'
    <2>1. c \in CallType
      BY CallAssumption
    <2>2. First(c) \in Statement
      BY <2>1 DEF First, Statement, CallType, Operation, OnTask
    <2>3. First(c) \notin {"write", "commit"}
      BY <2>1 DEF First, CallType, Operation, OnTask
    <2>4. /\ First(c) \in {"begin", "find"} => c.op \in OnTask
          /\ First(c) = "check" => c.op \in {"create", "update"}
          /\ First(c) = "insert" => CanAssign(c.actor, Assignee(c))
          /\ First(c) = "assignees" => c.op = "assignable"
      BY <2>1 DEF First, CallType, Operation, OnTask, CanAssign
    <2>5. TypeOK'
      BY <1>1, <2>2 DEF TypeInv, TypeOK, Accept
    <2>6. ASSUME NEW q \in Request PROVE Position(q)'
      <3>1. CASE q = r
        <4>1. at'[q] = First(c) /\ call'[q] = c /\ UNCHANGED <<inTx, own>>
          BY <1>1, <3>1 DEF TypeInv, TypeOK, Accept
        <4>2. ~inTx[q] /\ ~own[q]
          BY <1>1, <3>1 DEF TypeInv, Position, Active, Statement, Accept
        <4>. QED  BY <4>1, <4>2, <2>2, <2>3, <2>4 DEF Position, Active, CanAssign, Assignee
      <3>2. CASE q # r
        <4>1. UNCHANGED <<call[q], at[q], inTx[q], own[q]>>
          BY <1>1, <3>2 DEF TypeInv, TypeOK, Accept
        <4>. QED  BY <4>1 DEF TypeInv, Position, Active
      <3>. QED  BY <3>1, <3>2
    <2>. QED  BY <2>5, <2>6 DEF TypeInv
  <1>2. ASSUME NEW r \in Request, Acquire(r) PROVE TypeInv'
    <2>1. TypeOK'
      BY <1>2 DEF TypeInv, TypeOK, Acquire
    <2>2. ASSUME NEW q \in Request PROVE Position(q)'
      BY <1>2 DEF TypeInv, TypeOK, Acquire, Waiting, Position, Active
    <2>. QED  BY <2>1, <2>2 DEF TypeInv
  <1>3. ASSUME NEW r \in Request, Run(r) PROVE TypeInv'
    <2>0. /\ Active(r) /\ call[r] \in CallType /\ Position(r)
          /\ task \in Row \cup {NoTask} /\ row \in [Request -> Row \cup {NoTask}]
          /\ row[r] \in Row \cup {NoTask}
      BY <1>3, CallAssumption
      DEF Run, Begin, FindToChange, FindOnly, Check, Insert, Write, Commit, Assignees,
          Scan, Ping, Runs, Active, Statement, TypeInv, TypeOK, Position
    <2>1. CASE Begin(r)
      BY <2>0, <2>1, TxStart DEF Begin, Runs, Position
    <2>2. CASE FindToChange(r)
      <3>1. task \in Row /\ Changed(call[r], task) \in Row
        BY <2>0, <2>2, ChangedIsRow DEF FindToChange
      <3>2. row' \in [Request -> Row \cup {NoTask}] /\ task' = task /\ inTx' = inTx
        BY <2>0, <2>2, <3>1 DEF FindToChange
      <3>3. call[r].op \in OnTask /\ call[r].op \in {"update", "archive", "complete"}
        BY <2>0, <2>2 DEF FindToChange, Position, Runs
      <3>4. NeedsCheck(call[r], task) => call[r].op = "update"
        BY DEF NeedsCheck
      <3>. DEFINE to == IF NeedsCheck(call[r], task) THEN "check" ELSE "write"
      <3>5. to \in {"check", "write"} /\ (to = "check" => call[r].op = "update")
        BY <3>4
      <3>6. GoesOn(r, to)
        BY <2>2 DEF FindToChange
      <3>. HIDE DEF to
      <3>. QED  BY <2>0, <3>2, <3>3, <3>5, <3>6, GoesOnKeepsType DEF Statement
    <2>3. CASE FindOnly(r)
      <3>1. \E result : Ends(r, result)
        BY <2>3 DEF FindOnly
      <3>. QED  BY <2>0, <2>3, <3>1, EndsKeepsType DEF FindOnly
    <2>4. CASE Check(r)
      <3>1. CASE Ends(r, "forbidden")
        BY <2>0, <2>4, <3>1, EndsKeepsType DEF Check
      <3>2. CASE ~Ends(r, "forbidden")
        <4>1. /\ CanAssign(call[r].actor, Assignee(call[r]))
              /\ GoesOn(r, IF call[r].op = "create" THEN "insert" ELSE "write")
              /\ UNCHANGED <<row, inTx, task>>
          BY <2>4, <3>2 DEF Check
        <4>2. call[r].op \in {"create", "update"}
          BY <2>0, <2>4 DEF Check, Position, Runs
        <4>3. CASE call[r].op = "create"
          BY <2>0, <4>1, <4>3, GoesOnKeepsType DEF Statement
        <4>4. CASE call[r].op = "update"
          BY <2>0, <4>1, <4>4, GoesOnKeepsType DEF Statement, OnTask
        <4>. QED  BY <4>2, <4>3, <4>4
      <3>. QED  BY <3>1, <3>2
    <2>5. CASE Insert(r)
      <3>1. Position(r) /\ call[r].actor \in User /\ Assignee(call[r]) \in User
        BY <2>0 DEF CallType, Assignee
      <3>2. task' \in Row \cup {NoTask}
        BY <2>0, <2>5, <3>1 DEF Insert, Row
      <3>. QED  BY <2>0, <2>5, <3>2, EndsKeepsType DEF Insert
    <2>6. CASE Write(r)
      <3>1. call[r].op \in OnTask
        BY <2>0, <2>6 DEF Write, Position, Runs
      <3>2. CASE inTx[r]
        BY <2>0, <2>6, <3>1, <3>2, GoesOnKeepsType DEF Write, Statement
      <3>3. CASE ~inTx[r]
        <4>1. task' = row[r] /\ row' = [row EXCEPT ![r] = NoTask] /\ GoesOn(r, "scan")
              /\ inTx' = inTx
          BY <2>6, <3>3 DEF Write
        <4>2. row' \in [Request -> Row \cup {NoTask}]
          BY <2>0, <4>1
        <4>. QED  BY <2>0, <4>1, <4>2, GoesOnKeepsType DEF Statement
      <3>. QED  BY <3>2, <3>3
    <2>7. CASE Commit(r)
      BY <2>0, <2>7, EndsKeepsType DEF Commit
    <2>8. CASE Assignees(r)
      BY <2>0, <2>8, GoesOnKeepsType DEF Assignees, Statement
    <2>9. CASE Scan(r)
      BY <2>0, <2>9, EndsKeepsType DEF Scan
    <2>10. CASE Ping(r)
      BY <2>0, <2>10, EndsKeepsType DEF Ping
    <2>. QED
      BY <1>3, <2>1, <2>2, <2>3, <2>4, <2>5, <2>6, <2>7, <2>8, <2>9, <2>10 DEF Run
  <1>4. ASSUME NEW r \in Request, PingFails(r) \/ Abandon(r) PROVE TypeInv'
    <2>1. Active(r) /\ task' = task /\ task \in Row \cup {NoTask}
      BY <1>4 DEF PingFails, Abandon, Active, Statement, TypeInv, TypeOK
    <2>2. \E result : Ends(r, result)
      BY <1>4 DEF PingFails, Abandon
    <2>. QED  BY <2>1, <2>2, EndsKeepsType
  <1>5. CASE MarkShuttingDown \/ CloseListener \/ CloseDatabase \/ UNCHANGED vars
    BY <1>5
    DEF MarkShuttingDown, CloseListener, CloseDatabase, vars, request, TypeInv, TypeOK,
        Phase, Position, Active
  <1>6. CASE ShutdownTimeout
    BY <1>6 DEF ShutdownTimeout, TypeInv, TypeOK, Phase, Position, Active, Statement
  <1>. QED
    BY <1>1, <1>2, <1>3, <1>4, <1>5, <1>6 DEF Next, Stop

(* Every reachable state of the process, its requests and the task is well *)
(* typed.                                                                  *)
THEOREM TypeCorrect == Spec => []TypeOK
  <1>1. TypeInv => TypeOK
    BY DEF TypeInv
  <1>. QED  BY <1>1, InitType, TypeStep, PTL DEF Spec

-----------------------------------------------------------------------------
(* Who may be assigned the task and who is shown it.  A request that has   *)
(* read the task relies on nothing but its creator, who never changes:     *)
(* what it will write and whom it will answer are permitted, whatever      *)
(* others write in between.                                                *)
Permitted(r) ==
    /\ at[r] \in {"write", "commit"} =>
          /\ task # NoTask /\ row[r] # NoTask
          /\ row[r].creator = task.creator
          /\ CanAssign(task.creator, row[r].assignee)
          /\ CanAssign(task.creator, call[r].actor)
    /\ at[r] = "check" /\ call[r].op = "update" =>
          /\ task # NoTask /\ row[r] # NoTask
          /\ row[r].creator = task.creator
          /\ row[r].assignee = Assignee(call[r])
          /\ call[r].actor = task.creator
    /\ at[r] = "scan" /\ call[r].op = "archive" =>
          task # NoTask /\ CanAssign(task.creator, call[r].actor)

TaskInv ==
    /\ TypeInv
    /\ AssigneesArePermitted
    /\ OutsidersSeeNothing
    /\ \A r \in Request : Permitted(r)

(* What becomes of the task once it is there. *)
Keeps == task # NoTask => task' # NoTask /\ task'.creator = task.creator

LEMMA OthersStayPermitted ==
    ASSUME TaskInv, Keeps, NEW q \in Request, UNCHANGED <<call[q], at[q], row[q]>>
    PROVE  Permitted(q)'
  BY DEF TaskInv, Keeps, Permitted, CanAssign, Assignee

(* The end of a request that shows the task to nobody it may not. *)
LEMMA EndsKeepsTask ==
    ASSUME TaskInv, TypeInv', NEW r \in Request, NEW result, Active(r), Ends(r, result),
           Keeps, AssigneesArePermitted',
           result = "task" => task # NoTask /\ CanAssign(task.creator, call[r].actor)
    PROVE  TaskInv'
  <1>1. OutsidersSeeNothing'
    <2>1. seen' \subseteq seen \cup {u \in User : task # NoTask /\ CanAssign(task.creator, u)}
      <3>1. call[r].actor \in User
        BY CallAssumption DEF TaskInv, TypeInv, Position, CallType
      <3>. QED  BY <3>1 DEF Ends
    <2>. QED  BY <2>1 DEF TaskInv, OutsidersSeeNothing, Keeps, CanAssign
  <1>2. ASSUME NEW q \in Request PROVE Permitted(q)'
    <2>1. CASE q = r
      BY <2>1 DEF TaskInv, TypeInv, TypeOK, Ends, Permitted
    <2>2. CASE q # r
      <3>1. UNCHANGED <<call[q], at[q], row[q]>>
        BY <2>2 DEF TaskInv, TypeInv, TypeOK, Ends
      <3>. QED  BY <3>1, OthersStayPermitted
    <2>. QED  BY <2>1, <2>2
  <1>. QED  BY <1>1, <1>2 DEF TaskInv

LEMMA GoesOnKeepsTask ==
    ASSUME TaskInv, TypeInv', NEW r \in Request, NEW statement \in Statement,
           GoesOn(r, statement), Keeps, AssigneesArePermitted', Permitted(r)',
           \A q \in Request \ {r} : row'[q] = row[q]
    PROVE  TaskInv'
  <1>1. OutsidersSeeNothing'
    BY DEF TaskInv, OutsidersSeeNothing, Keeps, GoesOn, CanAssign
  <1>2. ASSUME NEW q \in Request, q # r PROVE Permitted(q)'
    <2>1. UNCHANGED <<call[q], at[q], row[q]>>
      BY <1>2 DEF TaskInv, TypeInv, TypeOK, GoesOn
    <2>. QED  BY <2>1, OthersStayPermitted
  <1>. QED  BY <1>1, <1>2 DEF TaskInv

LEMMA InitTask == Init => TaskInv
  <1>. SUFFICES ASSUME Init PROVE TaskInv
    OBVIOUS
  <1>1. TypeInv
    BY InitType
  <1>2. AssigneesArePermitted /\ OutsidersSeeNothing
    BY InitialTaskAssumption DEF Init, AssigneesArePermitted, OutsidersSeeNothing
  <1>3. \A r \in Request : Permitted(r)
    BY DEF Init, Permitted
  <1>. QED  BY <1>1, <1>2, <1>3 DEF TaskInv

LEMMA TaskStep == TaskInv /\ [Next]_vars => TaskInv'
  <1>. SUFFICES ASSUME TaskInv, [Next]_vars PROVE TaskInv'
    OBVIOUS
  <1>0. TypeInv /\ TypeInv' /\ AssigneesArePermitted
    BY TypeStep DEF TaskInv
  <1>1. ASSUME NEW r \in Request, NEW c \in Call, Accept(r, c) PROVE TaskInv'
    <2>1. c \in CallType
      BY CallAssumption
    <2>2. First(c) \notin {"write", "commit"} /\ (First(c) = "check" => c.op = "create")
          /\ (First(c) = "scan" => c.op # "archive")
      BY <2>1 DEF First, CallType, Operation, OnTask
    <2>3. AssigneesArePermitted' /\ OutsidersSeeNothing' /\ Keeps
      BY <1>1 DEF TaskInv, Accept, AssigneesArePermitted, OutsidersSeeNothing, Keeps, CanAssign
    <2>4. ASSUME NEW q \in Request PROVE Permitted(q)'
      <3>1. CASE q = r
        <4>1. at'[q] = First(c) /\ call'[q] = c
          BY <1>0, <1>1, <3>1 DEF TypeInv, TypeOK, Accept
        <4>. QED  BY <4>1, <2>2 DEF Permitted
      <3>2. CASE q # r
        <4>1. UNCHANGED <<call[q], at[q], row[q]>>
          BY <1>0, <1>1, <3>2 DEF TypeInv, TypeOK, Accept
        <4>. QED  BY <4>1, <2>3, OthersStayPermitted
      <3>. QED  BY <3>1, <3>2
    <2>. QED  BY <1>0, <2>3, <2>4 DEF TaskInv
  <1>2. ASSUME UNCHANGED <<task, seen, call, at, row>> PROVE TaskInv'
    <2>1. AssigneesArePermitted' /\ OutsidersSeeNothing' /\ Keeps
      BY <1>2 DEF TaskInv, AssigneesArePermitted, OutsidersSeeNothing, Keeps, CanAssign
    <2>2. \A q \in Request : Permitted(q)'
      BY <1>2, <2>1, OthersStayPermitted
    <2>. QED  BY <1>0, <2>1, <2>2 DEF TaskInv
  <1>3. ASSUME NEW r \in Request, Run(r) PROVE TaskInv'
    <2>0. /\ Active(r) /\ call[r] \in CallType /\ Position(r) /\ Permitted(r)
          /\ task \in Row \cup {NoTask} /\ row \in [Request -> Row \cup {NoTask}]
          /\ row[r] \in Row \cup {NoTask} /\ at \in [Request -> Statement \cup {"new", "ended"}]
      BY <1>3, <1>0, CallAssumption
      DEF Run, Begin, FindToChange, FindOnly, Check, Insert, Write, Commit, Assignees,
          Scan, Ping, Runs, Active, Statement, TypeInv, TypeOK, Position, TaskInv
    <2>01. ASSUME task' = task PROVE Keeps /\ AssigneesArePermitted'
      BY <1>0, <2>01 DEF Keeps, AssigneesArePermitted, CanAssign
    <2>02. ASSUME NEW statement, GoesOn(r, statement)
           PROVE  at'[r] = statement /\ call'[r] = call[r]
      BY <2>0, <2>02 DEF GoesOn
    <2>1. CASE Begin(r)
      <3>1. Permitted(r)'
        BY <2>1, <2>02 DEF Begin, Permitted
      <3>. QED  BY <1>0, <2>0, <2>1, <2>01, <3>1, GoesOnKeepsTask DEF Begin, Statement
    <2>2. CASE FindToChange(r)
      <3>1. /\ task # NoTask /\ task \in Row /\ task' = task
            /\ MayTouch(call[r], task)
            /\ call[r].op \in {"update", "archive", "complete"}
            /\ ~(call[r].op = "update" /\ call[r].assignee = task.assignee)
            /\ row' = [row EXCEPT ![r] = Changed(call[r], task)]
        BY <2>0, <2>2 DEF FindToChange
      <3>2. /\ row'[r] = Changed(call[r], task)
            /\ row'[r].creator = task.creator /\ row'[r] \in Row
            /\ \A q \in Request \ {r} : row'[q] = row[q]
        BY <2>0, <3>1, ChangedIsRow DEF Changed, Row
      <3>3. CanAssign(task.creator, task.assignee)
        BY <1>0, <3>1 DEF AssigneesArePermitted
      <3>4. CanAssign(task.creator, call[r].actor)
        BY <3>1, <3>3 DEF MayTouch, CanAssign
      <3>5. CASE NeedsCheck(call[r], task)
        <4>1. GoesOn(r, "check") /\ at'[r] = "check" /\ call'[r] = call[r]
          BY <2>2, <2>02, <3>5 DEF FindToChange
        <4>2. /\ call[r].op = "update" /\ call[r].actor = task.creator
              /\ row'[r].assignee = Assignee(call[r])
          BY <2>0, <3>1, <3>2, <3>5 DEF NeedsCheck, MayTouch, Changed, Row, Assignee
        <4>3. row'[r] # NoTask
          BY <3>2, UserAssumption
        <4>4. Permitted(r)'
          BY <3>1, <3>2, <4>1, <4>2, <4>3 DEF Permitted, Assignee
        <4>. QED  BY <1>0, <2>0, <2>01, <3>1, <3>2, <4>1, <4>4, GoesOnKeepsTask DEF Statement
      <3>6. CASE ~NeedsCheck(call[r], task)
        <4>1. GoesOn(r, "write") /\ at'[r] = "write" /\ call'[r] = call[r]
          BY <2>2, <2>02, <3>6 DEF FindToChange
        <4>2. CanAssign(task.creator, row'[r].assignee)
          <5>1. CASE call[r].op = "update" /\ call[r].assignee # NoUser
            BY <2>0, <3>1, <3>2, <3>6, <5>1 DEF NeedsCheck, MayTouch, Changed, Row, CanAssign
          <5>2. CASE ~(call[r].op = "update" /\ call[r].assignee # NoUser)
            BY <2>0, <3>1, <3>2, <3>3, <5>2 DEF Changed, Row
          <5>. QED  BY <5>1, <5>2
        <4>3. row'[r] # NoTask
          BY <3>2, UserAssumption
        <4>4. Permitted(r)'
          BY <3>1, <3>2, <3>4, <4>1, <4>2, <4>3 DEF Permitted, CanAssign
        <4>. QED  BY <1>0, <2>0, <2>01, <3>1, <3>2, <4>1, <4>4, GoesOnKeepsTask DEF Statement
      <3>. QED  BY <3>5, <3>6
    <2>3. CASE FindOnly(r)
      <3>0. \/ Ends(r, "not found") \/ Ends(r, "forbidden") \/ Ends(r, "conflict")
            \/ Ends(r, "task") /\ task # NoTask /\ MayTouch(call[r], task)
        BY <2>3 DEF FindOnly
      <3>1. PICK result \in {"not found", "forbidden", "conflict", "task"} :
               /\ Ends(r, result) /\ task' = task
               /\ result = "task" => task # NoTask /\ MayTouch(call[r], task)
        BY <2>3, <3>0 DEF FindOnly
      <3>2. result = "task" => CanAssign(task.creator, call[r].actor)
        BY <1>0, <3>1 DEF MayTouch, AssigneesArePermitted, CanAssign
      <3>. QED  BY <1>0, <2>0, <2>01, <3>1, <3>2, EndsKeepsTask
    <2>4. CASE Check(r)
      <3>1. CASE Ends(r, "forbidden")
        BY <1>0, <2>0, <2>01, <2>4, <3>1, EndsKeepsTask DEF Check
      <3>2. CASE ~Ends(r, "forbidden")
        <4>1. /\ CanAssign(call[r].actor, Assignee(call[r]))
              /\ GoesOn(r, IF call[r].op = "create" THEN "insert" ELSE "write")
              /\ task' = task /\ row' = row
              /\ call[r].op \in {"create", "update"} /\ at[r] = "check"
          BY <2>0, <2>4, <3>2 DEF Check, Position, Runs
        <4>2. CASE call[r].op = "create"
          <5>1. Permitted(r)'
            BY <2>02, <4>1, <4>2 DEF Permitted
          <5>. QED  BY <1>0, <2>01, <4>1, <4>2, <5>1, GoesOnKeepsTask DEF Statement
        <4>3. CASE call[r].op = "update"
          <5>1. Permitted(r)'
            BY <2>0, <2>02, <4>1, <4>3 DEF Permitted, CanAssign
          <5>. QED  BY <1>0, <2>01, <4>1, <4>3, <5>1, GoesOnKeepsTask DEF Statement
        <4>. QED  BY <4>1, <4>2, <4>3
      <3>. QED  BY <3>1, <3>2
    <2>5. CASE Insert(r)
      <3>1. CanAssign(call[r].actor, Assignee(call[r]))
        BY <2>0, <2>5 DEF Insert, Runs, Position
      <3>2. Keeps /\ AssigneesArePermitted'
        BY <1>0, <2>5, <3>1 DEF Insert, Keeps, AssigneesArePermitted, CanAssign
      <3>. QED  BY <1>0, <2>0, <2>5, <3>2, EndsKeepsTask DEF Insert
    <2>6. CASE Write(r)
      <3>0. at[r] = "write" /\ call[r].op \in OnTask
        BY <2>0, <2>6 DEF Write, Runs, Position
      <3>1. CASE inTx[r]
        <4>1. GoesOn(r, "commit") /\ task' = task /\ row' = row
          BY <2>6, <3>1 DEF Write
        <4>2. Permitted(r)'
          BY <2>0, <2>02, <3>0, <4>1 DEF Permitted, CanAssign
        <4>. QED  BY <1>0, <2>01, <4>1, <4>2, GoesOnKeepsTask DEF Statement
      <3>2. CASE ~inTx[r]
        <4>1. GoesOn(r, "scan") /\ task' = row[r] /\ row' = [row EXCEPT ![r] = NoTask]
          BY <2>6, <3>2 DEF Write
        <4>2. Keeps /\ AssigneesArePermitted'
          BY <2>0, <3>0, <4>1 DEF Permitted, Keeps, AssigneesArePermitted, CanAssign
        <4>3. Permitted(r)'
          BY <2>0, <2>02, <3>0, <4>1 DEF Permitted, CanAssign
        <4>4. \A q \in Request \ {r} : row'[q] = row[q]
          BY <2>0, <4>1
        <4>. QED  BY <1>0, <4>1, <4>2, <4>3, <4>4, GoesOnKeepsTask DEF Statement
      <3>. QED  BY <3>1, <3>2
    <2>7. CASE Commit(r)
      <3>1. at[r] = "commit" /\ task' = row[r] /\ Ends(r, "task")
        BY <2>7 DEF Commit, Runs
      <3>2. Keeps /\ AssigneesArePermitted' /\ task # NoTask
            /\ CanAssign(task.creator, call[r].actor)
        BY <2>0, <3>1 DEF Permitted, Keeps, AssigneesArePermitted, CanAssign
      <3>. QED  BY <1>0, <2>0, <3>1, <3>2, EndsKeepsTask
    <2>8. CASE Assignees(r)
      <3>1. GoesOn(r, "scan") /\ task' = task /\ row' = row /\ call[r].op = "assignable"
        BY <2>0, <2>8 DEF Assignees, Runs, Position
      <3>2. Permitted(r)'
        BY <2>02, <3>1 DEF Permitted
      <3>. QED  BY <1>0, <2>01, <3>1, <3>2, GoesOnKeepsTask DEF Statement
    <2>9. CASE Scan(r)
      <3>1. at[r] = "scan" /\ task' = task
            /\ Ends(r, IF Shows(call[r]) THEN "task" ELSE "ok")
        BY <2>9 DEF Scan, Runs
      <3>2. Shows(call[r]) => task # NoTask /\ CanAssign(task.creator, call[r].actor)
        BY <1>0, <2>0, <3>1 DEF Shows, Permitted, AssigneesArePermitted, CanAssign
      <3>. QED  BY <1>0, <2>0, <2>01, <3>1, <3>2, EndsKeepsTask
    <2>10. CASE Ping(r)
      BY <1>0, <2>0, <2>01, <2>10, EndsKeepsTask DEF Ping
    <2>. QED
      BY <1>3, <2>1, <2>2, <2>3, <2>4, <2>5, <2>6, <2>7, <2>8, <2>9, <2>10 DEF Run
  <1>4. ASSUME NEW r \in Request, PingFails(r) \/ Abandon(r) PROVE TaskInv'
    <2>1. /\ Active(r) /\ task' = task
          /\ \E result \in {"unavailable", "failed"} : Ends(r, result)
      BY <1>4 DEF PingFails, Abandon, Active, Statement
    <2>2. Keeps /\ AssigneesArePermitted'
      BY <1>0, <2>1 DEF Keeps, AssigneesArePermitted, CanAssign
    <2>. QED  BY <1>0, <2>1, <2>2, EndsKeepsTask
  <1>5. CASE ShutdownTimeout
    <2>1. AssigneesArePermitted' /\ OutsidersSeeNothing'
      BY <1>5 DEF TaskInv, ShutdownTimeout, AssigneesArePermitted, OutsidersSeeNothing, CanAssign
    <2>2. \A q \in Request : Permitted(q)'
      BY <1>5 DEF ShutdownTimeout, Permitted
    <2>. QED  BY <1>0, <2>1, <2>2 DEF TaskInv
  <1>6. ASSUME NEW r \in Request, Acquire(r) PROVE TaskInv'
    BY <1>2, <1>6 DEF Acquire
  <1>7. CASE MarkShuttingDown \/ CloseListener \/ CloseDatabase \/ UNCHANGED vars
    BY <1>2, <1>7 DEF MarkShuttingDown, CloseListener, CloseDatabase, vars, request
  <1>. QED
    BY <1>1, <1>3, <1>4, <1>5, <1>6, <1>7 DEF Next, Stop

(* Whatever reassignments and older rows written back overlap, the task    *)
(* belongs to its creator or to someone its creator may assign.            *)
THEOREM AssignmentsArePermitted == Spec => []AssigneesArePermitted
  <1>1. TaskInv => AssigneesArePermitted
    BY DEF TaskInv
  <1>. QED  BY <1>1, InitTask, TaskStep, PTL DEF Spec

(* No request shows the task to anybody else, or lets them change it.      *)
THEOREM OutsidersAreKeptOut == Spec => []OutsidersSeeNothing
  <1>1. TaskInv => OutsidersSeeNothing
    BY DEF TaskInv
  <1>. QED  BY <1>1, InitTask, TaskStep, PTL DEF Spec

-----------------------------------------------------------------------------
(* The connections: a request in a transaction holds one, a statement at   *)
(* hand may hold another, and Begin turns the second kind into the first.  *)
InTx == {r \in Request : inTx[r]}
Own  == {r \in Request : own[r]}

PoolInv == TypeInv /\ InUse <= MaxOpenConns

LEMMA FewerConnections ==
    ASSUME NEW A \in SUBSET Request, NEW B \in SUBSET Request,
           NEW C \in SUBSET A, NEW D \in SUBSET B
    PROVE  /\ Cardinality(A) \in Nat /\ Cardinality(B) \in Nat
           /\ Cardinality(C) \in Nat /\ Cardinality(D) \in Nat
           /\ Cardinality(C) + Cardinality(D) <= Cardinality(A) + Cardinality(B)
  <1>1. IsFiniteSet(A) /\ IsFiniteSet(B)
    BY PoolAssumption, FS_Subset
  <1>2. /\ Cardinality(C) <= Cardinality(A) /\ IsFiniteSet(C)
        /\ Cardinality(D) <= Cardinality(B) /\ IsFiniteSet(D)
    BY <1>1, FS_Subset
  <1>3. /\ Cardinality(A) \in Nat /\ Cardinality(B) \in Nat
        /\ Cardinality(C) \in Nat /\ Cardinality(D) \in Nat
    BY <1>1, <1>2, FS_CardinalityType
  <1>. QED  BY <1>2, <1>3

LEMMA PoolStep == PoolInv /\ [Next]_vars => PoolInv'
  <1>. SUFFICES ASSUME PoolInv, [Next]_vars PROVE PoolInv'
    OBVIOUS
  <1>0. TypeInv /\ TypeInv' /\ InUse <= MaxOpenConns
        /\ inTx \in [Request -> BOOLEAN] /\ own \in [Request -> BOOLEAN]
    BY TypeStep DEF PoolInv, TypeInv, TypeOK
  <1>1. ASSUME InTx' \subseteq InTx, Own' \subseteq Own PROVE PoolInv'
    <2>1. Cardinality(InTx') + Cardinality(Own') <= Cardinality(InTx) + Cardinality(Own)
          /\ Cardinality(InTx') \in Nat /\ Cardinality(Own') \in Nat
          /\ Cardinality(InTx) \in Nat /\ Cardinality(Own) \in Nat
      BY <1>1, FewerConnections DEF InTx, Own
    <2>. QED  BY <1>0, <2>1, PoolAssumption DEF PoolInv, InUse, InTx, Own
  <1>2. ASSUME NEW r \in Request, NEW result, Ends(r, result) PROVE PoolInv'
    BY <1>0, <1>1, <1>2 DEF Ends, InTx, Own
  <1>3. ASSUME NEW r \in Request, NEW statement, GoesOn(r, statement), inTx' = inTx
        PROVE  PoolInv'
    BY <1>0, <1>1, <1>3 DEF GoesOn, InTx, Own
  <1>4. ASSUME NEW r \in Request, Acquire(r) PROVE PoolInv'
    <2>1. InTx' = InTx /\ Own' = Own \cup {r}
      BY <1>0, <1>4 DEF Acquire, InTx, Own
    <2>2. IsFiniteSet(Own) /\ IsFiniteSet(InTx)
      BY PoolAssumption, FS_Subset DEF Own, InTx
    <2>3. /\ Cardinality(Own \cup {r}) =
                IF r \in Own THEN Cardinality(Own) ELSE Cardinality(Own) + 1
          /\ Cardinality(Own) \in Nat /\ Cardinality(InTx) \in Nat
      BY <2>2, FS_AddElement, FS_CardinalityType
    <2>4. Cardinality(Own') <= Cardinality(Own) + 1 /\ Cardinality(Own') \in Nat
      BY <2>1, <2>3
    <2>. QED
      BY <1>0, <1>4, <2>1, <2>3, <2>4, PoolAssumption DEF Acquire, PoolInv, InUse, InTx, Own
  <1>5. ASSUME NEW r \in Request, Begin(r) PROVE PoolInv'
    <2>1. r \in Own /\ r \notin InTx
      BY <1>0, <1>5 DEF Begin, Runs, Waiting, Active, Statement, TypeInv, Position, InTx, Own
    <2>2. InTx' = InTx \cup {r} /\ Own' = Own \ {r}
      BY <1>0, <1>5 DEF Begin, GoesOn, InTx, Own
    <2>3. IsFiniteSet(Own) /\ IsFiniteSet(InTx)
      BY PoolAssumption, FS_Subset DEF Own, InTx
    <2>4. Cardinality(Own') = Cardinality(Own) - 1 /\ Cardinality(InTx') = Cardinality(InTx) + 1
          /\ Cardinality(Own) \in Nat /\ Cardinality(InTx) \in Nat
      BY <2>1, <2>2, <2>3, FS_AddElement, FS_RemoveElement, FS_CardinalityType
    <2>. QED  BY <1>0, <2>4, PoolAssumption DEF PoolInv, InUse, InTx, Own
  <1>6. ASSUME NEW r \in Request, FindToChange(r) \/ Assignees(r) PROVE PoolInv'
    BY <1>3, <1>6 DEF FindToChange, Assignees
  <1>7. ASSUME NEW r \in Request,
               FindOnly(r) \/ Insert(r) \/ Commit(r) \/ Scan(r) \/ Ping(r)
                  \/ PingFails(r) \/ Abandon(r)
        PROVE  PoolInv'
    <2>1. \E result : Ends(r, result)
      BY <1>7 DEF FindOnly, Insert, Commit, Scan, Ping, PingFails, Abandon
    <2>. QED  BY <1>2, <2>1
  <1>8. ASSUME NEW r \in Request, Check(r) PROVE PoolInv'
    BY <1>2, <1>3, <1>8 DEF Check
  <1>9. ASSUME NEW r \in Request, Write(r) PROVE PoolInv'
    <2>1. inTx' = inTx /\ \E statement : GoesOn(r, statement)
      BY <1>9 DEF Write
    <2>. QED  BY <1>3, <2>1
  <1>10. CASE ShutdownTimeout
    BY <1>1, <1>10 DEF ShutdownTimeout, InTx, Own
  <1>11. ASSUME UNCHANGED <<inTx, own>> PROVE PoolInv'
    BY <1>1, <1>11 DEF InTx, Own
  <1>12. ASSUME NEW r \in Request, NEW c \in Call, Accept(r, c) PROVE PoolInv'
    BY <1>11, <1>12 DEF Accept
  <1>13. CASE MarkShuttingDown \/ CloseListener \/ CloseDatabase \/ UNCHANGED vars
    BY <1>11, <1>13 DEF MarkShuttingDown, CloseListener, CloseDatabase, vars, request
  <1>. QED
    BY <1>4, <1>5, <1>6, <1>7, <1>8, <1>9, <1>10, <1>12, <1>13 DEF Next, Stop, Run

(* The pool never opens more connections than it may, and a request that   *)
(* has ended, in whichever way, holds none.                                *)
THEOREM PoolIsBounded == Spec => []ConnectionsAreBounded
  <1>1. Init => PoolInv
    <2>. SUFFICES ASSUME Init PROVE PoolInv
      OBVIOUS
    <2>1. {r \in Request : inTx[r]} = {} /\ {r \in Request : own[r]} = {}
      BY DEF Init
    <2>. QED  BY <2>1, InitType, FS_EmptySet, PoolAssumption DEF PoolInv, InUse
  <1>2. PoolInv => ConnectionsAreBounded
    BY DEF PoolInv, ConnectionsAreBounded, TypeInv, Position
  <1>. QED  BY <1>1, <1>2, PoolStep, PTL DEF Spec

-----------------------------------------------------------------------------
(* A process that exits in good order has answered all it accepted, and    *)
(* nothing happens in it afterwards.                                       *)
THEOREM OrderlyExit == Spec => []ClosedWhenIdle
  <1>1. Init => ClosedWhenIdle
    BY DEF Init, ClosedWhenIdle
  <1>2. ClosedWhenIdle /\ [Next]_vars => ClosedWhenIdle'
    <2>. SUFFICES ASSUME ClosedWhenIdle, [Next]_vars, phase' = "closed"
                  PROVE  \A r \in Request : ~Active(r)'
      BY DEF ClosedWhenIdle
    <2>1. CASE phase = "closed"
      <3>1. \A r \in Request : ~Active(r)
        BY <2>1 DEF ClosedWhenIdle
      <3>2. at' = at
        BY <2>1, <3>1
        DEF Next, Accept, Acquire, Waiting, Run, Begin, FindToChange, FindOnly, Check, Insert,
            Write, Commit, Assignees, Scan, Ping, PingFails, Abandon, Runs, Active, Statement,
            MarkShuttingDown, Stop, CloseListener, CloseDatabase, ShutdownTimeout, vars, request
      <3>. QED  BY <3>1, <3>2 DEF Active
    <2>2. CASE phase # "closed"
      <3>1. CloseDatabase
        BY <2>2
        DEF Next, Accept, Acquire, Run, Begin, FindToChange, FindOnly, Check, Insert, Write,
            Commit, Assignees, Scan, Ping, PingFails, Abandon, GoesOn, Ends,
            MarkShuttingDown, Stop, CloseListener, ShutdownTimeout, vars
      <3>. QED  BY <3>1 DEF CloseDatabase, Active, request
    <2>. QED  BY <2>1, <2>2
  <1>. QED  BY <1>1, <1>2, PTL DEF Spec
=============================================================================
