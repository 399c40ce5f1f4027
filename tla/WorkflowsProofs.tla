--------------------------- MODULE WorkflowsProofs ---------------------------
(***************************************************************************)
(* Proofs about Workflows.  The invariant of the execution protocol says   *)
(* which rows can still be executed: those that are scheduled, or that the *)
(* worker's list holds and the worker has not yet created the task for.    *)
(***************************************************************************)
EXTENDS Workflows, TLAPS

\* What the worker may rely on when it holds a row.
WorkerInv ==
    /\ pc \in Executing => cur \in pending
    /\ pc \notin Executing => cur = 0
    /\ pc \in {"creating", "completing", "aborting"} =>
           wf[cur].status \in {"running", "cancelled"}
    /\ pc = "completing" => wf[cur].made >= 1

\* Rows that were not executed yet have no task, and the worker's list holds
\* no others but the one it executes.
FreshInv ==
    /\ \A i \in open : wf[i].made >= 1
    /\ \A i \in Ids : wf[i].status = "scheduled" => wf[i].made = 0
    /\ \A i \in pending :
           /\ wf[i].status # "completed"
           /\ (cur = i /\ pc \in {"completing", "aborting"}) \/ wf[i].made = 0

ExecInv == TypeOK /\ WorkerInv /\ FreshInv /\ AtMostOneTask

-----------------------------------------------------------------------------
(* The table: what an UPDATE of one column of one row does                 *)

\* SetStatus writes the status of one row and nothing else.
LEMMA StatusUpdate ==
    ASSUME TypeOK, NEW st \in Statuses, SetStatus(st)
    PROVE  /\ wf' \in [Ids -> Row]
           /\ \A i \in Ids :
                  /\ wf'[i].made = wf[i].made
                  /\ wf'[i].user = wf[i].user
                  /\ wf'[i].name = wf[i].name
                  /\ wf'[i].entity = wf[i].entity
                  /\ wf'[i].gated = wf[i].gated
                  /\ wf'[i].status = IF i = cur THEN st ELSE wf[i].status
BY DEF TypeOK, SetStatus, Row

\* cancel_workflows writes statuses and nothing else.
LEMMA CancelUpdate ==
    ASSUME TypeOK, NEW e, NEW names, cancel_workflows(e, names)
    PROVE  /\ wf' \in [Ids -> Row]
           /\ \A i \in Ids :
                  /\ wf'[i].made = wf[i].made
                  /\ wf'[i].user = wf[i].user
                  /\ wf'[i].name = wf[i].name
                  /\ wf'[i].entity = wf[i].entity
                  /\ wf'[i].gated = wf[i].gated
                  /\ \/ wf'[i].status = wf[i].status
                     \/ /\ wf[i].status \in Active
                        /\ wf'[i].status = "cancelled"
<1>1. \A i \in Ids : [wf[i] EXCEPT !.status = "cancelled"] \in Row
    BY DEF TypeOK, Row, Statuses
<1>. QED  BY <1>1 DEF TypeOK, cancel_workflows, Row

\* AddTask counts one task of the row in hand and writes nothing else.
LEMMA TaskUpdate ==
    ASSUME TypeOK, AddTask
    PROVE  /\ wf' \in [Ids -> Row]
           /\ \A i \in Ids :
                  /\ wf'[i].user = wf[i].user
                  /\ wf'[i].name = wf[i].name
                  /\ wf'[i].entity = wf[i].entity
                  /\ wf'[i].gated = wf[i].gated
                  /\ wf'[i].status = wf[i].status
                  /\ wf'[i].made = IF i = cur /\ cur \notin open
                                   THEN wf[i].made + 1 ELSE wf[i].made
<1>1. CASE cur \in open
    BY <1>1 DEF TypeOK, AddTask
<1>2. CASE cur \notin open
    <2>1. ASSUME cur \in Ids PROVE wf[cur].made + 1 \in Nat
        BY <2>1 DEF TypeOK, Row
    <2>2. wf' = [wf EXCEPT ![cur].made = @ + 1]
        BY <1>2 DEF AddTask
    <2>. QED  BY <1>2, <2>1, <2>2 DEF TypeOK, Row
<1>. QED  BY <1>1, <1>2

\* InsertWorkflow adds one row and leaves the others as they are.
LEMMA InsertUpdate ==
    ASSUME TypeOK, NEW c \in Creators, InsertWorkflow(c)
    PROVE  /\ wf' \in [1 .. lastId + 1 -> Row]
           /\ \A i \in Ids : wf'[i] = wf[i]
           /\ wf'[lastId + 1] = NewRow(creator[c])
           /\ creator[c] \in Request
<1>1. creator[c] \in Request
    BY DEF TypeOK, InsertWorkflow
<1>2. NewRow(creator[c]) \in Row
    BY <1>1 DEF NewRow, Request, Row, Statuses
<1>3. lastId \in Nat
    BY BoundAssumption DEF TypeOK
<1>4. wf' \in [1 .. lastId + 1 -> Row]
    BY <1>2 DEF TypeOK, InsertWorkflow
<1>5. Ids \subseteq 1 .. lastId + 1 /\ lastId + 1 \in (1 .. lastId + 1) \ Ids
    BY <1>3 DEF Ids
<1>. QED  BY <1>1, <1>4, <1>5 DEF InsertWorkflow

-----------------------------------------------------------------------------
(* Type correctness                                                        *)

\* The types hold at the start.
LEMMA TypeInit == Init => TypeOK
BY BoundAssumption DEF Init, TypeOK, Ids, Executing

\* Every step keeps the types.
LEMMA TypeStep ==
    ASSUME TypeOK, [Next]_vars, pc \in Executing => cur \in Ids
    PROVE  TypeOK'
<1>0. /\ lastId \in Nat /\ lastId <= MaxRows
      /\ MaxRows \in Nat /\ MaxFaults \in Nat
    BY BoundAssumption DEF TypeOK
<1>1. ASSUME NEW c \in Creators, NEW q \in Request, CheckWorkflow(c, q)
      PROVE  TypeOK'
    BY <1>1 DEF CheckWorkflow, TypeOK, Ids, table, process
<1>2. ASSUME NEW c \in Creators, InsertWorkflow(c) PROVE TypeOK'
    <2>1. Ids \subseteq Ids' /\ lastId' = lastId + 1 /\ lastId' <= MaxRows
        BY <1>0, <1>2 DEF InsertWorkflow, Ids
    <2>2. wf' \in [Ids' -> Row]
        BY <1>2, <2>1, InsertUpdate DEF Ids
    <2>3. due' \in SUBSET Ids' /\ open' \in SUBSET Ids' /\ pending' \in SUBSET Ids'
        BY <1>0, <1>2, <2>1 DEF InsertWorkflow, TypeOK, process, Ids
    <2>4. creator' \in [Creators -> Request \cup {None}]
        BY <1>2 DEF InsertWorkflow, TypeOK
    <2>. QED
        BY <1>0, <1>2, <2>1, <2>2, <2>3, <2>4 DEF InsertWorkflow, TypeOK, process
<1>3. ASSUME NEW c \in Creators, InsertRefused(c) PROVE TypeOK'
    BY <1>3 DEF InsertRefused, TypeOK, Ids, table, process
<1>4. ASSUME NEW e \in Entities, NEW names, cancel_workflows(e, names)
      PROVE  TypeOK'
    <2>1. wf' \in [Ids -> Row]
        BY <1>4, CancelUpdate
    <2>2. UNCHANGED <<lastId, due, creator, open, process, faults>>
        BY <1>4 DEF cancel_workflows
    <2>. QED  BY <2>1, <2>2 DEF TypeOK, Ids, process
<1>5. ASSUME NEW i \in Ids, Elapse(i) PROVE TypeOK'
    <2>1. due' \in SUBSET Ids
        BY <1>5 DEF Elapse, TypeOK
    <2>. QED  BY <1>5, <2>1 DEF Elapse, TypeOK, Ids, process
<1>6. ASSUME NEW i \in Ids, TaskEnds(i) PROVE TypeOK'
    BY <1>6 DEF TaskEnds, TypeOK, Ids, table, process
<1>7. CASE get_pending_workflows
    <2>1. pending' \in SUBSET Ids
        BY <1>7 DEF get_pending_workflows
    <2>. QED  BY <1>0, <1>7, <2>1 DEF get_pending_workflows, Goto, TypeOK, Ids, table
<1>8. CASE EndOfPoll
    BY <1>0, <1>8 DEF EndOfPoll, Goto, TypeOK, Ids, table
<1>9. ASSUME NEW i \in pending, NotDue(i) PROVE TypeOK'
    BY <1>9 DEF NotDue, TypeOK, Ids, table
<1>10. ASSUME NEW i \in pending, BeginExecute(i) PROVE TypeOK'
    <2>1. i \in 0 .. lastId
        BY <1>0 DEF TypeOK, Ids
    <2>. QED
        BY <1>10, <2>1 DEF BeginExecute, Goto, Executing, TypeOK, Ids, table
<1>11. CASE CancelInvalid \/ CompleteWorkflow \/ AbortWorkflow
    <2>1. wf' \in [Ids -> Row]
        BY <1>11, StatusUpdate
        DEF CancelInvalid, CompleteWorkflow, AbortWorkflow, Statuses
    <2>2. Leave /\ UNCHANGED <<lastId, due, creator, open, faults>>
        BY <1>11 DEF CancelInvalid, CompleteWorkflow, AbortWorkflow
    <2>. QED  BY <1>0, <2>1, <2>2 DEF Leave, Goto, TypeOK, Ids
<1>12. CASE StartRunning
    <2>1. wf' \in [Ids -> Row]
        BY <1>12, StatusUpdate DEF StartRunning, Statuses
    <2>. QED  BY <1>12, <2>1 DEF StartRunning, Goto, Executing, TypeOK, Ids
<1>13. CASE StartRefused
    BY <1>0, <1>13 DEF StartRefused, Leave, Goto, TypeOK, Ids, table
<1>14. CASE CreateTask
    <2>1. wf' \in [Ids -> Row] /\ open' \in SUBSET Ids
        BY <1>14, TaskUpdate DEF CreateTask, AddTask, TypeOK, Executing
    <2>. QED  BY <1>0, <1>14, <2>1 DEF CreateTask, Goto, Executing, TypeOK, Ids
<1>15. CASE EntityGone
    BY <1>15 DEF EntityGone, Goto, Executing, TypeOK, Ids, table
<1>16. CASE RaiseOutsideTry
    BY <1>0, <1>16 DEF RaiseOutsideTry, Fault, Leave, Goto, TypeOK, Ids, table
<1>17. CASE RaiseInsideTry
    <2>1. faults' \in 0 .. MaxFaults
        BY <1>0, <1>17 DEF RaiseInsideTry, Fault, TypeOK
    <2>. QED  BY <1>17, <2>1 DEF RaiseInsideTry, Goto, Executing, TypeOK, Ids, table
<1>18. CASE Crash
    BY <1>0, <1>18 DEF Crash, Fault, Goto, TypeOK, Ids, table
<1>19. CASE UNCHANGED vars
    BY <1>19 DEF vars, TypeOK, Ids, table, process
<1>. QED
    BY <1>1, <1>2, <1>3, <1>4, <1>5, <1>6, <1>7, <1>8, <1>9, <1>10, <1>11,
       <1>12, <1>13, <1>14, <1>15, <1>16, <1>17, <1>18, <1>19
    DEF Next, Creation, Cancellation, Elsewhere, WorkerStep, Visit

-----------------------------------------------------------------------------
(* Execution at most once                                                  *)

\* The invariant of execution holds at the start.
LEMMA ExecInit == Init => ExecInv
BY TypeInit DEF Init, ExecInv, WorkerInv, FreshInv, AtMostOneTask, Ids, Executing

\* Every step keeps the invariant of execution.
LEMMA ExecStep == ExecInv /\ [Next]_vars => ExecInv'
<1> SUFFICES ASSUME ExecInv, [Next]_vars PROVE ExecInv'
    OBVIOUS
<1>0. TypeOK /\ WorkerInv /\ FreshInv /\ AtMostOneTask
    BY DEF ExecInv
<1>1. TypeOK'
    BY <1>0, TypeStep DEF WorkerInv, TypeOK
<1>2. pending \subseteq Ids /\ open \subseteq Ids /\ 0 \notin Ids
    BY <1>0 DEF TypeOK, Ids
<1>3. ASSUME UNCHANGED <<wf, lastId, open, process>> PROVE ExecInv'
    BY <1>0, <1>1, <1>3
    DEF ExecInv, WorkerInv, FreshInv, AtMostOneTask, process, Ids
<1>4. ASSUME NEW c \in Creators, InsertWorkflow(c) PROVE ExecInv'
    <2>1. /\ \A i \in Ids : wf'[i] = wf[i]
          /\ wf'[lastId + 1] = NewRow(creator[c])
          /\ Ids' = Ids \cup {lastId + 1}
          /\ UNCHANGED <<open, process>>
        BY <1>0, <1>4, InsertUpdate, BoundAssumption DEF InsertWorkflow, Ids, TypeOK
    <2>2. WorkerInv'
        BY <1>0, <1>2, <2>1 DEF WorkerInv, process, Executing
    <2>3. FreshInv'
        BY <1>0, <1>2, <2>1 DEF FreshInv, process, NewRow
    <2>4. AtMostOneTask'
        BY <1>0, <2>1 DEF AtMostOneTask, NewRow
    <2>. QED  BY <1>1, <2>2, <2>3, <2>4 DEF ExecInv
<1>5. ASSUME NEW e \in Entities, NEW names, cancel_workflows(e, names)
      PROVE  ExecInv'
    <2>1. UNCHANGED <<lastId, open, process>> /\ Ids' = Ids
        BY <1>5 DEF cancel_workflows, Ids
    <2>2. \A i \in Ids : /\ wf'[i].made = wf[i].made
                         /\ \/ wf'[i].status = wf[i].status
                            \/ wf'[i].status = "cancelled"
        BY <1>0, <1>5, CancelUpdate
    <2>3. WorkerInv'
        BY <1>0, <1>2, <2>1, <2>2 DEF WorkerInv, process, Executing
    <2>4. FreshInv'
        BY <1>0, <1>2, <2>1, <2>2 DEF FreshInv, process
    <2>5. AtMostOneTask'
        BY <1>0, <2>1, <2>2 DEF AtMostOneTask
    <2>. QED  BY <1>1, <2>3, <2>4, <2>5 DEF ExecInv
<1>6. ASSUME NEW i \in Ids, TaskEnds(i) PROVE ExecInv'
    BY <1>0, <1>1, <1>6
    DEF TaskEnds, ExecInv, WorkerInv, FreshInv, AtMostOneTask, table, process, Ids
<1>7. CASE get_pending_workflows
    BY <1>0, <1>1, <1>2, <1>7
    DEF get_pending_workflows, Goto, ExecInv, WorkerInv, FreshInv,
        AtMostOneTask, table, Ids, Executing
<1>8. CASE EndOfPoll
    BY <1>0, <1>1, <1>2, <1>8
    DEF EndOfPoll, Goto, ExecInv, WorkerInv, FreshInv, AtMostOneTask, table,
        Ids, Executing
<1>9. ASSUME NEW i \in pending, NotDue(i) PROVE ExecInv'
    BY <1>0, <1>1, <1>2, <1>9
    DEF NotDue, ExecInv, WorkerInv, FreshInv, AtMostOneTask, table, Ids, Executing
<1>10. ASSUME NEW i \in pending, BeginExecute(i) PROVE ExecInv'
    BY <1>0, <1>1, <1>2, <1>10
    DEF BeginExecute, Goto, ExecInv, WorkerInv, FreshInv, AtMostOneTask, table,
        Ids, Executing
<1>11. CASE CancelInvalid \/ CompleteWorkflow \/ AbortWorkflow
    <2>1. PICK st \in {"cancelled", "completed"} : SetStatus(st)
        BY <1>11 DEF CancelInvalid, CompleteWorkflow, AbortWorkflow
    <2>2. /\ Leave /\ UNCHANGED <<lastId, open>> /\ Ids' = Ids
          /\ pc \in Executing
        BY <1>11 DEF CancelInvalid, CompleteWorkflow, AbortWorkflow, Ids, Executing
    <2>3. \A i \in Ids :
              /\ wf'[i].made = wf[i].made
              /\ wf'[i].status = IF i = cur THEN st ELSE wf[i].status
        BY <1>0, <2>1, StatusUpdate DEF Statuses
    <2>4. WorkerInv'
        BY <2>2 DEF WorkerInv, Leave, Goto, Executing
    <2>5. FreshInv'
        BY <1>0, <1>2, <2>2, <2>3 DEF FreshInv, Leave, Goto
    <2>6. AtMostOneTask'
        BY <1>0, <2>2, <2>3 DEF AtMostOneTask
    <2>. QED  BY <1>1, <2>4, <2>5, <2>6 DEF ExecInv
<1>12. CASE StartRunning
    <2>1. /\ UNCHANGED <<lastId, open, pending, cur>> /\ Ids' = Ids
          /\ pc = "starting" /\ pc' = "creating" /\ cur \in pending
        BY <1>0, <1>12 DEF StartRunning, Goto, Ids, WorkerInv, Executing
    <2>2. \A i \in Ids :
              /\ wf'[i].made = wf[i].made
              /\ wf'[i].status = IF i = cur THEN "running" ELSE wf[i].status
        BY <1>0, <1>12, StatusUpdate DEF StartRunning, Statuses
    <2>3. WorkerInv'
        BY <1>2, <2>1, <2>2 DEF WorkerInv, Executing
    <2>4. FreshInv'
        BY <1>0, <1>2, <2>1, <2>2 DEF FreshInv
    <2>5. AtMostOneTask'
        BY <1>0, <2>1, <2>2 DEF AtMostOneTask
    <2>. QED  BY <1>1, <2>3, <2>4, <2>5 DEF ExecInv
<1>13. CASE StartRefused
    BY <1>0, <1>1, <1>2, <1>13
    DEF StartRefused, Leave, Goto, ExecInv, WorkerInv, FreshInv, AtMostOneTask,
        table, Ids, Executing
<1>14. CASE CreateTask
    <2>1. /\ UNCHANGED <<lastId, pending, cur>> /\ Ids' = Ids
          /\ pc = "creating" /\ pc' = "completing" /\ cur \in pending
          /\ open' = open \cup {cur}
        BY <1>0, <1>14 DEF CreateTask, AddTask, Goto, Ids, WorkerInv, Executing
    <2>2. \A i \in Ids :
              /\ wf'[i].status = wf[i].status
              /\ wf'[i].made = IF i = cur /\ cur \notin open
                               THEN wf[i].made + 1 ELSE wf[i].made
        BY <1>0, <1>14, TaskUpdate DEF CreateTask
    <2>3. wf[cur].made = 0 /\ cur \notin open /\ cur \in Ids
        BY <1>0, <1>2, <2>1 DEF FreshInv
    <2>4. WorkerInv'
        BY <1>0, <2>1, <2>2, <2>3 DEF WorkerInv, Executing
    <2>5. wf[cur].status \in {"running", "cancelled"}
        BY <1>0, <2>1 DEF WorkerInv
    <2>6. FreshInv'
        BY <1>0, <1>2, <2>1, <2>2, <2>3, <2>5 DEF FreshInv
    <2>7. AtMostOneTask'
        BY <1>0, <2>1, <2>2, <2>3 DEF AtMostOneTask
    <2>. QED  BY <1>1, <2>4, <2>6, <2>7 DEF ExecInv
<1>15. CASE EntityGone \/ RaiseInsideTry
    <2>1. /\ UNCHANGED <<wf, lastId, open, pending, cur>> /\ Ids' = Ids
          /\ pc \in {"creating", "completing"} /\ pc' = "aborting"
        BY <1>15 DEF EntityGone, RaiseInsideTry, Goto, Ids, table
    <2>. QED
        BY <1>0, <1>1, <2>1
        DEF ExecInv, WorkerInv, FreshInv, AtMostOneTask, Executing
<1>16. CASE RaiseOutsideTry
    <2>1. /\ UNCHANGED <<wf, lastId, open>> /\ Ids' = Ids
          /\ pc \in Executing /\ Leave
        BY <1>16 DEF RaiseOutsideTry, Ids, table, Executing
    <2>2. WorkerInv'
        BY <2>1 DEF Leave, Goto, WorkerInv, Executing
    <2>3. FreshInv'
        BY <1>0, <2>1 DEF Leave, Goto, FreshInv
    <2>. QED  BY <1>0, <1>1, <2>1, <2>2, <2>3 DEF ExecInv, AtMostOneTask
<1>17. CASE Crash
    BY <1>0, <1>1, <1>2, <1>17
    DEF Crash, Goto, ExecInv, WorkerInv, FreshInv, AtMostOneTask, table, Ids,
        Executing
<1>18. CASE UNCHANGED vars
    BY <1>3, <1>18 DEF vars, table
<1>. QED
    BY <1>3, <1>4, <1>5, <1>6, <1>7, <1>8, <1>9, <1>10, <1>11, <1>12, <1>13,
       <1>14, <1>15, <1>16, <1>17, <1>18
    DEF Next, Creation, Cancellation, Elsewhere, WorkerStep, Visit,
        CheckWorkflow, InsertRefused, Elapse, table

\* The invariant of execution holds always.
LEMMA ExecCorrect == Spec => []ExecInv
<1>1. ExecInv /\ [Next]_vars => ExecInv'
    BY ExecStep
<1>. QED  BY ExecInit, <1>1, PTL DEF Spec

\* Every variable keeps its type: in particular the worker's list and the ids
\* with an unfinished task stay within the table, and the bounds are kept.
THEOREM TypeCorrect == Spec => []TypeOK
<1>1. ExecInv => TypeOK
    BY DEF ExecInv
<1>. QED  BY ExecCorrect, <1>1, PTL

\* A workflow row gets at most one task, for any number of creators, rows and
\* faults: a row in the worker's list is dropped from it as soon as its task
\* exists, and only rows without a task are ever listed.
THEOREM AtMostOnce == Spec => []AtMostOneTask
<1>1. ExecInv => AtMostOneTask
    BY DEF ExecInv
<1>. QED  BY ExecCorrect, <1>1, PTL
-----------------------------------------------------------------------------
(* One active row per key                                                  *)

KeyInv == ExecInv /\ OneActivePerKey

\* A step that activates no row, and leaves the keys alone, keeps it.
LEMMA NoActivation ==
    ASSUME KeyInv, UNCHANGED lastId,
           \A i \in Ids :
               /\ wf'[i].user = wf[i].user
               /\ wf'[i].name = wf[i].name
               /\ wf'[i].entity = wf[i].entity
               /\ wf'[i].status \in Active => wf[i].status \in Active
    PROVE  OneActivePerKey'
BY DEF KeyInv, OneActivePerKey, Ids

\* Every step keeps to one active row of a key.
LEMMA KeyStep == KeyInv /\ [Next]_vars => KeyInv'
<1> SUFFICES ASSUME KeyInv, [Next]_vars PROVE OneActivePerKey'
    BY ExecStep DEF KeyInv
<1>0. TypeOK /\ WorkerInv /\ OneActivePerKey /\ pending \subseteq Ids
    BY DEF KeyInv, ExecInv, TypeOK
<1>1. ASSUME UNCHANGED <<wf, lastId>> PROVE OneActivePerKey'
    BY <1>0, <1>1 DEF OneActivePerKey, Ids
<1>2. ASSUME NEW c \in Creators, InsertWorkflow(c) PROVE OneActivePerKey'
    <2>1. /\ \A i \in Ids : wf'[i] = wf[i]
          /\ wf'[lastId + 1] = NewRow(creator[c])
          /\ Ids' = Ids \cup {lastId + 1}
        BY <1>0, <1>2, InsertUpdate, BoundAssumption DEF InsertWorkflow, Ids, TypeOK
    <2>2. \A i \in Ids : wf[i].status \in Active =>
              ~(/\ wf[i].user = creator[c].user
                /\ wf[i].name = creator[c].name
                /\ wf[i].entity = creator[c].entity)
        BY <1>2 DEF InsertWorkflow, IndexConflict
    <2>. QED  BY <1>0, <2>1, <2>2 DEF OneActivePerKey, NewRow
<1>3. ASSUME NEW e \in Entities, NEW names, cancel_workflows(e, names)
      PROVE  OneActivePerKey'
    BY <1>0, <1>3, CancelUpdate, NoActivation DEF cancel_workflows, Active
<1>4. CASE CancelInvalid \/ CompleteWorkflow \/ AbortWorkflow
    <2>1. PICK st \in {"cancelled", "completed"} : SetStatus(st)
        BY <1>4 DEF CancelInvalid, CompleteWorkflow, AbortWorkflow
    <2>. QED
        BY <1>0, <1>4, <2>1, StatusUpdate, NoActivation
        DEF CancelInvalid, CompleteWorkflow, AbortWorkflow, Statuses, Active
<1>5. CASE StartRunning
    <2>1. /\ \A i \in Ids :
                 /\ wf'[i].user = wf[i].user
                 /\ wf'[i].name = wf[i].name
                 /\ wf'[i].entity = wf[i].entity
                 /\ wf'[i].status = IF i = cur THEN "running" ELSE wf[i].status
          /\ Ids' = Ids /\ cur \in Ids
        BY <1>0, <1>5, StatusUpdate
        DEF StartRunning, Statuses, Ids, WorkerInv, Executing
    <2>2. \A i \in Ids \ {cur} : wf[i].status \in Active =>
              ~(/\ wf[i].user = wf[cur].user
                /\ wf[i].name = wf[cur].name
                /\ wf[i].entity = wf[cur].entity)
        BY <1>5 DEF StartRunning, IndexConflict
    <2>. QED  BY <1>0, <2>1, <2>2 DEF OneActivePerKey
<1>6. CASE CreateTask
    BY <1>0, <1>6, TaskUpdate, NoActivation DEF CreateTask
<1>. QED
    BY <1>1, <1>2, <1>3, <1>4, <1>5, <1>6
    DEF Next, Creation, Cancellation, Elsewhere, WorkerStep, Visit, vars, table,
        CheckWorkflow, InsertRefused, Elapse, TaskEnds, get_pending_workflows,
        EndOfPoll, NotDue, BeginExecute, StartRefused, EntityGone,
        RaiseOutsideTry, RaiseInsideTry, Crash

\* However many creators race and whatever the worker had read, two active
\* workflows never share user, name and entity: both writers of an active status
\* pass the index, and every other write leaves the active rows fewer.
THEOREM OneActive == Spec => []OneActivePerKey
<1>1. Init => KeyInv
    BY ExecInit DEF Init, KeyInv, OneActivePerKey, Ids
<1>2. KeyInv => OneActivePerKey
    BY DEF KeyInv
<1>. QED  BY <1>1, KeyStep, <1>2, PTL DEF Spec

-----------------------------------------------------------------------------
(* Cancellations                                                           *)

\* No step touches a cancelled row that the worker's list does not hold, and none
\* puts it there.
LEMMA CancelledStep ==
    ASSUME ExecInv, [Next]_vars, NEW i \in Ids, wf[i].status = "cancelled", i \notin pending
    PROVE  wf'[i].status = "cancelled" /\ i \notin pending'
<1>0. TypeOK /\ WorkerInv /\ (pc \in Executing => cur # i)
    BY DEF ExecInv, WorkerInv
<1>1. CASE UNCHANGED <<wf, pending>> \/ (UNCHANGED wf /\ pending' \subseteq pending)
    BY <1>1
<1>2. ASSUME NEW c \in Creators, InsertWorkflow(c)
      PROVE  wf'[i] = wf[i] /\ pending' = pending
    BY <1>0, <1>2, InsertUpdate DEF InsertWorkflow, process
<1>3. ASSUME NEW e \in Entities, NEW names, cancel_workflows(e, names)
      PROVE  wf'[i].status = wf[i].status /\ pending' = pending
    BY <1>0, <1>3, CancelUpdate DEF cancel_workflows, process, Active
<1>4. CASE get_pending_workflows
    BY <1>4 DEF get_pending_workflows, table
<1>5. CASE StartRunning \/ CancelInvalid \/ CompleteWorkflow \/ AbortWorkflow
    <2>1. PICK st \in Statuses : SetStatus(st)
        BY <1>5 DEF StartRunning, CancelInvalid, CompleteWorkflow, AbortWorkflow, Statuses
    <2>2. cur # i /\ pending' \subseteq pending
        BY <1>0, <1>5
        DEF StartRunning, CancelInvalid, CompleteWorkflow, AbortWorkflow, Leave, Executing
    <2>. QED  BY <1>0, <2>1, <2>2, StatusUpdate
<1>6. CASE CreateTask
    BY <1>0, <1>6, TaskUpdate DEF CreateTask
<1>. QED
    BY <1>1, <1>2, <1>3, <1>4, <1>5, <1>6
    DEF Next, Creation, Cancellation, Elsewhere, WorkerStep, Visit, vars, table, process,
        CheckWorkflow, InsertRefused, Elapse, TaskEnds, EndOfPoll, NotDue, BeginExecute,
        StartRefused, EntityGone, RaiseOutsideTry, RaiseInsideTry, Crash, Leave

\* A cancellation stands, for any number of rows, polls and faults: what the worker
\* may still write over it is in its list since before the cancellation, and once the
\* row has left the list no later poll lists it again.
THEOREM CancellationStands == Spec => CancellationSettles
<1>1. ExecInv /\ [Next]_vars =>
          [\A i \in Ids : wf[i].status = "cancelled" /\ i \notin pending =>
               wf'[i].status = "cancelled" /\ i \notin pending']_vars
    BY CancelledStep
<1>. QED  BY ExecCorrect, <1>1, PTL DEF Spec, CancellationSettles
=============================================================================
