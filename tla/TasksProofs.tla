------------------------------ MODULE TasksProofs ------------------------------
(***************************************************************************)
(* Proofs about Tasks.  The invariant ties the status of a task to its     *)
(* counters, and the executor's program counter to the status of the task  *)
(* it holds: that is why fail_task, which asks nobody, only ever meets a   *)
(* running task.                                                           *)
(***************************************************************************)
EXTENDS Tasks, TLAPS

WorkerInv ==
    /\ pc \in Executing => cur \in pending
    /\ pc \notin Executing => cur = 0
    /\ pc \in {"running", "failing"} => status[cur] = "running"
    /\ pc = "reporting" => status[cur] = "completed" /\ outcomes[cur] = 0

\* What is still to be visited has not been touched since it was read.
ListInv ==
    \A i \in pending : (i # cur \/ pc = "starting") =>
                           status[i] \in {"pending", "retrying"}

RowInv(i) ==
    /\ retries[i] <= MaxRetries
    /\ status[i] \in {"pending", "retrying"} => attempts[i] <= retries[i]
    /\ status[i] \in {"pending", "retrying", "running"} => outcomes[i] = 0
    /\ status[i] \in {"retrying", "running"} => attempts[i] >= retries[i]
    /\ status[i] = "pending" => retries[i] = 0
    /\ status[i] = "running" => attempts[i] = retries[i] + 1
    /\ attempts[i] <= retries[i] + 1
    /\ status[i] = "dead_letter" => attempts[i] = MaxRetries + 1
    /\ status[i] = "completed" => tools[i] > 0 /\ done[i] = tools[i]
    /\ outcomes[i] > 0 => outcomes[i] = 1 /\ status[i] = "completed"

IInv == TypeOK /\ WorkerInv /\ ListInv /\ \A i \in Ids : RowInv(i)

-----------------------------------------------------------------------------
(* Inserting a row                                                         *)

\* create_ai_task adds one pending row and leaves the others as they are.
LEMMA CreateUpdate ==
    ASSUME TypeOK, NEW w \in WorkflowIds, NEW n \in 0 .. MaxTools,
           create_ai_task(w, n)
    PROVE  /\ TypeOK'
           /\ Ids' = Ids \cup {lastId + 1}
           /\ \A i \in Ids : /\ owner'[i] = owner[i]
                             /\ tools'[i] = tools[i]
                             /\ status'[i] = status[i]
                             /\ retries'[i] = retries[i]
                             /\ attempts'[i] = attempts[i]
                             /\ done'[i] = done[i]
                             /\ outcomes'[i] = outcomes[i]
           /\ status'[lastId + 1] = "pending"
           /\ retries'[lastId + 1] = 0
           /\ attempts'[lastId + 1] = 0
           /\ outcomes'[lastId + 1] = 0
           /\ owner'[lastId + 1] = w
<1>1. lastId \in Nat /\ lastId' = lastId + 1 /\ lastId' \in 0 .. MaxTasks
    BY NumbersAssumption DEF TypeOK, create_ai_task
<1>2. /\ Ids' = 1 .. lastId + 1 /\ Ids' = Ids \cup {lastId + 1}
      /\ Ids \subseteq Ids' /\ lastId + 1 \notin Ids
    BY <1>1 DEF Ids
<1>3. /\ owner' \in [Ids' -> WorkflowIds]
      /\ \A i \in Ids : owner'[i] = owner[i]
      /\ owner'[lastId + 1] = w
    BY <1>2 DEF create_ai_task, TypeOK, Append1
<1>4. tools' \in [Ids' -> 0 .. MaxTools] /\ \A i \in Ids : tools'[i] = tools[i]
    BY <1>2 DEF create_ai_task, TypeOK, Append1
<1>5. /\ status' \in [Ids' -> Statuses]
      /\ \A i \in Ids : status'[i] = status[i]
      /\ status'[lastId + 1] = "pending"
    <2>1. "pending" \in Statuses
        BY DEF Statuses, ACTIVE_TASK_STATUSES
    <2>. QED  BY <1>2, <2>1 DEF create_ai_task, TypeOK, Append1
<1>6. /\ retries' \in [Ids' -> Nat]
      /\ \A i \in Ids : retries'[i] = retries[i]
      /\ retries'[lastId + 1] = 0
    BY <1>2 DEF create_ai_task, TypeOK, Append1
<1>7. /\ attempts' \in [Ids' -> Nat]
      /\ \A i \in Ids : attempts'[i] = attempts[i]
      /\ attempts'[lastId + 1] = 0
    BY <1>2 DEF create_ai_task, TypeOK, Append1
<1>8. done' \in [Ids' -> Nat] /\ \A i \in Ids : done'[i] = done[i]
    BY <1>2 DEF create_ai_task, TypeOK, Append1
<1>9. /\ outcomes' \in [Ids' -> Nat]
      /\ \A i \in Ids : outcomes'[i] = outcomes[i]
      /\ outcomes'[lastId + 1] = 0
    BY <1>2 DEF create_ai_task, TypeOK, Append1
<1>10. /\ UNCHANGED <<waiting, pending, pc, cur, faults>>
       /\ waiting \in SUBSET Ids' /\ pending \in SUBSET Ids' /\ cur \in 0 .. lastId'
    BY <1>1, <1>2 DEF create_ai_task, process, TypeOK
<1>11. TypeOK'
    BY <1>1, <1>3, <1>4, <1>5, <1>6, <1>7, <1>8, <1>9, <1>10 DEF TypeOK
<1>. QED  BY <1>2, <1>3, <1>4, <1>5, <1>6, <1>7, <1>8, <1>9, <1>11

-----------------------------------------------------------------------------
(* The inductive invariant                                                 *)

\* The invariant holds at the start.
LEMMA InitInv == Init => IInv
BY NumbersAssumption
DEF Init, IInv, TypeOK, WorkerInv, ListInv, Empty, Ids, Executing

\* Every step keeps the invariant.
LEMMA StepInv == IInv /\ [Next]_vars => IInv'
<1> SUFFICES ASSUME IInv, [Next]_vars PROVE IInv'
    OBVIOUS
<1>0. /\ TypeOK /\ WorkerInv /\ ListInv /\ \A i \in Ids : RowInv(i)
      /\ MaxRetries \in Nat /\ MaxFaults \in Nat /\ MaxTools \in Nat
    BY NumbersAssumption DEF IInv
<1>1. /\ pending \subseteq Ids /\ waiting \subseteq Ids
      /\ lastId \in Nat /\ 0 \notin Ids /\ 0 \in 0 .. lastId
      /\ \A i \in Ids : i \in 0 .. lastId
    BY <1>0, NumbersAssumption DEF TypeOK, Ids
<1>2. ASSUME NEW w \in WorkflowIds, NEW n \in 0 .. MaxTools, create_ai_task(w, n)
      PROVE  IInv'
    <2>1. UNCHANGED process /\ lastId + 1 \notin pending
        BY <1>1, <1>2 DEF create_ai_task, Ids
    <2>2. WorkerInv'
        BY <1>0, <1>1, <1>2, <2>1, CreateUpdate DEF WorkerInv, process, Executing
    <2>3. ListInv'
        BY <1>0, <1>1, <1>2, <2>1, CreateUpdate DEF ListInv, process
    <2>4. \A i \in Ids' : RowInv(i)'
        BY <1>0, <1>1, <1>2, CreateUpdate DEF RowInv
    <2>. QED  BY <1>0, <1>2, <2>2, <2>3, <2>4, CreateUpdate DEF IInv
<1>3. ASSUME NEW i \in waiting, Elapse(i) PROVE IInv'
    <2>1. TypeOK'
        BY <1>0, <1>3 DEF Elapse, TypeOK, Ids, columns, progress, process
    <2>. QED
        BY <1>0, <1>3, <2>1
        DEF Elapse, IInv, WorkerInv, ListInv, RowInv, Ids, columns, progress, process
<1>4. CASE get_pending_tasks
    <2>1. TypeOK'
        BY <1>0, <1>1, <1>4
        DEF get_pending_tasks, Goto, TypeOK, Ids, columns, progress
    <2>. QED
        BY <1>0, <1>1, <1>4, <2>1
        DEF get_pending_tasks, Goto, IInv, WorkerInv, ListInv, RowInv, Ids, columns,
            progress, Executing
<1>5. CASE EndOfPoll \/ Crash
    <2>1. /\ UNCHANGED <<columns, status, retries, waiting, progress>>
          /\ Goto("sleep", 0) /\ pending' \subseteq pending /\ pending' = {}
          /\ faults' \in 0 .. MaxFaults
        BY <1>0, <1>5 DEF EndOfPoll, Crash, Fault, TypeOK
    <2>2. TypeOK'
        BY <1>0, <1>1, <2>1 DEF Goto, TypeOK, Ids, columns, progress
    <2>. QED
        BY <1>0, <1>1, <2>1, <2>2
        DEF Goto, IInv, WorkerInv, ListInv, RowInv, Ids, columns, progress, Executing
<1>6. ASSUME NEW i \in pending, Take(i) PROVE IInv'
    <2>1. TypeOK'
        BY <1>0, <1>1, <1>6 DEF Take, Goto, TypeOK, Ids, columns, progress, Executing
    <2>. QED
        BY <1>0, <1>1, <1>6, <2>1
        DEF Take, Goto, IInv, WorkerInv, ListInv, RowInv, Ids, columns, progress,
            Executing
<1>7. CASE Start
    <2>1. /\ pc = "starting" /\ pc' = "running" /\ cur \in pending /\ cur \in Ids
          /\ UNCHANGED <<columns, retries, waiting, outcomes, pending, cur, faults>>
          /\ status' = [status EXCEPT ![cur] = "running"]
          /\ attempts' = [attempts EXCEPT ![cur] = @ + 1]
          /\ done' = [done EXCEPT ![cur] = 0]
          /\ status[cur] \in {"pending", "retrying"}
        BY <1>0, <1>1, <1>7
        DEF Start, transition_task, Goto, WorkerInv, ListInv, Executing
    <2>2. TypeOK'
        <3>1. status' \in [Ids -> Statuses]
            BY <1>0, <2>1 DEF TypeOK, Statuses, ACTIVE_TASK_STATUSES
        <3>2. attempts' \in [Ids -> Nat] /\ done' \in [Ids -> Nat]
            BY <1>0, <2>1 DEF TypeOK
        <3>. QED  BY <1>0, <2>1, <3>1, <3>2 DEF TypeOK, Ids, columns, Executing
    <2>3. WorkerInv' /\ ListInv'
        BY <1>0, <1>1, <2>1 DEF WorkerInv, ListInv, TypeOK, Executing
    <2>4. ASSUME NEW i \in Ids PROVE RowInv(i)'
        <3>1. CASE i = cur
            <4>1. /\ status'[i] = "running" /\ attempts'[i] = attempts[i] + 1
                  /\ UNCHANGED <<retries, outcomes>> /\ status[i] \in {"pending", "retrying"}
                  /\ attempts[i] \in Nat /\ retries[i] \in Nat /\ outcomes[i] \in Nat
                BY <1>0, <2>1, <3>1 DEF TypeOK
            <4>. QED  BY <1>0, <4>1 DEF RowInv
        <3>2. CASE i # cur
            <4>1. /\ status'[i] = status[i] /\ attempts'[i] = attempts[i]
                  /\ done'[i] = done[i] /\ UNCHANGED <<retries, outcomes, tools>>
                BY <1>0, <2>1, <3>2 DEF TypeOK, columns
            <4>. QED  BY <1>0, <4>1 DEF RowInv
        <3>. QED  BY <3>1, <3>2
    <2>. QED  BY <2>1, <2>2, <2>3, <2>4 DEF IInv, Ids, columns
<1>8. ASSUME NEW new \in {"cancelled", "completed"},
             pc = "running",
             transition_task(new),
             new = "completed" => tools[cur] > 0 /\ done[cur] = tools[cur],
             \/ new = "cancelled" /\ Leave
             \/ new = "completed" /\ Goto("reporting", cur) /\ pending' = pending,
             UNCHANGED <<columns, retries, waiting, progress, faults>>
      PROVE  IInv'
    <2>1. /\ status' = [status EXCEPT ![cur] = new] /\ cur \in Ids /\ cur \in pending
          /\ status[cur] = "running" /\ new \in Statuses /\ outcomes[cur] = 0
        BY <1>0, <1>1, <1>8
        DEF transition_task, WorkerInv, RowInv, Executing, Statuses, Terminal
    <2>2. /\ pending' \subseteq pending /\ pc' \in {"scan", "reporting"}
          /\ pc' = "scan" => cur' = 0 /\ cur \notin pending'
          /\ pc' = "reporting" => cur' = cur /\ new = "completed" /\ pending' = pending
        BY <1>8 DEF Leave, Goto
    <2>3. TypeOK'
        BY <1>0, <1>1, <1>8, <2>1, <2>2
        DEF TypeOK, Ids, columns, progress, Executing
    <2>4. WorkerInv' /\ ListInv'
        BY <1>0, <1>1, <1>8, <2>1, <2>2
        DEF WorkerInv, ListInv, TypeOK, Executing, progress
    <2>5. \A i \in Ids' : RowInv(i)'
        BY <1>0, <1>1, <1>8, <2>1 DEF RowInv, TypeOK, Ids, columns, progress
    <2>. QED  BY <2>3, <2>4, <2>5 DEF IInv
<1>9. CASE CancelToolless
    BY <1>8, <1>9 DEF CancelToolless
<1>10. CASE Complete
    BY <1>8, <1>10 DEF Complete
<1>11. CASE ToolSucceeds
    <2>1. /\ pc = "running" /\ cur \in Ids /\ status[cur] = "running"
          /\ done' = [done EXCEPT ![cur] = @ + 1]
          /\ UNCHANGED <<columns, status, retries, waiting, attempts, outcomes,
                         process, faults>>
        BY <1>0, <1>1, <1>11 DEF ToolSucceeds, WorkerInv, Executing
    <2>2. TypeOK'
        <3>1. done' \in [Ids -> Nat]
            BY <1>0, <2>1 DEF TypeOK
        <3>. QED  BY <1>0, <2>1, <3>1 DEF TypeOK, Ids, columns, process
    <2>3. WorkerInv' /\ ListInv'
        BY <1>0, <2>1 DEF WorkerInv, ListInv, process
    <2>4. ASSUME NEW i \in Ids PROVE RowInv(i)'
        <3>1. status[i] = "completed" => done'[i] = done[i]
            BY <1>0, <2>1 DEF TypeOK
        <3>2. UNCHANGED <<tools, status, retries, attempts, outcomes>>
            BY <2>1 DEF columns
        <3>. QED  BY <1>0, <3>1, <3>2 DEF RowInv
    <2>. QED  BY <2>1, <2>2, <2>3, <2>4 DEF IInv, Ids, columns
<1>12. CASE ToolFails \/ RaiseInsideTry
    <2>1. /\ pc = "running" /\ pc' = "failing"
          /\ UNCHANGED <<columns, status, retries, waiting, progress, pending, cur>>
          /\ faults' \in 0 .. MaxFaults
        BY <1>0, <1>12 DEF ToolFails, RaiseInsideTry, Fault, Goto, TypeOK
    <2>2. TypeOK'
        BY <1>0, <2>1 DEF TypeOK, Ids, columns, progress, Executing
    <2>. QED
        BY <1>0, <1>1, <2>1, <2>2
        DEF IInv, WorkerInv, ListInv, RowInv, Ids, columns, progress, Executing
<1>13. CASE Report
    <2>1. /\ cur \in Ids /\ cur \in pending /\ pc = "reporting" /\ Leave
          /\ status[cur] = "completed" /\ outcomes[cur] = 0
          /\ outcomes' = [outcomes EXCEPT ![cur] = @ + 1]
          /\ UNCHANGED <<columns, status, retries, waiting, attempts, done, faults>>
        BY <1>0, <1>1, <1>13 DEF Report, WorkerInv, Executing
    <2>2. TypeOK'
        <3>1. outcomes' \in [Ids -> Nat]
            BY <1>0, <2>1 DEF TypeOK
        <3>. QED
            BY <1>0, <1>1, <2>1, <3>1 DEF Leave, Goto, TypeOK, Ids, columns
    <2>3. WorkerInv' /\ ListInv'
        BY <1>0, <1>1, <2>1 DEF Leave, Goto, WorkerInv, ListInv, Executing
    <2>4. ASSUME NEW i \in Ids PROVE RowInv(i)'
        <3>1. outcomes'[i] = IF i = cur THEN 1 ELSE outcomes[i]
            BY <1>0, <2>1 DEF TypeOK
        <3>2. UNCHANGED <<tools, status, retries, attempts, done>>
            BY <2>1 DEF columns
        <3>. QED  BY <1>0, <2>1, <3>1, <3>2 DEF RowInv
    <2>. QED  BY <2>1, <2>2, <2>3, <2>4 DEF IInv, Ids, columns
<1>14. CASE fail_task
    <2>1. /\ cur \in Ids /\ cur \in pending /\ pc = "failing" /\ Leave
          /\ status[cur] = "running"
          /\ UNCHANGED <<columns, progress, faults>>
        BY <1>0, <1>1, <1>14 DEF fail_task, WorkerInv, Executing
    <2>2. PICK new \in {"retrying", "dead_letter"} :
              /\ status' = [status EXCEPT ![cur] = new]
              /\ new = "retrying" =>
                     /\ retries[cur] < MaxRetries
                     /\ retries' = [retries EXCEPT ![cur] = @ + 1]
                     /\ waiting' = waiting \cup {cur}
              /\ new = "dead_letter" =>
                     ~(retries[cur] < MaxRetries) /\ UNCHANGED <<retries, waiting>>
        BY <1>14 DEF fail_task
    <2>3. new \in Statuses
        BY DEF Statuses, ACTIVE_TASK_STATUSES, Terminal
    <2>4. WorkerInv' /\ ListInv'
        BY <1>0, <1>1, <2>1, <2>2
        DEF Leave, Goto, WorkerInv, ListInv, TypeOK, Executing
    <2>5. /\ status' \in [Ids -> Statuses] /\ waiting' \in SUBSET Ids
          /\ retries' \in [Ids -> Nat]
        <3>1. status' \in [Ids -> Statuses]
            BY <1>0, <2>1, <2>2, <2>3 DEF TypeOK
        <3>2. CASE new = "retrying"
            <4>1. waiting' = waiting \cup {cur}
                BY <2>2, <3>2
            <4>2. retries' = [retries EXCEPT ![cur] = @ + 1]
                BY <2>2, <3>2
            <4>3. waiting' \in SUBSET Ids
                BY <1>1, <2>1, <4>1
            <4>4. retries' \in [Ids -> Nat]
                BY <1>0, <2>1, <4>2 DEF TypeOK
            <4>. QED  BY <3>1, <4>3, <4>4
        <3>3. CASE new = "dead_letter"
            BY <1>0, <2>2, <3>1, <3>3 DEF TypeOK
        <3>. QED  BY <3>2, <3>3
    <2>6. TypeOK'
        BY <1>0, <1>1, <2>1, <2>5 DEF Leave, Goto, TypeOK, Ids, columns, progress
    <2>7. ASSUME NEW i \in Ids PROVE RowInv(i)'
        <3>1. CASE i = cur
            <4>1. /\ status'[i] = new
                  /\ UNCHANGED <<attempts, outcomes, done, tools>>
                  /\ attempts[i] = retries[i] + 1 /\ outcomes[i] = 0
                  /\ retries[i] <= MaxRetries /\ retries[i] \in Nat
                BY <1>0, <2>1, <2>2, <3>1 DEF TypeOK, RowInv, columns, progress
            <4>2. CASE new = "retrying"
                <5>1. retries'[i] = retries[i] + 1 /\ retries[i] < MaxRetries
                    BY <1>0, <2>1, <2>2, <3>1, <4>2 DEF TypeOK
                <5>. QED  BY <1>0, <4>1, <4>2, <5>1 DEF RowInv
            <4>3. CASE new = "dead_letter"
                <5>1. retries'[i] = retries[i] /\ ~(retries[i] < MaxRetries)
                    BY <2>2, <3>1, <4>3
                <5>. QED  BY <1>0, <4>1, <4>3, <5>1 DEF RowInv
            <4>. QED  BY <2>2, <4>2, <4>3
        <3>2. CASE i # cur
            <4>1. status'[i] = status[i] /\ retries'[i] = retries[i]
                BY <1>0, <2>1, <2>2, <3>2 DEF TypeOK
            <4>. QED  BY <1>0, <2>1, <4>1 DEF RowInv, columns, progress
        <3>. QED  BY <3>1, <3>2
    <2>. QED  BY <2>1, <2>4, <2>6, <2>7 DEF IInv, Ids, columns
<1>15. CASE RaiseOutsideTry
    <2>1. /\ UNCHANGED <<columns, status, retries, waiting, progress>>
          /\ Leave /\ faults' \in 0 .. MaxFaults
        BY <1>0, <1>15 DEF RaiseOutsideTry, Fault, TypeOK
    <2>2. TypeOK'
        BY <1>0, <1>1, <2>1 DEF Leave, Goto, TypeOK, Ids, columns, progress, Executing
    <2>. QED
        BY <1>0, <1>1, <2>1, <2>2
        DEF Leave, Goto, IInv, WorkerInv, ListInv, RowInv, Ids, columns, progress,
            Executing
<1>16. CASE UNCHANGED vars
    BY <1>0, <1>16
    DEF IInv, TypeOK, WorkerInv, ListInv, RowInv, Ids, vars, columns, progress, process
<1>. QED
    BY <1>2, <1>3, <1>4, <1>5, <1>6, <1>7, <1>9, <1>10, <1>11, <1>12, <1>13,
       <1>14, <1>15, <1>16
    DEF Next, Creation, Time, ExecutorStep

\* The invariant holds always.
LEMMA InvCorrect == Spec => []IInv
<1>1. IInv /\ [Next]_vars => IInv'
    BY StepInv
<1>. QED  BY InitInv, <1>1, PTL DEF Spec

-----------------------------------------------------------------------------

\* Every column and the executor's state keep their types.
THEOREM TypeCorrect == Spec => []TypeOK
<1>1. IInv => TypeOK
    BY DEF IInv
<1>. QED  BY InvCorrect, <1>1, PTL

\* For every MAX_RETRIES, number of tasks and number of faults, a task is
\* taken up at most once per retry and once more, and given up only after
\* that.
THEOREM AttemptsBounded == Spec => []AttemptsAccounted
<1>1. IInv => AttemptsAccounted
    BY DEF IInv, RowInv, AttemptsAccounted
<1>. QED  BY InvCorrect, <1>1, PTL

\* "completed" means that all tools succeeded in one attempt.
THEOREM CompletionSound == Spec => []CompletedRanAllTools
<1>1. IInv => CompletedRanAllTools
    BY DEF IInv, RowInv, CompletedRanAllTools
<1>. QED  BY InvCorrect, <1>1, PTL

\* A success is reported once and for completed tasks only.
THEOREM OutcomeSound == Spec => []OutcomeOfCompletedOnly
<1>1. IInv => OutcomeOfCompletedOnly
    BY DEF IInv, RowInv, OutcomeOfCompletedOnly
<1>. QED  BY InvCorrect, <1>1, PTL

-----------------------------------------------------------------------------
(* How a status changes                                                    *)

\* No step but the creation of another row changes the table's ids, and only
\* rows that are active change their status.
LEMMA StatusStep ==
    ASSUME IInv, [Next]_vars
    PROVE  /\ \A i \in Ids : /\ owner'[i] = owner[i]
                             /\ status'[i] = status[i] \/ status[i] \in ACTIVE_TASK_STATUSES
           /\ \/ Ids' = Ids
              \/ \E w \in WorkflowIds, n \in 0 .. MaxTools : create_ai_task(w, n)
<1>0. TypeOK /\ WorkerInv /\ ListInv /\ pending \subseteq Ids
    BY DEF IInv, TypeOK
<1>1. ASSUME NEW w \in WorkflowIds, NEW n \in 0 .. MaxTools, create_ai_task(w, n)
      PROVE  \A i \in Ids : owner'[i] = owner[i] /\ status'[i] = status[i]
    BY <1>0, <1>1, CreateUpdate
<1>2. CASE ~\E w \in WorkflowIds, n \in 0 .. MaxTools : create_ai_task(w, n)
    <2>1. UNCHANGED columns
        BY <1>2
        DEF Next, Creation, Time, Elapse, ExecutorStep, get_pending_tasks, EndOfPoll,
            Take, Start, CancelToolless, ToolSucceeds, ToolFails, Complete, Report,
            fail_task, RaiseOutsideTry, RaiseInsideTry, Crash, vars
    <2>2. CASE UNCHANGED status
        BY <2>1, <2>2 DEF columns, Ids
    <2>3. CASE Start \/ CancelToolless \/ Complete \/ fail_task
        <3>1. cur \in Ids /\ status[cur] \in ACTIVE_TASK_STATUSES
            BY <1>0, <2>3
            DEF Start, CancelToolless, Complete, fail_task, WorkerInv, ListInv,
                Executing, ACTIVE_TASK_STATUSES
        <3>2. \E new \in Statuses : status' = [status EXCEPT ![cur] = new]
            BY <2>3
            DEF Start, CancelToolless, Complete, fail_task, transition_task,
                Statuses, ACTIVE_TASK_STATUSES, Terminal
        <3>. QED  BY <1>0, <2>1, <3>1, <3>2 DEF TypeOK, columns, Ids
    <2>. QED
        BY <1>2, <2>2, <2>3
        DEF Next, Creation, Time, Elapse, ExecutorStep, get_pending_tasks, EndOfPoll,
            Take, ToolSucceeds, ToolFails, Report, RaiseOutsideTry, RaiseInsideTry,
            Crash, vars
<1>. QED  BY <1>1, <1>2

\* Every step keeps to one task of a workflow that can still run.
LEMMA OneActiveStep == IInv /\ OneActiveTask /\ [Next]_vars => OneActiveTask'
<1> SUFFICES ASSUME IInv, OneActiveTask, [Next]_vars PROVE OneActiveTask'
    OBVIOUS
<1>1. CASE Ids' = Ids
    BY <1>1, StatusStep DEF OneActiveTask
<1>2. ASSUME NEW w \in WorkflowIds, NEW n \in 0 .. MaxTools, create_ai_task(w, n)
      PROVE  OneActiveTask'
    <2>1. TypeOK /\ ~task_exists(w)
        BY <1>2 DEF IInv, create_ai_task
    <2>. QED
        BY <1>2, <2>1, CreateUpdate DEF OneActiveTask, task_exists
<1>. QED  BY <1>1, <1>2, StatusStep

\* At any time at most one task of a workflow can still run.
THEOREM OneActive == Spec => []OneActiveTask
<1>1. Init => OneActiveTask
    BY DEF Init, OneActiveTask, Ids
<1>2. IInv /\ OneActiveTask /\ [Next]_vars => OneActiveTask'
    BY OneActiveStep
<1>. QED  BY InvCorrect, <1>1, <1>2, PTL DEF Spec

-----------------------------------------------------------------------------
(* The refinement                                                          *)

\* The ids of tasks are those of the bounded queue.
LEMMA IdsBounded == TypeOK => Ids \subseteq 1 .. MaxTasks
<1> SUFFICES ASSUME TypeOK PROVE Ids \subseteq 1 .. MaxTasks
    OBVIOUS
<1>1. lastId \in 0 .. MaxTasks /\ MaxTasks \in Nat
    BY NumbersAssumption DEF TypeOK
<1>. QED  BY <1>1 DEF Ids

\* What the abstract queue sees of a step that writes the status of one row.
LEMMA OnePhase ==
    ASSUME TypeOK, NEW i \in Ids, NEW st,
           lastId' = lastId, status' = [status EXCEPT ![i] = st]
    PROVE  phases' = [phases EXCEPT ![i] = View(st)]
<1>1. /\ status \in [Ids -> Statuses] /\ Ids' = Ids /\ Ids \subseteq 1 .. MaxTasks
    BY IdsBounded DEF TypeOK, Ids
<1>2. /\ status'[i] = st
      /\ \A j \in Ids \ {i} : status'[j] = status[j]
    BY <1>1
<1>. QED  BY <1>1, <1>2 DEF phases, View

\* A step that touches neither column is invisible.
LEMMA Invisible ==
    ASSUME UNCHANGED <<lastId, status, attempts>>
    PROVE  UNCHANGED Queue!vars
BY DEF Queue!vars, phases, takes, Ids, View

\* Where ids and attempts stay, so do the takes of the queue.
LEMMA SameTakes ==
    ASSUME UNCHANGED <<lastId, attempts>>
    PROVE  UNCHANGED takes
BY DEF takes, Ids

\* The table begins as the bounded queue does.
LEMMA InitRefines == Init => Queue!Init
<1> SUFFICES ASSUME Init PROVE Queue!Init
    OBVIOUS
<1>1. Ids = {}
    BY DEF Init, Ids
<1>. QED  BY <1>1 DEF Queue!Init, phases, takes

\* A row that was taken up is in the abstract phase "running", with as many
\* attempts as its counter of retries says.
LEMMA RunningRow ==
    ASSUME IInv, NEW i \in Ids, status[i] = "running"
    PROVE  /\ i \in 1 .. MaxTasks
           /\ phases[i] = "running"
           /\ takes[i] = attempts[i]
           /\ attempts[i] = retries[i] + 1
           /\ retries[i] \in Nat
           /\ retries[i] <= MaxRetries
<1>1. TypeOK /\ RowInv(i)
    BY DEF IInv
<1>2. i \in 1 .. MaxTasks
    BY <1>1, IdsBounded
<1>. QED  BY <1>1, <1>2 DEF phases, takes, View, RowInv, TypeOK

\* Every step of the table is a step of the bounded queue, or none.
LEMMA StepRefines == IInv /\ [Next]_vars => [Queue!Next]_Queue!vars
<1> SUFFICES ASSUME IInv, [Next]_vars PROVE [Queue!Next]_Queue!vars
    OBVIOUS
<1>0. /\ TypeOK /\ WorkerInv /\ ListInv /\ pending \subseteq Ids
      /\ \A i \in Ids : RowInv(i)
      /\ MaxRetries \in Nat /\ Ids \subseteq 1 .. MaxTasks
    BY NumbersAssumption, IdsBounded DEF IInv, TypeOK
<1>1. ASSUME NEW w \in WorkflowIds, NEW n \in 0 .. MaxTools, create_ai_task(w, n)
      PROVE  Queue!Next
    <2> DEFINE k == lastId + 1
    <2>0. k \in 1 .. MaxTasks /\ k \notin Ids
        <3>1. lastId \in Nat /\ lastId < MaxTasks /\ MaxTasks \in Nat
            BY <1>0, <1>1, NumbersAssumption DEF create_ai_task, TypeOK
        <3>. QED  BY <3>1 DEF Ids
    <2>1. /\ Ids' = Ids \cup {k}
          /\ \A i \in Ids : status'[i] = status[i] /\ attempts'[i] = attempts[i]
          /\ status'[k] = "pending" /\ attempts'[k] = 0
        BY <1>0, <1>1, CreateUpdate
    <2>2. phases[k] = "absent"
        BY <2>0 DEF phases
    <2>3. phases' = [phases EXCEPT ![k] = "ready"]
        BY <2>0, <2>1 DEF phases, View
    <2>4. takes' = takes
        BY <2>0, <2>1 DEF takes
    <2>. QED  BY <2>0, <2>2, <2>3, <2>4 DEF Queue!Next, Queue!Submit, Queue!Move
<1>2. CASE Start
    <2>1. /\ cur \in Ids /\ status[cur] \in {"pending", "retrying"}
          /\ lastId' = lastId
          /\ status' = [status EXCEPT ![cur] = "running"]
          /\ attempts' = [attempts EXCEPT ![cur] = @ + 1]
        BY <1>0, <1>2
        DEF Start, transition_task, Goto, WorkerInv, ListInv, Executing, columns
    <2>2. /\ phases[cur] = "ready" /\ takes[cur] = attempts[cur]
          /\ attempts[cur] \in Nat /\ attempts[cur] < MaxRetries + 1
        <3>1. phases[cur] = "ready" /\ takes[cur] = attempts[cur]
            BY <1>0, <2>1 DEF phases, takes, View
        <3>2. attempts[cur] \in Nat /\ retries[cur] \in Nat
            BY <1>0, <2>1 DEF TypeOK
        <3>3. attempts[cur] <= retries[cur] /\ retries[cur] <= MaxRetries
            BY <1>0, <2>1 DEF RowInv
        <3>. QED  BY <1>0, <3>1, <3>2, <3>3
    <2>3. phases' = [phases EXCEPT ![cur] = "running"]
        BY <1>0, <2>1, OnePhase DEF View
    <2>4. takes' = [takes EXCEPT ![cur] = @ + 1]
        <3>1. /\ attempts \in [Ids -> Nat] /\ Ids' = Ids
            BY <1>0, <2>1 DEF TypeOK, Ids
        <3>2. /\ attempts'[cur] = attempts[cur] + 1
              /\ \A j \in Ids \ {cur} : attempts'[j] = attempts[j]
            BY <2>1, <3>1
        <3>. QED  BY <1>0, <2>1, <3>1, <3>2 DEF takes
    <2>. QED
        BY <1>0, <2>1, <2>2, <2>3, <2>4 DEF Queue!Next, Queue!Attempt, Queue!Move
<1>3. CASE CancelToolless
    <2>1. /\ cur \in Ids /\ status[cur] = "running"
          /\ UNCHANGED <<lastId, attempts>>
          /\ status' = [status EXCEPT ![cur] = "cancelled"]
        BY <1>0, <1>3
        DEF CancelToolless, transition_task, WorkerInv, Executing, columns, progress
    <2>2. phases' = [phases EXCEPT ![cur] = "dropped"]
        BY <1>0, <2>1, OnePhase DEF View
    <2>. QED
        BY <2>1, <2>2, RunningRow, SameTakes DEF Queue!Next, Queue!Drop, Queue!Move
<1>4. CASE Complete
    <2>1. /\ cur \in Ids /\ status[cur] = "running"
          /\ UNCHANGED <<lastId, attempts>>
          /\ status' = [status EXCEPT ![cur] = "completed"]
        BY <1>0, <1>4
        DEF Complete, transition_task, WorkerInv, Executing, columns, progress
    <2>2. phases' = [phases EXCEPT ![cur] = "done"]
        BY <1>0, <2>1, OnePhase DEF View
    <2>. QED
        BY <2>1, <2>2, RunningRow, SameTakes DEF Queue!Next, Queue!Succeed, Queue!Move
<1>5. CASE fail_task
    <2>1. /\ cur \in Ids /\ status[cur] = "running" /\ UNCHANGED <<lastId, attempts>>
        BY <1>0, <1>5 DEF fail_task, WorkerInv, Executing, columns, progress
    <2>2. CASE retries[cur] < MaxRetries
        <3>1. status' = [status EXCEPT ![cur] = "retrying"]
            BY <1>5, <2>2 DEF fail_task
        <3>2. phases' = [phases EXCEPT ![cur] = "ready"]
            BY <1>0, <2>1, <3>1, OnePhase DEF View
        <3>3. takes[cur] < MaxRetries + 1
            BY <1>0, <2>1, <2>2, RunningRow
        <3>. QED
            BY <2>1, <3>2, <3>3, RunningRow, SameTakes
            DEF Queue!Next, Queue!Retry, Queue!Move
    <2>3. CASE ~(retries[cur] < MaxRetries)
        <3>1. status' = [status EXCEPT ![cur] = "dead_letter"]
            BY <1>5, <2>3 DEF fail_task
        <3>2. phases' = [phases EXCEPT ![cur] = "given up"]
            BY <1>0, <2>1, <3>1, OnePhase DEF View
        <3>3. takes[cur] = MaxRetries + 1
            BY <1>0, <2>1, <2>3, RunningRow
        <3>. QED
            BY <2>1, <3>2, <3>3, RunningRow, SameTakes
            DEF Queue!Next, Queue!GiveUp, Queue!Move
    <2>. QED  BY <2>2, <2>3
<1>6. CASE \/ Time \/ get_pending_tasks \/ EndOfPoll \/ \E i \in pending : Take(i)
           \/ ToolSucceeds \/ ToolFails \/ Report
           \/ RaiseOutsideTry \/ RaiseInsideTry \/ Crash \/ UNCHANGED vars
    <2>1. UNCHANGED <<lastId, status, attempts>>
        BY <1>6
        DEF Time, Elapse, get_pending_tasks, EndOfPoll, Take, ToolSucceeds, ToolFails,
            Report, RaiseOutsideTry, RaiseInsideTry, Crash, vars, columns, progress
    <2>. QED  BY <2>1, Invisible
<1>. QED
    BY <1>1, <1>2, <1>3, <1>4, <1>5, <1>6 DEF Next, Creation, ExecutorStep

\* For every MAX_RETRIES and every number of tasks and faults, the table and
\* its executor implement the queue of bounded retries; that an ended task
\* has ended for good, for every step of every process, is part of it.
THEOREM Refinement == Spec => ImplementsBoundedRetries
<1>1. IInv /\ [Next]_vars => [Queue!Next]_Queue!vars
    BY StepRefines
<1>. QED
    BY InitRefines, InvCorrect, <1>1, PTL
    DEF Spec, ImplementsBoundedRetries, Queue!Spec
=============================================================================
