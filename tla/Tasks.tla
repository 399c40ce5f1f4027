--------------------------------- MODULE Tasks ---------------------------------
(***************************************************************************)
(* task_service.py and task_executor.py: the table ai_tasks, the creation  *)
(* of tasks by the workflow worker, and the one process that runs them.    *)
(*                                                                         *)
(* The executor is the only process that changes the status of a task, so  *)
(* the SELECT and the UPDATE of transition_task and of fail_task are one   *)
(* step; everything else a task goes through is a step of its own, and any *)
(* database call may raise and any step may be the executor's last.        *)
(***************************************************************************)
EXTENDS Naturals

CONSTANTS WorkflowIds,  \* the workflows tasks are created for
          MaxRetries,   \* MAX_RETRIES
          MaxTools,     \* bound: tools one task resolves to
          MaxTasks,     \* bound: rows ever inserted
          MaxFaults     \* bound: crashes and failed database calls

ASSUME NumbersAssumption ==
    /\ MaxRetries \in Nat
    /\ MaxTools \in Nat
    /\ MaxTasks \in Nat
    /\ MaxFaults \in Nat

VARIABLES lastId,     \* the AUTOINCREMENT counter; the columns of a row are
          owner,      \*   workflow_id,
          tools,      \*   the number of tools task_type and payload resolve to,
          status,     \*   status,
          retries,    \*   retry_count,
          waiting,    \*   and the ids whose next_retry_at is in the future
          attempts,   \* how often the executor took the task up
          done,       \* tools that succeeded in the last attempt
          outcomes,   \* completed_success rows in planner_outcomes
          pending,    \* the rows the executor has yet to visit in this poll
          pc, cur,    \* its program counter, the task it executes or 0
          faults      \* faults so far

columns  == <<lastId, owner, tools>>
progress == <<attempts, done, outcomes>>
process  == <<pending, pc, cur>>
vars     == <<columns, status, retries, waiting, progress, process, faults>>

Ids == 1 .. lastId
Terminal == {"completed", "cancelled", "dead_letter"}
ACTIVE_TASK_STATUSES == {"pending", "running", "retrying"}
Statuses == ACTIVE_TASK_STATUSES \cup Terminal

VALID_TASK_TRANSITIONS ==
    [pending     |-> {"running", "cancelled"},
     running     |-> {"completed", "failed", "cancelled", "retrying"},
     failed      |-> {"retrying", "dead_letter", "cancelled"},
     retrying    |-> {"running", "failed", "dead_letter", "cancelled"},
     completed   |-> {},
     cancelled   |-> {},
     dead_letter |-> {}]

Executing == {"starting", "running", "failing", "reporting"}

TypeOK ==
    /\ lastId \in 0 .. MaxTasks
    /\ owner \in [Ids -> WorkflowIds]
    /\ tools \in [Ids -> 0 .. MaxTools]
    /\ status \in [Ids -> Statuses]
    /\ retries \in [Ids -> Nat]
    /\ waiting \in SUBSET Ids
    /\ attempts \in [Ids -> Nat]
    /\ done \in [Ids -> Nat]
    /\ outcomes \in [Ids -> Nat]
    /\ pending \in SUBSET Ids
    /\ pc \in {"sleep", "scan"} \cup Executing
    /\ cur \in 0 .. lastId
    /\ faults \in 0 .. MaxFaults

Empty == [i \in {} |-> 0]

Init ==
    /\ lastId = 0
    /\ owner = Empty
    /\ tools = Empty
    /\ status = Empty
    /\ retries = Empty
    /\ waiting = {}
    /\ attempts = Empty
    /\ done = Empty
    /\ outcomes = Empty
    /\ pending = {}
    /\ pc = "sleep"
    /\ cur = 0
    /\ faults = 0

-----------------------------------------------------------------------------
(* create_ai_task, called by the workflow worker, and time                 *)

task_exists(w) ==
    \E i \in Ids : owner[i] = w /\ status[i] \in ACTIVE_TASK_STATUSES

Append1(f, x) == [i \in 1 .. lastId + 1 |-> IF i \in Ids THEN f[i] ELSE x]

create_ai_task(w, n) ==
    /\ lastId < MaxTasks
    /\ ~task_exists(w)
    /\ lastId' = lastId + 1
    /\ owner' = Append1(owner, w)
    /\ tools' = Append1(tools, n)
    /\ status' = Append1(status, "pending")
    /\ retries' = Append1(retries, 0)
    /\ attempts' = Append1(attempts, 0)
    /\ done' = Append1(done, 0)
    /\ outcomes' = Append1(outcomes, 0)
    /\ UNCHANGED <<waiting, process, faults>>

\* The delay is at most RETRY_CAP_SEC.
Elapse(i) ==
    /\ i \in waiting
    /\ waiting' = waiting \ {i}
    /\ UNCHANGED <<columns, status, retries, progress, process, faults>>

-----------------------------------------------------------------------------
(* The executor's loop and execute_task                                    *)

Goto(p, i) == pc' = p /\ cur' = i

Leave == /\ Goto("scan", 0)
         /\ pending' = pending \ {cur}

get_pending_tasks ==
    /\ pc = "sleep"
    /\ pending' = {i \in Ids : status[i] \in {"pending", "retrying"}} \ waiting
    /\ Goto("scan", 0)
    /\ UNCHANGED <<columns, status, retries, waiting, progress, faults>>

EndOfPoll ==
    /\ pc = "scan"
    /\ pending = {}
    /\ Goto("sleep", 0)
    /\ UNCHANGED <<columns, status, retries, waiting, progress, pending, faults>>

Take(i) ==
    /\ pc = "scan"
    /\ i \in pending
    /\ Goto("starting", i)
    /\ UNCHANGED <<columns, status, retries, waiting, progress, pending, faults>>

\* transition_task: refused (ValueError) when the table has no such edge.
transition_task(new) ==
    /\ new \in VALID_TASK_TRANSITIONS[status[cur]]
    /\ status' = [status EXCEPT ![cur] = new]

\* Every attempt begins with the first tool again.
Start ==
    /\ pc = "starting"
    /\ transition_task("running")
    /\ attempts' = [attempts EXCEPT ![cur] = @ + 1]
    /\ done' = [done EXCEPT ![cur] = 0]
    /\ Goto("running", cur)
    /\ UNCHANGED <<columns, retries, waiting, outcomes, pending, faults>>

\* NoToolsResolvedError.
CancelToolless ==
    /\ pc = "running"
    /\ tools[cur] = 0
    /\ transition_task("cancelled")
    /\ Leave
    /\ UNCHANGED <<columns, retries, waiting, progress, faults>>

ToolSucceeds ==
    /\ pc = "running"
    /\ done[cur] < tools[cur]
    /\ done' = [done EXCEPT ![cur] = @ + 1]
    /\ UNCHANGED <<columns, status, retries, waiting, attempts, outcomes,
                   process, faults>>

\* Mutation: a result with success = False is taken for an output.
ToolFailureIgnored ==
    /\ pc = "running"
    /\ done[cur] < tools[cur]
    /\ transition_task("completed")
    /\ Goto("reporting", cur)
    /\ UNCHANGED <<columns, retries, waiting, progress, pending, faults>>

\* The tool raises or returns success = False.
ToolFails ==
    /\ pc = "running"
    /\ done[cur] < tools[cur]
    /\ Goto("failing", cur)
    /\ UNCHANGED <<columns, status, retries, waiting, progress, pending, faults>>

\* complete_task up to the transition.
Complete ==
    /\ pc = "running"
    /\ tools[cur] > 0
    /\ done[cur] = tools[cur]
    /\ transition_task("completed")
    /\ Goto("reporting", cur)
    /\ UNCHANGED <<columns, retries, waiting, progress, pending, faults>>

\* Mutation: after the outcome the transition is tried once more and fails.
ReportThenFail ==
    /\ pc = "reporting"
    /\ outcomes' = [outcomes EXCEPT ![cur] = @ + 1]
    /\ Goto("failing", cur)
    /\ UNCHANGED <<columns, status, retries, waiting, attempts, done, pending,
                   faults>>

\* The rest of it: the outcome for the planner's memory.
Report ==
    /\ pc = "reporting"
    /\ outcomes' = [outcomes EXCEPT ![cur] = @ + 1]
    /\ Leave
    /\ UNCHANGED <<columns, status, retries, waiting, attempts, done, faults>>

\* Mutation: one retry too many.
FailOffByOne ==
    /\ pc = "failing"
    /\ IF retries[cur] <= MaxRetries
       THEN /\ status' = [status EXCEPT ![cur] = "retrying"]
            /\ retries' = [retries EXCEPT ![cur] = @ + 1]
            /\ waiting' = waiting \cup {cur}
       ELSE /\ status' = [status EXCEPT ![cur] = "dead_letter"]
            /\ UNCHANGED <<retries, waiting>>
    /\ Leave
    /\ UNCHANGED <<columns, progress, faults>>

\* Mutation: the last failure leaves the status for a supervisor to handle.
FailWithoutDeadLetter ==
    /\ pc = "failing"
    /\ IF retries[cur] < MaxRetries
       THEN /\ status' = [status EXCEPT ![cur] = "retrying"]
            /\ retries' = [retries EXCEPT ![cur] = @ + 1]
            /\ waiting' = waiting \cup {cur}
       ELSE UNCHANGED <<status, retries, waiting>>
    /\ Leave
    /\ UNCHANGED <<columns, progress, faults>>

\* fail_task writes the status without asking the transition table.
fail_task ==
    /\ pc = "failing"
    /\ IF retries[cur] < MaxRetries
       THEN /\ status' = [status EXCEPT ![cur] = "retrying"]
            /\ retries' = [retries EXCEPT ![cur] = @ + 1]
            /\ waiting' = waiting \cup {cur}
       ELSE /\ status' = [status EXCEPT ![cur] = "dead_letter"]
            /\ UNCHANGED <<retries, waiting>>
    /\ Leave
    /\ UNCHANGED <<columns, progress, faults>>

-----------------------------------------------------------------------------
(* Faults                                                                  *)

Fault == faults < MaxFaults /\ faults' = faults + 1

\* The transition to running, fail_task itself, or the outcome raises: the
\* first two reach the loop's handler, the last is caught on the spot.
RaiseOutsideTry ==
    /\ Fault
    /\ pc \in {"starting", "failing", "reporting"}
    /\ Leave
    /\ UNCHANGED <<columns, status, retries, waiting, progress>>

\* Resolving, logging or completing raises: on to fail_task.
RaiseInsideTry ==
    /\ Fault
    /\ pc = "running"
    /\ Goto("failing", cur)
    /\ UNCHANGED <<columns, status, retries, waiting, progress, pending>>

\* The process ends and is started again by its supervisor.
Crash ==
    /\ Fault
    /\ pc # "sleep"
    /\ Goto("sleep", 0)
    /\ pending' = {}
    /\ UNCHANGED <<columns, status, retries, waiting, progress>>

-----------------------------------------------------------------------------

Creation == \E w \in WorkflowIds, n \in 0 .. MaxTools : create_ai_task(w, n)

Time == \E i \in waiting : Elapse(i)

ExecutorStep == \/ get_pending_tasks
                \/ EndOfPoll
                \/ \E i \in pending : Take(i)
                \/ Start
                \/ CancelToolless
                \/ ToolSucceeds
                \/ ToolFails
                \/ Complete
                \/ Report
                \/ fail_task

Next == Creation \/ Time \/ ExecutorStep \/ RaiseOutsideTry \/ RaiseInsideTry \/ Crash

\* The loop never stops and tools return; every retry time is reached.
Spec == Init /\ [][Next]_vars /\ WF_vars(ExecutorStep) /\ WF_vars(Time)
-----------------------------------------------------------------------------
(* Properties                                                              *)

\* A task is taken up once and then once per retry, never more than
\* MAX_RETRIES + 1 times in all, whatever raises or crashes in between; and it
\* is given up (dead_letter) only after the last of these attempts.
AttemptsAccounted ==
    \A i \in Ids :
        /\ attempts[i] <= retries[i] + 1
        /\ retries[i] <= MaxRetries
        /\ status[i] = "dead_letter" => attempts[i] = MaxRetries + 1

\* A completed task ran every one of its tools with success in its last
\* attempt: no success of an earlier attempt is counted, none is missing.
CompletedRanAllTools ==
    \A i \in Ids :
        status[i] = "completed" => tools[i] > 0 /\ done[i] = tools[i]

\* The planner's memory learns of a success at most once, and only of tasks
\* that are completed (complete_task reports after its transition).
OutcomeOfCompletedOnly ==
    \A i \in Ids : outcomes[i] > 0 => outcomes[i] = 1 /\ status[i] = "completed"

\* A workflow never has two tasks that can still run, also while one of them
\* waits for its retry.
OneActiveTask ==
    \A i, j \in Ids :
        /\ owner[i] = owner[j]
        /\ status[i] \in ACTIVE_TASK_STATUSES
        /\ status[j] \in ACTIVE_TASK_STATUSES
        => i = j

\* A task as an item of the abstract queue.
View(st) ==
    CASE st \in {"pending", "retrying"} -> "ready"
      [] st = "running"     -> "running"
      [] st = "completed"   -> "done"
      [] st = "cancelled"   -> "dropped"
      [] st = "dead_letter" -> "given up"
      [] OTHER              -> "unknown"

phases == [i \in 1 .. MaxTasks |-> IF i \in Ids THEN View(status[i]) ELSE "absent"]
takes  == [i \in 1 .. MaxTasks |-> IF i \in Ids THEN attempts[i] ELSE 0]

Queue == INSTANCE BoundedRetries
             WITH Items <- 1 .. MaxTasks, MaxAttempts <- MaxRetries + 1,
                  phase <- phases, tries <- takes

\* The table and its executor implement a queue of bounded retries: every task is
\* attempted at most MAX_RETRIES + 1 times, is given up only then, and ends for good,
\* although fail_task never asks the transition table.
ImplementsBoundedRetries == Queue!Spec

\* If nothing raises and nothing crashes, every task ends: no one is stuck in
\* "running" or in the retry loop.  (One crash between the transition and the
\* end leaves the task "running" for good: no poll selects it again.)
TasksEnd ==
    [](faults = 0) =>
        \A i \in 1 .. MaxTasks : (i \in Ids) ~> (i \in Ids /\ status[i] \in Terminal)

=============================================================================
