------------------------------ MODULE Workflows ------------------------------
(***************************************************************************)
(* workflow_service.py, the table workflow_instances and the part of the   *)
(* workflow_worker.py loop that executes due rows.                         *)
(*                                                                         *)
(* Creators are the threads that call create_workflow (the listener's      *)
(* pool, API handlers, schedule firing).  The worker is one sequential     *)
(* process.  Every access to listener.db is a transaction of its own, so   *)
(* an action is one statement with the Python around it, and anything may  *)
(* happen between two statements.                                          *)
(***************************************************************************)
EXTENDS Naturals

CONSTANTS Creators,       \* threads that create workflows
          Users,          \* tenants
          Names,          \* workflow names
          CriticalNames,  \* the names in CRITICAL_TASK_MAP
          Entities,       \* (entity_type, entity_id) pairs
          None,           \* a creator that is between two calls
          MaxRows,        \* bound: rows ever inserted
          MaxFaults       \* bound: worker crashes and failed database calls

\* The columns of the unique index, and what the caller passes in metadata:
\* gated is requires_approval without approved.
Request == [user: Users, name: Names, entity: Entities, gated: BOOLEAN]

ASSUME NamesAssumption == CriticalNames \subseteq Names
ASSUME BoundAssumption == MaxRows \in Nat /\ MaxFaults \in Nat
ASSUME NoneAssumption  == None \notin Request

VARIABLES wf,        \* workflow_instances: a function on 1 .. lastId
          lastId,    \* the AUTOINCREMENT counter
          creator,   \* per creator: the row create_workflow is about to insert
          due,       \* the ids whose scheduled_at has passed
          open,      \* the ids whose newest ai_tasks row has not ended yet
          pending,   \* the rows the worker has yet to visit in this poll
          pc, cur,   \* the worker's program counter, the row it executes or 0
          faults     \* faults so far

table   == <<wf, lastId, due>>
process == <<pending, pc, cur>>
vars    == <<table, creator, open, process, faults>>

Ids    == 1 .. lastId
Active == {"scheduled", "running"}
IDEMPOTENT_WORKFLOW_STATUSES == {"scheduled", "running", "completed"}
Statuses == {"scheduled", "running", "completed", "cancelled"}

\* made counts the ai_tasks rows created for this workflow id.
Row == [status: Statuses, user: Users, name: Names, entity: Entities,
        gated: BOOLEAN, made: Nat]

\* Where execute_workflow stands: before, in and after the task creation.
Executing == {"starting", "cancelling", "creating", "completing", "aborting"}

TypeOK ==
    /\ lastId \in 0 .. MaxRows
    /\ wf \in [Ids -> Row]
    /\ creator \in [Creators -> Request \cup {None}]
    /\ due \in SUBSET Ids
    /\ open \in SUBSET Ids
    /\ pending \in SUBSET Ids
    /\ pc \in {"sleep", "scan"} \cup Executing
    /\ cur \in 0 .. lastId
    /\ faults \in 0 .. MaxFaults

Init ==
    /\ wf = [i \in {} |-> None]
    /\ lastId = 0
    /\ creator = [c \in Creators |-> None]
    /\ due = {}
    /\ open = {}
    /\ pending = {}
    /\ pc = "sleep"
    /\ cur = 0
    /\ faults = 0

-----------------------------------------------------------------------------
(* create_workflow and cancel_workflows                                    *)

\* The duplicate check; it does not compare user_id.
workflow_exists(q) ==
    \E i \in Ids : /\ wf[i].name = q.name
                   /\ wf[i].entity = q.entity
                   /\ wf[i].status \in IDEMPOTENT_WORKFLOW_STATUSES

\* The partial unique index, which does: another active row has the key of q.
IndexConflict(q, others) ==
    \E i \in others : /\ wf[i].user = q.user
                      /\ wf[i].name = q.name
                      /\ wf[i].entity = q.entity
                      /\ wf[i].status \in Active

\* A duplicate returns None and changes nothing; a check that finds none goes
\* on to the INSERT with what it decided.
CheckWorkflow(c, q) ==
    /\ creator[c] = None
    /\ lastId < MaxRows
    /\ ~workflow_exists(q)
    /\ creator' = [creator EXCEPT ![c] = q]
    /\ UNCHANGED <<table, open, process, faults>>

NewRow(q) == [status |-> "scheduled", user |-> q.user, name |-> q.name,
              entity |-> q.entity, gated |-> q.gated, made |-> 0]

\* The INSERT succeeds.
InsertWorkflow(c) ==
    /\ creator[c] # None
    /\ lastId < MaxRows
    /\ ~IndexConflict(creator[c], Ids)
    /\ lastId' = lastId + 1
    /\ wf' = [i \in 1 .. lastId + 1 |->
                 IF i \in Ids THEN wf[i] ELSE NewRow(creator[c])]
    /\ due' \in {due, due \cup {lastId + 1}}     \* delay_days = 0 or not
    /\ creator' = [creator EXCEPT ![c] = None]
    /\ UNCHANGED <<open, process, faults>>

\* The INSERT raises: IntegrityError (the conflicting row is found again in
\* the same transaction, so the call returns None) or a locked database.
InsertRefused(c) ==
    /\ creator[c] # None
    /\ creator' = [creator EXCEPT ![c] = None]
    /\ UNCHANGED <<table, open, process, faults>>

\* One guarded UPDATE, for one workflow name or for all; any tenant's rows.
cancel_workflows(e, names) ==
    /\ wf' = [i \in Ids |->
                 IF /\ wf[i].entity = e
                    /\ wf[i].name \in names
                    /\ wf[i].status \in Active
                 THEN [wf[i] EXCEPT !.status = "cancelled"]
                 ELSE wf[i]]
    /\ UNCHANGED <<lastId, due, creator, open, process, faults>>

Cancellation == \E e \in Entities, n \in Names :
                    \/ cancel_workflows(e, {n})
                    \/ cancel_workflows(e, Names)

-----------------------------------------------------------------------------
(* Time, and the task executor's end of the tasks created here             *)

Elapse(i) ==
    /\ i \notin due
    /\ due' = due \cup {i}
    /\ UNCHANGED <<wf, lastId, creator, open, process, faults>>

TaskEnds(i) ==
    /\ i \in open
    /\ open' = open \ {i}
    /\ UNCHANGED <<table, creator, process, faults>>

-----------------------------------------------------------------------------
(* The worker                                                              *)

Goto(p, i) == pc' = p /\ cur' = i

\* Mutation: the query forgets its status condition.
PollAnyStatus ==
    /\ pc = "sleep"
    /\ pending' = Ids
    /\ Goto("scan", 0)
    /\ UNCHANGED <<table, creator, open, faults>>

get_pending_workflows ==
    /\ pc = "sleep"
    /\ pending' = {i \in Ids : wf[i].status = "scheduled"}
    /\ Goto("scan", 0)
    /\ UNCHANGED <<table, creator, open, faults>>

EndOfPoll ==
    /\ pc = "scan"
    /\ pending = {}
    /\ Goto("sleep", 0)
    /\ UNCHANGED <<table, creator, open, pending, faults>>

\* should_run is false: the row waits for a later poll.
NotDue(i) ==
    /\ pc = "scan"
    /\ i \in pending
    /\ i \notin due
    /\ pending' = pending \ {i}
    /\ UNCHANGED <<table, creator, open, pc, cur, faults>>

\* What validate_workflow may answer.  A critical workflow depends on its
\* store or item; any other only on the approval its metadata asks for.
validate_workflow(i) ==
    IF wf[i].name \in CriticalNames THEN {TRUE, FALSE}
    ELSE {~wf[i].gated}

\* execute_workflow works on the row as it was read by the poll; the status
\* it has now is not looked at again.
BeginExecute(i) ==
    /\ pc = "scan"
    /\ i \in pending
    /\ i \in due
    /\ \E valid \in validate_workflow(i) :
           Goto(IF valid THEN "starting" ELSE "cancelling", i)
    /\ UNCHANGED <<table, creator, open, pending, faults>>

\* update_workflow_status: an unconditional UPDATE by id.
SetStatus(st) == wf' = [wf EXCEPT ![cur].status = st]

Leave == /\ Goto("scan", 0)
         /\ pending' = pending \ {cur}

\* Mutation: an invalid row is skipped, not cancelled.
SkipInvalid ==
    /\ pc = "cancelling"
    /\ Leave
    /\ UNCHANGED <<table, creator, open, faults>>

CancelInvalid ==
    /\ pc = "cancelling"
    /\ SetStatus("cancelled")
    /\ Leave
    /\ UNCHANGED <<lastId, due, creator, open, faults>>

\* Mutation: the partial unique index does not exist.
StartUnindexed ==
    /\ pc = "starting"
    /\ SetStatus("running")
    /\ Goto("creating", cur)
    /\ UNCHANGED <<lastId, due, creator, open, pending, faults>>

StartRunning ==
    /\ pc = "starting"
    /\ ~IndexConflict(wf[cur], Ids \ {cur})
    /\ SetStatus("running")
    /\ Goto("creating", cur)
    /\ UNCHANGED <<lastId, due, creator, open, pending, faults>>

\* The row was cancelled and requested again meanwhile: the index refuses the
\* UPDATE, which stands before the try block, so the poll goes on.
StartRefused ==
    /\ pc = "starting"
    /\ IndexConflict(wf[cur], Ids \ {cur})
    /\ Leave
    /\ UNCHANGED <<table, creator, open, faults>>

\* create_ai_task: the task_exists check and the INSERT.
AddTask == /\ wf' = IF cur \in open THEN wf
                    ELSE [wf EXCEPT ![cur].made = @ + 1]
           /\ open' = open \cup {cur}

CreateTask ==
    /\ pc = "creating"
    /\ AddTask
    /\ Goto("completing", cur)
    /\ UNCHANGED <<lastId, due, creator, pending, faults>>

\* The store or item of a critical workflow is gone since its validation.
EntityGone ==
    /\ pc = "creating"
    /\ wf[cur].name \in CriticalNames
    /\ Goto("aborting", cur)
    /\ UNCHANGED <<table, creator, open, pending, faults>>

CompleteWorkflow ==
    /\ pc = "completing"
    /\ SetStatus("completed")
    /\ Leave
    /\ UNCHANGED <<lastId, due, creator, open, faults>>

AbortWorkflow ==
    /\ pc = "aborting"
    /\ SetStatus("cancelled")
    /\ Leave
    /\ UNCHANGED <<lastId, due, creator, open, faults>>

-----------------------------------------------------------------------------
(* Faults: a call that raises (a locked database), and a crash             *)

Fault == faults < MaxFaults /\ faults' = faults + 1

\* Outside the try block: the exception ends this row's turn.
RaiseOutsideTry ==
    /\ Fault
    /\ pc \in {"starting", "cancelling", "aborting"}
    /\ Leave
    /\ UNCHANGED <<table, creator, open>>

\* Inside it: on to the handler, with the task created or not.
RaiseInsideTry ==
    /\ Fault
    /\ pc \in {"creating", "completing"}
    /\ Goto("aborting", cur)
    /\ UNCHANGED <<table, creator, open, pending>>

\* The process ends and is started again by its supervisor.
Crash ==
    /\ Fault
    /\ pc # "sleep"
    /\ Goto("sleep", 0)
    /\ pending' = {}
    /\ UNCHANGED <<table, creator, open>>

-----------------------------------------------------------------------------

Creation == \E c \in Creators :
                \/ \E q \in Request : CheckWorkflow(c, q)
                \/ InsertWorkflow(c)
                \/ InsertRefused(c)

Visit == \E i \in pending : NotDue(i) \/ BeginExecute(i)

WorkerStep == \/ get_pending_workflows
              \/ Visit
              \/ EndOfPoll
              \/ CancelInvalid
              \/ StartRunning
              \/ StartRefused
              \/ CreateTask
              \/ EntityGone
              \/ CompleteWorkflow
              \/ AbortWorkflow

Elsewhere == \E i \in Ids : Elapse(i) \/ TaskEnds(i)

Next == \/ Creation
        \/ Cancellation
        \/ Elsewhere
        \/ WorkerStep
        \/ RaiseOutsideTry
        \/ RaiseInsideTry
        \/ Crash

\* The worker is a loop that never blocks for good; nobody has to call it.
Spec == Init /\ [][Next]_vars /\ WF_vars(WorkerStep)
-----------------------------------------------------------------------------
(* Properties                                                              *)

\* A workflow row is never executed twice: at most one task is ever created
\* for it, whatever cancellations, crashes and failed writes intervene
\* (execute_workflow updates by id and does not look at the status again).
AtMostOneTask == \A i \in Ids : wf[i].made <= 1

\* Two active workflows never share user, name and entity, although creation
\* checks before it inserts and execution writes "running" unconditionally.
OneActivePerKey ==
    \A i, j \in Ids :
        /\ wf[i].status \in Active
        /\ wf[j].status \in Active
        /\ wf[i].user = wf[j].user
        /\ wf[i].name = wf[j].name
        /\ wf[i].entity = wf[j].entity
        => i = j

\* A cancellation can be undone only by the poll that had read the row before
\* it: outside the worker's list a cancelled row stays cancelled for good.
CancellationSettles ==
    [][\A i \in Ids : wf[i].status = "cancelled" /\ i \notin pending =>
           wf'[i].status = "cancelled" /\ i \notin pending']_vars

\* A due row is eventually executed or cancelled, whatever the other rows of
\* the list do (an exception in one execution does not end the poll).
DueRowsLeave ==
    \A i \in 1 .. MaxRows :
        (i \in Ids /\ wf[i].status = "scheduled" /\ i \in due)
            ~> (i \in Ids /\ wf[i].status # "scheduled")
=============================================================================
