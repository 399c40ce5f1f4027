------------------------------ MODULE Scheduling ------------------------------
(***************************************************************************)
(* scheduling_service.py: the operator's calendar, the table               *)
(* scheduled_entries, and how due entries become workflows.                *)
(*                                                                         *)
(* Two processes fire due entries: the loop of the workflow worker and the *)
(* API, for POST /schedules/fire-due.  Both read a snapshot of the due     *)
(* entries and then work through it, one statement at a time; no statement *)
(* asks for the status the snapshot saw.  The API is sequential (its       *)
(* handlers never await), so its own cancel and move do not overlap its    *)
(* firing, but everything overlaps the worker.                             *)
(*                                                                         *)
(* Workflows are the table of Workflows.tla seen from here: per name,      *)
(* whether a row is active and whether one has completed.  All entries of  *)
(* a name are for one entity, as those of schedule_content_post are.       *)
(***************************************************************************)
EXTENDS Naturals, FiniteSets

CONSTANTS Names,        \* workflow names
          Worker, Api,  \* the processes that fire entries
          MaxPlans,     \* bound: entries the operator creates
          MaxEntries,   \* bound: entries ever created, followups included
          MaxFaults     \* bound: crashes and failed database calls

ASSUME ProcessAssumption == Worker # Api
ASSUME BoundAssumption   == MaxPlans \in Nat /\ MaxEntries \in Nat /\ MaxFaults \in Nat

VARIABLES lastId,      \* the AUTOINCREMENT counter of scheduled_entries
          status,      \* per entry
          name,        \* per entry: workflow_name
          series,      \* per entry: the entry its recurrence began with, or 0
          due,         \* entries whose scheduled_at has passed
          linked,      \* entries with a workflow_id
          active,      \* names with a scheduled or running workflow
          done,        \* names with a completed workflow
          fires,       \* per entry: how often _mark_fired ran
          continued,   \* entries whose followup was created
          pc,          \* per process: where it stands
          todo, cur,   \* the rest of its snapshot, the entry it works on or 0
          made,        \* what create_workflow returned: an id or None
          faults       \* faults so far

entries   == <<lastId, status, name, series, due, linked>>
workflows == <<active, done>>
history   == <<fires, continued>>
process   == <<pc, todo, cur, made>>
vars      == <<entries, workflows, history, process, faults>>

Processes == {Worker, Api}
Ids       == 1 .. lastId
Firing    == {"checking", "inserting", "marking", "following", "failing"}

TypeOK ==
    /\ lastId \in 0 .. MaxEntries
    /\ status \in [Ids -> {"pending", "fired", "cancelled", "failed"}]
    /\ name \in [Ids -> Names]
    /\ series \in [Ids -> 0 .. lastId]
    /\ due \in SUBSET Ids
    /\ linked \in SUBSET Ids
    /\ active \in SUBSET Names
    /\ done \in SUBSET Names
    /\ fires \in [Ids -> Nat]
    /\ continued \in SUBSET Ids
    /\ pc \in [Processes -> {"idle", "next", "cancelling", "moving"} \cup Firing]
    /\ todo \in [Processes -> SUBSET Ids]
    /\ cur \in [Processes -> 0 .. lastId]
    /\ made \in [Processes -> BOOLEAN]
    /\ faults \in 0 .. MaxFaults

Init ==
    /\ lastId = 0
    /\ status = [i \in {} |-> "pending"]
    /\ name = [i \in {} |-> "pending"]
    /\ series = [i \in {} |-> 0]
    /\ due = {}
    /\ linked = {}
    /\ active = {}
    /\ done = {}
    /\ fires = [i \in {} |-> 0]
    /\ continued = {}
    /\ pc = [p \in Processes |-> "idle"]
    /\ todo = [p \in Processes |-> {}]
    /\ cur = [p \in Processes |-> 0]
    /\ made = [p \in Processes |-> FALSE]
    /\ faults = 0

-----------------------------------------------------------------------------
(* Control                                                                 *)

Goto(p, at) == pc' = [pc EXCEPT ![p] = at] /\ UNCHANGED <<todo, cur, made>>

\* p is done with its entry and takes the next one of its snapshot.
NextEntry(p) == /\ pc' = [pc EXCEPT ![p] = "next"]
                /\ cur' = [cur EXCEPT ![p] = 0]
                /\ made' = [made EXCEPT ![p] = FALSE]
                /\ UNCHANGED todo

Stop(p) == /\ pc' = [pc EXCEPT ![p] = "idle"]
           /\ todo' = [todo EXCEPT ![p] = {}]
           /\ cur' = [cur EXCEPT ![p] = 0]
           /\ made' = [made EXCEPT ![p] = FALSE]

Extend(f, x) == [i \in 1 .. lastId + 1 |-> IF i \in Ids THEN f[i] ELSE x]

\* The INSERT of create_schedule; the time given may have passed already.
NewEntry(n, s) ==
    /\ lastId < MaxEntries
    /\ lastId' = lastId + 1
    /\ status' = Extend(status, "pending")
    /\ name' = Extend(name, n)
    /\ series' = Extend(series, s)
    /\ fires' = Extend(fires, 0)
    /\ due' \in {due, due \cup {lastId + 1}}
    /\ UNCHANGED linked

-----------------------------------------------------------------------------
(* The operator, through the API                                           *)

create_schedule(n, recurring) ==
    /\ pc[Api] = "idle"
    /\ Cardinality({i \in Ids : series[i] \in {0, i}}) < MaxPlans
    /\ NewEntry(n, IF recurring THEN lastId + 1 ELSE 0)
    /\ UNCHANGED <<workflows, continued, process, faults>>

\* cancel_schedule and move_schedule read the entry and ask for its status;
\* the UPDATE that follows names only the id.
ReadEntry(i, at) ==
    /\ pc[Api] = "idle"
    /\ status[i] = "pending"
    /\ pc' = [pc EXCEPT ![Api] = at]
    /\ cur' = [cur EXCEPT ![Api] = i]
    /\ UNCHANGED <<entries, workflows, history, todo, made, faults>>

cancel_schedule ==
    /\ pc[Api] = "cancelling"
    /\ status' = [status EXCEPT ![cur[Api]] = "cancelled"]
    /\ Stop(Api)
    /\ UNCHANGED <<lastId, name, series, due, linked, workflows, history, faults>>

\* Mutation: a moved entry is planned anew.
MoveReopens ==
    /\ pc[Api] = "moving"
    /\ due' = due \ {cur[Api]}
    /\ status' = [status EXCEPT ![cur[Api]] = "pending"]
    /\ Stop(Api)
    /\ UNCHANGED <<lastId, name, series, linked, workflows, history, faults>>

move_schedule ==
    /\ pc[Api] = "moving"
    /\ due' = due \ {cur[Api]}
    /\ Stop(Api)
    /\ UNCHANGED <<lastId, status, name, series, linked, workflows, history, faults>>

-----------------------------------------------------------------------------
(* fire_due_schedules                                                      *)

\* LIMIT 50 is far above any snapshot here.
due_schedules == {i \in due : status[i] = "pending"}

StartFiring(p) ==
    /\ pc[p] = "idle"
    /\ due_schedules # {}
    /\ pc' = [pc EXCEPT ![p] = "next"]
    /\ todo' = [todo EXCEPT ![p] = due_schedules]
    /\ UNCHANGED <<entries, workflows, history, cur, made, faults>>

\* fire_schedule for an entry of the snapshot, whatever has become of it.
TakeEntry(p, i) ==
    /\ pc[p] = "next"
    /\ i \in todo[p]
    /\ pc' = [pc EXCEPT ![p] = "checking"]
    /\ todo' = [todo EXCEPT ![p] = @ \ {i}]
    /\ cur' = [cur EXCEPT ![p] = i]
    /\ UNCHANGED <<entries, workflows, history, made, faults>>

EndFiring(p) ==
    /\ pc[p] = "next"
    /\ todo[p] = {}
    /\ Stop(p)
    /\ UNCHANGED <<entries, workflows, history, faults>>

\* create_workflow, its check: any active or completed workflow of the name.
\* A duplicate returns None.
workflow_exists(n) == n \in active \cup done

CheckWorkflow(p) ==
    /\ pc[p] = "checking"
    /\ Goto(p, IF workflow_exists(name[cur[p]]) THEN "marking" ELSE "inserting")
    /\ UNCHANGED <<entries, workflows, history, faults>>

\* create_workflow, its INSERT: the unique index refuses a second active row,
\* and the call returns None again.
InsertWorkflow(p) ==
    /\ pc[p] = "inserting"
    /\ made' = [made EXCEPT ![p] = name[cur[p]] \notin active]
    /\ active' = active \cup {name[cur[p]]}
    /\ pc' = [pc EXCEPT ![p] = "marking"]
    /\ UNCHANGED <<entries, done, history, todo, cur, faults>>

Stamp(p) ==
    /\ fires' = [fires EXCEPT ![cur[p]] = @ + 1]
    /\ linked' = IF made[p] THEN linked \cup {cur[p]} ELSE linked \ {cur[p]}

\* Mutation: an entry without a workflow is not stamped.
FireIfMade(p) ==
    /\ pc[p] = "marking"
    /\ IF made[p]
       THEN /\ status' = [status EXCEPT ![cur[p]] = "fired"]
            /\ Stamp(p)
            /\ Goto(p, "following")
       ELSE NextEntry(p) /\ UNCHANGED <<status, fires, linked>>
    /\ UNCHANGED <<lastId, name, series, due, workflows, continued, faults>>

_mark_fired(p) ==
    /\ pc[p] = "marking"
    /\ status' = [status EXCEPT ![cur[p]] = "fired"]
    /\ Stamp(p)
    /\ Goto(p, "following")
    /\ UNCHANGED <<lastId, name, series, due, workflows, continued, faults>>

\* Beyond MaxEntries a followup is created, but not represented.
_maybe_create_followup(p) ==
    LET i == cur[p] IN
    /\ pc[p] = "following"
    /\ IF series[i] # 0 /\ lastId < MaxEntries
       THEN NewEntry(name[i], series[i])
       ELSE UNCHANGED <<entries, fires>>
    /\ continued' = IF series[i] # 0 THEN continued \cup {i} ELSE continued
    /\ NextEntry(p)
    /\ UNCHANGED <<workflows, faults>>

_mark_failed(p) ==
    /\ pc[p] = "failing"
    /\ status' = [status EXCEPT ![cur[p]] = "failed"]
    /\ NextEntry(p)
    /\ UNCHANGED <<lastId, name, series, due, linked, workflows, history, faults>>

-----------------------------------------------------------------------------
(* Time, workflows, faults                                                 *)

\* It matters only for a pending entry that its time has come.
Elapse(i) ==
    /\ i \notin due
    /\ status[i] = "pending"
    /\ due' = due \cup {i}
    /\ UNCHANGED <<lastId, status, name, series, linked, workflows, history, process, faults>>

\* The worker executes workflows in the same loop, after it has fired entries;
\* whoever cancels them does so at any time, and so does the worker for a row
\* that may not run (it needs approval, its entity is gone).
CompleteWorkflow(n) ==
    /\ pc[Worker] = "idle"
    /\ n \in active
    /\ active' = active \ {n}
    /\ done' = done \cup {n}
    /\ UNCHANGED <<entries, history, process, faults>>

CancelWorkflow(n) ==
    /\ n \in active
    /\ active' = active \ {n}
    /\ UNCHANGED <<entries, done, history, process, faults>>

Fault == faults < MaxFaults /\ faults' = faults + 1

\* create_workflow raises: the entry will be marked as failed.
CreateRaises(p) ==
    /\ Fault
    /\ pc[p] \in {"checking", "inserting"}
    /\ Goto(p, "failing")
    /\ UNCHANGED <<entries, workflows, history>>

\* Another statement raises: fire_due_schedules notes it and goes on.
StatementRaises(p) ==
    /\ Fault
    /\ pc[p] \in {"marking", "following", "failing"}
    /\ NextEntry(p)
    /\ UNCHANGED <<entries, workflows, history>>

\* The process ends, and starts again with nothing but the table.
Crash(p) ==
    /\ Fault
    /\ pc[p] # "idle"
    /\ Stop(p)
    /\ UNCHANGED <<entries, workflows, history>>

-----------------------------------------------------------------------------

fire_due_schedules(p) ==
    \/ StartFiring(p)
    \/ \E i \in Ids : TakeEntry(p, i)
    \/ EndFiring(p)
    \/ CheckWorkflow(p)
    \/ InsertWorkflow(p)
    \/ _mark_fired(p)
    \/ _maybe_create_followup(p)
    \/ _mark_failed(p)

Operator ==
    \/ \E n \in Names, recurring \in BOOLEAN : create_schedule(n, recurring)
    \/ \E i \in Ids : ReadEntry(i, "cancelling") \/ ReadEntry(i, "moving")
    \/ cancel_schedule
    \/ move_schedule

Next == \/ Operator
        \/ \E p \in Processes : fire_due_schedules(p)
        \/ \E i \in Ids : Elapse(i)
        \/ \E n \in Names : CompleteWorkflow(n) \/ CancelWorkflow(n)
        \/ \E p \in Processes : CreateRaises(p) \/ StatementRaises(p) \/ Crash(p)

\* The worker polls for ever; nobody has to ask the API for anything.
Spec == Init /\ [][Next]_vars /\ WF_vars(fire_due_schedules(Worker))
-----------------------------------------------------------------------------
(* Properties                                                              *)

\* The entries of recurring series that ended without a successor, though no
\* operator cancelled them.
Orphans ==
    {i \in Ids : /\ series[i] # 0
                 /\ status[i] \in {"fired", "failed"}
                 /\ i \notin continued
                 /\ \A p \in Processes : ~(cur[p] = i /\ pc[p] = "following")}

\* A recurring entry goes on for ever, whether its workflow was created, found
\* to exist already, or cancelled meanwhile; each fault costs at most one series.
\* And it goes on once: a series has one pending occurrence, unless the worker and
\* the API fired one of its entries both, from snapshots that overlapped.
SeriesGoOn ==
    /\ Cardinality(Orphans) <= faults
    /\ \A i, j \in Ids :
           /\ i # j
           /\ series[i] = series[j] /\ series[i] # 0
           /\ status[i] = "pending" /\ status[j] = "pending"
           => \E k \in Ids : series[k] = series[i] /\ fires[k] > 1

\* A due entry is fired or failed, or an operator cancels or moves it: neither
\* an error of its own nor one of another entry keeps it pending.
DueFires ==
    \A i \in 1 .. MaxEntries :
        (i \in due_schedules) ~> (i \notin due_schedules)

\* scheduling_service.py:10-14: a due entry fires by creating the matching
\* workflow, and stays as the record of what happened; so an entry that was
\* fired once, with the firing over, has its workflow.
FiredHasWorkflow ==
    \A i \in Ids :
        status[i] = "fired" /\ fires[i] = 1 /\ (\A p \in Processes : cur[p] # i)
            => i \in linked
=============================================================================
