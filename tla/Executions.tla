------------------------------- MODULE Executions -------------------------------
(***************************************************************************)
(* langgraph_engine/runtime.py and nodes.py, with the parts of             *)
(* workflow_worker.py, approval_service.py, planner_runtime.py and         *)
(* orchestration_api.py that pause and resume an execution.                *)
(*                                                                         *)
(* An execution lives in two stores that no transaction spans: the row in  *)
(* rule_executions, and the checkpoint LangGraph keeps of the graph.  Its  *)
(* graph is started by a thread of the listener, continued by the          *)
(* workflow worker when its wait is over, and by the API when an operator  *)
(* decides; each of them invokes the graph, stores the traces and writes   *)
(* the row, in that order.                                                 *)
(*                                                                         *)
(* The API handlers are coroutines that never await, in one process: they  *)
(* run one at a time, so the API is one sequential process here.  The      *)
(* graph is the canonical one of a rule that publishes, reduced to the     *)
(* nodes that pause it or decide how it ends: wait, approval, publish,     *)
(* finalize; the nodes between them can only raise.                        *)
(***************************************************************************)
EXTENDS Naturals

CONSTANTS Executions,   \* rule executions, each with the thread that starts it
          Api, Worker,  \* the two processes that resume them
          None,         \* the job of a process that has none
          ScanLimit,    \* how many fired entries the worker reads in a poll: 200
          MaxOlder,     \* bound: fired entries that are older than a wait's
          MaxFaults     \* bound: crashes and failed database calls

ASSUME ProcessAssumption == Api # Worker /\ {Api, Worker, None} \cap Executions = {}
ASSUME FaultsAssumption  == MaxFaults \in Nat
ASSUME ScanAssumption    == ScanLimit \in Nat \ {0}

VARIABLES row,       \* rule_executions.status
          traced,    \* executions with rows in graph_node_traces
          old,       \* executions started long enough ago for the clean-up
          older,     \* fired entries of the calendar scheduled before the one of the wait
          rule,      \* the pausing actions of the rule
          next,      \* checkpoint: the node the graph runs next
          gstatus,   \* checkpoint: state["status"]
          decision,  \* checkpoint: state["approval"]["decision"]
          posted,    \* checkpoint: state["publish"]["success"]
          pubs,      \* how often the publishing tool was called
          entry,     \* the scheduled entry of the wait
          approval,  \* the newest approval request
          pc, job,   \* program counters, the execution Api and Worker serve
          faults     \* faults so far

graph   == <<next, gstatus, decision, posted>>
world   == <<pubs, entry, approval>>
rows    == <<row, traced, old, older>>
process == <<pc, job>>
vars    == <<rows, rule, graph, world, process, faults>>

Processes == Executions \cup {Api, Worker}
Job(p)    == IF p \in Executions THEN p ELSE job[p]
Ended     == {"completed", "cancelled", "failed"}
Nodes     == {"wait", "approval", "publish", "finalize", "end"}

TypeOK ==
    /\ row \in [Executions -> {"none", "running", "waiting_timer", "waiting_human"} \cup Ended]
    /\ traced \in SUBSET Executions
    /\ old \in SUBSET Executions
    /\ older \in [Executions -> Nat]
    /\ rule \in [Executions -> SUBSET {"wait", "approval"}]
    /\ next \in [Executions -> Nodes]
    /\ gstatus \in [Executions -> {"running", "waiting_timer", "waiting_human"} \cup Ended]
    /\ decision \in [Executions -> {"none", "pending", "approved", "rejected"}]
    /\ posted \in [Executions -> {"none", "yes", "no"}]
    /\ pubs \in [Executions -> Nat]
    /\ entry \in [Executions -> {"none", "pending", "fired", "handled", "cancelled"}]
    /\ approval \in [Executions -> {"none", "pending", "approved", "rejected"}]
    /\ pc \in [Processes -> {"idle", "resuming", "invoking", "failing", "saving",
                             "closing", "marking", "gone"}]
    /\ job \in [{Api, Worker} -> Executions \cup {None}]
    /\ faults \in 0 .. MaxFaults

\* _selected_kinds: the canonical order, with the nodes the rule asks for.
AfterWait(r) == IF "approval" \in r THEN "approval" ELSE "publish"
FirstNode(r) == IF "wait" \in r THEN "wait" ELSE AfterWait(r)

Init ==
    /\ row = [e \in Executions |-> "none"]
    /\ traced = {}
    /\ old = {}
    /\ older = [e \in Executions |-> 0]
    /\ rule \in [Executions -> SUBSET {"wait", "approval"}]
    /\ next = [e \in Executions |-> FirstNode(rule[e])]
    /\ gstatus = [e \in Executions |-> "running"]
    /\ decision = [e \in Executions |-> "none"]
    /\ posted = [e \in Executions |-> "none"]
    /\ pubs = [e \in Executions |-> 0]
    /\ entry = [e \in Executions |-> "none"]
    /\ approval = [e \in Executions |-> "none"]
    /\ pc = [p \in Processes |-> "idle"]
    /\ job = [p \in {Api, Worker} |-> None]
    /\ faults = 0

-----------------------------------------------------------------------------
(* Control                                                                 *)

Goto(p, at) == pc' = [pc EXCEPT ![p] = at] /\ UNCHANGED job

\* The process ends its work on e: a thread for good, the others until later.
Finish(p) == /\ pc' = [pc EXCEPT ![p] = IF p \in Executions THEN "gone" ELSE "idle"]
             /\ job' = IF p \in Executions THEN job ELSE [job EXCEPT ![p] = None]

Serve(p, e, at) == /\ pc' = [pc EXCEPT ![p] = at]
                   /\ job' = [job EXCEPT ![p] = e]

\* What follows on an invocation: the worker stamps the entry as handled.
AfterInvoke(p) == IF p = Worker THEN Goto(p, "marking") ELSE Finish(p)

-----------------------------------------------------------------------------
(* Starting and resuming                                                   *)

start_execution(e) ==
    /\ row[e] = "none"
    /\ row' = [row EXCEPT ![e] = "running"]
    /\ Goto(e, "invoking")
    /\ UNCHANGED <<traced, old, older, rule, graph, world, faults>>

\* graph.update_state and the invocation: the graph goes on with its next node,
\* whatever that is.  Only this process writes a row in this status, so the
\* check of the row and the update are one step.
Resume(p, e, d) ==
    /\ gstatus' = [gstatus EXCEPT ![e] = "running"]
    /\ decision' = [decision EXCEPT ![e] = d]
    /\ Serve(p, e, "invoking")
    /\ UNCHANGED <<rows, rule, next, posted, world, faults>>

\* What the scan of a poll reads: the oldest fired entries, those that are handled and
\* those that never were a wait's included.
Scanned(e) == entry[e] = "fired" /\ older[e] < ScanLimit

\* Mutation: a row that is still "running" is resumed as well.
ResumeRunning(e) ==
    /\ pc[Worker] = "idle"
    /\ Scanned(e)
    /\ IF row[e] \in {"waiting_timer", "running"}
       THEN Resume(Worker, e, decision[e])
       ELSE /\ Serve(Worker, e, "marking")
            /\ UNCHANGED <<rows, rule, graph, world, faults>>


\* _handle_wait_resumes for one entry it reads: any other status is a no-op, and
\* the entry is stamped all the same.
resume_after_wait(e) ==
    /\ pc[Worker] = "idle"
    /\ Scanned(e)
    /\ IF row[e] = "waiting_timer"
       THEN Resume(Worker, e, decision[e])
       ELSE /\ Serve(Worker, e, "marking")
            /\ UNCHANGED <<rows, rule, graph, world, faults>>

MarkHandled ==
    /\ pc[Worker] = "marking"
    /\ entry' = [entry EXCEPT ![job[Worker]] = "handled"]
    /\ Finish(Worker)
    /\ UNCHANGED <<rows, rule, graph, pubs, approval, faults>>

\* POST /rule-executions/{id}/resume; "edited" goes the way of "approved".
ResumeByOperator(e, d) ==
    /\ pc[Api] = "idle"
    /\ row[e] = "waiting_human"
    /\ Resume(Api, e, d)

\* POST /approvals/{id}/approve: the request is approved first, and then the
\* execution resumed, if its row is waiting; if not, the approval is spent.
approve(e) ==
    /\ pc[Api] = "idle"
    /\ approval[e] = "pending"
    /\ approval' = [approval EXCEPT ![e] = "approved"]
    /\ Serve(Api, e, "resuming")
    /\ UNCHANGED <<rows, rule, graph, pubs, entry, faults>>

\* Mutation: the row is not asked whether it waits.
ResumeUnchecked ==
    /\ pc[Api] = "resuming"
    /\ Resume(Api, job[Api], "approved")

resume_execution ==
    /\ pc[Api] = "resuming"
    /\ IF row[job[Api]] = "waiting_human"
       THEN Resume(Api, job[Api], "approved")
       ELSE /\ Finish(Api)
            /\ UNCHANGED <<rows, rule, graph, world, faults>>

\* POST /approvals/{id}/reject and /retry: any status, and the request only.
reject(e) ==
    /\ pc[Api] = "idle"
    /\ approval[e] # "none"
    /\ approval' = [approval EXCEPT ![e] = "rejected"]
    /\ UNCHANGED <<rows, rule, graph, pubs, entry, process, faults>>

retry_approval(e) ==
    /\ pc[Api] = "idle"
    /\ approval[e] # "none"
    /\ approval' = [approval EXCEPT ![e] = "pending"]
    /\ UNCHANGED <<rows, rule, graph, pubs, entry, process, faults>>

-----------------------------------------------------------------------------
(* The nodes.  A node acts, then LangGraph stores the checkpoint.          *)

At(p, n) == pc[p] = "invoking" /\ next[Job(p)] = n

\* interrupt_after: the invocation returns behind this node.
wait_node(p) ==
    LET e == Job(p) IN
    /\ At(p, "wait")
    /\ entry' = [entry EXCEPT ![e] = "pending"]
    /\ gstatus' = [gstatus EXCEPT ![e] = "waiting_timer"]
    /\ next' = [next EXCEPT ![e] = AfterWait(rule[e])]
    /\ Goto(p, "saving")
    /\ UNCHANGED <<rows, rule, decision, posted, pubs, approval, faults>>

\* Mutation: the graph is compiled without the interrupt behind the gate.
GateWithoutInterrupt(p) ==
    LET e == Job(p) IN
    /\ At(p, "approval")
    /\ approval' = [approval EXCEPT ![e] = "pending"]
    /\ gstatus' = [gstatus EXCEPT ![e] = "waiting_human"]
    /\ decision' = [decision EXCEPT ![e] = "pending"]
    /\ next' = [next EXCEPT ![e] = "publish"]
    /\ UNCHANGED <<rows, rule, posted, pubs, entry, process, faults>>

\* A pending request of the same hash is found again and kept.
approval_gate_node(p) ==
    LET e == Job(p) IN
    /\ At(p, "approval")
    /\ approval' = [approval EXCEPT ![e] = "pending"]
    /\ gstatus' = [gstatus EXCEPT ![e] = "waiting_human"]
    /\ decision' = [decision EXCEPT ![e] = "pending"]
    /\ next' = [next EXCEPT ![e] = "publish"]
    /\ Goto(p, "saving")
    /\ UNCHANGED <<rows, rule, posted, pubs, entry, faults>>

\* Only "rejected" keeps the tool from being called.
Publishes(e) == decision[e] # "rejected"

\* Mutation: a failed publication is tried again within the node.
PublisherRetries(p) ==
    LET e == Job(p) IN
    /\ At(p, "publish")
    /\ \E success \in {"yes", "no"}, calls \in 1 .. 2 :
           /\ posted' = [posted EXCEPT ![e] = success]
           /\ pubs' = [pubs EXCEPT ![e] = @ + calls]
    /\ next' = [next EXCEPT ![e] = "finalize"]
    /\ UNCHANGED <<rows, rule, gstatus, decision, entry, approval, process, faults>>

publisher_node(p) ==
    LET e == Job(p) IN
    /\ At(p, "publish")
    /\ IF Publishes(e)
       THEN /\ pubs' = [pubs EXCEPT ![e] = @ + 1]
            /\ \E success \in {"yes", "no"} : posted' = [posted EXCEPT ![e] = success]
            /\ UNCHANGED gstatus
       ELSE /\ posted' = [posted EXCEPT ![e] = "no"]
            /\ gstatus' = [gstatus EXCEPT ![e] = "cancelled"]
            /\ UNCHANGED pubs
    /\ next' = [next EXCEPT ![e] = "finalize"]
    /\ UNCHANGED <<rows, rule, decision, entry, approval, process, faults>>

\* Mutation: the result of the publication is not looked at.
FinalizeCompleted(p) ==
    LET e == Job(p) IN
    /\ At(p, "finalize")
    /\ gstatus' = [gstatus EXCEPT ![e] =
                       IF decision[e] = "rejected" THEN "cancelled" ELSE "completed"]
    /\ next' = [next EXCEPT ![e] = "end"]
    /\ Goto(p, "saving")
    /\ UNCHANGED <<rows, rule, decision, posted, world, faults>>

finalize_node(p) ==
    LET e == Job(p) IN
    /\ At(p, "finalize")
    /\ gstatus' = [gstatus EXCEPT ![e] =
                       IF decision[e] = "rejected" THEN "cancelled"
                       ELSE IF posted[e] = "no" THEN "failed" ELSE "completed"]
    /\ next' = [next EXCEPT ![e] = "end"]
    /\ Goto(p, "saving")
    /\ UNCHANGED <<rows, rule, decision, posted, world, faults>>

\* A finished graph has no node to run: the invocation returns at once.
RunNothing(p) ==
    /\ At(p, "end")
    /\ Goto(p, "saving")
    /\ UNCHANGED <<rows, rule, graph, world, faults>>

\* Mutation: the exception leaves the invocation, and the thread with it.
RaiseUnhandled(p) ==
    /\ pc[p] = "invoking"
    /\ next[Job(p)] # "end"
    /\ Finish(p)
    /\ UNCHANGED <<rows, rule, graph, world, faults>>

\* A node raises: the row is written at once, without traces.
NodeRaises(p) ==
    /\ pc[p] = "invoking"
    /\ next[Job(p)] # "end"
    /\ Goto(p, "failing")
    /\ UNCHANGED <<rows, rule, graph, world, faults>>

WriteFailed(p) ==
    /\ pc[p] = "failing"
    /\ row' = [row EXCEPT ![Job(p)] = "failed"]
    /\ AfterInvoke(p)
    /\ UNCHANGED <<traced, old, older, rule, graph, world, faults>>

-----------------------------------------------------------------------------
(* After the invocation                                                    *)

_persist_trace_events(p) ==
    /\ pc[p] = "saving"
    /\ traced' = traced \cup {Job(p)}
    /\ Goto(p, "closing")
    /\ UNCHANGED <<row, old, older, rule, graph, world, faults>>

\* The status each caller derives from its snapshot of the graph.
Outcome(p, e) ==
    IF next[e] = "end"
    THEN IF gstatus[e] = "running" /\ p # Api THEN "completed" ELSE gstatus[e]
    ELSE IF p \in Executions
         THEN IF gstatus[e] = "waiting_timer" THEN "waiting_timer" ELSE "waiting_human"
         ELSE IF p = Worker /\ decision[e] \in {"none", "pending"}
              THEN "waiting_human" ELSE gstatus[e]

_update_execution_row(p) ==
    /\ pc[p] = "closing"
    /\ row' = [row EXCEPT ![Job(p)] = Outcome(p, Job(p))]
    /\ AfterInvoke(p)
    /\ UNCHANGED <<traced, old, older, rule, graph, world, faults>>

-----------------------------------------------------------------------------
(* The schedule of the wait, the clean-up, time                            *)

\* fire_due_schedules, by the worker's loop or POST /schedules/fire-due; the
\* delay may be short, so the entry may be due as soon as it exists.
FireEntry(p, e) ==
    /\ pc[p] = "idle"
    /\ entry[e] = "pending"
    /\ entry' = [entry EXCEPT ![e] = "fired"]
    /\ UNCHANGED <<rows, rule, graph, pubs, approval, process, faults>>

\* An operator cancels the entry like any other in the calendar.
CancelEntry(e) ==
    /\ pc[Api] = "idle"
    /\ entry[e] = "pending"
    /\ entry' = [entry EXCEPT ![e] = "cancelled"]
    /\ UNCHANGED <<rows, rule, graph, pubs, approval, process, faults>>

\* Another entry fires that was scheduled before the one of e, a wait's or any other.
\* Nothing takes a fired entry out of the calendar again.
OthersFire(e) ==
    /\ older[e] < MaxOlder
    /\ older' = [older EXCEPT ![e] = @ + 1]
    /\ UNCHANGED <<row, traced, old, rule, graph, world, process, faults>>

\* The executions the clean-up takes for dead.
Ghosts == {e \in old \ traced : row[e] = "running"}

_cleanup_ghost_executions ==
    /\ pc[Worker] = "idle"
    /\ Ghosts # {}
    /\ row' = [e \in Executions |-> IF e \in Ghosts THEN "failed" ELSE row[e]]
    /\ UNCHANGED <<traced, old, older, rule, graph, world, process, faults>>

\* At least five minutes have passed; it matters only while the row says
\* "running".  (The query compares ISO time stamps with those of SQLite as
\* text, so it takes a row for old only from the next day on.)
GrowOld(e) ==
    /\ row[e] = "running"
    /\ e \notin old
    /\ old' = old \cup {e}
    /\ UNCHANGED <<row, traced, older, rule, graph, world, process, faults>>

-----------------------------------------------------------------------------
(* Faults                                                                  *)

Fault == faults < MaxFaults /\ faults' = faults + 1

\* p ends between two steps: its process dies, or a call to the database
\* raises where no handler is.  The worker comes back to an entry it has not
\* stamped; nobody comes back to the others.
Drop(p) ==
    /\ Fault
    /\ pc[p] \notin {"idle", "gone"}
    /\ Finish(p)
    /\ UNCHANGED <<rows, rule, graph, world>>

\* The same between the effect of a node and its checkpoint.
DropInNode(p) ==
    LET e == Job(p) IN
    /\ Fault
    /\ \/ At(p, "wait") /\ entry' = [entry EXCEPT ![e] = "pending"]
                        /\ UNCHANGED <<pubs, approval>>
       \/ At(p, "approval") /\ approval' = [approval EXCEPT ![e] = "pending"]
                            /\ UNCHANGED <<pubs, entry>>
       \/ At(p, "publish") /\ Publishes(e)
                           /\ pubs' = [pubs EXCEPT ![e] = @ + 1]
                           /\ UNCHANGED <<entry, approval>>
    /\ Finish(p)
    /\ UNCHANGED <<rows, rule, graph>>

\* The nodes swallow a failed create_schedule or create_approval_request.
Unscheduled(p) ==
    LET e == Job(p) IN
    /\ Fault
    /\ At(p, "wait")
    /\ gstatus' = [gstatus EXCEPT ![e] = "waiting_timer"]
    /\ next' = [next EXCEPT ![e] = AfterWait(rule[e])]
    /\ Goto(p, "saving")
    /\ UNCHANGED <<rows, rule, decision, posted, world>>

Unrequested(p) ==
    LET e == Job(p) IN
    /\ Fault
    /\ At(p, "approval")
    /\ gstatus' = [gstatus EXCEPT ![e] = "waiting_human"]
    /\ decision' = [decision EXCEPT ![e] = "pending"]
    /\ next' = [next EXCEPT ![e] = "publish"]
    /\ Goto(p, "saving")
    /\ UNCHANGED <<rows, rule, posted, world>>

-----------------------------------------------------------------------------

Invocation(p) == \/ wait_node(p)
                 \/ approval_gate_node(p)
                 \/ publisher_node(p)
                 \/ finalize_node(p)
                 \/ RunNothing(p)
                 \/ NodeRaises(p)
                 \/ WriteFailed(p)
                 \/ _persist_trace_events(p)
                 \/ _update_execution_row(p)

WorkerStep == \/ Invocation(Worker)
              \/ MarkHandled
              \/ \E e \in Executions : resume_after_wait(e) \/ FireEntry(Worker, e)

Operator == \E e \in Executions :
                \/ approve(e)
                \/ reject(e)
                \/ retry_approval(e)
                \/ ResumeByOperator(e, "approved")
                \/ ResumeByOperator(e, "rejected")
                \/ FireEntry(Api, e)
                \/ CancelEntry(e)

Failure == \E p \in Processes :
               Drop(p) \/ DropInNode(p) \/ Unscheduled(p) \/ Unrequested(p)

Next == \/ \E e \in Executions : start_execution(e) \/ Invocation(e) \/ GrowOld(e) \/ OthersFire(e)
        \/ Operator
        \/ resume_execution
        \/ Invocation(Api)
        \/ WorkerStep
        \/ _cleanup_ghost_executions
        \/ Failure

\* A started thread, a request and the worker's loop go on; operators and
\* events come when they come.
Spec == /\ Init /\ [][Next]_vars
        /\ \A e \in Executions : WF_vars(Invocation(e))
        /\ WF_vars(resume_execution \/ Invocation(Api))
        /\ WF_vars(WorkerStep)
-----------------------------------------------------------------------------
(* Properties                                                              *)

Invoking(p, e) == pc[p] \in {"invoking", "failing", "saving", "closing"} /\ Job(p) = e

\* The row's status is the only lock on a graph, and it is enough: no two
\* processes ever drive the same execution.
OneDriver ==
    \A e \in Executions, p, q \in Processes :
        Invoking(p, e) /\ Invoking(q, e) => p = q

\* A rule's post goes out once; every crash between the tool call and its
\* checkpoint can repeat it once, nothing else does.
PublishCounted == \A e \in Executions : pubs[e] <= 1 + faults

\* No execution is reported as completed that published nothing, whatever was
\* resumed, repeated or lost.
CompletedPublished ==
    \A e \in Executions : row[e] = "completed" => pubs[e] >= 1

\* Without a fault a rule that asks for approval publishes only what an
\* operator approved.
ApprovedFirst ==
    faults = 0 =>
        \A e \in Executions :
            "approval" \in rule[e] /\ pubs[e] > 0 => decision[e] = "approved"

\* An ended row stays as it is: no resume, decision or retry reopens it.  Only
\* a thread that the clean-up wrongly took for dead writes over its verdict.
EndedStays ==
    [][\A e \in Executions :
           row[e] \in Ended /\ e \notin old => row'[e] = row[e]]_vars


\* A started execution does not stay "running", unless a fault takes the thread.
StartSettles ==
    \A e \in Executions : (row[e] = "running") ~> (row[e] # "running" \/ faults > 0)

\* approval_service.py:29 and runtime.py:49-51: what publishes externally needs
\* an approval, and the gate comes before it; so nothing is published while the
\* gate's question is unanswered, faults or not.
PublishNeedsApproval ==
    \A e \in Executions :
        "approval" \in rule[e] /\ pubs[e] > 0 => decision[e] \notin {"none", "pending"}

\* nodes.py:125-128: when the entry of the wait fires, the execution is
\* resumed; so an execution never waits for an entry that is already handled.
HandledIsResumed ==
    \A e \in Executions :
        row[e] = "waiting_timer" /\ entry[e] = "handled" =>
            \E p \in Processes : Invoking(p, e)
=============================================================================
