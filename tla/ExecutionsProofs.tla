---------------------------- MODULE ExecutionsProofs ----------------------------
(***************************************************************************)
(* Proofs about Executions: one process at a time drives an execution, an  *)
(* ended row stays ended, and what is completed was published, and was     *)
(* published once for every fault at most once more; for any number of     *)
(* executions and of faults.                                               *)
(***************************************************************************)
EXTENDS Executions, TLAPS

\* The status a row has while p drives e: the row is the lock of the graph.
Holds(p, e) ==
    IF p = Api THEN row[e] = "waiting_human"
    ELSE IF p = Worker THEN row[e] = "waiting_timer"
    ELSE row[e] = "running" \/ (row[e] = "failed" /\ e \in old)

\* The API and the worker always have an execution to work on.
JobsHeld == \A p \in {Api, Worker} : pc[p] = "idle" \/ job[p] \in Executions

Lock == \A e \in Executions, p \in Processes : Invoking(p, e) => Holds(p, e)

\* Only the API records a decision, and only once the graph has paused for it.
Undecided ==
    \A e \in Executions :
        row[e] \in {"none", "waiting_timer"} \/ Invoking(e, e)
            => decision[e] \in {"none", "pending"}

\* A graph that paused or is about to be saved has left its wait behind.
PastWait ==
    /\ \A e \in Executions : row[e] = "waiting_human" => next[e] # "wait"
    /\ \A e \in Executions, p \in Processes :
           pc[p] \in {"saving", "closing"} /\ Job(p) = e => next[e] # "wait"
    /\ \A e \in Executions : Invoking(Api, e) => gstatus[e] # "waiting_timer"

\* What the checkpoint says about the publication is true.
Published ==
    \A e \in Executions :
        /\ posted[e] = "yes" => pubs[e] >= 1
        /\ next[e] = "finalize" => posted[e] # "none"
        /\ gstatus[e] = "completed" => pubs[e] >= 1
        /\ decision[e] \in {"none", "pending"} /\ next[e] \in {"finalize", "end"}
               => pubs[e] >= 1
        /\ row[e] = "completed" => pubs[e] >= 1

\* Before its checkpoint a publication has been made once per fault.
Counted ==
    \A e \in Executions :
        /\ pubs[e] <= 1 + faults
        /\ next[e] \notin {"finalize", "end"} => pubs[e] <= faults

IInv == TypeOK /\ JobsHeld /\ Lock /\ Undecided /\ PastWait /\ Published /\ Counted

-----------------------------------------------------------------------------
(* Types                                                                   *)

\* Whatever is driven is an execution.
LEMMA JobType ==
    ASSUME TypeOK, JobsHeld, NEW p \in Processes, pc[p] # "idle"
    PROVE  Job(p) \in Executions
<1>1. CASE p \in Executions
  BY <1>1 DEF Job
<1>2. CASE p \notin Executions
  BY <1>2 DEF Job, Processes, JobsHeld
<1> QED BY <1>1, <1>2

\* Goto leaves a process at a place of its program.
LEMMA GotoType ==
    ASSUME TypeOK, NEW p \in Processes,
           NEW at \in {"idle", "resuming", "invoking", "failing", "saving",
                       "closing", "marking", "gone"},
           Goto(p, at)
    PROVE  /\ pc' \in [Processes -> {"idle", "resuming", "invoking", "failing",
                                      "saving", "closing", "marking", "gone"}]
           /\ job' \in [{Api, Worker} -> Executions \cup {None}]
BY DEF TypeOK, Goto

\* A process that finishes keeps its types, as a thread or as Worker or Api.
LEMMA FinishType ==
    ASSUME TypeOK, NEW p \in Processes, Finish(p)
    PROVE  /\ pc' \in [Processes -> {"idle", "resuming", "invoking", "failing",
                                      "saving", "closing", "marking", "gone"}]
           /\ job' \in [{Api, Worker} -> Executions \cup {None}]
BY DEF TypeOK, Finish, Processes

\* Worker and Api take an execution in hand with the types kept.
LEMMA ServeType ==
    ASSUME TypeOK, NEW p \in {Api, Worker}, NEW e \in Executions,
           NEW at \in {"resuming", "invoking", "marking"},
           Serve(p, e, at)
    PROVE  /\ pc' \in [Processes -> {"idle", "resuming", "invoking", "failing",
                                      "saving", "closing", "marking", "gone"}]
           /\ job' \in [{Api, Worker} -> Executions \cup {None}]
BY DEF TypeOK, Serve, Processes

\* What an invocation ends with is a status of a row.
LEMMA OutcomeType ==
    ASSUME TypeOK, NEW p \in Processes, NEW e \in Executions
    PROVE  Outcome(p, e) \in {"running", "waiting_timer", "waiting_human"} \cup Ended
BY DEF TypeOK, Outcome, Ended

\* The steps of an invocation, of the graph and its rows, keep the types.
LEMMA InvocationType ==
    ASSUME TypeOK, JobsHeld, NEW p \in Processes, Invocation(p)
    PROVE  TypeOK'
<1> DEFINE e == Job(p)
<1> USE JobType, GotoType, FinishType
<1>1. CASE wait_node(p)
  BY <1>1 DEF wait_node, At, TypeOK, AfterWait, rows, Nodes
<1>2. CASE approval_gate_node(p)
  BY <1>2 DEF approval_gate_node, At, TypeOK, rows, Nodes
<1>3. CASE publisher_node(p)
  BY <1>3 DEF publisher_node, At, TypeOK, rows, Nodes, process, Ended
<1>4. CASE finalize_node(p)
  BY <1>4 DEF finalize_node, At, TypeOK, rows, Nodes, world, Ended
<1>5. CASE RunNothing(p) \/ NodeRaises(p)
  BY <1>5 DEF RunNothing, NodeRaises, At, TypeOK, rows, graph, world
<1>6. CASE WriteFailed(p)
  BY <1>6 DEF WriteFailed, AfterInvoke, TypeOK, graph, world, Ended
<1>7. CASE _persist_trace_events(p)
  BY <1>7 DEF _persist_trace_events, TypeOK, graph, world
<1>8. CASE _update_execution_row(p)
  BY <1>8, OutcomeType DEF _update_execution_row, AfterInvoke, TypeOK, graph, world
<1> QED BY <1>1, <1>2, <1>3, <1>4, <1>5, <1>6, <1>7, <1>8 DEF Invocation

\* Every step keeps the types.
LEMMA TypeStep ==
    ASSUME TypeOK, JobsHeld, [Next]_vars
    PROVE  TypeOK'
<1> USE DEF TypeOK
<1>1. ASSUME NEW e \in Executions, start_execution(e)  PROVE TypeOK'
  BY <1>1, GotoType DEF start_execution, graph, world, Processes
<1>2. ASSUME NEW e \in Executions, GrowOld(e) \/ OthersFire(e)  PROVE TypeOK'
  BY <1>2 DEF GrowOld, OthersFire, graph, world, process
<1>3. ASSUME NEW e \in Executions, approve(e)  PROVE TypeOK'
  BY <1>3, ServeType DEF approve, rows, graph
<1>4. ASSUME NEW e \in Executions, reject(e) \/ retry_approval(e)  PROVE TypeOK'
  BY <1>4 DEF reject, retry_approval, rows, graph, process
<1>5. ASSUME NEW p \in {Api, Worker}, NEW e \in Executions,
             NEW d \in {"none", "pending", "approved", "rejected"}, Resume(p, e, d)
      PROVE  TypeOK'
  BY <1>5, ServeType DEF Resume, rows, world
<1>6. ASSUME NEW e \in Executions, ResumeByOperator(e, "approved") \/ ResumeByOperator(e, "rejected")
      PROVE  TypeOK'
  BY <1>5, <1>6 DEF ResumeByOperator
<1>7. CASE resume_execution
  <2>1. job[Api] \in Executions
    BY <1>7 DEF resume_execution, JobsHeld
  <2> QED BY <1>5, <1>7, <2>1, FinishType DEF resume_execution, rows, graph, world, Processes
<1>8. ASSUME NEW p \in Processes, Invocation(p)  PROVE TypeOK'
  BY <1>8, InvocationType
<1>9. CASE MarkHandled
  BY <1>9, FinishType DEF MarkHandled, rows, graph, Processes
<1>10. ASSUME NEW e \in Executions, resume_after_wait(e)  PROVE TypeOK'
  <2>1. Serve(Worker, e, "marking") /\ UNCHANGED <<rows, rule, graph, world, faults>> => TypeOK'
    BY ServeType DEF rows, graph, world
  <2> QED BY <1>5, <1>10, <2>1 DEF resume_after_wait
<1>11. ASSUME NEW p \in Processes, NEW e \in Executions, FireEntry(p, e) \/ CancelEntry(e)
       PROVE  TypeOK'
  BY <1>11 DEF FireEntry, CancelEntry, rows, graph, process
<1>12. CASE _cleanup_ghost_executions
  BY <1>12 DEF _cleanup_ghost_executions, graph, world, process, Ended
<1>13. ASSUME NEW p \in Processes, Drop(p)  PROVE TypeOK'
  BY <1>13, FinishType, FaultsAssumption DEF Drop, Fault, rows, graph, world
<1>14. ASSUME NEW p \in Processes, DropInNode(p)  PROVE TypeOK'
  BY <1>14, FinishType, FaultsAssumption, JobType DEF DropInNode, Fault, rows, graph, At
<1>15. ASSUME NEW p \in Processes, Unscheduled(p) \/ Unrequested(p)  PROVE TypeOK'
  BY <1>15, GotoType, FaultsAssumption, JobType
  DEF Unscheduled, Unrequested, Fault, rows, world, At, Nodes, AfterWait
<1>16. CASE UNCHANGED vars
  BY <1>16 DEF vars, rows, graph, world, process
<1> QED
  BY <1>1, <1>2, <1>3, <1>4, <1>6, <1>7, <1>8, <1>9, <1>10, <1>11, <1>12, <1>13, <1>14,
     <1>15, <1>16
  DEF Next, Operator, WorkerStep, Failure, Processes

-----------------------------------------------------------------------------
(* Frames: what a step of p leaves of the other processes                  *)

\* Goto moves one process and changes no process's execution.
LEMMA GotoFrame ==
    ASSUME TypeOK, NEW p \in Processes, NEW at, Goto(p, at)
    PROVE  \A q \in Processes : /\ Job(q)' = Job(q)
                                /\ pc'[q] = IF q = p THEN at ELSE pc[q]
BY DEF TypeOK, Goto, Job

\* Finishing lets go of the process's own execution only.
LEMMA FinishFrame ==
    ASSUME TypeOK, NEW p \in Processes, Finish(p)
    PROVE  /\ \A q \in Processes \ {p} : Job(q)' = Job(q) /\ pc'[q] = pc[q]
           /\ pc'[p] \in {"idle", "gone"}
BY DEF TypeOK, Finish, Job, Processes

\* Taking an execution in hand changes the process's own job only.
LEMMA ServeFrame ==
    ASSUME TypeOK, NEW p \in {Api, Worker}, NEW e \in Executions, NEW at, Serve(p, e, at)
    PROVE  /\ \A q \in Processes \ {p} : Job(q)' = Job(q) /\ pc'[q] = pc[q]
           /\ pc'[p] = at /\ Job(p)' = e
BY ProcessAssumption DEF TypeOK, Serve, Job, Processes

\* The mutual exclusion the row gives, as a fact about two processes.
LEMMA Exclusion ==
    ASSUME TypeOK, Lock, NEW e \in Executions, NEW p \in Processes, NEW q \in Processes,
           Invoking(p, e), Invoking(q, e)
    PROVE  p = q
<1>1. Holds(p, e) /\ Holds(q, e)
  BY DEF Lock
<1>2. p \in Executions => p = e
  BY DEF Invoking, Job
<1>3. q \in Executions => q = e
  BY DEF Invoking, Job
<1> QED BY <1>1, <1>2, <1>3, ProcessAssumption DEF Holds, Processes

-----------------------------------------------------------------------------
(* The lock                                                                *)

\* p goes on with the execution it drives.
LEMMA DriveLock ==
    ASSUME TypeOK, JobsHeld, Lock, NEW p \in Processes, Invoking(p, Job(p)),
           NEW at \in {"invoking", "failing", "saving", "closing"}, Goto(p, at),
           UNCHANGED <<row, old>>
    PROVE  JobsHeld' /\ Lock'
<1>1. JobsHeld'
  BY DEF Goto, TypeOK, JobsHeld, Invoking, Processes
<1>2. \A q \in Processes, f \in Executions : Invoking(q, f)' => Invoking(q, f)
  BY GotoFrame DEF Invoking
<1>3. Lock'
  BY <1>2 DEF Lock, Holds
<1> QED BY <1>1, <1>3

\* p leaves the execution it drives, whatever becomes of the row.
LEMMA LeaveLock ==
    ASSUME TypeOK, JobsHeld, Lock, NEW p \in Processes, Invoking(p, Job(p)),
           Finish(p) \/ Goto(p, "marking"),
           \A f \in Executions \ {Job(p)} : row'[f] = row[f], UNCHANGED old
    PROVE  JobsHeld' /\ Lock'
<1>1. JobsHeld'
  BY ProcessAssumption DEF Goto, Finish, TypeOK, JobsHeld, Invoking, Processes
<1>2. ASSUME NEW q \in Processes, NEW f \in Executions, Invoking(q, f)'
      PROVE  Holds(q, f)'
  <2>1. q # p /\ Invoking(q, f)
    BY <1>2, GotoFrame, FinishFrame DEF Invoking
  <2>2. f # Job(p)
    BY <2>1, Exclusion
  <2> QED BY <2>1, <2>2 DEF Lock, Holds
<1> QED BY <1>1, <1>2 DEF Lock

\* p takes up an execution whose row lets it.
LEMMA ServeLock ==
    ASSUME TypeOK, JobsHeld, Lock, NEW p \in {Api, Worker}, NEW e \in Executions,
           NEW at, Serve(p, e, at), Holds(p, e) \/ at \in {"resuming", "marking"},
           UNCHANGED <<row, old>>
    PROVE  JobsHeld' /\ Lock'
<1>1. JobsHeld'
  BY DEF Serve, TypeOK, JobsHeld, Processes
<1>2. ASSUME NEW q \in Processes, NEW f \in Executions, Invoking(q, f)'
      PROVE  Holds(q, f)'
  <2>1. CASE q = p
    BY <1>2, <2>1, ServeFrame DEF Invoking, Holds
  <2>2. CASE q # p
    BY <1>2, <2>2, ServeFrame DEF Invoking, Holds, Lock
  <2> QED BY <2>1, <2>2
<1> QED BY <1>1, <1>2 DEF Lock

\* p drops what it does not drive.
LEMMA IdleLock ==
    ASSUME TypeOK, JobsHeld, Lock, NEW p \in Processes, Finish(p), UNCHANGED <<row, old>>
    PROVE  JobsHeld' /\ Lock'
<1>1. JobsHeld'
  BY ProcessAssumption DEF Finish, TypeOK, JobsHeld, Processes
<1>2. \A q \in Processes, f \in Executions : Invoking(q, f)' => Invoking(q, f)
  BY FinishFrame DEF Invoking
<1> QED BY <1>1, <1>2 DEF Lock, Holds

\* The steps of an invocation keep the lock: the row changes only when its driver is through.
LEMMA InvocationLock ==
    ASSUME TypeOK, JobsHeld, Lock, NEW p \in Processes, Invocation(p)
    PROVE  JobsHeld' /\ Lock'
<1>1. CASE wait_node(p) \/ approval_gate_node(p) \/ finalize_node(p) \/ RunNothing(p)
  BY <1>1, DriveLock
  DEF wait_node, approval_gate_node, finalize_node, RunNothing, At, Invoking, rows
<1>2. CASE publisher_node(p)
  BY <1>2 DEF publisher_node, process, rows, JobsHeld, Lock, Holds, Invoking, Job
<1>3. CASE NodeRaises(p) \/ _persist_trace_events(p)
  BY <1>3, DriveLock DEF NodeRaises, _persist_trace_events, Invoking, rows
<1>4. CASE WriteFailed(p) \/ _update_execution_row(p)
  <2>1. \A f \in Executions \ {Job(p)} : row'[f] = row[f]
    BY <1>4 DEF WriteFailed, _update_execution_row, TypeOK
  <2> QED BY <1>4, <2>1, LeaveLock
      DEF WriteFailed, _update_execution_row, Invoking, AfterInvoke
<1> QED BY <1>1, <1>2, <1>3, <1>4 DEF Invocation

\* Every step keeps the lock of each execution.
LEMMA LockStep ==
    ASSUME TypeOK, JobsHeld, Lock, [Next]_vars
    PROVE  JobsHeld' /\ Lock'
<1>1. ASSUME NEW e \in Executions, start_execution(e)  PROVE JobsHeld' /\ Lock'
  <2>1. JobsHeld'
    BY <1>1, ProcessAssumption DEF start_execution, Goto, TypeOK, JobsHeld, Processes
  <2>2. ASSUME NEW q \in Processes, NEW f \in Executions, Invoking(q, f)'
        PROVE  Holds(q, f)'
    <3>1. e \in Processes /\ Job(e) = e
      BY DEF Processes, Job
    <3>2. CASE q = e
      BY <1>1, <2>2, <3>1, <3>2, GotoFrame, ProcessAssumption
      DEF start_execution, Invoking, Holds, TypeOK
    <3>3. CASE q # e
      <4>1. Invoking(q, f)
        BY <1>1, <2>2, <3>1, <3>3, GotoFrame DEF start_execution, Invoking
      <4>2. Holds(q, f) /\ row[e] = "none"
        BY <1>1, <4>1 DEF Lock, start_execution
      <4> QED BY <1>1, <4>2 DEF start_execution, Holds, TypeOK
    <3> QED BY <3>2, <3>3
  <2> QED BY <2>1, <2>2 DEF Lock
<1>2. ASSUME NEW e \in Executions, GrowOld(e) \/ OthersFire(e)  PROVE JobsHeld' /\ Lock'
  BY <1>2 DEF GrowOld, OthersFire, process, JobsHeld, Lock, Holds, Invoking, Job
<1>3. ASSUME NEW e \in Executions, approve(e)  PROVE JobsHeld' /\ Lock'
  BY <1>3, ServeLock DEF approve, rows
<1>4. CASE UNCHANGED <<row, old, pc, job>>
  BY <1>4 DEF JobsHeld, Lock, Holds, Invoking, Job
<1>5. ASSUME NEW e \in Executions, NEW d, ResumeByOperator(e, d)  PROVE JobsHeld' /\ Lock'
  BY <1>5, ServeLock DEF ResumeByOperator, Resume, rows, Holds
<1>6. CASE resume_execution
  <2>1. job[Api] \in Executions
    BY <1>6 DEF resume_execution, JobsHeld
  <2>2. CASE row[job[Api]] = "waiting_human"
    BY <1>6, <2>1, <2>2, ServeLock DEF resume_execution, Resume, rows, Holds
  <2>3. CASE row[job[Api]] # "waiting_human"
    BY <1>6, <2>3, IdleLock DEF resume_execution, rows, Processes
  <2> QED BY <2>2, <2>3
<1>7. CASE MarkHandled
  BY <1>7, IdleLock DEF MarkHandled, rows, Processes
<1>8. ASSUME NEW e \in Executions, resume_after_wait(e)  PROVE JobsHeld' /\ Lock'
  BY <1>8, ServeLock, ProcessAssumption DEF resume_after_wait, Resume, rows, Holds
<1>9. CASE _cleanup_ghost_executions
  <2>1. ASSUME NEW q \in Processes, NEW f \in Executions, Invoking(q, f)'
        PROVE  Holds(q, f)'
    <3>1. Holds(q, f)
      BY <1>9, <2>1 DEF _cleanup_ghost_executions, process, Invoking, Job, Lock
    <3> QED BY <1>9, <3>1 DEF _cleanup_ghost_executions, Ghosts, Holds
  <2> QED BY <1>9, <2>1 DEF _cleanup_ghost_executions, process, JobsHeld, Lock
<1>10. ASSUME NEW p \in Processes, Drop(p) \/ DropInNode(p)  PROVE JobsHeld' /\ Lock'
  BY <1>10, IdleLock DEF Drop, DropInNode, rows
<1>11. ASSUME NEW p \in Processes, Unscheduled(p) \/ Unrequested(p)  PROVE JobsHeld' /\ Lock'
  BY <1>11, DriveLock DEF Unscheduled, Unrequested, At, Invoking, rows
<1>12. ASSUME NEW e \in Executions, NEW p \in Processes,
              reject(e) \/ retry_approval(e) \/ FireEntry(p, e) \/ CancelEntry(e)
       PROVE  UNCHANGED <<row, old, pc, job>>
  BY <1>12 DEF reject, retry_approval, FireEntry, CancelEntry, rows, process
<1>13. UNCHANGED vars => UNCHANGED <<row, old, pc, job>>
  BY DEF vars, rows, process
<1> QED
  BY <1>1, <1>2, <1>3, <1>4, <1>5, <1>6, <1>7, <1>8, <1>9, <1>10, <1>11, <1>12, <1>13,
     InvocationLock
  DEF Next, Operator, WorkerStep, Failure, Processes

-----------------------------------------------------------------------------
(* The publication is counted                                              *)

\* Every step keeps the account of publications and faults.
LEMMA CountedStep ==
    ASSUME TypeOK, JobsHeld, Counted, [Next]_vars
    PROVE  Counted'
<1>1. CASE faults' = faults /\ UNCHANGED <<next, pubs>>
  BY <1>1 DEF Counted
<1>2. ASSUME NEW p \in Processes, wait_node(p) \/ approval_gate_node(p) \/ finalize_node(p)
      PROVE  Counted'
  BY <1>2, JobType DEF wait_node, approval_gate_node, finalize_node, At, world, Counted, TypeOK
<1>3. ASSUME NEW p \in Processes, publisher_node(p)  PROVE Counted'
  BY <1>3, JobType DEF publisher_node, At, Counted, TypeOK
<1>4. ASSUME NEW p \in Processes, Drop(p) \/ DropInNode(p)  PROVE Counted'
  BY <1>4, JobType DEF Drop, DropInNode, Fault, At, graph, world, Counted, TypeOK
<1>5. ASSUME NEW p \in Processes, Unscheduled(p) \/ Unrequested(p)  PROVE Counted'
  BY <1>5, JobType DEF Unscheduled, Unrequested, Fault, At, world, Counted, TypeOK
<1>6. ASSUME NEW p \in Processes,
             \/ RunNothing(p) \/ NodeRaises(p) \/ WriteFailed(p)
             \/ _persist_trace_events(p) \/ _update_execution_row(p)
      PROVE  Counted'
  BY <1>1, <1>6
  DEF RunNothing, NodeRaises, WriteFailed, _persist_trace_events, _update_execution_row,
      graph, world
<1>7. ASSUME NEW e \in Executions, NEW p \in Processes,
             \/ start_execution(e) \/ GrowOld(e) \/ OthersFire(e) \/ approve(e) \/ reject(e)
             \/ retry_approval(e) \/ FireEntry(p, e) \/ CancelEntry(e)
      PROVE  Counted'
  BY <1>1, <1>7
  DEF start_execution, GrowOld, OthersFire, approve, reject, retry_approval, FireEntry, CancelEntry,
      graph, world
<1>8. ASSUME NEW p, NEW e, NEW d, Resume(p, e, d)  PROVE Counted'
  BY <1>1, <1>8 DEF Resume, world
<1>9. ASSUME NEW e \in Executions, NEW d, ResumeByOperator(e, d)  PROVE Counted'
  BY <1>8, <1>9 DEF ResumeByOperator
<1>10. ASSUME NEW e \in Executions, resume_after_wait(e)  PROVE Counted'
  BY <1>1, <1>8, <1>10 DEF resume_after_wait, graph, world
<1>11. CASE resume_execution
  BY <1>1, <1>8, <1>11 DEF resume_execution, graph, world
<1>12. CASE MarkHandled \/ _cleanup_ghost_executions \/ UNCHANGED vars
  BY <1>1, <1>12 DEF MarkHandled, _cleanup_ghost_executions, vars, graph, world
<1> QED
  BY <1>2, <1>3, <1>4, <1>5, <1>6, <1>7, <1>9, <1>10, <1>11, <1>12
  DEF Next, Operator, WorkerStep, Failure, Invocation, Processes

-----------------------------------------------------------------------------
(* Decisions and pauses                                                    *)

\* Only Serve and the start of a thread make a process drive something new.
LEMMA GotoDrives ==
    ASSUME TypeOK, NEW p \in Processes, Invoking(p, Job(p)), NEW at, Goto(p, at)
    PROVE  \A q \in Processes, f \in Executions : Invoking(q, f)' => Invoking(q, f)
BY GotoFrame DEF Invoking

\* Finishing makes no process drive an execution.
LEMMA FinishDrives ==
    ASSUME TypeOK, NEW p \in Processes, Finish(p)
    PROVE  \A q \in Processes, f \in Executions : Invoking(q, f)' => Invoking(q, f)
BY FinishFrame DEF Invoking

\* Taking an execution in hand makes no other process drive one.
LEMMA ServeDrives ==
    ASSUME TypeOK, NEW p \in {Api, Worker}, NEW e \in Executions, NEW at, Serve(p, e, at)
    PROVE  /\ \A q \in Processes \ {p}, f \in Executions : Invoking(q, f)' => Invoking(q, f)
           /\ \A f \in Executions : Invoking(p, f)' => f = e
           /\ Invoking(p, e)' => at \notin {"resuming", "marking"}
BY ServeFrame DEF Invoking

\* An invocation makes no process drive an execution that it did not drive before.
LEMMA InvocationDrives ==
    ASSUME TypeOK, NEW p \in Processes, Invocation(p) \/ Unscheduled(p) \/ Unrequested(p)
    PROVE  /\ \A q \in Processes, f \in Executions : Invoking(q, f)' => Invoking(q, f)
           /\ Invoking(p, Job(p))
<1>1. Invoking(p, Job(p))
  BY DEF Invocation, wait_node, approval_gate_node, publisher_node, finalize_node,
         RunNothing, NodeRaises, WriteFailed, _persist_trace_events, _update_execution_row,
         Unscheduled, Unrequested, At, Invoking
<1>2. CASE publisher_node(p)
  BY <1>1, <1>2 DEF publisher_node, process, Invoking, Job
<1>3. CASE ~publisher_node(p)
  BY <1>1, <1>3, GotoDrives, FinishDrives
  DEF Invocation, wait_node, approval_gate_node, finalize_node, RunNothing, NodeRaises,
      WriteFailed, _persist_trace_events, _update_execution_row, Unscheduled, Unrequested,
      AfterInvoke
<1> QED BY <1>1, <1>2, <1>3

\* What the row may become when an invocation is over.
LEMMA OutcomeSound ==
    ASSUME TypeOK, JobsHeld, Lock, Undecided, PastWait, Published,
           NEW p \in Processes, _update_execution_row(p)
    PROVE  LET e == Job(p) IN
           /\ row'[e] # "none" /\ next[e] # "wait"
           /\ row'[e] = "waiting_timer" => decision[e] \in {"none", "pending"}
           /\ row'[e] = "completed" => pubs[e] >= 1
<1> DEFINE e == Job(p)
<1>1. e \in Executions /\ Invoking(p, e) /\ next[e] # "wait"
  BY JobType DEF _update_execution_row, Invoking, PastWait
<1>2. row'[e] = Outcome(p, e) /\ row'[e] # "none"
  BY <1>1, OutcomeType DEF _update_execution_row, TypeOK, Ended
<1>3. CASE p = Api
  BY <1>1, <1>2, <1>3, ProcessAssumption DEF Outcome, PastWait, Published
<1>4. CASE p # Api
  <2>1. decision[e] \in {"none", "pending"}
    BY <1>1, <1>4, ProcessAssumption DEF Lock, Holds, Undecided, Processes, Job
  <2> QED BY <1>1, <1>2, <1>4, <2>1 DEF Outcome, Published
<1> QED BY <1>1, <1>2, <1>3, <1>4

\* A step that leaves the decisions alone, takes no row back and starts no thread keeps Undecided.
LEMMA UndecidedFrame ==
    ASSUME Undecided, UNCHANGED decision,
           \A e \in Executions :
               /\ row'[e] \in {"none", "waiting_timer"}
                      => row[e] = row'[e] \/ decision[e] \in {"none", "pending"}
               /\ Invoking(e, e)' => Invoking(e, e)
    PROVE  Undecided'
BY DEF Undecided

\* Every step keeps Undecided: an execution that waits for its time, or that its first
\* thread drives, has no decision.
LEMMA UndecidedStep ==
    ASSUME TypeOK, JobsHeld, Lock, Undecided, PastWait, Published, [Next]_vars
    PROVE  Undecided'
<1> USE DEF TypeOK
<1>0. Executions \subseteq Processes /\ (\A e \in Executions : Job(e) = e)
  BY DEF Processes, Job
<1>1. ASSUME NEW e \in Executions, start_execution(e)  PROVE Undecided'
  BY <1>0, <1>1, GotoFrame DEF start_execution, graph, Undecided, Invoking
<1>2. CASE UNCHANGED <<row, decision, pc, job>>
  BY <1>2, UndecidedFrame DEF Invoking, Job
<1>3. ASSUME NEW e \in Executions, NEW d \in {"approved", "rejected"},
             row[e] = "waiting_human", Resume(Api, e, d)
      PROVE  Undecided'
  <2>1. ~Invoking(e, e)
    BY <1>0, <1>3, ProcessAssumption DEF Lock, Holds
  <2>2. \A f \in Executions : Invoking(f, f)' => Invoking(f, f)
    BY <1>0, <1>3, ServeDrives, ProcessAssumption DEF Resume
  <2>3. \A f \in Executions \ {e} : decision'[f] = decision[f]
    BY <1>3 DEF Resume
  <2> QED BY <1>3, <2>1, <2>2, <2>3 DEF Resume, rows, Undecided
<1>4. ASSUME NEW e \in Executions, Resume(Worker, e, decision[e])  PROVE Undecided'
  <2>1. \A f \in Executions : Invoking(f, f)' => Invoking(f, f)
    BY <1>0, <1>4, ServeDrives, ProcessAssumption DEF Resume
  <2> QED BY <1>4, <2>1 DEF Resume, rows, Undecided
<1>5. ASSUME NEW p \in {Api, Worker}, NEW e \in Executions, NEW at,
             Serve(p, e, at), UNCHANGED <<row, decision>>
      PROVE  Undecided'
  BY <1>0, <1>5, ServeDrives, UndecidedFrame, ProcessAssumption
<1>6. ASSUME NEW p \in Processes, Finish(p), UNCHANGED <<row, decision>>  PROVE Undecided'
  BY <1>0, <1>6, FinishDrives, UndecidedFrame
<1>7. CASE resume_execution
  <2>1. job[Api] \in Executions
    BY <1>7 DEF resume_execution, JobsHeld
  <2>2. CASE row[job[Api]] = "waiting_human"
    BY <1>3, <1>7, <2>1, <2>2 DEF resume_execution
  <2>3. CASE row[job[Api]] # "waiting_human"
    BY <1>6, <1>7, <2>3 DEF resume_execution, rows, graph, Processes
  <2> QED BY <2>2, <2>3
<1>8. ASSUME NEW e \in Executions,
             ResumeByOperator(e, "approved") \/ ResumeByOperator(e, "rejected")
      PROVE  Undecided'
  BY <1>3, <1>8 DEF ResumeByOperator
<1>9. ASSUME NEW e \in Executions, resume_after_wait(e)  PROVE Undecided'
  BY <1>4, <1>5, <1>9 DEF resume_after_wait, rows, graph
<1>10. ASSUME NEW p \in Processes, approval_gate_node(p) \/ Unrequested(p)  PROVE Undecided'
  <2>1. \A f \in Executions : Invoking(f, f)' => Invoking(f, f)
    BY <1>0, <1>10, InvocationDrives DEF Invocation
  <2>2. \A f \in Executions : decision'[f] \in {decision[f], "pending"}
    BY <1>10 DEF approval_gate_node, Unrequested
  <2> QED BY <1>10, <2>1, <2>2 DEF approval_gate_node, Unrequested, rows, Undecided
<1>11. ASSUME NEW p \in Processes,
              \/ wait_node(p) \/ publisher_node(p) \/ finalize_node(p) \/ RunNothing(p)
              \/ NodeRaises(p) \/ _persist_trace_events(p) \/ Unscheduled(p)
       PROVE  Undecided'
  <2>1. \A f \in Executions : Invoking(f, f)' => Invoking(f, f)
    BY <1>0, <1>11, InvocationDrives DEF Invocation
  <2>2. UNCHANGED <<row, decision>>
    BY <1>11
    DEF wait_node, publisher_node, finalize_node, RunNothing, NodeRaises,
        _persist_trace_events, Unscheduled, rows, graph
  <2> QED BY <2>1, <2>2, UndecidedFrame
<1>12. ASSUME NEW p \in Processes, WriteFailed(p) \/ _update_execution_row(p)
       PROVE  Undecided'
  <2>1. \A f \in Executions : Invoking(f, f)' => Invoking(f, f)
    BY <1>0, <1>12, InvocationDrives DEF Invocation
  <2>2. UNCHANGED decision /\ (\A f \in Executions \ {Job(p)} : row'[f] = row[f])
    BY <1>12 DEF WriteFailed, _update_execution_row, graph
  <2>3. row'[Job(p)] \in {"none", "waiting_timer"} => decision[Job(p)] \in {"none", "pending"}
    BY <1>12, JobType, OutcomeSound DEF WriteFailed
  <2> QED BY <2>1, <2>2, <2>3, UndecidedFrame
<1>13. CASE _cleanup_ghost_executions
  BY <1>13, UndecidedFrame DEF _cleanup_ghost_executions, graph, process, Invoking, Job
<1>14. ASSUME NEW p \in Processes, Drop(p) \/ DropInNode(p)  PROVE Undecided'
  BY <1>6, <1>14 DEF Drop, DropInNode, rows, graph
<1>15. ASSUME NEW e \in Executions, approve(e)  PROVE Undecided'
  BY <1>5, <1>15 DEF approve, rows, graph
<1>16. CASE MarkHandled
  BY <1>6, <1>16 DEF MarkHandled, rows, graph, Processes
<1>17. ASSUME NEW e \in Executions, NEW p \in Processes,
              \/ GrowOld(e) \/ OthersFire(e) \/ reject(e) \/ retry_approval(e)
              \/ FireEntry(p, e) \/ CancelEntry(e)
       PROVE  Undecided'
  BY <1>2, <1>17
  DEF GrowOld, OthersFire, reject, retry_approval, FireEntry, CancelEntry, rows, graph, process
<1>18. UNCHANGED vars => Undecided'
  BY <1>2 DEF vars, rows, graph, process
<1> QED
  BY <1>1, <1>7, <1>8, <1>9, <1>10, <1>11, <1>12, <1>13, <1>14, <1>15, <1>16, <1>17, <1>18
  DEF Next, Operator, WorkerStep, Failure, Invocation, Processes

\* A step that leaves the checkpoint alone and brings nobody to its end.
LEMMA PastWaitFrame ==
    ASSUME PastWait, UNCHANGED <<next, gstatus>>,
           \A e \in Executions :
               /\ row'[e] = "waiting_human" => row[e] = "waiting_human" \/ next[e] # "wait"
               /\ Invoking(Api, e)' => Invoking(Api, e),
           \A e \in Executions, p \in Processes :
               pc'[p] \in {"saving", "closing"} /\ Job(p)' = e
                   => next[e] # "wait" \/ (pc[p] \in {"saving", "closing"} /\ Job(p) = e)
    PROVE  PastWait'
BY DEF PastWait

\* A node of p that moves on to another node than the wait.
LEMMA PastWaitNode ==
    ASSUME TypeOK, JobsHeld, PastWait, NEW p \in Processes, row' = row,
           \A q \in Processes : Job(q)' = Job(q),
           \A q \in Processes \ {p} : pc'[q] = pc[q],
           \A e \in Executions : Invoking(Api, e)' => Invoking(Api, e),
           Job(p) \in Executions, next'[Job(p)] # "wait",
           \A e \in Executions \ {Job(p)} : next'[e] = next[e] /\ gstatus'[e] = gstatus[e],
           Invoking(Api, Job(p)) => gstatus'[Job(p)] # "waiting_timer"
    PROVE  PastWait'
<1>1. \A e \in Executions : next'[e] = "wait" => next[e] = "wait" /\ e # Job(p)
  OBVIOUS
<1> QED BY <1>1 DEF PastWait

\* Every step keeps PastWait: a checkpoint at the gate, or about to be saved, is behind
\* the wait.
LEMMA PastWaitStep ==
    ASSUME TypeOK, JobsHeld, Lock, Undecided, PastWait, Published, [Next]_vars
    PROVE  PastWait'
<1> USE DEF TypeOK
<1>1. CASE UNCHANGED <<row, next, gstatus, pc, job>>
  BY <1>1, PastWaitFrame DEF Invoking, Job
<1>2. ASSUME NEW p \in Processes, Finish(p), UNCHANGED <<row, graph>>  PROVE PastWait'
  BY <1>2, FinishFrame, FinishDrives, PastWaitFrame DEF graph, Processes
<1>3. ASSUME NEW p \in {Api, Worker}, NEW e \in Executions, NEW at \in {"resuming", "marking"},
             Serve(p, e, at), UNCHANGED <<row, graph>>
      PROVE  PastWait'
  <2>1. \A f \in Executions : Invoking(Api, f)' => Invoking(Api, f)
    BY <1>3, ServeFrame DEF Processes, Invoking
  <2>2. \A q \in Processes : pc'[q] \in {"saving", "closing"}
                                 => pc[q] = pc'[q] /\ Job(q)' = Job(q)
    BY <1>3, ServeFrame
  <2> QED BY <1>3, <2>1, <2>2, PastWaitFrame DEF graph
<1>4. ASSUME NEW p \in {Api, Worker}, NEW e \in Executions, NEW d, Resume(p, e, d)
      PROVE  PastWait'
  <2>1. \A f \in Executions : /\ Invoking(Api, f)' => f = e \/ Invoking(Api, f)
                              /\ f = e => gstatus'[f] = "running"
                              /\ f # e => gstatus'[f] = gstatus[f]
    BY <1>4, ServeFrame DEF Resume, Processes, Invoking
  <2>2. \A q \in Processes : pc'[q] \in {"saving", "closing"}
                                 => pc[q] = pc'[q] /\ Job(q)' = Job(q)
    BY <1>4, ServeFrame DEF Resume, Processes
  <2> QED BY <1>4, <2>1, <2>2 DEF Resume, rows, PastWait
<1>5. CASE resume_execution
  BY <1>2, <1>4, <1>5 DEF resume_execution, JobsHeld, rows, Processes
<1>6. ASSUME NEW e \in Executions,
             ResumeByOperator(e, "approved") \/ ResumeByOperator(e, "rejected")
      PROVE  PastWait'
  BY <1>4, <1>6 DEF ResumeByOperator
<1>7. ASSUME NEW e \in Executions, resume_after_wait(e)  PROVE PastWait'
  BY <1>3, <1>4, <1>7 DEF resume_after_wait, rows
<1>8. ASSUME NEW e \in Executions, start_execution(e)  PROVE PastWait'
  BY <1>8, GotoFrame, ProcessAssumption, PastWaitFrame
  DEF start_execution, graph, Processes, Invoking
<1>9. ASSUME NEW p \in Processes,
             \/ wait_node(p) \/ approval_gate_node(p) \/ publisher_node(p)
             \/ finalize_node(p) \/ Unscheduled(p) \/ Unrequested(p)
      PROVE  PastWait'
  <2>1. Job(p) \in Executions /\ (\A e \in Executions : Invoking(Api, e)' => Invoking(Api, e))
    BY <1>9, InvocationDrives, JobType DEF Invocation, Invoking, Processes
  <2>2. \A q \in Processes : Job(q)' = Job(q) /\ (q # p => pc'[q] = pc[q])
    BY <1>9, GotoFrame
    DEF wait_node, approval_gate_node, publisher_node, finalize_node, Unscheduled,
        Unrequested, process, Job
  <2>3. /\ next'[Job(p)] # "wait"
        /\ \A e \in Executions \ {Job(p)} : next'[e] = next[e] /\ gstatus'[e] = gstatus[e]
    BY <1>9, <2>1
    DEF wait_node, approval_gate_node, publisher_node, finalize_node, Unscheduled,
        Unrequested, AfterWait, At
  <2>4. Invoking(Api, Job(p)) => gstatus'[Job(p)] # "waiting_timer"
    <3> SUFFICES ASSUME Invoking(Api, Job(p)) PROVE gstatus'[Job(p)] # "waiting_timer"
      OBVIOUS
    <3>1. row[Job(p)] = "waiting_human" /\ gstatus[Job(p)] # "waiting_timer"
      BY <2>1 DEF Lock, Holds, Processes, PastWait
    <3>2. ~wait_node(p) /\ ~Unscheduled(p)
      BY <2>1, <3>1 DEF PastWait, wait_node, Unscheduled, At
    <3> QED BY <1>9, <2>1, <3>1, <3>2
        DEF approval_gate_node, publisher_node, finalize_node, Unrequested, Ended
  <2>5. row' = row
    BY <1>9
    DEF wait_node, approval_gate_node, publisher_node, finalize_node, Unscheduled,
        Unrequested, rows
  <2> QED BY <2>1, <2>2, <2>3, <2>4, <2>5, PastWaitNode
<1>10. ASSUME NEW p \in Processes,
              \/ RunNothing(p) \/ NodeRaises(p) \/ _persist_trace_events(p)
       PROVE  PastWait'
  <2>1. \A e \in Executions : Invoking(Api, e)' => Invoking(Api, e)
    BY <1>10, InvocationDrives DEF Invocation, Processes
  <2>2. UNCHANGED <<row, next, gstatus>>
    BY <1>10 DEF RunNothing, NodeRaises, _persist_trace_events, rows, graph
  <2>3. \A q \in Processes :
            pc'[q] \in {"saving", "closing"}
                => /\ Job(q)' = Job(q)
                   /\ pc[q] \in {"saving", "closing"} \/ next[Job(q)] # "wait"
    BY <1>10, GotoFrame DEF RunNothing, NodeRaises, _persist_trace_events, At
  <2> QED BY <2>1, <2>2, <2>3, PastWaitFrame
<1>11. ASSUME NEW p \in Processes, WriteFailed(p) \/ _update_execution_row(p)
       PROVE  PastWait'
  <2>1. \A e \in Executions : Invoking(Api, e)' => Invoking(Api, e)
    BY <1>11, InvocationDrives DEF Invocation, Processes
  <2>2. /\ UNCHANGED <<next, gstatus>>
        /\ \A f \in Executions \ {Job(p)} : row'[f] = row[f]
    BY <1>11 DEF WriteFailed, _update_execution_row, graph
  <2>3. row'[Job(p)] = "waiting_human" => next[Job(p)] # "wait"
    BY <1>11, JobType, OutcomeSound DEF WriteFailed
  <2>4. \A q \in Processes :
            pc'[q] \in {"saving", "closing"} => Job(q)' = Job(q) /\ pc[q] = pc'[q]
    BY <1>11, GotoFrame, FinishFrame DEF WriteFailed, _update_execution_row, AfterInvoke
  <2> QED BY <2>1, <2>2, <2>3, <2>4, PastWaitFrame
<1>12. CASE _cleanup_ghost_executions
  BY <1>12, PastWaitFrame DEF _cleanup_ghost_executions, graph, process, Invoking, Job
<1>13. ASSUME NEW p \in Processes, Drop(p) \/ DropInNode(p)  PROVE PastWait'
  BY <1>2, <1>13 DEF Drop, DropInNode, rows
<1>14. ASSUME NEW e \in Executions, approve(e)  PROVE PastWait'
  BY <1>3, <1>14 DEF approve, rows
<1>15. CASE MarkHandled
  BY <1>2, <1>15 DEF MarkHandled, rows, Processes
<1>16. ASSUME NEW e \in Executions, NEW p \in Processes,
              \/ GrowOld(e) \/ OthersFire(e) \/ reject(e) \/ retry_approval(e)
              \/ FireEntry(p, e) \/ CancelEntry(e)
       PROVE  PastWait'
  BY <1>1, <1>16
  DEF GrowOld, OthersFire, reject, retry_approval, FireEntry, CancelEntry, rows, graph, process
<1>17. UNCHANGED vars => PastWait'
  BY <1>1 DEF vars, rows, graph, process
<1> QED
  BY <1>5, <1>6, <1>7, <1>8, <1>9, <1>10, <1>11, <1>12, <1>13, <1>14, <1>15, <1>16, <1>17
  DEF Next, Operator, WorkerStep, Failure, Invocation, Processes

-----------------------------------------------------------------------------
(* What is completed was published                                         *)

\* Every step keeps Published: a checkpoint behind the publisher has the post.
LEMMA PublishedStep ==
    ASSUME TypeOK, JobsHeld, Lock, Undecided, PastWait, Published, [Next]_vars
    PROVE  Published'
<1> USE DEF TypeOK
<1>1. CASE UNCHANGED <<row, graph, pubs>>
  BY <1>1 DEF graph, Published
<1>2. ASSUME NEW p \in {Api, Worker}, NEW e \in Executions, NEW d, Resume(p, e, d),
             d \in {"approved", "rejected"} \/ d = decision[e]
      PROVE  Published'
  BY <1>2 DEF Resume, rows, world, Published
<1>3. CASE resume_execution
  BY <1>1, <1>2, <1>3 DEF resume_execution, JobsHeld, rows, world
<1>4. ASSUME NEW e \in Executions,
             ResumeByOperator(e, "approved") \/ ResumeByOperator(e, "rejected")
      PROVE  Published'
  BY <1>2, <1>4 DEF ResumeByOperator
<1>5. ASSUME NEW e \in Executions, resume_after_wait(e)  PROVE Published'
  BY <1>1, <1>2, <1>5 DEF resume_after_wait, rows, world
<1>6. ASSUME NEW p \in Processes,
             wait_node(p) \/ approval_gate_node(p) \/ Unscheduled(p) \/ Unrequested(p)
      PROVE  Published'
  <2>1. Job(p) \in Executions
    BY <1>6, JobType
    DEF wait_node, approval_gate_node, Unscheduled, Unrequested, At
  <2>2. \A e \in Executions :
            /\ row'[e] = row[e] /\ pubs'[e] = pubs[e] /\ posted'[e] = posted[e]
            /\ \/ /\ next'[e] = next[e] /\ gstatus'[e] = gstatus[e]
                  /\ decision'[e] = decision[e]
               \/ next'[e] \in {"approval", "publish"} /\ gstatus'[e] # "completed"
    BY <1>6, <2>1
    DEF wait_node, approval_gate_node, Unscheduled, Unrequested, AfterWait, rows, world
  <2> QED BY <2>2 DEF Published
<1>7. ASSUME NEW p \in Processes, publisher_node(p)  PROVE Published'
  <2> DEFINE e == Job(p)
  <2>1. e \in Executions
    BY <1>7, JobType DEF publisher_node, At
  <2>2. \A f \in Executions \ {e} :
            /\ next'[f] = next[f] /\ gstatus'[f] = gstatus[f]
            /\ posted'[f] = posted[f] /\ pubs'[f] = pubs[f]
    BY <1>7 DEF publisher_node
  <2>3. /\ next'[e] = "finalize" /\ posted'[e] # "none"
        /\ gstatus'[e] = "completed" => gstatus[e] = "completed"
        /\ UNCHANGED <<row, decision>>
    BY <1>7, <2>1 DEF publisher_node, rows
  <2>4. /\ pubs'[e] \in {pubs[e], pubs[e] + 1}
        /\ decision[e] # "rejected" => pubs'[e] >= 1
    BY <1>7, <2>1 DEF publisher_node, Publishes
  <2>5. posted'[e] = "yes" => decision[e] # "rejected"
    BY <1>7, <2>1 DEF publisher_node, Publishes
  <2> QED BY <2>1, <2>2, <2>3, <2>4, <2>5 DEF Published
<1>8. ASSUME NEW p \in Processes, finalize_node(p)  PROVE Published'
  <2> DEFINE e == Job(p)
  <2>1. e \in Executions /\ next[e] = "finalize"
    BY <1>8, JobType DEF finalize_node, At
  <2>2. \A f \in Executions \ {e} : next'[f] = next[f] /\ gstatus'[f] = gstatus[f]
    BY <1>8 DEF finalize_node
  <2>3. /\ next'[e] = "end" /\ UNCHANGED <<row, decision, posted, pubs>>
        /\ gstatus'[e] = "completed" => decision[e] # "rejected" /\ posted[e] # "no"
    BY <1>8, <2>1 DEF finalize_node, rows, world
  <2>4. gstatus'[e] = "completed" => pubs[e] >= 1
    BY <2>1, <2>3 DEF Published
  <2> QED BY <2>1, <2>2, <2>3, <2>4 DEF Published
<1>9. ASSUME NEW p \in Processes, WriteFailed(p) \/ _update_execution_row(p)
      PROVE  Published'
  <2>1. /\ UNCHANGED <<graph, pubs>>
        /\ \A f \in Executions \ {Job(p)} : row'[f] = row[f]
    BY <1>9 DEF WriteFailed, _update_execution_row, world
  <2>2. row'[Job(p)] = "completed" => pubs[Job(p)] >= 1
    BY <1>9, JobType, OutcomeSound DEF WriteFailed
  <2> QED BY <2>1, <2>2 DEF graph, Published
<1>10. ASSUME NEW e \in Executions, start_execution(e)  PROVE Published'
  BY <1>10 DEF start_execution, graph, world, Published
<1>11. CASE _cleanup_ghost_executions
  BY <1>11 DEF _cleanup_ghost_executions, graph, world, Published
<1>12. ASSUME NEW p \in Processes, DropInNode(p)  PROVE Published'
  <2>1. /\ UNCHANGED <<row, graph>>
        /\ \A e \in Executions : pubs'[e] \in {pubs[e], pubs[e] + 1}
    BY <1>12, JobType DEF DropInNode, At, rows
  <2> QED BY <2>1 DEF graph, Published
<1>13. ASSUME NEW p \in Processes,
              \/ RunNothing(p) \/ NodeRaises(p) \/ _persist_trace_events(p) \/ Drop(p)
       PROVE  Published'
  BY <1>1, <1>13 DEF RunNothing, NodeRaises, _persist_trace_events, Drop, rows, world
<1>14. ASSUME NEW e \in Executions, NEW p \in Processes,
              \/ GrowOld(e) \/ OthersFire(e) \/ approve(e) \/ reject(e) \/ retry_approval(e)
              \/ FireEntry(p, e) \/ CancelEntry(e)
       PROVE  Published'
  BY <1>1, <1>14
  DEF GrowOld, OthersFire, approve, reject, retry_approval, FireEntry, CancelEntry, rows, world
<1>15. CASE MarkHandled \/ UNCHANGED vars
  BY <1>1, <1>15 DEF MarkHandled, vars, rows, world
<1> QED
  BY <1>3, <1>4, <1>5, <1>6, <1>7, <1>8, <1>9, <1>10, <1>11, <1>12, <1>13, <1>14, <1>15
  DEF Next, Operator, WorkerStep, Failure, Invocation, Processes

-----------------------------------------------------------------------------
(* Without a fault the gate is passed with a decision only                 *)

\* What a rule with a gate has been through, as long as nothing failed.  A
\* pause leaves the graph before the node that follows on it: before the gate
\* behind the wait, before the publication behind the gate.
Gate(e) ==
    /\ row[e] = "none" => next[e] \in {"wait", "approval"}
    /\ row[e] = "waiting_timer" =>
           next[e] = "approval" \/ (Invoking(Worker, e) /\ next[e] = "publish")
    /\ row[e] = "waiting_human" =>
           next[e] = "publish" \/ (Invoking(Api, e) /\ next[e] \in {"finalize", "end"})
    /\ next[e] = "end" => gstatus[e] \in Ended \cup {"running"}
    /\ pubs[e] > 0 => decision[e] = "approved"

\* A process runs the publication only with a decision, and what it saves is a
\* pause or the end of the graph.
Driven(p) ==
    LET e == Job(p) IN
    /\ pc[p] = "invoking" /\ next[e] = "publish" => decision[e] \in {"approved", "rejected"}
    /\ pc[p] \in {"saving", "closing"} =>
           \/ p \in Executions /\ next[e] = "approval" /\ gstatus[e] = "waiting_timer"
           \/ /\ next[e] = "publish" /\ gstatus[e] = "waiting_human"
              /\ decision[e] = "pending"
           \/ next[e] = "end" /\ gstatus[e] \in Ended \cup {"running"}

Gated ==
    faults = 0 =>
        /\ \A e \in Executions : "approval" \in rule[e] => Gate(e)
        /\ \A p \in Processes :
               pc[p] # "idle" /\ "approval" \in rule[Job(p)] => Driven(p)

\* An execution that the step leaves alone stays where it is.
LEMMA GateFrame ==
    ASSUME NEW e \in Executions, Gate(e),
           row'[e] = row[e], next'[e] = next[e], gstatus'[e] \in {gstatus[e], "running"},
           pubs'[e] = pubs[e], decision'[e] = decision[e],
           Invoking(Api, e) => Invoking(Api, e)', Invoking(Worker, e) => Invoking(Worker, e)'
    PROVE  Gate(e)'
BY DEF Gate

\* So does a process that the step leaves alone, with the graph it drives.
LEMMA DrivenFrame ==
    ASSUME NEW q \in Processes, pc[q] # "idle" => Driven(q),
           pc'[q] = pc[q], Job(q)' = Job(q),
           Invoking(q, Job(q)) =>
               /\ next'[Job(q)] = next[Job(q)] /\ gstatus'[Job(q)] = gstatus[Job(q)]
               /\ decision'[Job(q)] = decision[Job(q)],
           pc'[q] # "idle"
    PROVE  Driven(q)'
<1>1. CASE Invoking(q, Job(q))
  BY <1>1 DEF Driven, Invoking
<1>2. CASE ~Invoking(q, Job(q))
  BY <1>2 DEF Driven, Invoking
<1> QED BY <1>1, <1>2

\* A step of p on the execution it drives: what is left to show is about the two.
LEMMA GatedDrive ==
    ASSUME TypeOK, JobsHeld, Lock, Gated, faults' = faults, rule' = rule,
           NEW p \in Processes, Invoking(p, Job(p)),
           \A q \in Processes \ {p} : Job(q)' = Job(q) /\ pc'[q] = pc[q],
           \A f \in Executions \ {Job(p)} :
               /\ row'[f] = row[f] /\ pubs'[f] = pubs[f] /\ next'[f] = next[f]
               /\ gstatus'[f] = gstatus[f] /\ decision'[f] = decision[f],
           faults = 0 /\ "approval" \in rule[Job(p)] =>
               /\ \A e : e = Job(p) => Gate(e)'
               /\ pc'[p] # "idle" => Driven(p)',
           pc'[p] # "idle" => Job(p)' = Job(p)
    PROVE  Gated'
<1> SUFFICES ASSUME faults = 0 PROVE Gated'
  BY DEF Gated
<1>1. ASSUME NEW f \in Executions, "approval" \in rule[f]  PROVE Gate(f)'
  <2>1. CASE f = Job(p)
    BY <1>1, <2>1
  <2>2. CASE f # Job(p)
    <3>1. \A q \in {Api, Worker} : Invoking(q, f) => Invoking(q, f)'
      BY <2>2 DEF Invoking, Processes
    <3> QED BY <1>1, <2>2, <3>1, GateFrame DEF Gated
  <2> QED BY <2>1, <2>2
<1>2. ASSUME NEW q \in Processes, pc'[q] # "idle", "approval" \in rule[Job(q)']
      PROVE  Driven(q)'
  <2>1. CASE q = p
    BY <1>2, <2>1
  <2>2. CASE q # p
    <3>1. pc[q] # "idle" /\ Job(q)' = Job(q) /\ Job(q) \in Executions
      BY <1>2, <2>2, JobType
    <3>2. Driven(q)
      BY <1>2, <3>1 DEF Gated
    <3>3. Invoking(q, Job(q)) => Job(q) # Job(p)
      BY <2>2, <3>1, Exclusion
    <3> QED BY <1>2, <2>2, <3>1, <3>2, <3>3, DrivenFrame
  <2> QED BY <2>1, <2>2
<1> QED BY <1>1, <1>2 DEF Gated

\* A process that stops, or that takes up an execution without driving it.
LEMMA GatedIdle ==
    ASSUME TypeOK, JobsHeld, Gated, faults' = faults, rule' = rule,
           UNCHANGED <<row, graph, pubs>>,
           NEW p \in Processes, \A e \in Executions : ~Invoking(p, e),
           \A q \in Processes \ {p} : Job(q)' = Job(q) /\ pc'[q] = pc[q],
           pc'[p] \notin {"invoking", "saving", "closing"}
    PROVE  Gated'
<1> SUFFICES ASSUME faults = 0 PROVE Gated'
  BY DEF Gated
<1>1. ASSUME NEW f \in Executions, "approval" \in rule[f]  PROVE Gate(f)'
  <2>1. \A q \in {Api, Worker} : Invoking(q, f) => Invoking(q, f)'
    BY DEF Invoking, Processes
  <2> QED BY <1>1, <2>1, GateFrame DEF Gated, graph
<1>2. ASSUME NEW q \in Processes, pc'[q] # "idle", "approval" \in rule[Job(q)']
      PROVE  Driven(q)'
  <2>1. CASE q = p
    BY <2>1 DEF Driven
  <2>2. CASE q # p
    BY <1>2, <2>2, DrivenFrame DEF Gated, graph
  <2> QED BY <2>1, <2>2
<1> QED BY <1>1, <1>2 DEF Gated

\* The worker and the API resume a graph that waits for them.
LEMMA GatedResume ==
    ASSUME TypeOK, JobsHeld, Lock, Counted, Gated,
           NEW p \in {Api, Worker}, \A e \in Executions : ~Invoking(p, e),
           NEW e \in Executions, Holds(p, e), NEW d, Resume(p, e, d),
           p = Api => d \in {"approved", "rejected"},
           p = Worker => d = decision[e]
    PROVE  Gated'
<1> SUFFICES ASSUME faults = 0 PROVE Gated'
  BY DEF Gated, Resume
<1>0. /\ UNCHANGED <<row, rule, next, pubs>> /\ p \in Processes
      /\ \A q \in Processes \ {p} : Job(q)' = Job(q) /\ pc'[q] = pc[q]
      /\ pc'[p] = "invoking" /\ Job(p)' = e
  BY ServeFrame DEF Resume, rows, world, Processes
<1>1. decision'[e] = d /\ gstatus'[e] = "running" /\ \A f \in Executions \ {e} :
          decision'[f] = decision[f] /\ gstatus'[f] = gstatus[f]
  BY DEF Resume, TypeOK
<1>2. ASSUME NEW f \in Executions, "approval" \in rule[f]  PROVE Gate(f)'
  <2>1. \A q \in {Api, Worker} : Invoking(q, f) => Invoking(q, f)'
    BY <1>0 DEF Invoking, Processes
  <2>2. CASE f # e
    BY <1>0, <1>1, <1>2, <2>1, <2>2, GateFrame DEF Gated
  <2>3. CASE f = e /\ p = Worker
    BY <1>0, <1>1, <1>2, <2>1, <2>3, ProcessAssumption, GateFrame DEF Gated
  <2>4. CASE f = e /\ p = Api
    <3>1. Gate(e) /\ row[e] = "waiting_human" /\ next[e] = "publish"
      BY <1>2, <2>4 DEF Gated, Gate, Holds
    <3>2. ~(pubs[e] > 0)
      BY <3>1 DEF Counted, TypeOK
    <3> QED BY <1>0, <1>1, <2>4, <3>1, <3>2 DEF Gate
  <2> QED BY <2>2, <2>3, <2>4
<1>3. ASSUME NEW q \in Processes, pc'[q] # "idle", "approval" \in rule[Job(q)']
      PROVE  Driven(q)'
  <2>1. CASE q = p
    <3>1. Gate(e)
      BY <1>0, <1>3, <2>1 DEF Gated
    <3>2. p = Worker => next[e] = "approval"
      BY <3>1, ProcessAssumption DEF Gate, Holds
    <3>3. next'[e] = "publish" => decision'[e] \in {"approved", "rejected"}
      BY <1>0, <1>1, <3>2
    <3> QED BY <1>0, <2>1, <3>3 DEF Driven
  <2>2. CASE q # p
    <3>1. pc[q] # "idle" /\ Job(q)' = Job(q) /\ Job(q) \in Executions
      BY <1>0, <1>3, <2>2, JobType
    <3>2. Invoking(q, Job(q)) => Job(q) # e
      BY <2>2, <3>1, ProcessAssumption DEF Lock, Holds, Processes, Invoking, Job
    <3> QED BY <1>0, <1>1, <1>3, <2>2, <3>1, <3>2, DrivenFrame DEF Gated
  <2> QED BY <2>1, <2>2
<1> QED BY <1>0, <1>2, <1>3 DEF Gated

\* Only a thread that is gone keeps its job when it ends.
LEMMA FinishGone ==
    ASSUME TypeOK, NEW p \in Processes, Finish(p), pc'[p] # "idle"
    PROVE  Job(p)' = Job(p)
BY DEF TypeOK, Finish, Job, Processes

\* One node, or one step behind the last of them, of the process that drives e.
LEMMA GatedNode ==
    ASSUME TypeOK, JobsHeld, Lock, Undecided, Counted, Gated,
           NEW p \in Processes, Invocation(p), NEW e \in Executions, e = Job(p)
    PROVE  Gated'
<1> USE DEF TypeOK
<1>0. Invoking(p, e) /\ faults' = faults /\ rule' = rule
  BY InvocationDrives
  DEF Invocation, Invoking, wait_node, approval_gate_node, publisher_node, finalize_node,
      RunNothing, NodeRaises, WriteFailed, _persist_trace_events, _update_execution_row
<1>1. \A q \in Processes \ {p} : Job(q)' = Job(q) /\ pc'[q] = pc[q]
  <2>1. CASE publisher_node(p)
    BY <2>1 DEF publisher_node, process, Job
  <2>2. CASE ~publisher_node(p)
    BY <2>2, GotoFrame, FinishFrame
    DEF Invocation, wait_node, approval_gate_node, finalize_node, RunNothing, NodeRaises,
        WriteFailed, _persist_trace_events, _update_execution_row, AfterInvoke
  <2> QED BY <2>1, <2>2
<1>2. Holds(p, e) /\ (p \in Executions => p = e)
  BY <1>0 DEF Lock, Job
<1>3. ASSUME faults = 0, "approval" \in rule[e]
      PROVE  /\ Gate(e) /\ Driven(p)
             /\ next[e] \notin {"finalize", "end"} => ~(pubs[e] > 0)
  BY <1>0, <1>3 DEF Gated, Counted, Invoking
<1>4. CASE wait_node(p)
  <2>1. /\ UNCHANGED <<row, pubs, decision>> /\ pc'[p] = "saving" /\ Job(p)' = e
        /\ next[e] = "wait" /\ next'[e] = AfterWait(rule[e]) /\ gstatus'[e] = "waiting_timer"
        /\ \A f \in Executions \ {e} : next'[f] = next[f] /\ gstatus'[f] = gstatus[f]
    BY <1>0, <1>4, GotoFrame DEF wait_node, At, rows
  <2>2. ASSUME faults = 0, "approval" \in rule[e]
        PROVE  /\ Gate(e)' /\ Driven(p)'
    <3>1. row[e] \notin {"waiting_timer", "waiting_human", "none"} /\ p \in Executions
      BY <1>2, <1>3, <2>1, <2>2 DEF Gate, Holds, Processes
    <3> QED BY <1>0, <1>3, <2>1, <2>2, <3>1 DEF Gate, Driven, AfterWait
  <2> QED BY <1>0, <1>1, <2>1, <2>2, GatedDrive
<1>5. CASE approval_gate_node(p)
  <2>1. /\ UNCHANGED <<row, pubs>> /\ pc'[p] = "saving" /\ Job(p)' = e
        /\ next[e] = "approval" /\ next'[e] = "publish" /\ gstatus'[e] = "waiting_human"
        /\ decision'[e] = "pending"
        /\ \A f \in Executions \ {e} : /\ next'[f] = next[f] /\ gstatus'[f] = gstatus[f]
                                       /\ decision'[f] = decision[f]
    BY <1>0, <1>5, GotoFrame DEF approval_gate_node, At, rows
  <2>2. ASSUME faults = 0, "approval" \in rule[e]
        PROVE  /\ Gate(e)' /\ Driven(p)'
    <3>1. row[e] # "none" /\ (row[e] = "waiting_timer" => p = Worker)
      BY <1>2, ProcessAssumption DEF Holds, Processes
    <3>2. Invoking(p, e)'
      BY <2>1 DEF Invoking
    <3> QED BY <1>0, <1>3, <2>1, <2>2, <3>1, <3>2 DEF Gate, Driven
  <2> QED BY <1>0, <1>1, <2>1, <2>2, GatedDrive
<1>6. CASE publisher_node(p)
  <2>1. /\ UNCHANGED <<row, decision>> /\ pc'[p] = pc[p] /\ pc[p] = "invoking" /\ Job(p)' = e
        /\ next[e] = "publish" /\ next'[e] = "finalize"
        /\ decision[e] = "rejected" => pubs'[e] = pubs[e]
        /\ \A f \in Executions \ {e} : /\ next'[f] = next[f] /\ gstatus'[f] = gstatus[f]
                                       /\ pubs'[f] = pubs[f]
    BY <1>0, <1>6 DEF publisher_node, At, rows, process, Job, Publishes
  <2>2. ASSUME faults = 0, "approval" \in rule[e]
        PROVE  /\ Gate(e)' /\ Driven(p)'
    <3>1. decision[e] \in {"approved", "rejected"}
      BY <1>3, <2>1, <2>2 DEF Driven
    <3>2. row[e] # "none" /\ row[e] # "waiting_timer" /\ (row[e] = "waiting_human" => p = Api)
      <4>1. row[e] # "waiting_timer"
        BY <1>0, <3>1 DEF Undecided
      <4> QED BY <1>2, <4>1, ProcessAssumption DEF Holds, Processes
    <3>3. Invoking(p, e)'
      BY <2>1 DEF Invoking
    <3> QED BY <1>0, <1>3, <2>1, <2>2, <3>1, <3>2, <3>3 DEF Gate, Driven
  <2> QED BY <1>0, <1>1, <2>1, <2>2, GatedDrive
<1>7. CASE finalize_node(p)
  <2>1. /\ UNCHANGED <<row, pubs, decision>> /\ pc'[p] = "saving" /\ Job(p)' = e
        /\ next[e] = "finalize" /\ next'[e] = "end" /\ gstatus'[e] \in Ended
        /\ \A f \in Executions \ {e} : next'[f] = next[f] /\ gstatus'[f] = gstatus[f]
    BY <1>0, <1>7, GotoFrame DEF finalize_node, At, rows, world, Ended
  <2>2. ASSUME faults = 0, "approval" \in rule[e]
        PROVE  /\ Gate(e)' /\ Driven(p)'
    <3>1. row[e] \notin {"none", "waiting_timer"} /\ (row[e] = "waiting_human" => p = Api)
      BY <1>2, <1>3, <2>1, <2>2, ProcessAssumption DEF Gate, Holds, Processes
    <3>2. Invoking(p, e)'
      BY <2>1 DEF Invoking
    <3> QED BY <1>0, <1>3, <2>1, <2>2, <3>1, <3>2 DEF Gate, Driven
  <2> QED BY <1>0, <1>1, <2>1, <2>2, GatedDrive
<1>8. CASE RunNothing(p)
  <2>1. /\ UNCHANGED <<row, pubs, graph>> /\ pc'[p] = "saving" /\ Job(p)' = e
        /\ pc[p] = "invoking" /\ next[e] = "end"
    BY <1>0, <1>8, GotoFrame DEF RunNothing, At, rows, world
  <2>2. ASSUME faults = 0, "approval" \in rule[e]
        PROVE  /\ Gate(e)' /\ Driven(p)'
    <3>1. row[e] \notin {"none", "waiting_timer"} /\ (row[e] = "waiting_human" => p = Api)
      BY <1>2, <1>3, <2>1, <2>2, ProcessAssumption DEF Gate, Holds, Processes
    <3>2. Invoking(p, e)'
      BY <2>1 DEF Invoking
    <3>3. Gate(e)'
      BY <1>3, <2>1, <2>2, <3>1, <3>2 DEF Gate, graph
    <3> QED BY <1>3, <2>1, <2>2, <3>3 DEF Gate, Driven, graph
  <2> QED BY <1>0, <1>1, <2>1, <2>2, GatedDrive DEF graph
<1>9. CASE NodeRaises(p) \/ WriteFailed(p)
  <2>1. /\ UNCHANGED <<pubs, graph>> /\ row'[e] \in {row[e], "failed"}
        /\ pc'[p] \in {"failing", "marking", "idle", "gone"}
        /\ pc'[p] # "idle" => Job(p)' = e
        /\ Invoking(p, e)' \/ row'[e] = "failed"
        /\ \A f \in Executions \ {e} : row'[f] = row[f]
    BY <1>0, <1>9, GotoFrame, FinishFrame, FinishGone
    DEF NodeRaises, WriteFailed, AfterInvoke, rows, world, Invoking
  <2>2. ASSUME faults = 0, "approval" \in rule[e]
        PROVE  /\ Gate(e)' /\ Driven(p)'
    <3>1. Driven(p)'
      BY <2>1 DEF Driven
    <3>2. CASE row'[e] = "failed"
      BY <1>3, <2>1, <2>2, <3>1, <3>2 DEF Gate, graph
    <3>3. CASE Invoking(p, e)' /\ row'[e] = row[e]
      <4>1. \A q \in {Api, Worker} : Invoking(q, e) => Invoking(q, e)'
        BY <1>0, <3>3, Exclusion DEF Processes
      <4> QED BY <1>0, <1>3, <2>1, <2>2, <3>1, <3>3, <4>1, GateFrame DEF graph
    <3> QED BY <2>1, <3>1, <3>2, <3>3
  <2> QED BY <1>0, <1>1, <2>1, <2>2, GatedDrive DEF graph
<1>10. CASE _persist_trace_events(p)
  <2>1. /\ UNCHANGED <<row, pubs, graph>> /\ pc[p] = "saving" /\ pc'[p] = "closing"
        /\ Job(p)' = e
    BY <1>0, <1>10, GotoFrame DEF _persist_trace_events, world
  <2>2. ASSUME faults = 0, "approval" \in rule[e]
        PROVE  /\ Gate(e)' /\ Driven(p)'
    <3>1. \A q \in {Api, Worker} : Invoking(q, e) => Invoking(q, e)'
      BY <1>0, <2>1, Exclusion DEF Processes, Invoking
    <3>2. Gate(e)'
      BY <1>0, <1>3, <2>1, <2>2, <3>1, GateFrame DEF graph
    <3> QED BY <1>3, <2>1, <2>2, <3>2 DEF Driven, graph
  <2> QED BY <1>0, <1>1, <2>1, <2>2, GatedDrive DEF graph
<1>11. CASE _update_execution_row(p)
  <2>1. /\ UNCHANGED <<pubs, graph>> /\ row'[e] = Outcome(p, e) /\ pc[p] = "closing"
        /\ pc'[p] \in {"marking", "idle", "gone"}
        /\ pc'[p] # "idle" => Job(p)' = e
        /\ \A f \in Executions \ {e} : row'[f] = row[f]
    BY <1>0, <1>11, GotoFrame, FinishFrame, FinishGone
    DEF _update_execution_row, AfterInvoke, world
  <2>2. ASSUME faults = 0, "approval" \in rule[e]
        PROVE  /\ Gate(e)' /\ Driven(p)'
    <3>1. Driven(p)'
      BY <2>1 DEF Driven
    <3>2. CASE p \in Executions /\ next[e] = "approval" /\ gstatus[e] = "waiting_timer"
      BY <1>3, <2>1, <2>2, <3>1, <3>2 DEF Gate, Outcome, graph
    <3>3. CASE next[e] = "publish" /\ gstatus[e] = "waiting_human" /\ decision[e] = "pending"
      BY <1>3, <2>1, <2>2, <3>1, <3>3 DEF Gate, Outcome, graph
    <3>4. CASE next[e] = "end" /\ gstatus[e] \in Ended \cup {"running"}
      BY <1>3, <2>1, <2>2, <3>1, <3>4 DEF Gate, Outcome, graph, Ended
    <3> QED BY <1>3, <2>1, <2>2, <3>1, <3>2, <3>3, <3>4 DEF Driven
  <2> QED BY <1>0, <1>1, <2>1, <2>2, GatedDrive DEF graph
<1> QED
  BY <1>4, <1>5, <1>6, <1>7, <1>8, <1>9, <1>10, <1>11 DEF Invocation

\* Every step keeps the gate shut until there is a decision, while there is no fault.
LEMMA GatedStep ==
    ASSUME IInv, Gated, [Next]_vars
    PROVE  Gated'
<1> USE DEF IInv
<1>0. TypeOK /\ JobsHeld /\ Lock /\ Undecided /\ Counted
  OBVIOUS
<1>1. CASE UNCHANGED <<row, rule, next, gstatus, decision, pubs, pc, job, faults>>
  BY <1>1 DEF Gated, Gate, Driven, Invoking, Job
<1>2. ASSUME NEW p \in Processes, Invocation(p)  PROVE Gated'
  <2>1. Job(p) \in Executions
    BY <1>0, <1>2, InvocationDrives, JobType DEF Invoking
  <2> QED BY <1>0, <1>2, <2>1, GatedNode
<1>3. ASSUME NEW e \in Executions, start_execution(e)  PROVE Gated'
  <2>1. /\ UNCHANGED <<rule, graph, pubs, faults>> /\ row[e] = "none" /\ row'[e] = "running"
        /\ \A f \in Executions \ {e} : row'[f] = row[f]
        /\ e \in Processes /\ Job(e) = e /\ Job(e)' = e /\ pc'[e] = "invoking"
        /\ \A q \in Processes \ {e} : Job(q)' = Job(q) /\ pc'[q] = pc[q]
    BY <1>0, <1>3, GotoFrame DEF start_execution, Processes, Job, TypeOK, world
  <2> SUFFICES ASSUME faults = 0 PROVE Gated'
    BY <2>1 DEF Gated
  <2>2. ASSUME NEW f \in Executions, "approval" \in rule[f]  PROVE Gate(f)'
    <3>1. Gate(f)
      BY <2>2 DEF Gated
    <3>2. \A q \in {Api, Worker} : Invoking(q, f) => Invoking(q, f)'
      BY <2>1, ProcessAssumption DEF Invoking, Processes
    <3>3. CASE f = e
      BY <2>1, <3>1, <3>3 DEF Gate, graph
    <3>4. CASE f # e
      BY <2>1, <3>1, <3>2, <3>4, GateFrame DEF graph
    <3> QED BY <3>3, <3>4
  <2>3. ASSUME NEW q \in Processes, pc'[q] # "idle", "approval" \in rule[Job(q)']
        PROVE  Driven(q)'
    <3>1. CASE q = e
      BY <2>1, <2>3, <3>1 DEF Gated, Gate, Driven, graph
    <3>2. CASE q # e
      BY <2>1, <2>3, <3>2, DrivenFrame DEF Gated, graph
    <3> QED BY <3>1, <3>2
  <2> QED BY <2>1, <2>2, <2>3 DEF Gated
<1>4. ASSUME NEW e \in Executions,
             ResumeByOperator(e, "approved") \/ ResumeByOperator(e, "rejected")
      PROVE  Gated'
  <2>1. \A f \in Executions : ~Invoking(Api, f)
    BY <1>4 DEF ResumeByOperator, Invoking
  <2>2. Holds(Api, e)
    BY <1>4 DEF ResumeByOperator, Holds
  <2> QED BY <1>0, <1>4, <2>1, <2>2, GatedResume, ProcessAssumption DEF ResumeByOperator
<1>5. CASE resume_execution
  <2>1. job[Api] \in Executions /\ Api \in Processes /\ \A e \in Executions : ~Invoking(Api, e)
    BY <1>0, <1>5 DEF resume_execution, JobsHeld, Processes, Invoking
  <2>2. CASE row[job[Api]] = "waiting_human"
    BY <1>0, <1>5, <2>1, <2>2, GatedResume, ProcessAssumption DEF resume_execution, Holds
  <2>3. CASE row[job[Api]] # "waiting_human"
    BY <1>0, <1>5, <2>1, <2>3, FinishFrame, GatedIdle DEF resume_execution, rows, world
  <2> QED BY <2>2, <2>3
<1>6. ASSUME NEW e \in Executions, resume_after_wait(e)  PROVE Gated'
  <2>1. Worker \in Processes /\ \A f \in Executions : ~Invoking(Worker, f)
    BY <1>6 DEF resume_after_wait, Processes, Invoking
  <2>2. CASE row[e] = "waiting_timer"
    BY <1>0, <1>6, <2>1, <2>2, GatedResume, ProcessAssumption DEF resume_after_wait, Holds
  <2>3. CASE row[e] # "waiting_timer"
    BY <1>0, <1>6, <2>1, <2>3, ServeFrame, GatedIdle DEF resume_after_wait, rows, world
  <2> QED BY <2>2, <2>3
<1>7. ASSUME NEW e \in Executions, approve(e)  PROVE Gated'
  <2>1. Api \in Processes /\ \A f \in Executions : ~Invoking(Api, f)
    BY <1>7 DEF approve, Processes, Invoking
  <2> QED BY <1>0, <1>7, <2>1, ServeFrame, GatedIdle DEF approve, rows
<1>8. CASE MarkHandled
  <2>1. Worker \in Processes /\ \A f \in Executions : ~Invoking(Worker, f)
    BY <1>8 DEF MarkHandled, Processes, Invoking
  <2> QED BY <1>0, <1>8, <2>1, FinishFrame, GatedIdle DEF MarkHandled, rows
<1>9. CASE _cleanup_ghost_executions
  <2>1. /\ UNCHANGED <<rule, graph, pubs, pc, job, faults>>
        /\ \A e \in Executions : row'[e] \in {row[e], "failed"}
    BY <1>9 DEF _cleanup_ghost_executions, world, process
  <2> QED BY <2>1 DEF Gated, Gate, Driven, Invoking, Job, graph
<1>10. ASSUME NEW e \in Executions, NEW p \in Processes,
              \/ GrowOld(e) \/ OthersFire(e) \/ reject(e) \/ retry_approval(e)
              \/ FireEntry(p, e) \/ CancelEntry(e)
       PROVE  Gated'
  BY <1>1, <1>10
  DEF GrowOld, OthersFire, reject, retry_approval, FireEntry, CancelEntry, rows, graph, world,
      process
<1>11. CASE Failure
  <2>1. faults' # 0
    BY <1>0, <1>11 DEF Failure, Drop, DropInNode, Unscheduled, Unrequested, Fault, TypeOK
  <2> QED BY <2>1 DEF Gated
<1>12. CASE UNCHANGED vars
  BY <1>1, <1>12 DEF vars, rows, graph, world, process
<1> QED
  BY <1>2, <1>3, <1>4, <1>5, <1>6, <1>7, <1>8, <1>9, <1>10, <1>11, <1>12
  DEF Next, Operator, WorkerStep, Processes

-----------------------------------------------------------------------------
(* The theorems                                                            *)

\* The invariant holds at the start.
LEMMA InitIInv == Init => IInv
<1> SUFFICES ASSUME Init PROVE IInv
  OBVIOUS
<1>1. TypeOK
  BY FaultsAssumption DEF Init, TypeOK, FirstNode, AfterWait, Nodes
<1>2. JobsHeld /\ Lock /\ Undecided
  BY DEF Init, JobsHeld, Lock, Undecided, Invoking, Processes
<1>3. PastWait
  BY DEF Init, PastWait, Invoking, Processes
<1>4. Published /\ Counted
  BY FaultsAssumption DEF Init, Published, Counted, FirstNode, AfterWait
<1> QED BY <1>1, <1>2, <1>3, <1>4 DEF IInv

\* Every step keeps the invariant.
LEMMA NextIInv == IInv /\ [Next]_vars => IInv'
BY TypeStep, LockStep, UndecidedStep, PastWaitStep, PublishedStep, CountedStep DEF IInv

\* The invariant holds always.
LEMMA Invariance == Spec => []IInv
<1>1. Init => IInv
  BY InitIInv
<1>2. IInv /\ [Next]_vars => IInv'
  BY NextIInv
<1> QED BY <1>1, <1>2, PTL DEF Spec

\* Every variable keeps its type, for any number of executions and faults.
THEOREM TypeCorrect == Spec => []TypeOK
BY Invariance, PTL DEF IInv

\* The status of the row is a lock: the threads of the listener, the worker and
\* the API never drive the same graph at the same time.
THEOREM MutualExclusion == Spec => []OneDriver
<1>1. IInv => OneDriver
  BY Exclusion DEF IInv, OneDriver
<1> QED BY <1>1, Invariance, PTL

\* The publishing tool is called at most once more than there were faults.
THEOREM AtMostOncePerFault == Spec => []PublishCounted
<1>1. IInv => PublishCounted
  BY DEF IInv, Counted, PublishCounted
<1> QED BY <1>1, Invariance, PTL

\* As long as nothing failed, what a rule with an approval gate published was
\* approved by an operator: no resume by the timer, by a decision on an old
\* request or by a second click reaches the publisher before the answer.
THEOREM ApprovalFirst == Spec => []ApprovedFirst
<1>1. Init => Gated
  <2> SUFFICES ASSUME Init PROVE Gated
    OBVIOUS
  <2>1. \A e \in Executions : "approval" \in rule[e] => Gate(e)
    BY DEF Init, Gate, FirstNode, AfterWait
  <2>2. \A p \in Processes : pc[p] = "idle"
    BY DEF Init
  <2> QED BY <2>1, <2>2 DEF Gated
<1>2. IInv /\ Gated /\ [Next]_vars => Gated'
  BY GatedStep
<1>3. IInv /\ Gated => ApprovedFirst
  BY DEF Gated, Gate, ApprovedFirst
<1> QED BY <1>1, <1>2, <1>3, Invariance, PTL DEF Spec

\* A row says "completed" only of an execution whose post went out.
THEOREM CompletionSound == Spec => []CompletedPublished
<1>1. IInv => CompletedPublished
  BY DEF IInv, Published, CompletedPublished
<1> QED BY <1>1, Invariance, PTL

\* No step writes over the final status of an execution, except that of a
\* thread which the clean-up took for dead.
THEOREM EndIsFinal == Spec => EndedStays
<1> DEFINE Stays == \A e \in Executions :
                       row[e] \in Ended /\ e \notin old => row'[e] = row[e]
<1>1. IInv /\ [Next]_vars => [Stays]_vars
  <2> SUFFICES ASSUME IInv, Next PROVE Stays
    BY DEF Stays
  <2> USE DEF IInv, TypeOK
  <2>1. ASSUME NEW p \in Processes, WriteFailed(p) \/ _update_execution_row(p)  PROVE Stays
    <3>1. Job(p) \in Executions /\ Invoking(p, Job(p))
      BY <2>1, JobType DEF WriteFailed, _update_execution_row, Invoking
    <3>2. row[Job(p)] \notin Ended \/ Job(p) \in old
      BY <3>1 DEF Lock, Holds, Ended
    <3>3. \A f \in Executions \ {Job(p)} : row'[f] = row[f]
      BY <2>1 DEF WriteFailed, _update_execution_row
    <3> QED BY <3>2, <3>3
  <2>2. ASSUME NEW e \in Executions, start_execution(e)  PROVE Stays
    BY <2>2 DEF start_execution, Ended
  <2>3. CASE _cleanup_ghost_executions
    BY <2>3 DEF _cleanup_ghost_executions, Ghosts, Ended
  <2>4. row' = row => Stays
    OBVIOUS
  <2>5. ASSUME NEW p \in Processes,
               \/ wait_node(p) \/ approval_gate_node(p) \/ publisher_node(p)
               \/ finalize_node(p) \/ RunNothing(p) \/ NodeRaises(p)
               \/ _persist_trace_events(p) \/ Drop(p) \/ DropInNode(p)
               \/ Unscheduled(p) \/ Unrequested(p)
        PROVE  row' = row
    BY <2>5
    DEF wait_node, approval_gate_node, publisher_node, finalize_node, RunNothing, NodeRaises,
        _persist_trace_events, Drop, DropInNode, Unscheduled, Unrequested, rows
  <2>6. ASSUME NEW e \in Executions, NEW p \in Processes,
               \/ GrowOld(e) \/ OthersFire(e) \/ approve(e) \/ reject(e) \/ retry_approval(e)
               \/ ResumeByOperator(e, "approved") \/ ResumeByOperator(e, "rejected")
               \/ FireEntry(p, e) \/ CancelEntry(e) \/ resume_after_wait(e)
        PROVE  row' = row
    BY <2>6
    DEF GrowOld, OthersFire, approve, reject, retry_approval, ResumeByOperator, FireEntry,
        CancelEntry, resume_after_wait, Resume, rows
  <2>7. MarkHandled \/ resume_execution => row' = row
    BY DEF MarkHandled, resume_execution, Resume, rows
  <2> QED
    BY <2>1, <2>2, <2>3, <2>4, <2>5, <2>6, <2>7
    DEF Next, Operator, WorkerStep, Failure, Invocation, Processes
<1> QED BY <1>1, Invariance, PTL DEF Spec, EndedStays
=============================================================================
