--------------------------- MODULE SchedulingProofs ---------------------------
(***************************************************************************)
(* Proofs about Scheduling, for any names, entries and faults.             *)
(***************************************************************************)
EXTENDS Scheduling, FiniteSetTheorems, TLAPS

Statuses == {"pending", "fired", "cancelled", "failed"}
Working  == Firing \cup {"cancelling", "moving"}

\* A process that works has an entry, and an entry that was fired is not planned.
EntryInv ==
    /\ \A p \in Processes : pc[p] \in Working => cur[p] \in Ids
    /\ \A i \in Ids : fires[i] > 0 => status[i] # "pending"

-----------------------------------------------------------------------------
(* Series without a successor                                              *)

\* Entries that a process is about to mark as failed: orphans to be.
Failing == {i \in Ids : \E p \in Processes : pc[p] = "failing" /\ cur[p] = i}
OrphanInv == Cardinality(Orphans \cup Failing) <= faults

-----------------------------------------------------------------------------
(* Series with two successors                                              *)

\* What carries a series on: an entry that never fired, or a process about to
\* create the successor of one that did.
Unfired(s) == {i \in Ids : series[i] = s /\ fires[i] = 0}
Following(s) == {p \in Processes : pc[p] = "following" /\ series[cur[p]] = s}
FiredOnce(s) == \A i \in Ids : series[i] = s => fires[i] <= 1

\* While no entry of a series fired twice, one thing carries it on.
ForkInv ==
    \A s \in Nat \ {0} : FiredOnce(s) =>
        /\ \A i, j \in Unfired(s) : i = j
        /\ \A p, q \in Following(s) : p = q
        /\ Unfired(s) = {} \/ Following(s) = {}


-----------------------------------------------------------------------------
(* Types                                                                   *)

TypeInv == TypeOK /\ EntryInv

\* The new entry is behind the others, and the others are what they were.
LEMMA NewEntryType ==
    ASSUME TypeOK, NEW n \in Names, NEW s \in 0 .. lastId + 1, NewEntry(n, s)
    PROVE  /\ lastId' = lastId + 1 /\ lastId' \in 0 .. MaxEntries
           /\ Ids' = 1 .. lastId + 1 /\ Ids \subseteq Ids' /\ lastId' \in Ids'
           /\ \A i \in Ids' : i \in Ids \/ i = lastId'
           /\ lastId' \notin Ids
           /\ status' \in [Ids' -> Statuses] /\ name' \in [Ids' -> Names]
           /\ series' \in [Ids' -> 0 .. lastId'] /\ fires' \in [Ids' -> Nat]
           /\ due' \in SUBSET Ids' /\ linked' = linked
           /\ \A i \in Ids : /\ status'[i] = status[i] /\ name'[i] = name[i]
                             /\ series'[i] = series[i] /\ fires'[i] = fires[i]
           /\ status'[lastId'] = "pending" /\ series'[lastId'] = s /\ fires'[lastId'] = 0
<1>1. /\ lastId \in Nat /\ lastId' = lastId + 1 /\ lastId' \in 0 .. MaxEntries
      /\ Ids' = 1 .. lastId + 1 /\ Ids \subseteq Ids' /\ lastId' \in Ids'
      /\ \A i \in Ids' : i \in Ids \/ i = lastId'
      /\ lastId' \notin Ids
    BY BoundAssumption DEF TypeOK, NewEntry, Ids
<1>2. /\ status' = Extend(status, "pending") /\ name' = Extend(name, n)
      /\ series' = Extend(series, s) /\ fires' = Extend(fires, 0)
      /\ linked' = linked /\ due' \in SUBSET Ids'
    BY <1>1 DEF NewEntry, TypeOK
<1>3. series \in [Ids -> 0 .. lastId + 1]
    BY <1>1 DEF TypeOK
<1>4. /\ status \in [Ids -> Statuses] /\ "pending" \in Statuses
      /\ name \in [Ids -> Names] /\ fires \in [Ids -> Nat]
    BY DEF TypeOK, Statuses
<1>5. /\ status' = [i \in Ids' |-> IF i \in Ids THEN status[i] ELSE "pending"]
      /\ name' = [i \in Ids' |-> IF i \in Ids THEN name[i] ELSE n]
      /\ series' = [i \in Ids' |-> IF i \in Ids THEN series[i] ELSE s]
      /\ fires' = [i \in Ids' |-> IF i \in Ids THEN fires[i] ELSE 0]
    BY <1>1, <1>2 DEF Extend
<1>6. /\ status' \in [Ids' -> Statuses] /\ \A i \in Ids : status'[i] = status[i]
      /\ status'[lastId'] = "pending"
    BY <1>1, <1>4, <1>5
<1>7. /\ name' \in [Ids' -> Names] /\ \A i \in Ids : name'[i] = name[i]
    BY <1>1, <1>4, <1>5
<1>8. /\ series' \in [Ids' -> 0 .. lastId'] /\ \A i \in Ids : series'[i] = series[i]
      /\ series'[lastId'] = s
    BY <1>1, <1>3, <1>5
<1>9. /\ fires' \in [Ids' -> Nat] /\ \A i \in Ids : fires'[i] = fires[i]
      /\ fires'[lastId'] = 0
    BY <1>1, <1>4, <1>5
<1>. QED  BY <1>1, <1>2, <1>6, <1>7, <1>8, <1>9

\* The types hold at the start.
LEMMA InitType == Init => TypeInv
<1>. SUFFICES ASSUME Init PROVE TypeInv
    OBVIOUS
<1>1. lastId = 0 /\ Ids = {}
    BY DEF Init, Ids
<1>2. /\ status \in [Ids -> Statuses] /\ name \in [Ids -> Names]
      /\ series \in [Ids -> 0 .. lastId] /\ fires \in [Ids -> Nat]
    BY <1>1 DEF Init
<1>3. /\ pc \in [Processes -> {"idle"}] /\ todo \in [Processes -> SUBSET Ids]
      /\ cur \in [Processes -> {0}] /\ made \in [Processes -> {FALSE}]
    BY <1>1 DEF Init
<1>4. TypeOK
    BY <1>1, <1>2, <1>3, BoundAssumption DEF Init, TypeOK, Statuses
<1>5. EntryInv
    BY <1>1, <1>3 DEF EntryInv, Working, Firing
<1>. QED  BY <1>4, <1>5 DEF TypeInv

\* Where a process goes, and what it holds then.
Places == {"idle", "next", "cancelling", "moving"} \cup Firing
ProcessType ==
    /\ pc \in [Processes -> Places] /\ todo \in [Processes -> SUBSET Ids]
    /\ cur \in [Processes -> 0 .. lastId] /\ made \in [Processes -> BOOLEAN]
    /\ \A p \in Processes : pc[p] \in Working => cur[p] \in Ids

\* The table, the workflows and the history.
TableType ==
    /\ lastId \in 0 .. MaxEntries
    /\ status \in [Ids -> Statuses] /\ name \in [Ids -> Names]
    /\ series \in [Ids -> 0 .. lastId] /\ fires \in [Ids -> Nat]
    /\ due \in SUBSET Ids /\ linked \in SUBSET Ids /\ continued \in SUBSET Ids
    /\ active \in SUBSET Names /\ done \in SUBSET Names
    /\ \A i \in Ids : fires[i] > 0 => status[i] # "pending"
    /\ faults \in 0 .. MaxFaults

\* The types are those of the processes and those of the table.
LEMMA TypeParts == TypeInv <=> ProcessType /\ TableType
BY DEF TypeInv, TypeOK, EntryInv, ProcessType, TableType, Places, Statuses

\* Ids and bounds are numbers.
LEMMA IdsType ==
    TypeInv => /\ lastId \in Nat /\ MaxFaults \in Nat /\ faults \in Nat
               /\ 0 \in 0 .. lastId
               /\ \A i \in Ids : i \in 0 .. lastId /\ i \in Nat
BY BoundAssumption DEF TypeInv, TypeOK, Ids

\* Moving on, to the next entry, to a place or out, keeps the types of the processes.
LEMMA ControlType ==
    ASSUME ProcessType, 0 \in 0 .. lastId, NEW p \in Processes,
           NextEntry(p) \/ Stop(p) \/ \E at \in Places : pc[p] \in Working /\ Goto(p, at),
           lastId' = lastId \/ (lastId' = lastId + 1 /\ lastId \in Nat)
    PROVE  ProcessType'
<1>1. Ids \subseteq Ids' /\ 0 .. lastId \subseteq 0 .. lastId'
    BY DEF Ids
<1>2. CASE NextEntry(p)
    <2>1. "next" \in Places /\ "next" \notin Working
        BY DEF Places, Working, Firing
    <2>. QED  BY <1>1, <1>2, <2>1 DEF NextEntry, ProcessType
<1>3. CASE Stop(p)
    <2>1. "idle" \in Places /\ "idle" \notin Working
        BY DEF Places, Working, Firing
    <2>. QED  BY <1>1, <1>3, <2>1 DEF Stop, ProcessType
<1>4. CASE \E at \in Places : pc[p] \in Working /\ Goto(p, at)
    BY <1>1, <1>4 DEF Goto, ProcessType
<1>. QED  BY <1>2, <1>3, <1>4


\* Every step keeps the types of the processes.
LEMMA ProcessStep == TypeInv /\ [Next]_vars => ProcessType'
<1>. SUFFICES ASSUME TypeInv, [Next]_vars PROVE ProcessType'
    OBVIOUS
<1>0. ProcessType /\ TableType /\ lastId \in Nat /\ 0 \in 0 .. lastId
      /\ \A i \in Ids : i \in 0 .. lastId
    BY TypeParts, IdsType
<1>1. Api \in Processes /\ Worker \in Processes
    BY DEF Processes
<1>2. ASSUME UNCHANGED process, lastId' = lastId \/ lastId' = lastId + 1 PROVE ProcessType'
    <2>1. Ids \subseteq Ids' /\ 0 .. lastId \subseteq 0 .. lastId'
        BY <1>0, <1>2 DEF Ids
    <2>. QED  BY <1>0, <1>2, <2>1 DEF process, ProcessType
<1>3. ASSUME NEW n \in Names, NEW recurring \in BOOLEAN, create_schedule(n, recurring)
      PROVE  ProcessType'
    BY <1>2, <1>3 DEF create_schedule, NewEntry
<1>4. ASSUME NEW i \in Ids, NEW at \in {"cancelling", "moving"}, ReadEntry(i, at)
      PROVE  ProcessType'
    <2>1. at \in Places /\ lastId' = lastId /\ UNCHANGED <<todo, made>>
        BY <1>4 DEF ReadEntry, Places, entries
    <2>. QED  BY <1>0, <1>1, <1>4, <2>1 DEF ReadEntry, ProcessType, Ids
<1>5. CASE cancel_schedule \/ move_schedule
    BY <1>0, <1>1, <1>5, ControlType DEF cancel_schedule, move_schedule
<1>6. ASSUME NEW p \in Processes, StartFiring(p) PROVE ProcessType'
    <2>1. due_schedules \subseteq Ids
        BY <1>0 DEF due_schedules, TableType
    <2>2. "next" \in Places /\ "next" \notin Working
        BY DEF Places, Working, Firing
    <2>. QED  BY <1>0, <1>6, <2>1, <2>2 DEF StartFiring, entries, ProcessType, Ids
<1>7. ASSUME NEW p \in Processes, NEW i \in Ids, TakeEntry(p, i) PROVE ProcessType'
    <2>1. "checking" \in Places
        BY DEF Places, Firing
    <2>. QED  BY <1>0, <1>7, <2>1 DEF TakeEntry, entries, ProcessType, Ids
<1>8. ASSUME NEW p \in Processes, EndFiring(p) \/ _mark_failed(p) \/ StatementRaises(p) \/ Crash(p)
      PROVE  ProcessType'
    BY <1>0, <1>8, ControlType DEF EndFiring, _mark_failed, StatementRaises, Crash, entries
<1>9. ASSUME NEW p \in Processes, CheckWorkflow(p) \/ _mark_fired(p) \/ CreateRaises(p)
      PROVE  ProcessType'
    <2>1. pc[p] \in Working /\ {"marking", "inserting", "following", "failing"} \subseteq Places
        BY <1>9 DEF CheckWorkflow, _mark_fired, CreateRaises, Working, Firing, Places
    <2>2. lastId' = lastId /\ \E at \in {"marking", "inserting", "following", "failing"} : Goto(p, at)
        BY <1>9 DEF CheckWorkflow, _mark_fired, CreateRaises, entries
    <2>. QED  BY <1>0, <2>1, <2>2, ControlType
<1>10. ASSUME NEW p \in Processes, InsertWorkflow(p) PROVE ProcessType'
    <2>1. "marking" \in Places /\ "inserting" \in Working
        BY DEF Places, Firing, Working
    <2>. QED  BY <1>0, <1>10, <2>1 DEF InsertWorkflow, entries, ProcessType, Ids
<1>11. ASSUME NEW p \in Processes, _maybe_create_followup(p) PROVE ProcessType'
    <2>1. NextEntry(p) /\ (lastId' = lastId \/ lastId' = lastId + 1)
        BY <1>11 DEF _maybe_create_followup, NewEntry, entries
    <2>. QED  BY <1>0, <2>1, ControlType
<1>12. ASSUME NEW i \in Ids, Elapse(i) PROVE ProcessType'
    BY <1>2, <1>12 DEF Elapse
<1>13. ASSUME NEW n \in Names, CompleteWorkflow(n) \/ CancelWorkflow(n) PROVE ProcessType'
    BY <1>2, <1>13 DEF CompleteWorkflow, CancelWorkflow, entries
<1>14. CASE UNCHANGED vars
    BY <1>2, <1>14 DEF vars, entries
<1>. QED
    BY <1>3, <1>4, <1>5, <1>6, <1>7, <1>8, <1>9, <1>10, <1>11, <1>12, <1>13, <1>14
    DEF Next, Operator, fire_due_schedules

\* Every step keeps the types of the table.
LEMMA TableStep == TypeInv /\ [Next]_vars => TableType'
<1>. SUFFICES ASSUME TypeInv, [Next]_vars PROVE TableType'
    OBVIOUS
<1>0. /\ ProcessType /\ TableType /\ lastId \in Nat /\ TypeOK
      /\ \A p \in Processes : pc[p] \in Working => cur[p] \in Ids
      /\ Api \in Processes /\ Worker \in Processes
    BY TypeParts, IdsType DEF ProcessType, Processes, TypeInv
<1>1. Fault => faults' \in 0 .. MaxFaults
    BY IdsType, BoundAssumption DEF Fault
<1>2. ASSUME UNCHANGED <<entries, history>>, active' \subseteq Names, done' \subseteq Names,
             faults' \in 0 .. MaxFaults
      PROVE  TableType'
    BY <1>0, <1>2 DEF entries, history, TableType, Ids
<1>3. ASSUME NEW n \in Names, NEW s \in 0 .. lastId + 1, NewEntry(n, s),
             active' = active, done' = done, faults' = faults, continued' \subseteq Ids
      PROVE  TableType'
    BY <1>0, <1>3, NewEntryType DEF TableType
<1>4. ASSUME NEW n \in Names, NEW recurring \in BOOLEAN, create_schedule(n, recurring)
      PROVE  TableType'
    <2>1. (IF recurring THEN lastId + 1 ELSE 0) \in 0 .. lastId + 1
        BY <1>0
    <2>. QED  BY <1>0, <1>3, <1>4, <2>1 DEF create_schedule, workflows, TableType
<1>5. CASE cancel_schedule
    <2>1. cur[Api] \in Ids
        BY <1>0, <1>5 DEF cancel_schedule, Working
    <2>. QED
        BY <1>0, <1>5, <2>1 DEF cancel_schedule, workflows, history, TableType, Statuses, Ids
<1>6. CASE move_schedule
    BY <1>0, <1>6 DEF move_schedule, workflows, history, TableType, Ids
<1>7. ASSUME NEW p \in Processes, _mark_fired(p) PROVE TableType'
    <2>1. cur[p] \in Ids
        BY <1>0, <1>7 DEF _mark_fired, Working, Firing
    <2>2. /\ status' = [status EXCEPT ![cur[p]] = "fired"]
          /\ fires' = [fires EXCEPT ![cur[p]] = fires[cur[p]] + 1]
          /\ linked' \subseteq linked \cup {cur[p]}
          /\ UNCHANGED <<lastId, name, series, due, active, done, continued, faults>>
        BY <1>7 DEF _mark_fired, Stamp, workflows
    <2>3. Ids' = Ids
        BY <2>2 DEF Ids
    <2>4. status' \in [Ids -> Statuses] /\ fires' \in [Ids -> Nat]
        BY <1>0, <2>1, <2>2 DEF TableType, Statuses
    <2>5. \A i \in Ids : fires'[i] > 0 => status'[i] # "pending"
        BY <1>0, <2>1, <2>2 DEF TableType
    <2>. QED  BY <1>0, <2>1, <2>2, <2>3, <2>4, <2>5 DEF TableType
<1>8. ASSUME NEW p \in Processes, _maybe_create_followup(p) PROVE TableType'
    <2>1. cur[p] \in Ids
        BY <1>0, <1>8 DEF _maybe_create_followup, Working, Firing
    <2>2. continued' \subseteq Ids /\ active' = active /\ done' = done /\ faults' = faults
        BY <1>0, <1>8, <2>1 DEF _maybe_create_followup, workflows, TableType
    <2>3. name[cur[p]] \in Names /\ series[cur[p]] \in 0 .. lastId + 1
        BY <1>0, <2>1 DEF TableType
    <2>4. CASE NewEntry(name[cur[p]], series[cur[p]])
        BY <1>3, <2>2, <2>3, <2>4
    <2>5. CASE UNCHANGED <<entries, fires>>
        BY <1>0, <2>2, <2>5 DEF entries, TableType, Ids
    <2>. QED  BY <1>8, <2>4, <2>5 DEF _maybe_create_followup
<1>9. ASSUME NEW p \in Processes, _mark_failed(p) PROVE TableType'
    <2>1. cur[p] \in Ids
        BY <1>0, <1>9 DEF _mark_failed, Working, Firing
    <2>. QED
        BY <1>0, <1>9, <2>1 DEF _mark_failed, workflows, history, TableType, Statuses, Ids
<1>10. ASSUME NEW p \in Processes, InsertWorkflow(p) PROVE TableType'
    <2>1. cur[p] \in Ids
        BY <1>0, <1>10 DEF InsertWorkflow, Working, Firing
    <2>2. name[cur[p]] \in Names
        BY <1>0, <2>1 DEF TableType
    <2>. QED  BY <1>0, <1>2, <1>10, <2>2 DEF InsertWorkflow, TableType
<1>11. ASSUME NEW p \in Processes,
              StartFiring(p) \/ (\E i \in Ids : TakeEntry(p, i)) \/ EndFiring(p) \/ CheckWorkflow(p)
       PROVE  TableType'
    BY <1>0, <1>2, <1>11
    DEF StartFiring, TakeEntry, EndFiring, CheckWorkflow, workflows, TableType
<1>12. ASSUME NEW p \in Processes, CreateRaises(p) \/ StatementRaises(p) \/ Crash(p)
       PROVE  TableType'
    BY <1>0, <1>1, <1>2, <1>12 DEF CreateRaises, StatementRaises, Crash, workflows, TableType
<1>13. ASSUME NEW i \in Ids, Elapse(i) PROVE TableType'
    BY <1>0, <1>13 DEF Elapse, workflows, history, TableType, Ids
<1>14. ASSUME NEW n \in Names, CompleteWorkflow(n) \/ CancelWorkflow(n) PROVE TableType'
    BY <1>0, <1>2, <1>14 DEF CompleteWorkflow, CancelWorkflow, TableType
<1>15. ASSUME NEW i \in Ids, NEW at, ReadEntry(i, at) PROVE TableType'
    BY <1>0, <1>2, <1>15 DEF ReadEntry, workflows, TableType
<1>16. CASE UNCHANGED vars
    BY <1>0, <1>2, <1>16 DEF vars, workflows, TableType
<1>. QED
    BY <1>4, <1>5, <1>6, <1>7, <1>8, <1>9, <1>10, <1>11, <1>12, <1>13, <1>14, <1>15, <1>16
    DEF Next, Operator, fire_due_schedules


\* Every step keeps the types.
LEMMA TypeStep == TypeInv /\ [Next]_vars => TypeInv'
<1>. SUFFICES ASSUME TypeInv, [Next]_vars PROVE TypeInv'
    OBVIOUS
<1>1. ProcessType' /\ TableType'
    BY ProcessStep, TableStep
<1>. QED  BY <1>1 DEF TypeInv, TypeOK, EntryInv, ProcessType, TableType, Places, Statuses

-----------------------------------------------------------------------------
(* Series without a successor                                              *)

\* Finitely many entries have ended, or are about to, without a successor.
LEMMA DoomedFinite == TypeInv => /\ IsFiniteSet(Orphans \cup Failing)
                                 /\ Cardinality(Orphans \cup Failing) \in Nat
<1>. SUFFICES ASSUME TypeInv PROVE IsFiniteSet(Orphans \cup Failing)
    BY FS_CardinalityType
<1>1. lastId \in Int /\ 1 \in Int
    BY IdsType
<1>2. IsFiniteSet(Ids)
    BY <1>1, FS_Interval DEF Ids
<1>3. Orphans \cup Failing \subseteq Ids
    BY DEF Orphans, Failing
<1>. QED  BY <1>2, <1>3, FS_Subset

\* A step dooms no series unless it is a fault, and then one.
LEMMA OrphanStep == TypeInv /\ OrphanInv /\ [Next]_vars => OrphanInv'
<1>. SUFFICES ASSUME TypeInv, OrphanInv, [Next]_vars PROVE OrphanInv'
    OBVIOUS
<1>. DEFINE D == Orphans \cup Failing
<1>0. /\ IsFiniteSet(D) /\ Cardinality(D) \in Nat /\ faults \in Nat
      /\ Cardinality(D) <= faults
      /\ ProcessType /\ TableType /\ lastId \in Nat
      /\ \A p \in Processes : pc[p] \in Working => cur[p] \in Ids
      /\ Api \in Processes /\ Worker \in Processes
    BY DoomedFinite, IdsType, TypeParts DEF OrphanInv, ProcessType, Processes
<1>1. ASSUME Orphans' \cup Failing' \subseteq D, faults' = faults \/ faults' = faults + 1
      PROVE  OrphanInv'
    <2>1. Cardinality(Orphans' \cup Failing') <= Cardinality(D)
          /\ Cardinality(Orphans' \cup Failing') \in Nat
        BY <1>0, <1>1, FS_Subset, FS_CardinalityType
    <2>. QED  BY <1>0, <1>1, <2>1 DEF OrphanInv
<1>2. ASSUME NEW i, Orphans' \cup Failing' \subseteq D \cup {i}, faults' = faults + 1
      PROVE  OrphanInv'
    <2>1. IsFiniteSet(D \cup {i}) /\ Cardinality(D \cup {i}) <= Cardinality(D) + 1
        <3>1. /\ IsFiniteSet(D \cup {i})
              /\ Cardinality(D \cup {i}) = IF i \in D THEN Cardinality(D) ELSE Cardinality(D) + 1
            BY <1>0, FS_AddElement
        <3>. HIDE DEF D
        <3>. QED  BY <1>0, <3>1
    <2>2. Cardinality(Orphans' \cup Failing') <= Cardinality(D \cup {i})
          /\ Cardinality(Orphans' \cup Failing') \in Nat /\ Cardinality(D \cup {i}) \in Nat
        BY <1>2, <2>1, FS_Subset, FS_CardinalityType
    <2>. QED  BY <1>0, <1>2, <2>1, <2>2 DEF OrphanInv
\* A process moves on; only one that was about to create a successor leaves an orphan.
<1>3. ASSUME UNCHANGED <<lastId, series, status, continued>>, NEW p \in Processes,
             \A q \in Processes \ {p} : pc'[q] = pc[q] /\ cur'[q] = cur[q],
             pc'[p] # "failing"
      PROVE  /\ pc[p] # "following" => Orphans' \cup Failing' \subseteq D
             /\ Orphans' \cup Failing' \subseteq D \cup {cur[p]}
    <2>1. Ids' = Ids
        BY <1>3 DEF Ids
    <2>2. Failing' \subseteq Failing
        BY <1>3, <2>1 DEF Failing
    <2>3. ASSUME NEW i \in Orphans' PROVE i \in Orphans \/ (pc[p] = "following" /\ cur[p] = i)
        BY <1>3, <2>1 DEF Orphans
    <2>. QED  BY <2>2, <2>3
<1>4. ASSUME UNCHANGED <<lastId, series, status, continued, pc, cur>>, faults' = faults
      PROVE  OrphanInv'
    <2>1. Orphans' = Orphans /\ Failing' = Failing
        BY <1>4 DEF Orphans, Failing, Ids
    <2>. QED  BY <1>1, <1>4, <2>1
\* An entry more, and one that may be continued by it.
<1>5. ASSUME NEW n \in Names, NEW s \in 0 .. lastId + 1, NewEntry(n, s), continued \subseteq continued',
             faults' = faults, NEW p \in Processes, pc'[p] # "failing",
             \A q \in Processes \ {p} : pc'[q] = pc[q] /\ cur'[q] = cur[q],
             pc[p] = "following" => cur[p] \in continued' \/ series[cur[p]] = 0
      PROVE  OrphanInv'
    <2>1. /\ \A i \in Ids' : i \in Ids \/ i = lastId'
          /\ Ids \subseteq Ids' /\ lastId' \notin Ids
          /\ status'[lastId'] = "pending"
          /\ \A i \in Ids : status'[i] = status[i] /\ series'[i] = series[i]
        BY <1>5, NewEntryType DEF TypeInv
    <2>2. Failing' \subseteq Failing
        <3>1. \A q \in Processes : pc[q] = "failing" => cur[q] \in Ids
            BY <1>0 DEF Working, Firing
        <3>. QED  BY <1>5, <2>1, <3>1 DEF Failing
    <2>3. ASSUME NEW i \in Orphans' PROVE i \in Orphans
        <3>1. i \in Ids /\ series[i] # 0 /\ status[i] \in {"fired", "failed"} /\ i \notin continued'
            BY <2>1 DEF Orphans
        <3>2. \A q \in Processes : ~(cur[q] = i /\ pc[q] = "following")
            BY <1>5, <3>1 DEF Orphans
        <3>. QED  BY <1>5, <3>1, <3>2 DEF Orphans
    <2>. QED  BY <1>1, <1>5, <2>2, <2>3
<1>6. ASSUME NEW n \in Names, NEW recurring \in BOOLEAN, create_schedule(n, recurring)
      PROVE  OrphanInv'
    <2>1. (IF recurring THEN lastId + 1 ELSE 0) \in 0 .. lastId + 1
        BY <1>0
    <2>2. UNCHANGED <<continued, pc, cur, faults>> /\ pc[Api] = "idle"
        BY <1>6 DEF create_schedule, process
    <2>. QED  BY <1>0, <1>5, <1>6, <2>1, <2>2 DEF create_schedule
<1>7. ASSUME NEW i \in Ids, NEW at \in {"cancelling", "moving"}, ReadEntry(i, at)
      PROVE  OrphanInv'
    <2>1. /\ UNCHANGED <<lastId, series, status, continued, faults>>
          /\ \A q \in Processes \ {Api} : pc'[q] = pc[q] /\ cur'[q] = cur[q]
          /\ pc'[Api] # "failing" /\ pc[Api] = "idle"
        BY <1>0, <1>7 DEF ReadEntry, entries, history, ProcessType
    <2>. QED  BY <1>0, <1>1, <1>3, <2>1
<1>8. CASE cancel_schedule
    <2>1. /\ status' = [status EXCEPT ![cur[Api]] = "cancelled"] /\ cur[Api] \in Ids
          /\ UNCHANGED <<lastId, series, continued, faults>>
          /\ \A q \in Processes \ {Api} : pc'[q] = pc[q] /\ cur'[q] = cur[q]
          /\ pc'[Api] = "idle" /\ pc[Api] = "cancelling"
        BY <1>0, <1>8 DEF cancel_schedule, Stop, history, ProcessType, Working
    <2>2. Ids' = Ids /\ Failing' \subseteq Failing
        BY <2>1 DEF Failing, Ids
    <2>3. \A i \in Ids : status'[i] = status[i] \/ status'[i] = "cancelled"
        BY <1>0, <2>1 DEF TableType
    <2>4. Orphans' \subseteq Orphans
        BY <2>1, <2>2, <2>3 DEF Orphans
    <2>. QED  BY <1>1, <2>1, <2>2, <2>4
<1>9. CASE move_schedule
    <2>1. /\ UNCHANGED <<lastId, series, status, continued, faults>>
          /\ \A q \in Processes \ {Api} : pc'[q] = pc[q] /\ cur'[q] = cur[q]
          /\ pc'[Api] # "failing" /\ pc[Api] = "moving"
        BY <1>0, <1>9 DEF move_schedule, Stop, history, ProcessType
    <2>. QED  BY <1>0, <1>1, <1>3, <2>1
<1>10. ASSUME NEW p \in Processes,
              StartFiring(p) \/ (\E i \in Ids : TakeEntry(p, i)) \/ EndFiring(p)
              \/ CheckWorkflow(p) \/ InsertWorkflow(p)
       PROVE  OrphanInv'
    <2>1. /\ UNCHANGED <<lastId, series, status, continued, faults>>
          /\ \A q \in Processes \ {p} : pc'[q] = pc[q] /\ cur'[q] = cur[q]
          /\ pc'[p] # "failing" /\ pc[p] # "following"
        BY <1>0, <1>10
        DEF StartFiring, TakeEntry, EndFiring, CheckWorkflow, InsertWorkflow, Goto, Stop,
            entries, history, ProcessType
    <2>. QED  BY <1>1, <1>3, <2>1
<1>11. ASSUME NEW p \in Processes, _mark_fired(p) PROVE OrphanInv'
    <2>1. /\ status' = [status EXCEPT ![cur[p]] = "fired"] /\ cur[p] \in Ids
          /\ UNCHANGED <<lastId, series, continued, faults, cur>>
          /\ \A q \in Processes \ {p} : pc'[q] = pc[q]
          /\ pc'[p] = "following" /\ pc[p] = "marking"
        BY <1>0, <1>11 DEF _mark_fired, Goto, ProcessType, Working, Firing
    <2>2. Ids' = Ids /\ Failing' \subseteq Failing
        BY <2>1 DEF Failing, Ids
    <2>3. ASSUME NEW i \in Orphans' PROVE i \in Orphans
        <3>1. i # cur[p]
            BY <2>1 DEF Orphans
        <3>2. status'[i] = status[i]
            BY <1>0, <2>1, <2>2, <3>1 DEF TableType, Orphans
        <3>. QED  BY <2>1, <2>2, <3>2 DEF Orphans
    <2>. QED  BY <1>1, <2>1, <2>2, <2>3
<1>12. ASSUME NEW p \in Processes, _maybe_create_followup(p) PROVE OrphanInv'
    <2>1. /\ pc[p] = "following" /\ cur[p] \in Ids /\ faults' = faults
          /\ continued \subseteq continued'
          /\ cur[p] \in continued' \/ (series[cur[p]] = 0 /\ continued' = continued)
          /\ \A q \in Processes \ {p} : pc'[q] = pc[q] /\ cur'[q] = cur[q]
          /\ pc'[p] # "failing"
        BY <1>0, <1>12 DEF _maybe_create_followup, NextEntry, ProcessType, Working, Firing
    <2>2. CASE NewEntry(name[cur[p]], series[cur[p]])
        <3>1. name[cur[p]] \in Names /\ series[cur[p]] \in 0 .. lastId + 1
            BY <1>0, <2>1 DEF TableType
        <3>. QED  BY <1>5, <2>1, <2>2, <3>1
    <2>3. CASE UNCHANGED <<entries, fires>>
        <3>1. /\ UNCHANGED <<lastId, series, status>> /\ Ids' = Ids
            BY <2>3 DEF entries, Ids
        <3>2. Failing' \subseteq Failing
            BY <2>1, <3>1 DEF Failing
        <3>3. Orphans' \subseteq Orphans
            BY <2>1, <3>1 DEF Orphans
        <3>. QED  BY <1>1, <2>1, <3>2, <3>3
    <2>. QED  BY <1>12, <2>2, <2>3 DEF _maybe_create_followup
<1>13. ASSUME NEW p \in Processes, _mark_failed(p) PROVE OrphanInv'
    <2>1. /\ status' = [status EXCEPT ![cur[p]] = "failed"] /\ cur[p] \in Failing
          /\ UNCHANGED <<lastId, series, continued, faults>>
          /\ \A q \in Processes \ {p} : pc'[q] = pc[q] /\ cur'[q] = cur[q]
          /\ pc'[p] = "next" /\ pc[p] = "failing"
        BY <1>0, <1>13 DEF _mark_failed, NextEntry, history, ProcessType, Working, Firing, Failing
    <2>2. Ids' = Ids /\ Failing' \subseteq Failing
        BY <2>1 DEF Failing, Ids
    <2>3. ASSUME NEW i \in Orphans', i # cur[p] PROVE i \in Orphans
        <3>1. status'[i] = status[i]
            BY <1>0, <2>1, <2>2, <2>3 DEF TableType, Orphans
        <3>. QED  BY <2>1, <2>2, <3>1 DEF Orphans
    <2>. QED  BY <1>1, <2>1, <2>2, <2>3
<1>14. ASSUME NEW p \in Processes, CreateRaises(p) PROVE OrphanInv'
    <2>1. /\ UNCHANGED <<lastId, series, status, continued, cur>> /\ faults' = faults + 1
          /\ \A q \in Processes \ {p} : pc'[q] = pc[q]
          /\ pc'[p] = "failing" /\ pc[p] # "following"
        BY <1>0, <1>14 DEF CreateRaises, Fault, Goto, entries, history, ProcessType
    <2>2. Ids' = Ids /\ Failing' \subseteq Failing \cup {cur[p]}
        BY <2>1 DEF Failing, Ids
    <2>3. Orphans' \subseteq Orphans
        BY <2>1, <2>2 DEF Orphans
    <2>. QED  BY <1>2, <2>1, <2>2, <2>3
<1>15. ASSUME NEW p \in Processes, StatementRaises(p) \/ Crash(p) PROVE OrphanInv'
    <2>1. /\ UNCHANGED <<lastId, series, status, continued>> /\ faults' = faults + 1
          /\ \A q \in Processes \ {p} : pc'[q] = pc[q] /\ cur'[q] = cur[q]
          /\ pc'[p] # "failing"
        BY <1>0, <1>15 DEF StatementRaises, Crash, NextEntry, Stop, Fault, entries, history, ProcessType
    <2>. QED  BY <1>2, <1>3, <2>1
<1>16. ASSUME NEW i \in Ids, Elapse(i) PROVE OrphanInv'
    BY <1>4, <1>16 DEF Elapse, history, process
<1>17. ASSUME NEW n \in Names, CompleteWorkflow(n) \/ CancelWorkflow(n) PROVE OrphanInv'
    BY <1>4, <1>17 DEF CompleteWorkflow, CancelWorkflow, entries, history, process
<1>18. CASE UNCHANGED vars
    BY <1>4, <1>18 DEF vars, entries, history, process
<1>. QED
    BY <1>6, <1>7, <1>8, <1>9, <1>10, <1>11, <1>12, <1>13, <1>14, <1>15, <1>16, <1>17, <1>18
    DEF Next, Operator, fire_due_schedules


-----------------------------------------------------------------------------
(* Series with two successors                                              *)

\* Every step keeps to one occurrence of a series, or one about to be made.
LEMMA ForkStep == TypeInv /\ ForkInv /\ [Next]_vars => ForkInv'
<1>. SUFFICES ASSUME TypeInv, ForkInv, [Next]_vars PROVE ForkInv'
    OBVIOUS
<1>0. /\ ProcessType /\ TableType /\ lastId \in Nat
      /\ \A p \in Processes : pc[p] \in Working => cur[p] \in Ids
      /\ Api \in Processes /\ Worker \in Processes
    BY IdsType, TypeParts DEF ProcessType, Processes
\* What carries a series on only gets less.
<1>1. ASSUME NEW s \in Nat \ {0}, FiredOnce(s)' => FiredOnce(s),
             Unfired(s)' \subseteq Unfired(s), Following(s)' \subseteq Following(s)
      PROVE  FiredOnce(s)' =>
                 /\ \A i, j \in Unfired(s)' : i = j
                 /\ \A p, q \in Following(s)' : p = q
                 /\ Unfired(s)' = {} \/ Following(s)' = {}
    BY <1>1 DEF ForkInv
<1>2. ASSUME UNCHANGED <<lastId, series, fires>>,
             \A p \in Processes : pc'[p] = "following" => pc[p] = "following" /\ cur'[p] = cur[p]
      PROVE  ForkInv'
    <2>. SUFFICES ASSUME NEW s \in Nat \ {0}
                  PROVE  FiredOnce(s)' =>
                             /\ \A i, j \in Unfired(s)' : i = j
                             /\ \A p, q \in Following(s)' : p = q
                             /\ Unfired(s)' = {} \/ Following(s)' = {}
        BY DEF ForkInv
    <2>1. FiredOnce(s)' => FiredOnce(s)
        BY <1>2 DEF FiredOnce, Ids
    <2>2. Unfired(s)' \subseteq Unfired(s) /\ Following(s)' \subseteq Following(s)
        BY <1>2 DEF Unfired, Following, Ids
    <2>. QED  BY <1>1, <2>1, <2>2
<1>3. ASSUME NEW n \in Names, NEW recurring \in BOOLEAN, create_schedule(n, recurring)
      PROVE  ForkInv'
    <2>. DEFINE new == IF recurring THEN lastId + 1 ELSE 0
    <2>1. /\ new \in 0 .. lastId + 1 /\ (new = 0 \/ new = lastId + 1)
          /\ NewEntry(n, new) /\ pc' = pc /\ cur' = cur
        BY <1>0, <1>3 DEF create_schedule, process
    <2>. HIDE DEF new
    <2>2. /\ lastId' = lastId + 1 /\ \A i \in Ids' : i \in Ids \/ i = lastId'
          /\ Ids \subseteq Ids' /\ lastId' \notin Ids /\ lastId' \in Ids'
          /\ \A i \in Ids : series'[i] = series[i] /\ fires'[i] = fires[i]
          /\ series'[lastId'] = new
        BY <2>1, NewEntryType DEF TypeInv
    <2>3. /\ \A i \in Ids : series[i] # lastId + 1
          /\ \A p \in Processes : pc[p] = "following" => cur[p] \in Ids
        BY <1>0 DEF TableType, Working, Firing
    <2>. SUFFICES ASSUME NEW s \in Nat \ {0}
                  PROVE  FiredOnce(s)' =>
                             /\ \A i, j \in Unfired(s)' : i = j
                             /\ \A p, q \in Following(s)' : p = q
                             /\ Unfired(s)' = {} \/ Following(s)' = {}
        BY DEF ForkInv
    <2>4. Following(s)' = Following(s)
        BY <2>1, <2>2, <2>3 DEF Following
    <2>5. CASE s = lastId + 1
        <3>1. Unfired(s)' \subseteq {lastId'}
            BY <2>2, <2>3, <2>5 DEF Unfired
        <3>2. Following(s)' = {}
            BY <2>3, <2>4, <2>5 DEF Following
        <3>. QED  BY <3>1, <3>2
    <2>6. CASE s # lastId + 1
        <3>1. Unfired(s)' \subseteq Unfired(s)
            BY <2>1, <2>2, <2>6 DEF Unfired
        <3>2. FiredOnce(s)' => FiredOnce(s)
            BY <2>2 DEF FiredOnce
        <3>. QED  BY <1>1, <2>4, <3>1, <3>2
    <2>. QED  BY <2>5, <2>6
\* An entry that fires hands its series over to the process that fired it.
<1>4. ASSUME NEW p \in Processes, _mark_fired(p) PROVE ForkInv'
    <2>1. /\ cur[p] \in Ids /\ fires' = [fires EXCEPT ![cur[p]] = fires[cur[p]] + 1]
          /\ UNCHANGED <<lastId, series, cur>> /\ pc' = [pc EXCEPT ![p] = "following"]
        BY <1>0, <1>4 DEF _mark_fired, Stamp, Goto, Working, Firing
    <2>2. /\ fires \in [Ids -> Nat] /\ Ids' = Ids
          /\ fires'[cur[p]] = fires[cur[p]] + 1 /\ fires[cur[p]] \in Nat
          /\ \A i \in Ids : i # cur[p] => fires'[i] = fires[i]
        BY <1>0, <2>1 DEF TableType, Ids
    <2>. SUFFICES ASSUME NEW s \in Nat \ {0}, FiredOnce(s)'
                  PROVE  /\ \A i, j \in Unfired(s)' : i = j
                         /\ \A r, q \in Following(s)' : r = q
                         /\ Unfired(s)' = {} \/ Following(s)' = {}
        BY DEF ForkInv
    <2>3. FiredOnce(s)
        <3>. SUFFICES ASSUME NEW i \in Ids, series[i] = s PROVE fires[i] <= 1
            BY DEF FiredOnce
        <3>1. fires'[i] <= 1
            BY <2>1, <2>2 DEF FiredOnce
        <3>. QED  BY <2>2, <3>1
    <2>4. CASE series[cur[p]] = s
        <3>1. fires[cur[p]] = 0
            <4>1. fires'[cur[p]] <= 1
                BY <2>1, <2>2, <2>4 DEF FiredOnce
            <4>. QED  BY <2>2, <4>1
        <3>2. cur[p] \in Unfired(s)
            BY <2>1, <2>4, <3>1 DEF Unfired
        <3>3. Following(s) = {} /\ \A i \in Unfired(s) : i = cur[p]
            BY <2>3, <3>2 DEF ForkInv
        <3>4. Unfired(s)' = {}
            <4>1. ASSUME NEW i \in Unfired(s)' PROVE FALSE
                <5>1. i \in Ids /\ series[i] = s /\ fires'[i] = 0
                    BY <2>1, <2>2 DEF Unfired
                <5>2. i # cur[p]
                    BY <2>2, <5>1
                <5>3. i \in Unfired(s)
                    BY <2>2, <5>1, <5>2 DEF Unfired
                <5>. QED  BY <3>3, <5>2, <5>3
            <4>. QED  BY <4>1
        <3>5. \A q \in Following(s)' : q = p
            BY <1>0, <2>1, <3>3 DEF Following, ProcessType
        <3>. QED  BY <3>4, <3>5
    <2>5. CASE series[cur[p]] # s
        <3>1. Unfired(s)' \subseteq Unfired(s)
            BY <2>1, <2>2, <2>5 DEF Unfired
        <3>2. Following(s)' \subseteq Following(s)
            BY <1>0, <2>1, <2>5 DEF Following, ProcessType
        <3>. QED  BY <1>1, <2>3, <3>1, <3>2
    <2>. QED  BY <2>4, <2>5
\* And the process hands it over to the successor.
<1>5. ASSUME NEW p \in Processes, _maybe_create_followup(p) PROVE ForkInv'
    <2>1. /\ pc[p] = "following" /\ cur[p] \in Ids
          /\ pc' = [pc EXCEPT ![p] = "next"] /\ cur' = [cur EXCEPT ![p] = 0]
        BY <1>0, <1>5 DEF _maybe_create_followup, NextEntry, Working, Firing
    <2>2. /\ \A q \in Processes \ {p} : pc'[q] = pc[q] /\ cur'[q] = cur[q]
          /\ pc'[p] = "next"
        BY <1>0, <2>1 DEF ProcessType
    <2>3. CASE UNCHANGED <<entries, fires>>
        BY <1>2, <2>2, <2>3 DEF entries
    <2>4. CASE NewEntry(name[cur[p]], series[cur[p]]) /\ series[cur[p]] # 0
        <3>1. name[cur[p]] \in Names /\ series[cur[p]] \in 0 .. lastId + 1
            BY <1>0, <2>1 DEF TableType
        <3>2. /\ \A i \in Ids' : i \in Ids \/ i = lastId'
              /\ Ids \subseteq Ids' /\ lastId' \notin Ids /\ lastId' \in Ids'
              /\ \A i \in Ids : series'[i] = series[i] /\ fires'[i] = fires[i]
              /\ series'[lastId'] = series[cur[p]]
            BY <2>4, <3>1, NewEntryType DEF TypeInv
        <3>3. \A q \in Processes : pc[q] = "following" => cur[q] \in Ids
            BY <1>0 DEF Working, Firing
        <3>. SUFFICES ASSUME NEW s \in Nat \ {0}, FiredOnce(s)'
                      PROVE  /\ \A i, j \in Unfired(s)' : i = j
                             /\ \A r, q \in Following(s)' : r = q
                             /\ Unfired(s)' = {} \/ Following(s)' = {}
            BY DEF ForkInv
        <3>4. FiredOnce(s)
            BY <3>2 DEF FiredOnce
        <3>5. Following(s)' \subseteq Following(s) \ {p}
            BY <2>2, <3>2, <3>3 DEF Following
        <3>6. CASE series[cur[p]] = s
            <4>1. p \in Following(s)
                BY <2>1, <3>6 DEF Following
            <4>2. Unfired(s) = {} /\ \A q \in Following(s) : q = p
                BY <3>4, <4>1 DEF ForkInv
            <4>3. Unfired(s)' \subseteq {lastId'}
                BY <3>2, <4>2 DEF Unfired
            <4>. QED  BY <3>5, <4>2, <4>3
        <3>7. CASE series[cur[p]] # s
            <4>1. Unfired(s)' \subseteq Unfired(s)
                BY <3>2, <3>7 DEF Unfired
            <4>. QED  BY <1>1, <3>4, <3>5, <4>1
        <3>. QED  BY <3>6, <3>7
    <2>. QED  BY <1>5, <2>3, <2>4 DEF _maybe_create_followup
<1>6. ASSUME NEW i \in Ids, NEW at \in {"cancelling", "moving"}, ReadEntry(i, at)
      PROVE  ForkInv'
    BY <1>0, <1>2, <1>6 DEF ReadEntry, entries, history, ProcessType
<1>7. CASE cancel_schedule \/ move_schedule
    BY <1>0, <1>2, <1>7 DEF cancel_schedule, move_schedule, Stop, history, ProcessType
<1>8. ASSUME NEW p \in Processes,
             StartFiring(p) \/ (\E i \in Ids : TakeEntry(p, i)) \/ EndFiring(p)
             \/ CheckWorkflow(p) \/ InsertWorkflow(p) \/ _mark_failed(p)
      PROVE  ForkInv'
    BY <1>0, <1>2, <1>8
    DEF StartFiring, TakeEntry, EndFiring, CheckWorkflow, InsertWorkflow, _mark_failed, Goto, Stop,
        NextEntry, entries, history, ProcessType
<1>9. ASSUME NEW p \in Processes, CreateRaises(p) \/ StatementRaises(p) \/ Crash(p)
      PROVE  ForkInv'
    BY <1>0, <1>2, <1>9
    DEF CreateRaises, StatementRaises, Crash, Goto, Stop, NextEntry, entries, history, ProcessType
<1>10. ASSUME NEW i \in Ids, Elapse(i) PROVE ForkInv'
    BY <1>2, <1>10 DEF Elapse, history, process
<1>11. ASSUME NEW n \in Names, CompleteWorkflow(n) \/ CancelWorkflow(n) PROVE ForkInv'
    BY <1>2, <1>11 DEF CompleteWorkflow, CancelWorkflow, entries, history, process
<1>12. CASE UNCHANGED vars
    BY <1>2, <1>12 DEF vars, entries, history, process
<1>. QED
    BY <1>3, <1>4, <1>5, <1>6, <1>7, <1>8, <1>9, <1>10, <1>11, <1>12
    DEF Next, Operator, fire_due_schedules

-----------------------------------------------------------------------------
(* The theorems                                                            *)

\* The types hold always.
LEMMA TypesKept == Spec => []TypeInv
<1>. QED  BY InitType, TypeStep, PTL DEF Spec

\* Every entry keeps its type and every process at work holds an entry that exists,
\* whatever the operator, the two processes and the faults interleave.
THEOREM TypeCorrect == Spec => []TypeOK
<1>1. TypeInv => TypeOK
    BY DEF TypeInv
<1>. QED  BY TypesKept, <1>1, PTL

\* fire_schedule loses at most one series per fault, and never lets a series grow
\* two pending occurrences, unless one of its entries was fired twice from
\* overlapping snapshots.
THEOREM SeriesCarriedOn == Spec => []SeriesGoOn
<1>1. Init => OrphanInv /\ ForkInv
    <2>. SUFFICES ASSUME Init PROVE OrphanInv /\ ForkInv
        OBVIOUS
    <2>1. Ids = {} /\ faults = 0 /\ \A p \in Processes : pc[p] = "idle"
        BY DEF Init, Ids
    <2>2. OrphanInv
        <3>1. Orphans \cup Failing = {}
            BY <2>1 DEF Orphans, Failing
        <3>2. Cardinality(Orphans \cup Failing) = 0
            BY <3>1, FS_EmptySet
        <3>. QED  BY <2>1, <3>2 DEF OrphanInv
    <2>3. ForkInv
        BY <2>1 DEF ForkInv, Unfired, Following
    <2>. QED  BY <2>2, <2>3
<1>2. TypeInv /\ OrphanInv /\ ForkInv => SeriesGoOn
    <2>. SUFFICES ASSUME TypeInv, OrphanInv, ForkInv PROVE SeriesGoOn
        OBVIOUS
    <2>0. TableType /\ faults \in Nat
        BY TypeParts, IdsType
    <2>1. Cardinality(Orphans) <= faults
        <3>1. /\ IsFiniteSet(Orphans \cup Failing) /\ Cardinality(Orphans \cup Failing) \in Nat
            BY DoomedFinite
        <3>2. Cardinality(Orphans) <= Cardinality(Orphans \cup Failing)
              /\ Cardinality(Orphans) \in Nat
            BY <3>1, FS_Subset, FS_CardinalityType
        <3>. QED  BY <2>0, <3>1, <3>2 DEF OrphanInv
    <2>2. ASSUME NEW i \in Ids, NEW j \in Ids, i # j, series[i] = series[j], series[i] # 0,
                 status[i] = "pending", status[j] = "pending"
          PROVE  \E k \in Ids : series[k] = series[i] /\ fires[k] > 1
        <3>1. series[i] \in Nat \ {0} /\ fires[i] = 0 /\ fires[j] = 0
            BY <2>0, <2>2, IdsType DEF TableType
        <3>2. i \in Unfired(series[i]) /\ j \in Unfired(series[i])
            BY <2>2, <3>1 DEF Unfired
        <3>3. ~FiredOnce(series[i])
            BY <2>2, <3>1, <3>2 DEF ForkInv
        <3>4. PICK k \in Ids : series[k] = series[i] /\ ~(fires[k] <= 1)
            BY <3>3 DEF FiredOnce
        <3>. QED  BY <2>0, <3>4 DEF TableType
    <2>. QED  BY <2>1, <2>2 DEF SeriesGoOn
<1>. QED  BY TypesKept, OrphanStep, ForkStep, <1>1, <1>2, PTL DEF Spec
=============================================================================
