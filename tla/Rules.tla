-------------------------------- MODULE Rules --------------------------------
(***************************************************************************)
(* The stored rules: structured_rule_engine.py with the edits of           *)
(* conversational_rule_edit.py, the conflicts of conflict_resolver.py, the *)
(* rules for one run of business_chat.py and the outcomes rule_learning.py *)
(* counts.                                                                 *)
(*                                                                         *)
(* Every statement is a transaction of its own.  The API serves requests   *)
(* and chat one at a time (its handlers block); the listener's threads and *)
(* the worker run beside it.  All rules here have the same trigger and the *)
(* same channel: others never meet.                                        *)
(***************************************************************************)
EXTENDS Naturals, FiniteSets

CONSTANTS Threads,    \* of the listener
          MaxRules,   \* bound: rows ever inserted
          MaxRequests, \* bound: requests of operators that change a rule
          MaxStarts,  \* bound: executions
          MaxFaults   \* bound: processes that die, statements that fail

VARIABLES
    rule,     \* structured_rules by id
    last,     \* the highest id given away
    waiting,  \* executions of each rule that wait for a timer or a human
    job,      \* what each process or thread is doing
    requests, \* history: requests of operators
    starts,   \* history: executions started
    ended,    \* history: executions of each rule that have ended
    overlap,  \* history: two counted for the same rule at once
    reopened, \* history: families in which an operator enabled an old version
    faults    \* faults so far

vars == <<rule, last, waiting, job, requests, starts, ended, overlap, reopened, faults>>

Ids == 1..MaxRules
Actors == Threads \cup {"api", "worker"}
Idle == [pc |-> "idle", id |-> 0, todo |-> {}, value |-> 0]
Absent == [family |-> 0, current |-> FALSE, enabled |-> FALSE, count |-> 0]

Here == {i \in Ids : rule[i] # Absent}
At(a, pc) == job[a].pc = pc
Request == At("api", "idle") /\ requests < MaxRequests /\ requests' = requests + 1
Fault == faults < MaxFaults /\ faults' = faults + 1

Init ==
    /\ rule = [i \in Ids |-> Absent]
    /\ last = 0
    /\ waiting = [i \in Ids |-> 0]
    /\ job = [a \in Actors |-> Idle]
    /\ requests = 0
    /\ starts = 0
    /\ ended = [i \in Ids |-> 0]
    /\ overlap = FALSE
    /\ reopened = {}
    /\ faults = 0

(***************************************************************************)
(* save_rule: a row for a new rule, or a new version of one.               *)
(***************************************************************************)
\* A version begins with counters of its own.
Insert(family, enabled) ==
    /\ last < MaxRules
    /\ last' = last + 1
    /\ rule' = [rule EXCEPT ![last + 1] = [family |-> family, current |-> TRUE,
                                           enabled |-> enabled, count |-> 0]]

\* POST /structured-rules
create_structured_rule(enabled) ==
    /\ Request
    /\ Insert(last + 1, enabled)
    /\ UNCHANGED <<waiting, job, starts, ended, overlap, reopened, faults>>

\* apply_edit with a change of substance: the rule of the id the operator sent,
\* whichever version that is by now; its enabled goes into the new version.
apply_edit(i) ==
    /\ Request
    /\ i \in Here
    /\ last < MaxRules
    /\ job' = [job EXCEPT !["api"] = [Idle EXCEPT !.pc = "supersede", !.id = i,
                                                  !.value = IF rule[i].enabled THEN 1 ELSE 0]]
    /\ UNCHANGED <<rule, last, waiting, starts, ended, overlap, reopened, faults>>

\* The UPDATE of the old version ...
Supersede ==
    /\ At("api", "supersede")
    /\ rule' = [rule EXCEPT ![job["api"].id].current = FALSE,
                            ![job["api"].id].enabled = FALSE]
    /\ job' = [job EXCEPT !["api"].pc = "insert"]
    /\ UNCHANGED <<last, waiting, requests, starts, ended, overlap, reopened, faults>>

\* Mutation: a new version is always enabled.
InsertEnabled ==
    /\ At("api", "insert")
    /\ Insert(rule[job["api"].id].family, TRUE)
    /\ job' = [job EXCEPT !["api"] = Idle]
    /\ UNCHANGED <<waiting, requests, starts, ended, overlap, reopened, faults>>

\* ... and the INSERT of the new one, in two transactions.
InsertVersion ==
    /\ At("api", "insert")
    /\ Insert(rule[job["api"].id].family, job["api"].value = 1)
    /\ job' = [job EXCEPT !["api"] = Idle]
    /\ UNCHANGED <<waiting, requests, starts, ended, overlap, reopened, faults>>

\* The INSERT fails, or the process dies in between: the API answers with an error.
InsertFails ==
    /\ At("api", "insert")
    /\ Fault
    /\ job' = [job EXCEPT !["api"] = Idle]
    /\ UNCHANGED <<rule, last, waiting, requests, starts, ended, overlap, reopened>>

(***************************************************************************)
(* The switch, the deletion and the resolution of a conflict.              *)
(***************************************************************************)
\* PATCH enabled and the edits "enable" and "disable", on any version.
set_enabled(i, enabled) ==
    /\ Request
    /\ i \in Here
    /\ rule[i].enabled # enabled
    /\ rule' = [rule EXCEPT ![i].enabled = enabled]
    /\ reopened' = reopened \cup
           {rule[k].family : k \in {j \in {i} : enabled /\ \E n \in Here \ {i} :
                                        rule[n].family = rule[i].family}}
    /\ UNCHANGED <<last, waiting, job, starts, ended, overlap, faults>>

\* DELETE, and the edit "delete" once it is confirmed: one version.
delete_rule(i) ==
    /\ Request
    /\ i \in Here
    /\ rule' = [rule EXCEPT ![i] = Absent]
    /\ ended' = [ended EXCEPT ![i] = 0]
    /\ UNCHANGED <<last, waiting, job, starts, overlap, reopened, faults>>

Serving == {i \in Here : rule[i].current /\ rule[i].enabled}

\* Two rules for the same trigger and channel.
detect_conflicts == {pair \in SUBSET Serving : Cardinality(pair) = 2}

\* Which of the rules is kept: the newest or the healthiest.
_suggest_resolutions == UNION detect_conflicts

\* The conflict is looked up again; what the operator saw is not.
apply_resolution(keep) ==
    /\ Request
    /\ keep \in _suggest_resolutions
    /\ job' = [job EXCEPT !["api"] = [Idle EXCEPT !.pc = "disable", !.todo = Serving \ {keep}]]
    /\ UNCHANGED <<rule, last, waiting, starts, ended, overlap, reopened, faults>>

DisableNext ==
    /\ At("api", "disable")
    /\ \E i \in job["api"].todo :
          /\ rule' = [rule EXCEPT ![i].enabled = FALSE]
          /\ job' = [job EXCEPT !["api"] =
                        IF job["api"].todo = {i} THEN Idle
                        ELSE [job["api"] EXCEPT !.todo = @ \ {i}]]
    /\ UNCHANGED <<last, waiting, requests, starts, ended, overlap, reopened, faults>>

(***************************************************************************)
(* Executions: started for an event or by the chat, resumed, counted.      *)
(***************************************************************************)
\* trigger_rules_for_event: one SELECT, then one execution after the other.
find_matching_rules(t) ==
    /\ t \in Threads /\ At(t, "idle")
    /\ Serving # {}
    /\ job' = [job EXCEPT ![t] = [Idle EXCEPT !.pc = "start", !.todo = Serving]]
    /\ UNCHANGED <<rule, last, waiting, requests, starts, ended, overlap, reopened, faults>>

\* What a job goes on with behind an execution.
Resumed(a) ==
    IF a = "api" /\ job[a].todo # {} THEN [job[a] EXCEPT !.pc = "drop", !.value = 0]
    ELSE IF job[a].todo # {} THEN [job[a] EXCEPT !.pc = "start", !.value = 0]
    ELSE Idle

\* start_execution returns at the end of the graph or where it waits; it may raise
\* before there is anything to count.
start_execution(a) ==
    /\ At(a, "start")
    /\ starts < MaxStarts
    /\ starts' = starts + 1
    /\ \E i \in job[a].todo :
          /\ a # "api" => \A j \in job[a].todo : i <= j
          /\ LET rest == [job[a] EXCEPT !.todo = IF a = "api" THEN @ ELSE @ \ {i}] IN
             \/ /\ job' = [job EXCEPT ![a] = [rest EXCEPT !.pc = "read", !.id = i]]
                /\ UNCHANGED waiting
             \/ /\ job' = [job EXCEPT ![a] = [rest EXCEPT !.pc = "next", !.id = i]]
                /\ waiting' \in {waiting, [waiting EXCEPT ![i] = @ + 1]}
    /\ UNCHANGED <<rule, last, requests, ended, overlap, reopened, faults>>

\* The worker behind a timer or the API for an operator: the graph runs to its end, or
\* stops again.
resume_execution(a, i) ==
    /\ a \in {"api", "worker"} /\ At(a, "idle")
    /\ waiting[i] > 0
    /\ waiting' = [waiting EXCEPT ![i] = @ - 1]
    /\ job' = [job EXCEPT ![a] = [Idle EXCEPT !.pc = "read", !.id = i]]
    /\ UNCHANGED <<rule, last, requests, starts, ended, overlap, reopened, faults>>

\* record_execution_outcome, at the end of an execution: a SELECT ...
ReadCounters(a) ==
    /\ At(a, "read")
    /\ LET i == job[a].id IN
       IF i \in Here
       THEN /\ job' = [job EXCEPT ![a].pc = "write", ![a].value = rule[i].count + 1]
            /\ ended' = [ended EXCEPT ![i] = @ + 1]
            /\ overlap' = (overlap \/ \E b \in Actors \ {a} : At(b, "write") /\ job[b].id = i)
       ELSE /\ job' = [job EXCEPT ![a] = Resumed(a)]
            /\ UNCHANGED <<ended, overlap>>
    /\ UNCHANGED <<rule, last, waiting, requests, starts, reopened, faults>>

\* Mutation: an execution that only waits is counted too.
CountsWaiting(a) ==
    /\ At(a, "next")
    /\ rule' = IF job[a].id \in Here THEN [rule EXCEPT ![job[a].id].count = @ + 1] ELSE rule
    /\ job' = [job EXCEPT ![a] = Resumed(a)]
    /\ UNCHANGED <<last, waiting, requests, starts, ended, overlap, reopened, faults>>

\* _update_execution_row calls it for a status that is final only.
GoOn(a) ==
    /\ At(a, "next")
    /\ job' = [job EXCEPT ![a] = Resumed(a)]
    /\ UNCHANGED <<rule, last, waiting, requests, starts, ended, overlap, reopened, faults>>

\* ... and an UPDATE computed from it.
WriteCounters(a) ==
    /\ At(a, "write")
    /\ rule' = IF job[a].id \in Here
               THEN [rule EXCEPT ![job[a].id].count = job[a].value] ELSE rule
    /\ job' = [job EXCEPT ![a] = Resumed(a)]
    /\ UNCHANGED <<last, waiting, requests, starts, ended, overlap, reopened, faults>>

(***************************************************************************)
(* _one_shot_run: a rule for one run, saved enabled, deleted behind it.    *)
(***************************************************************************)
_one_shot_run ==
    /\ Request
    /\ Insert(last + 1, TRUE)
    /\ job' = [job EXCEPT !["api"] = [Idle EXCEPT !.pc = "start", !.todo = {last + 1}]]
    /\ UNCHANGED <<waiting, starts, ended, overlap, reopened, faults>>

Drop ==
    /\ At("api", "drop")
    /\ rule' = [i \in Ids |-> IF i \in job["api"].todo THEN Absent ELSE rule[i]]
    /\ ended' = [i \in Ids |-> IF i \in job["api"].todo THEN 0 ELSE ended[i]]
    /\ job' = [job EXCEPT !["api"] = Idle]
    /\ UNCHANGED <<last, waiting, requests, starts, overlap, reopened, faults>>

\* The deletion fails, which is swallowed.
DropFails ==
    /\ At("api", "drop")
    /\ Fault
    /\ job' = [job EXCEPT !["api"] = Idle]
    /\ UNCHANGED <<rule, last, waiting, requests, starts, ended, overlap, reopened>>

\* A process dies: the listener with all its threads.
Die(S) ==
    /\ \E a \in S : job[a] # Idle
    /\ Fault
    /\ job' = [a \in Actors |-> IF a \in S THEN Idle ELSE job[a]]
    /\ UNCHANGED <<rule, last, waiting, requests, starts, ended, overlap, reopened>>

Run(a) == start_execution(a) \/ ReadCounters(a) \/ GoOn(a) \/ WriteCounters(a)

Next ==
    \/ \E enabled \in BOOLEAN : create_structured_rule(enabled)
    \/ \E i \in Ids : apply_edit(i) \/ delete_rule(i) \/ apply_resolution(i)
    \/ \E i \in Ids, enabled \in BOOLEAN : set_enabled(i, enabled)
    \/ Supersede \/ InsertVersion \/ InsertFails \/ DisableNext
    \/ \E t \in Threads : find_matching_rules(t)
    \/ \E a \in Actors : Run(a) \/ \E i \in Ids : resume_execution(a, i)
    \/ _one_shot_run \/ Drop \/ DropFails
    \/ Die(Threads) \/ Die({"api"}) \/ Die({"worker"})

Spec == Init /\ [][Next]_vars

(***************************************************************************)
(* Properties.                                                             *)
(***************************************************************************)
\* Every variable keeps its type.
TypeOK ==
    /\ last \in 0..MaxRules /\ requests \in 0..MaxRequests /\ starts \in 0..MaxStarts
    /\ \A i \in Ids : i > last => rule[i] = Absent
    /\ \A i \in Here : rule[i].family \in 1..i

Family(f) == {i \in Here : rule[i].family = f}

\* Of the versions of a rule one at most answers events, whatever is edited, on
\* whichever version, and whenever it fails: an event never starts two versions of one
\* rule, unless an operator enabled an old one.
OneVersionServes ==
    \A f \in Ids \ reopened : Cardinality(Family(f) \cap Serving) <= 1

\* The counters of a rule are the executions of it that have ended, unless two were
\* counted at once or a process died: nothing is counted twice, over any number of
\* stops and resumes.
OutcomesCounted ==
    faults = 0 /\ ~overlap =>
        \A i \in Here :
            rule[i].count + Cardinality({a \in Actors : At(a, "write") /\ job[a].id = i}) = ended[i]
=============================================================================
