------------------------------- MODULE Planning -------------------------------
(***************************************************************************)
(* From a plan to a workflow: planner_runtime.py, called by the listener's *)
(* threads for events and by the API for approved proposals, the limits of *)
(* safety_service.py, and the approvals of approval_service.py that hold   *)
(* back plans which publish.                                               *)
(*                                                                         *)
(* The limits are checked before a workflow is created and recorded behind *)
(* it, each statement in a transaction of its own.  Workflows are the keys *)
(* (entity and name) that workflow_exists looks up in workflow_instances.    *)
(***************************************************************************)
EXTENDS Integers, FiniteSets

CONSTANTS Planners,     \* listener threads in handle_autonomous_event
          Api,          \* the API process (no planner), whose handlers run one at a time
          Keys,         \* workflows a plan may ask for
          Campaigns,    \* those of them that publish: approval and the campaign limit apply
          HourlyLimit,  \* AUTONOMOUS_HOURLY_LIMIT
          CampaignLimit,\* CAMPAIGN_DAILY_LIMIT
          MaxPlans,     \* bound: proposals
          MaxAsked,     \* bound: times an operator is asked about one proposal
          MaxHours,     \* bound: hours that begin
          MaxFaults     \* bound: processes that die

VARIABLES
    proposal, \* planner_proposals: [key, decision, result]; an id is a position
    request,  \* approval_requests by proposal: none, pending, approved, rejected
    taken,    \* keys with a row that is scheduled, running or completed
    counter,  \* safety_counters: [value, hour] for "hour" and for "day"
    cooling,  \* keys whose cool-down has not passed
    job,      \* where each planner and the API stand in apply_proposal
    hour,     \* the clock, in hours
    made,     \* history: workflows created for each proposal
    asked,    \* history: how often an operator was asked about each proposal
    inHour,   \* history: workflows created in the present hour
    today,    \* history: hours of the day that have begun, campaigns created in it and in its last hour
    hot,      \* history: keys created since their cool-down last passed
    excused   \* history: two checks overlapped, or a process died behind its check

vars == <<proposal, request, taken, counter, cooling, job, hour, made, asked, inHour, today, hot, excused>>

Actors == Planners \cup {Api}
Ids == 1..MaxPlans
Idle == [pc |-> "idle"]
None == [key |-> "none", decision |-> "none", result |-> "none"]

Init ==
    /\ proposal = [i \in Ids |-> None]
    /\ request = [i \in Ids |-> "none"]
    /\ taken = {}
    /\ cooling = {}
    /\ job = [p \in Actors |-> Idle]
    /\ hour = 0
    /\ made = [i \in Ids |-> 0]
    /\ asked = [i \in Ids |-> 0]
    /\ inHour \in 0..HourlyLimit  \* the hour has seen workflows of other entities
    /\ counter = [w \in {"hour", "day"} |-> [value |-> IF w = "hour" THEN inHour ELSE 0, hour |-> 0]]
    /\ today = [hours |-> 1, campaigns |-> 0, inHour |-> 0]
    /\ hot = {}
    /\ excused = [faults |-> 0, overlap |-> FALSE]

Saved == {i \in Ids : proposal[i] # None}
At(p, pc) == job[p].pc = pc
id(p) == job[p].id
key(p) == proposal[id(p)].key
Goto(p, pc) == job' = [job EXCEPT ![p].pc = pc]
\* Between its check of the limits and its last record an actor is Committed.
Committed == {p \in Actors : job[p].pc \in {"create", "read", "write", "readDay", "writeDay", "cool"}}

\* The branch of apply_proposal for a decision.
Begins(d) == IF d = "create" THEN "check" ELSE d

(***************************************************************************)
(* A planner: create_plan, save_proposal, apply_proposal.                  *)
(***************************************************************************)
\* The plan is validated, named and saved.  What cannot be validated is a noop.
Plan(p) ==
    /\ p \in Planners /\ At(p, "idle")
    /\ \E i \in Ids \ Saved, k \in Keys \cup {"none"}, d \in {"create", "cancel", "noop"} :
        /\ i = Cardinality(Saved) + 1
        /\ d = "noop" <=> k = "none"
        /\ proposal' = [proposal EXCEPT ![i] = [key |-> k, decision |-> d, result |-> "stored"]]
        /\ job' = [job EXCEPT ![p] =
                     [id |-> i, pc |-> IF k \in Campaigns THEN "ask" ELSE Begins(d)]]
    /\ UNCHANGED <<request, taken, counter, cooling, hour, made, asked, inHour, today, hot, excused>>

\* A request that is pending again after a decision asks anew.
Asks(i) ==
    /\ request' = [request EXCEPT ![i] = "pending"]
    /\ asked' = [asked EXCEPT ![i] = IF request[i] = "pending" THEN @ ELSE @ + 1]

\* mark_proposal_applied; the API applies an approved proposal without its id.
mark_proposal_applied(p, result) ==
    /\ proposal' = IF p = Api THEN proposal ELSE [proposal EXCEPT ![id(p)].result = result]
    /\ job' = [job EXCEPT ![p] = Idle]

Noop(p) ==
    /\ At(p, "noop")
    /\ mark_proposal_applied(p, "noop")
    /\ UNCHANGED <<request, taken, counter, cooling, hour, made, asked, inHour, today, hot, excused>>

\* cancel_workflows, then the mark: a scheduled row gives its key back, one that is
\* running or completed keeps it.
Cancel(p) ==
    /\ At(p, "cancel")
    /\ taken' \in {taken, taken \ {key(p)}}
    /\ mark_proposal_applied(p, "cancelled")
    /\ UNCHANGED <<request, counter, cooling, hour, made, asked, inHour, today, hot, excused>>

\* create_approval_request, whatever the decision of the plan.  Proposals here are of
\* different events: requests of one event are one (Executions has them).
create_approval_request(p) ==
    /\ At(p, "ask")
    /\ Asks(id(p))
    /\ Goto(p, "asked")
    /\ UNCHANGED <<proposal, taken, counter, cooling, hour, made, inHour, today, hot, excused>>

Asked(p) ==
    /\ At(p, "asked")
    /\ mark_proposal_applied(p, "requires_approval")
    /\ UNCHANGED <<request, taken, counter, cooling, hour, made, asked, inHour, today, hot, excused>>

(***************************************************************************)
(* The API: a decision on a request.                                       *)
(***************************************************************************)
\* Mutation: a request of any status can be approved.
ApproveAny(i) ==
    /\ At(Api, "idle")
    /\ request[i] # "none"
    /\ request' = [request EXCEPT ![i] = "approved"]
    /\ job' = [job EXCEPT ![Api] = [id |-> i, pc |-> Begins(proposal[i].decision)]]
    /\ UNCHANGED <<proposal, taken, counter, cooling, hour, made, asked, inHour, today, hot, excused>>

\* apply_approved_proposal: the request is spent before the limits are looked at.
approve(i) ==
    /\ At(Api, "idle")
    /\ request[i] = "pending"
    /\ request' = [request EXCEPT ![i] = "approved"]
    /\ job' = [job EXCEPT ![Api] = [id |-> i, pc |-> Begins(proposal[i].decision)]]
    /\ UNCHANGED <<proposal, taken, counter, cooling, hour, made, asked, inHour, today, hot, excused>>

\* reject asks for no status: an approved request can say rejected later.
reject(i) ==
    /\ At(Api, "idle")
    /\ request[i] \in {"pending", "approved"}
    /\ request' = [request EXCEPT ![i] = "rejected"]
    /\ UNCHANGED <<proposal, taken, counter, cooling, job, hour, made, asked, inHour, today, hot, excused>>

\* retry asks for no status either, nor whether the approval was spent.
retry_approval(i) ==
    /\ At(Api, "idle")
    /\ request[i] \in {"approved", "rejected"}
    /\ asked[i] < MaxAsked
    /\ Asks(i)
    /\ UNCHANGED <<proposal, taken, counter, cooling, job, hour, made, inHour, today, hot, excused>>

(***************************************************************************)
(* The limits (safety_service.py).                                         *)
(***************************************************************************)
\* _get_counter: a counter of another hour counts as zero.  The daily one has a row for
\* every date, but its window is the hour as well: it begins again every hour.
_get_counter(w) == IF counter[w].hour = hour THEN counter[w].value ELSE 0

\* Mutation: the comparison allows one more.
QuotaOffByOne(k) == _get_counter("hour") <= HourlyLimit

\* Mutation: so does the one of campaigns.
CampaignOffByOne(k) == k \in Campaigns => _get_counter("day") <= CampaignLimit

check_autonomous_quota(k) == _get_counter("hour") < HourlyLimit
check_campaign_spam(k) == k \in Campaigns => _get_counter("day") < CampaignLimit
check_cooldown(k) == k \notin cooling

\* Three SELECTs; whoever records in between is an overlap like any other.
validate_autonomous_execution(p) ==
    /\ At(p, "check")
    /\ IF /\ check_autonomous_quota(key(p))
          /\ check_campaign_spam(key(p))
          /\ check_cooldown(key(p))
       THEN /\ Goto(p, "create")
            /\ excused' = [excused EXCEPT !.overlap = @ \/ Committed # {}]
            /\ UNCHANGED proposal
       ELSE /\ mark_proposal_applied(p, "blocked")
            /\ UNCHANGED excused
    /\ UNCHANGED <<request, taken, counter, cooling, hour, made, asked, inHour, today, hot>>

\* create_workflow: a row unless one has the key (module Workflows has its check and
\* its INSERT apart).
create_workflow(p) ==
    /\ At(p, "create")
    /\ IF key(p) \in taken
       THEN /\ mark_proposal_applied(p, "skipped")
            /\ UNCHANGED <<taken, made, inHour, today, hot>>
       ELSE /\ taken' = taken \cup {key(p)}
            /\ made' = [made EXCEPT ![id(p)] = @ + 1]
            /\ inHour' = inHour + 1
            /\ today' = IF key(p) \in Campaigns
                        THEN [today EXCEPT !.campaigns = @ + 1, !.inHour = @ + 1] ELSE today
            /\ hot' = hot \cup {key(p)}
            /\ Goto(p, "read")
            /\ UNCHANGED proposal
    /\ UNCHANGED <<request, asked, counter, cooling, hour, excused>>

\* _increment_counter: SELECT outside a transaction, then a write computed from it:
\* two at once count as one.  The window is the hour of the SELECT.
ReadCounter(p, w, pc, next) ==
    /\ At(p, pc)
    /\ job' = [job EXCEPT ![p] = [id |-> id(p), pc |-> next, value |-> _get_counter(w) + 1,
                                  window |-> hour, sameHour |-> counter[w].hour = hour]]
    /\ UNCHANGED <<proposal, request, taken, counter, cooling, hour, made, asked, inHour, today, hot, excused>>

\* Within the hour the UPDATE leaves window_start alone; else the upsert begins a window.
WriteCounter(p, w, pc, next) ==
    /\ At(p, pc)
    /\ counter' = [counter EXCEPT ![w] =
                     [value |-> job[p].value,
                      hour |-> IF job[p].sameHour THEN @.hour ELSE job[p].window]]
    /\ job' = [job EXCEPT ![p] = [id |-> id(p), pc |-> next]]
    /\ UNCHANGED <<proposal, request, taken, cooling, hour, made, asked, inHour, today, hot, excused>>

AfterHour(p) == IF key(p) \in Campaigns THEN "readDay" ELSE "cool"

CountHour(p) == ReadCounter(p, "hour", "read", "write") \/ WriteCounter(p, "hour", "write", AfterHour(p))
CountDay(p) == ReadCounter(p, "day", "readDay", "writeDay") \/ WriteCounter(p, "day", "writeDay", "cool")

\* The end of record_execution: the upsert into execution_cooldowns.
record_cooldown(p) ==
    /\ At(p, "cool")
    /\ cooling' = cooling \cup {key(p)}
    /\ Goto(p, "mark")
    /\ UNCHANGED <<proposal, request, taken, counter, hour, made, asked, inHour, today, hot, excused>>

Done(p) ==
    /\ At(p, "mark")
    /\ mark_proposal_applied(p, "created")
    /\ UNCHANGED <<request, taken, counter, cooling, hour, made, asked, inHour, today, hot, excused>>

(***************************************************************************)
(* The rest of the system, time and faults.                                *)
(***************************************************************************)
\* The worker gives a workflow up, or an operator cancels it; a completed one keeps
\* its key.
Abandon(k) ==
    /\ k \in taken
    /\ taken' = taken \ {k}
    /\ UNCHANGED <<proposal, request, counter, cooling, job, hour, made, asked, inHour, today, hot, excused>>

\* An hour begins, or a day with it.
NextHour ==
    /\ hour < MaxHours
    /\ hour' = hour + 1
    /\ inHour' = 0
    /\ today' \in {[today EXCEPT !.hours = @ + 1, !.inHour = 0],
                  [hours |-> 1, campaigns |-> 0, inHour |-> 0]}
    /\ UNCHANGED <<proposal, request, taken, counter, cooling, job, made, asked, hot, excused>>

\* COOLDOWN_MINUTES have passed since the last record for the key.
CoolDownPasses(k) ==
    /\ k \in cooling
    /\ cooling' = cooling \ {k}
    /\ hot' = hot \ {k}
    /\ UNCHANGED <<proposal, request, taken, counter, job, hour, made, asked, inHour, today, excused>>

\* The process of an actor dies: the other threads of the listener with it.
Die(S) ==
    /\ \E p \in S : job[p] # Idle
    /\ excused.faults < MaxFaults
    /\ excused' = [faults |-> excused.faults + 1,
                   overlap |-> excused.overlap \/ S \cap Committed # {}]
    /\ job' = [p \in Actors |-> IF p \in S THEN Idle ELSE job[p]]
    /\ UNCHANGED <<proposal, request, taken, counter, cooling, hour, made, asked, inHour, today, hot>>

\* For TLC: which planner holds a job makes no difference, nor does the value of a counter
\* of another hour, nor, once two checks have overlapped, what no guard reads.
Counts(w) == IF counter[w].hour = hour THEN counter[w].value ELSE -1
View == <<proposal, request, taken, cooling, hour, made, asked, excused, job[Api],
          {<<job[p], Cardinality({q \in Planners : job[q] = job[p]})>> : p \in Planners},
          Counts("hour"), Counts("day"),
          IF excused.overlap THEN 0 ELSE <<inHour, today, hot>>>>

Step(p) ==
    \/ Noop(p) \/ Cancel(p) \/ create_approval_request(p) \/ Asked(p)
    \/ validate_autonomous_execution(p) \/ create_workflow(p)
    \/ CountHour(p) \/ CountDay(p) \/ record_cooldown(p) \/ Done(p)

Next ==
    \/ \E p \in Actors : Plan(p) \/ Step(p)
    \/ \E i \in Ids : approve(i) \/ reject(i) \/ retry_approval(i)
    \/ \E k \in Keys : Abandon(k) \/ CoolDownPasses(k)
    \/ NextHour
    \/ Die(Planners) \/ Die({Api})

Spec == Init /\ [][Next]_vars

(***************************************************************************)
(* Properties.                                                             *)
(***************************************************************************)
\* Every variable keeps its type.
TypeOK ==
    /\ \A i \in Ids : proposal[i].key \in Keys \cup {"none"}
    /\ \A i \in Ids : request[i] \in {"none", "pending", "approved", "rejected"}
    /\ taken \subseteq Keys /\ cooling \subseteq Keys /\ hot \subseteq Keys
    /\ hour \in 0..MaxHours /\ inHour \in Nat
    /\ today \in [hours: 1..(MaxHours + 1), campaigns: Nat, inHour: Nat]
    /\ made \in [Ids -> Nat] /\ asked \in [Ids -> Nat]

\* The limits hold over all planners and approvals: no more workflows in an hour than the
\* quota allows, no more campaigns in an hour than CAMPAIGN_DAILY_LIMIT (which is all
\* that the check of it keeps: of a day, that limit for each of its hours, though its
\* message speaks of the day), and no workflow of a key before the cool-down of the last
\* one is over; unless two were between their check and their record at once, or a
\* process died there.
LimitsHold ==
    ~excused.overlap =>
        /\ inHour <= HourlyLimit
        /\ today.inHour <= CampaignLimit
        /\ today.campaigns <= CampaignLimit * today.hours
        /\ \A p \in Actors : At(p, "create") => key(p) \notin hot

\* One approval, one workflow: a proposal that publishes gets at most one for every
\* time an operator was asked, and none while the question is open; any other gets at
\* most one, however often operators decide and whatever dies in between.  And none is
\* forgotten: one that has no result yet is in the hands of its planner, and one that
\* waits for a human or was held back by a limit says so, unless a process died.
ProposalsSettleOnce ==
    \A i \in Saved :
        /\ IF proposal[i].key \in Campaigns
           THEN made[i] + (IF request[i] = "pending" THEN 1 ELSE 0) <= asked[i]
           ELSE made[i] <= 1
        /\ proposal[i].result = "stored" =>
               excused.faults > 0 \/ \E p \in Planners : job[p] # Idle /\ id(p) = i
=============================================================================
