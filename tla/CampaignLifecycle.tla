-------------------------- MODULE CampaignLifecycle --------------------------
(***************************************************************************)
(* A campaign of campaign_service.py beside the workflow that launches it  *)
(* and the task that completes it.                                         *)
(*                                                                         *)
(* _transition is called atomic, and reads, checks and writes in three     *)
(* transactions; most callers have read the row once before that.  The     *)
(* worker launches, the executor completes, the API (which serves one      *)
(* request at a time) pauses and archives, each once the others allow it.  *)
(***************************************************************************)
EXTENDS Naturals

CONSTANTS MaxRequests, \* bound: requests of operators
          MaxFaults    \* bound: processes that die, statements that fail

VARIABLES
    campaign, \* the row: [status, started, ended]
    work,     \* its workflow and task: none, planned, task, over, lost
    job,      \* where each process is
    requests, \* history: requests of operators
    archived, \* history: it was archived once
    overlap,  \* history: somebody wrote between another's read and write
    faults    \* faults so far

vars == <<campaign, work, job, requests, archived, overlap, faults>>

Processes == {"worker", "executor", "api"}
Idle == [pc |-> "idle", target |-> "none", stamp |-> FALSE]

_VALID_TRANSITIONS ==
    [draft     |-> {"scheduled", "live", "archived"},
     scheduled |-> {"live", "paused", "archived"},
     live      |-> {"paused", "completed", "archived"},
     paused    |-> {"live", "completed", "archived"},
     completed |-> {"archived"},
     archived  |-> {}]

\* Mutation: a status that is final can be left.
AnyOther(target) == campaign.status # target

_can_transition(target) == target \in _VALID_TRANSITIONS[campaign.status]

Init ==
    /\ campaign = [status |-> "none", started |-> FALSE, ended |-> FALSE]
    /\ work = "none"
    /\ job = [p \in Processes |-> Idle]
    /\ requests = 0
    /\ archived = FALSE
    /\ overlap = FALSE
    /\ faults = 0

At(p, pc) == job[p].pc = pc
Fault == faults < MaxFaults /\ faults' = faults + 1
Request == At("api", "idle") /\ requests < MaxRequests /\ requests' = requests + 1

\* Scheduled if it has a date.
create_campaign(next) ==
    /\ campaign.status = "none"
    /\ \E status \in {"draft", "scheduled"} :
           campaign' = [campaign EXCEPT !.status = status]
    /\ work' = next
    /\ UNCHANGED <<job, requests, archived, overlap, faults>>

\* By a planner, with a plan that a workflow will run, or by an operator, whom no
\* workflow follows.
_attach_campaign == create_campaign("planned")
post_campaign == create_campaign("none")

\* What a process goes on with, whether its call came to anything or raised: behind
\* launch_campaign the task is created, behind complete_campaign there is nothing.
After(p) == CASE p = "worker"   -> "task"
              [] p = "executor" -> "over"
              [] p = "api"      -> work

Returns(p) == job' = [job EXCEPT ![p] = Idle] /\ work' = After(p)

\* The caller's own read: nothing to do, or a time stamp to set.
Look(p, target, final, stamp) ==
    IF campaign.status \in final
    THEN Returns(p)
    ELSE /\ job' = [job EXCEPT ![p] = [pc |-> "check", target |-> target, stamp |-> stamp]]
         /\ UNCHANGED work

launch_campaign ==
    /\ work = "planned" /\ At("worker", "idle")
    /\ Look("worker", "live", {"live"}, ~campaign.started)
    /\ UNCHANGED <<campaign, requests, archived, overlap, faults>>

complete_campaign ==
    /\ work = "task" /\ At("executor", "idle")
    /\ Look("executor", "completed", {"completed", "archived"}, ~campaign.ended)
    /\ UNCHANGED <<campaign, requests, archived, overlap, faults>>

archive_campaign ==
    /\ campaign.status # "none"
    /\ Request
    /\ Look("api", "archived", {"archived"},
            ~campaign.ended /\ campaign.status \notin {"draft", "scheduled"})
    /\ UNCHANGED <<campaign, archived, overlap, faults>>

\* pause_campaign has nothing to look up before _transition reads.
pause_campaign ==
    /\ campaign.status # "none"
    /\ Request
    /\ job' = IF _can_transition("paused")
              THEN [job EXCEPT !["api"] = [Idle EXCEPT !.pc = "write", !.target = "paused"]]
              ELSE job
    /\ UNCHANGED <<campaign, work, archived, overlap, faults>>

\* _transition reads again and checks: the same status is no error, any other that
\* cannot be left raises.
Check(p) ==
    /\ At(p, "check")
    /\ IF campaign.status # job[p].target /\ _can_transition(job[p].target)
       THEN job' = [job EXCEPT ![p].pc = "write"] /\ UNCHANGED work
       ELSE Returns(p)
    /\ UNCHANGED <<campaign, requests, archived, overlap, faults>>

\* The UPDATE does not look at the status.
_transition(p) ==
    /\ At(p, "write")
    /\ LET t == job[p].target IN
       campaign' = [status  |-> t,
                    started |-> campaign.started \/ (t = "live" /\ job[p].stamp),
                    ended   |-> campaign.ended \/ (t # "live" /\ job[p].stamp)]
    /\ archived' = (archived \/ job[p].target = "archived")
    /\ overlap' = (overlap \/ \E q \in Processes \ {p} : ~At(q, "idle"))
    /\ Returns(p)
    /\ UNCHANGED <<requests, faults>>

\* A statement fails: the callers in the services swallow it, the API answers with it.
Raises(p) ==
    /\ ~At(p, "idle")
    /\ Fault
    /\ Returns(p)
    /\ UNCHANGED <<campaign, requests, archived, overlap>>

\* The workflow stays running, or the task behind its completion, for good.
Dies(p) ==
    /\ ~At(p, "idle")
    /\ Fault
    /\ job' = [job EXCEPT ![p] = Idle]
    /\ work' = IF p = "api" THEN work ELSE "lost"
    /\ UNCHANGED <<campaign, requests, archived, overlap>>

Next ==
    \/ _attach_campaign \/ post_campaign
    \/ launch_campaign \/ complete_campaign \/ pause_campaign \/ archive_campaign
    \/ \E p \in Processes : Check(p) \/ _transition(p) \/ Raises(p) \/ Dies(p)

Spec == Init /\ [][Next]_vars

(***************************************************************************)
(* Properties.                                                             *)
(***************************************************************************)
\* Every variable keeps its type.
TypeOK ==
    /\ campaign.status \in {"none"} \cup DOMAIN _VALID_TRANSITIONS
    /\ work \in {"none", "planned", "task", "over", "lost"}
    /\ \A p \in Processes : job[p].pc \in {"idle", "check", "write"}

\* As long as nobody writes between another's read and write, a campaign runs its
\* course: archived is final, what is live has its start and what has run and is over
\* its end, and unless something fails nothing stays open behind its task.
CampaignSettles ==
    ~overlap =>
        /\ archived => campaign.status = "archived"
        /\ campaign.status = "live" => campaign.started
        /\ \/ campaign.status = "completed"
           \/ campaign.status = "archived" /\ campaign.started
           => campaign.ended
        /\ campaign.ended => campaign.status \in {"completed", "archived"}
        /\ work = "over" /\ faults = 0 => campaign.status \in {"completed", "archived"}
=============================================================================
