------------------------------- MODULE RuleGraphs -------------------------------
(***************************************************************************)
(* The graph a rule runs as, node by node: langgraph_engine/nodes.py over  *)
(* the graphs of runtime.py, structured_rule.py and nl_rule_parser.py, and *)
(* the channel adapters of tool_adapters/ it publishes through.            *)
(*                                                                         *)
(* Executions models who may drive an execution, and when its row and its  *)
(* checkpoint part; it reduces the graph to the nodes that pause it.  Here *)
(* one driver at a time runs one execution, and every node is there: what  *)
(* it does to the world, how it fails, what it leaves to the next.         *)
(*                                                                         *)
(* nl_rule_parser.py gives every rule it parses a graph_definition; a rule *)
(* without one, stored before there were any, runs the canonical graph.    *)
(* No code sets parallel_with or depends_on, so a graph is a chain.        *)
(***************************************************************************)
EXTENDS Naturals, Sequences, FiniteSets

CONSTANTS Accounts,  \* the handles a rule may name; for a banner, the webhook
          MaxFaults  \* bound: crashes, swallowed errors and lost responses

VARIABLES
    rule,    \* the rule, as the drivers load it
    live,    \* SOCIAL_PUBLISH_LIVE
    row,     \* rule_executions.status
    next,    \* checkpoint: the node to run next
    state,   \* checkpoint: the fields of RuleExecutionState the control reads
    driver,  \* who invokes the graph: none, thread, worker or operator
    stage,   \* of the invocation: node, calling, marking, drafting, saving
    todo,    \* the accounts a publishing node still has to serve
    ok,      \* ~any_failure of that node
    sent,    \* world: posts by account
    entry,   \* world: the record of the publication in the calendar
    firers,  \* the polls of the calendar that have read the record as pending and due
    drafts,  \* world: cards in social_documents
    others,  \* world: what else was done: coupon, notice, monitor, tool, workflow
    timer,   \* the schedule of the wait: none, pending, done
    asked,   \* the contents approval requests were written for
    shown,   \* history: the contents that were posted
    overtaken, \* history: the last mark of the record is a poll's, not the node's
    faults   \* faults so far

volatile == <<stage, todo, ok>>
polls == <<firers, overtaken>>
world == <<sent, shown, entry, drafts, others, polls>>
vars == <<rule, live, row, next, state, driver, volatile, world, timer, asked, faults>>

-----------------------------------------------------------------------------
(* Rules                                                                   *)

ActionKinds == {"wait", "generate_content", "create_coupon", "risk_check",
                "approval", "publish", "notify_customer", "monitor"}

_CANONICAL_ORDER == <<"wait", "generate_content", "create_coupon", "risk_check",
                      "approval", "publish", "notify_customer", "monitor">>

\* parse_rule on whatever the language model answers: the nodes follow from delay,
\* conditions and approval, never from the actions it lists; a wait action among
\* those keeps a copy of the delay.  An edit changes the delay of the rule later,
\* and neither the graph nor the copy.  publish_story is publish_post into another
\* collection.
ParsedRules ==
    {r \in [parsed: {TRUE}, wait: BOOLEAN, config: BOOLEAN, timing: BOOLEAN,
            checks: BOOLEAN, approval: BOOLEAN, actions: {{}},
            publish: {"publish_post", "publish_banner"},
            adapter: BOOLEAN, accounts: SUBSET Accounts] :
        /\ r.config => r.wait
        /\ r.publish = "publish_banner" => r.adapter /\ Cardinality(r.accounts) <= 1
        /\ ~r.adapter => r.accounts # {}}

\* A rule stored without a graph_definition: the actions make the graph.
StoredRules ==
    {r \in [parsed: {FALSE}, wait: BOOLEAN, config: BOOLEAN, timing: BOOLEAN,
            checks: {FALSE}, approval: BOOLEAN, actions: SUBSET ActionKinds,
            publish: {"publisher"}, adapter: {TRUE}, accounts: {{}}] :
        /\ r.wait <=> "wait" \in r.actions
        /\ r.config => r.wait
        /\ {"generate_content", "risk_check"} \subseteq r.actions}

Edited(r) == r.parsed /\ r.timing # r.wait

-----------------------------------------------------------------------------
(* Graphs                                                                  *)

Optional(present, node) == IF present THEN <<node>> ELSE <<>>

\* Mutation: the gate comes before what it asks about.
GateFirst(r) ==
    <<"supervisor">> \o Optional(r.wait, "wait") \o Optional(r.checks, "condition_check")
    \o Optional(r.approval, "approval")
    \o <<"generate_content", "risk_check", "publish", "finalize">>

\* _build_graph_definition: the nodes of a parsed rule, in their order.
_build_graph_definition(r) ==
    <<"supervisor">> \o Optional(r.wait, "wait") \o Optional(r.checks, "condition_check")
    \o <<"generate_content", "risk_check">> \o Optional(r.approval, "approval")
    \o <<"publish", "finalize">>

\* What is requested, and what goes with a publication and with a delay.
_selected_kinds(r) ==
    LET requested ==
            r.actions
            \cup (IF "publish" \in r.actions
                  THEN {"risk_check", "generate_content"}
                       \cup (IF r.approval THEN {"approval"} ELSE {})
                  ELSE {})
            \cup (IF r.timing THEN {"wait"} ELSE {})
        Kind(i) == Optional(_CANONICAL_ORDER[i] \in requested, _CANONICAL_ORDER[i])
    IN  Kind(1) \o Kind(2) \o Kind(3) \o Kind(4) \o Kind(5) \o Kind(6) \o Kind(7) \o Kind(8)

_build_canonical_graph(r) == <<"supervisor">> \o _selected_kinds(r) \o <<"finalize">>

build_graph(r) == IF r.parsed THEN _build_graph_definition(r) ELSE _build_canonical_graph(r)

\* Every node of a group to every node of the next; here each is a group of its own.
_wire_edges(groups) ==
    UNION {groups[i] \X groups[i + 1] : i \in 1 .. Len(groups) - 1}

Edges(r) == LET chain == build_graph(r)
            IN  _wire_edges([i \in 1 .. Len(chain) |-> {chain[i]}]) \cup {<<"finalize", "end">>}

Successor(node) == CHOOSE n \in ActionKinds \cup {"condition_check", "finalize", "end"} :
                       <<node, n>> \in Edges(rule)

\* interrupt_after: a parsed graph pauses behind every wait node it has, the
\* canonical one only if the rule, as it is now, has a delay.
Pauses(node) ==
    \/ node = "approval"
    \/ node = "wait" /\ (rule.parsed \/ rule.timing)

-----------------------------------------------------------------------------
(* Drivers                                                                 *)

NoContent == [text |-> "none", image |-> "none"]

initial_state == [status |-> "running", at |-> "none", wait |-> "none", checked |-> "none",
                  decision |-> "none", publish |-> "none", content |-> NoContent]

Init ==
    /\ rule \in ParsedRules \cup StoredRules
    /\ live \in BOOLEAN
    /\ row = "none"
    /\ next = "supervisor"
    /\ state = initial_state
    /\ driver = "none"
    /\ stage = "node" /\ todo = {} /\ ok = TRUE
    /\ sent = [a \in Accounts |-> 0]
    /\ entry = "none"
    /\ firers = {} /\ overtaken = FALSE
    /\ drafts = 0
    /\ others = {}
    /\ timer = "none"
    /\ asked = {}
    /\ shown = {}
    /\ faults = 0

Fault == faults < MaxFaults /\ faults' = faults + 1
Sound == UNCHANGED faults

start_execution ==
    /\ row = "none"
    /\ row' = "running"
    /\ driver' = "thread"
    /\ UNCHANGED <<rule, live, next, state, volatile, world, timer, asked, faults>>

\* A graph that had come to its end before its driver died has no node left to run.
Resumed == IF next = "end" THEN "saving" ELSE "node"

\* The worker, once the schedule of the wait has fired; it stamps the schedule
\* when the invocation has returned, so after a crash it comes back.
_do_resume_after_wait ==
    /\ row = "waiting_timer"
    /\ timer = "pending"
    /\ driver = "none" /\ "worker" \notin firers
    /\ driver' = "worker"
    /\ stage' = Resumed
    /\ state' = [state EXCEPT !.status = "running", !.wait = "resolved"]
    /\ UNCHANGED <<rule, live, row, next, todo, ok, world, timer, asked, faults>>

\* POST /rule-executions/{id}/resume, and with "approved" POST /approvals/{id}/approve.
\* Nothing reads the content of an edited approval.
resume_execution(decision) ==
    /\ row = "waiting_human"
    /\ driver = "none" /\ "api" \notin firers
    /\ driver' = "operator"
    /\ stage' = Resumed
    /\ state' = [state EXCEPT !.status = "running", !.decision = decision]
    /\ UNCHANGED <<rule, live, row, next, todo, ok, world, timer, asked, faults>>

\* The status each driver derives from the snapshot when the graph has stopped.
Outcome ==
    IF next = "end"
    THEN IF state.status = "running" /\ driver # "operator" THEN "completed" ELSE state.status
    ELSE CASE driver = "thread"   -> IF state.at = "wait" /\ state.wait = "set"
                                     THEN "waiting_timer" ELSE "waiting_human"
           [] driver = "worker"   -> IF state.decision \in {"none", "pending"}
                                     THEN "waiting_human" ELSE state.status
           [] driver = "operator" -> state.status

\* The traces and the row, then for the worker the stamp of the schedule.
SaveOutcome ==
    /\ stage = "saving"
    /\ row' = Outcome
    /\ timer' = IF driver = "worker" THEN "done" ELSE timer
    /\ driver' = "none"
    /\ stage' = "node"
    /\ UNCHANGED <<rule, live, next, state, todo, ok, world, asked, faults>>

\* A node raised: the caller writes the row and is done.
Raise ==
    /\ row' = "failed"
    /\ timer' = IF driver = "worker" THEN "done" ELSE timer
    /\ driver' = "none"
    /\ stage' = "node"
    /\ UNCHANGED <<rule, live, next, state, todo, ok, world, asked, faults>>

-----------------------------------------------------------------------------
(* Nodes                                                                   *)

At(node) == driver # "none" /\ stage = "node" /\ next = node

\* The node returns s: LangGraph stores the checkpoint and goes on, or stops.
Return(node, s) ==
    /\ state' = [s EXCEPT !.at = node]
    /\ next' = Successor(node)
    /\ stage' = IF Pauses(node) \/ Successor(node) = "end" THEN "saving" ELSE "node"

supervisor_node ==
    /\ At("supervisor")
    /\ Return("supervisor", [state EXCEPT !.status = "running"])
    /\ UNCHANGED <<rule, live, row, driver, todo, ok, world, timer, asked, faults>>

\* The copy in the wait action goes before the delay of the rule.
Delay == rule.config \/ rule.timing

\* A failed create_schedule is swallowed.
wait_node ==
    /\ At("wait")
    /\ IF Delay
       THEN /\ Return("wait", [state EXCEPT !.status = "waiting_timer", !.wait = "set"])
            /\ \/ timer' = "pending" /\ Sound
               \/ UNCHANGED timer /\ Fault
       ELSE /\ Return("wait", state)
            /\ UNCHANGED <<timer, faults>>
    /\ UNCHANGED <<rule, live, row, driver, todo, ok, world, asked>>

\* A failed check cancels nothing: it leaves a mark for the publishing nodes.
condition_check_node ==
    /\ At("condition_check")
    /\ \/ Return("condition_check", [state EXCEPT !.checked = "yes"])
       \/ Return("condition_check", [state EXCEPT !.checked = "no", !.status = "cancelled"])
    /\ UNCHANGED <<rule, live, row, driver, todo, ok, world, timer, asked, faults>>

\* The template that is found: none, one without a picture, or one whose picture
\* can still be fetched.
_fetch_template_from_mysql == {"none", "bare", "pictured"}

\* The text of the model, or else the static one of the template.
_ai_generate_caption == {"ai", "static"}

\* The picture of the pipeline, or else that of the template.
_generate_image_via_pipeline(template) ==
    {"generated", IF template = "pictured" THEN "template" ELSE "none"}

\* Everything falls back on something poorer; only a price that is no number is
\* not caught.
content_generator_node ==
    /\ At("generate_content")
    /\ \/ /\ \E template \in _fetch_template_from_mysql, text \in _ai_generate_caption :
                 \E image \in _generate_image_via_pipeline(template) :
                     Return("generate_content",
                            [state EXCEPT !.content = [text |-> text, image |-> image]])
          /\ UNCHANGED <<rule, live, row, driver, todo, ok, world, timer, asked, faults>>
       \/ Raise

\* The level of risk is reported, and no edge depends on it.
risk_analyzer_node ==
    /\ At("risk_check")
    /\ Return("risk_check", state)
    /\ UNCHANGED <<rule, live, row, driver, todo, ok, world, timer, asked, faults>>

\* A decision that is already there is taken, and nobody is asked; a failed
\* create_approval_request is swallowed.
approval_gate_node ==
    /\ At("approval")
    /\ IF state.decision \in {"approved", "rejected", "edited"}
       THEN Return("approval", state) /\ UNCHANGED <<asked, faults>>
       ELSE /\ Return("approval", [state EXCEPT !.status = "waiting_human",
                                                !.decision = "pending"])
            /\ \/ asked' = asked \cup {state.content} /\ Sound
               \/ UNCHANGED asked /\ Fault
    /\ UNCHANGED <<rule, live, row, driver, todo, ok, world, timer>>

Post(a) == /\ sent' = [sent EXCEPT ![a] = @ + 1]
           /\ shown' = shown \cup {state.content}

\* A real publication for the account of a credential, where there is one: whatever
\* comes of it, a refusal or a lost answer, is swallowed.
Attempt == \/ live /\ \E a \in Accounts : Post(a)
           \/ UNCHANGED <<sent, shown>>

\* The canonical publication: after the attempt a tool, which publishes nothing,
\* decides about the success.
publisher_node ==
    /\ At("publish") /\ ~rule.parsed
    /\ IF state.decision = "rejected"
       THEN /\ Return("publish", [state EXCEPT !.publish = "no", !.status = "cancelled"])
            /\ UNCHANGED <<others, sent, shown>>
       ELSE /\ Attempt
            /\ \E success \in {"yes", "no"} :
                   Return("publish", [state EXCEPT !.publish = success])
            /\ others' = others \cup {"tool"}
    /\ UNCHANGED <<rule, live, row, driver, todo, ok, entry, drafts, polls, timer, asked, faults>>

Effect(node, what, if) ==
    /\ At(node)
    /\ Return(node, state)
    /\ others' = IF if THEN others \cup {what} ELSE others
    /\ UNCHANGED <<rule, live, row, driver, todo, ok, sent, shown, entry, drafts, polls, timer, asked, faults>>

\* The coupon comes before the gate, the notice whatever the publication came to.
create_coupon_node   == Effect("create_coupon", "coupon", TRUE)
notify_customer_node == Effect("notify_customer", "notice", TRUE)
monitor_node         == Effect("monitor", "monitor", state.publish = "yes")

finalize_node ==
    /\ At("finalize")
    /\ Return("finalize",
              [state EXCEPT !.status = IF state.decision = "rejected" THEN "cancelled"
                                       ELSE IF state.publish = "no" THEN "failed"
                                       ELSE "completed"])
    /\ UNCHANGED <<rule, live, row, driver, todo, ok, world, timer, asked, faults>>

-----------------------------------------------------------------------------
(* publish_post, publish_story and publish_banner: the accounts one after  *)
(* the other, then the calendar, then the card, then the checkpoint.       *)

\* Mutation: the mark of the conditions is not looked at.
BeginUnchecked ==
    /\ At("publish") /\ rule.parsed
    /\ stage' = "calling"
    /\ todo' = IF rule.adapter THEN rule.accounts ELSE {}
    /\ ok' = (rule.adapter \/ rule.accounts = {})
    /\ UNCHANGED <<rule, live, row, next, state, driver, world, timer, asked, faults>>

\* How all three begin.  Without accounts, or without a webhook, a draft counts as a
\* success; without an adapter for the channel nothing is tried.
BeginPublishing ==
    /\ At("publish") /\ rule.parsed
    /\ IF state.checked = "no"
       THEN Return("publish", state) /\ UNCHANGED <<todo, ok>>
       ELSE /\ stage' = "calling"
            /\ todo' = IF rule.adapter THEN rule.accounts ELSE {}
            /\ ok' = (rule.adapter \/ rule.accounts = {})
            /\ UNCHANGED <<next, state>>
    /\ UNCHANGED <<rule, live, row, driver, world, timer, asked, faults>>

publish_post_node   == rule.publish = "publish_post" /\ BeginPublishing
publish_banner_node == rule.publish = "publish_banner" /\ BeginPublishing

\* The feature flag guards the adapters, not the webhook.
Disabled == ~live /\ rule.publish # "publish_banner"

\* _publish_via_adapter for one account: published, refused (a missing credential,
\* a test handle, an HTTP error), or published while the answer is lost.  A
\* disabled adapter is no failure.
_publish_via_adapter(a) ==
    /\ stage = "calling" /\ a \in todo
    /\ todo' = todo \ {a}
    /\ \/ /\ Disabled
          /\ UNCHANGED <<sent, shown, ok, faults>>
       \/ /\ ~Disabled
          /\ \/ Post(a) /\ UNCHANGED ok /\ Sound
             \/ UNCHANGED <<sent, shown>> /\ ok' = FALSE /\ Sound
             \/ Post(a) /\ ok' = FALSE /\ Fault
    /\ UNCHANGED <<rule, live, row, next, state, driver, stage, entry, drafts, others,
                   polls, timer, asked>>

\* _create_calendar_entry, first statement: a record that is pending and due.  An
\* error is swallowed, and the second statement with it.  A poll that has read an
\* earlier record of the execution is left to that one.
_create_calendar_entry ==
    /\ stage = "calling" /\ todo = {}
    /\ \/ entry' = "pending" /\ firers' = {} /\ overtaken' = FALSE /\ stage' = "marking" /\ Sound
       \/ UNCHANGED <<entry, polls>> /\ stage' = "drafting" /\ Fault
    /\ UNCHANGED <<rule, live, row, next, state, driver, todo, ok, sent, shown, drafts, others,
                   timer, asked>>

\* The mark of the node, whatever the record says by now.
Marks(status) == entry' = status /\ overtaken' = FALSE

\* Mutation: the record is marked as done without a look at the result.
MarkFired ==
    /\ stage = "marking"
    /\ Marks("fired")
    /\ stage' = "drafting"
    /\ Sound
    /\ UNCHANGED <<rule, live, row, next, state, driver, todo, ok, sent, shown, drafts, others,
                   firers, timer, asked>>

\* Second statement.
MarkCalendarEntry ==
    /\ stage = "marking"
    /\ \/ Marks(IF ok THEN "fired" ELSE "failed") /\ Sound
       \/ UNCHANGED <<entry, overtaken>> /\ Fault
    /\ stage' = "drafting"
    /\ UNCHANGED <<rule, live, row, next, state, driver, todo, ok, sent, shown, drafts, others,
                   firers, timer, asked>>

\* fire_due_schedules, in the worker between two resumptions and in POST
\* /schedules/fire-due between two requests of the operator: the due records are read
\* as they are now.
due_schedules(f) ==
    /\ entry = "pending" /\ f \notin firers
    /\ f = "worker" => driver # "worker"
    /\ f = "api" => driver # "operator"
    /\ firers' = firers \cup {f}
    /\ UNCHANGED <<rule, live, row, next, state, driver, volatile, sent, shown, entry, drafts,
                   others, overtaken, timer, asked, faults>>

\* Each of them becomes a workflow and is marked by its id: nobody looks whether it is
\* still pending.  Either of the two statements may fail, and the mark of the failure.
fire_schedule(f) ==
    /\ f \in firers
    /\ firers' = firers \ {f}
    /\ \/ /\ entry' = "fired" /\ others' = others \cup {"workflow"}
          /\ overtaken' = TRUE /\ Sound
       \/ /\ entry' = "failed" /\ UNCHANGED others
          /\ overtaken' = TRUE /\ Fault
       \/ /\ others' \in {others, others \cup {"workflow"}}
          /\ UNCHANGED <<entry, overtaken>> /\ Fault
    /\ UNCHANGED <<rule, live, row, next, state, driver, volatile, sent, shown, drafts,
                   timer, asked>>

\* An error is swallowed; the node returns.
_save_to_social_documents ==
    /\ stage = "drafting"
    /\ \/ drafts' = drafts + 1 /\ Sound
       \/ UNCHANGED drafts /\ Fault
    /\ Return("publish", [state EXCEPT !.publish = IF ok THEN "yes" ELSE "no"])
    /\ UNCHANGED <<rule, live, row, driver, todo, ok, sent, shown, entry, others, polls, timer,
                   asked>>

\* The process of the driver dies; the graph can be resumed from its checkpoint as
\* long as the row says that it waits.  The canonical publication may have got as far
\* as its post.
Crash ==
    /\ driver # "none"
    /\ Fault
    /\ driver' = "none"
    /\ stage' = "node" /\ todo' = {} /\ ok' = TRUE
    /\ IF At("publish") /\ ~rule.parsed /\ state.decision # "rejected"
       THEN Attempt ELSE UNCHANGED <<sent, shown>>
    /\ UNCHANGED <<rule, live, row, next, state, entry, drafts, others, polls, timer, asked>>

-----------------------------------------------------------------------------

Invocation ==
    \/ supervisor_node \/ wait_node \/ condition_check_node \/ content_generator_node
    \/ risk_analyzer_node \/ approval_gate_node \/ publisher_node \/ create_coupon_node
    \/ notify_customer_node \/ monitor_node \/ finalize_node
    \/ publish_post_node \/ publish_banner_node
    \/ \E a \in Accounts : _publish_via_adapter(a)
    \/ _create_calendar_entry \/ MarkCalendarEntry \/ _save_to_social_documents
    \/ SaveOutcome

Next ==
    \/ start_execution
    \/ _do_resume_after_wait
    \/ \E decision \in {"approved", "rejected", "edited"} : resume_execution(decision)
    \/ Invocation
    \/ \E f \in {"worker", "api"} : due_schedules(f) \/ fire_schedule(f)
    \/ Crash

Spec == Init /\ [][Next]_vars

-----------------------------------------------------------------------------
(* Properties                                                              *)

TypeOK ==
    /\ rule \in ParsedRules \cup StoredRules
    /\ row \in {"none", "running", "waiting_timer", "waiting_human",
                "completed", "cancelled", "failed"}
    /\ next \in ActionKinds \cup {"supervisor", "condition_check", "finalize", "end"}
    /\ stage \in {"node", "calling", "marking", "drafting", "saving"}
    /\ todo \subseteq rule.accounts
    /\ asked \cup shown \subseteq
           [text: {"none", "ai", "static"}, image: {"none", "generated", "template"}]
    /\ sent \in [Accounts -> 0 .. 1 + MaxFaults]
    /\ entry \in {"none", "pending", "fired", "failed"}
    /\ firers \subseteq {"worker", "api"} /\ overtaken \in BOOLEAN
    /\ drafts \in 0 .. 1 + MaxFaults
    /\ timer \in {"none", "pending", "done"}

Published == {a \in Accounts : sent[a] > 0}

\* A rule whose conditions do not hold leaves no trace in the world, whichever
\* driver runs the publishing node, and however often it is run again: no post,
\* no record in the calendar, no card.
ConditionsHold == state.checked = "no" => Published = {} /\ entry = "none" /\ drafts = 0

\* The row of an execution that is over says whether every account was served or none
\* was to be, and so does the record in the calendar, unless a poll has overtaken it:
\* one that read the record before the node marked it marks it again, as fired, also
\* when every account refused.  Nothing else may part the two.
RecordTells ==
    faults = 0 /\ row \in {"completed", "failed"} /\ entry # "none" =>
        LET all == rule.accounts = Published \/ (Disabled /\ rule.adapter) IN
        /\ row = "completed" <=> all
        /\ entry = IF all \/ overtaken THEN "fired" ELSE "failed"

\* Whoever waits for a human has asked one, for a rule that was not edited.  And what
\* was asked about is what goes out: the content is generated before the gate and kept
\* in the checkpoint, over crashes and resumes; once a question was asked nothing but
\* what it shows is posted, and nothing was before it, by either way of publishing.
AskedGoesOut ==
    /\ faults = 0 /\ ~Edited(rule) /\ row = "waiting_human" => asked # {}
    /\ asked # {} => shown \subseteq asked

\* nodes.py:1371-1372, 1635-1637: a rejection cancels the publication, and the
\* execution ends as rejected by a human; so after it nothing is published.
RejectedNeverPublishes ==
    [][state.decision = "rejected" => sent' = sent]_vars
=============================================================================
