------------------------------ MODULE MCServices ------------------------------
(***************************************************************************)
(* The components that share no row with one another or with the core, for *)
(* TLC: every behaviour is one of one component, which "part" names, and   *)
(* leaves the variables of the others alone.                               *)
(***************************************************************************)
EXTENDS Naturals, Sequences, FiniteSets, TLC

CONSTANTS
    Planners, Api, Keys, Campaigns, HourlyLimit, CampaignLimit, MaxPlans, MaxAsked, MaxHours,
    MaxMedia,
    Threads, MaxRules, MaxStarts,
    Handlers, MaxWorkflows,
    MaxCount, ImageTries,
    Callers, Workers, MaxRetries, Threshold, MaxCalls,
    Products, Limit, MaxSessions, MaxQuestions, MaxIncidents,
    MaxMessages,
    MaxRequests, MaxFaults

\* What the proofs need of the constants: nothing of the sizes of the sets.
ASSUME ServicesAssumption ==
    /\ Api \notin Planners
    /\ HourlyLimit \in Nat /\ CampaignLimit \in Nat /\ MaxRules \in Nat
    /\ MaxSessions \in Nat \ {0}
    /\ MaxCount \in Nat /\ ImageTries \in Nat \ {0}
    /\ MaxRetries \in Nat /\ Threshold \in Nat
    /\ "none" \notin Products

VARIABLES
    part,  \* the component of this behaviour
    job, request, requests, overlap, faults,  \* of several components
    proposal, taken, counter, cooling, hour, made, asked, inHour, today, hot, excused,
    phase, results, errors, live, runs, unsure,
    rule, last, waiting, starts, ended, reopened,
    store, workflow, post, edited, overtaken,
    answer, queue, status, stored, charged, generated, begun,
    calls, told, backlog, strays, breaker, streak,
    campaign, work, archived,
    open, turns, cache, recent, product, index, sync, questions, meant,
    thread

Planning == INSTANCE Planning
Publishing == INSTANCE Publishing
Rules == INSTANCE Rules
Documents == INSTANCE Documents
Generation == INSTANCE Generation
Sandbox == INSTANCE Sandbox
CampaignLifecycle == INSTANCE CampaignLifecycle
Conversation == INSTANCE Conversation
CustomerThreads == INSTANCE CustomerThreads

planningVars == <<proposal, taken, counter, cooling, hour, made, asked, inHour, today, hot, excused>>
publishingVars == <<phase, results, errors, live, runs, unsure>>
rulesVars == <<rule, last, waiting, starts, ended, reopened>>
documentsVars == <<store, workflow, post, edited, overtaken>>
generationVars == <<answer, queue, status, stored, charged, generated, begun>>
sandboxVars == <<calls, told, backlog, strays, breaker, streak>>
campaignVars == <<campaign, work, archived>>
chatVars == <<open, turns, cache, recent, product, index, sync, questions, meant>>
sharedVars == <<job, request, requests, overlap, faults>>
vars == <<part, sharedVars, planningVars, publishingVars, rulesVars, documentsVars,
          generationVars, sandboxVars, campaignVars, chatVars, thread>>

-----------------------------------------------------------------------------
\* The variables of a component that is not there are zero.
NoPlanning ==
    /\ proposal = 0 /\ taken = 0 /\ counter = 0 /\ cooling = 0 /\ hour = 0
    /\ made = 0 /\ asked = 0 /\ inHour = 0 /\ today = 0 /\ hot = 0 /\ excused = 0
NoPublishing ==
    phase = 0 /\ results = 0 /\ errors = 0 /\ live = 0 /\ runs = 0 /\ unsure = 0
NoRules ==
    rule = 0 /\ last = 0 /\ waiting = 0 /\ starts = 0 /\ ended = 0 /\ reopened = 0
NoDocuments == store = 0 /\ workflow = 0 /\ post = 0 /\ edited = 0 /\ overtaken = 0
NoGeneration ==
    /\ answer = 0 /\ queue = 0 /\ status = 0 /\ stored = 0
    /\ charged = 0 /\ generated = 0 /\ begun = 0
NoSandbox ==
    calls = 0 /\ told = 0 /\ backlog = 0 /\ strays = 0 /\ breaker = 0 /\ streak = 0
NoCampaign == campaign = 0 /\ work = 0 /\ archived = 0
NoChat ==
    /\ open = 0 /\ turns = 0 /\ cache = 0 /\ recent = 0
    /\ product = 0 /\ index = 0 /\ sync = 0 /\ questions = 0 /\ meant = 0

HasRequest == {"planning", "publishing", "generation"}
HasRequests == {"rules", "campaigns"}
HasFaults == {"publishing", "rules", "generation", "campaigns", "chat", "threads"}

Init ==
    /\ part \in {"planning", "publishing", "rules", "documents", "generation", "sandbox",
                 "campaigns", "chat", "threads"}
    /\ IF part = "planning" THEN Planning!Init ELSE NoPlanning
    /\ IF part = "publishing" THEN Publishing!Init ELSE NoPublishing
    /\ IF part = "rules" THEN Rules!Init ELSE NoRules
    /\ IF part = "documents" THEN Documents!Init ELSE NoDocuments
    /\ IF part = "generation" THEN Generation!Init ELSE NoGeneration
    /\ IF part = "sandbox" THEN Sandbox!Init ELSE NoSandbox
    /\ IF part = "campaigns" THEN CampaignLifecycle!Init ELSE NoCampaign
    /\ IF part = "chat" THEN Conversation!Init ELSE NoChat
    /\ IF part = "threads" THEN CustomerThreads!Init /\ job = 0 ELSE thread = 0
    /\ IF part \in HasRequest THEN TRUE ELSE request = 0
    /\ IF part \in HasRequests THEN TRUE ELSE requests = 0 /\ overlap = FALSE
    /\ IF part \in HasFaults THEN TRUE ELSE faults = 0

\* A step of one component.
Only(p) ==
    /\ part = p
    /\ UNCHANGED part
    /\ IF p = "planning" THEN TRUE ELSE UNCHANGED planningVars
    /\ IF p = "publishing" THEN TRUE ELSE UNCHANGED publishingVars
    /\ IF p = "rules" THEN TRUE ELSE UNCHANGED rulesVars
    /\ IF p = "documents" THEN TRUE ELSE UNCHANGED documentsVars
    /\ IF p = "generation" THEN TRUE ELSE UNCHANGED generationVars
    /\ IF p = "sandbox" THEN TRUE ELSE UNCHANGED sandboxVars
    /\ IF p = "campaigns" THEN TRUE ELSE UNCHANGED campaignVars
    /\ IF p = "chat" THEN TRUE ELSE UNCHANGED chatVars
    /\ IF p = "threads" THEN UNCHANGED job ELSE UNCHANGED thread
    /\ IF p \in HasRequest THEN TRUE ELSE UNCHANGED request
    /\ IF p \in HasRequests THEN TRUE ELSE UNCHANGED <<requests, overlap>>
    /\ IF p \in HasFaults THEN TRUE ELSE UNCHANGED faults

NextPlanning   == Only("planning") /\ Planning!Next
NextPublishing == Only("publishing") /\ Publishing!Next
NextRules      == Only("rules") /\ Rules!Next
NextDocuments  == Only("documents") /\ Documents!Next
NextGeneration == Only("generation") /\ Generation!Next
NextSandbox    == Only("sandbox") /\ Sandbox!Next
NextCampaign   == Only("campaigns") /\ CampaignLifecycle!Next
NextChat       == Only("chat") /\ Conversation!Next
NextThread     == Only("threads") /\ CustomerThreads!Next

Next == \/ NextPlanning \/ NextPublishing \/ NextRules \/ NextDocuments \/ NextGeneration
        \/ NextSandbox \/ NextCampaign \/ NextChat \/ NextThread

Spec == Init /\ [][Next]_vars

Permutable == Permutations(Products)

\* What distinguishes two states: the Views of the components leave out what neither their
\* steps nor their properties depend on.
View == CASE part = "planning" -> <<part, Planning!View>>
          [] part = "documents" -> <<part, Documents!View>>
          [] part = "sandbox" -> <<part, Sandbox!View>>
          [] part = "chat" -> <<part, Conversation!View>>
          [] OTHER -> vars

-----------------------------------------------------------------------------
\* Each property of a component, for the behaviours of it.

\* The limits of safety_service hold for what was checked alone.
LimitsHold == part = "planning" => Planning!LimitsHold

\* Every proposal of a planner is settled, and one approval buys one workflow at most.
ProposalsSettleOnce == part = "planning" => Planning!ProposalsSettleOnce

\* One delivery of a request publishes no medium twice.
NothingTwice == part = "publishing" => Publishing!NothingTwice

\* What publish_media answers of each channel is true.
AnswersHold == part = "publishing" => Publishing!AnswersHold

\* An event never starts two versions of one rule.
OneVersionServes == part = "rules" => Rules!OneVersionServes

\* The counters of a rule are its executions that have ended.
OutcomesCounted == part = "rules" => Rules!OutcomesCounted

\* A workflow of a store and its scheduled post tell the same story.
WorkflowAndPostAgree == part = "documents" => Documents!WorkflowAndPostAgree

\* Retries and deliveries bound the calls one request costs.
WorkIsBounded == part = "generation" => Generation!WorkIsBounded

\* What a user is charged for is in the storage.
PaidIsDelivered == part = "generation" => Generation!PaidIsDelivered

\* The sandbox's answer tells what the tries of a tool did.
AnswersTellOfRuns == part = "sandbox" => Sandbox!AnswersTellOfRuns

\* A campaign runs its course behind its workflow and its task.
CampaignSettles == part = "campaigns" => CampaignLifecycle!CampaignSettles

\* "This product" is what the user last spoke of in the session.
TopicKept == part = "chat" => Conversation!TopicKept

\* What the chat answers rests on what was asked and what was found.
AnswersRest == part = "chat" => Conversation!AnswersRest

\* The status of a customer's thread is what its messages make it.
StatusFollowsLog == part = "threads" => CustomerThreads!StatusFollowsLog
=============================================================================
