----------------------------- MODULE ServicesProofs -----------------------------
(***************************************************************************)
(* Proofs about the components that MCServices puts side by side: the      *)
(* campaigns, the rows of a store, the publications, the chat, the         *)
(* sandbox, the threads with customers and the requests for media.  Every  *)
(* one has an inductive invariant of its own, which holds in the           *)
(* behaviours of that component.                                           *)
(***************************************************************************)
EXTENDS MCServices, FiniteSetTheorems, WellFoundedInduction, TLAPS

\* The steps of a behaviour are those of its component.
LEMMA StepOfPart ==
    ASSUME [Next]_vars
    PROVE  /\ part' = part
           /\ part = "campaigns" =>
                  CampaignLifecycle!Next \/ UNCHANGED CampaignLifecycle!vars
           /\ part = "documents" => Documents!Next \/ UNCHANGED Documents!vars
           /\ part = "rules" => Rules!Next \/ UNCHANGED Rules!vars
           /\ part = "planning" => Planning!Next \/ UNCHANGED Planning!vars
           /\ part = "publishing" => Publishing!Next \/ UNCHANGED Publishing!vars
           /\ part = "sandbox" => Sandbox!Next \/ UNCHANGED Sandbox!vars
           /\ part = "generation" => Generation!Next \/ UNCHANGED Generation!vars
           /\ part = "threads" => CustomerThreads!Next \/ UNCHANGED CustomerThreads!vars
           /\ part = "chat" => Conversation!Next \/ UNCHANGED Conversation!vars
<1> USE DEF Only, NextPlanning, NextPublishing, NextRules, NextDocuments, NextGeneration,
            NextSandbox, NextCampaign, NextChat, NextThread
<1>1. CASE Next
  BY <1>1 DEF Next
<1>2. CASE UNCHANGED vars
  BY <1>2
  DEF vars, sharedVars, planningVars, publishingVars, rulesVars, documentsVars, campaignVars, chatVars,
      CampaignLifecycle!vars, Documents!vars, Rules!vars, Planning!vars, Publishing!vars,
      Conversation!vars, Conversation!shopVars, Sandbox!vars, Generation!vars,
      CustomerThreads!vars, generationVars, sandboxVars
<1> QED BY <1>1, <1>2

-----------------------------------------------------------------------------
(* A campaign: nobody who has read is overtaken                            *)

CampaignStatuses == {"none", "draft", "scheduled", "live", "paused", "completed", "archived"}

CampaignType ==
    /\ campaign \in [status: CampaignStatuses, started: BOOLEAN, ended: BOOLEAN]
    /\ work \in {"none", "planned", "task", "over", "lost"}
    /\ job \in [CampaignLifecycle!Processes ->
                   [pc: {"idle", "check", "write"},
                    target: {"none", "live", "paused", "completed", "archived"},
                    stamp: BOOLEAN]]
    /\ archived \in BOOLEAN /\ overlap \in BOOLEAN
    /\ faults \in Nat

\* Who is at work, and on what.
CampaignJobs ==
    /\ campaign.status = "none" =>
           work = "none" /\ \A p \in CampaignLifecycle!Processes : job[p].pc = "idle"
    /\ job["worker"].pc # "idle" => work = "planned" /\ job["worker"].target = "live"
    /\ job["executor"].pc # "idle" => work = "task" /\ job["executor"].target = "completed"
    /\ job["api"].pc # "idle" =>
           \/ job["api"].target = "archived"
           \/ job["api"].target = "paused" /\ job["api"].pc = "write" /\ ~job["api"].stamp

\* What a process has read is still so.
ReadIsTrue ==
    /\ job["worker"].pc # "idle" => job["worker"].stamp = ~campaign.started
    /\ job["executor"].pc # "idle" => job["executor"].stamp = ~campaign.ended
    /\ job["api"].pc # "idle" /\ job["api"].target = "archived" =>
           job["api"].stamp =
               (~campaign.ended /\ campaign.status \notin {"draft", "scheduled"})
    /\ \A p \in CampaignLifecycle!Processes :
           job[p].pc = "write" => CampaignLifecycle!_can_transition(job[p].target)

CampaignInv ==
    /\ CampaignType /\ CampaignJobs
    /\ ~overlap =>
           /\ CampaignLifecycle!CampaignSettles
           /\ ReadIsTrue
           /\ campaign.started => campaign.status \notin {"none", "draft", "scheduled"}
           /\ work = "task" /\ faults = 0 =>
                  campaign.status \in {"live", "paused", "completed", "archived"}


\* A function changed at one place keeps its type.
LEMMA ExceptType ==
    ASSUME NEW S, NEW T, NEW f \in [S -> T], NEW x, NEW v \in T
    PROVE  [f EXCEPT ![x] = v] \in [S -> T]
OBVIOUS

\* A transition that has read keeps the types of campaigns.
LEMMA LookType ==
    ASSUME CampaignType, NEW p \in CampaignLifecycle!Processes,
           NEW target \in {"none", "live", "paused", "completed", "archived"},
           NEW final, NEW stamp \in BOOLEAN, CampaignLifecycle!Look(p, target, final, stamp),
           UNCHANGED <<campaign, archived, overlap, faults>>
    PROVE  CampaignType'
<1>1. [pc |-> "check", target |-> target, stamp |-> stamp] \in
          [pc: {"idle", "check", "write"},
           target: {"none", "live", "paused", "completed", "archived"}, stamp: BOOLEAN]
  OBVIOUS
<1>2. work' \in {"none", "planned", "task", "over", "lost"}
  BY DEF CampaignType, CampaignLifecycle!Look, CampaignLifecycle!Returns,
         CampaignLifecycle!After, CampaignLifecycle!Processes
<1>3. job' = [job EXCEPT ![p] = CampaignLifecycle!Idle] \/
      job' = [job EXCEPT ![p] = [pc |-> "check", target |-> target, stamp |-> stamp]]
  BY DEF CampaignLifecycle!Look, CampaignLifecycle!Returns
<1>4. CampaignLifecycle!Idle \in
          [pc: {"idle", "check", "write"},
           target: {"none", "live", "paused", "completed", "archived"}, stamp: BOOLEAN]
  BY DEF CampaignLifecycle!Idle
<1> QED BY <1>1, <1>2, <1>3, <1>4 DEF CampaignType

\* Every step keeps the invariant of campaigns.
LEMMA CampaignStep ==
    ASSUME CampaignInv, CampaignLifecycle!Next
    PROVE  CampaignInv'
<1> USE DEF CampaignInv, CampaignType, CampaignStatuses, CampaignJobs, ReadIsTrue,
            CampaignLifecycle!CampaignSettles, CampaignLifecycle!Processes,
            CampaignLifecycle!_can_transition,
            CampaignLifecycle!At, CampaignLifecycle!Idle, CampaignLifecycle!Fault,
            CampaignLifecycle!Request, CampaignLifecycle!Look, CampaignLifecycle!Returns,
            CampaignLifecycle!After
<1>1. CASE CampaignLifecycle!_attach_campaign \/ CampaignLifecycle!post_campaign
  BY <1>1
  DEF CampaignLifecycle!_attach_campaign, CampaignLifecycle!post_campaign,
      CampaignLifecycle!create_campaign
<1>2. CASE CampaignLifecycle!launch_campaign
  <2>0. (~campaign.started) \in BOOLEAN
    OBVIOUS
  <2>1. CampaignType'
    BY <1>2, <2>0, LookType DEF CampaignLifecycle!launch_campaign
  <2> USE DEF CampaignLifecycle!launch_campaign
  <2>2. CampaignJobs'
    BY <1>2
  <2>3. ~overlap => ReadIsTrue'
    <3>1. \/ job'["worker"].pc = "idle"
          \/ /\ job'["worker"].pc = "check" /\ job'["worker"].target = "live"
             /\ job'["worker"].stamp = ~campaign.started
      <4>1. \/ job'["worker"] = [pc |-> "idle", target |-> "none", stamp |-> FALSE]
            \/ job'["worker"] = [pc |-> "check", target |-> "live", stamp |-> ~campaign.started]
        BY <1>2
      <4> QED BY ONLY <4>1
    <3>2. \A p \in CampaignLifecycle!Processes \ {"worker"} : job'[p] = job[p]
      BY <1>2
    <3> QED BY <1>2, <3>1, <3>2
  <2>4. ~overlap => CampaignLifecycle!CampaignSettles'
    BY <1>2
  <2> QED BY <1>2, <2>1, <2>2, <2>3, <2>4
<1>3. CASE CampaignLifecycle!complete_campaign
  <2>0. (~campaign.ended) \in BOOLEAN
    OBVIOUS
  <2>1. CampaignType'
    BY <1>3, <2>0, LookType, ZenonT(60) DEF CampaignLifecycle!complete_campaign
  <2> USE DEF CampaignLifecycle!complete_campaign
  <2>2. CampaignJobs'
    BY <1>3
  <2>3. ~overlap => ReadIsTrue'
    <3>1. \/ job'["executor"].pc = "idle"
          \/ /\ job'["executor"].pc = "check" /\ job'["executor"].target = "completed"
             /\ job'["executor"].stamp = ~campaign.ended
      <4>1. \/ job'["executor"] = [pc |-> "idle", target |-> "none", stamp |-> FALSE]
            \/ job'["executor"] = [pc |-> "check", target |-> "completed", stamp |-> ~campaign.ended]
        BY <1>3
      <4> QED BY ONLY <4>1
    <3>2. \A p \in CampaignLifecycle!Processes \ {"executor"} : job'[p] = job[p]
      BY <1>3
    <3> QED BY <1>3, <3>1, <3>2
  <2>4. ~overlap => CampaignLifecycle!CampaignSettles'
    BY <1>3
  <2> QED BY <1>3, <2>1, <2>2, <2>3, <2>4
<1>4. CASE CampaignLifecycle!pause_campaign
  BY <1>4, ZenonT(60) DEF CampaignLifecycle!pause_campaign, CampaignLifecycle!_VALID_TRANSITIONS
<1>5. CASE CampaignLifecycle!archive_campaign
  <2>0. (~campaign.ended /\ campaign.status \notin {"draft", "scheduled"}) \in BOOLEAN
    OBVIOUS
  <2>1. CampaignType'
    BY <1>5, <2>0, LookType DEF CampaignLifecycle!archive_campaign
  <2> USE DEF CampaignLifecycle!archive_campaign
  <2>2. CampaignJobs'
    BY <1>5
  <2>3. ~overlap => ReadIsTrue'
    <3>1. \/ job'["api"].pc = "idle"
          \/ /\ job'["api"].pc = "check" /\ job'["api"].target = "archived"
             /\ job'["api"].stamp = (~campaign.ended /\ campaign.status \notin {"draft", "scheduled"})
      <4>1. \/ job'["api"] = [pc |-> "idle", target |-> "none", stamp |-> FALSE]
            \/ job'["api"] = [pc |-> "check", target |-> "archived", stamp |-> ~campaign.ended /\ campaign.status \notin {"draft", "scheduled"}]
        BY <1>5
      <4> QED BY ONLY <4>1
    <3>2. \A p \in CampaignLifecycle!Processes \ {"api"} : job'[p] = job[p]
      BY <1>5
    <3> QED BY <1>5, <3>1, <3>2
  <2>4. ~overlap => CampaignLifecycle!CampaignSettles'
    BY <1>5
  <2> QED BY <1>5, <2>1, <2>2, <2>3, <2>4
<1>6. ASSUME NEW p \in CampaignLifecycle!Processes, CampaignLifecycle!Check(p)
      PROVE  CampaignInv'
  <2> USE DEF CampaignLifecycle!Check
  <2>0. /\ CampaignLifecycle!Idle \in
               [pc: {"idle", "check", "write"},
                target: {"none", "live", "paused", "completed", "archived"}, stamp: BOOLEAN]
        /\ [job[p] EXCEPT !.pc = "write"] \in
               [pc: {"idle", "check", "write"},
                target: {"none", "live", "paused", "completed", "archived"}, stamp: BOOLEAN]
    OBVIOUS
  <2>1. CampaignType'
    <3>1. \/ job' = [job EXCEPT ![p] = CampaignLifecycle!Idle]
          \/ job' = [job EXCEPT ![p] = [job[p] EXCEPT !.pc = "write"]]
      BY <1>6
    <3> DEFINE J == [pc: {"idle", "check", "write"},
                     target: {"none", "live", "paused", "completed", "archived"},
                     stamp: BOOLEAN]
    <3>2. /\ job \in [CampaignLifecycle!Processes -> J]
          /\ CampaignLifecycle!Idle \in J /\ [job[p] EXCEPT !.pc = "write"] \in J
      BY <2>0
    <3> HIDE DEF J
    <3>3. job' \in [CampaignLifecycle!Processes -> J]
      BY <3>1, <3>2, ExceptType
    <3> QED BY <1>6, <3>3 DEF J
  <2>2. CampaignJobs'
    BY <1>6
  <2>3. ~overlap => ReadIsTrue'
    BY <1>6
  <2>4. ~overlap => CampaignLifecycle!CampaignSettles'
    BY <1>6 DEF CampaignLifecycle!_VALID_TRANSITIONS
  <2>5. work' = "task" /\ faults' = 0 /\ ~overlap =>
            campaign.status \in {"live", "paused", "completed", "archived"}
    BY <1>6 DEF CampaignLifecycle!_VALID_TRANSITIONS
  <2> QED BY <1>6, <2>1, <2>2, <2>3, <2>4, <2>5
<1>7. ASSUME NEW p \in CampaignLifecycle!Processes, CampaignLifecycle!_transition(p)
      PROVE  CampaignInv'
  BY <1>7 DEF CampaignLifecycle!_transition, CampaignLifecycle!_VALID_TRANSITIONS
<1>8. ASSUME NEW p \in CampaignLifecycle!Processes, CampaignLifecycle!Raises(p)
      PROVE  CampaignInv'
  BY <1>8 DEF CampaignLifecycle!Raises
<1>9. ASSUME NEW p \in CampaignLifecycle!Processes, CampaignLifecycle!Dies(p)
      PROVE  CampaignInv'
  BY <1>9 DEF CampaignLifecycle!Dies
<1> QED
  BY <1>1, <1>2, <1>3, <1>4, <1>5, <1>6, <1>7, <1>8, <1>9 DEF CampaignLifecycle!Next


\* A campaign runs its course: archived is final, a start and an end are stamped
\* when they happen, and nothing stays open behind its task; as long as no process
\* writes between another's read and write.
THEOREM CampaignRunsItsCourse == Spec => []CampaignSettles
<1> DEFINE Inv == part = "campaigns" => CampaignInv
<1>1. Init => Inv
  <2>1. Init /\ part = "campaigns" => CampaignLifecycle!Init
    BY DEF Init
  <2>2. CampaignLifecycle!Init => CampaignType
    <3> DEFINE none == [status |-> "none", started |-> FALSE, ended |-> FALSE]
    <3>1. none \in [status: CampaignStatuses, started: BOOLEAN, ended: BOOLEAN]
      BY DEF CampaignStatuses
    <3>2. CampaignLifecycle!Idle \in
              [pc: {"idle", "check", "write"},
               target: {"none", "live", "paused", "completed", "archived"}, stamp: BOOLEAN]
      BY DEF CampaignLifecycle!Idle
    <3> HIDE DEF none
    <3>3. CampaignLifecycle!Init => campaign = none
      BY DEF CampaignLifecycle!Init, none
    <3>4. CampaignLifecycle!Init =>
              job \in [CampaignLifecycle!Processes ->
                         [pc: {"idle", "check", "write"},
                          target: {"none", "live", "paused", "completed", "archived"},
                          stamp: BOOLEAN]]
      BY <3>2 DEF CampaignLifecycle!Init
    <3>5. CampaignLifecycle!Init =>
              work \in {"none", "planned", "task", "over", "lost"} /\ faults \in Nat
      BY DEF CampaignLifecycle!Init
    <3>6. CampaignLifecycle!Init => archived \in BOOLEAN
      BY DEF CampaignLifecycle!Init
    <3>7. CampaignLifecycle!Init => overlap \in BOOLEAN
      BY DEF CampaignLifecycle!Init
    <3> QED BY <3>1, <3>3, <3>4, <3>5, <3>6, <3>7 DEF CampaignType
  <2>3. CampaignLifecycle!Init => CampaignInv
    BY <2>2 DEF CampaignLifecycle!Init, CampaignInv, CampaignJobs, ReadIsTrue,
                CampaignLifecycle!CampaignSettles, CampaignLifecycle!Processes,
                CampaignLifecycle!Idle
  <2> QED BY <2>1, <2>3
<1>2. Inv /\ [Next]_vars => Inv'
  <2> SUFFICES ASSUME Inv, [Next]_vars, part' = "campaigns" PROVE CampaignInv'
    OBVIOUS
  <2>1. part = "campaigns" /\ (CampaignLifecycle!Next \/ UNCHANGED CampaignLifecycle!vars)
    BY StepOfPart
  <2>2. CASE CampaignLifecycle!Next
    BY <2>1, <2>2, CampaignStep
  <2>3. CASE UNCHANGED CampaignLifecycle!vars
    BY <2>1, <2>3
    DEF CampaignLifecycle!vars, CampaignInv, CampaignType, CampaignJobs, ReadIsTrue,
        CampaignLifecycle!CampaignSettles, CampaignLifecycle!_can_transition
  <2> QED BY <2>1, <2>2, <2>3
<1>3. Inv => CampaignSettles
  BY DEF CampaignInv, CampaignSettles, CampaignLifecycle!CampaignSettles
<1> QED BY <1>1, <1>2, <1>3, PTL DEF Spec


-----------------------------------------------------------------------------
(* The rows of a store: every transaction writes both                      *)

\* What a handler has for the pair of rows of a workflow.  It has read the workflow and
\* not yet the post; it will write nothing to either, or to both what belongs together;
\* or it is a rejection that found the post published.  One that a client edited may
\* break up.
WritesPair(h, w) ==
    LET wf == job[h].workflow
        sp == job[h].post IN
    \/ /\ w \in job[h].todo /\ w \notin DOMAIN sp /\ workflow[w] # "none"
       /\ w \in DOMAIN wf => wf[w] \in {"cancelled", "published"}
       /\ job[h].what = "reject" =>
              /\ w \in DOMAIN wf /\ wf[w] = "cancelled"
              /\ post[w] = "published" => w \in overtaken
    \/ w \notin job[h].todo /\ w \notin DOMAIN wf /\ w \notin DOMAIN sp
    \/ /\ w \notin job[h].todo /\ w \in DOMAIN wf /\ w \in DOMAIN sp
       /\ \/ wf[w] = "scheduled" /\ sp[w] = "pending"
          \/ wf[w] = "cancelled" /\ sp[w] = "failed"
          \/ wf[w] = "published" /\ sp[w] = "published"
    \/ /\ w \notin job[h].todo /\ w \in DOMAIN wf /\ w \notin DOMAIN sp
       /\ wf[w] = "cancelled" /\ w \in overtaken /\ post[w] \in {"published", "failed"}

\* What a handler holds is of its kind.
JobOfKind(h) ==
    /\ DOMAIN job[h] = {"what", "store", "workflow", "post", "todo"}
    /\ \A w \in DOMAIN job[h].workflow :
           job[h].workflow[w] \in {"scheduled", "cancelled", "published"}
    /\ IF job[h].what = "edit" THEN DOMAIN job[h].workflow = {} /\ job[h].todo = {}
       ELSE \A w \in Documents!Ids \ edited : WritesPair(h, w)

\* A workflow that is approved is new, and nobody else's.
Fresh ==
    /\ \A h \in Handlers, w \in Documents!Ids :
           w \in DOMAIN job[h].workflow \cup job[h].todo =>
               (workflow[w] = "none" <=> /\ w \in DOMAIN job[h].workflow
                                         /\ job[h].workflow[w] = "scheduled")
    /\ \A g, h \in Handlers, w \in Documents!Ids :
           /\ w \in DOMAIN job[g].workflow /\ w \in DOMAIN job[h].workflow
           /\ job[g].workflow[w] = "scheduled" /\ job[h].workflow[w] = "scheduled"
           => g = h

DocumentsInv ==
    /\ Fresh
    /\ DOMAIN post = Documents!Ids /\ DOMAIN job = Handlers
    /\ workflow \in [Documents!Ids -> {"none", "scheduled", "cancelled", "published"}]
    /\ \A h \in Handlers : JobOfKind(h)
    /\ Documents!WorkflowAndPostAgree

\* A handler goes on: the rows stay.
LEMMA JobStep ==
    ASSUME DocumentsInv, NEW h \in Handlers, NEW j, job' = [job EXCEPT ![h] = j],
           UNCHANGED <<workflow, post, edited, overtaken>>,
           DOMAIN j = {"what", "store", "workflow", "post", "todo"},
           \A w \in DOMAIN j.workflow : j.workflow[w] \in {"scheduled", "cancelled", "published"},
           j.what = "edit" => DOMAIN j.workflow = {} /\ j.todo = {},
           j.what # "edit" => \A w \in Documents!Ids \ edited : WritesPair(h, w)',
           \A w \in Documents!Ids :
               /\ w \in DOMAIN j.workflow \cup j.todo =>
                      (workflow[w] = "none" <=> /\ w \in DOMAIN j.workflow
                                                /\ j.workflow[w] = "scheduled")
               /\ w \in DOMAIN j.workflow /\ j.workflow[w] = "scheduled" =>
                      \A g \in Handlers \ {h} : w \notin DOMAIN job[g].workflow
    PROVE  DocumentsInv'
<1>1. /\ DOMAIN job' = Handlers /\ job'[h] = j
      /\ \A g \in Handlers \ {h} : job'[g] = job[g]
  BY DEF DocumentsInv
<1>2. ASSUME NEW g \in Handlers PROVE JobOfKind(g)'
  <2>1. CASE g = h
    BY <1>1, <2>1 DEF JobOfKind, Documents!Ids
  <2>2. CASE g # h
    BY <1>1, <2>2 DEF JobOfKind, WritesPair, DocumentsInv, Documents!Ids
  <2> QED BY <2>1, <2>2
<1>3. Fresh'
  <2>1. ASSUME NEW g \in Handlers, NEW w \in Documents!Ids,
               w \in DOMAIN job'[g].workflow \cup job'[g].todo
        PROVE  workflow[w] = "none" <=> /\ w \in DOMAIN job'[g].workflow
                                        /\ job'[g].workflow[w] = "scheduled"
    BY <1>1, <2>1 DEF DocumentsInv, Fresh
  <2>2. ASSUME NEW g \in Handlers, NEW k \in Handlers, NEW w \in Documents!Ids,
               w \in DOMAIN job'[g].workflow, w \in DOMAIN job'[k].workflow,
               job'[g].workflow[w] = "scheduled", job'[k].workflow[w] = "scheduled"
        PROVE  g = k
    BY <1>1, <2>2 DEF DocumentsInv, Fresh
  <2> QED BY <2>1, <2>2 DEF Fresh, Documents!Ids
<1> QED
  BY <1>1, <1>2, <1>3 DEF DocumentsInv, Documents!WorkflowAndPostAgree, Documents!Ids

\* A handler that has read for the first time.
LEMMA ReadsStep ==
    ASSUME DocumentsInv, NEW h \in Handlers, NEW what, NEW st, NEW wf, NEW sp, NEW todo,
           Documents!Reads(h, what, st, wf, sp, todo),
           \A w \in DOMAIN wf : wf[w] \in {"scheduled", "cancelled", "published"},
           what = "edit" => DOMAIN wf = {} /\ todo = {},
           what # "edit" =>
               \A w \in Documents!Ids \ edited :
                   \/ /\ w \in todo /\ w \notin DOMAIN sp
                      /\ workflow[w] # "none" /\ post[w] # "published"
                      /\ w \in DOMAIN wf => wf[w] \in {"cancelled", "published"}
                      /\ what = "reject" => w \in DOMAIN wf /\ wf[w] = "cancelled"
                   \/ w \notin todo /\ w \notin DOMAIN wf /\ w \notin DOMAIN sp
                   \/ /\ w \notin todo /\ w \in DOMAIN wf /\ w \in DOMAIN sp
                      /\ wf[w] = "scheduled" /\ sp[w] = "pending",
           \A w \in Documents!Ids :
               /\ w \in DOMAIN wf \cup todo =>
                      (workflow[w] = "none" <=> w \in DOMAIN wf /\ wf[w] = "scheduled")
               /\ w \in DOMAIN wf /\ wf[w] = "scheduled" =>
                      \A g \in Handlers \ {h} : w \notin DOMAIN job[g].workflow
    PROVE  DocumentsInv'
<1> DEFINE j == [what |-> what, store |-> st, workflow |-> wf, post |-> sp, todo |-> todo]
<1>1. job' = [job EXCEPT ![h] = j] /\ UNCHANGED <<workflow, post, edited, overtaken>>
  BY DEF Documents!Reads
<1>2. /\ j.what = what /\ j.workflow = wf /\ j.post = sp /\ j.todo = todo
      /\ DOMAIN j = {"what", "store", "workflow", "post", "todo"}
  OBVIOUS
<1> HIDE DEF j
<1>3. job'[h] = j
  BY <1>1 DEF DocumentsInv
<1>4. what # "edit" => \A w \in Documents!Ids \ edited : WritesPair(h, w)'
  BY <1>1, <1>2, <1>3 DEF WritesPair
<1>5. \A w \in Documents!Ids :
          /\ w \in DOMAIN j.workflow \cup j.todo =>
                 (workflow[w] = "none" <=> w \in DOMAIN j.workflow /\ j.workflow[w] = "scheduled")
          /\ w \in DOMAIN j.workflow /\ j.workflow[w] = "scheduled" =>
                 \A g \in Handlers \ {h} : w \notin DOMAIN job[g].workflow
  BY <1>2
<1>6. \A w \in DOMAIN j.workflow : j.workflow[w] \in {"scheduled", "cancelled", "published"}
  BY <1>2
<1> QED BY <1>1, <1>2, <1>4, <1>5, <1>6, JobStep


\* Every step keeps the invariant of documents.
LEMMA DocumentsStep ==
    ASSUME DocumentsInv, Documents!Next
    PROVE  DocumentsInv'
<1>0. DOMAIN <<>> = {}
  OBVIOUS
<1>a. \A w \in Documents!Ids \ edited :
          w \in Documents!Active => workflow[w] # "none" /\ post[w] # "published"
  BY DEF DocumentsInv, Documents!WorkflowAndPostAgree, Documents!Active
<1>b. \A w \in Documents!Active : w \in Documents!Ids /\ workflow[w] # "none"
  BY DEF Documents!Active
<1>1. ASSUME NEW h \in Handlers, Documents!automation_store_fake_create(h)
      PROVE  DocumentsInv'
  BY <1>0, <1>1, ReadsStep DEF Documents!automation_store_fake_create, Documents!Will
<1>2. ASSUME NEW h \in Handlers, Documents!automation_store_approve(h)
      PROVE  DocumentsInv'
  <2>1. PICK w \in Documents!Ids :
            /\ workflow[w] = "none" /\ \A g \in Handlers : w \notin DOMAIN job[g].workflow
            /\ Documents!Will(h, "approve", "approved", Documents!Rows({w}, "scheduled"), Documents!Rows({w}, "pending"))
    BY <1>2 DEF Documents!automation_store_approve
  <2> DEFINE wf == Documents!Rows({w}, "scheduled")
             sp == Documents!Rows({w}, "pending")
  <2>2. wf = [x \in {w} |-> "scheduled"] /\ sp = [x \in {w} |-> "pending"]
    BY DEF Documents!Rows
  <2> HIDE DEF wf, sp
  <2>3. Documents!Reads(h, "approve", "approved", wf, sp, {})
    BY <2>1 DEF wf, sp, Documents!Will
  <2> QED BY <2>1, <2>2, <2>3, ReadsStep
<1>3. ASSUME NEW h \in Handlers, Documents!automation_store_reject(h)
      PROVE  DocumentsInv'
  <2> DEFINE wf == Documents!Rows(Documents!Active, "cancelled")
  <2>1. /\ wf = [x \in Documents!Active |-> "cancelled"]
        /\ Documents!Reads(h, "reject", "rejected", wf, <<>>, Documents!Active)
    BY <1>3 DEF Documents!automation_store_reject, Documents!Rows
  <2> HIDE DEF wf
  <2> QED BY <1>0, <1>a, <1>b, <2>1, ReadsStep
<1>4. ASSUME NEW h \in Handlers, NEW w \in Documents!Ids,
             Documents!automation_dispatch_publish(h, w)
      PROVE  DocumentsInv'
  <2>1. w \in Documents!Active /\ Documents!Reads(h, "dispatch", "kept", <<>>, <<>>, {w})
    BY <1>4 DEF Documents!automation_dispatch_publish
  <2> QED BY <1>0, <1>a, <1>b, <2>1, ReadsStep
<1>r. ASSUME NEW h \in Handlers, Documents!ReadStore(h)
      PROVE  DocumentsInv'
  <2> DEFINE mark == IF store = "rejected" THEN "cancelled" ELSE "published"
             wf == Documents!Rows(job[h].todo, mark)
             j == [job[h] EXCEPT !.workflow = wf]
  <2>1. /\ job[h].what = "dispatch" /\ DOMAIN job[h].workflow = {}
        /\ job' = [job EXCEPT ![h] = j]
        /\ UNCHANGED <<workflow, post, edited, overtaken>>
    BY <1>0, <1>r DEF Documents!ReadStore
  <2>2. wf = [x \in job[h].todo |-> mark] /\ mark \in {"cancelled", "published"}
    BY DEF Documents!Rows
  <2> HIDE DEF mark, wf
  <2>3. DOMAIN job[h] = {"what", "store", "workflow", "post", "todo"}
        /\ \A w \in Documents!Ids \ edited : WritesPair(h, w)
    BY <2>1 DEF DocumentsInv, JobOfKind
  <2>4. /\ j.what = "dispatch" /\ j.workflow = wf /\ j.post = job[h].post /\ j.todo = job[h].todo
        /\ DOMAIN j = {"what", "store", "workflow", "post", "todo"}
    BY <2>1, <2>3
  <2> HIDE DEF j
  <2>5. job'[h] = j
    BY <2>1 DEF DocumentsInv
  <2>6. \A w \in Documents!Ids \ edited : WritesPair(h, w)'
    BY <2>1, <2>2, <2>3, <2>4, <2>5 DEF WritesPair
  <2>7. \A w \in Documents!Ids :
            /\ w \in DOMAIN j.workflow \cup j.todo => workflow[w] # "none"
            /\ w \in DOMAIN j.workflow => j.workflow[w] # "scheduled"
    BY <2>1, <2>2, <2>4 DEF DocumentsInv, Fresh
  <2>8. \A w \in DOMAIN j.workflow : j.workflow[w] \in {"scheduled", "cancelled", "published"}
    BY <2>2, <2>4
  <2>9. \A w \in Documents!Ids :
            /\ w \in DOMAIN j.workflow \cup j.todo =>
                   (workflow[w] = "none" <=> w \in DOMAIN j.workflow /\ j.workflow[w] = "scheduled")
            /\ w \in DOMAIN j.workflow /\ j.workflow[w] = "scheduled" =>
                   \A g \in Handlers \ {h} : w \notin DOMAIN job[g].workflow
    BY <2>7
  <2> QED BY <2>1, <2>4, <2>6, <2>8, <2>9, JobStep
<1>p. ASSUME NEW h \in Handlers, NEW w \in Documents!Ids, Documents!ReadPost(h, w)
      PROVE  DocumentsInv'
  <2> DEFINE wf == job[h].workflow
             mark == IF wf[w] = "published" THEN "published" ELSE "failed"
             skips == post[w] = "none" \/ (job[h].what = "reject" /\ post[w] = "published")
             rows == IF skips THEN <<>> ELSE Documents!Rows({w}, mark)
             sp == Documents!Over(DOMAIN job[h].post \cup DOMAIN rows, job[h].post, rows)
             j == [job[h] EXCEPT !.todo = @ \ {w}, !.post = sp]
  <2>1. /\ w \in job[h].todo /\ w \in DOMAIN wf
        /\ job' = [job EXCEPT ![h] = IF post[w] = "none" /\ mark = "published"
                                     THEN Documents!Free ELSE j]
        /\ UNCHANGED <<workflow, post, edited, overtaken>>
    BY <1>p DEF Documents!ReadPost
  <2>2. /\ rows = IF skips THEN <<>> ELSE [x \in {w} |-> mark]
        /\ skips = (post[w] = "none" \/ (job[h].what = "reject" /\ post[w] = "published"))
        /\ mark = IF wf[w] = "published" THEN "published" ELSE "failed"
    BY DEF Documents!Rows
  <2>3. /\ DOMAIN sp = DOMAIN job[h].post \cup DOMAIN rows
        /\ \A x \in DOMAIN sp : sp[x] = IF x \in DOMAIN rows THEN rows[x] ELSE job[h].post[x]
    BY DEF Documents!Over
  <2> HIDE DEF sp, rows, skips, mark
  <2>4. /\ DOMAIN job[h] = {"what", "store", "workflow", "post", "todo"}
        /\ job[h].what # "edit"
        /\ \A v \in Documents!Ids \ edited : WritesPair(h, v)
        /\ \A v \in DOMAIN job[h].workflow :
               job[h].workflow[v] \in {"scheduled", "cancelled", "published"}
    BY <2>1 DEF DocumentsInv, JobOfKind
  <2>5. CASE job' = [job EXCEPT ![h] = Documents!Free]
    <3>1. /\ Documents!Free.what = "none" /\ Documents!Free.todo = {}
          /\ DOMAIN Documents!Free = {"what", "store", "workflow", "post", "todo"}
          /\ DOMAIN Documents!Free.workflow = {} /\ DOMAIN Documents!Free.post = {}
      BY <1>0 DEF Documents!Free
    <3>2. job'[h] = Documents!Free
      BY <2>5 DEF DocumentsInv
    <3>3. \A v \in Documents!Ids \ edited : WritesPair(h, v)'
      BY <3>1, <3>2 DEF WritesPair
    <3>4. \A v \in Documents!Ids :
              v \notin DOMAIN Documents!Free.workflow \cup Documents!Free.todo
      BY <3>1
    <3> HIDE DEF j
    <3> QED BY <2>1, <2>5, <3>1, <3>3, <3>4, JobStep
  <2>6. CASE job' = [job EXCEPT ![h] = j]
            /\ ~(post[w] = "none" /\ mark = "published")
    <3>1. /\ j.what = job[h].what /\ j.workflow = wf /\ j.post = sp /\ j.todo = job[h].todo \ {w}
          /\ DOMAIN j = {"what", "store", "workflow", "post", "todo"}
      BY <2>4
    <3> HIDE DEF j
    <3>2. job'[h] = j
      BY <2>6 DEF DocumentsInv
    <3>3. ASSUME NEW v \in Documents!Ids \ edited PROVE WritesPair(h, v)'
      <4>1. CASE v # w
        <5>1. v \notin DOMAIN rows
          BY <1>0, <2>2, <4>1
        <5>2. /\ v \in DOMAIN sp <=> v \in DOMAIN job[h].post
              /\ v \in DOMAIN sp => sp[v] = job[h].post[v]
              /\ v \in j.todo <=> v \in job[h].todo
          BY <2>3, <3>1, <4>1, <5>1
        <5>3. WritesPair(h, v)
          BY <2>4
        <5> QED BY <2>1, <3>1, <3>2, <5>2, <5>3 DEF WritesPair
      <4>2. CASE v = w
        <5>1. /\ w \notin DOMAIN job[h].post /\ workflow[w] # "none"
              /\ wf[w] \in {"cancelled", "published"}
              /\ job[h].what = "reject" => /\ wf[w] = "cancelled"
                                           /\ post[w] = "published" => w \in overtaken
          BY <2>1, <2>4, <4>2 DEF WritesPair
        <5>2. post[w] # "none"
          BY <4>2, <5>1 DEF DocumentsInv, Documents!WorkflowAndPostAgree
        <5>3. CASE skips
          <6>1. w \notin DOMAIN sp
            BY <1>0, <2>2, <2>3, <5>1, <5>3
          <6> QED BY <2>1, <2>2, <3>1, <3>2, <4>2, <5>1, <5>2, <5>3, <6>1 DEF WritesPair
        <5>4. CASE ~skips
          <6>1. w \in DOMAIN sp /\ sp[w] = mark
            BY <2>2, <2>3, <5>4
          <6> QED BY <2>1, <2>2, <3>1, <3>2, <4>2, <5>1, <6>1 DEF WritesPair
        <5> QED BY <5>3, <5>4
      <4> QED BY <4>1, <4>2
    <3>4. \A v \in Documents!Ids :
              /\ v \in DOMAIN j.workflow \cup j.todo =>
                     (workflow[v] = "none" <=> /\ v \in DOMAIN j.workflow
                                               /\ j.workflow[v] = "scheduled")
              /\ v \in DOMAIN j.workflow /\ j.workflow[v] = "scheduled" =>
                     \A g \in Handlers \ {h} : v \notin DOMAIN job[g].workflow
      BY <3>1 DEF DocumentsInv, Fresh
    <3>5. /\ \A v \in DOMAIN j.workflow : j.workflow[v] \in {"scheduled", "cancelled", "published"}
          /\ j.what # "edit"
      BY <2>4, <3>1
    <3> QED BY <2>1, <2>6, <3>1, <3>3, <3>4, <3>5, JobStep
  <2> QED BY <2>1, <2>5, <2>6
<1>5. ASSUME NEW h \in Handlers, NEW sp, Documents!Will(h, "edit", "kept", <<>>, sp)
      PROVE  DocumentsInv'
  BY <1>0, <1>5, ReadsStep DEF Documents!Will
<1>6. ASSUME NEW h \in Handlers,
             \/ Documents!admin_cleanup_documents(h)
             \/ \E w \in Documents!Ids :
                    Documents!patch_document(h, w) \/ Documents!delete_document(h, w)
      PROVE  DocumentsInv'
  BY <1>5, <1>6
  DEF Documents!admin_cleanup_documents, Documents!patch_document, Documents!delete_document
<1>7. ASSUME NEW w \in Documents!Ids, Documents!claim_scheduled_post_publish(w)
      PROVE  DocumentsInv'
  <2>1. /\ UNCHANGED <<workflow, job, edited, overtaken>> /\ DOMAIN post' = Documents!Ids
        /\ post[w] \notin {"published", "failed"} /\ post'[w] = "publishing"
        /\ \A v \in Documents!Ids \ {w} : post'[v] = post[v]
    BY <1>7 DEF Documents!claim_scheduled_post_publish, DocumentsInv
  <2>2. \A h \in Handlers : JobOfKind(h)'
    <3> SUFFICES ASSUME NEW h \in Handlers PROVE JobOfKind(h)'
      OBVIOUS
    <3>1. \A v \in Documents!Ids : WritesPair(h, v) => WritesPair(h, v)'
      BY <2>1 DEF WritesPair
    <3> QED BY <2>1, <3>1 DEF DocumentsInv, JobOfKind, Documents!Ids
  <2>3. Fresh'
    BY <2>1 DEF DocumentsInv, Fresh, Documents!Ids
  <2> QED BY <2>1, <2>2, <2>3 DEF DocumentsInv, Documents!WorkflowAndPostAgree, Documents!Ids
<1>f. /\ DOMAIN Documents!Free = {"what", "store", "workflow", "post", "todo"}
      /\ Documents!Free.what = "none" /\ Documents!Free.todo = {}
      /\ DOMAIN Documents!Free.workflow = {} /\ DOMAIN Documents!Free.post = {}
  BY <1>0 DEF Documents!Free
<1>8. ASSUME NEW h \in Handlers, Documents!Commit(h)  PROVE DocumentsInv'
  <2>1. /\ DOMAIN job' = Handlers /\ job'[h] = Documents!Free
        /\ \A g \in Handlers \ {h} : job'[g] = job[g]
    BY <1>8 DEF Documents!Commit, DocumentsInv
  <2>2. /\ workflow' = Documents!Over(Documents!Ids, workflow, job[h].workflow)
        /\ post' = Documents!Over(Documents!Ids, post, job[h].post)
        /\ edited \subseteq edited' /\ job[h].todo = {}
        /\ job[h].what = "edit" => edited' = edited \cup DOMAIN job[h].post
        /\ job[h].what # "edit" => edited' = edited
        /\ overtaken' = overtaken \cup {w \in DOMAIN job[h].workflow :
               job[h].workflow[w] = "published" /\ Documents!Rejecting(w) # {}}
    BY <1>8 DEF Documents!Commit
  <2>3. /\ workflow' \in [Documents!Ids -> {"none", "scheduled", "cancelled", "published"}]
        /\ DOMAIN post' = Documents!Ids /\ Documents!Ids' = Documents!Ids
        /\ \A w \in Documents!Ids : workflow[w] # "none" => workflow'[w] # "none"
    BY <2>2 DEF Documents!Over, DocumentsInv, JobOfKind, Documents!Ids
  <2>4. ASSUME NEW w \in Documents!Ids, w \notin edited'
        PROVE  \/ workflow'[w] = workflow[w] /\ post'[w] = post[w]
               \/ /\ workflow'[w] = "scheduled" /\ post'[w] = "pending"
                  /\ w \in DOMAIN job[h].workflow /\ job[h].workflow[w] = "scheduled"
               \/ workflow'[w] = "cancelled" /\ post'[w] = "failed"
               \/ /\ workflow'[w] = "published" /\ post'[w] = "published"
                  /\ Documents!Rejecting(w) # {} => w \in overtaken'
               \/ /\ workflow'[w] = "cancelled" /\ post'[w] = post[w] /\ w \in overtaken
                  /\ post[w] \in {"published", "failed"}
    <3>1. /\ workflow'[w] = IF w \in DOMAIN job[h].workflow THEN job[h].workflow[w]
                            ELSE workflow[w]
          /\ post'[w] = IF w \in DOMAIN job[h].post THEN job[h].post[w] ELSE post[w]
      BY <2>2 DEF Documents!Over
    <3>2. CASE job[h].what = "edit"
      BY <2>2, <2>4, <3>1, <3>2 DEF DocumentsInv, JobOfKind
    <3>3. CASE job[h].what # "edit"
      <4>1. WritesPair(h, w) /\ job[h].todo = {}
        BY <2>2, <2>4, <3>3 DEF DocumentsInv, JobOfKind
      <4> QED BY <2>2, <3>1, <4>1 DEF WritesPair
    <3> QED BY <3>2, <3>3
  <2>5. ASSUME NEW g \in Handlers PROVE JobOfKind(g)'
    <3>1. CASE g = h
      BY <1>f, <2>1, <3>1 DEF WritesPair, JobOfKind
    <3>2. CASE g # h
      <4>1. job'[g] = job[g]
        BY <2>1, <3>2
      <4>2. ASSUME job[g].what # "edit", NEW w \in Documents!Ids, w \notin edited'
            PROVE  WritesPair(g, w)'
        <5>1. WritesPair(g, w)
          BY <2>2, <4>2 DEF DocumentsInv, JobOfKind
        <5>2. w \in job[g].todo /\ job[g].what = "reject" => Documents!Rejecting(w) # {}
          BY DEF Documents!Rejecting
        <5>3. overtaken \subseteq overtaken'
          BY <2>2
        <5>4. w \in job[g].todo /\ job[g].what = "reject" /\ post'[w] = "published" =>
                  w \in overtaken'
          BY <2>4, <4>2, <5>1, <5>2, <5>3 DEF WritesPair
        <5>5. w \in DOMAIN job[g].workflow /\ job[g].workflow[w] # "scheduled" =>
                  ~(w \in DOMAIN job[h].workflow /\ job[h].workflow[w] = "scheduled")
          BY DEF DocumentsInv, Fresh
        <5>6. w \in DOMAIN job[g].workflow /\ w \notin DOMAIN job[g].post
                  /\ w \notin job[g].todo => post'[w] \in {"published", "failed"}
          BY <2>4, <4>2, <5>1, <5>5 DEF WritesPair
        <5> QED BY <2>3, <4>1, <5>1, <5>3, <5>4, <5>6 DEF WritesPair
      <4> QED BY <2>2, <2>3, <4>1, <4>2 DEF DocumentsInv, JobOfKind
    <3> QED BY <3>1, <3>2
  <2>6. Documents!WorkflowAndPostAgree'
    <3>1. ASSUME NEW w \in Documents!Ids, w \notin edited'
          PROVE  /\ workflow'[w] = "published" => post'[w] = "published"
                 /\ workflow'[w] = "cancelled" => \/ post'[w] = "failed"
                                                  \/ post'[w] = "published" /\ w \in overtaken'
                 /\ workflow'[w] = "scheduled" => post'[w] \in {"pending", "publishing"}
      <4>1. overtaken \subseteq overtaken' /\ w \notin edited
        BY <2>2, <3>1
      <4>2. /\ workflow[w] = "published" => post[w] = "published"
            /\ workflow[w] = "cancelled" => \/ post[w] = "failed"
                                            \/ post[w] = "published" /\ w \in overtaken
            /\ workflow[w] = "scheduled" => post[w] \in {"pending", "publishing"}
        BY <4>1 DEF DocumentsInv, Documents!WorkflowAndPostAgree
      <4> QED BY <2>4, <3>1, <4>1, <4>2
    <3> QED BY <2>3, <3>1 DEF Documents!WorkflowAndPostAgree
  <2>7. ASSUME NEW w \in Documents!Ids
        PROVE  workflow'[w] = IF w \in DOMAIN job[h].workflow THEN job[h].workflow[w]
                              ELSE workflow[w]
    BY <2>2 DEF Documents!Over
  <2>8. Fresh'
    <3>1. ASSUME NEW g \in Handlers, NEW w \in Documents!Ids,
                 w \in DOMAIN job'[g].workflow \cup job'[g].todo
          PROVE  workflow'[w] = "none" <=> /\ w \in DOMAIN job'[g].workflow
                                           /\ job'[g].workflow[w] = "scheduled"
      <4>1. g # h /\ job'[g] = job[g]
        BY <1>f, <2>1, <3>1
      <4>2. workflow'[w] = "none" <=> workflow[w] = "none"
        BY <2>7, <3>1, <4>1 DEF DocumentsInv, Fresh, JobOfKind
      <4> QED BY <3>1, <4>1, <4>2 DEF DocumentsInv, Fresh
    <3>2. ASSUME NEW g \in Handlers, NEW k \in Handlers, NEW w \in Documents!Ids,
                 w \in DOMAIN job'[g].workflow, w \in DOMAIN job'[k].workflow,
                 job'[g].workflow[w] = "scheduled", job'[k].workflow[w] = "scheduled"
          PROVE  g = k
      BY <1>f, <2>1, <3>2 DEF DocumentsInv, Fresh
    <3> QED BY <3>1, <3>2 DEF Fresh, Documents!Ids
  <2> QED BY <2>1, <2>3, <2>5, <2>6, <2>8 DEF DocumentsInv
<1>9. ASSUME NEW h \in Handlers, Documents!Rollback(h)  PROVE DocumentsInv'
  <2>1. /\ job' = [job EXCEPT ![h] = Documents!Free]
        /\ UNCHANGED <<workflow, post, edited, overtaken>>
    BY <1>9 DEF Documents!Rollback
  <2>2. job'[h] = Documents!Free
    BY <2>1 DEF DocumentsInv
  <2>3. \A w \in Documents!Ids \ edited : WritesPair(h, w)'
    BY <1>f, <2>2 DEF WritesPair
  <2>4. \A w \in Documents!Ids :
            w \notin DOMAIN Documents!Free.workflow \cup Documents!Free.todo
    BY <1>f
  <2> QED BY <1>f, <2>1, <2>3, <2>4, JobStep
<1> QED
  BY <1>1, <1>2, <1>3, <1>4, <1>r, <1>p, <1>6, <1>7, <1>8, <1>9 DEF Documents!Next

\* A workflow of a store and its scheduled post tell the same story, in whatever
\* order the SELECTs of approvals, rejections and publications and their commits
\* interleave; but for a publication that commits between the reads of a rejection.
THEOREM RowsTellOneStory == Spec => []WorkflowAndPostAgree
<1> DEFINE Inv == part = "documents" => DocumentsInv
<1>1. Init => Inv
  <2>1. Init /\ part = "documents" => Documents!Init
    BY DEF Init
  <2>2. DOMAIN <<>> = {}
    OBVIOUS
  <2>3. Documents!Init => DocumentsInv
    BY <2>2 DEF Documents!Init, DocumentsInv, JobOfKind, WritesPair, Fresh,
                Documents!WorkflowAndPostAgree, Documents!Free
  <2> QED BY <2>1, <2>3
<1>2. Inv /\ [Next]_vars => Inv'
  <2> SUFFICES ASSUME Inv, [Next]_vars, part' = "documents" PROVE DocumentsInv'
    OBVIOUS
  <2>1. part = "documents" /\ (Documents!Next \/ UNCHANGED Documents!vars)
    BY StepOfPart
  <2>2. CASE Documents!Next
    BY <2>1, <2>2, DocumentsStep
  <2>3. CASE UNCHANGED Documents!vars
    BY <2>1, <2>3
    DEF Documents!vars, DocumentsInv, JobOfKind, WritesPair, Fresh,
        Documents!WorkflowAndPostAgree
  <2> QED BY <2>1, <2>2, <2>3
<1>3. Inv => WorkflowAndPostAgree
  BY DEF DocumentsInv, WorkflowAndPostAgree
<1> QED BY <1>1, <1>2, <1>3, PTL DEF Spec


-----------------------------------------------------------------------------
(* One request to publish: what is live, and what is answered              *)

PublishJob == [pc: {"todo", "running", "done", "failed"}, at: Nat, tries: Nat, share: BOOLEAN]

PublishType ==
    /\ request \in Publishing!Requests /\ Publishing!Media \in Nat \ {0}
    /\ job \in [Publishing!Channels -> PublishJob]
    /\ \A c \in Publishing!Channels :
           /\ job[c].pc = "todo" => job[c].at = 1
           /\ job[c].pc = "running" => job[c].at \in 1..Len(Publishing!Calls(c))
    /\ live \in [Publishing!Channels -> Nat] /\ runs \in Nat \ {0}

\* What a channel shows of this delivery, by the call it has come to.
Shown(c, j) ==
    IF j.pc = "done" THEN Publishing!Pieces(c)
    ELSE IF j.pc = "running" /\ c = "instagram_story" THEN (j.at - 1) \div 3
    ELSE 0

\* What it may show at most: when it failed, what was lost in the failure too.
Most(c, j) == IF j.pc = "failed" THEN Publishing!Pieces(c) ELSE Shown(c, j)

\* What is known of n, live of channel c, when no error of it is unsure.
Certain(c, j, n) ==
    /\ j.pc \in {"todo", "running"} => n = Shown(c, j)
    /\ j.pc = "failed" => n = 0 \/ (c = "instagram_story" /\ n < Publishing!Pieces(c))

Earlier(c) == (runs - 1) * Publishing!Pieces(c)

LiveIsShown ==
    \A c \in Publishing!Channels :
        /\ live[c] >= Shown(c, job[c])
        /\ live[c] <= Earlier(c) + Most(c, job[c])
        /\ c \notin unsure => Certain(c, job[c], live[c])

\* What is collected of the channels.
Collects ==
    /\ results \cup errors \subseteq Publishing!wanted
    /\ \A c \in results : job[c].pc = "done"
    /\ \A c \in errors \ unsure : job[c].pc = "failed"
    /\ phase = "preflight" => results = {} /\ errors = {}
    /\ phase = "answered" => results = {} \/ Publishing!wanted \subseteq results \cup errors

PublishInv == PublishType /\ LiveIsShown /\ Collects


\* A batch of stories: every third call shows one.
LEMMA BatchCalls ==
    ASSUME NEW n \in Nat \ {0}
    PROVE  LET f == Publishing!post_story_batch_to_instagram(n) IN
             /\ Len(f) = 3 * n
             /\ \A k \in 1..(3 * n) : /\ (f[k] \in {"publish", "post"}) <=> (k % 3 = 0)
                                      /\ f[k] = "wait" => k # 1
<1> DEFINE f == Publishing!post_story_batch_to_instagram(n)
<1>1. 3 * n \in Nat
  OBVIOUS
<1>2. Len(f) = 3 * n
  BY <1>1 DEF Publishing!post_story_batch_to_instagram
<1>3. ASSUME NEW k \in 1..(3 * n)
      PROVE  /\ (f[k] \in {"publish", "post"}) <=> (k % 3 = 0)
             /\ f[k] = "wait" => k # 1
  <2>1. f[k] = Publishing!Publication[((k - 1) % 3) + 1]
    BY DEF Publishing!post_story_batch_to_instagram
  <2>2. (k - 1) % 3 \in {0, 1, 2} /\ ((k - 1) % 3 = 2 <=> k % 3 = 0) /\ (k = 1 => (k - 1) % 3 = 0)
    OBVIOUS
  <2>3. /\ Publishing!Publication[1] = "create" /\ Publishing!Publication[2] = "wait"
        /\ Publishing!Publication[3] = "publish"
    BY DEF Publishing!Publication
  <2> QED BY <2>1, <2>2, <2>3
<1> QED BY <1>2, <1>3

\* The stories are such a batch.
LEMMA StoryCalls ==
    ASSUME Publishing!Media \in Nat \ {0}
    PROVE  /\ Len(Publishing!Calls("instagram_story")) = 3 * Publishing!Media
           /\ \A k \in 1..(3 * Publishing!Media) :
                  (Publishing!Calls("instagram_story")[k] \in {"publish", "post"}) <=> (k % 3 = 0)
  BY BatchCalls DEF Publishing!Calls

\* In every other list of calls the last one alone shows anything, and a container is
\* not waited for before one was created.
LEMMA PostCalls ==
    ASSUME Publishing!Media \in Nat \ {0}, NEW c \in {"instagram_post", "facebook_post"}
    PROVE  /\ Len(Publishing!Calls(c)) \in Nat \ {0}
           /\ \A k \in 1..Len(Publishing!Calls(c)) :
                  (Publishing!Calls(c)[k] \in {"publish", "post"}) <=> (k = Len(Publishing!Calls(c)))
           /\ Publishing!Calls(c)[1] # "wait"
<1>1. ASSUME NEW n \in Nat \ {0}
      PROVE  LET f == Publishing!post_carousel_to_instagram(n) IN
             /\ Len(f) = 2 * n + 3
             /\ \A k \in 1..(2 * n + 3) : /\ (f[k] \in {"publish", "post"}) <=> (k = 2 * n + 3)
                                          /\ f[k] = "wait" => k # 1
  <2>1. 2 * n + 3 \in Nat
    OBVIOUS
  <2>2. Len(Publishing!post_carousel_to_instagram(n)) = 2 * n + 3
    BY <2>1 DEF Publishing!post_carousel_to_instagram
  <2>3. 1 % 2 = 1
    OBVIOUS
  <2> QED BY <2>2, <2>3 DEF Publishing!post_carousel_to_instagram
<1>2. ASSUME NEW n \in Nat
      PROVE  LET f == Publishing!post_multi_photo_to_facebook_page(n) IN
             /\ Len(f) = n + 1
             /\ \A k \in 1..(n + 1) : /\ (f[k] \in {"publish", "post"}) <=> (k = n + 1)
                                      /\ f[k] # "wait"
  BY DEF Publishing!post_multi_photo_to_facebook_page
<1>3. CASE c = "instagram_post"
  <2>1. CASE Publishing!Album
    BY <1>1, <1>3, <2>1 DEF Publishing!Calls
  <2>2. CASE ~Publishing!Album
    <3> DEFINE f == Publishing!post_story_batch_to_instagram(1)
    <3>1. Publishing!Calls(c) = f
      BY <1>3, <2>2 DEF Publishing!Calls, Publishing!post_to_instagram
    <3>2. \A k \in 1..3 : k % 3 = 0 <=> k = 3
      OBVIOUS
    <3>3. 3 * 1 = 3 /\ 1 \in Nat \ {0}
      OBVIOUS
    <3>4. /\ Len(f) = 3
          /\ \A k \in 1..3 : /\ (f[k] \in {"publish", "post"}) <=> (k % 3 = 0)
                             /\ f[k] = "wait" => k # 1
      BY BatchCalls, <3>3
    <3> HIDE DEF f
    <3>5. \A k \in 1..3 : (f[k] \in {"publish", "post"}) <=> (k = 3)
      BY <3>2, <3>4
    <3>6. Len(Publishing!Calls(c)) = 3
      BY <3>1, <3>4
    <3>7. \A k \in 1..3 :
              /\ (Publishing!Calls(c)[k] \in {"publish", "post"}) <=> (k = 3)
              /\ Publishing!Calls(c)[k] = "wait" => k # 1
      BY <3>1, <3>4, <3>5
    <3>8. Publishing!Calls(c)[1] # "wait" /\ 3 \in Nat \ {0}
      BY <3>7
    <3>9. \A k \in 1..3 : (Publishing!Calls(c)[k] \in {"publish", "post"}) <=> (k = 3)
      BY <3>7
    <3> QED BY <3>6, <3>8, <3>9
  <2> QED BY <2>1, <2>2
<1>4. CASE c = "facebook_post"
  <2>1. CASE Publishing!Album
    BY <1>2, <1>4, <2>1 DEF Publishing!Calls
  <2>2. CASE ~Publishing!Album
    <3>1. Publishing!Calls(c) = Publishing!post_multi_photo_to_facebook_page(0)
      BY <1>4, <2>2 DEF Publishing!Calls, Publishing!post_photo_to_facebook
    <3> QED BY <1>2, <1>4, <3>1
  <2> QED BY <2>1, <2>2
<1> QED BY <1>3, <1>4

\* As long as the request stays, so does what is asked for.
LEMMA SameRequest ==
    ASSUME UNCHANGED request
    PROVE  /\ Publishing!Media' = Publishing!Media /\ Publishing!wanted' = Publishing!wanted
           /\ \A c : Publishing!Pieces(c)' = Publishing!Pieces(c)
           /\ \A c : Publishing!Calls(c)' = Publishing!Calls(c)
  BY DEF Publishing!Media, Publishing!wanted, Publishing!Pieces, Publishing!Calls,
         Publishing!Album, Publishing!Handler, Publishing!post_story_batch_to_instagram,
         Publishing!post_to_instagram, Publishing!post_carousel_to_instagram,
         Publishing!post_multi_photo_to_facebook_page, Publishing!post_photo_to_facebook,
         Publishing!Publication

\* A channel shows one piece, stories one for each medium.
LEMMA PieceFacts ==
    ASSUME Publishing!Media \in Nat \ {0}, NEW c \in Publishing!Channels
    PROVE  /\ Publishing!Pieces(c) \in Nat \ {0}
           /\ c # "instagram_story" => Publishing!Pieces(c) = 1
  BY DEF Publishing!Pieces

\* A call forward: a call that shows adds one, the others none, and nothing is shown
\* beyond what was to be.
LEMMA CallForward ==
    ASSUME PublishType, NEW c \in Publishing!Channels, job[c].pc = "running"
    PROVE  LET next == Publishing!Advanced(c)
               shows == Publishing!Calls(c)[job[c].at] \in {"publish", "post"} IN
           /\ next \in PublishJob /\ next.pc \in {"running", "done"}
           /\ next.pc = "running" => next.at \in 1..Len(Publishing!Calls(c))
           /\ Shown(c, job[c]) \in Nat /\ Shown(c, job[c]) < Publishing!Pieces(c)
           /\ Shown(c, next) = IF shows THEN Shown(c, job[c]) + 1 ELSE Shown(c, job[c])
<1> DEFINE j == job[c]
           at == job[c].at
           m == Publishing!Media
           series == Publishing!Calls(c)
           next == Publishing!Advanced(c)
<1>1. /\ j \in PublishJob /\ j.pc = "running" /\ at \in 1..Len(series) /\ at \in Nat
      /\ m \in Nat \ {0}
  BY DEF PublishType, PublishJob
<1>2. next = IF at = Len(series) THEN [j EXCEPT !.pc = "done"]
             ELSE [j EXCEPT !.at = at + 1, !.tries = 0]
  BY DEF Publishing!Advanced
<1>3. /\ next \in PublishJob
      /\ at = Len(series) => next.pc = "done"
      /\ at # Len(series) => next.pc = "running" /\ next.at = at + 1
  <2> DEFINE on == [j EXCEPT !.at = at + 1, !.tries = 0]
             over == [j EXCEPT !.pc = "done"]
  <2>1. at + 1 \in Nat
    BY <1>1
  <2> HIDE DEF j, at
  <2>2. on \in PublishJob /\ on.pc = "running" /\ on.at = at + 1
    BY <1>1, <2>1 DEF PublishJob
  <2>3. over \in PublishJob /\ over.pc = "done"
    BY <1>1 DEF PublishJob
  <2> QED BY <1>2, <2>2, <2>3
<1>4. CASE c = "instagram_story"
  <2>1. /\ Len(series) = 3 * m
        /\ series[at] \in {"publish", "post"} <=> at % 3 = 0
        /\ Publishing!Pieces(c) = m
    BY <1>1, <1>4, StoryCalls DEF Publishing!Pieces
  <2> HIDE DEF m, series, next, at, j
  <2>2. /\ (at - 1) \div 3 \in Nat /\ (at - 1) \div 3 < m
        /\ at = 3 * m => at % 3 = 0 /\ m = (at - 1) \div 3 + 1
        /\ (at + 1 - 1) \div 3 = IF at % 3 = 0 THEN (at - 1) \div 3 + 1 ELSE (at - 1) \div 3
    BY <1>1, <2>1
  <2>3. /\ Shown(c, j) = (at - 1) \div 3
        /\ Shown(c, next) = IF at = 3 * m THEN m ELSE (at + 1 - 1) \div 3
    BY <1>1, <1>3, <1>4, <2>1 DEF Shown, j, at
  <2>4. next.pc = "running" => next.at \in 1..Len(series)
    BY <1>1, <1>3, <2>1
  <2>5. Shown(c, next) = IF series[at] \in {"publish", "post"} THEN Shown(c, j) + 1 ELSE Shown(c, j)
    BY <2>1, <2>2, <2>3
  <2> QED BY <1>3, <2>1, <2>2, <2>3, <2>4, <2>5 DEF j, at, series, next
<1>5. CASE c # "instagram_story"
  <2>1. /\ Len(series) \in Nat \ {0}
        /\ series[at] \in {"publish", "post"} <=> at = Len(series)
        /\ Publishing!Pieces(c) = 1
    BY <1>1, <1>5, PostCalls DEF Publishing!Channels, Publishing!Pieces
  <2> HIDE DEF series, next, at, j
  <2>2. Shown(c, j) = 0 /\ Shown(c, next) = IF at = Len(series) THEN 1 ELSE 0
    BY <1>1, <1>3, <1>5, <2>1 DEF Shown
  <2>3. next.pc = "running" => next.at \in 1..Len(series)
    BY <1>1, <1>3, <2>1
  <2> QED BY <1>3, <2>1, <2>2, <2>3 DEF j, at, series, next
<1> QED BY <1>4, <1>5


\* A step of one channel leaves what is known of the publications as it was, when what
\* is live of the channel fits the record it goes on with.
LEMMA ChannelFrame ==
    ASSUME PublishInv, NEW c \in Publishing!Channels, NEW next \in PublishJob, NEW n \in Nat,
           UNCHANGED <<request, phase, results, errors, runs>>, phase = "serve",
           job[c].pc \in {"todo", "running"},
           job' = [job EXCEPT ![c] = next], live' = [live EXCEPT ![c] = n],
           next.pc # "todo",
           next.pc = "running" => next.at \in 1..Len(Publishing!Calls(c)),
           n >= Shown(c, next), n <= Earlier(c) + Most(c, next),
           \/ unsure' = unsure /\ (c \notin unsure => Certain(c, next, n))
           \/ unsure' = unsure \cup {c}
    PROVE  PublishInv'
<1>0. /\ job \in [Publishing!Channels -> PublishJob] /\ live \in [Publishing!Channels -> Nat]
      /\ job'[c] = next /\ live'[c] = n
      /\ \A d \in Publishing!Channels \ {c} : job'[d] = job[d] /\ live'[d] = live[d]
  BY DEF PublishInv, PublishType
<1>1. /\ Publishing!Media' = Publishing!Media /\ Publishing!wanted' = Publishing!wanted
      /\ \A d : Publishing!Pieces(d)' = Publishing!Pieces(d)
      /\ \A d : Publishing!Calls(d)' = Publishing!Calls(d)
  BY SameRequest
<1>2. PublishType'
  <2>1. job' \in [Publishing!Channels -> PublishJob] /\ live' \in [Publishing!Channels -> Nat]
    BY <1>0
  <2>2. request' \in Publishing!Requests /\ Publishing!Media' \in Nat \ {0} /\ runs' \in Nat \ {0}
    BY <1>1 DEF PublishInv, PublishType
  <2>3. ASSUME NEW d \in Publishing!Channels
        PROVE  /\ job'[d].pc = "todo" => job'[d].at = 1
               /\ job'[d].pc = "running" => job'[d].at \in 1..Len(Publishing!Calls(d)')
    BY <1>0, <1>1 DEF PublishInv, PublishType
  <2> QED BY <2>1, <2>2, <2>3 DEF PublishType
<1>3. LiveIsShown'
  <2>1. ASSUME NEW d \in Publishing!Channels
        PROVE  /\ Shown(d, job[d])' = Shown(d, job'[d]) /\ Most(d, job[d])' = Most(d, job'[d])
               /\ Earlier(d)' = Earlier(d)
               /\ Certain(d, job[d], live[d])' <=> Certain(d, job'[d], live'[d])
    BY <1>1 DEF Shown, Most, Earlier, Certain
  <2>2. ASSUME NEW d \in Publishing!Channels
        PROVE  /\ live'[d] >= Shown(d, job'[d])
               /\ live'[d] <= Earlier(d) + Most(d, job'[d])
               /\ d \notin unsure' => Certain(d, job'[d], live'[d])
    BY <1>0 DEF PublishInv, LiveIsShown
  <2> QED BY <2>1, <2>2 DEF LiveIsShown
<1>4. Collects'
  <2>1. c \notin results
    BY DEF PublishInv, Collects
  <2>2. \A d \in errors' \ unsure' : d # c /\ d \in errors \ unsure
    BY DEF PublishInv, Collects
  <2> QED BY <1>0, <1>1, <2>1, <2>2 DEF PublishInv, Collects
<1> QED BY <1>2, <1>3, <1>4 DEF PublishInv


\* A call of a channel, of whatever kind it is and however it ends.
LEMMA ChannelCalls ==
    ASSUME PublishInv, NEW c \in Publishing!Channels, Publishing!ChannelStep(c)
    PROVE  PublishInv'
<1> DEFINE j == job[c]
           Rest == UNCHANGED <<request, phase, results, errors, runs>>
           series == Publishing!Calls(c)
           shows == series[j.at] \in {"publish", "post"}
           Same == live' = live /\ unsure' = unsure
           Shows == live' = [live EXCEPT ![c] = live[c] + 1]
           Goes(next) == job' = [job EXCEPT ![c] = next]
<1>1. phase = "serve" /\ j.pc = "running" /\ j \in PublishJob /\ Rest
  BY DEF Publishing!ChannelStep, Publishing!Prepare, Publishing!wait_for_media_container_ready,
         Publishing!publish_media, Publishing!PostToPage, Publishing!Calling, PublishInv, PublishType
<1>2. /\ live \in [Publishing!Channels -> Nat] /\ live[c] \in Nat /\ live[c] + 1 \in Nat
      /\ live[c] >= Shown(c, j) /\ live[c] <= Earlier(c) + Shown(c, j)
      /\ c \notin unsure => live[c] = Shown(c, j)
      /\ j.at \in 1..Len(series)
  BY <1>1 DEF PublishInv, PublishType, LiveIsShown, Most, Certain
<1>3. /\ Publishing!Pieces(c) \in Nat \ {0}
      /\ c # "instagram_story" => Publishing!Pieces(c) = 1
      /\ runs - 1 \in Nat
  BY PieceFacts DEF PublishInv, PublishType
<1>4. Earlier(c) \in Nat
  BY <1>3 DEF Earlier
<1>5. LET next == Publishing!Advanced(c) IN
      /\ next \in PublishJob /\ next.pc \in {"running", "done"}
      /\ next.pc = "running" => next.at \in 1..Len(series)
      /\ Shown(c, j) \in Nat /\ Shown(c, j) < Publishing!Pieces(c)
      /\ Shown(c, next) = IF shows THEN Shown(c, j) + 1 ELSE Shown(c, j)
  BY <1>1, CallForward DEF PublishInv
<1>6. live = [live EXCEPT ![c] = live[c]]
  BY <1>2
<1>7. ASSUME Goes(Publishing!Advanced(c)),
             \/ shows /\ Shows /\ unsure' = unsure
             \/ ~shows /\ Same
      PROVE  PublishInv'
  <2> DEFINE next == Publishing!Advanced(c)
             n == IF shows THEN live[c] + 1 ELSE live[c]
  <2>1. live' = [live EXCEPT ![c] = n] /\ unsure' = unsure
    BY <1>6, <1>7
  <2> HIDE DEF next
  <2>2. Most(c, next) = Shown(c, next) /\ next.pc # "failed"
    BY <1>5 DEF Most, next
  <2>3. /\ n \in Nat /\ n >= Shown(c, next) /\ n <= Earlier(c) + Most(c, next)
        /\ c \notin unsure => Certain(c, next, n)
    <3> DEFINE s == Shown(c, j)
               t == Shown(c, next)
    <3>1. s \in Nat /\ t = IF shows THEN s + 1 ELSE s
      BY <1>5 DEF next
    <3>2. live[c] >= s /\ live[c] <= Earlier(c) + s /\ (c \notin unsure => live[c] = s)
      BY <1>2
    <3> HIDE DEF s, t, shows, j
    <3>3. n \in Nat /\ n >= t /\ n <= Earlier(c) + t /\ (c \notin unsure => n = t)
      BY <1>2, <1>4, <3>1, <3>2
    <3> QED BY <2>2, <3>3 DEF Certain, t
  <2>4. /\ next \in PublishJob /\ next.pc \in {"running", "done"}
        /\ next.pc = "running" => next.at \in 1..Len(series)
    BY <1>5 DEF next
  <2>5. Goes(next)
    BY <1>7 DEF next
  <2> HIDE DEF n
  <2> QED BY <1>1, <2>1, <2>3, <2>4, <2>5, ChannelFrame
<1>8. ASSUME Publishing!Fails(c),
             \/ Same
             \/ Shows /\ unsure' = unsure \cup {c}
      PROVE  PublishInv'
  <2> DEFINE next == [j EXCEPT !.pc = "failed"]
             n == IF Same THEN live[c] ELSE live[c] + 1
  <2>1. /\ live' = [live EXCEPT ![c] = n]
        /\ Goes(next)
    BY <1>6, <1>8 DEF Publishing!Fails, Publishing!Becomes, Publishing!Failed
  <2>2. next \in PublishJob /\ next.pc = "failed"
    BY <1>1 DEF PublishJob
  <2> HIDE DEF next
  <2>3. Shown(c, next) = 0 /\ Most(c, next) = Publishing!Pieces(c)
    BY <2>2 DEF Shown, Most
  <2>4. /\ n \in Nat /\ n >= Shown(c, next) /\ n <= Earlier(c) + Most(c, next)
        /\ Same /\ c \notin unsure => Certain(c, next, n)
    <3> DEFINE s == Shown(c, j)
    <3>1. /\ s \in Nat /\ s < Publishing!Pieces(c)
          /\ live[c] <= Earlier(c) + s /\ (c \notin unsure => live[c] = s)
      BY <1>2, <1>5
    <3> HIDE DEF s, j
    <3>2. n \in Nat /\ n >= 0 /\ n <= Earlier(c) + Publishing!Pieces(c)
      BY <1>2, <1>3, <1>4, <3>1
    <3>3. Same /\ c \notin unsure =>
              n = 0 \/ (c = "instagram_story" /\ n < Publishing!Pieces(c))
      BY <1>2, <1>3, <3>1
    <3> QED BY <2>2, <2>3, <3>2, <3>3 DEF Certain
  <2>5. \/ unsure' = unsure /\ (c \notin unsure => Certain(c, next, n))
        \/ unsure' = unsure \cup {c}
    BY <1>8, <2>4
  <2> HIDE DEF n
  <2> QED BY <1>1, <2>1, <2>2, <2>4, <2>5, ChannelFrame
<1>9. ASSUME NEW next \in PublishJob, Goes(next), Same, next.pc = "running",
             next.at \in 1..Len(series), Shown(c, next) = Shown(c, j)
      PROVE  PublishInv'
  <2> DEFINE n == live[c]
  <2>1. Most(c, next) = Shown(c, next) /\ (c \notin unsure => Certain(c, next, n))
    BY <1>2, <1>9 DEF Most, Certain
  <2>2. n \in Nat /\ n >= Shown(c, next) /\ n <= Earlier(c) + Most(c, next)
    BY <1>2, <1>9, <2>1
  <2>3. live' = [live EXCEPT ![c] = n] /\ unsure' = unsure
    BY <1>6, <1>9
  <2> HIDE DEF n
  <2> QED BY <1>1, <1>9, <2>1, <2>2, <2>3, ChannelFrame
<1>10. ASSUME Goes([j EXCEPT !.tries = 1]), Same
       PROVE  PublishInv'
  <2> DEFINE next == [j EXCEPT !.tries = 1]
  <2>1. next \in PublishJob /\ next.pc = "running" /\ next.at = j.at
    BY <1>1 DEF PublishJob
  <2> HIDE DEF next
  <2>2. Shown(c, next) = Shown(c, j)
    BY <1>1, <2>1 DEF Shown
  <2>3. Goes(next)
    BY <1>10 DEF next
  <2> QED BY <1>2, <1>9, <1>10, <2>1, <2>2, <2>3
<1>11. ASSUME Goes(Publishing!NotShared(c)), Same, series[j.at] = "wait", Publishing!Reel(c)
       PROVE  PublishInv'
  <2> DEFINE next == [j EXCEPT !.at = j.at - 1, !.tries = 0, !.share = FALSE]
  <2>1. c = "instagram_post" /\ Goes(next)
    BY <1>11 DEF Publishing!Reel, Publishing!NotShared
  <2>2. j.at # 1
    BY <1>11, <2>1, PostCalls DEF PublishInv, PublishType
  <2>3. j.at - 1 \in Nat /\ j.at - 1 \in 1..Len(series)
    <3>1. Len(series) \in Nat
      BY <2>1, PostCalls DEF PublishInv, PublishType
    <3> DEFINE at == j.at
    <3> HIDE DEF at
    <3>2. at \in 1..Len(series) /\ at # 1
      BY <1>2, <2>2 DEF at
    <3>3. at - 1 \in Nat /\ at - 1 \in 1..Len(series)
      BY <3>1, <3>2
    <3> QED BY <3>3 DEF at
  <2>4. next \in PublishJob /\ next.pc = "running" /\ next.at = j.at - 1
    BY <1>1, <2>3 DEF PublishJob
  <2> HIDE DEF next
  <2>5. Shown(c, next) = Shown(c, j)
    BY <1>1, <2>1, <2>4 DEF Shown
  <2> QED BY <1>9, <1>11, <2>1, <2>3, <2>4, <2>5, ZenonT(60)
<1>12. CASE Publishing!Prepare(c)
  BY <1>1, <1>7, <1>8, <1>12 DEF Publishing!Prepare, Publishing!Calling, Publishing!Becomes
<1>13. CASE Publishing!wait_for_media_container_ready(c)
  BY <1>1, <1>7, <1>8, <1>10, <1>11, <1>13
     DEF Publishing!wait_for_media_container_ready, Publishing!Calling, Publishing!Becomes
<1>14. CASE Publishing!publish_media(c)
  BY <1>1, <1>7, <1>8, <1>10, <1>14
     DEF Publishing!publish_media, Publishing!Calling, Publishing!Becomes, Publishing!Shows
<1>15. CASE Publishing!PostToPage(c)
  BY <1>1, <1>7, <1>8, <1>15
     DEF Publishing!PostToPage, Publishing!Calling, Publishing!Becomes, Publishing!Shows
<1> QED BY <1>12, <1>13, <1>14, <1>15 DEF Publishing!ChannelStep


\* Every step keeps the invariant of publishing.
LEMMA PublishStep ==
    ASSUME PublishInv, Publishing!Next
    PROVE  PublishInv'
<1>0. /\ job \in [Publishing!Channels -> PublishJob] /\ live \in [Publishing!Channels -> Nat]
      /\ runs \in Nat \ {0} /\ Publishing!Media \in Nat \ {0}
      /\ results \cup errors \subseteq Publishing!wanted
  BY DEF PublishInv, PublishType, Collects
<1>1. /\ Publishing!Media' = Publishing!Media /\ Publishing!wanted' = Publishing!wanted
      /\ \A d : Publishing!Pieces(d)' = Publishing!Pieces(d)
      /\ \A d : Publishing!Calls(d)' = Publishing!Calls(d)
  <2>1. request' = request
    BY DEF Publishing!Next, Publishing!Step, Publishing!ChannelStep, Publishing!Preflight,
           Publishing!Answer, Publishing!Start, Publishing!Collect, Publishing!CollectTimesOut,
           Publishing!Prepare, Publishing!wait_for_media_container_ready,
           Publishing!publish_media, Publishing!PostToPage, Publishing!HandlerDies,
           Publishing!WorkerDies
  <2> QED BY <2>1, SameRequest
\* What a step keeps of the publications when it touches none of them.
<1>t. ASSUME UNCHANGED <<request, job, live, runs>>, unsure \subseteq unsure'
      PROVE  PublishType' /\ LiveIsShown'
  <2>1. PublishType'
    BY <1>t, <1>1 DEF PublishInv, PublishType
  <2>2. LiveIsShown'
    BY <1>t, <1>1 DEF PublishInv, LiveIsShown, Shown, Most, Earlier, Certain
  <2> QED BY <2>1, <2>2
<1>2. CASE Publishing!Preflight
  <2>1. Collects'
    BY <1>1, <1>2 DEF Publishing!Preflight, PublishInv, Collects
  <2> QED BY <1>2, <1>t, <2>1 DEF Publishing!Preflight, PublishInv
<1>3. CASE Publishing!Answer
  <2>1. Collects'
    BY <1>1, <1>3 DEF Publishing!Answer, Publishing!Collected, PublishInv, Collects
  <2> QED BY <1>3, <1>t, <2>1 DEF Publishing!Answer, PublishInv
<1>4. CASE Publishing!HandlerDies
  <2>1. Collects'
    BY <1>1, <1>4 DEF Publishing!HandlerDies, PublishInv, Collects
  <2> QED BY <1>4, <1>t, <2>1 DEF Publishing!HandlerDies, PublishInv
<1>5. ASSUME NEW c \in Publishing!Channels, Publishing!Collect(c)
      PROVE  PublishInv'
  <2>1. Collects'
    BY <1>1, <1>5 DEF Publishing!Collect, Publishing!IsNext, PublishInv, Collects
  <2> QED BY <1>5, <1>t, <2>1 DEF Publishing!Collect, PublishInv
<1>6. ASSUME NEW c \in Publishing!Channels, Publishing!CollectTimesOut(c)
      PROVE  PublishInv'
  <2>1. Collects'
    BY <1>1, <1>6 DEF Publishing!CollectTimesOut, Publishing!IsNext, PublishInv, Collects
  <2> QED BY <1>6, <1>t, <2>1 DEF Publishing!CollectTimesOut, PublishInv
<1>7. ASSUME NEW c \in Publishing!Channels, Publishing!Start(c)
      PROVE  PublishInv'
  <2> DEFINE j == job[c]
             next == [j EXCEPT !.pc = IF Publishing!Impossible(c) THEN "failed" ELSE "running"]
             n == live[c]
  <2>1. /\ phase = "serve" /\ j.pc = "todo" /\ j \in PublishJob /\ j.at = 1
        /\ UNCHANGED <<request, phase, results, errors, live, runs, unsure>>
        /\ job' = [job EXCEPT ![c] = next] /\ live' = [live EXCEPT ![c] = n] /\ n \in Nat
    BY <1>0, <1>7 DEF Publishing!Start, PublishInv, PublishType
  <2>2. next \in PublishJob /\ next.pc \in {"failed", "running"} /\ next.at = 1
    BY <2>1 DEF PublishJob
  <2>3. /\ Len(Publishing!Calls(c)) \in Nat \ {0}
        /\ Publishing!Pieces(c) \in Nat \ {0}
    <3>1. CASE c = "instagram_story"
      BY <1>0, <3>1, StoryCalls DEF Publishing!Pieces
    <3>2. CASE c # "instagram_story"
      BY <1>0, <3>2, PostCalls, PieceFacts DEF Publishing!Channels
    <3> QED BY <3>1, <3>2
  <2>4. n <= Earlier(c) /\ (c \notin unsure => n = 0)
    <3>1. Earlier(c) \in Nat
      BY <1>0, <2>3 DEF Earlier
    <3>2. Shown(c, job[c]) = 0 /\ Most(c, job[c]) = 0
      BY <2>1 DEF Shown, Most
    <3> QED BY <2>1, <3>1, <3>2 DEF PublishInv, LiveIsShown, Certain
  <2> HIDE DEF next
  <2>5. Shown(c, next) = 0 /\ Most(c, next) \in {0, Publishing!Pieces(c)}
    <3>1. (1 - 1) \div 3 = 0
      OBVIOUS
    <3> QED BY <2>2, <3>1 DEF Shown, Most
  <2>6. Earlier(c) \in Nat
    BY <1>0, <2>3 DEF Earlier
  <2> HIDE DEF n
  <2>7. /\ n >= Shown(c, next) /\ n <= Earlier(c) + Most(c, next)
        /\ c \notin unsure => Certain(c, next, n)
    BY <2>1, <2>2, <2>3, <2>4, <2>5, <2>6 DEF Certain
  <2>8. /\ job[c].pc \in {"todo", "running"} /\ next.pc # "todo"
        /\ next.at \in 1..Len(Publishing!Calls(c))
        /\ UNCHANGED <<request, phase, results, errors, runs>>
        /\ unsure' = unsure
    BY <2>1, <2>2, <2>3
  <2> HIDE DEF j
  <2> QED BY <2>1, <2>2, <2>7, <2>8, ChannelFrame
<1>8. CASE Publishing!WorkerDies
  <2>1. /\ job' = [c \in Publishing!Channels |-> Publishing!Todo] /\ runs' = runs + 1
        /\ results' = {} /\ errors' = {} /\ phase' = "preflight"
        /\ request' = request /\ live' = live
        /\ unsure' = {c \in Publishing!Channels : live[c] > 0}
    BY <1>8 DEF Publishing!WorkerDies
  <2>2. PublishType'
    BY <1>0, <1>1, <2>1 DEF PublishInv, PublishType, PublishJob, Publishing!Todo
  <2>3. LiveIsShown'
    <3> SUFFICES ASSUME NEW c \in Publishing!Channels
                 PROVE  /\ live[c] >= Shown(c, job[c])'
                        /\ live[c] <= Earlier(c)' + Most(c, job[c])'
                        /\ c \notin unsure' => Certain(c, job[c], live[c])'
      BY <2>1 DEF LiveIsShown
    <3>1. Publishing!Pieces(c) \in Nat
      BY <1>0, PieceFacts
    <3>2. Earlier(c)' = Earlier(c) + Publishing!Pieces(c) /\ Earlier(c) \in Nat
      <4> DEFINE p == Publishing!Pieces(c)
      <4> HIDE DEF p
      <4>1. p \in Nat
        BY <3>1 DEF p
      <4>2. ((runs + 1) - 1) * p = (runs - 1) * p + p /\ (runs - 1) * p \in Nat
        BY <1>0, <4>1
      <4>3. Earlier(c) = (runs - 1) * p
        BY DEF Earlier, p
      <4>4. Publishing!Pieces(c)' = p /\ runs' = runs + 1
        BY <1>1, <2>1 DEF p
      <4>5. Earlier(c)' = (runs' - 1) * p
        BY <4>4, Zenon DEF Earlier
      <4>6. Earlier(c)' = ((runs + 1) - 1) * p
        BY <4>4, <4>5, Zenon
      <4>7. Earlier(c)' = Earlier(c) + p /\ Earlier(c) \in Nat
        BY <4>2, <4>3, <4>6
      <4> QED BY <4>7 DEF p
    <3>3. Shown(c, job[c])' = 0 /\ Most(c, job[c])' = 0 /\ job'[c].pc = "todo"
      BY <2>1 DEF Shown, Most, Publishing!Todo
    <3>4. Most(c, job[c]) <= Publishing!Pieces(c) /\ Most(c, job[c]) \in Nat
      BY <1>0, <3>1, CallForward DEF PublishInv, Most, Shown
    <3>5. live[c] \in Nat /\ live[c] <= Earlier(c) + Most(c, job[c])
      BY <1>0 DEF PublishInv, LiveIsShown
    <3>6. live[c] <= Earlier(c)' + 0
      BY <3>1, <3>2, <3>4, <3>5
    <3>7. c \notin unsure' => live[c] = 0
      BY <2>1, <3>5
    <3>8. c \notin unsure' => Certain(c, job[c], live[c])'
      BY <2>1, <3>3, <3>7 DEF Certain
    <3> QED BY <3>3, <3>5, <3>6, <3>8
  <2>4. Collects'
    BY <2>1 DEF Collects
  <2> QED BY <2>2, <2>3, <2>4 DEF PublishInv
<1> QED BY <1>2, <1>3, <1>4, <1>5, <1>6, <1>7, <1>8, ChannelCalls
        DEF Publishing!Next, Publishing!Step


\* The invariant of publishing holds at the start.
LEMMA InitPublish ==
    ASSUME Publishing!Init
    PROVE  PublishInv
<1>1. /\ request \in Publishing!Requests /\ Publishing!Media \in Nat \ {0}
      /\ job = [c \in Publishing!Channels |-> Publishing!Todo]
      /\ results = {} /\ errors = {} /\ phase = "preflight"
      /\ live = [c \in Publishing!Channels |-> 0] /\ runs = 1
  BY DEF Publishing!Init, Publishing!Media
<1>2. PublishType
  BY <1>1 DEF PublishType, PublishJob, Publishing!Todo
<1>3. LiveIsShown
  <2> SUFFICES ASSUME NEW c \in Publishing!Channels
               PROVE  /\ live[c] >= Shown(c, job[c])
                      /\ live[c] <= Earlier(c) + Most(c, job[c])
                      /\ Certain(c, job[c], live[c])
    BY DEF LiveIsShown
  <2>1. Earlier(c) = 0
    <3>1. Publishing!Pieces(c) \in Nat
      BY <1>1, PieceFacts
    <3> QED BY <1>1, <3>1 DEF Earlier
  <2>2. /\ live[c] = 0 /\ job[c].pc = "todo"
        /\ Shown(c, job[c]) = 0 /\ Most(c, job[c]) = 0
    BY <1>1 DEF Shown, Most, Publishing!Todo
  <2>3. Certain(c, job[c], live[c])
    BY <2>2 DEF Certain
  <2> QED BY <2>1, <2>2, <2>3
<1>4. Collects
  BY <1>1 DEF Collects
<1> QED BY <1>2, <1>3, <1>4 DEF PublishInv

\* The invariant of publishing holds always.
THEOREM PublishKept == Spec => [](part = "publishing" => PublishInv)
<1>1. Init => (part = "publishing" => PublishInv)
  BY InitPublish DEF Init
<1>2. (part = "publishing" => PublishInv) /\ [Next]_vars => (part = "publishing" => PublishInv)'
  <2> SUFFICES ASSUME part = "publishing" => PublishInv, [Next]_vars, part' = "publishing"
               PROVE  PublishInv'
    OBVIOUS
  <2>1. part = "publishing" /\ (Publishing!Next \/ UNCHANGED Publishing!vars)
    BY StepOfPart
  <2>2. CASE Publishing!Next
    BY <2>1, <2>2, PublishStep
  <2>3. CASE UNCHANGED Publishing!vars
    <3>1. UNCHANGED <<request, phase, job, results, errors, live, runs, unsure>>
      BY <2>3 DEF Publishing!vars
    <3>2. PublishType' /\ LiveIsShown' /\ Collects'
      BY <2>1, <3>1, SameRequest DEF PublishInv, PublishType, LiveIsShown, Collects, Shown, Most,
         Earlier, Certain
    <3> QED BY <3>2 DEF PublishInv
  <2> QED BY <2>1, <2>2, <2>3
<1> QED BY <1>1, <1>2, PTL DEF Spec

\* However often a request is delivered, no delivery publishes a medium twice: not
\* publish_media's second attempt, nor the container that is created once more.
THEOREM NothingPublishedTwice == Spec => []NothingTwice
<1>1. ASSUME part = "publishing" => PublishInv
      PROVE  NothingTwice
  <2> SUFFICES ASSUME part = "publishing", NEW c \in Publishing!Channels
               PROVE  live[c] <= runs * Publishing!Pieces(c)
    BY DEF NothingTwice, Publishing!NothingTwice
  <2>1. /\ job[c] \in PublishJob /\ runs \in Nat \ {0} /\ live[c] \in Nat
        /\ live[c] <= Earlier(c) + Most(c, job[c])
        /\ Publishing!Pieces(c) \in Nat
    BY <1>1, PieceFacts DEF PublishInv, PublishType, LiveIsShown
  <2>2. Most(c, job[c]) <= Publishing!Pieces(c) /\ Most(c, job[c]) \in Nat
    BY <1>1, <2>1, CallForward DEF PublishInv, Most, Shown
  <2> DEFINE p == Publishing!Pieces(c)
             m == Most(c, job[c])
  <2>3. Earlier(c) = (runs - 1) * p
    BY DEF Earlier
  <2> HIDE DEF p, m
  <2>4. runs * p = (runs - 1) * p + p /\ (runs - 1) * p \in Nat
    BY <2>1 DEF p
  <2>5. m <= p /\ m \in Nat /\ p \in Nat /\ live[c] <= Earlier(c) + m
    BY <2>1, <2>2 DEF p, m
  <2>6. live[c] <= runs * p
    BY <2>1, <2>3, <2>4, <2>5
  <2> QED BY <2>6 DEF p
<1> QED BY <1>1, PublishKept, PTL

\* What the answer says of each channel is true, of errors where no response was lost
\* or late and no worker died.
THEOREM AnswersTrue == Spec => []AnswersHold
<1>1. ASSUME part = "publishing" => PublishInv
      PROVE  AnswersHold
  <2> SUFFICES ASSUME part = "publishing", phase = "answered"
               PROVE  /\ \A c \in results : live[c] >= Publishing!Pieces(c)
                      /\ Publishing!success => results = Publishing!wanted
                      /\ \A c \in errors \ unsure :
                            \/ live[c] = 0
                            \/ c = "instagram_story" /\ live[c] < Publishing!Pieces(c)
    BY DEF AnswersHold, Publishing!AnswersHold
  <2>1. results \cup errors \subseteq Publishing!Channels
    BY <1>1 DEF PublishInv, PublishType, Collects, Publishing!Requests, Publishing!wanted
  <2>2. ASSUME NEW c \in results
        PROVE  live[c] >= Publishing!Pieces(c)
    <3>1. Shown(c, job[c]) = Publishing!Pieces(c)
      BY <1>1 DEF PublishInv, Collects, Shown
    <3> QED BY <1>1, <2>1, <3>1 DEF PublishInv, LiveIsShown
  <2>3. Publishing!success => results = Publishing!wanted
    BY <1>1 DEF PublishInv, Collects, Publishing!success
  <2>4. ASSUME NEW c \in errors \ unsure
        PROVE  \/ live[c] = 0
               \/ c = "instagram_story" /\ live[c] < Publishing!Pieces(c)
    BY <1>1, <2>1 DEF PublishInv, LiveIsShown, Collects, Certain
  <2> QED BY <2>2, <2>3, <2>4
<1> QED BY <1>1, PublishKept, PTL

-----------------------------------------------------------------------------
(* The chat: what "this product" is, and what an answer rests on           *)

Labels == Products \cup {"none"}
Subjects == SUBSET (Products \cup {"this"})
Found == {"rows", "blank", "none", "error", "refused"}
Block == [found: Found, matches: BOOLEAN, reach: {"scope", "beyond", "all"}]

Routing ==
    [pc: {"route", "record"}, session: Conversation!Sessions, question: Subjects,
     parts: Seq(Subjects), label: Labels, blind: BOOLEAN, rewritten: BOOLEAN,
     blocks: Seq(Block)]

ChatType ==
    /\ open \subseteq Conversation!Sessions
    /\ turns \in [Conversation!Sessions -> Seq(Labels)]
    /\ meant \in [Conversation!Sessions -> SUBSET Labels]
    /\ index \subseteq Products
    /\ \A w \in sync : w[2] \in Products
    /\ \/ job = Conversation!Idle
       \/ job \in [pc: {"action", "chat"}, session: Conversation!Sessions, question: Subjects]
       \/ job \in Routing
    /\ job.pc = "route" => job.parts # <<>>

\* The label the memory answers is one a user may think of, in every session that was
\* ever opened, and nothing is recorded in the others.
Remembers ==
    /\ \A s \in Conversation!Sessions :
           IF meant[s] = {} THEN turns[s] = <<>>
           ELSE Conversation!conversation_context(s) \in meant[s]
    /\ \A s \in open : meant[s] # {}

\* So is the one the question in hand goes by.
OfSession ==
    /\ job # Conversation!Idle => meant[job.session] # {}
    /\ Conversation!TopicKept

\* What the cache keeps for a question was found for that question and that scope, by a
\* query that names a parameter.
CacheTells == \A entry \in cache : entry[1] = entry[2] /\ entry[3] \in {"scope", "beyond"}

\* And so is what was found for the parts of the question in hand; a question of one part
\* that is refused goes no further.
BlocksTell ==
    /\ job.pc \in {"route", "record"} =>
           \A i \in 1..Len(job.blocks) :
               job.blocks[i].found = "rows" =>
                   job.blocks[i].matches /\ job.blocks[i].reach # "all"
    /\ job.pc = "record" /\ Len(job.blocks) = 1 => job.blocks[1].found # "refused"

ChatInv == ChatType /\ Remembers /\ OfSession /\ CacheTells /\ BlocksTell

\* Numbers have a least one, and bounded ones a greatest.
LEMMA Least ==
    ASSUME NEW S \in SUBSET Nat, S # {}
    PROVE  \E x \in S : \A y \in S : x <= y
<1>1. IsWellFoundedOn(OpToRel(<, Nat), Nat)
  BY NatLessThanWellFounded
<1>2. PICK x \in S : \A y \in S : ~(<<y, x>> \in OpToRel(<, Nat))
  BY <1>1, WFMin
<1>3. \A y \in S : ~(y < x)
  BY <1>2 DEF OpToRel
<1> QED BY <1>3

\* Of finitely many positions one is the last.
LEMMA Greatest ==
    ASSUME NEW n \in Nat, NEW S \in SUBSET (1..n), S # {}
    PROVE  \E x \in S : \A y \in S : y <= x
<1> DEFINE T == {n - x : x \in S}
<1>0. \A x \in S : n - x \in Nat
  OBVIOUS
<1>1. T \in SUBSET Nat /\ T # {}
  BY <1>0
<1> HIDE DEF T
<1>2. PICK t \in T : \A u \in T : t <= u
  BY <1>1, Least
<1>3. PICK x \in S : t = n - x
  BY <1>2 DEF T
<1>4. \A y \in S : n - y \in T
  BY DEF T
<1>5. \A y \in S : y <= x
  BY <1>2, <1>3, <1>4
<1> QED BY <1>5

\* A turn that is recorded is the one the session remembers, if it has a label; the
\* other sessions remember what they did.
LEMMA TurnRecorded ==
    ASSUME ChatType, NEW s \in Conversation!Sessions, NEW label \in Labels,
           turns' = [turns EXCEPT ![s] = Append(@, label)]
    PROVE  /\ turns' \in [Conversation!Sessions -> Seq(Labels)]
           /\ \A r \in Conversation!Sessions \ {s} :
                  turns'[r] = turns[r] /\
                  Conversation!conversation_context(r)' = Conversation!conversation_context(r)
           /\ Conversation!conversation_context(s)' =
                  IF label = "none" THEN Conversation!conversation_context(s) ELSE label
<1>1. turns \in [Conversation!Sessions -> Seq(Labels)]
  BY DEF ChatType
<1>2. \A r \in Conversation!Sessions \ {s} : turns'[r] = turns[r]
  BY <1>1
<1>3. ASSUME NEW r \in Conversation!Sessions \ {s}
      PROVE  Conversation!conversation_context(r)' = Conversation!conversation_context(r)
  BY <1>2 DEF Conversation!conversation_context, Conversation!LabelsOf
<1> DEFINE old == turns[s]
           new == turns'[s]
           before == Conversation!LabelsOf(s)
           after == {k \in 1..Len(new) : new[k] # "none"}
<1>4. /\ old \in Seq(Labels) /\ new = Append(old, label) /\ new \in Seq(Labels)
      /\ Len(old) \in Nat /\ Len(new) = Len(old) + 1 /\ new[Len(old) + 1] = label
      /\ \A k \in 1..Len(old) : new[k] = old[k]
  BY <1>1
<1>5. before = {k \in 1..Len(old) : old[k] # "none"} /\ Conversation!LabelsOf(s)' = after
  BY DEF Conversation!LabelsOf
<1>6. CASE label = "none"
  <2>1. after = before
    BY <1>4, <1>5, <1>6
  <2>2. \A k \in before : new[k] = old[k]
    BY <1>4, <1>5
  <2> DEFINE last_of(S) == CHOOSE k \in S : \A j \in S : j <= k
  <2>3. before \in SUBSET (1..Len(old))
    BY <1>5
  <2>4. before # {} => last_of(before) \in before
    BY <2>3, <1>4, Greatest
  <2>5. Conversation!conversation_context(s) = IF before = {} THEN "none" ELSE old[last_of(before)]
    BY DEF Conversation!conversation_context
  <2>6. Conversation!conversation_context(s)' =
            IF after = {} THEN "none"
            ELSE new[last_of(after)]
    BY <1>5 DEF Conversation!conversation_context
  <2> HIDE DEF before, after, last_of
  <2>7. last_of(after) = last_of(before)
    BY <2>1, Zenon
  <2> DEFINE k == last_of(before)
  <2>8. /\ before # {} => k \in before
        /\ Conversation!conversation_context(s) = IF before = {} THEN "none" ELSE old[k]
        /\ Conversation!conversation_context(s)' = IF before = {} THEN "none" ELSE new[k]
    BY <2>1, <2>4, <2>5, <2>6, <2>7
  <2> HIDE DEF k, old, new
  <2>9. Conversation!conversation_context(s)' = Conversation!conversation_context(s)
    BY <2>2, <2>8
  <2> QED BY <1>1, <1>2, <1>3, <1>4, <1>6, <2>9
<1>7. CASE label # "none"
  <2>1. Len(old) + 1 \in after /\ \A j \in after : j <= Len(old) + 1 /\ j \in Nat
    BY <1>4, <1>7
  <2>2. (CHOOSE k \in after : \A j \in after : j <= k) = Len(old) + 1
    BY <2>1, <1>4
  <2>3. Conversation!conversation_context(s)' = label
    BY <1>4, <1>5, <2>1, <2>2 DEF Conversation!conversation_context
  <2> QED BY <1>1, <1>2, <1>3, <1>4, <1>7, <2>3
<1> QED BY <1>6, <1>7


\* A session that is asked in is one, and what its turns remember is what a user may
\* think of, if there are any.
LEMMA EnsuredSession ==
    ASSUME ChatType, Remembers, NEW s \in Conversation!Sessions,
           s \in open \/ \E n \in Conversation!Sessions : meant[n] = {}
    PROVE  /\ Conversation!ensure_session(s) \in Conversation!Sessions
           /\ s \in open => Conversation!ensure_session(s) = s
<1>1. CASE s \in open
  BY <1>1 DEF Conversation!ensure_session
<1>2. CASE s \notin open
  <2> DEFINE unused == {n \in Conversation!Sessions : meant[n] = {}}
  <2>1. unused \in SUBSET Nat /\ unused # {}
    BY <1>2, ServicesAssumption DEF Conversation!Sessions
  <2>2. PICK n \in unused : \A m \in unused : n <= m
    BY <2>1, Least
  <2>3. n \in Conversation!Sessions /\ meant[n] = {} /\ \A m \in 1..n - 1 : meant[m] # {}
    BY <2>2, ServicesAssumption DEF Conversation!Sessions
  <2>4. Conversation!ensure_session(s) =
            CHOOSE r \in Conversation!Sessions :
                meant[r] = {} /\ \A m \in 1..r - 1 : meant[m] # {}
    BY <1>2 DEF Conversation!ensure_session
  <2> QED BY <1>2, <2>3, <2>4
<1> QED BY <1>1, <1>2

\* What a user may think of grows, or becomes the label the turn is recorded with.
LEMMA Thought ==
    ASSUME ChatType, job # Conversation!Idle, NEW label \in Labels, NEW plain \in BOOLEAN,
           Conversation!Thinks(label, plain)
    PROVE  /\ meant' \in [Conversation!Sessions -> SUBSET Labels]
           /\ job.session \in Conversation!Sessions
           /\ \A r \in Conversation!Sessions \ {job.session} : meant'[r] = meant[r]
           /\ plain => meant'[job.session] = {label}
           /\ ~plain => /\ meant[job.session] \subseteq meant'[job.session]
                        /\ label # "none" => label \in meant'[job.session]
<1>1. job.session \in Conversation!Sessions /\ job.question \in Subjects
  BY DEF ChatType, Routing
<1>2. Conversation!Named \subseteq Labels
  BY <1>1 DEF Conversation!Named, Labels
<1>3. meant' = [meant EXCEPT ![job.session] =
                    IF plain THEN {label}
                    ELSE @ \cup Conversation!Named \cup ({label} \ {"none"})]
  BY DEF Conversation!Thinks
<1>4. meant \in [Conversation!Sessions -> SUBSET Labels]
  BY DEF ChatType
<1>5. meant[job.session] \in SUBSET Labels
  BY <1>1, <1>4
<1> HIDE DEF Labels
<1> QED BY <1>1, <1>2, <1>3, <1>4, <1>5

\* The sessions remember what is thought of, behind a turn and behind a lost one.
LEMMA StillRemembers ==
    ASSUME ChatInv, job # Conversation!Idle, open' = open,
           NEW label \in Labels, NEW plain \in BOOLEAN, plain => label # "none",
           \/ Conversation!record_turn(label, plain)
           \/ Conversation!TurnIsLost(label)
           \/ Conversation!Thinks(label, FALSE) /\ turns' = turns
    PROVE  /\ turns' \in [Conversation!Sessions -> Seq(Labels)]
           /\ meant' \in [Conversation!Sessions -> SUBSET Labels]
           /\ meant'[job.session] # {}
           /\ Remembers'
<1>0. PICK s \in Conversation!Sessions : s = job.session
  BY DEF ChatInv, ChatType, Routing
<1>1. /\ ChatType /\ s \in Conversation!Sessions /\ meant[s] # {}
      /\ Conversation!conversation_context(s) \in meant[s]
      /\ \A r \in Conversation!Sessions :
             IF meant[r] = {} THEN turns[r] = <<>>
             ELSE Conversation!conversation_context(r) \in meant[r]
      /\ \A r \in open : meant[r] # {} /\ r \in Conversation!Sessions
  BY <1>0 DEF ChatInv, OfSession, Remembers, ChatType, Routing
<1>2. CASE Conversation!record_turn(label, plain)
  <2>1. turns' = [turns EXCEPT ![s] = Append(@, label)] /\ Conversation!Thinks(label, plain)
    BY <1>0, <1>2 DEF Conversation!record_turn
  <2>2. /\ turns' \in [Conversation!Sessions -> Seq(Labels)]
        /\ \A r \in Conversation!Sessions \ {s} :
               turns'[r] = turns[r] /\
               Conversation!conversation_context(r)' = Conversation!conversation_context(r)
        /\ Conversation!conversation_context(s)' =
               IF label = "none" THEN Conversation!conversation_context(s) ELSE label
    BY <1>1, <2>1, TurnRecorded
  <2>3. /\ meant' \in [Conversation!Sessions -> SUBSET Labels]
        /\ \A r \in Conversation!Sessions \ {s} : meant'[r] = meant[r]
        /\ plain => meant'[s] = {label}
        /\ ~plain => /\ meant[s] \subseteq meant'[s]
                     /\ label # "none" => label \in meant'[s]
    BY <1>0, <1>1, <2>1, Thought
  <2>4. Conversation!conversation_context(s)' \in meant'[s]
    BY <1>1, <2>2, <2>3
  <2>5. \A r \in Conversation!Sessions :
            IF meant'[r] = {} THEN turns'[r] = <<>>
            ELSE Conversation!conversation_context(r)' \in meant'[r]
    BY <1>1, <2>2, <2>3, <2>4
  <2>6. \A r \in open : meant'[r] # {}
    BY <1>1, <2>3, <2>4
  <2> QED BY <1>0, <2>2, <2>3, <2>4, <2>5, <2>6 DEF Remembers
<1>3. CASE Conversation!Thinks(label, FALSE) /\ turns' = turns
  <2>1. /\ meant' \in [Conversation!Sessions -> SUBSET Labels]
        /\ \A r \in Conversation!Sessions \ {s} : meant'[r] = meant[r]
        /\ meant[s] \subseteq meant'[s]
    BY <1>0, <1>1, <1>3, Thought
  <2>2. \A r \in Conversation!Sessions :
            Conversation!conversation_context(r)' = Conversation!conversation_context(r)
    BY <1>3 DEF Conversation!conversation_context, Conversation!LabelsOf
  <2>3. \A r \in Conversation!Sessions :
            IF meant'[r] = {} THEN turns'[r] = <<>>
            ELSE Conversation!conversation_context(r)' \in meant'[r]
    BY <1>1, <1>3, <2>1, <2>2
  <2>4. \A r \in open : meant'[r] # {}
    BY <1>1, <2>1
  <2> QED BY <1>0, <1>1, <1>3, <2>1, <2>3, <2>4 DEF Remembers, ChatType
<1>4. Conversation!TurnIsLost(label) => Conversation!Thinks(label, FALSE) /\ turns' = turns
  BY DEF Conversation!TurnIsLost
<1> QED BY <1>2, <1>3, <1>4


\* A question that goes to the router goes by what its session remembers, or by nothing.
LEMMA Routes ==
    ASSUME NEW s \in Conversation!Sessions, NEW q \in Subjects,
           Conversation!conversation_context(s) \in Labels, Conversation!Context(s, q)
    PROVE  /\ job' \in Routing /\ job'.pc = "route" /\ job'.parts # <<>> /\ job'.blocks = <<>>
           /\ job'.session = s
           /\ job'.blind \/ job'.label = Conversation!conversation_context(s)
<1>1. \A parts \in Conversation!Parts(q) : parts \in Seq(Subjects) /\ parts # <<>>
  <2>1. <<q>> \in Seq(Subjects) /\ <<q>> # <<>>
    OBVIOUS
  <2>2. ASSUME NEW x \in q \X q
        PROVE  <<{x[1]}, {x[2]}>> \in Seq(Subjects) /\ <<{x[1]}, {x[2]}>> # <<>>
    <3>1. {x[1]} \in Subjects /\ {x[2]} \in Subjects
      BY DEF Subjects
    <3> HIDE DEF Subjects
    <3> QED BY <3>1
  <2> QED BY <2>1, <2>2 DEF Conversation!Parts
<1>2. PICK parts \in Seq(Subjects) \ {<<>>}, label \in Labels, blind \in BOOLEAN :
          /\ job' = [pc |-> "route", session |-> s, question |-> q, parts |-> parts,
                     label |-> label, blind |-> blind, rewritten |-> FALSE, blocks |-> <<>>]
          /\ blind \/ label = Conversation!conversation_context(s)
  BY <1>1 DEF Conversation!Context, Conversation!Route, Labels
<1>3. <<>> \in Seq(Block)
  OBVIOUS
<1> HIDE DEF Block, Subjects, Labels
<1> QED BY <1>2, <1>3 DEF Routing

\* What is behind the first of a sequence.
LEMMA TailOf ==
    ASSUME NEW S, NEW s \in Seq(S), s # <<>>
    PROVE  /\ Tail(s) \in Seq(S) /\ Len(s) \in Nat \ {0}
           /\ Len(s) > 1 => Tail(s) # <<>>
<1>1. Len(s) \in Nat \ {0} /\ Tail(s) \in Seq(S) /\ Len(Tail(s)) = Len(s) - 1
  OBVIOUS
<1>2. \A t \in Seq(S) : Len(t) > 0 => t # <<>>
  OBVIOUS
<1>3. Len(s) > 1 => Len(Tail(s)) > 0
  BY <1>1
<1> QED BY <1>1, <1>2, <1>3, Zenon

LEMMA OneLeft == ASSUME NEW n \in Nat \ {0}, ~(n > 1) PROVE n = 1
OBVIOUS

\* A part that was routed leaves a block, which tells what was found for it.
LEMMA RoutedOn ==
    ASSUME ChatInv, job.pc = "route", NEW in, NEW result, NEW rewritten \in BOOLEAN,
           result.found \in Found, result.reach \in {"scope", "beyond"},
           result.found = "rows" =>
               result.about = <<in, Conversation!_rewrite_pronouns(Head(job.parts))>>,
           Conversation!Routed(in, result, rewritten)
    PROVE  \/ job' = Conversation!Idle
           \/ /\ job' \in Routing /\ (job'.pc = "route" => job'.parts # <<>>)
              /\ job'.session = job.session /\ job'.label = job.label /\ job'.blind = job.blind
              /\ BlocksTell'
<1> SUFFICES ASSUME job' # Conversation!Idle
             PROVE  /\ job' \in Routing /\ (job'.pc = "route" => job'.parts # <<>>)
                    /\ job'.session = job.session /\ job'.label = job.label
                    /\ job'.blind = job.blind /\ BlocksTell'
  OBVIOUS
<1>1. job \in Routing /\ job.parts # <<>>
  BY DEF ChatInv, ChatType, Conversation!Idle
<1> DEFINE block == [found   |-> result.found,
                     matches |-> result.about =
                         <<in, Conversation!_rewrite_pronouns(Head(job.parts))>>,
                     reach   |-> result.reach]
           back == rewritten /\ Len(job.blocks) = 0 /\ Len(job.parts) = 1
<1>2. block \in Block /\ (block.found = "rows" => block.matches /\ block.reach # "all")
  BY DEF Block
<1>3. job' = [job EXCEPT !.blocks = Append(@, block), !.parts = Tail(@), !.rewritten = back,
                         !.pc = IF Len(job.parts) > 1 THEN "route" ELSE "record"]
  BY DEF Conversation!Routed
<1>4. back \in BOOLEAN
  OBVIOUS
<1> HIDE DEF block, back, Block, Subjects, Labels
<1>a. /\ job.parts \in Seq(Subjects) /\ job.parts # <<>> /\ job.blocks \in Seq(Block)
  BY <1>1 DEF Routing
<1>b. /\ Tail(job.parts) \in Seq(Subjects) /\ Len(job.parts) \in Nat \ {0}
      /\ Len(job.parts) > 1 => Tail(job.parts) # <<>>
  BY <1>a, TailOf
<1>5. /\ job.parts \in Seq(Subjects) /\ Tail(job.parts) \in Seq(Subjects)
      /\ Len(job.parts) > 1 => Tail(job.parts) # <<>>
      /\ Append(job.blocks, block) \in Seq(Block)
      /\ Len(job.blocks) \in Nat
      /\ Len(Append(job.blocks, block)) = Len(job.blocks) + 1
      /\ Append(job.blocks, block)[Len(job.blocks) + 1] = block
      /\ \A i \in 1..Len(job.blocks) : Append(job.blocks, block)[i] = job.blocks[i]
  BY <1>2, <1>a, <1>b
<1>6. job' \in Routing
  BY <1>1, <1>3, <1>4, <1>5 DEF Routing
<1>7. /\ job'.pc = "route" => job'.parts # <<>>
      /\ job'.session = job.session /\ job'.label = job.label /\ job'.blind = job.blind
      /\ job'.blocks = Append(job.blocks, block)
  BY <1>1, <1>3, <1>5 DEF Routing
<1>8. \A i \in 1..Len(job.blocks) :
          job.blocks[i].found = "rows" => job.blocks[i].matches /\ job.blocks[i].reach # "all"
  BY DEF ChatInv, BlocksTell
<1>9. \A i \in 1..Len(job'.blocks) :
          job'.blocks[i].found = "rows" =>
              job'.blocks[i].matches /\ job'.blocks[i].reach # "all"
  BY <1>2, <1>5, <1>7, <1>8
<1>10. ASSUME job'.pc = "record", Len(job'.blocks) = 1
       PROVE  job'.blocks[1].found # "refused"
  <2>a. job'.pc = IF Len(job.parts) > 1 THEN "route" ELSE "record"
    BY <1>1, <1>3 DEF Routing
  <2>b. Len(Append(job.blocks, block)) = 1
    BY <1>7, <1>10
  <2>n. PICK n \in Nat \ {0} : n = Len(job.parts)
    BY <1>b
  <2>m. ~(n > 1)
    BY <1>10, <2>a, <2>n, Zenon
  <2>c. Len(job.parts) = 1
    BY <2>n, <2>m, OneLeft
  <2>d. Len(job.blocks) = 0
    BY <1>5, <2>b
  <2>e. Append(job.blocks, block)[1] = block
    BY <1>5, <2>d
  <2>1. Len(job.blocks) = 0 /\ Len(job.parts) = 1 /\ job'.blocks[1] = block
    BY <1>7, <2>c, <2>d, <2>e
  <2>2. job.blocks = <<>>
    BY <1>a, <2>1
  <2>3. result.found # "refused"
    BY <2>1, <2>2 DEF Conversation!Routed
  <2> QED BY <2>1, <2>3 DEF block
<1> QED BY <1>6, <1>7, <1>9, <1>10 DEF BlocksTell

\* A query that ran names a parameter, and what it found is kept for the question and the
\* scope it was made for.
LEMMA QueriesTell ==
    ASSUME NEW in, NEW q, NEW result \in Conversation!nl_to_sql(in, q)
    PROVE  /\ result.found \in Found \ {"refused"}
           /\ result.about = <<in, q>> /\ result.reach \in {"scope", "beyond"}
<1>1. "unscoped" \notin Conversation!Queries
  <2>1. ~Conversation!Runnable("unscoped")
    BY DEF Conversation!Runnable, Conversation!Accepted, Conversation!_enforce_scope,
           Conversation!Templates
  <2>2. ASSUME NEW d PROVE "unscoped" \notin Conversation!Run(d)
    BY <2>1 DEF Conversation!Run, Conversation!_empty
  <2> QED BY <2>2 DEF Conversation!Queries
<1>2. PICK run \in Conversation!Queries :
          \E f \in Conversation!Finds(run) :
              result = [found |-> f, about |-> <<in, q>>,
                        reach |-> Conversation!Reach(in, run, f)]
  BY DEF Conversation!nl_to_sql
<1>3. run # "unscoped"
  BY <1>1
<1>4. Conversation!Finds(run) \subseteq Found \ {"refused"}
  BY DEF Conversation!Finds, Found
<1>5. \A f : Conversation!Reach(in, run, f) \in {"scope", "beyond"}
  BY <1>3 DEF Conversation!Reach
<1> QED BY <1>2, <1>4, <1>5


\* Where nothing is recorded or thought, the sessions remember what they did.
LEMMA SameMemory ==
    ASSUME Remembers, UNCHANGED <<turns, meant>>, open' \subseteq open
    PROVE  Remembers'
BY DEF Remembers, Conversation!conversation_context, Conversation!LabelsOf

\* What the shop, the index, time and the end of a session do leaves the chat alone.
LEMMA ChatFrame ==
    ASSUME ChatInv, UNCHANGED <<turns, meant, job>>, open' \subseteq open,
           cache' \subseteq cache, index' \subseteq Products, \A w \in sync' : w[2] \in Products
    PROVE  ChatInv'
<1>1. ChatType'
  BY DEF ChatInv, ChatType, Routing
<1>2. Remembers'
  BY SameMemory DEF ChatInv
<1>3. OfSession' /\ CacheTells' /\ BlocksTell'
  BY DEF ChatInv, OfSession, Conversation!TopicKept, CacheTells, BlocksTell
<1> QED BY <1>1, <1>2, <1>3 DEF ChatInv

\* A question that is over, answered or lost, leaves what its session remembers.
LEMMA QuestionOver ==
    ASSUME ChatInv, job # Conversation!Idle, job' = Conversation!Idle,
           NEW label \in Labels, NEW plain \in BOOLEAN, plain => label # "none",
           \/ Conversation!record_turn(label, plain)
           \/ Conversation!TurnIsLost(label)
           \/ Conversation!Thinks(label, FALSE) /\ turns' = turns,
           UNCHANGED <<open, cache, index>>, sync' \subseteq sync
    PROVE  ChatInv'
<1>1. /\ turns' \in [Conversation!Sessions -> Seq(Labels)]
      /\ meant' \in [Conversation!Sessions -> SUBSET Labels]
      /\ Remembers'
  BY StillRemembers
<1>2. ChatType'
  BY <1>1 DEF ChatInv, ChatType, Conversation!Idle
<1>3. OfSession' /\ BlocksTell' /\ CacheTells'
  BY DEF ChatInv, OfSession, Conversation!TopicKept, Conversation!Idle, BlocksTell, CacheTells
<1> QED BY <1>1, <1>2, <1>3 DEF ChatInv

\* A question that was routed, or is refused, is still of its session.
LEMMA QuestionGoesOn ==
    ASSUME ChatInv, job.pc = "route", UNCHANGED <<open, turns, meant, index, sync>>, CacheTells',
           job' \in Routing, job'.pc = "route" => job'.parts # <<>>,
           job'.session = job.session, job'.label = job.label, job'.blind = job.blind, BlocksTell'
    PROVE  ChatInv'
<1>1. ChatType'
  BY DEF ChatInv, ChatType
<1>2. Remembers'
  BY SameMemory DEF ChatInv
<1>3. OfSession'
  BY DEF ChatInv, OfSession, Conversation!TopicKept, Conversation!Idle
<1> QED BY <1>1, <1>2, <1>3 DEF ChatInv

\* Asking opens a session if need be, and goes by what it remembers.
LEMMA AskKeeps ==
    ASSUME ChatInv, NEW s \in Conversation!Sessions, NEW q \in Conversation!Questions,
           Conversation!Ask(s, q)
    PROVE  ChatInv'
<1>0. ChatType /\ Remembers /\ q \in Subjects
  BY DEF ChatInv, Conversation!Questions, Subjects
<1>1. PICK sid : sid = Conversation!ensure_session(s)
  OBVIOUS
<1>2. sid \in Conversation!Sessions
  BY <1>0, <1>1, EnsuredSession DEF Conversation!Ask
<1>3. /\ open' = open \cup {sid}
      /\ meant' = IF meant[sid] = {} THEN [meant EXCEPT ![sid] = {"none"}] ELSE meant
      /\ \/ Conversation!Context(sid, q)
         \/ \E intent \in {"action", "chat"} :
                job' = [pc |-> intent, session |-> sid, question |-> q]
      /\ UNCHANGED <<turns, cache, index, sync>>
  BY <1>1 DEF Conversation!Ask, Conversation!shopVars
<1>4. /\ meant' \in [Conversation!Sessions -> SUBSET Labels]
      /\ \A r \in Conversation!Sessions : meant[r] # {} => meant'[r] = meant[r]
      /\ meant'[sid] = IF meant[sid] = {} THEN {"none"} ELSE meant[sid]
      /\ \A r \in Conversation!Sessions \ {sid} : meant'[r] = meant[r]
  <2>1. meant \in [Conversation!Sessions -> SUBSET Labels] /\ {"none"} \in SUBSET Labels
    BY <1>0 DEF ChatType, Labels
  <2> HIDE DEF Labels
  <2> QED BY <1>2, <1>3, <2>1
<1>5. \A r \in Conversation!Sessions :
          turns[r] = <<>> => Conversation!conversation_context(r) = "none"
  BY DEF Conversation!conversation_context, Conversation!LabelsOf
<1>6. \A r \in Conversation!Sessions :
          Conversation!conversation_context(r)' = Conversation!conversation_context(r)
  BY <1>3 DEF Conversation!conversation_context, Conversation!LabelsOf
<1>7. Conversation!conversation_context(sid) \in meant'[sid] /\ meant'[sid] # {}
  BY <1>0, <1>2, <1>4, <1>5 DEF Remembers
<1>8. \A r \in Conversation!Sessions :
          IF meant'[r] = {} THEN turns'[r] = <<>>
          ELSE Conversation!conversation_context(r)' \in meant'[r]
  BY <1>0, <1>3, <1>4, <1>6, <1>7 DEF Remembers
<1>9. Remembers'
  BY <1>0, <1>2, <1>3, <1>4, <1>7, <1>8 DEF Remembers, ChatType
<1>10. CacheTells' /\ open' \subseteq Conversation!Sessions
  BY <1>0, <1>2, <1>3 DEF ChatInv, CacheTells, ChatType
<1>11. CASE Conversation!Context(sid, q)
  <2>1. Conversation!conversation_context(sid) \in Labels
    BY <1>2, <1>4, <1>7
  <2>2. /\ job' \in Routing /\ job'.pc = "route" /\ job'.parts # <<>> /\ job'.blocks = <<>>
        /\ job'.session = sid
        /\ job'.blind \/ job'.label = Conversation!conversation_context(sid)
    BY <1>0, <1>2, <1>11, <2>1, Routes
  <2>3. ChatType'
    BY <1>0, <1>3, <1>4, <1>10, <2>2 DEF ChatType
  <2>4. OfSession'
    BY <1>7, <2>2 DEF OfSession, Conversation!TopicKept
  <2>5. Len(job'.blocks) = 0
    BY <2>2
  <2>6. BlocksTell'
    BY <2>5 DEF BlocksTell
  <2> QED BY <1>9, <1>10, <2>3, <2>4, <2>6 DEF ChatInv
<1>12. ASSUME NEW intent \in {"action", "chat"},
              job' = [pc |-> intent, session |-> sid, question |-> q]
       PROVE  ChatInv'
  <2>1. job' \in [pc: {"action", "chat"}, session: Conversation!Sessions, question: Subjects]
    BY <1>0, <1>2, <1>12
  <2>2. ChatType'
    BY <1>0, <1>3, <1>4, <1>10, <1>12, <2>1 DEF ChatType
  <2>3. OfSession' /\ BlocksTell'
    BY <1>7, <1>12 DEF OfSession, Conversation!TopicKept, BlocksTell
  <2> QED BY <1>9, <1>10, <2>2, <2>3 DEF ChatInv
<1> QED BY <1>3, <1>11, <1>12


\* The products the resolver answers, with pictures or not, are products or none.
LEMMA Resolved ==
    ASSUME ChatInv
    PROVE  /\ Conversation!resolve_single \subseteq Labels
           /\ Conversation!resolve_and_enrich \subseteq Labels
           /\ Conversation!_one_shot_find_top_products \subseteq Labels
<1>1. Conversation!shop \subseteq Products /\ index \subseteq Products
  BY DEF ChatInv, ChatType, Conversation!shop
<1>2. \A m \in Conversation!resolve_products : m \subseteq Products
  BY <1>1 DEF Conversation!resolve_products, Conversation!_fetch_catalog
<1>3. ASSUME NEW m \in Conversation!resolve_products
      PROVE  (IF Conversation!Cardinality(m) = 1 THEN CHOOSE p \in m : TRUE ELSE "none") \in Labels
  <2>1. CASE Conversation!Cardinality(m) = 1
    <3>1. Cardinality(m) = 1
      BY <2>1 DEF Conversation!Cardinality, Cardinality
    <3>2. m # {}
      BY <3>1, FS_EmptySet
    <3> QED BY <1>2, <2>1, <3>2 DEF Labels
  <2> QED BY <2>1 DEF Labels
<1>4. Conversation!resolve_single \subseteq Labels
  <2> SUFFICES ASSUME NEW x \in Conversation!resolve_single
               PROVE  x \in Labels
    OBVIOUS
  <2>1. PICK m \in Conversation!resolve_products :
            x = IF Conversation!Cardinality(m) = 1 THEN CHOOSE p \in m : TRUE ELSE "none"
    BY DEF Conversation!resolve_single
  <2> QED BY <1>3, <2>1
<1>5. Conversation!resolve_and_enrich \subseteq Labels
  BY <1>4 DEF Conversation!resolve_and_enrich, Conversation!enrich_by_id, Labels
<1> QED BY <1>1, <1>4, <1>5 DEF Conversation!_one_shot_find_top_products, Labels

\* Every step keeps the invariant of the chat.
LEMMA ChatStep ==
    ASSUME ChatInv, Conversation!Next
    PROVE  ChatInv'
<1>0. ChatType /\ CacheTells /\ Remembers /\ OfSession
  BY DEF ChatInv
<1>1. ASSUME NEW s \in Conversation!Sessions, NEW q \in Conversation!Questions,
             Conversation!Ask(s, q)
      PROVE  ChatInv'
  BY <1>1, AskKeeps
<1>2. ASSUME NEW s \in Conversation!Sessions, Conversation!delete_session(s)
      PROVE  ChatInv'
  BY <1>0, <1>2, ChatFrame DEF Conversation!delete_session, Conversation!shopVars, ChatType
<1>3. CASE Conversation!_answer_chat
  <2>1. "none" \in Labels /\ job # Conversation!Idle
    BY <1>3 DEF Labels, Conversation!_answer_chat, Conversation!At, Conversation!Idle
  <2>2. /\ job' = Conversation!Idle
        /\ Conversation!record_turn("none", FALSE) \/ Conversation!TurnIsLost("none")
        /\ UNCHANGED <<open, cache, index, sync>>
    BY <1>3 DEF Conversation!_answer_chat, Conversation!shopVars
  <2> QED BY <2>1, <2>2, QuestionOver
<1>4. CASE Conversation!OneShot
  <2>1. job # Conversation!Idle /\ UNCHANGED <<open, cache, index, sync>> /\ job' = Conversation!Idle
    BY <1>4 DEF Conversation!OneShot, Conversation!At, Conversation!Idle, Conversation!shopVars
  <2>2. PICK p \in Labels :
            \/ Conversation!record_turn(p, p # "none" /\ job.question \in {{}, {p}})
            \/ Conversation!TurnIsLost(p)
    BY <1>4, Resolved DEF Conversation!OneShot
  <2>3. PICK plain \in BOOLEAN : plain = (p # "none" /\ job.question \in {{}, {p}})
    OBVIOUS
  <2>4. Conversation!record_turn(p, plain) \/ Conversation!TurnIsLost(p)
    BY <2>2, <2>3
  <2> QED BY <2>1, <2>3, <2>4, QuestionOver
<1>5. CASE Conversation!NoOneShot
  <2>1. PICK s \in Conversation!Sessions, q \in Subjects : s = job.session /\ q = job.question
    BY <1>0, <1>5
    DEF Conversation!NoOneShot, Conversation!At, ChatType, Routing, Conversation!Idle
  <2>2. /\ Conversation!Context(s, q) /\ job # Conversation!Idle
        /\ UNCHANGED <<open, turns, cache, index, sync, meant>>
    BY <1>5, <2>1
    DEF Conversation!NoOneShot, Conversation!At, Conversation!Idle, Conversation!shopVars
  <2>3. meant[s] # {} /\ Conversation!conversation_context(s) \in meant[s]
    BY <1>0, <2>1, <2>2 DEF OfSession, Remembers
  <2>4. Conversation!conversation_context(s) \in Labels
    BY <1>0, <2>3 DEF ChatType
  <2>5. /\ job' \in Routing /\ job'.pc = "route" /\ job'.parts # <<>> /\ job'.blocks = <<>>
        /\ job'.session = s
        /\ job'.blind \/ job'.label = Conversation!conversation_context(s)
    BY <2>2, <2>4, Routes
  <2>6. ChatType'
    BY <1>0, <2>2, <2>5 DEF ChatType
  <2>7. OfSession'
    BY <2>2, <2>3, <2>5 DEF OfSession, Conversation!TopicKept
  <2>8. Len(job'.blocks) = 0
    BY <2>5
  <2>9. BlocksTell' /\ CacheTells'
    BY <1>0, <2>2, <2>8 DEF BlocksTell, CacheTells
  <2>10. Remembers'
    BY <1>0, <2>2, SameMemory
  <2> QED BY <2>6, <2>7, <2>9, <2>10 DEF ChatInv
<1>6. CASE Conversation!Refused
  <2> DEFINE refused == [found |-> "refused", about |-> <<"own", {}>>, reach |-> "scope"]
  <2>a. /\ job.pc = "route" /\ job # Conversation!Idle
        /\ UNCHANGED <<open, turns, cache, index, sync>>
    BY <1>6
    DEF Conversation!Refused, Conversation!At, Conversation!Idle, Conversation!shopVars
  <2>b. /\ Conversation!Routed("own", refused, FALSE)
        /\ refused.found = "refused" /\ refused.reach = "scope"
    BY <1>6 DEF Conversation!Refused
  <2>c. IF job' = Conversation!Idle THEN Conversation!Thinks("none", FALSE)
        ELSE UNCHANGED meant
    BY <1>6 DEF Conversation!Refused
  <2>1. /\ job.pc = "route" /\ job # Conversation!Idle
        /\ Conversation!Routed("own", refused, FALSE)
        /\ refused.found = "refused" /\ refused.reach = "scope"
        /\ IF job' = Conversation!Idle THEN Conversation!Thinks("none", FALSE)
           ELSE UNCHANGED meant
        /\ UNCHANGED <<open, turns, cache, index, sync>>
    BY <2>a, <2>b, <2>c
  <2> HIDE DEF refused
  <2>2. CASE job' = Conversation!Idle
    <3>1. "none" \in Labels
      BY DEF Labels
    <3> QED BY <2>1, <2>2, <3>1, QuestionOver
  <2>3. CASE job' # Conversation!Idle
    <3>1. /\ job' \in Routing /\ (job'.pc = "route" => job'.parts # <<>>)
          /\ job'.session = job.session /\ job'.label = job.label /\ job'.blind = job.blind
          /\ BlocksTell'
      BY <2>1, <2>3, RoutedOn DEF Found
    <3>2. CacheTells'
      BY <1>0, <2>1 DEF CacheTells
    <3> QED BY <2>1, <2>3, <3>1, <3>2, QuestionGoesOn
  <2> QED BY <2>2, <2>3
<1>7. CASE Conversation!Cached
  <2>1. PICK entry \in cache, in \in Conversation!Mentions :
            /\ entry[1] = Conversation!scope_hash(in, Head(job.parts))
            /\ Conversation!Routed(in, [found |-> "rows", about |-> entry[2],
                                       reach |-> entry[3]], FALSE)
    BY <1>7 DEF Conversation!Cached
  <2> DEFINE result == [found |-> "rows", about |-> entry[2], reach |-> entry[3]]
  <2>2. /\ job.pc = "route" /\ job # Conversation!Idle
        /\ UNCHANGED <<open, turns, meant, cache, index, sync>>
    BY <1>7
    DEF Conversation!Cached, Conversation!At, Conversation!Idle, Conversation!shopVars
  <2>3. /\ result.about = <<in, Conversation!_rewrite_pronouns(Head(job.parts))>>
        /\ result.reach \in {"scope", "beyond"}
    BY <1>0, <2>1 DEF CacheTells, Conversation!scope_hash
  <2>4. Conversation!Routed(in, result, FALSE) /\ result.found = "rows"
    BY <2>1
  <2>5. job' # Conversation!Idle
    BY <1>0, <2>2, <2>4
    DEF Conversation!Routed, Conversation!Idle, ChatType, Routing
  <2> HIDE DEF result
  <2>6. /\ job' \in Routing /\ (job'.pc = "route" => job'.parts # <<>>)
        /\ job'.session = job.session /\ job'.label = job.label /\ job'.blind = job.blind
        /\ BlocksTell'
    BY <2>2, <2>3, <2>4, <2>5, RoutedOn DEF Found
  <2>7. CacheTells'
    BY <1>0, <2>2 DEF CacheTells
  <2> QED BY <2>2, <2>6, <2>7, QuestionGoesOn
<1>8. CASE Conversation!LookedUp
  <2>a. PICK in \in Conversation!Mentions : \E piece, key, q :
            /\ piece = Head(job.parts) /\ key = Conversation!scope_hash(in, piece)
            /\ q = Conversation!_rewrite_pronouns(piece)
            /\ \E result \in Conversation!nl_to_sql(in, q) :
                  /\ Conversation!Routed(in, result, q # piece)
                  /\ cache' = IF Conversation!Tells(result.found)
                              THEN cache \cup {<<key, result.about, result.reach>>} ELSE cache
    BY <1>8 DEF Conversation!LookedUp
  <2>1. PICK piece, key, q :
            /\ piece = Head(job.parts) /\ key = Conversation!scope_hash(in, piece)
            /\ q = Conversation!_rewrite_pronouns(piece)
            /\ \E result \in Conversation!nl_to_sql(in, q) :
                  /\ Conversation!Routed(in, result, q # piece)
                  /\ cache' = IF Conversation!Tells(result.found)
                              THEN cache \cup {<<key, result.about, result.reach>>} ELSE cache
    BY <2>a
  <2>2. PICK result \in Conversation!nl_to_sql(in, q), rewritten \in BOOLEAN :
            /\ rewritten = (q # piece)
            /\ Conversation!Routed(in, result, rewritten)
            /\ cache' = IF Conversation!Tells(result.found)
                        THEN cache \cup {<<key, result.about, result.reach>>} ELSE cache
    BY <2>1
  <2>3. /\ job.pc = "route" /\ job # Conversation!Idle
        /\ UNCHANGED <<open, turns, meant, index, sync>>
    BY <1>8
    DEF Conversation!LookedUp, Conversation!At, Conversation!Idle, Conversation!shopVars
  <2>4. /\ result.found \in Found /\ result.about = <<in, q>>
        /\ result.reach \in {"scope", "beyond"} /\ result.found # "refused"
    BY QueriesTell
  <2>5. key = <<in, q>>
    BY <2>1 DEF Conversation!scope_hash
  <2>6. CacheTells'
    BY <1>0, <2>2, <2>4, <2>5 DEF CacheTells
  <2>7. job' # Conversation!Idle
    BY <1>0, <2>2, <2>3, <2>4 DEF Conversation!Routed, Conversation!Idle, ChatType, Routing
  <2>8. /\ job' \in Routing /\ (job'.pc = "route" => job'.parts # <<>>)
        /\ job'.session = job.session /\ job'.label = job.label /\ job'.blind = job.blind
        /\ BlocksTell'
    BY <2>1, <2>2, <2>3, <2>4, <2>7, RoutedOn
  <2> QED BY <2>3, <2>6, <2>8, QuestionGoesOn
<1>9. CASE Conversation!answer_question
  <2>1. job # Conversation!Idle /\ UNCHANGED <<open, cache, index, sync>>
        /\ job' = Conversation!Idle /\ job.label \in Labels
    BY <1>0, <1>9
    DEF Conversation!answer_question, Conversation!At, Conversation!Idle, Conversation!shopVars,
        ChatType, Routing
  <2>2. PICK p \in Labels :
            /\ p \in IF job.rewritten THEN {"none"} ELSE Conversation!resolve_single
            /\ \/ Conversation!record_turn(Conversation!Label(p),
                                           p # "none" /\ job.question = {p})
               \/ Conversation!TurnIsLost(Conversation!Label(p))
    BY <1>9, Resolved DEF Conversation!answer_question, Labels
  <2>3. /\ \E label : label = Conversation!Label(p)
        /\ \E plain \in BOOLEAN : plain = (p # "none" /\ job.question = {p})
    OBVIOUS
  <2>a. PICK label : label = Conversation!Label(p)
    BY <2>3
  <2>b. PICK plain \in BOOLEAN : plain = (p # "none" /\ job.question = {p})
    BY <2>3
  <2>4. label \in Labels /\ (plain => label # "none")
    BY <2>1, <2>2, <2>a, <2>b DEF Conversation!Label
  <2>5. Conversation!record_turn(label, plain) \/ Conversation!TurnIsLost(label)
    BY <2>2, <2>a, <2>b
  <2> QED BY <2>1, <2>4, <2>5, QuestionOver
<1>10. CASE Conversation!Passes
  BY <1>0, <1>10, ChatFrame DEF Conversation!Passes, Conversation!shopVars, ChatType
<1>11. ASSUME NEW p \in Products,
              \/ Conversation!create_product(p) \/ Conversation!update_product(p)
              \/ Conversation!delete_product(p) \/ Conversation!_sync_product_to_index(p)
              \/ Conversation!_remove_product_from_index(p)
       PROVE  ChatInv'
  <2>1. UNCHANGED <<open, turns, cache, meant, job>>
    BY <1>11
    DEF Conversation!create_product, Conversation!update_product, Conversation!delete_product,
        Conversation!_sync_product_to_index, Conversation!_remove_product_from_index
  <2>2. index' \subseteq Products /\ \A w \in sync' : w[2] \in Products
    BY <1>0, <1>11
    DEF ChatType, Conversation!create_product, Conversation!update_product,
        Conversation!delete_product, Conversation!_sync_product_to_index,
        Conversation!_remove_product_from_index
  <2> QED BY <2>1, <2>2, ChatFrame
<1>12. ASSUME NEW reset \in BOOLEAN, Conversation!Reindex(reset)
       PROVE  ChatInv'
  <2>1. UNCHANGED <<open, turns, cache, meant, job>>
    BY <1>12 DEF Conversation!Reindex
  <2>2. index' \subseteq Products /\ \A w \in sync' : w[2] \in Products
    BY <1>0, <1>12 DEF ChatType, Conversation!Reindex, Conversation!shop
  <2> QED BY <2>1, <2>2, ChatFrame
<1>13. CASE Conversation!SyncFails
  BY <1>0, <1>13, ChatFrame DEF Conversation!SyncFails, ChatType
<1>14. CASE Conversation!Die
  <2>1. "none" \in Labels
    BY DEF Labels
  <2>2. /\ job # Conversation!Idle /\ job' = Conversation!Idle
        /\ Conversation!Thinks("none", FALSE) /\ sync' \subseteq sync
        /\ UNCHANGED <<open, turns, cache, index>>
    BY <1>14 DEF Conversation!Die
  <2> QED BY <2>1, <2>2, QuestionOver
<1> QED
  BY <1>1, <1>2, <1>3, <1>4, <1>5, <1>6, <1>7, <1>8, <1>9, <1>10, <1>11, <1>12, <1>13, <1>14
  DEF Conversation!Next


\* The invariant of the chat holds at the start.
LEMMA InitChat ==
    ASSUME Conversation!Init
    PROVE  ChatInv
<1>1. 1 \in Conversation!Sessions /\ Conversation!Sessions \subseteq Nat
  BY ServicesAssumption DEF Conversation!Sessions
<1>2. PICK first \in {<<>>} \cup {<<p>> : p \in Products} :
          turns = [s \in Conversation!Sessions |-> IF s = 1 THEN first ELSE <<>>]
  BY DEF Conversation!Init
<1>3. first \in Seq(Labels)
  <2>1. \A p \in Products : <<p>> \in Seq(Labels)
    <3>1. \A p \in Products : p \in Labels
      BY DEF Labels
    <3> HIDE DEF Labels
    <3> QED BY <3>1
  <2>2. <<>> \in Seq(Labels)
    OBVIOUS
  <2> HIDE DEF Labels
  <2> QED BY <1>2, <2>1, <2>2
<1>4. turns \in [Conversation!Sessions -> Seq(Labels)]
  BY <1>2, <1>3
<1>5. Conversation!conversation_context(1) \in Labels
  <2>1. CASE first = <<>>
    <3>1. turns[1] = <<>>
      BY <1>1, <1>2, <2>1
    <3>2. Conversation!LabelsOf(1) = {}
      BY <3>1 DEF Conversation!LabelsOf
    <3> QED BY <3>2 DEF Conversation!conversation_context, Labels
  <2>2. CASE first # <<>>
    <3>1. PICK p \in Products : turns[1] = <<p>>
      BY <1>1, <1>2, <2>2
    <3>2. Conversation!LabelsOf(1) = {1}
      BY <3>1, ServicesAssumption DEF Conversation!LabelsOf
    <3>3. Conversation!conversation_context(1) = p
      BY <3>1, <3>2 DEF Conversation!conversation_context
    <3> QED BY <3>3 DEF Labels
  <2> QED BY <2>1, <2>2
<1>6. meant = [s \in Conversation!Sessions |->
                  IF s > 1 THEN {} ELSE {Conversation!conversation_context(1)}]
  BY DEF Conversation!Init
<1>7. meant \in [Conversation!Sessions -> SUBSET Labels]
  <2> HIDE DEF Labels
  <2> QED BY <1>5, <1>6
<1>8. /\ open = {1} /\ job = Conversation!Idle /\ sync = {} /\ cache = {}
      /\ index \subseteq Products
  BY DEF Conversation!Init
<1>9. ChatType
  BY <1>1, <1>4, <1>7, <1>8 DEF ChatType, Conversation!Idle
<1>10. \A s \in Conversation!Sessions : s = 1 \/ (s > 1 /\ s # 1)
  BY <1>1, ServicesAssumption DEF Conversation!Sessions
<1>11. ASSUME NEW s \in Conversation!Sessions
       PROVE  IF meant[s] = {} THEN turns[s] = <<>>
              ELSE Conversation!conversation_context(s) \in meant[s]
  <2>1. CASE s = 1
    BY <1>6, <2>1
  <2>2. CASE s > 1 /\ s # 1
    BY <1>2, <1>6, <2>2
  <2> QED BY <1>10, <2>1, <2>2
<1>12. Remembers
  BY <1>1, <1>6, <1>8, <1>11 DEF Remembers
<1>13. OfSession /\ CacheTells /\ BlocksTell
  BY <1>8 DEF OfSession, Conversation!TopicKept, CacheTells, BlocksTell, Conversation!Idle
<1> QED BY <1>9, <1>12, <1>13 DEF ChatInv

\* The invariant of the chat holds always.
LEMMA ChatKept == Spec => [](part = "chat" => ChatInv)
<1>1. Init => (part = "chat" => ChatInv)
  BY InitChat DEF Init
<1>2. (part = "chat" => ChatInv) /\ [Next]_vars => (part = "chat" => ChatInv)'
  <2> SUFFICES ASSUME part = "chat" => ChatInv, [Next]_vars, part' = "chat"
               PROVE  ChatInv'
    OBVIOUS
  <2>1. part = "chat" /\ (Conversation!Next \/ UNCHANGED Conversation!vars)
    BY StepOfPart
  <2>2. CASE Conversation!Next
    BY <2>1, <2>2, ChatStep
  <2>3. CASE UNCHANGED Conversation!vars
    <3>1. UNCHANGED <<open, turns, cache, index, sync, job, meant>> /\ ChatInv
      BY <2>1, <2>3 DEF Conversation!vars, Conversation!shopVars
    <3> QED BY <3>1, ChatFrame DEF ChatInv, ChatType
  <2> QED BY <2>1, <2>2, <2>3
<1> QED BY <1>1, <1>2, PTL DEF Spec

\* "This product" is one the user may think is spoken of in this session: what the turns
\* remember is, whatever was asked, commanded, refused, lost or deleted in between.
THEOREM TopicIsKept == Spec => []TopicKept
<1>1. (part = "chat" => ChatInv) => TopicKept
  BY DEF ChatInv, OfSession, TopicKept
<1> QED BY <1>1, ChatKept, PTL

\* The rows an answer rests on, those of the cache too, were found for the question and
\* the scope they are context for, by a query that names a parameter; and the answer to a
\* question of one part says what was found.
THEOREM AnswersRestOnFacts == Spec => []AnswersRest
<1>1. ASSUME part = "chat", ChatInv, job.pc = "record"
      PROVE  Conversation!AnswersRest
  <2>1. \A i \in 1..Len(job.blocks) : job.blocks[i].found = "rows"
            => job.blocks[i].matches /\ job.blocks[i].reach # "all"
    BY <1>1 DEF ChatInv, BlocksTell
  <2>2. ASSUME NEW found, Conversation!Tells(found)
        PROVE  found = "rows"
    BY <2>2 DEF Conversation!Tells, Conversation!_format_rows, Conversation!HasRows
  <2>3. ASSUME Len(job.blocks) # 1
        PROVE  /\ Conversation!_compose_context_text(job.blocks) = "data" =>
                      \E i \in 1..Len(job.blocks) : job.blocks[i].found = "rows"
    BY <2>2, <2>3
    DEF Conversation!_compose_context_text, Conversation!_multipart_retrieval, Conversation!_empty,
        Conversation!Tells, Conversation!_format_rows, Conversation!HasRows
  <2>4. ASSUME Len(job.blocks) = 1
        PROVE  LET context == Conversation!_compose_context_text(job.blocks) IN
               /\ context = "data" => job.blocks[1].found = "rows"
               /\ context = "no record" => job.blocks[1].found = "none"
               /\ context = "error" <=> job.blocks[1].found = "error"
    <3>a. job.blocks \in Seq(Block) /\ job.blocks[1].found # "refused"
      BY <1>1, <2>4 DEF ChatInv, ChatType, Routing, Conversation!Idle, BlocksTell
    <3>b. job.blocks[1] \in Block
      BY <2>4, <3>a
    <3>1. job.blocks[1].found \in Found /\ job.blocks[1].found # "refused"
      BY <3>a, <3>b DEF Block
    <3> QED BY <3>1, <2>4
        DEF Found, Conversation!_compose_context_text, Conversation!_empty, Conversation!Tells,
            Conversation!_format_rows, Conversation!HasRows
  <2> DEFINE context == Conversation!_compose_context_text(job.blocks)
             SomeRows == \E i \in 1..Len(job.blocks) : job.blocks[i].found = "rows"
             RowsTell == \A i \in 1..Len(job.blocks) : job.blocks[i].found = "rows"
                             => job.blocks[i].matches /\ job.blocks[i].reach # "all"
             OneTells == Len(job.blocks) = 1 =>
                             /\ context = "no record" => job.blocks[1].found = "none"
                             /\ context = "error" <=> job.blocks[1].found = "error"
  <2>5. Len(job.blocks) = 1 /\ job.blocks[1].found = "rows" => SomeRows
    OBVIOUS
  <2>6. context = "data" => SomeRows
    BY <2>3, <2>4, <2>5
  <2>7. RowsTell
    BY <2>1
  <2>8. OneTells
    BY <2>4
  <2>9. RowsTell /\ (context = "data" => SomeRows) /\ OneTells => Conversation!AnswersRest
    BY DEF Conversation!AnswersRest, Conversation!At
  <2> HIDE DEF RowsTell, OneTells, SomeRows, context
  <2> QED BY <2>6, <2>7, <2>8, <2>9
<1>2. (part = "chat" => ChatInv) => AnswersRest
  BY <1>1 DEF AnswersRest, Conversation!AnswersRest, Conversation!At
<1> QED BY <1>2, ChatKept, PTL


-----------------------------------------------------------------------------
(* The sandbox: what was withdrawn never runs                              *)

SandboxJob == [pc: {"idle", "submit", "wait", "record"}, call: Nat, attempt: Nat,
               state: {"none", "queued", "running", "done", "raised"},
               begun: Nat, done: Nat, late: Nat]
SandboxAnswer == [answer: {"none", "success", "failed", "circuit_open"},
                  begun: Nat, done: Nat, late: Nat]
QueuedTry == [caller: Callers, call: Nat, attempt: Nat]

SandboxType ==
    /\ job \in [Callers -> SandboxJob]
    /\ told \in [Callers -> SandboxAnswer]
    /\ backlog \in Seq(QueuedTry)
    /\ breaker \in [open: BOOLEAN, cooled: BOOLEAN, failures: Nat]
    /\ calls \in Nat /\ strays \in Nat /\ streak \in Nat

InQueue(j) == j.pc = "wait" /\ j.state = "queued"
TryOf(c, j) == [caller |-> c, call |-> j.call, attempt |-> j.attempt]

\* What the tries of a call have done so far: one more of them has begun than were tried
\* before, once it was taken, and what is done was given up or is about to be told.
TriesCounted(j) ==
    /\ j.attempt <= MaxRetries
    /\ j.begun <= j.attempt + 1
    /\ j.pc = "submit" \/ InQueue(j) => j.begun <= j.attempt
    /\ IF j.pc = "wait" /\ j.state = "done" THEN j.done \in 1 .. j.late + 1
       ELSE j.done <= j.late
    /\ j.pc = "idle" => j.begun = 0

AnswerTrue(t) ==
    /\ t.begun <= MaxRetries + 1
    /\ t.answer = "success" => t.done \in 1 .. t.late + 1
    /\ t.answer = "failed" => t.done <= t.late
    /\ t.answer = "circuit_open" => t.begun = 0

\* The backlog holds one try of every caller that waits for a thread, and no other.
BacklogTells ==
    /\ \A k \in DOMAIN backlog :
           LET c == backlog[k].caller IN InQueue(job[c]) /\ TryOf(c, job[c]) = backlog[k]
    /\ \A k, m \in DOMAIN backlog : backlog[k].caller = backlog[m].caller => k = m
    /\ \A c \in Callers : InQueue(job[c]) => \E k \in DOMAIN backlog : backlog[k].caller = c

BreakerTells ==
    breaker.failures <= streak /\ (breaker.open => streak >= Threshold)

SandboxInv ==
    /\ SandboxType
    /\ \A c \in Callers : TriesCounted(job[c]) /\ AnswerTrue(told[c])
    /\ BacklogTells /\ BreakerTells


\* The tries of the backlog are those of callers.
LEMMA TriesAreOfCallers ==
    ASSUME SandboxType
    PROVE  \A k \in DOMAIN backlog : backlog[k] \in QueuedTry /\ backlog[k].caller \in Callers
<1>1. \A k \in DOMAIN backlog : backlog[k] \in QueuedTry
  BY DEF SandboxType
<1> QED BY <1>1 DEF QueuedTry

\* A caller that neither joins the backlog nor leaves it.
LEMMA CallerMoves ==
    ASSUME SandboxInv, NEW c \in Callers, NEW j \in SandboxJob, NEW t \in SandboxAnswer,
           job' = [job EXCEPT ![c] = j], told' = [told EXCEPT ![c] = t],
           TriesCounted(j), AnswerTrue(t), ~InQueue(job[c]), ~InQueue(j),
           backlog' = backlog, calls' \in Nat, strays' \in Nat, streak' \in Nat,
           breaker' \in [open: BOOLEAN, cooled: BOOLEAN, failures: Nat],
           BreakerTells'
    PROVE  SandboxInv'
<1>1. SandboxType'
  BY DEF SandboxInv, SandboxType
<1>2. /\ job'[c] = j /\ told'[c] = t
      /\ \A d \in Callers \ {c} : job'[d] = job[d] /\ told'[d] = told[d]
  BY DEF SandboxInv, SandboxType
<1>3. \A d \in Callers : (TriesCounted(job[d]) /\ AnswerTrue(told[d]))'
  <2> SUFFICES ASSUME NEW d \in Callers
               PROVE  TriesCounted(job'[d]) /\ AnswerTrue(told'[d])
    BY DEF TriesCounted, AnswerTrue, InQueue
  <2>1. CASE d = c
    BY <1>2, <2>1
  <2>2. CASE d # c
    BY <1>2, <2>2 DEF SandboxInv
  <2> QED BY <2>1, <2>2
<1>4. BacklogTells'
  <2>1. \A k \in DOMAIN backlog : backlog[k].caller \in Callers /\ backlog[k].caller # c
    BY TriesAreOfCallers DEF SandboxInv, BacklogTells
  <2>2. BacklogTells
    BY DEF SandboxInv
  <2> QED BY <1>2, <2>1, <2>2 DEF BacklogTells
<1> QED BY <1>1, <1>3, <1>4 DEF SandboxInv

\* What is left of a sequence without its k-th element.
LEMMA Removed ==
    ASSUME NEW T, NEW s \in Seq(T), NEW k \in DOMAIN s
    PROVE  /\ Sandbox!RemoveAt(s, k) \in Seq(T)
           /\ Len(Sandbox!RemoveAt(s, k)) = Len(s) - 1
           /\ \A i \in 1 .. Len(s) - 1 :
                  Sandbox!RemoveAt(s, k)[i] = IF i < k THEN s[i] ELSE s[i + 1]
<1>1. Len(s) \in Nat /\ DOMAIN s = 1 .. Len(s)
  OBVIOUS
<1> DEFINE before == SubSeq(s, 1, k - 1)
           behind == SubSeq(s, k + 1, Len(s))
<1>2. /\ before \in Seq(T) /\ Len(before) = k - 1
      /\ \A i \in 1 .. k - 1 : before[i] = s[i]
  BY <1>1
<1>3. /\ behind \in Seq(T) /\ Len(behind) = Len(s) - k
      /\ \A i \in 1 .. Len(s) - k : behind[i] = s[k + i]
  BY <1>1
<1>4. Sandbox!RemoveAt(s, k) = before \o behind
  BY DEF Sandbox!RemoveAt
<1> HIDE DEF before, behind
<1>5. /\ before \o behind \in Seq(T)
      /\ Len(before \o behind) = Len(before) + Len(behind)
      /\ \A i \in 1 .. Len(before) + Len(behind) :
             (before \o behind)[i] = IF i <= Len(before) THEN before[i]
                                     ELSE behind[i - Len(before)]
  BY <1>2, <1>3
<1>6. k \in 1 .. Len(s)
  BY <1>1
<1>7. Len(before) + Len(behind) = Len(s) - 1
  BY <1>1, <1>2, <1>3, <1>6
<1>8. ASSUME NEW i \in 1 .. Len(s) - 1
      PROVE  (before \o behind)[i] = IF i < k THEN s[i] ELSE s[i + 1]
  <2>1. CASE i < k
    BY <1>1, <1>2, <1>5, <1>6, <1>7, <2>1
  <2>2. CASE ~(i < k)
    <3>1. i - (k - 1) \in 1 .. Len(s) - k /\ k + (i - (k - 1)) = i + 1 /\ ~(i <= k - 1)
      BY <1>1, <1>6, <2>2
    <3>2. behind[i - (k - 1)] = s[i + 1]
      BY <1>3, <3>1
    <3>3. (before \o behind)[i] = behind[i - (k - 1)]
      BY <1>2, <1>5, <1>7, <3>1
    <3> QED BY <2>2, <3>2, <3>3
  <2> QED BY <2>1, <2>2
<1> QED BY <1>4, <1>5, <1>7, <1>8

\* A try that leaves the backlog takes nothing else with it.
LEMMA LeavesBacklog ==
    ASSUME SandboxInv, NEW k \in DOMAIN backlog, NEW c \in Callers, backlog[k].caller = c,
           NEW j \in SandboxJob, job' = [job EXCEPT ![c] = j], TriesCounted(j), ~InQueue(j),
           backlog' \in Seq(QueuedTry), Len(backlog') = Len(backlog) - 1,
           \A i \in 1 .. Len(backlog) - 1 :
               backlog'[i] = IF i < k THEN backlog[i] ELSE backlog[i + 1],
           strays' = strays, UNCHANGED <<told, calls, breaker, streak>>
    PROVE  SandboxInv'
<1>0. SandboxType /\ BacklogTells
  BY DEF SandboxInv
<1>1. SandboxType'
  BY <1>0 DEF SandboxType
<1>2. /\ job'[c] = j
      /\ \A d \in Callers \ {c} : job'[d] = job[d]
  BY <1>0 DEF SandboxType
<1>3. \A d \in Callers : (TriesCounted(job[d]) /\ AnswerTrue(told[d]))'
  <2> SUFFICES ASSUME NEW d \in Callers
               PROVE  TriesCounted(job'[d]) /\ AnswerTrue(told'[d])
    BY DEF TriesCounted, AnswerTrue, InQueue
  <2>1. CASE d = c
    BY <1>2, <2>1 DEF SandboxInv
  <2>2. CASE d # c
    BY <1>2, <2>2 DEF SandboxInv
  <2> QED BY <2>1, <2>2
<1>4. DOMAIN backlog = 1 .. Len(backlog) /\ Len(backlog) \in Nat
      /\ DOMAIN backlog' = 1 .. Len(backlog) - 1
  BY <1>0 DEF SandboxType
<1>5. \A i \in DOMAIN backlog' :
          \E m \in DOMAIN backlog :
              m # k /\ backlog'[i] = backlog[m] /\ m = IF i < k THEN i ELSE i + 1
  <2> SUFFICES ASSUME NEW i \in DOMAIN backlog'
               PROVE  \E m \in DOMAIN backlog :
                          m # k /\ backlog'[i] = backlog[m] /\ m = IF i < k THEN i ELSE i + 1
    OBVIOUS
  <2>1. CASE i < k
    BY <1>4, <2>1
  <2>2. CASE ~(i < k)
    BY <1>4, <2>2
  <2> QED BY <2>1, <2>2
<1>6. \A m \in DOMAIN backlog : m # k => \E i \in DOMAIN backlog' : backlog'[i] = backlog[m]
  <2> SUFFICES ASSUME NEW m \in DOMAIN backlog, m # k
               PROVE  \E i \in DOMAIN backlog' : backlog'[i] = backlog[m]
    OBVIOUS
  <2>1. CASE m < k
    BY <1>4, <2>1
  <2>2. CASE m > k
    <3>1. m - 1 \in DOMAIN backlog' /\ ~(m - 1 < k) /\ (m - 1) + 1 = m
      BY <1>4, <2>2
    <3> QED BY <1>4, <3>1
  <2> QED BY <1>4, <2>1, <2>2
<1>7. \A m \in DOMAIN backlog :
          /\ backlog[m].caller \in Callers
          /\ m # k => backlog[m].caller # c
  BY <1>0, TriesAreOfCallers DEF BacklogTells
<1>9. ~InQueue(job'[c])
  BY <1>2
<1>10. \A i \in DOMAIN backlog' :
           LET d == backlog'[i].caller IN InQueue(job'[d]) /\ TryOf(d, job'[d]) = backlog'[i]
  <2> SUFFICES ASSUME NEW i \in DOMAIN backlog', NEW d, d = backlog'[i].caller
               PROVE  InQueue(job'[d]) /\ TryOf(d, job'[d]) = backlog'[i]
    OBVIOUS
  <2>1. PICK m \in DOMAIN backlog : m # k /\ backlog'[i] = backlog[m]
    BY <1>5
  <2>2. d \in Callers \ {c} /\ backlog[m].caller = d
    BY <1>7, <2>1
  <2>3. InQueue(job[d]) /\ TryOf(d, job[d]) = backlog[m]
    BY <1>0, <2>2 DEF BacklogTells
  <2> QED BY <1>2, <2>1, <2>2, <2>3
<1>11. \A i, n \in DOMAIN backlog' : backlog'[i].caller = backlog'[n].caller => i = n
  <2> SUFFICES ASSUME NEW i \in DOMAIN backlog', NEW n \in DOMAIN backlog',
                      backlog'[i].caller = backlog'[n].caller
               PROVE  i = n
    OBVIOUS
  <2>1. PICK m \in DOMAIN backlog :
            backlog'[i] = backlog[m] /\ m # k /\ m = IF i < k THEN i ELSE i + 1
    BY <1>5
  <2>2. PICK o \in DOMAIN backlog :
            backlog'[n] = backlog[o] /\ o # k /\ o = IF n < k THEN n ELSE n + 1
    BY <1>5
  <2>3. m = o
    BY <1>0, <2>1, <2>2 DEF BacklogTells
  <2> QED BY <1>4, <2>1, <2>2, <2>3
<1>12. \A d \in Callers : InQueue(job'[d]) => \E i \in DOMAIN backlog' : backlog'[i].caller = d
  <2> SUFFICES ASSUME NEW d \in Callers, InQueue(job'[d])
               PROVE  \E i \in DOMAIN backlog' : backlog'[i].caller = d
    OBVIOUS
  <2>1. d # c /\ InQueue(job[d])
    BY <1>2, <1>9
  <2>2. PICK m \in DOMAIN backlog : backlog[m].caller = d
    BY <1>0, <2>1 DEF BacklogTells
  <2>3. m # k
    BY <2>1, <2>2
  <2> QED BY <1>6, <2>2, <2>3
<1>13. BacklogTells'
  BY <1>10, <1>11, <1>12 DEF BacklogTells
<1>14. BreakerTells'
  BY DEF SandboxInv, BreakerTells
<1> QED BY <1>1, <1>3, <1>13, <1>14 DEF SandboxInv


\* A caller's try joins the backlog.
LEMMA JoinsBacklog ==
    ASSUME SandboxInv, NEW c \in Callers, Sandbox!Submit(c)
    PROVE  SandboxInv'
<1>0. SandboxType /\ BacklogTells /\ TriesCounted(job[c])
  BY DEF SandboxInv
<1>1. PICK j \in SandboxJob : j = job[c]
  BY <1>0 DEF SandboxType
<1> DEFINE next == [[j EXCEPT !.pc = "wait"] EXCEPT !.state = "queued"]
<1>2. j.pc = "submit" /\ job' = [job EXCEPT ![c] = next]
  BY <1>0, <1>1 DEF Sandbox!Submit, Sandbox!At, SandboxType
<1>3. next \in SandboxJob /\ InQueue(next) /\ TriesCounted(next)
  BY <1>0, <1>1, <1>2 DEF SandboxJob, InQueue, TriesCounted
<1>4. TryOf(c, next) = Sandbox!Try(c) /\ Sandbox!Try(c) \in QueuedTry /\ Sandbox!Try(c).caller = c
  BY <1>1 DEF TryOf, Sandbox!Try, SandboxJob, QueuedTry
<1> HIDE DEF next
<1>5. /\ job'[c] = next
      /\ \A d \in Callers \ {c} : job'[d] = job[d]
  BY <1>0, <1>2 DEF SandboxType
<1>6. backlog' = Append(backlog, Sandbox!Try(c)) /\ UNCHANGED <<told, calls, strays, breaker, streak>>
  BY DEF Sandbox!Submit
<1>7. /\ Len(backlog) \in Nat /\ DOMAIN backlog = 1 .. Len(backlog)
      /\ backlog' \in Seq(QueuedTry) /\ DOMAIN backlog' = 1 .. Len(backlog) + 1
      /\ backlog'[Len(backlog) + 1] = Sandbox!Try(c)
      /\ \A k \in 1 .. Len(backlog) : backlog'[k] = backlog[k]
  BY <1>0, <1>4, <1>6 DEF SandboxType
<1>8. \A k \in DOMAIN backlog' : k = Len(backlog) + 1 \/ k \in DOMAIN backlog
  BY <1>7
<1>9. SandboxType'
  BY <1>0, <1>2, <1>3, <1>6, <1>7 DEF SandboxType
<1>10. \A d \in Callers : (TriesCounted(job[d]) /\ AnswerTrue(told[d]))'
  BY <1>3, <1>5, <1>6 DEF SandboxInv
<1>11. \A k \in DOMAIN backlog : backlog[k].caller \in Callers \ {c}
  <2>1. ~InQueue(job[c])
    BY <1>1, <1>2 DEF InQueue
  <2> QED BY <1>0, <2>1, TriesAreOfCallers DEF BacklogTells
<1>12. BacklogTells'
  <2>1. \A k \in DOMAIN backlog' :
            LET d == backlog'[k].caller IN InQueue(job'[d]) /\ TryOf(d, job'[d]) = backlog'[k]
    <3> SUFFICES ASSUME NEW k \in DOMAIN backlog', NEW d, d = backlog'[k].caller
                 PROVE  InQueue(job'[d]) /\ TryOf(d, job'[d]) = backlog'[k]
      OBVIOUS
    <3>1. CASE k = Len(backlog) + 1
      BY <1>3, <1>4, <1>5, <1>7, <3>1
    <3>2. CASE k \in DOMAIN backlog
      BY <1>0, <1>5, <1>7, <1>11, <3>2 DEF BacklogTells
    <3> QED BY <1>8, <3>1, <3>2
  <2>2. \A k, m \in DOMAIN backlog' : backlog'[k].caller = backlog'[m].caller => k = m
    <3> SUFFICES ASSUME NEW k \in DOMAIN backlog', NEW m \in DOMAIN backlog',
                        backlog'[k].caller = backlog'[m].caller
                 PROVE  k = m
      OBVIOUS
    <3>1. CASE k \in DOMAIN backlog /\ m \in DOMAIN backlog
      BY <1>0, <1>7, <3>1 DEF BacklogTells
    <3>2. CASE k = Len(backlog) + 1 /\ m \in DOMAIN backlog
      BY <1>4, <1>7, <1>11, <3>2
    <3>3. CASE k \in DOMAIN backlog /\ m = Len(backlog) + 1
      BY <1>4, <1>7, <1>11, <3>3
    <3> QED BY <1>8, <3>1, <3>2, <3>3
  <2>3. \A d \in Callers : InQueue(job'[d]) => \E k \in DOMAIN backlog' : backlog'[k].caller = d
    <3> SUFFICES ASSUME NEW d \in Callers, InQueue(job'[d])
                 PROVE  \E k \in DOMAIN backlog' : backlog'[k].caller = d
      OBVIOUS
    <3>1. CASE d = c
      BY <1>4, <1>7, <3>1
    <3>2. CASE d # c
      <4>1. PICK k \in DOMAIN backlog : backlog[k].caller = d
        BY <1>0, <1>5, <3>2 DEF BacklogTells
      <4> QED BY <1>7, <4>1
    <3> QED BY <3>1, <3>2
  <2> QED BY <2>1, <2>2, <2>3 DEF BacklogTells
<1>13. BreakerTells'
  BY <1>6 DEF SandboxInv, BreakerTells
<1> QED BY <1>9, <1>10, <1>12, <1>13 DEF SandboxInv

\* A try that a thread takes is one that its caller waits for.
LEMMA TakesTry ==
    ASSUME SandboxInv, Sandbox!Take
    PROVE  SandboxInv'
<1>0. SandboxType /\ BacklogTells
  BY DEF SandboxInv
<1>1. /\ backlog # <<>> /\ 1 \in DOMAIN backlog /\ Head(backlog) = backlog[1]
      /\ backlog' = Tail(backlog)
  BY <1>0 DEF SandboxType, Sandbox!Take
<1>2. /\ backlog' \in Seq(QueuedTry) /\ Len(backlog') = Len(backlog) - 1
      /\ \A i \in 1 .. Len(backlog) - 1 :
             backlog'[i] = IF i < 1 THEN backlog[i] ELSE backlog[i + 1]
  BY <1>0, <1>1 DEF SandboxType
<1>3. PICK c \in Callers : c = backlog[1].caller
  BY <1>0, <1>1, TriesAreOfCallers
<1>4. InQueue(job[c]) /\ TryOf(c, job[c]) = backlog[1] /\ TriesCounted(job[c])
  BY <1>0, <1>1, <1>3 DEF BacklogTells, SandboxInv
<1>5. PICK j \in SandboxJob : j = job[c]
  BY <1>0 DEF SandboxType
<1> DEFINE next == [[j EXCEPT !.state = "running"] EXCEPT !.begun = j.begun + 1]
<1>6. Sandbox!Try(c) = Head(backlog) /\ Sandbox!Waits(c, "queued")
  BY <1>1, <1>4 DEF TryOf, Sandbox!Try, Sandbox!Waits, Sandbox!At, InQueue
<1>7. job' = [job EXCEPT ![c] = next] /\ UNCHANGED <<strays, told, calls, breaker, streak>>
  <2>1. /\ job' = [job EXCEPT ![c].state = "running", ![c].begun = @ + 1]
        /\ UNCHANGED <<strays, told, calls, breaker, streak>>
    BY <1>1, <1>3, <1>6 DEF Sandbox!Take
  <2> QED BY <1>0, <1>5, <2>1 DEF SandboxType, SandboxJob
<1>8. next \in SandboxJob /\ ~InQueue(next) /\ TriesCounted(next)
  <2>1. /\ next.pc = "wait" /\ next.state = "running" /\ next.attempt = j.attempt
        /\ next.begun = j.begun + 1 /\ next.done = j.done /\ next.late = j.late
    BY <1>4, <1>5 DEF SandboxJob, InQueue
  <2>2. next \in SandboxJob
    <3>1. PICK n \in Nat : n = j.begun + 1
      BY DEF SandboxJob
    <3>2. [[j EXCEPT !.state = "running"] EXCEPT !.begun = n] \in SandboxJob
      BY DEF SandboxJob
    <3> QED BY <3>1, <3>2
  <2> HIDE DEF next
  <2> QED BY <1>4, <1>5, <2>1, <2>2 DEF SandboxJob, InQueue, TriesCounted
<1> HIDE DEF next
<1> QED BY <1>1, <1>2, <1>3, <1>7, <1>8, LeavesBacklog

\* The job of a caller whose try came to nothing.
LEMMA TriesAgain ==
    ASSUME ServicesAssumption, NEW j \in SandboxJob, j.pc = "wait",
           j.attempt <= MaxRetries, j.begun <= j.attempt + 1, j.done <= j.late
    PROVE  /\ Sandbox!AfterTry(j) \in SandboxJob /\ TriesCounted(Sandbox!AfterTry(j))
           /\ ~InQueue(Sandbox!AfterTry(j))
<1>1. CASE j.attempt < MaxRetries
  <2> DEFINE again == [[j EXCEPT !.pc = "submit"] EXCEPT !.attempt = j.attempt + 1]
  <2>1. Sandbox!AfterTry(j) = again
    BY <1>1 DEF Sandbox!AfterTry, SandboxJob
  <2>2. again \in SandboxJob
    <3>1. PICK n \in Nat : n = j.attempt + 1
      BY DEF SandboxJob
    <3>2. [[j EXCEPT !.pc = "submit"] EXCEPT !.attempt = n] \in SandboxJob
      BY DEF SandboxJob
    <3> QED BY <3>1, <3>2
  <2>3. /\ again.pc = "submit" /\ again.attempt = j.attempt + 1
        /\ again.begun = j.begun /\ again.done = j.done /\ again.late = j.late
    BY DEF SandboxJob
  <2> HIDE DEF again
  <2> QED BY <1>1, <2>1, <2>2, <2>3 DEF ServicesAssumption, SandboxJob, TriesCounted, InQueue
<1>2. CASE ~(j.attempt < MaxRetries)
  <2> DEFINE over == [j EXCEPT !.pc = "record"]
  <2>1. Sandbox!AfterTry(j) = over
    BY <1>2 DEF Sandbox!AfterTry
  <2>2. /\ over \in SandboxJob
        /\ over.pc = "record" /\ over.attempt = j.attempt
        /\ over.begun = j.begun /\ over.done = j.done /\ over.late = j.late
    BY DEF SandboxJob
  <2> HIDE DEF over
  <2> QED BY <2>1, <2>2 DEF SandboxJob, TriesCounted, InQueue
<1> QED BY <1>1, <1>2

\* Every step keeps the invariant of the sandbox.
LEMMA SandboxStep ==
    ASSUME SandboxInv, Sandbox!Next
    PROVE  SandboxInv'
<1>0. SandboxType /\ BreakerTells /\ ServicesAssumption
      /\ \A c \in Callers : TriesCounted(job[c]) /\ AnswerTrue(told[c])
  BY ServicesAssumption DEF SandboxInv
<1>1. ASSUME NEW c \in Callers, Sandbox!_fake_run(c)
      PROVE  SandboxInv'
  <2>0. job[c].pc = "idle" /\ ~InQueue(job[c]) /\ job[c] \in SandboxJob /\ job[c].begun = 0
        /\ calls' = calls + 1 /\ UNCHANGED <<backlog, strays, streak>>
        /\ told[c] \in SandboxAnswer /\ AnswerTrue(told[c])
    BY <1>0, <1>1 DEF Sandbox!_fake_run, Sandbox!At, InQueue, TriesCounted, SandboxType
  <2>1. CASE Sandbox!_circuit_open
    <3> DEFINE t == [answer |-> "circuit_open", begun |-> job[c].begun,
                     done |-> job[c].done, late |-> job[c].late]
    <3>1. job' = [job EXCEPT ![c] = Sandbox!Idle] /\ told' = [told EXCEPT ![c] = t]
          /\ breaker' = breaker
      BY <1>1, <2>1 DEF Sandbox!_fake_run, Sandbox!Answers
    <3>2. t \in SandboxAnswer /\ AnswerTrue(t)
      BY <1>0, <2>0 DEF SandboxAnswer, SandboxJob, AnswerTrue, ServicesAssumption
    <3>3. Sandbox!Idle \in SandboxJob /\ TriesCounted(Sandbox!Idle) /\ ~InQueue(Sandbox!Idle)
      BY <1>0 DEF Sandbox!Idle, SandboxJob, TriesCounted, InQueue, ServicesAssumption
    <3>4. BreakerTells' /\ calls' \in Nat /\ strays' \in Nat /\ streak' \in Nat
          /\ breaker' \in [open: BOOLEAN, cooled: BOOLEAN, failures: Nat]
      BY <1>0, <2>0, <3>1 DEF BreakerTells, SandboxType
    <3> HIDE DEF t
    <3> QED BY <2>0, <3>1, <3>2, <3>3, <3>4, CallerMoves
  <2>2. CASE ~Sandbox!_circuit_open
    <3> DEFINE j == [[Sandbox!Idle EXCEPT !.pc = "submit"] EXCEPT !.call = calls + 1]
    <3>1. /\ job' = [job EXCEPT ![c] = j] /\ told' = [told EXCEPT ![c] = told[c]]
          /\ breaker' = IF breaker.open THEN Sandbox!Closed ELSE breaker
      BY <1>0, <1>1, <2>2 DEF Sandbox!_fake_run, SandboxType
    <3>2. j \in SandboxJob /\ TriesCounted(j) /\ ~InQueue(j)
      <4>1. PICK n \in Nat : n = calls + 1
        BY <1>0 DEF SandboxType
      <4>2. [[Sandbox!Idle EXCEPT !.pc = "submit"] EXCEPT !.call = n] \in SandboxJob
        BY DEF Sandbox!Idle, SandboxJob
      <4>3. j \in SandboxJob
        BY <4>1, <4>2
      <4>4. /\ j.pc = "submit" /\ j.attempt = 0 /\ j.begun = 0 /\ j.done = 0 /\ j.late = 0
        BY DEF Sandbox!Idle
      <4> HIDE DEF j
      <4> QED BY <1>0, <4>3, <4>4 DEF TriesCounted, InQueue, ServicesAssumption
    <3>3. BreakerTells' /\ calls' \in Nat /\ strays' \in Nat /\ streak' \in Nat
          /\ breaker' \in [open: BOOLEAN, cooled: BOOLEAN, failures: Nat]
      BY <1>0, <2>0, <3>1 DEF BreakerTells, SandboxType, Sandbox!Closed
    <3> HIDE DEF j
    <3> QED BY <2>0, <3>1, <3>2, <3>3, CallerMoves
  <2> QED BY <2>1, <2>2
<1>2. ASSUME NEW c \in Callers, Sandbox!Succeeds(c)
      PROVE  SandboxInv'
  <2> DEFINE t == [answer |-> "success", begun |-> job[c].begun,
                   done |-> job[c].done, late |-> job[c].late]
  <2>1. job' = [job EXCEPT ![c] = Sandbox!Idle] /\ told' = [told EXCEPT ![c] = t]
        /\ breaker' = Sandbox!Closed /\ streak' = 0 /\ UNCHANGED <<calls, backlog, strays>>
        /\ job[c].pc = "wait" /\ job[c].state = "done" /\ job[c] \in SandboxJob
    BY <1>0, <1>2 DEF Sandbox!Succeeds, Sandbox!Answers, Sandbox!_record_circuit_success,
                      Sandbox!Waits, Sandbox!At, SandboxType
  <2>2. t \in SandboxAnswer /\ AnswerTrue(t) /\ ~InQueue(job[c])
    BY <1>0, <2>1 DEF SandboxAnswer, SandboxJob, AnswerTrue, TriesCounted, InQueue, ServicesAssumption
  <2>3. Sandbox!Idle \in SandboxJob /\ TriesCounted(Sandbox!Idle) /\ ~InQueue(Sandbox!Idle)
    BY <1>0 DEF Sandbox!Idle, SandboxJob, TriesCounted, InQueue, ServicesAssumption
  <2>4. BreakerTells' /\ calls' \in Nat /\ strays' \in Nat /\ streak' \in Nat
        /\ breaker' \in [open: BOOLEAN, cooled: BOOLEAN, failures: Nat]
    BY <1>0, <2>1 DEF BreakerTells, SandboxType, Sandbox!Closed
  <2> HIDE DEF t
  <2> QED BY <2>1, <2>2, <2>3, <2>4, CallerMoves
<1>3. ASSUME NEW c \in Callers, Sandbox!Fails(c)
      PROVE  SandboxInv'
  <2>1. PICK j \in SandboxJob : j = job[c]
    BY <1>0 DEF SandboxType
  <2>2. /\ job' = [job EXCEPT ![c] = Sandbox!AfterTry(j)] /\ told' = [told EXCEPT ![c] = told[c]]
        /\ j.pc = "wait" /\ j.state = "raised" /\ told[c] \in SandboxAnswer
        /\ UNCHANGED <<calls, backlog, strays, breaker, streak>>
    BY <1>0, <1>3, <2>1 DEF Sandbox!Fails, Sandbox!Waits, Sandbox!At, SandboxType
  <2>3. /\ Sandbox!AfterTry(j) \in SandboxJob /\ TriesCounted(Sandbox!AfterTry(j))
        /\ ~InQueue(Sandbox!AfterTry(j)) /\ ~InQueue(job[c])
    BY <1>0, <2>1, <2>2, TriesAgain DEF TriesCounted, InQueue
  <2>4. BreakerTells' /\ calls' \in Nat /\ strays' \in Nat /\ streak' \in Nat
        /\ breaker' \in [open: BOOLEAN, cooled: BOOLEAN, failures: Nat]
    BY <1>0, <2>2 DEF BreakerTells, SandboxType
  <2> QED BY <1>0, <2>2, <2>3, <2>4, CallerMoves
<1>4. ASSUME NEW c \in Callers, Sandbox!TimesOut(c)
      PROVE  SandboxInv'
  <2>1. PICK j \in SandboxJob : j = job[c]
    BY <1>0 DEF SandboxType
  <2>2. /\ j.pc = "wait" /\ j.state # "raised" /\ TriesCounted(j)
        /\ UNCHANGED <<told, calls, breaker, streak>>
    BY <1>0, <1>4, <2>1 DEF Sandbox!TimesOut, Sandbox!At
  <2>3. CASE j.state = "queued"
    <3>1. PICK k \in DOMAIN backlog :
              backlog[k] = Sandbox!Try(c) /\ backlog' = Sandbox!RemoveAt(backlog, k)
      BY <1>4, <2>1, <2>3 DEF Sandbox!TimesOut
    <3>2. job' = [job EXCEPT ![c] = Sandbox!AfterTry(j)] /\ strays' = strays
      BY <1>0, <1>4, <2>1, <2>3 DEF Sandbox!TimesOut, Sandbox!GivenUp, SandboxType
    <3>3. /\ Sandbox!AfterTry(j) \in SandboxJob /\ TriesCounted(Sandbox!AfterTry(j))
          /\ ~InQueue(Sandbox!AfterTry(j))
      BY <1>0, <2>2, <2>3, TriesAgain DEF TriesCounted
    <3>4. backlog[k].caller = c
      BY <3>1 DEF Sandbox!Try
    <3>5. backlog \in Seq(QueuedTry)
      BY <1>0 DEF SandboxType
    <3>6. /\ backlog' \in Seq(QueuedTry) /\ Len(backlog') = Len(backlog) - 1
          /\ \A i \in 1 .. Len(backlog) - 1 :
                 backlog'[i] = IF i < k THEN backlog[i] ELSE backlog[i + 1]
      BY <3>1, <3>5, Removed
    <3> QED BY <2>2, <3>2, <3>3, <3>4, <3>6, LeavesBacklog
  <2>4. CASE j.state # "queued"
    <3> DEFINE later == [j EXCEPT !.late = @ + 1]
    <3>0. /\ told' = [told EXCEPT ![c] = told[c]] /\ told[c] \in SandboxAnswer
          /\ backlog' = backlog /\ strays' \in Nat
      BY <1>0, <1>4, <2>1, <2>4 DEF Sandbox!TimesOut, SandboxType
    <3>1. job' = [job EXCEPT ![c] = Sandbox!AfterTry(later)]
      <4>1. job' = [job EXCEPT ![c] = Sandbox!AfterTry(Sandbox!GivenUp(job[c]))]
        BY <1>4 DEF Sandbox!TimesOut
      <4>2. Sandbox!GivenUp(job[c]) = later
        BY <2>1, <2>4 DEF Sandbox!GivenUp
      <4> HIDE DEF later
      <4> QED BY <4>1, <4>2
    <3>2. /\ later \in SandboxJob /\ later.pc = "wait" /\ later.attempt <= MaxRetries
          /\ later.begun <= later.attempt + 1 /\ later.done <= later.late
      BY <2>2 DEF SandboxJob, TriesCounted
    <3> HIDE DEF later
    <3>3. /\ Sandbox!AfterTry(later) \in SandboxJob /\ TriesCounted(Sandbox!AfterTry(later))
          /\ ~InQueue(Sandbox!AfterTry(later)) /\ ~InQueue(job[c])
      BY <1>0, <2>1, <2>4, <3>2, TriesAgain DEF InQueue
    <3>4. BreakerTells' /\ calls' \in Nat /\ streak' \in Nat
          /\ breaker' \in [open: BOOLEAN, cooled: BOOLEAN, failures: Nat]
      BY <1>0, <2>2 DEF BreakerTells, SandboxType
    <3> QED BY <1>0, <3>0, <3>1, <3>3, <3>4, CallerMoves
  <2> QED BY <2>3, <2>4
<1>5. ASSUME NEW c \in Callers, Sandbox!RecordFailure(c)
      PROVE  SandboxInv'
  <2> DEFINE t == [answer |-> "failed", begun |-> job[c].begun,
                   done |-> job[c].done, late |-> job[c].late]
  <2>1. job' = [job EXCEPT ![c] = Sandbox!Idle] /\ told' = [told EXCEPT ![c] = t]
        /\ streak' = streak + 1 /\ UNCHANGED <<calls, backlog, strays>>
        /\ job[c].pc = "record" /\ job[c] \in SandboxJob
    BY <1>0, <1>5 DEF Sandbox!RecordFailure, Sandbox!Answers, Sandbox!At, SandboxType
  <2>2. t \in SandboxAnswer /\ AnswerTrue(t) /\ ~InQueue(job[c])
    BY <1>0, <2>1 DEF SandboxAnswer, SandboxJob, AnswerTrue, TriesCounted, InQueue, ServicesAssumption
  <2>3. Sandbox!Idle \in SandboxJob /\ TriesCounted(Sandbox!Idle) /\ ~InQueue(Sandbox!Idle)
    BY <1>0 DEF Sandbox!Idle, SandboxJob, TriesCounted, InQueue, ServicesAssumption
  <2>4. BreakerTells' /\ calls' \in Nat /\ strays' \in Nat /\ streak' \in Nat
        /\ breaker' \in [open: BOOLEAN, cooled: BOOLEAN, failures: Nat]
    <3>1. PICK kept \in 0 .. breaker.failures :
              breaker' = [breaker EXCEPT !.failures = kept + 1,
                                         !.open = @ \/ kept + 1 >= Threshold]
      BY <1>5 DEF Sandbox!RecordFailure, Sandbox!_record_circuit_failure
    <3>2. PICK b \in [open: BOOLEAN, cooled: BOOLEAN, failures: Nat] : b = breaker
      BY <1>0 DEF SandboxType
    <3>3. breaker'.failures = kept + 1 /\ breaker'.cooled = b.cooled
          /\ breaker'.open = (b.open \/ kept + 1 >= Threshold)
          /\ breaker' = [open |-> breaker'.open, cooled |-> b.cooled, failures |-> kept + 1]
      BY <3>1, <3>2
    <3>4. kept + 1 \in Nat /\ kept + 1 <= streak + 1
          /\ streak \in Nat /\ (b.open => streak >= Threshold) /\ Threshold \in Nat
      BY <1>0, <3>2 DEF BreakerTells, SandboxType, ServicesAssumption
    <3>5. breaker' \in [open: BOOLEAN, cooled: BOOLEAN, failures: Nat]
      BY <3>2, <3>3, <3>4
    <3>6. breaker'.failures <= streak' /\ (breaker'.open => streak' >= Threshold)
      BY <2>1, <3>3, <3>4
    <3> QED BY <1>0, <2>1, <3>4, <3>5, <3>6 DEF BreakerTells, SandboxType
  <2> HIDE DEF t
  <2> QED BY <2>1, <2>2, <2>3, <2>4, CallerMoves
<1>6. ASSUME NEW c \in Callers, Sandbox!_do_work(c)
      PROVE  SandboxInv'
  <2>1. PICK j \in SandboxJob : j = job[c]
    BY <1>0 DEF SandboxType
  <2> DEFINE done == [[j EXCEPT !.state = "done"] EXCEPT !.done = j.done + 1]
             raised == [j EXCEPT !.state = "raised"]
  <2>2. /\ job' = [job EXCEPT ![c] = done] \/ job' = [job EXCEPT ![c] = raised]
        /\ told' = [told EXCEPT ![c] = told[c]] /\ told[c] \in SandboxAnswer
        /\ j.pc = "wait" /\ j.state = "running" /\ TriesCounted(j)
        /\ UNCHANGED <<calls, backlog, strays, breaker, streak>>
    <3>1. \/ job' = [job EXCEPT ![c].state = "done", ![c].done = @ + 1]
          \/ job' = [job EXCEPT ![c].state = "raised"]
      BY <1>6 DEF Sandbox!_do_work
    <3>2. job' = [job EXCEPT ![c] = done] \/ job' = [job EXCEPT ![c] = raised]
      BY <1>0, <2>1, <3>1 DEF SandboxType, SandboxJob
    <3> HIDE DEF done, raised
    <3> QED
      BY <1>0, <1>6, <2>1, <3>2 DEF Sandbox!_do_work, Sandbox!Waits, Sandbox!At, SandboxType
  <2>3. /\ done \in SandboxJob /\ TriesCounted(done) /\ ~InQueue(done)
        /\ raised \in SandboxJob /\ TriesCounted(raised) /\ ~InQueue(raised)
        /\ ~InQueue(job[c])
    <3>0. done \in SandboxJob
      <4>1. PICK n \in Nat : n = j.done + 1
        BY DEF SandboxJob
      <4>2. [[j EXCEPT !.state = "done"] EXCEPT !.done = n] \in SandboxJob
        BY DEF SandboxJob
      <4> QED BY <4>1, <4>2
    <3>1. /\ done.pc = "wait" /\ done.state = "done"
          /\ done.attempt = j.attempt /\ done.begun = j.begun
          /\ done.done = j.done + 1 /\ done.late = j.late
      BY <2>2 DEF SandboxJob
    <3>2. /\ raised \in SandboxJob /\ raised.pc = "wait" /\ raised.state = "raised"
          /\ raised.attempt = j.attempt /\ raised.begun = j.begun
          /\ raised.done = j.done /\ raised.late = j.late
      BY <2>2 DEF SandboxJob
    <3> HIDE DEF done, raised
    <3> QED BY <2>1, <2>2, <3>0, <3>1, <3>2 DEF SandboxJob, TriesCounted, InQueue
  <2>4. BreakerTells' /\ calls' \in Nat /\ strays' \in Nat /\ streak' \in Nat
        /\ breaker' \in [open: BOOLEAN, cooled: BOOLEAN, failures: Nat]
    BY <1>0, <2>2 DEF BreakerTells, SandboxType
  <2> HIDE DEF done, raised
  <2> QED BY <1>0, <2>2, <2>3, <2>4, CallerMoves
<1>7. CASE Sandbox!CoolDownPasses
  BY <1>0, <1>7
  DEF Sandbox!CoolDownPasses, SandboxInv, SandboxType, BacklogTells, BreakerTells
<1>8. CASE Sandbox!StrayEnds
  BY <1>0, <1>8
  DEF Sandbox!StrayEnds, SandboxInv, SandboxType, BacklogTells, BreakerTells
<1> QED
  BY <1>1, <1>2, <1>3, <1>4, <1>5, <1>6, <1>7, <1>8, JoinsBacklog, TakesTry DEF Sandbox!Next

\* The invariant of the sandbox holds always.
LEMMA SandboxKept == Spec => [](part = "sandbox" => SandboxInv)
<1>1. Init => (part = "sandbox" => SandboxInv)
  <2> SUFFICES ASSUME Sandbox!Init
               PROVE  SandboxInv
    BY DEF Init
  <2>1. <<>> \in Seq(QueuedTry)
    OBVIOUS
  <2> QED
    BY <2>1, ServicesAssumption
    DEF Sandbox!Init, Sandbox!Idle, Sandbox!Nothing, Sandbox!Closed, SandboxInv, SandboxType,
        SandboxJob, SandboxAnswer, TriesCounted, AnswerTrue, BacklogTells, BreakerTells, InQueue,
        ServicesAssumption
<1>2. (part = "sandbox" => SandboxInv) /\ [Next]_vars => (part = "sandbox" => SandboxInv)'
  <2> SUFFICES ASSUME part = "sandbox" => SandboxInv, [Next]_vars, part' = "sandbox"
               PROVE  SandboxInv'
    OBVIOUS
  <2>1. part = "sandbox" /\ (Sandbox!Next \/ UNCHANGED Sandbox!vars)
    BY StepOfPart
  <2>2. CASE Sandbox!Next
    BY <2>1, <2>2, SandboxStep
  <2>3. CASE UNCHANGED Sandbox!vars
    BY <2>1, <2>3 DEF Sandbox!vars, SandboxInv, SandboxType, BacklogTells, BreakerTells
  <2> QED BY <2>1, <2>2, <2>3
<1> QED BY <1>1, <1>2, PTL DEF Spec

\* An answer of the sandbox tells what the tries of the tool did, whenever their limits
\* passed: what was withdrawn from the backlog never runs, a failure has done its work
\* in tries that were given up at most, and calls are refused only behind as many
\* failures in a row as the threshold says.
THEOREM AnswersTell == Spec => []AnswersTellOfRuns
<1>1. (part = "sandbox" => SandboxInv) => AnswersTellOfRuns
  BY DEF SandboxInv, AnswerTrue, BacklogTells, BreakerTells, InQueue, TryOf, AnswersTellOfRuns,
         Sandbox!AnswersTellOfRuns, Sandbox!Waits, Sandbox!At, Sandbox!Try
<1> QED BY <1>1, SandboxKept, PTL


-----------------------------------------------------------------------------
(* A customer's thread: the status is what the messages make it            *)

ThreadRow == [channel: CustomerThreads!Channels,
              status: {"open", "awaiting_human", "escalated", "resolved"},
              sentiment: {"neutral", "negative"},
              log: Seq(CustomerThreads!Messages),
              requests: [CustomerThreads!Kinds -> {"none", "pending", "answered"}],
              whole: BOOLEAN]

\* Whatever a crash leaves: who is waited for was asked, and a draft that answers a message
\* with a risk does not stand in an open thread.
RowSafe(t) ==
    /\ t.status = "awaiting_human" /\ t.channel = "instagram_dm" => t.requests["reply"] # "none"
    /\ \A i \in 1..Len(t.log) :
           /\ t.log[i] = "draft"
           /\ CustomerThreads!_last_customer_message(SubSeq(t.log, 1, i)) = "legal"
           => t.status # "open"

\* Behind a handler that ended: the row holds what its messages say.
RowAgrees(t) ==
    LET said == CustomerThreads!_last_customer_message(t.log) IN
    /\ t.status = CustomerThreads!StatusOf(t.log)
    /\ said # "none" => t.sentiment = CustomerThreads!detect_sentiment(said)

ThreadInv ==
    \/ thread = CustomerThreads!None
    \/ thread \in ThreadRow /\ RowSafe(thread) /\ (thread.whole => RowAgrees(thread))


\* A message more: what came before it is still what came before it.
LEMMA MessageMore ==
    ASSUME NEW log \in Seq(CustomerThreads!Messages), NEW m \in CustomerThreads!Messages
    PROVE  /\ Append(log, m) \in Seq(CustomerThreads!Messages)
           /\ Len(log) \in Nat /\ Len(Append(log, m)) = Len(log) + 1
           /\ Append(log, m)[Len(log) + 1] = m
           /\ \A i \in 1..Len(log) :
                  /\ Append(log, m)[i] = log[i]
                  /\ SubSeq(Append(log, m), 1, i) = SubSeq(log, 1, i)
           /\ SubSeq(Append(log, m), 1, Len(log) + 1) = Append(log, m)
<1> DEFINE more == Append(log, m)
<1>1. /\ more \in Seq(CustomerThreads!Messages) /\ Len(log) \in Nat
      /\ Len(more) = Len(log) + 1 /\ more[Len(log) + 1] = m
      /\ \A i \in 1..Len(log) : more[i] = log[i]
  OBVIOUS
<1> HIDE DEF more
<1>2. ASSUME NEW i \in 1..Len(log)
      PROVE  SubSeq(more, 1, i) = SubSeq(log, 1, i)
  BY <1>1
<1>3. SubSeq(more, 1, Len(log) + 1) = more
  BY <1>1
<1> QED BY <1>1, <1>2, <1>3 DEF more

\* What the customer said last, behind one message more.
LEMMA SaidLast ==
    ASSUME NEW log \in Seq(CustomerThreads!Messages), NEW m \in CustomerThreads!Messages
    PROVE  CustomerThreads!_last_customer_message(Append(log, m)) =
               IF m \in CustomerThreads!Moods THEN m
               ELSE CustomerThreads!_last_customer_message(log)
<1> DEFINE more == Append(log, m)
           n == Len(log) + 1
           said(l) == {i \in 1..Len(l) : l[i] \in CustomerThreads!Moods}
           last_of(S) == CHOOSE i \in S : \A other \in S : other <= i
<1>1. /\ Len(log) \in Nat /\ Len(more) = n /\ more[n] = m
      /\ \A i \in 1..Len(log) : more[i] = log[i]
  BY MessageMore
<1>2. \A l : CustomerThreads!_last_customer_message(l) =
                 IF said(l) = {} THEN "none" ELSE l[last_of(said(l))]
  BY DEF CustomerThreads!_last_customer_message
<1> HIDE DEF more
<1>3. CASE m \in CustomerThreads!Moods
  <2>1. n \in said(more) /\ \A i \in said(more) : i <= n /\ i \in Nat
    BY <1>1, <1>3
  <2>2. last_of(said(more)) = n
    BY <1>1, <2>1
  <2> HIDE DEF said, last_of
  <2> QED BY <1>1, <1>2, <1>3, <2>1, <2>2 DEF more
<1>4. CASE m \notin CustomerThreads!Moods
  <2>1. said(more) = said(log)
    BY <1>1, <1>4
  <2>2. CASE said(log) = {}
    <3> HIDE DEF said, last_of
    <3> QED BY <1>2, <1>4, <2>1, <2>2 DEF more
  <2>3. CASE said(log) # {}
    <3>1. said(log) \in SUBSET (1..Len(log))
      OBVIOUS
    <3>2. PICK x \in said(log) : \A y \in said(log) : y <= x
      <4> HIDE DEF said
      <4> QED BY <1>1, <2>3, <3>1, Greatest
    <3>3. last_of(said(log)) \in said(log)
      <4> HIDE DEF said
      <4> QED BY <3>2
    <3>4. last_of(said(log)) \in 1..Len(log)
      <4> HIDE DEF last_of
      <4> QED BY <3>3
    <3> HIDE DEF said, last_of
    <3>5. more[last_of(said(log))] = log[last_of(said(log))]
      BY <1>1, <3>4
    <3> QED BY <1>2, <1>4, <2>1, <2>3, <3>5 DEF more
  <2> QED BY <2>2, <2>3
<1> QED BY <1>3, <1>4

\* The status after each message of a log: f is the function StatusOf speaks of.
AfterEach(f, log, n) ==
    f = [i \in 0..n |-> IF i = 0 THEN "open" ELSE CustomerThreads!Follows(log, f[i - 1], i)]

\* There is such a function.
LEMMA StatusesExist ==
    ASSUME NEW log, NEW n \in Nat
    PROVE  \E f : AfterEach(f, log, n)
<1> DEFINE S == {k \in Nat : ~\E f : AfterEach(f, log, k)}
<1> SUFFICES ASSUME S # {}
             PROVE  FALSE
  OBVIOUS
<1>1. PICK k \in S : \A other \in S : k <= other
  <2>1. S \in SUBSET Nat
    OBVIOUS
  <2> HIDE DEF S
  <2> QED BY <2>1, Least
<1>2. k \in Nat /\ ~\E f : AfterEach(f, log, k)
  OBVIOUS
<1>3. CASE k = 0
  <2>1. AfterEach([i \in 0..0 |-> "open"], log, 0)
    BY DEF AfterEach
  <2> QED BY <1>2, <1>3, <2>1
<1>4. CASE k # 0
  <2>1. k - 1 \in Nat /\ k - 1 \notin S
    <3>1. k - 1 \in Nat /\ ~(k <= k - 1)
      BY <1>2, <1>4
    <3> HIDE DEF S
    <3> QED BY <1>1, <3>1
  <2>2. PICK f : AfterEach(f, log, k - 1)
    BY <2>1
  <2> DEFINE g == [i \in 0..k |-> IF i < k THEN f[i]
                                  ELSE CustomerThreads!Follows(log, f[k - 1], k)]
  <2>3. \A i \in 0 .. k - 1 :
            f[i] = IF i = 0 THEN "open" ELSE CustomerThreads!Follows(log, f[i - 1], i)
    BY <2>2 DEF AfterEach
  <2>4. \A i \in 0..k : i < k => g[i] = f[i]
    BY <1>2
  <2>5. ASSUME NEW i \in 0..k
        PROVE  g[i] = IF i = 0 THEN "open" ELSE CustomerThreads!Follows(log, g[i - 1], i)
    <3>1. CASE i = 0
      <4>1. i < k /\ 0 \in 0 .. k - 1
        BY <1>2, <1>4, <3>1
      <4>2. g[i] = f[0]
        BY <2>4, <3>1, <4>1
      <4> HIDE DEF g
      <4> QED BY <2>3, <3>1, <4>1, <4>2
    <3>2. CASE i # 0 /\ i < k
      <4>1. i \in 0 .. k - 1 /\ i - 1 \in 0..k /\ i - 1 < k
        BY <1>2, <3>2
      <4>2. g[i] = f[i] /\ g[i - 1] = f[i - 1]
        BY <2>4, <3>2, <4>1
      <4> HIDE DEF g
      <4> QED BY <2>3, <3>2, <4>1, <4>2
    <3>3. CASE i = k
      <4>1. k - 1 \in 0..k /\ k - 1 < k /\ k \in 0..k /\ ~(k < k)
        BY <1>2, <1>4
      <4>2. g[k - 1] = f[k - 1]
        BY <2>4, <4>1
      <4>3. g[k] = CustomerThreads!Follows(log, f[k - 1], k)
        BY <4>1
      <4> HIDE DEF g
      <4> QED BY <1>4, <3>3, <4>2, <4>3
    <3> QED BY <1>2, <3>1, <3>2, <3>3
  <2>6. g = [i \in 0..k |-> g[i]]
    OBVIOUS
  <2>7. AfterEach(g, log, k)
    <3> HIDE DEF g
    <3> QED BY <2>5, <2>6 DEF AfterEach
  <2> QED BY <1>2, <2>7
<1> QED BY <1>3, <1>4

\* It is the last value of that function.
LEMMA StatusIsLast ==
    ASSUME NEW log \in Seq(CustomerThreads!Messages)
    PROVE  \E f : AfterEach(f, log, Len(log)) /\ CustomerThreads!StatusOf(log) = f[Len(log)]
<1> DEFINE f == CHOOSE f : AfterEach(f, log, Len(log))
<1>1. Len(log) \in Nat
  OBVIOUS
<1>2. AfterEach(f, log, Len(log))
  BY <1>1, StatusesExist
<1>3. CustomerThreads!StatusOf(log) = f[Len(log)]
  BY DEF CustomerThreads!StatusOf, AfterEach
<1> QED BY <1>2, <1>3

\* One message more is one step more.
LEMMA StatusAfter ==
    ASSUME NEW log \in Seq(CustomerThreads!Messages), NEW m \in CustomerThreads!Messages
    PROVE  CustomerThreads!StatusOf(Append(log, m)) =
               CustomerThreads!Follows(Append(log, m), CustomerThreads!StatusOf(log), Len(log) + 1)
<1> DEFINE more == Append(log, m)
           n == Len(log)
<1>1. /\ n \in Nat /\ more \in Seq(CustomerThreads!Messages) /\ Len(more) = n + 1
      /\ \A i \in 1..n : more[i] = log[i] /\ SubSeq(more, 1, i) = SubSeq(log, 1, i)
  BY MessageMore
<1>2. PICK f : AfterEach(f, log, n) /\ CustomerThreads!StatusOf(log) = f[n]
  BY StatusIsLast
<1>3. PICK g : AfterEach(g, more, n + 1) /\ CustomerThreads!StatusOf(more) = g[n + 1]
  BY <1>1, StatusIsLast
<1>4. /\ \A i \in 0..n :
             f[i] = IF i = 0 THEN "open" ELSE CustomerThreads!Follows(log, f[i - 1], i)
      /\ \A i \in 0 .. n + 1 :
             g[i] = IF i = 0 THEN "open" ELSE CustomerThreads!Follows(more, g[i - 1], i)
  BY <1>2, <1>3 DEF AfterEach
<1>5. \A i \in 1..n : \A s : CustomerThreads!Follows(more, s, i) = CustomerThreads!Follows(log, s, i)
  BY <1>1 DEF CustomerThreads!Follows
<1> HIDE DEF more
<1> DEFINE S == {i \in 0..n : f[i] # g[i]}
<1>6. S = {}
  <2> SUFFICES ASSUME S # {}
               PROVE  FALSE
    OBVIOUS
  <2>1. PICK k \in S : \A other \in S : k <= other
    <3>1. S \in SUBSET Nat
      BY <1>1
    <3> HIDE DEF S
    <3> QED BY <3>1, Least
  <2>2. k \in 0..n /\ k \in 0 .. n + 1 /\ f[k] # g[k]
    BY <1>1
  <2>3. CASE k = 0
    BY <1>4, <2>2, <2>3
  <2>4. CASE k # 0
    <3>1. k - 1 \in 0..n /\ ~(k <= k - 1) /\ k \in 1..n
      BY <1>1, <2>2, <2>4
    <3>2. f[k - 1] = g[k - 1]
      BY <2>1, <3>1
    <3> HIDE DEF S
    <3> QED BY <1>4, <1>5, <2>2, <2>4, <3>1, <3>2
  <2> QED BY <2>3, <2>4
<1>7. f[n] = g[n] /\ n + 1 \in 0 .. n + 1 /\ n + 1 # 0 /\ (n + 1) - 1 = n
  <2>1. n \in 0..n
    BY <1>1
  <2> QED BY <1>1, <1>6, <2>1
<1> HIDE DEF n
<1>8. g[n + 1] = CustomerThreads!Follows(more, f[n], n + 1)
  BY <1>4, <1>7
<1> QED BY <1>2, <1>3, <1>8 DEF more, n

\* Nobody has said anything at the start.
LEMMA StatusAtStart == CustomerThreads!StatusOf(<<>>) = "open"
<1>1. <<>> \in Seq(CustomerThreads!Messages) /\ Len(<<>>) = 0
  OBVIOUS
<1>2. PICK f : AfterEach(f, <<>>, 0) /\ CustomerThreads!StatusOf(<<>>) = f[0]
  BY <1>1, StatusIsLast
<1> QED BY <1>2 DEF AfterEach


\* What a transaction leaves of a row, by its kind.
LEMMA WrittenIs ==
    ASSUME NEW t, NEW x
    PROVE  /\ CustomerThreads!Written(t, <<"message", x>>) = [t EXCEPT !.log = Append(t.log, x)]
           /\ CustomerThreads!Written(t, <<"sentiment", x>>) = [t EXCEPT !.sentiment = x]
           /\ CustomerThreads!Written(t, <<"status", x>>) = [t EXCEPT !.status = x]
           /\ CustomerThreads!Written(t, <<"request", x>>) = CustomerThreads!Requested(t, x)
BY DEF CustomerThreads!Written

\* A message, which is no draft that nobody looks at.
LEMMA MessageKeeps ==
    ASSUME NEW t \in ThreadRow, RowSafe(t), NEW m \in CustomerThreads!Messages,
           m = "draft" => \/ t.status # "open"
                          \/ CustomerThreads!_last_customer_message(t.log) # "legal",
           NEW u, u = CustomerThreads!Written(t, <<"message", m>>)
    PROVE  /\ u \in ThreadRow /\ RowSafe(u)
           /\ u.log = Append(t.log, m) /\ u.status = t.status /\ u.sentiment = t.sentiment
           /\ u.whole = t.whole /\ u.channel = t.channel /\ u.requests = t.requests
<1>1. u = [t EXCEPT !.log = Append(t.log, m)] /\ t.log \in Seq(CustomerThreads!Messages)
  <2>1. u = [t EXCEPT !.log = Append(t.log, m)]
    BY WrittenIs
  <2>2. t.log \in Seq(CustomerThreads!Messages)
    BY DEF ThreadRow
  <2> QED BY <2>1, <2>2
<1>2. PICK more : more = Append(t.log, m)
  OBVIOUS
<1>3. /\ more \in Seq(CustomerThreads!Messages)
      /\ Len(t.log) \in Nat /\ Len(more) = Len(t.log) + 1
      /\ more[Len(t.log) + 1] = m
      /\ \A i \in 1..Len(t.log) :
             more[i] = t.log[i] /\ SubSeq(more, 1, i) = SubSeq(t.log, 1, i)
      /\ SubSeq(more, 1, Len(t.log) + 1) = more
  BY <1>1, <1>2, MessageMore
<1>4. u = [t EXCEPT !.log = more]
  BY <1>1, <1>2
<1>5. u \in ThreadRow
  BY <1>3, <1>4 DEF ThreadRow
<1>6. /\ u.log = more /\ u.status = t.status /\ u.sentiment = t.sentiment
      /\ u.whole = t.whole /\ u.channel = t.channel /\ u.requests = t.requests
  BY <1>4 DEF ThreadRow
<1>7. CustomerThreads!_last_customer_message(more) =
          IF m \in CustomerThreads!Moods THEN m
          ELSE CustomerThreads!_last_customer_message(t.log)
  BY <1>1, <1>2, SaidLast
<1>8. "draft" \notin CustomerThreads!Moods
  BY DEF CustomerThreads!Moods
<1>9. ASSUME NEW i \in 1..Len(more), more[i] = "draft",
             CustomerThreads!_last_customer_message(SubSeq(more, 1, i)) = "legal"
      PROVE  t.status # "open"
  <2>1. CASE i = Len(t.log) + 1
    BY <1>3, <1>7, <1>8, <1>9, <2>1
  <2>2. CASE i \in 1..Len(t.log)
    BY <1>3, <1>9, <2>2 DEF RowSafe
  <2> QED BY <1>3, <2>1, <2>2
<1> QED BY <1>2, <1>5, <1>6, <1>9 DEF RowSafe

\* The sentiment is of no weight, and a status that is not "open" puts nothing aside.
LEMMA SentimentKeeps ==
    ASSUME NEW t \in ThreadRow, RowSafe(t), NEW s \in {"neutral", "negative"},
           NEW u, u = CustomerThreads!Written(t, <<"sentiment", s>>)
    PROVE  /\ u \in ThreadRow /\ RowSafe(u)
           /\ u.log = t.log /\ u.status = t.status /\ u.sentiment = s
           /\ u.whole = t.whole /\ u.channel = t.channel /\ u.requests = t.requests
<1>1. u = [t EXCEPT !.sentiment = s]
  BY WrittenIs
<1>2. u \in ThreadRow
  BY <1>1 DEF ThreadRow
<1>3. /\ u.log = t.log /\ u.status = t.status /\ u.sentiment = s
      /\ u.whole = t.whole /\ u.channel = t.channel /\ u.requests = t.requests
  BY <1>1 DEF ThreadRow
<1> QED BY <1>2, <1>3 DEF RowSafe

\* A status that a handler writes leaves the rest of the row, and is never "open".
LEMMA StatusKeeps ==
    ASSUME NEW t \in ThreadRow, RowSafe(t),
           NEW s \in {"awaiting_human", "escalated", "resolved"},
           s = "awaiting_human" /\ t.channel = "instagram_dm" => t.requests["reply"] # "none",
           NEW u, u = CustomerThreads!Written(t, <<"status", s>>)
    PROVE  /\ u \in ThreadRow /\ RowSafe(u)
           /\ u.log = t.log /\ u.status = s /\ u.sentiment = t.sentiment
           /\ u.whole = t.whole /\ u.channel = t.channel /\ u.requests = t.requests
<1>1. u = [t EXCEPT !.status = s]
  BY WrittenIs
<1>2. u \in ThreadRow
  BY <1>1 DEF ThreadRow
<1>3. /\ u.log = t.log /\ u.status = s /\ u.sentiment = t.sentiment
      /\ u.whole = t.whole /\ u.channel = t.channel /\ u.requests = t.requests
  BY <1>1 DEF ThreadRow
<1> QED BY <1>2, <1>3 DEF RowSafe

\* A request that was made is there, or an earlier one is.
LEMMA RequestKeeps ==
    ASSUME NEW t \in ThreadRow, RowSafe(t), NEW k \in CustomerThreads!Kinds,
           NEW u, u = CustomerThreads!Written(t, <<"request", k>>)
    PROVE  /\ u \in ThreadRow /\ RowSafe(u)
           /\ u.log = t.log /\ u.status = t.status /\ u.sentiment = t.sentiment
           /\ u.whole = t.whole /\ u.channel = t.channel
           /\ u.channel = "instagram_dm" => u.requests[k] # "none"
<1>1. u = CustomerThreads!Requested(t, k)
  BY WrittenIs
<1> DEFINE nobody == \/ ~CustomerThreads!assess_approval_need(t)
                     \/ t.requests[CustomerThreads!_proposal_hash(k)] = "pending"
<1>2. CASE nobody
  <2>1. u = t
    BY <1>1, <1>2 DEF CustomerThreads!Requested
  <2>2. t.channel # "instagram_dm" \/ t.requests[k] = "pending"
    BY <1>2 DEF CustomerThreads!assess_approval_need, CustomerThreads!_is_external_publish_plan,
                CustomerThreads!_proposal_hash
  <2> QED BY <2>1, <2>2
<1>3. CASE ~nobody
  <2>1. u = [t EXCEPT !.requests[k] = "pending"]
    BY <1>1, <1>3 DEF CustomerThreads!Requested, CustomerThreads!_proposal_hash
  <2>2. PICK newer : newer = [t.requests EXCEPT ![k] = "pending"]
    OBVIOUS
  <2>3. /\ newer \in [CustomerThreads!Kinds -> {"none", "pending", "answered"}]
        /\ newer[k] = "pending"
        /\ "reply" \in CustomerThreads!Kinds
        /\ t.requests["reply"] # "none" => newer["reply"] # "none"
    BY <2>2 DEF ThreadRow, CustomerThreads!Kinds
  <2>4. u = [t EXCEPT !.requests = newer]
    BY <2>1, <2>2 DEF ThreadRow
  <2>5. u \in ThreadRow
    BY <2>3, <2>4 DEF ThreadRow
  <2>6. /\ u.log = t.log /\ u.status = t.status /\ u.sentiment = t.sentiment
        /\ u.whole = t.whole /\ u.channel = t.channel /\ u.requests = newer
    BY <2>4 DEF ThreadRow
  <2> QED BY <2>3, <2>5, <2>6 DEF RowSafe
<1> QED BY <1>2, <1>3

\* A handler whose first n transactions are safe, whatever n, and which agrees with the
\* messages when it ends.
LEMMA HandlerEnds ==
    ASSUME NEW t \in ThreadRow, t.whole => RowAgrees(t), NEW writes, Len(writes) \in 1..3,
           CustomerThreads!Writes(t, writes),
           \A n \in 0..Len(writes) :
               /\ CustomerThreads!Begun(t, writes, n) \in ThreadRow
               /\ RowSafe(CustomerThreads!Begun(t, writes, n))
               /\ CustomerThreads!Begun(t, writes, n).whole = t.whole,
           t.whole => RowAgrees(CustomerThreads!Begun(t, writes, Len(writes)))
    PROVE  ThreadInv'
<1>1. PICK n \in 0..Len(writes) :
          thread' = [CustomerThreads!Begun(t, writes, n) EXCEPT
                         !.whole = CustomerThreads!Begun(t, writes, n).whole
                                   /\ n \in {0, Len(writes)}]
  BY DEF CustomerThreads!Writes
<1>2. PICK b \in ThreadRow : b = CustomerThreads!Begun(t, writes, n)
  OBVIOUS
<1>3. PICK w \in BOOLEAN : w = (b.whole /\ n \in {0, Len(writes)})
  OBVIOUS
<1>4. thread' = [b EXCEPT !.whole = w] /\ RowSafe(b) /\ b.whole = t.whole
  BY <1>1, <1>2, <1>3
<1>5. /\ thread' \in ThreadRow /\ thread'.whole = w
      /\ thread'.log = b.log /\ thread'.status = b.status /\ thread'.sentiment = b.sentiment
      /\ thread'.channel = b.channel /\ thread'.requests = b.requests
  BY <1>4 DEF ThreadRow
<1>6. RowSafe(thread')
  BY <1>4, <1>5 DEF RowSafe
<1>7. w => RowAgrees(b)
  <2> SUFFICES ASSUME w
               PROVE  RowAgrees(b)
    OBVIOUS
  <2>1. t.whole /\ n \in {0, Len(writes)}
    BY <1>3, <1>4
  <2>2. CASE n = 0
    <3>1. b = t
      BY <1>2, <2>2 DEF CustomerThreads!Begun
    <3> QED BY <2>1, <3>1
  <2>3. CASE n = Len(writes)
    BY <1>2, <2>1, <2>3
  <2> QED BY <2>1, <2>2, <2>3
<1>8. thread'.whole => RowAgrees(thread')
  BY <1>5, <1>7 DEF RowAgrees
<1> QED BY <1>5, <1>6, <1>8 DEF ThreadInv


\* The first transactions of handlers of one, two and three.
LEMMA FirstOf ==
    ASSUME NEW t, NEW writes, NEW a, NEW b, NEW c
    PROVE  /\ CustomerThreads!Begun(t, writes, 0) = t
           /\ writes = <<a>> =>
                  CustomerThreads!Begun(t, writes, 1) = CustomerThreads!Written(t, a)
           /\ writes = <<a, b>> =>
                  /\ CustomerThreads!Begun(t, writes, 1) = CustomerThreads!Written(t, a)
                  /\ CustomerThreads!Begun(t, writes, 2) =
                         CustomerThreads!Written(CustomerThreads!Written(t, a), b)
           /\ writes = <<a, b, c>> =>
                  /\ CustomerThreads!Begun(t, writes, 1) = CustomerThreads!Written(t, a)
                  /\ CustomerThreads!Begun(t, writes, 2) =
                         CustomerThreads!Written(CustomerThreads!Written(t, a), b)
                  /\ CustomerThreads!Begun(t, writes, 3) =
                         CustomerThreads!Written(
                             CustomerThreads!Written(CustomerThreads!Written(t, a), b), c)
BY DEF CustomerThreads!Begun

\* The transactions of a message, by what it is.
LEMMA IngestIs ==
    ASSUME NEW t, NEW m \in CustomerThreads!Messages
    PROVE  CustomerThreads!ingest_message(t, m) =
               IF m \in CustomerThreads!Moods
               THEN << <<"message", m>>, <<"sentiment", CustomerThreads!detect_sentiment(m)>> >>
               ELSE IF m = "reply" /\ t.status = "awaiting_human"
               THEN << <<"message", m>>, <<"status", "resolved">> >>
               ELSE << <<"message", m>> >>
<1>1. "reply" \notin CustomerThreads!Moods
  BY DEF CustomerThreads!Moods
<1> QED
  BY <1>1 DEF CustomerThreads!ingest_message, CustomerThreads!_update_thread_from_message

\* A message that was written in whole: the row agrees with the log.
LEMMA IngestKeeps ==
    ASSUME NEW t \in ThreadRow, RowSafe(t), t.whole => RowAgrees(t),
           NEW m \in {"calm", "angry", "legal", "reply", "note", "draft"},
           m = "draft" =>
               /\ CustomerThreads!_last_customer_message(t.log) # "legal"
               /\ t.sentiment # "negative",
           CustomerThreads!Writes(t, CustomerThreads!ingest_message(t, m))
    PROVE  ThreadInv'
<1>0. m \in CustomerThreads!Messages /\ t.log \in Seq(CustomerThreads!Messages)
  BY DEF CustomerThreads!Messages, CustomerThreads!Moods, ThreadRow
<1>1. PICK more : more = Append(t.log, m)
  OBVIOUS
<1>2. PICK u : u = CustomerThreads!Written(t, <<"message", m>>)
  OBVIOUS
<1>3. /\ u \in ThreadRow /\ RowSafe(u)
      /\ u.log = more /\ u.status = t.status /\ u.sentiment = t.sentiment
      /\ u.whole = t.whole /\ u.channel = t.channel /\ u.requests = t.requests
  BY <1>0, <1>1, <1>2, MessageKeeps
<1>4. CustomerThreads!_last_customer_message(more) =
          IF m \in CustomerThreads!Moods THEN m
          ELSE CustomerThreads!_last_customer_message(t.log)
  BY <1>0, <1>1, SaidLast
<1>5. /\ more[Len(t.log) + 1] = m /\ SubSeq(more, 1, Len(t.log) + 1) = more
      /\ CustomerThreads!StatusOf(more) =
             CustomerThreads!Follows(more, CustomerThreads!StatusOf(t.log), Len(t.log) + 1)
  BY <1>0, <1>1, MessageMore, StatusAfter
<1>6. t.whole => CustomerThreads!StatusOf(more) =
                     IF m = "reply" /\ t.status = "awaiting_human" THEN "resolved" ELSE t.status
  <2> SUFFICES ASSUME t.whole
               PROVE  CustomerThreads!StatusOf(more) =
                          IF m = "reply" /\ t.status = "awaiting_human" THEN "resolved"
                          ELSE t.status
    OBVIOUS
  <2>1. t.status = CustomerThreads!StatusOf(t.log)
    BY DEF RowAgrees
  <2>2. m = "draft" => CustomerThreads!_last_customer_message(more) \notin {"angry", "legal"}
    <3>1. "draft" \notin CustomerThreads!Moods
      BY DEF CustomerThreads!Moods
    <3> QED BY <1>4, <3>1 DEF RowAgrees, CustomerThreads!detect_sentiment
  <2> QED BY <1>5, <2>1, <2>2 DEF CustomerThreads!Follows
<1>7. t.whole => \/ m \in CustomerThreads!Moods
                 \/ CustomerThreads!_last_customer_message(more) # "none" =>
                        t.sentiment = CustomerThreads!detect_sentiment(
                                          CustomerThreads!_last_customer_message(more))
  BY <1>4 DEF RowAgrees
<1>8. CASE m \in CustomerThreads!Moods
  <2>1. PICK s \in {"neutral", "negative"} : s = CustomerThreads!detect_sentiment(m)
    BY DEF CustomerThreads!detect_sentiment
  <2>2. PICK writes : writes = << <<"message", m>>, <<"sentiment", s>> >>
    OBVIOUS
  <2>3. CustomerThreads!Writes(t, writes) /\ Len(writes) = 2
    BY <1>0, <1>8, <2>1, <2>2, IngestIs
  <2>4. PICK v : v = CustomerThreads!Written(u, <<"sentiment", s>>)
    OBVIOUS
  <2>5. /\ v \in ThreadRow /\ RowSafe(v) /\ v.log = more /\ v.status = t.status
        /\ v.sentiment = s /\ v.whole = t.whole
    BY <1>3, <2>4, SentimentKeeps
  <2>6. /\ CustomerThreads!Begun(t, writes, 0) = t
        /\ CustomerThreads!Begun(t, writes, 1) = u
        /\ CustomerThreads!Begun(t, writes, 2) = v
    BY <1>2, <2>2, <2>4, FirstOf
  <2>7. t.whole => RowAgrees(v)
    <3>1. "reply" \notin CustomerThreads!Moods
      BY DEF CustomerThreads!Moods
    <3> QED BY <1>4, <1>6, <1>8, <2>1, <2>5, <3>1 DEF RowAgrees
  <2>8. \A n \in 0..Len(writes) : /\ CustomerThreads!Begun(t, writes, n) \in ThreadRow
                                 /\ RowSafe(CustomerThreads!Begun(t, writes, n))
                                 /\ CustomerThreads!Begun(t, writes, n).whole = t.whole
    <3>1. \A n \in 0..Len(writes) : n = 0 \/ n = 1 \/ n = 2
      BY <2>3
    <3> QED BY <1>3, <2>5, <2>6, <3>1
  <2>9. /\ Len(writes) \in 1..3
        /\ t.whole => RowAgrees(CustomerThreads!Begun(t, writes, Len(writes)))
    BY <2>3, <2>6, <2>7
  <2> QED BY <2>3, <2>8, <2>9, HandlerEnds, Zenon
<1>9. CASE m \notin CustomerThreads!Moods /\ m = "reply" /\ t.status = "awaiting_human"
  <2>2. PICK writes : writes = << <<"message", m>>, <<"status", "resolved">> >>
    OBVIOUS
  <2>3. CustomerThreads!Writes(t, writes) /\ Len(writes) = 2
    BY <1>0, <1>9, <2>2, IngestIs
  <2>4. PICK v : v = CustomerThreads!Written(u, <<"status", "resolved">>)
    OBVIOUS
  <2>5. /\ v \in ThreadRow /\ RowSafe(v) /\ v.log = more /\ v.status = "resolved"
        /\ v.sentiment = t.sentiment /\ v.whole = t.whole
    BY <1>3, <2>4, StatusKeeps
  <2>6. /\ CustomerThreads!Begun(t, writes, 0) = t
        /\ CustomerThreads!Begun(t, writes, 1) = u
        /\ CustomerThreads!Begun(t, writes, 2) = v
    BY <1>2, <2>2, <2>4, FirstOf
  <2>7. t.whole => RowAgrees(v)
    BY <1>6, <1>7, <1>9, <2>5 DEF RowAgrees
  <2>8. \A n \in 0..Len(writes) : /\ CustomerThreads!Begun(t, writes, n) \in ThreadRow
                                 /\ RowSafe(CustomerThreads!Begun(t, writes, n))
                                 /\ CustomerThreads!Begun(t, writes, n).whole = t.whole
    <3>1. \A n \in 0..Len(writes) : n = 0 \/ n = 1 \/ n = 2
      BY <2>3
    <3> QED BY <1>3, <2>5, <2>6, <3>1
  <2>9. /\ Len(writes) \in 1..3
        /\ t.whole => RowAgrees(CustomerThreads!Begun(t, writes, Len(writes)))
    BY <2>3, <2>6, <2>7
  <2> QED BY <2>3, <2>8, <2>9, HandlerEnds, Zenon
<1>10. CASE m \notin CustomerThreads!Moods /\ ~(m = "reply" /\ t.status = "awaiting_human")
  <2>2. PICK writes : writes = << <<"message", m>> >>
    OBVIOUS
  <2>3. CustomerThreads!Writes(t, writes) /\ Len(writes) = 1
    BY <1>0, <1>10, <2>2, IngestIs
  <2>6. /\ CustomerThreads!Begun(t, writes, 0) = t
        /\ CustomerThreads!Begun(t, writes, 1) = u
    BY <1>2, <2>2, FirstOf
  <2>7. t.whole => RowAgrees(u)
    BY <1>3, <1>6, <1>7, <1>10 DEF RowAgrees
  <2>8. \A n \in 0..Len(writes) : /\ CustomerThreads!Begun(t, writes, n) \in ThreadRow
                                 /\ RowSafe(CustomerThreads!Begun(t, writes, n))
                                 /\ CustomerThreads!Begun(t, writes, n).whole = t.whole
    <3>1. \A n \in 0..Len(writes) : n = 0 \/ n = 1
      BY <2>3
    <3> QED BY <1>3, <2>6, <3>1
  <2>9. /\ Len(writes) \in 1..3
        /\ t.whole => RowAgrees(CustomerThreads!Begun(t, writes, Len(writes)))
    BY <2>3, <2>6, <2>7
  <2> QED BY <2>3, <2>8, <2>9, HandlerEnds, Zenon
<1> QED BY <1>8, <1>9, <1>10


\* A message of the system that names the status it sets.
LEMMA SaysItself ==
    ASSUME NEW t \in ThreadRow, t.whole => RowAgrees(t), NEW m \in {"escalated", "resolved"},
           NEW u, u.log = Append(t.log, m), u.status = m, u.sentiment = t.sentiment
    PROVE  t.whole => RowAgrees(u)
<1> SUFFICES ASSUME t.whole
             PROVE  RowAgrees(u)
  OBVIOUS
<1>1. t.log \in Seq(CustomerThreads!Messages) /\ m \in CustomerThreads!Messages
      /\ m \notin CustomerThreads!Moods
  BY DEF ThreadRow, CustomerThreads!Messages, CustomerThreads!Moods
<1>2. PICK more : more = Append(t.log, m)
  OBVIOUS
<1>3. CustomerThreads!_last_customer_message(more) =
          CustomerThreads!_last_customer_message(t.log)
  BY <1>1, <1>2, SaidLast
<1>4. /\ more[Len(t.log) + 1] = m
      /\ CustomerThreads!StatusOf(more) =
             CustomerThreads!Follows(more, CustomerThreads!StatusOf(t.log), Len(t.log) + 1)
  BY <1>1, <1>2, MessageMore, StatusAfter
<1>5. CustomerThreads!StatusOf(more) = m
  BY <1>4 DEF CustomerThreads!Follows
<1> QED BY <1>2, <1>3, <1>5 DEF RowAgrees


\* A handler of three transactions.
LEMMA ThreeKeep ==
    ASSUME NEW t \in ThreadRow, RowSafe(t), t.whole => RowAgrees(t),
           NEW a, NEW b, NEW c, CustomerThreads!Writes(t, <<a, b, c>>),
           NEW u \in ThreadRow, u = CustomerThreads!Written(t, a),
           NEW v \in ThreadRow, v = CustomerThreads!Written(u, b),
           NEW w \in ThreadRow, w = CustomerThreads!Written(v, c),
           RowSafe(u), RowSafe(v), RowSafe(w),
           u.whole = t.whole, v.whole = t.whole, w.whole = t.whole,
           t.whole => RowAgrees(w)
    PROVE  ThreadInv'
<1>1. PICK writes : writes = <<a, b, c>>
  OBVIOUS
<1>2. CustomerThreads!Writes(t, writes) /\ Len(writes) = 3
  BY <1>1
<1>3. /\ CustomerThreads!Begun(t, writes, 0) = t
      /\ CustomerThreads!Begun(t, writes, 1) = u
      /\ CustomerThreads!Begun(t, writes, 2) = v
      /\ CustomerThreads!Begun(t, writes, 3) = w
  BY <1>1, FirstOf
<1>4. \A n \in 0..Len(writes) : n = 0 \/ n = 1 \/ n = 2 \/ n = 3
  BY <1>2
<1>5. \A n \in 0..Len(writes) : /\ CustomerThreads!Begun(t, writes, n) \in ThreadRow
                               /\ RowSafe(CustomerThreads!Begun(t, writes, n))
                               /\ CustomerThreads!Begun(t, writes, n).whole = t.whole
  BY <1>3, <1>4
<1>6. /\ Len(writes) \in 1..3
      /\ t.whole => RowAgrees(CustomerThreads!Begun(t, writes, Len(writes)))
  BY <1>2, <1>3
<1> QED BY <1>2, <1>5, <1>6, HandlerEnds, Zenon

\* Every step keeps the invariant of threads.
LEMMA ThreadStep ==
    ASSUME ThreadInv, CustomerThreads!Next
    PROVE  ThreadInv'
<1>1. ASSUME NEW channel \in CustomerThreads!Channels, NEW m \in CustomerThreads!Moods,
             CustomerThreads!open_thread(channel, m)
      PROVE  ThreadInv'
  <2>1. PICK t : t = [channel |-> channel, status |-> "open", sentiment |-> "neutral",
                      log |-> <<>>,
                      requests |-> [k \in CustomerThreads!Kinds |-> "none"], whole |-> TRUE]
    OBVIOUS
  <2>2. CustomerThreads!Writes(t, CustomerThreads!ingest_message(t, m))
    BY <1>1, <2>1 DEF CustomerThreads!open_thread
  <2>3. <<>> \in Seq(CustomerThreads!Messages) /\ Len(<<>>) = 0
    OBVIOUS
  <2>4. t \in ThreadRow
    BY <2>1, <2>3 DEF ThreadRow
  <2>5. RowSafe(t)
    BY <2>1, <2>3 DEF RowSafe
  <2>6. RowAgrees(t)
    BY <2>1, <2>3, StatusAtStart DEF RowAgrees, CustomerThreads!_last_customer_message
  <2>7. m \in {"calm", "angry", "legal", "reply", "note", "draft"} /\ m # "draft"
    BY DEF CustomerThreads!Moods
  <2> QED BY <2>2, <2>4, <2>5, <2>6, <2>7, IngestKeeps
<1>2. ASSUME NEW m \in CustomerThreads!Moods \cup {"reply", "note"},
             CustomerThreads!post_customer_message(m)
      PROVE  ThreadInv'
  <2>1. /\ thread # CustomerThreads!None
        /\ CustomerThreads!Writes(thread, CustomerThreads!ingest_message(thread, m))
    BY <1>2 DEF CustomerThreads!post_customer_message, CustomerThreads!Room
  <2>2. thread \in ThreadRow /\ RowSafe(thread) /\ (thread.whole => RowAgrees(thread))
    BY <2>1 DEF ThreadInv
  <2>3. m \in {"calm", "angry", "legal", "reply", "note", "draft"} /\ m # "draft"
    BY DEF CustomerThreads!Moods
  <2>4. PICK t : t = thread
    OBVIOUS
  <2> QED BY <2>1, <2>2, <2>3, <2>4, IngestKeeps
<1>3. CASE CustomerThreads!draft_response
  <2>1. PICK t : t = thread
    OBVIOUS
  <2>2. t \in ThreadRow /\ RowSafe(t) /\ (t.whole => RowAgrees(t))
    BY <1>3, <2>1 DEF ThreadInv, CustomerThreads!draft_response, CustomerThreads!Room
  <2>3. PICK said : said = CustomerThreads!_last_customer_message(t.log)
    OBVIOUS
  <2> DEFINE risky == CustomerThreads!detect_risk_flags(said) # {} \/ t.sentiment = "negative"
  <2>4. /\ said # "none"
        /\ CustomerThreads!Writes(t, IF risky THEN CustomerThreads!Risky
                                     ELSE CustomerThreads!ingest_message(t, "draft"))
    BY <1>3, <2>1, <2>3 DEF CustomerThreads!draft_response
  <2>5. CASE ~risky
    <3>1. said # "legal" /\ t.sentiment # "negative"
      BY <2>5 DEF CustomerThreads!detect_risk_flags
    <3>2. CustomerThreads!Writes(t, CustomerThreads!ingest_message(t, "draft"))
      BY <2>4, <2>5
    <3> HIDE DEF risky
    <3> QED BY <2>2, <2>3, <3>1, <3>2, IngestKeeps
  <2>6. CASE risky
    <3>1. CustomerThreads!Writes(t, << <<"request", "reply">>, <<"status", "awaiting_human">>,
                                       <<"message", "draft">> >>)
      BY <2>4, <2>6 DEF CustomerThreads!Risky
    <3>2. "reply" \in CustomerThreads!Kinds /\ "draft" \in CustomerThreads!Messages
          /\ "draft" \notin CustomerThreads!Moods
      BY DEF CustomerThreads!Kinds, CustomerThreads!Messages, CustomerThreads!Moods
    <3>3. PICK u : u = CustomerThreads!Written(t, <<"request", "reply">>)
      OBVIOUS
    <3>4. PICK v : v = CustomerThreads!Written(u, <<"status", "awaiting_human">>)
      OBVIOUS
    <3>5. PICK w : w = CustomerThreads!Written(v, <<"message", "draft">>)
      OBVIOUS
    <3>6. /\ u \in ThreadRow /\ RowSafe(u) /\ u.log = t.log /\ u.sentiment = t.sentiment
          /\ u.whole = t.whole /\ (u.channel = "instagram_dm" => u.requests["reply"] # "none")
      BY <2>2, <3>2, <3>3, RequestKeeps
    <3>7. /\ v \in ThreadRow /\ RowSafe(v) /\ v.log = t.log /\ v.sentiment = t.sentiment
          /\ v.whole = t.whole /\ v.status = "awaiting_human"
      BY <3>4, <3>6, StatusKeeps
    <3>8. /\ w \in ThreadRow /\ RowSafe(w) /\ w.log = Append(t.log, "draft")
          /\ w.sentiment = t.sentiment /\ w.whole = t.whole /\ w.status = "awaiting_human"
      BY <3>2, <3>5, <3>7, MessageKeeps
    <3>9. t.whole => RowAgrees(w)
      <4> SUFFICES ASSUME t.whole
                   PROVE  RowAgrees(w)
        OBVIOUS
      <4>1. t.log \in Seq(CustomerThreads!Messages)
        BY <2>2 DEF ThreadRow
      <4>2. PICK more : more = Append(t.log, "draft")
        OBVIOUS
      <4>3. CustomerThreads!_last_customer_message(more) = said
        BY <2>3, <3>2, <4>1, <4>2, SaidLast
      <4>4. said \in {"angry", "legal"}
        BY <2>2, <2>3, <2>4, <2>6
        DEF RowAgrees, CustomerThreads!detect_risk_flags, CustomerThreads!detect_sentiment
      <4>5. /\ more[Len(t.log) + 1] = "draft" /\ SubSeq(more, 1, Len(t.log) + 1) = more
            /\ CustomerThreads!StatusOf(more) =
                   CustomerThreads!Follows(more, CustomerThreads!StatusOf(t.log), Len(t.log) + 1)
        BY <3>2, <4>1, <4>2, MessageMore, StatusAfter
      <4>6. CustomerThreads!StatusOf(more) = "awaiting_human"
        BY <4>3, <4>4, <4>5 DEF CustomerThreads!Follows
      <4> QED BY <2>2, <2>3, <2>4, <3>8, <4>2, <4>3, <4>6 DEF RowAgrees
    <3> HIDE DEF risky
    <3>10. /\ u \in ThreadRow /\ v \in ThreadRow /\ w \in ThreadRow
           /\ RowSafe(u) /\ RowSafe(v) /\ RowSafe(w)
           /\ u.whole = t.whole /\ v.whole = t.whole /\ w.whole = t.whole
      BY <3>6, <3>7, <3>8
    <3> QED BY <2>2, <3>1, <3>3, <3>4, <3>5, <3>9, <3>10, ThreeKeep
  <2> QED BY <2>5, <2>6
<1>4. CASE CustomerThreads!escalate
  <2>1. PICK t : t = thread
    OBVIOUS
  <2>2. t \in ThreadRow /\ RowSafe(t) /\ (t.whole => RowAgrees(t))
    BY <1>4, <2>1 DEF ThreadInv, CustomerThreads!escalate, CustomerThreads!Room
  <2>3. CustomerThreads!Writes(t, << <<"status", "escalated">>, <<"request", "escalation">>,
                                     <<"message", "escalated">> >>)
    BY <1>4, <2>1 DEF CustomerThreads!escalate
  <2>4. "escalation" \in CustomerThreads!Kinds /\ "escalated" \in CustomerThreads!Messages
        /\ "escalated" \notin CustomerThreads!Moods
    BY DEF CustomerThreads!Kinds, CustomerThreads!Messages, CustomerThreads!Moods
  <2>5. PICK u : u = CustomerThreads!Written(t, <<"status", "escalated">>)
    OBVIOUS
  <2>6. PICK v : v = CustomerThreads!Written(u, <<"request", "escalation">>)
    OBVIOUS
  <2>7. PICK w : w = CustomerThreads!Written(v, <<"message", "escalated">>)
    OBVIOUS
  <2>8. /\ u \in ThreadRow /\ RowSafe(u) /\ u.log = t.log /\ u.sentiment = t.sentiment
        /\ u.whole = t.whole /\ u.status = "escalated"
    BY <2>2, <2>5, StatusKeeps
  <2>9. /\ v \in ThreadRow /\ RowSafe(v) /\ v.log = t.log /\ v.sentiment = t.sentiment
        /\ v.whole = t.whole /\ v.status = "escalated"
    BY <2>4, <2>6, <2>8, RequestKeeps
  <2>10. /\ w \in ThreadRow /\ RowSafe(w) /\ w.log = Append(t.log, "escalated")
         /\ w.sentiment = t.sentiment /\ w.whole = t.whole /\ w.status = "escalated"
    BY <2>4, <2>7, <2>9, MessageKeeps
  <2>11. t.whole => RowAgrees(w)
    BY <2>2, <2>4, <2>10, SaysItself
  <2> QED BY <2>2, <2>3, <2>5, <2>6, <2>7, <2>8, <2>9, <2>10, <2>11, ThreeKeep
<1>5. CASE CustomerThreads!mark_resolved
  <2>1. PICK t : t = thread
    OBVIOUS
  <2>2. t \in ThreadRow /\ RowSafe(t) /\ (t.whole => RowAgrees(t))
    BY <1>5, <2>1 DEF ThreadInv, CustomerThreads!mark_resolved, CustomerThreads!Room
  <2>3. PICK writes : writes = << <<"status", "resolved">>, <<"message", "resolved">> >>
    OBVIOUS
  <2>4. CustomerThreads!Writes(t, writes) /\ Len(writes) = 2
    BY <1>5, <2>1, <2>3 DEF CustomerThreads!mark_resolved
  <2>5. "resolved" \in CustomerThreads!Messages /\ "resolved" \notin CustomerThreads!Moods
    BY DEF CustomerThreads!Messages, CustomerThreads!Moods
  <2>6. PICK u : u = CustomerThreads!Written(t, <<"status", "resolved">>)
    OBVIOUS
  <2>7. PICK v : v = CustomerThreads!Written(u, <<"message", "resolved">>)
    OBVIOUS
  <2>8. /\ u \in ThreadRow /\ RowSafe(u) /\ u.log = t.log /\ u.sentiment = t.sentiment
        /\ u.whole = t.whole /\ u.status = "resolved"
    BY <2>2, <2>6, StatusKeeps
  <2>9. /\ v \in ThreadRow /\ RowSafe(v) /\ v.log = Append(t.log, "resolved")
        /\ v.sentiment = t.sentiment /\ v.whole = t.whole /\ v.status = "resolved"
    BY <2>5, <2>7, <2>8, MessageKeeps
  <2>10. t.whole => RowAgrees(v)
    BY <2>2, <2>5, <2>9, SaysItself
  <2>11. /\ CustomerThreads!Begun(t, writes, 0) = t
         /\ CustomerThreads!Begun(t, writes, 1) = u
         /\ CustomerThreads!Begun(t, writes, 2) = v
    BY <2>3, <2>6, <2>7, FirstOf
  <2>12. \A n \in 0..Len(writes) : /\ CustomerThreads!Begun(t, writes, n) \in ThreadRow
                                  /\ RowSafe(CustomerThreads!Begun(t, writes, n))
                                  /\ CustomerThreads!Begun(t, writes, n).whole = t.whole
    <3>1. \A n \in 0..Len(writes) : n = 0 \/ n = 1 \/ n = 2
      BY <2>4
    <3> QED BY <2>2, <2>8, <2>9, <2>11, <3>1
  <2>13. /\ Len(writes) \in 1..3
         /\ t.whole => RowAgrees(CustomerThreads!Begun(t, writes, Len(writes)))
    BY <2>4, <2>10, <2>11
  <2> QED BY <2>2, <2>4, <2>12, <2>13, HandlerEnds, Zenon
<1>6. ASSUME NEW k \in CustomerThreads!Kinds, CustomerThreads!Decide(k)
      PROVE  ThreadInv'
  <2>1. PICK t : t = thread
    OBVIOUS
  <2>2. t \in ThreadRow /\ RowSafe(t) /\ (t.whole => RowAgrees(t))
    BY <1>6, <2>1 DEF ThreadInv, CustomerThreads!Decide
  <2>3. PICK newer : newer = [t.requests EXCEPT ![k] = "answered"]
    OBVIOUS
  <2>4. thread' = [t EXCEPT !.requests = newer]
    BY <1>6, <2>1, <2>2, <2>3 DEF CustomerThreads!Decide, ThreadRow
  <2>5. /\ newer \in [CustomerThreads!Kinds -> {"none", "pending", "answered"}]
        /\ "reply" \in CustomerThreads!Kinds
        /\ t.requests["reply"] # "none" => newer["reply"] # "none"
    BY <2>2, <2>3 DEF ThreadRow, CustomerThreads!Kinds
  <2>6. /\ thread' \in ThreadRow
        /\ thread'.log = t.log /\ thread'.status = t.status /\ thread'.sentiment = t.sentiment
        /\ thread'.whole = t.whole /\ thread'.channel = t.channel /\ thread'.requests = newer
    BY <2>2, <2>4, <2>5 DEF ThreadRow
  <2>7. RowSafe(thread') /\ (thread'.whole => RowAgrees(thread'))
    BY <2>2, <2>5, <2>6 DEF RowSafe, RowAgrees
  <2> QED BY <2>6, <2>7 DEF ThreadInv
<1> QED BY <1>1, <1>2, <1>3, <1>4, <1>5, <1>6 DEF CustomerThreads!Next

\* The invariant of threads holds always.
LEMMA ThreadKept == Spec => [](part = "threads" => ThreadInv)
<1>1. Init => (part = "threads" => ThreadInv)
  BY DEF Init, CustomerThreads!Init, ThreadInv
<1>2. (part = "threads" => ThreadInv) /\ [Next]_vars => (part = "threads" => ThreadInv)'
  <2> SUFFICES ASSUME part = "threads" => ThreadInv, [Next]_vars, part' = "threads"
               PROVE  ThreadInv'
    OBVIOUS
  <2>1. part = "threads" /\ (CustomerThreads!Next \/ UNCHANGED CustomerThreads!vars)
    BY StepOfPart
  <2>2. CASE CustomerThreads!Next
    BY <2>1, <2>2, ThreadStep
  <2>3. CASE UNCHANGED CustomerThreads!vars
    BY <2>1, <2>3 DEF CustomerThreads!vars, ThreadInv
  <2> QED BY <2>1, <2>2, <2>3
<1> QED BY <1>1, <1>2, PTL DEF Spec

\* The status of a thread is what its messages make it unless a handler died half-way;
\* and whatever a crash left, nobody is waited for who was not asked, and no draft that
\* answers a risk stands in a thread that is open.
THEOREM ThreadsTellOneStory == Spec => []StatusFollowsLog
<1>1. (part = "threads" => ThreadInv) => StatusFollowsLog
  <2> SUFFICES ASSUME part = "threads", ThreadInv, thread # CustomerThreads!None
               PROVE  CustomerThreads!StatusFollowsLog
    BY DEF StatusFollowsLog, CustomerThreads!StatusFollowsLog
  <2> QED BY DEF ThreadInv, RowSafe, RowAgrees, CustomerThreads!StatusFollowsLog
<1> QED BY <1>1, ThreadKept, PTL


-----------------------------------------------------------------------------
(* A request for captions, pictures or a video: its work and its price     *)

Mandatory == {"picture", "edit", "video"}
Extras == {"extra picture", "extra video"}

\* Of the pieces of a request, those from one of them on.
Ahead(s, pieces, at) == Cardinality({k \in 1..Len(s) : k >= at /\ s[k] \in pieces})

Amount(s, pieces) == Cardinality({k \in 1..Len(s) : s[k] \in pieces})

GenerationJob == [pc: {"idle", "run", "done", "answer", "failed"}, at: Nat, tries: Nat,
                  made: Nat, retry: 0..2]

GenerationType ==
    /\ request \in Generation!Requests
    /\ Generation!kind \in {"caption", "holiday", "video"} => request.count = 1
    /\ answer \in {"none", "queued", "result", "error", "lost"}
    /\ status \in {"pending", "started", "retry", "success", "failure"}
    /\ job \in [Generation!Places -> GenerationJob]
    /\ queue \in [0..2 -> Nat]
    /\ stored \in Nat /\ charged \in Nat /\ generated \in Nat /\ begun \in Nat /\ faults \in Nat

\* Where a run over the pieces s of a request of the kind k is: it has made what is behind
\* it, and has tries left for what it makes.
RunFits(s, k, j, kept) ==
    /\ j.made <= kept
    /\ j.pc = "idle" => j = Generation!Idle
    /\ j.pc = "run" =>
           /\ j.at \in 1..Len(s)
           /\ j.tries < ImageTries
           /\ j.tries > 0 => s[j.at] \in Mandatory \cup Extras
    /\ k # "holiday" =>
           /\ j.pc = "run" => j.made + Ahead(s, Mandatory, j.at) = Amount(s, Mandatory)
           /\ j.pc \in {"done", "answer"} => j.made = Amount(s, Mandatory)

\* The media a run may still store, and the calls it may still make.
MediaLeft(s, j) ==
    IF j.pc = "run" THEN Ahead(s, Mandatory, j.at) + Ahead(s, Extras, j.at) ELSE 0
CallsLeft(s, j) == IF j.pc = "run" THEN MediaLeft(s, j) * ImageTries - j.tries ELSE 0

\* The runs the worker's message may still cause, of n retries.
RunsLeft(n, j) == IF j.pc = "idle" THEN 0 ELSE n - j.retry

RunsAccounted ==
    /\ job["worker"].pc # "answer"
    /\ answer = "none" /\ job["api"].pc = "idle" =>
           begun = 0 /\ job["worker"].pc = "idle" /\ \A r \in 0..2 : queue[r] = 0
    /\ IF Generation!Queueable
       THEN /\ job["worker"].retry <= Generation!Retries
            /\ Generation!Retries < 2 => queue[2] = 0
            /\ IF Generation!Retries = 1
               THEN begun + 2 * queue[0] + queue[1] + RunsLeft(1, job["worker"])
                        <= 2 * (1 + faults)
               ELSE begun + 3 * queue[0] + 2 * queue[1] + queue[2] + RunsLeft(2, job["worker"])
                        <= 3 * (1 + faults)
       ELSE begun <= 1 /\ job["worker"].pc = "idle" /\ \A r \in 0..2 : queue[r] = 0

MediaAccounted ==
    /\ stored + MediaLeft(Generation!Pieces, job["api"])
              + MediaLeft(Generation!Pieces, job["worker"]) <= begun * Generation!Media
    /\ generated + CallsLeft(Generation!Pieces, job["api"])
                 + CallsLeft(Generation!Pieces, job["worker"])
           <= begun * Generation!Media * ImageTries

\* Who has paid, and for what.
ChargesFit ==
    /\ answer # "none" => job["api"].pc = "idle"
    /\ answer = "none" /\ job["api"].pc # "answer" => charged = 0
    /\ answer = "none" /\ job["api"].pc = "answer" /\ Generation!kind # "holiday" => charged > 0
    /\ answer = "result" /\ Generation!kind # "holiday" => charged > 0
    /\ answer \in {"queued", "error"} => charged = 0
    /\ charged > 0 =>
           /\ charged = request.count
           /\ charged <= IF Generation!kind = "caption" THEN 1 ELSE stored
    /\ status = "success" => stored >= Generation!Needed

GenerationInv ==
    /\ GenerationType
    /\ \A p \in Generation!Places :
           RunFits(Generation!Pieces, Generation!kind, job[p], stored)
    /\ RunsAccounted /\ MediaAccounted /\ ChargesFit


\* A piece more is one less ahead.
LEMMA AheadStep ==
    ASSUME NEW s, Len(s) \in Nat, NEW pieces, NEW at \in 1..Len(s)
    PROVE  /\ Ahead(s, pieces, at) \in Nat /\ Ahead(s, pieces, at + 1) \in Nat
           /\ Ahead(s, pieces, at) =
                  Ahead(s, pieces, at + 1) + (IF s[at] \in pieces THEN 1 ELSE 0)
<1> DEFINE S == {k \in 1..Len(s) : k >= at /\ s[k] \in pieces}
           T == {k \in 1..Len(s) : k >= at + 1 /\ s[k] \in pieces}
<1>1. IsFiniteSet(S) /\ IsFiniteSet(T)
  <2>1. IsFiniteSet(1..Len(s))
    BY FS_Interval
  <2>2. S \subseteq 1..Len(s) /\ T \subseteq 1..Len(s)
    OBVIOUS
  <2> HIDE DEF S, T
  <2> QED BY <2>1, <2>2, FS_Subset
<1>2. Cardinality(S) \in Nat /\ Cardinality(T) \in Nat
  <2> HIDE DEF S, T
  <2> QED BY <1>1, FS_CardinalityType
<1>3. Cardinality(S) = Cardinality(T) + (IF s[at] \in pieces THEN 1 ELSE 0)
  <2>1. CASE s[at] \in pieces
    <3>1. S = T \cup {at} /\ at \notin T
      BY <2>1
    <3> HIDE DEF S, T
    <3> QED BY <1>1, <1>2, <2>1, <3>1, FS_AddElement
  <2>2. CASE s[at] \notin pieces
    <3>1. S = T
      BY <2>2
    <3> HIDE DEF S, T
    <3> QED BY <1>2, <2>2, <3>1
  <2> QED BY <2>1, <2>2
<1> QED BY <1>2, <1>3 DEF Ahead

\* Pieces that are all of one kind, behind others.
LEMMA OfOneKind ==
    ASSUME NEW S, NEW before \in Seq(S), NEW behind \in Seq(S),
           \A k \in 1..Len(before) : before[k] \notin Mandatory,
           \A k \in 1..Len(behind) : behind[k] \in Mandatory
    PROVE  Amount(before \o behind, Mandatory) = Len(behind)
<1> DEFINE m == Len(before)
           n == Len(behind)
<1>2. PICK s : s = before \o behind
  OBVIOUS
<1>1. m \in Nat /\ n \in Nat
  OBVIOUS
<1>4. /\ Len(s) = m + n
      /\ \A k \in 1 .. m + n : s[k] = IF k <= m THEN before[k] ELSE behind[k - m]
  BY <1>2
<1>5. ASSUME NEW k \in 1 .. m + n
      PROVE  s[k] \in Mandatory <=> k > m
  <2>1. CASE k <= m
    BY <1>1, <1>4, <2>1
  <2>2. CASE ~(k <= m)
    <3>1. k - m \in 1..n
      BY <1>1, <2>2
    <3> QED BY <1>1, <1>4, <2>2, <3>1
  <2> QED BY <2>1, <2>2
<1>6. {k \in 1..Len(s) : s[k] \in Mandatory} = m + 1 .. m + n
  BY <1>1, <1>4, <1>5
<1>7. Cardinality(m + 1 .. m + n) = n
  <2>1. m + 1 \in Int /\ m + n \in Int
    BY <1>1
  <2>2. Cardinality(m + 1 .. m + n) = IF m + 1 > m + n THEN 0 ELSE (m + n) - (m + 1) + 1
    BY <2>1, FS_Interval
  <2> QED BY <1>1, <2>2
<1> QED BY <1>2, <1>6, <1>7 DEF Amount

\* What a request is made of.
LEMMA RequestPieces ==
    ASSUME request \in Generation!Requests, MaxCount \in Nat
    PROVE  /\ Len(Generation!Pieces) \in Nat \ {0}
           /\ Generation!kind # "holiday" =>
                  \A k \in 1..Len(Generation!Pieces) : Generation!Pieces[k] \notin Extras
           /\ Generation!kind \in {"caption", "holiday"} => Generation!Needed = 0
           /\ Generation!kind = "video" => Generation!Needed = 1
           /\ Generation!kind \in {"images", "reference", "revise"} =>
                  Generation!Needed = request.count
<1>1. /\ Generation!kind \in {"caption", "holiday", "video", "images", "reference", "revise"}
      /\ request.count \in Nat /\ request.count >= 1
  BY DEF Generation!Requests, Generation!Kinds, Generation!kind
<1>2. Generation!Needed = Amount(Generation!Pieces, Mandatory)
  BY DEF Generation!Needed, Generation!Count, Generation!Cardinality, Cardinality, Mandatory, Amount
<1>3. CASE Generation!kind = "caption"
  <2>1. Generation!Pieces = <<"text">>
    BY <1>3 DEF Generation!Pieces
  <2>2. /\ Len(Generation!Pieces) = 1
        /\ \A k \in 1..Len(Generation!Pieces) : Generation!Pieces[k] \notin Mandatory \cup Extras
    <3>1. Len(Generation!Pieces) = 1 /\ Generation!Pieces[1] = "text"
      BY <2>1
    <3>2. "text" \notin Mandatory \cup Extras
      BY DEF Mandatory, Extras
    <3> QED BY <3>1, <3>2
  <2>3. {k \in 1..Len(Generation!Pieces) : Generation!Pieces[k] \in Mandatory} = {}
    BY <2>2
  <2> QED BY <1>2, <1>3, <2>2, <2>3, FS_EmptySet DEF Amount
<1>4. CASE Generation!kind = "holiday"
  <2> DEFINE S == {"text", "analysis", "extra picture", "extra video"}
  <2>1. /\ "text" \in S /\ "analysis" \in S /\ "extra picture" \in S /\ "extra video" \in S
        /\ \A x \in S : x \notin Mandatory
    BY DEF Mandatory
  <2>2. PICK a : a = IF request.image THEN <<"analysis", "extra picture">> ELSE <<>>
    OBVIOUS
  <2>3. PICK b : b = IF request.video THEN <<"extra video">> ELSE <<>>
    OBVIOUS
  <2>4. Generation!Pieces = <<"text">> \o a \o b
    BY <1>4, <2>2, <2>3 DEF Generation!Pieces, Generation!generate_holiday_content
  <2> HIDE DEF S
  <2>5. /\ \A x \in S : <<x>> \in Seq(S) /\ Len(<<x>>) = 1
        /\ \A x, y \in S : <<x, y>> \in Seq(S)
        /\ <<>> \in Seq(S)
    OBVIOUS
  <2>6. PICK t \in Seq(S) : t = <<"text">> /\ Len(t) = 1
    BY <2>1, <2>5
  <2>12. a \in Seq(S)
    BY <2>1, <2>2, <2>5, Zenon
  <2>13. b \in Seq(S)
    BY <2>1, <2>3, <2>5, Zenon
  <2>7. t \o a \in Seq(S) /\ Len(t \o a) = 1 + Len(a)
    BY <2>6, <2>12
  <2>8. t \o a \o b \in Seq(S) /\ Len(t \o a \o b) = 1 + Len(a) + Len(b)
    BY <2>7, <2>13
  <2>9. /\ Len(Generation!Pieces) \in Nat \ {0}
        /\ \A k \in 1..Len(Generation!Pieces) : Generation!Pieces[k] \in S
    BY <2>4, <2>6, <2>8, <2>12, <2>13
  <2>10. {k \in 1..Len(Generation!Pieces) : Generation!Pieces[k] \in Mandatory} = {}
    BY <2>1, <2>9
  <2> QED BY <1>2, <1>4, <2>9, <2>10, FS_EmptySet DEF Amount
<1>5. CASE Generation!kind = "video"
  <2>1. Generation!Pieces = <<"video">>
    BY <1>5 DEF Generation!Pieces
  <2>2. /\ Len(Generation!Pieces) = 1
        /\ Generation!Pieces[1] \in Mandatory /\ Generation!Pieces[1] \notin Extras
    BY <2>1 DEF Mandatory, Extras
  <2>3. {k \in 1..Len(Generation!Pieces) : Generation!Pieces[k] \in Mandatory} = {1}
    BY <2>2
  <2> QED BY <1>2, <1>5, <2>2, <2>3, FS_Singleton DEF Amount
<1>6. ASSUME Generation!kind \in {"images", "reference", "revise"},
             NEW S, NEW before \in Seq(S), NEW x \in S, x \in Mandatory, Extras \cap S = {},
             \A k \in 1..Len(before) : before[k] \notin Mandatory,
             Generation!Pieces = before \o [k \in 1..request.count |-> x]
      PROVE  /\ Len(Generation!Pieces) \in Nat \ {0}
             /\ \A k \in 1..Len(Generation!Pieces) : Generation!Pieces[k] \notin Extras
             /\ Generation!Needed = request.count
  <2>1. /\ Len(Generation!Pieces) = Len(before) + request.count
        /\ \A k \in 1..Len(Generation!Pieces) : Generation!Pieces[k] \in S
        /\ Amount(Generation!Pieces, Mandatory) = request.count
    <3>1. PICK n \in Nat : n = request.count
      BY <1>1
    <3>5. PICK behind : behind = [k \in 1..n |-> x]
      OBVIOUS
    <3>2. PICK s : s = before \o behind
      OBVIOUS
    <3>3. /\ Len(s) = Len(before) + n
          /\ \A k \in 1..Len(s) : s[k] \in S
          /\ Amount(s, Mandatory) = n
      <4>1. /\ before \in Seq(S) /\ x \in S /\ n \in Nat /\ x \in Mandatory
            /\ \A k \in 1..Len(before) : before[k] \notin Mandatory
        BY <1>6, <3>1
      <4>2. Len(s) = Len(before) + n
        BY <4>1, <3>5, <3>2
      <4>4. /\ behind \in Seq(S) /\ Len(behind) = n
            /\ \A k \in 1..Len(behind) : behind[k] \in Mandatory
        BY <4>1, <3>5
      <4>3. Amount(s, Mandatory) = n
        BY <4>1, <4>4, <3>2, OfOneKind
      <4>5. s \in Seq(S)
        BY <4>1, <4>4, <3>2
      <4> QED BY <4>2, <4>3, <4>5
    <3>4. Generation!Pieces = s
      BY <1>6, <3>1, <3>5, <3>2
    <3> QED BY <3>1, <3>3, <3>4
  <2>2. Len(before) \in Nat
    BY <1>6
  <2>3. Len(Generation!Pieces) \in Nat \ {0}
    BY <1>1, <2>1, <2>2
  <2>4. \A k \in 1..Len(Generation!Pieces) : Generation!Pieces[k] \in S
    BY <1>6, <2>1
  <2> QED BY <1>2, <1>6, <2>1, <2>3, <2>4
<1> DEFINE All == {"analysis", "download", "label", "picture", "edit"}
<1>7. /\ "analysis" \in All /\ "download" \in All /\ "label" \in All /\ "picture" \in All
      /\ "edit" \in All
      /\ Extras \cap All = {} /\ "picture" \in Mandatory /\ "edit" \in Mandatory
      /\ "analysis" \notin Mandatory /\ "download" \notin Mandatory /\ "label" \notin Mandatory
  BY DEF Mandatory, Extras
<1> HIDE DEF All
<1>8. CASE Generation!kind = "images"
  <2>1. PICK before : before = <<"analysis">>
    OBVIOUS
  <2>2. before \in Seq(All) /\ \A k \in 1..Len(before) : before[k] \notin Mandatory
    BY <1>7, <2>1
  <2>3. Generation!Pieces = before \o [k \in 1..request.count |-> "picture"]
    BY <1>8, <2>1 DEF Generation!Pieces, Generation!generate_images, Generation!Pictures
  <2> QED BY <1>6, <1>7, <1>8, <2>2, <2>3
<1>9. CASE Generation!kind = "reference"
  <2>1. PICK before : before = <<"download", "analysis", "label">>
    OBVIOUS
  <2>2. before \in Seq(All) /\ \A k \in 1..Len(before) : before[k] \notin Mandatory
    BY <1>7, <2>1
  <2>3. Generation!Pieces = before \o [k \in 1..request.count |-> "edit"]
    BY <1>9, <2>1
    DEF Generation!Pieces, Generation!generate_images_from_reference, Generation!Edits
  <2> QED BY <1>6, <1>7, <1>9, <2>2, <2>3
<1>10. CASE Generation!kind = "revise"
  <2>1. PICK before : before = <<"analysis", "download">>
    OBVIOUS
  <2>2. before \in Seq(All) /\ \A k \in 1..Len(before) : before[k] \notin Mandatory
    BY <1>7, <2>1
  <2>3. Generation!Pieces = before \o [k \in 1..request.count |-> "edit"]
    BY <1>10, <2>1
    DEF Generation!Pieces, Generation!revise_image_with_feedback, Generation!Edits
  <2> QED BY <1>6, <1>7, <1>10, <2>2, <2>3
<1> QED BY <1>1, <1>3, <1>4, <1>5, <1>8, <1>9, <1>10


\* Of the pieces from the first one on, and from none.
LEMMA AheadEnds ==
    ASSUME NEW s, Len(s) \in Nat, NEW pieces
    PROVE  Ahead(s, pieces, 1) = Amount(s, pieces) /\ Ahead(s, pieces, Len(s) + 1) = 0
<1>1. {k \in 1..Len(s) : k >= 1 /\ s[k] \in pieces} = {k \in 1..Len(s) : s[k] \in pieces}
  OBVIOUS
<1>2. {k \in 1..Len(s) : k >= Len(s) + 1 /\ s[k] \in pieces} = {}
  OBVIOUS
<1> QED BY <1>1, <1>2, FS_EmptySet DEF Ahead, Amount

\* As long as there is a medium to make, the tries it has had are among those left.
LEMMA TriesLeft ==
    ASSUME NEW T \in Nat \ {0}, NEW m \in Nat, NEW n \in Nat, n < T, n > 0 => m >= 1
    PROVE  m * T - n \in Nat
<1>1. CASE m = 0
  <2>1. n = 0 /\ m * T = 0
    BY <1>1
  <2> QED BY <2>1
<1>2. CASE m # 0
  <2>1. PICK l \in Nat : m = l + 1
    <3>1. m - 1 \in Nat /\ m = (m - 1) + 1
      BY <1>2
    <3> QED BY <3>1
  <2>2. (l + 1) * T = l * T + T /\ l * T \in Nat
    OBVIOUS
  <2> DEFINE q == l * T
  <2>3. m * T = q + T /\ q \in Nat
    BY <2>1, <2>2
  <2> HIDE DEF q
  <2> QED BY <2>3
<1> QED BY <1>1, <1>2

\* What a run has left, wherever it is.
LEMMA LeftIsLeft ==
    ASSUME NEW s, Len(s) \in Nat, ImageTries \in Nat \ {0}, NEW k,
           NEW j \in GenerationJob, NEW kept \in Nat, RunFits(s, k, j, kept)
    PROVE  MediaLeft(s, j) \in Nat /\ CallsLeft(s, j) \in Nat
<1>1. CASE j.pc # "run"
  BY <1>1 DEF MediaLeft, CallsLeft
<1>2. CASE j.pc = "run"
  <2>1. /\ j.at \in 1..Len(s) /\ j.tries \in Nat /\ j.tries < ImageTries
        /\ j.tries > 0 => s[j.at] \in Mandatory \/ s[j.at] \in Extras
    BY <1>2 DEF RunFits, GenerationJob
  <2>2. PICK at \in 1..Len(s), n \in Nat : at = j.at /\ n = j.tries
    BY <2>1
  <2>3. PICK m \in Nat : m = Ahead(s, Mandatory, at) /\ (s[at] \in Mandatory => m >= 1)
    <3>1. /\ Ahead(s, Mandatory, at) \in Nat /\ Ahead(s, Mandatory, at + 1) \in Nat
          /\ Ahead(s, Mandatory, at) =
                 Ahead(s, Mandatory, at + 1) + (IF s[at] \in Mandatory THEN 1 ELSE 0)
      BY AheadStep
    <3> QED BY <3>1
  <2>4. PICK x \in Nat : x = Ahead(s, Extras, at) /\ (s[at] \in Extras => x >= 1)
    <3>1. /\ Ahead(s, Extras, at) \in Nat /\ Ahead(s, Extras, at + 1) \in Nat
          /\ Ahead(s, Extras, at) =
                 Ahead(s, Extras, at + 1) + (IF s[at] \in Extras THEN 1 ELSE 0)
      BY AheadStep
    <3> QED BY <3>1
  <2>5. MediaLeft(s, j) = m + x /\ CallsLeft(s, j) = (m + x) * ImageTries - n
    BY <1>2, <2>2, <2>3, <2>4 DEF MediaLeft, CallsLeft
  <2>6. n < ImageTries /\ (n > 0 => m + x >= 1) /\ m + x \in Nat
    <3>1. n < ImageTries /\ (n > 0 => s[at] \in Mandatory \/ s[at] \in Extras)
      BY <2>1, <2>2
    <3> QED BY <2>3, <2>4, <3>1
  <2>7. (m + x) * ImageTries - n \in Nat
    BY <2>6, TriesLeft
  <2> QED BY <2>5, <2>6, <2>7
<1> QED BY <1>1, <1>2


\* The piece a run is at is behind it.
Behind(s, j) ==
    IF j.at = Len(s) THEN [j EXCEPT !.pc = "done", !.tries = 0]
    ELSE [j EXCEPT !.at = j.at + 1, !.tries = 0]

\* A run goes from j to i with d media more in the storage, for c calls.
MovesTo(s, k, j, i, kept, d, c) ==
    /\ i \in GenerationJob /\ i.pc \in {"run", "done", "failed"} /\ i.retry = j.retry
    /\ RunFits(s, k, i, kept + d)
    /\ MediaLeft(s, i) + d <= MediaLeft(s, j)
    /\ CallsLeft(s, i) + c <= CallsLeft(s, j)

\* The calls for a medium are those of its tries at most.
LEMMA CallsOfMedium ==
    ASSUME NEW T \in Nat \ {0}, NEW l \in Nat, NEW e \in {0, 1, 2}, NEW n \in Nat, n < T,
           NEW c \in {0, 1}, e = 0 => n = 0 /\ c = 0
    PROVE  /\ l * T \in Nat /\ (l + e) * T - n \in Int
           /\ l * T + c <= (l + e) * T - n
<1>1. l * T \in Nat /\ (l + 1) * T = l * T + T /\ (l + 2) * T = l * T + T + T /\ (l + 0) * T = l * T
  OBVIOUS
<1> DEFINE q == l * T
<1>2. q \in Nat /\ (l + e) * T = IF e = 0 THEN q ELSE IF e = 1 THEN q + T ELSE q + T + T
  BY <1>1
<1>3. l * T = q
  OBVIOUS
<1> HIDE DEF q
<1>4. PICK r \in Int : r = (l + e) * T /\ r = IF e = 0 THEN q ELSE IF e = 1 THEN q + T ELSE q + T + T
  BY <1>2
<1>5. q + c <= r - n /\ r - n \in Int
  BY <1>2, <1>4
<1> QED BY <1>2, <1>3, <1>4, <1>5

\* A run of a request of the kind k over its pieces.
RunsOver(s, k, j, kept) ==
    /\ Len(s) \in Nat \ {0} /\ (k # "holiday" => \A x \in 1..Len(s) : s[x] \notin Extras)
    /\ j \in GenerationJob /\ j.pc = "run" /\ kept \in Nat /\ RunFits(s, k, j, kept)

\* It leaves a piece with d media more, for c calls.
PassesWith(s, j, d, c) ==
    /\ d \in {0, 1} /\ c \in {0, 1}
    /\ d = 1 => s[j.at] \in Mandatory \/ s[j.at] \in Extras
    /\ d = 0 => s[j.at] \notin Mandatory
    /\ c = 1 => s[j.at] \in Mandatory \/ s[j.at] \in Extras

\* A run passes on behind a piece it has made (d = 1), or left out, or that is no medium.
LEMMA PassesOn ==
    ASSUME ImageTries \in Nat \ {0}, NEW s, NEW k, NEW j, NEW kept, RunsOver(s, k, j, kept),
           NEW d, NEW c, PassesWith(s, j, d, c),
           NEW i, i = IF d = 1 THEN [j EXCEPT !.made = j.made + 1] ELSE j
    PROVE  MovesTo(s, k, j, Behind(s, i), kept, d, c)
<1>run. /\ Len(s) \in Nat \ {0} /\ j \in GenerationJob /\ j.pc = "run"
        /\ kept \in Nat /\ RunFits(s, k, j, kept)
  BY DEF RunsOver
<1>kind. k # "holiday" => \A x \in 1..Len(s) : s[x] \notin Extras
  BY DEF RunsOver
<1>dc. d \in {0, 1} /\ c \in {0, 1}
  BY DEF PassesWith
<1>medium. /\ d = 1 => s[j.at] \in Mandatory \/ s[j.at] \in Extras
           /\ d = 0 => s[j.at] \notin Mandatory
           /\ c = 1 => s[j.at] \in Mandatory \/ s[j.at] \in Extras
  BY DEF PassesWith
<1>1. PICK at \in 1..Len(s), n \in Nat, m \in Nat, r \in 0..2 :
          at = j.at /\ n = j.tries /\ m = j.made /\ r = j.retry
  BY <1>run DEF RunFits, GenerationJob
<1>2. /\ m <= kept /\ n < ImageTries
      /\ n > 0 => s[at] \in Mandatory \/ s[at] \in Extras
      /\ k # "holiday" => m + Ahead(s, Mandatory, at) = Amount(s, Mandatory)
  BY <1>run, <1>1 DEF RunFits
<1>3. PICK b : b = Behind(s, i)
  OBVIOUS
<1>4. PICK o \in Nat : o = at + 1
  BY <1>1
<1>5. m + d \in Nat
  BY <1>1, <1>dc
<1>6. i \in GenerationJob /\ i.pc = "run" /\ i.at = at /\ i.made = m + d /\ i.retry = r
  BY <1>run, <1>dc, <1>1, <1>5 DEF GenerationJob
<1>7. /\ b \in GenerationJob /\ b.tries = 0 /\ b.made = m + d /\ b.retry = r
      /\ IF at = Len(s) THEN b.pc = "done" ELSE b.pc = "run" /\ b.at = o
  <2>1. b = IF at = Len(s) THEN [i EXCEPT !.pc = "done", !.tries = 0]
            ELSE [i EXCEPT !.at = o, !.tries = 0]
    BY <1>3, <1>4, <1>6 DEF Behind
  <2> QED BY <1>5, <1>6, <2>1 DEF GenerationJob
<1>8. PICK em \in {0, 1}, lm \in Nat :
          /\ em = (IF s[at] \in Mandatory THEN 1 ELSE 0)
          /\ lm = Ahead(s, Mandatory, o) /\ Ahead(s, Mandatory, at) = lm + em
  <2>1. /\ Ahead(s, Mandatory, at) \in Nat /\ Ahead(s, Mandatory, at + 1) \in Nat
        /\ Ahead(s, Mandatory, at) =
               Ahead(s, Mandatory, at + 1) + (IF s[at] \in Mandatory THEN 1 ELSE 0)
    BY <1>run, AheadStep
  <2> QED BY <1>4, <2>1
<1>9. PICK ex \in {0, 1}, lx \in Nat :
          /\ ex = (IF s[at] \in Extras THEN 1 ELSE 0)
          /\ lx = Ahead(s, Extras, o) /\ Ahead(s, Extras, at) = lx + ex
  <2>1. /\ Ahead(s, Extras, at) \in Nat /\ Ahead(s, Extras, at + 1) \in Nat
        /\ Ahead(s, Extras, at) =
               Ahead(s, Extras, at + 1) + (IF s[at] \in Extras THEN 1 ELSE 0)
    BY <1>run, AheadStep
  <2> QED BY <1>4, <2>1
<1>10. at = Len(s) => lm = 0
  BY <1>run, <1>4, <1>8, AheadEnds
<1>11. PICK l \in Nat, e \in {0, 1, 2} : l = lm + lx /\ e = em + ex
  <2>1. lm + lx \in Nat
    BY <1>8, <1>9
  <2>2. em + ex \in {0, 1, 2}
    BY <1>8, <1>9
  <2> QED BY <2>1, <2>2
<1>12. /\ MediaLeft(s, j) = l + e /\ CallsLeft(s, j) = (l + e) * ImageTries - n
       /\ MediaLeft(s, b) = (IF at = Len(s) THEN 0 ELSE l)
       /\ CallsLeft(s, b) = (IF at = Len(s) THEN 0 ELSE l * ImageTries)
  <2>1. MediaLeft(s, j) = l + e
    BY <1>run, <1>1, <1>8, <1>9, <1>11 DEF MediaLeft
  <2>2. MediaLeft(s, b) = (IF at = Len(s) THEN 0 ELSE l)
    BY <1>7, <1>8, <1>9, <1>11 DEF MediaLeft
  <2>3. l * ImageTries \in Nat
    BY <1>11
  <2>4. CallsLeft(s, b) = (IF at = Len(s) THEN 0 ELSE l * ImageTries)
    BY <1>7, <2>2, <2>3 DEF CallsLeft
  <2> QED BY <1>run, <1>1, <2>1, <2>2, <2>4 DEF CallsLeft
<1>13. (d = 1 \/ c = 1 \/ n > 0) => e >= 1
  BY <1>medium, <1>dc, <1>1, <1>2, <1>8, <1>9, <1>11
<1>14. MediaLeft(s, b) + d <= MediaLeft(s, j)
  <2>1. MediaLeft(s, j) = l + e /\ MediaLeft(s, b) = (IF at = Len(s) THEN 0 ELSE l)
    BY <1>12
  <2>2. d = 1 => e >= 1
    BY <1>13
  <2> QED BY <1>dc, <1>11, <2>1, <2>2
<1>15. CallsLeft(s, b) + c <= CallsLeft(s, j)
  <2>1. e = 0 => n = 0 /\ c = 0
    BY <1>dc, <1>1, <1>11, <1>13
  <2>2. /\ l * ImageTries \in Nat /\ (l + e) * ImageTries - n \in Int
        /\ l * ImageTries + c <= (l + e) * ImageTries - n
    <3>1. l \in Nat /\ e \in {0, 1, 2} /\ n \in Nat /\ n < ImageTries
      BY <1>1, <1>2, <1>11
    <3>2. PICK T \in Nat \ {0} : T = ImageTries
      OBVIOUS
    <3>3. l * T \in Nat /\ (l + e) * T - n \in Int
      BY <3>1, <3>2
    <3>4. l * T + c <= (l + e) * T - n
      BY <1>dc, <2>1, <3>1, <3>2, CallsOfMedium
    <3> QED BY <3>2, <3>3, <3>4
  <2> DEFINE x == l * ImageTries
             y == (l + e) * ImageTries
  <2>3. /\ x \in Nat /\ y - n \in Int /\ x + c <= y - n
        /\ CallsLeft(s, j) = y - n
        /\ CallsLeft(s, b) = IF at = Len(s) THEN 0 ELSE x
    BY <1>12, <2>2
  <2> HIDE DEF x, y
  <2>4. c <= y - n
    <3>1. PICK z \in Int : z = y - n /\ x + c <= z
      BY <2>3
    <3> QED BY <1>dc, <2>3, <3>1
  <2> QED BY <1>1, <1>dc, <2>3, <2>4
<1>16. RunFits(s, k, b, kept + d)
  <2>1. b.made <= kept + d /\ b.pc # "idle"
    BY <1>run, <1>dc, <1>1, <1>2, <1>7
  <2>2. b.pc = "run" => b.at \in 1..Len(s) /\ b.tries < ImageTries /\ ~(b.tries > 0)
    BY <1>1, <1>4, <1>7
  <2>3. k # "holiday" => d = em
    BY <1>kind, <1>medium, <1>dc, <1>1, <1>8
  <2>4. k # "holiday" =>
            /\ b.pc = "run" => b.made + Ahead(s, Mandatory, b.at) = Amount(s, Mandatory)
            /\ b.pc \in {"done", "answer"} => b.made = Amount(s, Mandatory)
    <3> SUFFICES ASSUME k # "holiday"
                 PROVE  /\ b.pc = "run" => b.made + Ahead(s, Mandatory, b.at) = Amount(s, Mandatory)
                        /\ b.pc \in {"done", "answer"} => b.made = Amount(s, Mandatory)
      OBVIOUS
    <3>1. Amount(s, Mandatory) = m + (lm + d)
      BY <1>2, <1>8, <2>3
    <3>2. CASE at = Len(s)
      <4>1. Amount(s, Mandatory) = m + d
        BY <1>dc, <1>1, <1>8, <1>10, <3>1, <3>2
      <4> QED BY <1>7, <3>2, <4>1
    <3>3. CASE at # Len(s)
      <4>1. Amount(s, Mandatory) = (m + d) + lm
        BY <1>dc, <1>1, <1>8, <3>1
      <4> QED BY <1>7, <1>8, <3>3, <4>1
    <3> QED BY <3>2, <3>3
  <2> QED BY <2>1, <2>2, <2>4 DEF RunFits
<1> QED BY <1>1, <1>3, <1>7, <1>14, <1>15, <1>16 DEF MovesTo


\* A call that is tried again, or that ends the run.
LEMMA StaysAt ==
    ASSUME NEW s, Len(s) \in Nat \ {0}, ImageTries \in Nat \ {0},
           NEW k, NEW j \in GenerationJob, j.pc = "run", NEW kept \in Nat, RunFits(s, k, j, kept)
    PROVE  /\ s[j.at] \in Mandatory \/ s[j.at] \in Extras =>
                  /\ MovesTo(s, k, j, [j EXCEPT !.pc = "failed"], kept, 0, 1)
                  /\ j.tries + 1 < ImageTries =>
                         MovesTo(s, k, j, [j EXCEPT !.tries = j.tries + 1], kept, 0, 1)
           /\ MovesTo(s, k, j, [j EXCEPT !.pc = "failed"], kept, 0, 0)
<1>1. PICK at \in 1..Len(s), n \in Nat, m \in Nat, r \in 0..2 :
          at = j.at /\ n = j.tries /\ m = j.made /\ r = j.retry
  BY DEF RunFits, GenerationJob
<1>2. m <= kept /\ n < ImageTries
  BY <1>1 DEF RunFits
<1>3. PICK l \in Nat, p \in Nat : l = MediaLeft(s, j) /\ p = CallsLeft(s, j)
  BY LeftIsLeft
<1>4. s[at] \in Mandatory \/ s[at] \in Extras => p >= 1 + (ImageTries - 1 - n)
  <2> SUFFICES ASSUME s[at] \in Mandatory \/ s[at] \in Extras
               PROVE  p >= ImageTries - n
    BY <1>1, <1>2, <1>3
  <2>1. /\ Ahead(s, Mandatory, at) \in Nat /\ Ahead(s, Mandatory, at + 1) \in Nat
        /\ Ahead(s, Mandatory, at) =
               Ahead(s, Mandatory, at + 1) + (IF s[at] \in Mandatory THEN 1 ELSE 0)
    BY AheadStep
  <2>2. /\ Ahead(s, Extras, at) \in Nat /\ Ahead(s, Extras, at + 1) \in Nat
        /\ Ahead(s, Extras, at) =
               Ahead(s, Extras, at + 1) + (IF s[at] \in Extras THEN 1 ELSE 0)
    BY AheadStep
  <2>3. l = Ahead(s, Mandatory, at) + Ahead(s, Extras, at)
    BY <1>1, <1>3 DEF MediaLeft
  <2>4. l >= 1
    BY <2>1, <2>2, <2>3
  <2>5. p = l * ImageTries - n
    BY <1>1, <1>3 DEF CallsLeft
  <2>6. PICK o \in Nat : l = o + 1
    <3>1. l - 1 \in Nat /\ l = (l - 1) + 1
      BY <1>3, <2>4
    <3> QED BY <3>1
  <2>7. (o + 1) * ImageTries = o * ImageTries + ImageTries /\ o * ImageTries \in Nat
    OBVIOUS
  <2> DEFINE q == o * ImageTries
  <2>8. p = q + ImageTries - n /\ q \in Nat
    BY <2>5, <2>6, <2>7
  <2> HIDE DEF q
  <2> QED BY <1>1, <2>8
<1>5. PICK f : f = [j EXCEPT !.pc = "failed"]
  OBVIOUS
<1>6. f \in GenerationJob /\ f.pc = "failed" /\ f.retry = r /\ f.made = m
  BY <1>1, <1>5 DEF GenerationJob
<1>7. MediaLeft(s, f) = 0 /\ CallsLeft(s, f) = 0
  BY <1>6 DEF MediaLeft, CallsLeft
<1>8. RunFits(s, k, f, kept + 0)
  BY <1>2, <1>6 DEF RunFits
<1>9. MovesTo(s, k, j, f, kept, 0, 0)
  BY <1>1, <1>3, <1>6, <1>7, <1>8 DEF MovesTo
<1>10. s[at] \in Mandatory \/ s[at] \in Extras => MovesTo(s, k, j, f, kept, 0, 1)
  <2>1. p >= 1 => CallsLeft(s, f) + 1 <= CallsLeft(s, j)
    BY <1>3, <1>7
  <2>2. s[at] \in Mandatory \/ s[at] \in Extras => p >= 1
    BY <1>1, <1>2, <1>3, <1>4
  <2> QED BY <1>1, <1>3, <1>6, <1>7, <1>8, <2>1, <2>2 DEF MovesTo
<1>11. ASSUME s[at] \in Mandatory \/ s[at] \in Extras, n + 1 < ImageTries
       PROVE  MovesTo(s, k, j, [j EXCEPT !.tries = j.tries + 1], kept, 0, 1)
  <2>1. PICK o \in Nat : o = n + 1
    BY <1>1
  <2>2. PICK g : g = [j EXCEPT !.tries = o]
    OBVIOUS
  <2>3. /\ g \in GenerationJob /\ g.pc = "run" /\ g.at = at /\ g.tries = o /\ g.made = m
        /\ g.retry = r
    BY <1>1, <2>2 DEF GenerationJob
  <2>4. MediaLeft(s, g) = l
    BY <1>1, <1>3, <2>3 DEF MediaLeft
  <2>5. PICK q \in Nat : q = l * ImageTries
    BY <1>3
  <2>6. p = q - n /\ CallsLeft(s, g) = q - o
    BY <1>1, <1>3, <2>3, <2>4, <2>5 DEF CallsLeft
  <2>7. CallsLeft(s, g) + 1 <= CallsLeft(s, j) /\ MediaLeft(s, g) + 0 <= MediaLeft(s, j)
    <3>1. q - o + 1 <= q - n
      BY <1>1, <2>1, <2>5
    <3>2. l + 0 <= l
      BY <1>3
    <3> QED BY <1>3, <2>4, <2>6, <3>1, <3>2
  <2>8. RunFits(s, k, g, kept + 0)
    BY <1>1, <1>2, <1>11, <2>1, <2>3 DEF RunFits
  <2>9. MovesTo(s, k, j, g, kept, 0, 1)
    BY <1>1, <2>3, <2>7, <2>8 DEF MovesTo
  <2>10. g = [j EXCEPT !.tries = j.tries + 1]
    BY <1>1, <2>1, <2>2
  <2> QED BY <2>9, <2>10
<1> QED BY <1>1, <1>5, <1>9, <1>10, <1>11

\* What is known of a request, whatever it is.
LEMMA RequestFacts ==
    ASSUME request \in Generation!Requests, MaxCount \in Nat
    PROVE  /\ Generation!Needed = Amount(Generation!Pieces, Mandatory)
           /\ Generation!Media = Ahead(Generation!Pieces, Mandatory, 1)
                                 + Ahead(Generation!Pieces, Extras, 1)
           /\ Generation!Needed \in Nat /\ Generation!Media \in Nat
           /\ Generation!Retries \in {1, 2}
           /\ Generation!Queueable \in BOOLEAN
<1>1. Len(Generation!Pieces) \in Nat \ {0}
  BY RequestPieces
<1>2. Generation!Needed = Amount(Generation!Pieces, Mandatory)
  BY DEF Generation!Needed, Generation!Count, Generation!Cardinality, Cardinality, Mandatory, Amount
<1>3. Generation!Media = Generation!Needed + Amount(Generation!Pieces, Extras)
  BY DEF Generation!Media, Generation!Count, Generation!Cardinality, Cardinality, Extras, Amount
<1>4. /\ Ahead(Generation!Pieces, Mandatory, 1) = Amount(Generation!Pieces, Mandatory)
      /\ Ahead(Generation!Pieces, Mandatory, 1) \in Nat
      /\ Ahead(Generation!Pieces, Extras, 1) = Amount(Generation!Pieces, Extras)
      /\ Ahead(Generation!Pieces, Extras, 1) \in Nat
  <2>1. PICK s : s = Generation!Pieces
    OBVIOUS
  <2>2. Len(s) \in Nat /\ 1 \in 1..Len(s)
    BY <1>1, <2>1
  <2> QED BY <2>1, <2>2, AheadEnds, AheadStep
<1>5. Generation!Retries \in {1, 2}
  BY DEF Generation!Retries
<1>6. Generation!Queueable \in BOOLEAN
  BY DEF Generation!Queueable, Generation!Requests
<1> QED BY <1>2, <1>3, <1>4, <1>5, <1>6

\* The request is the same all along.
LEMMA SamePieces ==
    ASSUME UNCHANGED request
    PROVE  /\ Generation!kind' = Generation!kind /\ Generation!Pieces' = Generation!Pieces
           /\ Generation!Needed' = Generation!Needed /\ Generation!Media' = Generation!Media
           /\ Generation!Retries' = Generation!Retries
           /\ Generation!Queueable' = Generation!Queueable
<1>1. Generation!kind' = Generation!kind
  BY DEF Generation!kind
<1>2. Generation!Pieces' = Generation!Pieces
  BY <1>1
  DEF Generation!Pieces, Generation!generate_holiday_content, Generation!generate_images,
      Generation!generate_images_from_reference, Generation!revise_image_with_feedback,
      Generation!Pictures, Generation!Edits
<1>3. Generation!Needed' = Generation!Needed /\ Generation!Media' = Generation!Media
  BY <1>2
  DEF Generation!Needed, Generation!Media, Generation!Count
<1>4. Generation!Retries' = Generation!Retries
  BY <1>1 DEF Generation!Retries
<1>5. Generation!Queueable' = Generation!Queueable
  BY <1>1 DEF Generation!Queueable
<1> QED BY <1>1, <1>2, <1>3, <1>4, <1>5


\* More in the storage does no harm to a run.
LEMMA FitsMore ==
    ASSUME NEW s, NEW k, NEW j, NEW kept, NEW more, kept <= more,
           j.made \in Nat, kept \in Nat, more \in Nat, RunFits(s, k, j, kept)
    PROVE  RunFits(s, k, j, more)
BY DEF RunFits

\* A run moves on, on either side.
LEMMA RunMoves ==
    ASSUME GenerationInv, NEW p \in Generation!Places, job[p].pc = "run",
           NEW i, NEW d \in {0, 1}, NEW c \in {0, 1},
           job' = [job EXCEPT ![p] = i], stored' = stored + d, generated' = generated + c,
           MovesTo(Generation!Pieces, Generation!kind, job[p], i, stored, d, c),
           UNCHANGED <<request, answer, queue, status, charged, begun, faults>>
    PROVE  GenerationInv'
<1>1. GenerationType /\ ServicesAssumption
  BY ServicesAssumption DEF GenerationInv
<1>2. MaxCount \in Nat /\ ImageTries \in Nat \ {0}
  BY <1>1 DEF ServicesAssumption
<1>3. PICK s, k : s = Generation!Pieces /\ k = Generation!kind
  OBVIOUS
<1>4. Len(s) \in Nat \ {0}
  BY <1>1, <1>2, <1>3, RequestPieces DEF GenerationType
<1>5. /\ Generation!kind' = k /\ Generation!Pieces' = s
      /\ Generation!Needed' = Generation!Needed /\ Generation!Media' = Generation!Media
      /\ Generation!Retries' = Generation!Retries /\ Generation!Queueable' = Generation!Queueable
  <2>1. UNCHANGED request
    OBVIOUS
  <2>2. /\ Generation!kind' = Generation!kind /\ Generation!Pieces' = Generation!Pieces
        /\ Generation!Needed' = Generation!Needed /\ Generation!Media' = Generation!Media
        /\ Generation!Retries' = Generation!Retries
        /\ Generation!Queueable' = Generation!Queueable
    BY <2>1, SamePieces
  <2> QED BY <1>3, <2>2
<1>6. \A o \in Generation!Places : job[o] \in GenerationJob /\ RunFits(s, k, job[o], stored)
  BY <1>1, <1>3 DEF GenerationInv, GenerationType
<1>7. /\ i \in GenerationJob /\ i.pc \in {"run", "done", "failed"} /\ i.retry = job[p].retry
      /\ RunFits(s, k, i, stored + d)
      /\ MediaLeft(s, i) + d <= MediaLeft(s, job[p])
      /\ CallsLeft(s, i) + c <= CallsLeft(s, job[p])
  BY <1>3 DEF MovesTo
<1>8. /\ stored \in Nat /\ stored' \in Nat /\ stored <= stored'
      /\ generated \in Nat /\ generated' \in Nat
  BY <1>1 DEF GenerationType
<1>9. /\ job' \in [Generation!Places -> GenerationJob] /\ job'[p] = i
      /\ \A o \in Generation!Places : o # p => job'[o] = job[o]
  BY <1>1, <1>7 DEF GenerationType
<1>10. GenerationType'
  BY <1>1, <1>5, <1>3, <1>8, <1>9 DEF GenerationType
<1>11. \A o \in Generation!Places : RunFits(s, k, job'[o], stored')
  <2> SUFFICES ASSUME NEW o \in Generation!Places
               PROVE  RunFits(s, k, job'[o], stored')
    OBVIOUS
  <2>1. CASE o = p
    BY <1>7, <1>9, <2>1
  <2>2. CASE o # p
    <3>1. PICK j \in GenerationJob : j = job[o] /\ j = job'[o] /\ RunFits(s, k, j, stored)
      BY <1>6, <1>9, <2>2
    <3>2. j.made \in Nat
      BY DEF GenerationJob
    <3> QED BY <1>8, <3>1, <3>2, FitsMore
  <2> QED BY <2>1, <2>2
<1>12. "api" \in Generation!Places /\ "worker" \in Generation!Places /\ p \in {"api", "worker"}
  BY DEF Generation!Places
<1>13. \A n : RunsLeft(n, job'["worker"]) = RunsLeft(n, job["worker"])
  BY <1>7, <1>9, <1>12 DEF RunsLeft
<1>14. RunsAccounted'
  <2>1. job'["worker"].pc # "answer" /\ job'["worker"].retry = job["worker"].retry
    BY <1>7, <1>9, <1>12 DEF GenerationInv, RunsAccounted
  <2>2. job'["worker"].pc = "idle" <=> job["worker"].pc = "idle"
    BY <1>7, <1>9, <1>12
  <2>3. job'["api"].pc = "idle" <=> job["api"].pc = "idle"
    BY <1>7, <1>9, <1>12
  <2> QED BY <1>5, <1>13, <2>1, <2>2, <2>3 DEF GenerationInv, RunsAccounted
<1>15. MediaAccounted'
  <2>1. \A o \in Generation!Places : MediaLeft(s, job[o]) \in Nat /\ CallsLeft(s, job[o]) \in Nat
    BY <1>2, <1>4, <1>6, <1>8, LeftIsLeft
  <2>2. \A o \in Generation!Places : MediaLeft(s, job'[o]) \in Nat /\ CallsLeft(s, job'[o]) \in Nat
    BY <1>2, <1>4, <1>8, <1>9, <1>11, LeftIsLeft
  <2>3. stored' + MediaLeft(s, job'["api"]) + MediaLeft(s, job'["worker"])
            <= stored + MediaLeft(s, job["api"]) + MediaLeft(s, job["worker"])
    BY <1>7, <1>8, <1>9, <1>12, <2>1, <2>2
  <2>4. generated' + CallsLeft(s, job'["api"]) + CallsLeft(s, job'["worker"])
            <= generated + CallsLeft(s, job["api"]) + CallsLeft(s, job["worker"])
    BY <1>7, <1>8, <1>9, <1>12, <2>1, <2>2
  <2>5. Generation!Media \in Nat /\ begun \in Nat
    BY <1>1, <1>2, RequestFacts DEF GenerationType
  <2> DEFINE x == begun * Generation!Media
             y == x * ImageTries
  <2>6. x \in Nat
    BY <2>5
  <2> HIDE DEF x
  <2>7. y \in Nat
    BY <1>2, <2>6
  <2> HIDE DEF y
  <2>8. /\ stored + MediaLeft(s, job["api"]) + MediaLeft(s, job["worker"]) <= x
        /\ generated + CallsLeft(s, job["api"]) + CallsLeft(s, job["worker"]) <= y
    BY <1>3 DEF x, y, GenerationInv, MediaAccounted
  <2>9. /\ stored' + MediaLeft(s, job'["api"]) + MediaLeft(s, job'["worker"]) <= x
        /\ generated' + CallsLeft(s, job'["api"]) + CallsLeft(s, job'["worker"]) <= y
    BY <1>8, <1>12, <2>1, <2>2, <2>3, <2>4, <2>6, <2>7, <2>8
  <2> QED BY <1>5, <2>9 DEF x, y, MediaAccounted
<1>16. ChargesFit'
  <2>1. ChargesFit
    BY DEF GenerationInv
  <2>2. /\ job["api"].pc = "run" => job'["api"].pc \in {"run", "done", "failed"}
        /\ job["api"].pc # "run" => job'["api"] = job["api"]
    BY <1>7, <1>9, <1>12
  <2>3. Generation!Needed \in Nat /\ charged \in Nat
    BY <1>1, <1>2, RequestFacts DEF GenerationType
  <2> QED BY <1>3, <1>5, <1>8, <2>1, <2>2, <2>3 DEF ChargesFit
<1> QED BY <1>5, <1>10, <1>11, <1>14, <1>15, <1>16 DEF GenerationInv


\* What is known of a run of a request.
LEMMA RunFacts ==
    ASSUME GenerationInv, NEW p \in Generation!Places, job[p].pc = "run"
    PROVE  /\ ImageTries \in Nat \ {0} /\ Len(Generation!Pieces) \in Nat \ {0}
           /\ Generation!kind # "holiday" =>
                  \A x \in 1..Len(Generation!Pieces) : Generation!Pieces[x] \notin Extras
           /\ job[p] \in GenerationJob /\ job[p].at \in 1..Len(Generation!Pieces)
           /\ stored \in Nat /\ generated \in Nat
           /\ RunFits(Generation!Pieces, Generation!kind, job[p], stored)
           /\ job[p].tries \in Nat /\ job[p].made \in Nat
<1>1. MaxCount \in Nat /\ ImageTries \in Nat \ {0}
  BY ServicesAssumption DEF ServicesAssumption
<1>2. /\ request \in Generation!Requests /\ job[p] \in GenerationJob
      /\ stored \in Nat /\ generated \in Nat
  BY DEF GenerationInv, GenerationType
<1>3. RunFits(Generation!Pieces, Generation!kind, job[p], stored)
  BY DEF GenerationInv
<1>4. job[p].at \in 1..Len(Generation!Pieces)
  BY <1>3 DEF RunFits
<1>5. job[p].tries \in Nat /\ job[p].made \in Nat
  BY <1>2 DEF GenerationJob
<1> QED BY <1>1, <1>2, <1>3, <1>4, <1>5, RequestPieces

\* A run passes on, or ends, at a piece that is no medium or whose call failed (c = 1).
LEMMA RunAdvances ==
    ASSUME GenerationInv, NEW p \in Generation!Places, job[p].pc = "run",
           NEW d \in {0, 1}, NEW c \in {0, 1},
           d = 1 \/ c = 1 => Generation!Pieces[job[p].at] \in Mandatory \cup Extras,
           d = 0 => Generation!Pieces[job[p].at] \notin Mandatory,
           job' = [job EXCEPT ![p] = Generation!Advanced(IF d = 1 THEN Generation!WithPicture(job[p])
                                                         ELSE job[p])],
           stored' = stored + d, generated' = generated + c,
           UNCHANGED <<request, answer, queue, status, charged, begun, faults>>
    PROVE  GenerationInv'
<1>1. PICK s, k, j : s = Generation!Pieces /\ k = Generation!kind /\ j = job[p]
  OBVIOUS
<1>2. PICK i : i = IF d = 1 THEN [j EXCEPT !.made = j.made + 1] ELSE j
  OBVIOUS
<1>3. job' = [job EXCEPT ![p] = Behind(s, i)]
  BY <1>1, <1>2 DEF Generation!Advanced, Generation!WithPicture, Behind
<1>4. PICK kept \in Nat : kept = stored
  BY RunFacts
<1>5. /\ Len(s) \in Nat \ {0} /\ ImageTries \in Nat \ {0}
      /\ k # "holiday" => \A x \in 1..Len(s) : s[x] \notin Extras
      /\ j \in GenerationJob /\ j.pc = "run" /\ RunFits(s, k, j, kept)
  BY <1>1, <1>4, RunFacts
<1>6. /\ d = 1 => s[j.at] \in Mandatory \/ s[j.at] \in Extras
      /\ d = 0 => s[j.at] \notin Mandatory
      /\ c = 1 => s[j.at] \in Mandatory \/ s[j.at] \in Extras
  BY <1>1
<1>7. MovesTo(s, k, j, Behind(s, i), kept, d, c)
  <2>1. RunsOver(s, k, j, kept)
    BY <1>5 DEF RunsOver
  <2>2. PassesWith(s, j, d, c)
    BY <1>6 DEF PassesWith
  <2> QED BY <1>2, <1>5, <2>1, <2>2, PassesOn
<1>8. PICK b : b = Behind(s, i)
  OBVIOUS
<1>9. /\ job' = [job EXCEPT ![p] = b]
      /\ MovesTo(Generation!Pieces, Generation!kind, job[p], b, stored, d, c)
  BY <1>1, <1>3, <1>4, <1>7, <1>8
<1> QED BY <1>9, RunMoves

\* A piece that fails.
LEMMA RunRaises ==
    ASSUME GenerationInv, NEW p \in Generation!Places, job[p].pc = "run", NEW c \in {0, 1},
           c = (IF Generation!Pieces[job[p].at] \in Mandatory \cup Extras THEN 1 ELSE 0),
           Generation!Raises(p), stored' = stored, generated' = generated + c,
           UNCHANGED <<request, answer, queue, status, charged, begun, faults>>
    PROVE  GenerationInv'
<1>0. stored' = stored + 0
  BY RunFacts
<1>1. CASE Generation!Pieces[job[p].at] \in Extras
  <2>1. job' = [job EXCEPT ![p] = Generation!Advanced(job[p])]
    BY <1>1 DEF Generation!Raises, Generation!Extra, Extras
  <2>2. Generation!Pieces[job[p].at] \notin Mandatory
    BY <1>1 DEF Mandatory, Extras
  <2>3. c = 1
    BY <1>1
  <2>4. PICK d \in {0, 1} : d = 0
    OBVIOUS
  <2>5. /\ d = 1 \/ c = 1 => Generation!Pieces[job[p].at] \in Mandatory \cup Extras
        /\ d = 0 => Generation!Pieces[job[p].at] \notin Mandatory
        /\ job' = [job EXCEPT ![p] = Generation!Advanced(IF d = 1 THEN Generation!WithPicture(job[p])
                                                         ELSE job[p])]
        /\ stored' = stored + d
    BY <1>0, <1>1, <2>1, <2>2, <2>4
  <2> QED BY <2>5, RunAdvances
<1>2. CASE Generation!Pieces[job[p].at] \notin Extras
  <2>1. job' = [job EXCEPT ![p] = [job[p] EXCEPT !.pc = "failed"]]
    BY <1>2 DEF Generation!Raises, Generation!Extra, Extras
  <2>2. PICK s, k, j : s = Generation!Pieces /\ k = Generation!kind /\ j = job[p]
    OBVIOUS
  <2>3. PICK kept \in Nat : kept = stored
    BY RunFacts
  <2>4. /\ Len(s) \in Nat \ {0} /\ ImageTries \in Nat \ {0}
        /\ j \in GenerationJob /\ j.pc = "run" /\ RunFits(s, k, j, kept)
    BY <2>2, <2>3, RunFacts
  <2>5. PICK f : f = [j EXCEPT !.pc = "failed"]
    OBVIOUS
  <2>6. MovesTo(s, k, j, f, kept, 0, c)
    <3>1. /\ s[j.at] \in Mandatory \/ s[j.at] \in Extras => MovesTo(s, k, j, f, kept, 0, 1)
          /\ MovesTo(s, k, j, f, kept, 0, 0)
      BY <2>4, <2>5, StaysAt
    <3>2. c = IF s[j.at] \in Mandatory \/ s[j.at] \in Extras THEN 1 ELSE 0
      BY <2>2
    <3> QED BY <3>1, <3>2
  <2>7. PICK d \in {0, 1} : d = 0
    OBVIOUS
  <2>8. /\ job' = [job EXCEPT ![p] = f] /\ stored' = stored + d
        /\ MovesTo(Generation!Pieces, Generation!kind, job[p], f, stored, d, c)
    BY <1>0, <2>1, <2>2, <2>3, <2>5, <2>6, <2>7
  <2> QED BY <2>8, RunMoves
<1> QED BY <1>1, <1>2


\* A run works on.
LEMMA RunWorks ==
    ASSUME GenerationInv, NEW p \in Generation!Places,
           \/ Generation!Write(p) \/ Generation!analyze(p) \/ Generation!extract_label_info(p)
           \/ Generation!_download_image(p) \/ Generation!_generate_and_store(p)
           \/ Generation!_generate_openai_edit_and_store(p) \/ Generation!generate_social_video(p)
    PROVE  GenerationInv'
<1> DEFINE piece == Generation!Pieces[job[p].at]
           Plain == {"text", "analysis", "label", "download"}
           Others == UNCHANGED <<request, answer, queue, status, charged, begun, faults>>
<1>1. /\ job[p].pc = "run" /\ Others
      /\ \/ /\ piece \in Plain /\ UNCHANGED <<stored, generated>>
            /\ Generation!Advances(p) \/ Generation!Raises(p)
         \/ /\ piece \in Mandatory \cup Extras
            /\ \/ Generation!Call(p, Generation!generate_image(job[p]))
               \/ Generation!Call(p, Generation!generate_video)
  BY DEF Generation!Write, Generation!analyze, Generation!extract_label_info, Generation!Optional,
         Generation!_download_image, Generation!_generate_and_store,
         Generation!_generate_openai_edit_and_store, Generation!generate_social_video,
         Generation!On, Generation!Call, Mandatory, Extras
<1>2. stored \in Nat /\ generated \in Nat
  BY <1>1, RunFacts
<1>3. CASE /\ piece \in Plain /\ UNCHANGED <<stored, generated>>
           /\ Generation!Advances(p) \/ Generation!Raises(p)
  <2>1. piece \notin Mandatory /\ piece \notin Extras
    BY <1>3 DEF Mandatory, Extras
  <2>2. PICK d \in {0, 1}, c \in {0, 1} : d = 0 /\ c = 0
    OBVIOUS
  <2>3. stored' = stored + d /\ generated' = generated + c
    BY <1>2, <1>3, <2>2
  <2>4. CASE Generation!Advances(p)
    <3>1. job' = [job EXCEPT ![p] = Generation!Advanced(IF d = 1 THEN Generation!WithPicture(job[p])
                                                        ELSE job[p])]
      BY <2>2, <2>4 DEF Generation!Advances
    <3>2. /\ d = 1 \/ c = 1 => Generation!Pieces[job[p].at] \in Mandatory \cup Extras
          /\ d = 0 => Generation!Pieces[job[p].at] \notin Mandatory
      BY <2>1, <2>2
    <3> QED BY <1>1, <2>3, <3>1, <3>2, RunAdvances
  <2>5. CASE Generation!Raises(p)
    <3>1. c = (IF Generation!Pieces[job[p].at] \in Mandatory \cup Extras THEN 1 ELSE 0)
      BY <2>1, <2>2
    <3>2. stored' = stored
      BY <1>3
    <3> QED BY <1>1, <2>3, <2>5, <3>1, <3>2, RunRaises
  <2> QED BY <1>3, <2>4, <2>5
<1>4. ASSUME NEW outcomes, Generation!Call(p, outcomes), piece \in Mandatory \cup Extras,
             "again" \in outcomes => job[p].tries + 1 < ImageTries
      PROVE  GenerationInv'
  <2>1. PICK o \in outcomes, u \in Generation!_upload_image_bytes :
            CASE o = "again" -> /\ job' = [job EXCEPT ![p].tries = @ + 1]
                                    /\ UNCHANGED stored
              [] o # "again" /\ "failed" \in {o, u} -> Generation!Raises(p) /\ UNCHANGED stored
              [] OTHER -> /\ stored' = stored + 1
                          /\ job' = [job EXCEPT ![p] =
                                         Generation!Advanced(Generation!WithPicture(job[p]))]
    BY <1>4 DEF Generation!Call
  <2>2. PICK c \in {0, 1} : c = 1
    OBVIOUS
  <2>3. generated' = generated + c /\ Others
    BY <1>4, <2>2 DEF Generation!Call
  <2>4. CASE o = "again"
    <3>1. /\ job' = [job EXCEPT ![p] = [job[p] EXCEPT !.tries = job[p].tries + 1]]
          /\ stored' = stored + 0
      <4>1. job' = [job EXCEPT ![p].tries = @ + 1] /\ stored' = stored
        BY <2>1, <2>4
      <4>2. job' = [job EXCEPT ![p] = [job[p] EXCEPT !.tries = job[p].tries + 1]]
        BY <4>1, Zenon
      <4> QED BY <1>2, <4>1, <4>2
    <3>2. PICK s, k, j : s = Generation!Pieces /\ k = Generation!kind /\ j = job[p]
      OBVIOUS
    <3>3. PICK kept \in Nat : kept = stored
      BY <1>2
    <3>4. /\ Len(s) \in Nat \ {0} /\ ImageTries \in Nat \ {0}
          /\ j \in GenerationJob /\ j.pc = "run" /\ RunFits(s, k, j, kept)
      BY <1>1, <3>2, <3>3, RunFacts
    <3>5. (s[j.at] \in Mandatory \/ s[j.at] \in Extras) /\ j.tries + 1 < ImageTries
      BY <1>4, <2>1, <2>4, <3>2
    <3>6. PICK i : i = [j EXCEPT !.tries = j.tries + 1]
      OBVIOUS
    <3>7. MovesTo(s, k, j, i, kept, 0, 1)
      BY <3>4, <3>5, <3>6, StaysAt
    <3>8. PICK d \in {0, 1} : d = 0
      OBVIOUS
    <3>9. /\ job' = [job EXCEPT ![p] = i] /\ stored' = stored + d
          /\ MovesTo(Generation!Pieces, Generation!kind, job[p], i, stored, d, c)
      BY <2>2, <3>1, <3>2, <3>3, <3>6, <3>7, <3>8
    <3> QED BY <1>1, <2>3, <3>9, RunMoves
  <2>5. CASE o # "again" /\ "failed" \in {o, u}
    <3>1. Generation!Raises(p) /\ stored' = stored
      BY <2>1, <2>5
    <3>2. c = (IF Generation!Pieces[job[p].at] \in Mandatory \cup Extras THEN 1 ELSE 0)
      BY <1>4, <2>2
    <3> QED BY <1>1, <2>3, <3>1, <3>2, RunRaises
  <2>6. CASE o # "again" /\ "failed" \notin {o, u}
    <3>1. PICK d \in {0, 1} : d = 1
      OBVIOUS
    <3>2. /\ job' = [job EXCEPT ![p] = Generation!Advanced(IF d = 1 THEN Generation!WithPicture(job[p])
                                                           ELSE job[p])]
          /\ stored' = stored + d
      BY <2>1, <2>6, <3>1
    <3>3. /\ d = 1 \/ c = 1 => Generation!Pieces[job[p].at] \in Mandatory \cup Extras
          /\ d = 0 => Generation!Pieces[job[p].at] \notin Mandatory
      BY <1>4, <3>1
    <3> QED BY <1>1, <2>3, <3>2, <3>3, RunAdvances
  <2> QED BY <2>4, <2>5, <2>6
<1>5. CASE /\ piece \in Mandatory \cup Extras
           /\ Generation!Call(p, Generation!generate_image(job[p]))
  <2>1. PICK outcomes : outcomes = Generation!generate_image(job[p])
    OBVIOUS
  <2>2. "again" \in outcomes => job[p].tries + 1 < ImageTries
    BY <2>1 DEF Generation!generate_image
  <2>3. Generation!Call(p, outcomes)
    BY <1>5, <2>1
  <2> QED BY <1>4, <1>5, <2>2, <2>3
<1>6. CASE /\ piece \in Mandatory \cup Extras
           /\ Generation!Call(p, Generation!generate_video)
  <2>1. PICK outcomes : outcomes = Generation!generate_video
    OBVIOUS
  <2>2. "again" \notin outcomes
    BY <2>1 DEF Generation!generate_video, Generation!_fal_submit_and_wait
  <2>3. Generation!Call(p, outcomes)
    BY <1>6, <2>1
  <2> QED BY <1>4, <1>6, <2>2, <2>3
<1> QED BY <1>1, <1>3, <1>5, <1>6


\* Where both runs are, and what they may still make.
RunsFit ==
    /\ job \in [Generation!Places -> GenerationJob]
    /\ \A o \in Generation!Places : RunFits(Generation!Pieces, Generation!kind, job[o], stored)
    /\ MediaAccounted

\* A run ends, or what it leaves is being seen to: it makes nothing more.
LEMMA RunLeaves ==
    ASSUME GenerationInv, NEW p \in Generation!Places, NEW i \in GenerationJob, i.pc # "run",
           RunFits(Generation!Pieces, Generation!kind, i, stored),
           job' = [job EXCEPT ![p] = i], UNCHANGED <<request, stored, generated, begun>>
    PROVE  RunsFit'
<1>1. GenerationType /\ MaxCount \in Nat /\ ImageTries \in Nat \ {0}
  BY ServicesAssumption DEF GenerationInv, ServicesAssumption
<1>2. PICK s, k : s = Generation!Pieces /\ k = Generation!kind
  OBVIOUS
<1>3. /\ Generation!kind' = k /\ Generation!Pieces' = s
      /\ Generation!Media' = Generation!Media
  <2>1. UNCHANGED request
    OBVIOUS
  <2>2. /\ Generation!kind' = Generation!kind /\ Generation!Pieces' = Generation!Pieces
        /\ Generation!Media' = Generation!Media
    BY <2>1, SamePieces
  <2> QED BY <1>2, <2>2
<1>4. \A o \in Generation!Places : job[o] \in GenerationJob /\ RunFits(s, k, job[o], stored)
  BY <1>1, <1>2 DEF GenerationInv, GenerationType
<1>5. /\ job' \in [Generation!Places -> GenerationJob] /\ job'[p] = i
      /\ \A o \in Generation!Places : o # p => job'[o] = job[o]
  BY <1>1 DEF GenerationType
<1>6. \A o \in Generation!Places : RunFits(s, k, job'[o], stored)
  BY <1>2, <1>4, <1>5
<1>7. /\ stored \in Nat /\ generated \in Nat /\ begun \in Nat /\ Generation!Media \in Nat
  BY <1>1, RequestFacts DEF GenerationType
<1>8. \A o \in Generation!Places : MediaLeft(s, job[o]) \in Nat /\ CallsLeft(s, job[o]) \in Nat
  <2>1. Len(s) \in Nat
    BY <1>1, <1>2, RequestPieces DEF GenerationType
  <2> QED BY <1>1, <1>4, <1>7, <2>1, LeftIsLeft
<1>9. MediaLeft(s, i) = 0 /\ CallsLeft(s, i) = 0
  BY DEF MediaLeft, CallsLeft
<1>10. \A o \in Generation!Places : /\ MediaLeft(s, job'[o]) \in Nat /\ CallsLeft(s, job'[o]) \in Nat
                                    /\ MediaLeft(s, job'[o]) <= MediaLeft(s, job[o])
                                    /\ CallsLeft(s, job'[o]) <= CallsLeft(s, job[o])
  <2> SUFFICES ASSUME NEW o \in Generation!Places
               PROVE  /\ MediaLeft(s, job'[o]) \in Nat /\ CallsLeft(s, job'[o]) \in Nat
                      /\ MediaLeft(s, job'[o]) <= MediaLeft(s, job[o])
                      /\ CallsLeft(s, job'[o]) <= CallsLeft(s, job[o])
    OBVIOUS
  <2>1. CASE o = p
    BY <1>5, <1>8, <1>9, <2>1
  <2>2. CASE o # p
    BY <1>5, <1>8, <2>2
  <2> QED BY <2>1, <2>2
<1>11. MediaAccounted'
  <2> DEFINE x == begun * Generation!Media
             y == x * ImageTries
  <2>1. x \in Nat
    BY <1>7
  <2> HIDE DEF x
  <2>2. y \in Nat
    BY <1>1, <2>1
  <2> HIDE DEF y
  <2>3. /\ stored + MediaLeft(s, job["api"]) + MediaLeft(s, job["worker"]) <= x
        /\ generated + CallsLeft(s, job["api"]) + CallsLeft(s, job["worker"]) <= y
    BY <1>2 DEF x, y, GenerationInv, MediaAccounted
  <2>4. /\ stored + MediaLeft(s, job'["api"]) + MediaLeft(s, job'["worker"]) <= x
        /\ generated + CallsLeft(s, job'["api"]) + CallsLeft(s, job'["worker"]) <= y
    <3>1. "api" \in Generation!Places /\ "worker" \in Generation!Places
      BY DEF Generation!Places
    <3> QED BY <1>7, <1>8, <1>10, <2>1, <2>2, <2>3, <3>1
  <2> QED BY <1>3, <2>4 DEF x, y, MediaAccounted
<1> QED BY <1>3, <1>5, <1>6, <1>11 DEF RunsFit

\* A run at its beginning.
LEMMA BegunRun ==
    ASSUME NEW r \in 0..2
    PROVE  [pc |-> "run", at |-> 1, tries |-> 0, made |-> 0, retry |-> r] \in GenerationJob
<1>1. 0 \in Nat /\ 1 \in Nat /\ "run" \in {"idle", "run", "done", "answer", "failed"}
  OBVIOUS
<1> QED BY <1>1 DEF GenerationJob

\* A run begins, with everything before it.
LEMMA RunBegins ==
    ASSUME GenerationInv, NEW p \in Generation!Places, job[p].pc = "idle",
           NEW r \in 0..2, NEW i, i = [Generation!Begun EXCEPT !.retry = r],
           job' = [job EXCEPT ![p] = i], begun' = begun + 1,
           UNCHANGED <<request, stored, generated>>
    PROVE  RunsFit'
<1>1. GenerationType /\ MaxCount \in Nat /\ ImageTries \in Nat \ {0}
  BY ServicesAssumption DEF GenerationInv, ServicesAssumption
<1>2. PICK s, k : s = Generation!Pieces /\ k = Generation!kind
  OBVIOUS
<1>3. /\ Generation!kind' = k /\ Generation!Pieces' = s
      /\ Generation!Media' = Generation!Media
  <2>1. UNCHANGED request
    OBVIOUS
  <2>2. /\ Generation!kind' = Generation!kind /\ Generation!Pieces' = Generation!Pieces
        /\ Generation!Media' = Generation!Media
    BY <2>1, SamePieces
  <2> QED BY <1>2, <2>2
<1>4. \A o \in Generation!Places : job[o] \in GenerationJob /\ RunFits(s, k, job[o], stored)
  BY <1>1, <1>2 DEF GenerationInv, GenerationType
<1>5. i = [pc |-> "run", at |-> 1, tries |-> 0, made |-> 0, retry |-> r]
  BY DEF Generation!Begun, Generation!Idle
<1>6. /\ i \in GenerationJob /\ i.pc = "run" /\ i.at = 1 /\ i.tries = 0 /\ i.made = 0
  <2>1. i \in GenerationJob
    BY <1>5, BegunRun
  <2>2. i.pc = "run" /\ i.at = 1 /\ i.tries = 0 /\ i.made = 0
    BY <1>5
  <2> QED BY <2>1, <2>2
<1>7. /\ job' \in [Generation!Places -> GenerationJob] /\ job'[p] = i
      /\ \A o \in Generation!Places : o # p => job'[o] = job[o]
  BY <1>1, <1>6 DEF GenerationType
<1>8. /\ stored \in Nat /\ generated \in Nat /\ begun \in Nat
      /\ Generation!Media = Ahead(s, Mandatory, 1) + Ahead(s, Extras, 1)
  BY <1>1, <1>2, RequestFacts DEF GenerationType
<1>9. PICK m \in Nat : m = Generation!Media
  BY <1>1, RequestFacts DEF GenerationType
<1>10. Len(s) \in Nat \ {0}
  BY <1>1, <1>2, RequestPieces DEF GenerationType
<1>11. RunFits(s, k, i, stored)
  <2>1. Ahead(s, Mandatory, 1) = Amount(s, Mandatory)
    BY <1>10, AheadEnds
  <2>2. Ahead(s, Mandatory, 1) \in Nat
    <3>1. 1 \in 1..Len(s)
      BY <1>10
    <3> QED BY <1>10, <3>1, AheadStep
  <2> QED BY <1>1, <1>6, <1>8, <1>10, <2>1, <2>2 DEF RunFits
<1>12. \A o \in Generation!Places : RunFits(s, k, job'[o], stored)
  BY <1>4, <1>7, <1>11
<1>13. MediaLeft(s, i) = m
  BY <1>6, <1>8, <1>9 DEF MediaLeft
<1>14. CallsLeft(s, i) = m * ImageTries /\ m * ImageTries \in Nat
  BY <1>1, <1>6, <1>9, <1>13 DEF CallsLeft
<1>15. \A o \in Generation!Places : MediaLeft(s, job[o]) \in Nat /\ CallsLeft(s, job[o]) \in Nat
  <2>1. Len(s) \in Nat
    BY <1>10
  <2> QED BY <1>1, <1>4, <1>8, <2>1, LeftIsLeft
<1>16. MediaLeft(s, job[p]) = 0 /\ CallsLeft(s, job[p]) = 0
  BY DEF MediaLeft, CallsLeft
<1>17. MediaAccounted'
  <2> DEFINE x == begun * m
             y == x * ImageTries
             z == m * ImageTries
  <2>1. x \in Nat /\ z \in Nat
    BY <1>1, <1>8, <1>9
  <2>2. y \in Nat
    BY <1>1, <2>1
  <2>3. (begun + 1) * m = x + m
    BY <1>8, <1>9
  <2>4. (x + m) * ImageTries = y + z
    BY <1>1, <1>9, <2>1
  <2>5. /\ stored + MediaLeft(s, job["api"]) + MediaLeft(s, job["worker"]) <= x
        /\ generated + CallsLeft(s, job["api"]) + CallsLeft(s, job["worker"]) <= y
    BY <1>2, <1>9 DEF GenerationInv, MediaAccounted
  <2>6. CallsLeft(s, i) = z
    BY <1>14
  <2>7. /\ "api" \in Generation!Places /\ "worker" \in Generation!Places
        /\ p \in {"api", "worker"}
    BY DEF Generation!Places
  <2>8. begun' * Generation!Media' = x + m /\ begun' * Generation!Media' * ImageTries = y + z
    BY <1>3, <1>9, <2>3, <2>4
  <2> HIDE DEF x, y, z
  <2>9. /\ stored + MediaLeft(s, job'["api"]) + MediaLeft(s, job'["worker"]) <= x + m
        /\ generated + CallsLeft(s, job'["api"]) + CallsLeft(s, job'["worker"]) <= y + z
    <3>1. CASE p = "api"
      <4>1. job'["api"] = i /\ job'["worker"] = job["worker"]
        BY <1>7, <2>7, <3>1
      <4> QED BY <1>8, <1>9, <1>13, <1>15, <1>16, <2>1, <2>2, <2>5, <2>6, <2>7, <3>1, <4>1
    <3>2. CASE p = "worker"
      <4>1. job'["worker"] = i /\ job'["api"] = job["api"]
        BY <1>7, <2>7, <3>2
      <4> QED BY <1>8, <1>9, <1>13, <1>15, <1>16, <2>1, <2>2, <2>5, <2>6, <2>7, <3>2, <4>1
    <3> QED BY <2>7, <3>1, <3>2
  <2> QED BY <1>3, <2>8, <2>9 DEF MediaAccounted
<1> QED BY <1>3, <1>7, <1>12, <1>17 DEF RunsFit


\* A place without a run.
LEMMA IdleFits ==
    ASSUME NEW s, NEW k, NEW kept \in Nat
    PROVE  /\ Generation!Idle \in GenerationJob /\ Generation!Idle.pc = "idle"
           /\ Generation!Idle.retry = 0 /\ RunFits(s, k, Generation!Idle, kept)
<1>1. Generation!Idle = [pc |-> "idle", at |-> 1, tries |-> 0, made |-> 0, retry |-> 0]
  BY DEF Generation!Idle
<1>2. Generation!Idle \in GenerationJob
  <2>1. 0 \in Nat /\ 1 \in Nat /\ "idle" \in {"idle", "run", "done", "answer", "failed"}
    OBVIOUS
  <2> QED BY <1>1, <2>1 DEF GenerationJob
<1>3. Generation!Idle.pc = "idle" /\ Generation!Idle.retry = 0 /\ Generation!Idle.made = 0
  BY <1>1
<1> QED BY <1>2, <1>3 DEF RunFits

\* What every step of the request knows.
LEMMA RequestKnown ==
    ASSUME GenerationInv, UNCHANGED request
    PROVE  /\ GenerationType /\ RunsAccounted /\ ChargesFit
           /\ Generation!kind' = Generation!kind /\ Generation!Pieces' = Generation!Pieces
           /\ Generation!Needed' = Generation!Needed /\ Generation!Retries' = Generation!Retries
           /\ Generation!Queueable' = Generation!Queueable
           /\ Generation!Needed = Amount(Generation!Pieces, Mandatory)
           /\ Generation!Needed \in Nat /\ Generation!Retries \in {1, 2}
           /\ Generation!Queueable \in BOOLEAN
           /\ "api" \in Generation!Places /\ "worker" \in Generation!Places
           /\ job["api"] \in GenerationJob /\ job["worker"] \in GenerationJob
           /\ RunFits(Generation!Pieces, Generation!kind, job["api"], stored)
           /\ RunFits(Generation!Pieces, Generation!kind, job["worker"], stored)
<1>1. GenerationType /\ RunsAccounted /\ ChargesFit
  BY DEF GenerationInv
<1>2. request \in Generation!Requests /\ MaxCount \in Nat
  BY <1>1, ServicesAssumption DEF GenerationType, ServicesAssumption
<1>3. "api" \in Generation!Places /\ "worker" \in Generation!Places
  BY DEF Generation!Places
<1>4. /\ job["api"] \in GenerationJob /\ job["worker"] \in GenerationJob
      /\ RunFits(Generation!Pieces, Generation!kind, job["api"], stored)
      /\ RunFits(Generation!Pieces, Generation!kind, job["worker"], stored)
  BY <1>1, <1>3 DEF GenerationInv, GenerationType
<1> QED BY <1>1, <1>2, <1>3, <1>4, SamePieces, RequestFacts

\* The handler queues the request, or begins its own run.
LEMMA DispatchStep ==
    ASSUME GenerationInv, Generation!dispatch
    PROVE  GenerationInv'
<1>1. UNCHANGED <<request, status, stored, charged, generated>>
  BY DEF Generation!dispatch
<1>2. /\ GenerationType /\ RunsAccounted /\ ChargesFit
      /\ Generation!kind' = Generation!kind
      /\ Generation!Needed' = Generation!Needed /\ Generation!Retries' = Generation!Retries
      /\ Generation!Queueable' = Generation!Queueable
      /\ Generation!Needed \in Nat /\ Generation!Retries \in {1, 2}
      /\ "api" \in Generation!Places /\ "worker" \in Generation!Places
      /\ job["worker"] \in GenerationJob
      /\ RunFits(Generation!Pieces, Generation!kind, job["worker"], stored)
  BY <1>1, RequestKnown
<1>3. /\ answer = "none" /\ job["api"] = Generation!Idle /\ job["api"].pc = "idle"
      /\ begun = 0 /\ job["worker"].pc = "idle" /\ \A r \in 0..2 : queue[r] = 0
      /\ charged = 0 /\ job["worker"].retry = 0
  <2>1. answer = "none" /\ job["api"] = Generation!Idle
    BY DEF Generation!dispatch
  <2>2. job["api"].pc = "idle"
    BY <2>1 DEF Generation!Idle
  <2>3. begun = 0 /\ job["worker"].pc = "idle" /\ \A r \in 0..2 : queue[r] = 0
    BY <1>2, <2>1, <2>2 DEF RunsAccounted
  <2>4. job["worker"] = Generation!Idle
    BY <1>2, <2>3 DEF RunFits
  <2> QED BY <1>2, <2>1, <2>2, <2>3, <2>4 DEF ChargesFit, Generation!Idle
<1>4. job \in [Generation!Places -> GenerationJob] /\ queue \in [0..2 -> Nat] /\ faults \in Nat
  BY <1>2 DEF GenerationType
<1>5. CASE Generation!Queueable /\ Generation!Enqueued /\ answer' = "queued"
          /\ UNCHANGED <<job, begun, faults>>
  <2>1. /\ queue' \in [0..2 -> Nat] /\ queue'[0] = 1 /\ queue'[1] = 0 /\ queue'[2] = 0
    BY <1>3, <1>4, <1>5 DEF Generation!Enqueued
  <2>2. RunsFit'
    <3>1. job' = [job EXCEPT !["api"] = Generation!Idle]
      BY <1>3, <1>4, <1>5
    <3>2. stored \in Nat
      BY <1>2 DEF GenerationType
    <3> QED BY <1>1, <1>2, <1>5, <3>1, <3>2, IdleFits, RunLeaves
  <2>3. GenerationType'
    BY <1>1, <1>2, <1>5, <2>1 DEF GenerationType
  <2>4. RunsAccounted'
    BY <1>2, <1>3, <1>4, <1>5, <2>1 DEF RunsAccounted, RunsLeft
  <2>5. ChargesFit'
    BY <1>1, <1>2, <1>3, <1>5 DEF ChargesFit
  <2> QED BY <2>2, <2>3, <2>4, <2>5 DEF GenerationInv, RunsFit
<1>6. ASSUME Generation!RunsHere, UNCHANGED answer,
             \/ UNCHANGED <<queue, faults>>
             \/ Generation!Queueable /\ Generation!Enqueued /\ faults' = faults + 1
      PROVE  GenerationInv'
  <2>1. job' = [job EXCEPT !["api"] = Generation!Begun] /\ begun' = begun + 1
    BY <1>6 DEF Generation!RunsHere
  <2>2. PICK r \in 0..2 : r = 0
    OBVIOUS
  <2>3. PICK i : i = [Generation!Begun EXCEPT !.retry = r]
    OBVIOUS
  <2>4. i = Generation!Begun /\ i.pc = "run"
    <3>1. Generation!Begun = [pc |-> "run", at |-> 1, tries |-> 0, made |-> 0, retry |-> 0]
      BY DEF Generation!Begun, Generation!Idle
    <3>2. i = [pc |-> "run", at |-> 1, tries |-> 0, made |-> 0, retry |-> 0]
      BY <2>2, <2>3, <3>1
    <3> QED BY <3>1, <3>2
  <2>5. RunsFit'
    <3>1. job' = [job EXCEPT !["api"] = i]
      BY <2>1, <2>4
    <3> QED BY <1>1, <1>2, <1>3, <2>1, <2>3, <3>1, RunBegins
  <2>6. job'["api"].pc = "run" /\ job'["worker"] = job["worker"] /\ begun' = 1
    BY <1>2, <1>3, <1>4, <2>1, <2>4
  <2>7. GenerationType'
    <3>1. job' \in [Generation!Places -> GenerationJob]
      BY <2>5 DEF RunsFit
    <3>2. queue' \in [0..2 -> Nat] /\ faults' \in Nat
      BY <1>4, <1>6 DEF Generation!Enqueued
    <3> QED BY <1>1, <1>2, <1>6, <2>6, <3>1, <3>2 DEF GenerationType
  <2>8. RunsAccounted'
    <3>1. CASE UNCHANGED <<queue, faults>>
      BY <1>2, <1>3, <1>4, <1>6, <2>6, <3>1 DEF RunsAccounted, RunsLeft
    <3>2. CASE Generation!Queueable /\ Generation!Enqueued /\ faults' = faults + 1
      <4>1. queue'[0] = 1 /\ queue'[1] = 0 /\ queue'[2] = 0
        BY <1>3, <1>4, <3>2 DEF Generation!Enqueued
      <4> QED BY <1>2, <1>3, <1>4, <1>6, <2>6, <3>2, <4>1 DEF RunsAccounted, RunsLeft
    <3> QED BY <1>6, <3>1, <3>2
  <2>9. ChargesFit'
    BY <1>1, <1>2, <1>3, <1>6, <2>6 DEF ChargesFit
  <2> QED BY <2>5, <2>7, <2>8, <2>9 DEF GenerationInv, RunsFit
<1> QED BY <1>5, <1>6 DEF Generation!dispatch, Generation!Fault


\* The handler logs what it charges, or fails to.
LEMMA ChargeStep ==
    ASSUME GenerationInv, Generation!log_usage
    PROVE  GenerationInv'
<1>1. /\ UNCHANGED <<request, answer, queue, status, stored, generated, begun, faults>>
      /\ job["api"].pc = "done"
  BY DEF Generation!log_usage
<1>2. /\ GenerationType /\ RunsAccounted /\ ChargesFit
      /\ Generation!kind' = Generation!kind
      /\ Generation!Needed' = Generation!Needed /\ Generation!Retries' = Generation!Retries
      /\ Generation!Queueable' = Generation!Queueable
      /\ Generation!Needed = Amount(Generation!Pieces, Mandatory)
      /\ Generation!Needed \in Nat /\ Generation!Retries \in {1, 2}
      /\ "api" \in Generation!Places /\ "worker" \in Generation!Places
      /\ job["api"] \in GenerationJob /\ job["worker"] \in GenerationJob
      /\ RunFits(Generation!Pieces, Generation!kind, job["api"], stored)
  BY <1>1, RequestKnown
<1>3. PICK j \in GenerationJob : j = job["api"] /\ j.pc = "done"
  BY <1>1, <1>2
<1>4. /\ j.made \in Nat /\ j.made <= stored
      /\ Generation!kind # "holiday" => j.made = Generation!Needed
  BY <1>2, <1>3 DEF RunFits, GenerationJob
<1>5. answer = "none" /\ charged = 0
  BY <1>1, <1>2 DEF ChargesFit
<1>6. job \in [Generation!Places -> GenerationJob] /\ stored \in Nat /\ request.count \in Nat
      /\ request.count >= 1
  BY <1>2 DEF GenerationType, Generation!Requests
<1>7. ASSUME NEW pc \in {"answer", "failed"}, job' = [job EXCEPT !["api"].pc = pc]
      PROVE  RunsFit' /\ RunsAccounted' /\ job'["api"].pc = pc
  <2>1. PICK i : i = [j EXCEPT !.pc = pc]
    OBVIOUS
  <2>2. /\ i \in GenerationJob /\ i.pc = pc /\ i.made = j.made
    BY <1>3, <2>1 DEF GenerationJob
  <2>3. RunFits(Generation!Pieces, Generation!kind, i, stored)
    BY <1>2, <1>4, <2>2 DEF RunFits
  <2>4. job' = [job EXCEPT !["api"] = i]
    BY <1>3, <1>7, <2>1, Zenon
  <2>5. RunsFit'
    BY <1>1, <1>2, <2>2, <2>3, <2>4, RunLeaves
  <2>6. job'["api"].pc = pc /\ job'["worker"] = job["worker"]
    BY <1>2, <1>6, <2>2, <2>4
  <2>7. RunsAccounted'
    BY <1>1, <1>2, <1>5, <2>6 DEF RunsAccounted
  <2> QED BY <2>5, <2>6, <2>7
<1>8. CASE job' = [job EXCEPT !["api"].pc = "answer"] /\ charged' = charged + Generation!Charge
  <2>1. RunsFit' /\ RunsAccounted' /\ job'["api"].pc = "answer"
    BY <1>7, <1>8
  <2>2. /\ Generation!Charge \in Nat
        /\ Generation!kind = "holiday" => Generation!Charge = 0
        /\ Generation!kind # "holiday" =>
               Generation!Charge = request.count
               /\ Generation!Charge <= (IF Generation!kind = "caption" THEN 1 ELSE stored)
    <3>1. /\ Generation!kind = "video" => Generation!Needed = 1
          /\ Generation!kind \in {"images", "reference", "revise"} =>
                 Generation!Needed = request.count
          /\ Generation!kind \in {"caption", "holiday", "video", "images", "reference", "revise"}
          /\ Generation!kind \in {"caption", "holiday", "video"} => request.count = 1
      <4>1. request \in Generation!Requests /\ MaxCount \in Nat
        BY <1>2, ServicesAssumption DEF GenerationType, ServicesAssumption
      <4>2. /\ Generation!kind = "video" => Generation!Needed = 1
            /\ Generation!kind \in {"images", "reference", "revise"} =>
                   Generation!Needed = request.count
        BY <4>1, RequestPieces
      <4>3. Generation!kind \in {"caption", "holiday", "video", "images", "reference", "revise"}
        BY <4>1 DEF Generation!Requests, Generation!Kinds, Generation!kind
      <4> QED BY <1>2, <4>2, <4>3 DEF GenerationType
    <3>2. CASE Generation!kind = "holiday"
      BY <3>2 DEF Generation!Charge
    <3>3. CASE Generation!kind = "caption"
      BY <3>1, <3>3 DEF Generation!Charge
    <3>4. CASE Generation!kind = "video"
      BY <1>4, <3>1, <3>4 DEF Generation!Charge
    <3>5. CASE Generation!kind \in {"images", "reference", "revise"}
      <4>1. j.made = request.count /\ request.count <= stored
        BY <1>4, <3>1, <3>5
      <4>2. Generation!Charge = request.count
        BY <1>3, <1>6, <3>5, <4>1 DEF Generation!Charge
      <4> QED BY <1>6, <3>5, <4>1, <4>2
    <3> QED BY <3>1, <3>2, <3>3, <3>4, <3>5
  <2>3. charged' = Generation!Charge
    BY <1>5, <1>8, <2>2
  <2>4. ChargesFit'
    BY <1>1, <1>2, <1>5, <1>6, <2>1, <2>2, <2>3 DEF ChargesFit
  <2>5. GenerationType'
    BY <1>1, <1>2, <2>1, <2>2, <2>3 DEF GenerationType, RunsFit
  <2> QED BY <2>1, <2>4, <2>5 DEF GenerationInv, RunsFit
<1>9. CASE job' = [job EXCEPT !["api"].pc = "failed"] /\ UNCHANGED charged
  <2>1. RunsFit' /\ RunsAccounted' /\ job'["api"].pc = "failed"
    BY <1>7, <1>9
  <2>2. ChargesFit'
    BY <1>1, <1>2, <1>5, <1>9, <2>1 DEF ChargesFit
  <2>3. GenerationType'
    BY <1>1, <1>2, <1>9, <2>1 DEF GenerationType, RunsFit
  <2> QED BY <2>1, <2>2, <2>3 DEF GenerationInv, RunsFit
<1> QED BY <1>8, <1>9 DEF Generation!log_usage

\* The handler is through: it answers, or its process dies.
LEMMA AnswerStep ==
    ASSUME GenerationInv, Generation!Answer \/ Generation!ApiDies
    PROVE  GenerationInv'
<1>1. /\ UNCHANGED <<request, queue, status, stored, charged, generated, begun>>
      /\ job' = [job EXCEPT !["api"] = Generation!Idle] /\ answer' \in {"result", "error", "lost"}
      /\ faults' \in {faults, faults + 1}
      /\ answer' = "result" => job["api"].pc = "answer"
      /\ answer' = "error" => job["api"].pc # "answer" /\ job["api"].pc # "idle"
  BY DEF Generation!Answer, Generation!ApiDies, Generation!Fault
<1>2. /\ GenerationType /\ RunsAccounted /\ ChargesFit
      /\ Generation!kind' = Generation!kind
      /\ Generation!Needed' = Generation!Needed /\ Generation!Retries' = Generation!Retries
      /\ Generation!Queueable' = Generation!Queueable
      /\ Generation!Retries \in {1, 2}
      /\ "api" \in Generation!Places /\ "worker" \in Generation!Places
      /\ job["worker"] \in GenerationJob
  BY <1>1, RequestKnown
<1>3. /\ job \in [Generation!Places -> GenerationJob] /\ stored \in Nat /\ faults \in Nat
      /\ begun \in Nat /\ queue \in [0..2 -> Nat]
  BY <1>2 DEF GenerationType
<1>4. RunsFit'
  BY <1>1, <1>2, <1>3, IdleFits, RunLeaves
<1>5. job'["api"].pc = "idle" /\ job'["worker"] = job["worker"]
  BY <1>1, <1>2, <1>3, IdleFits
<1>6. faults' \in Nat /\ faults <= faults'
  BY <1>1, <1>3
<1>7. GenerationType'
  BY <1>1, <1>2, <1>4, <1>6 DEF GenerationType, RunsFit
<1>8. RunsAccounted'
  <2>1. PICK l \in Int : l = RunsLeft(1, job["worker"])
    BY <1>2 DEF RunsLeft, GenerationJob
  <2>2. PICK m \in Int : m = RunsLeft(2, job["worker"])
    BY <1>2 DEF RunsLeft, GenerationJob
  <2> QED BY <1>1, <1>2, <1>3, <1>5, <1>6, <2>1, <2>2 DEF RunsAccounted
<1>9. ChargesFit'
  BY <1>1, <1>2, <1>5 DEF ChargesFit
<1> QED BY <1>4, <1>7, <1>8, <1>9 DEF GenerationInv, RunsFit


\* The worker takes a message.
LEMMA TakeStep ==
    ASSUME GenerationInv, NEW r \in 0..2, Generation!Take(r)
    PROVE  GenerationInv'
<1>1. /\ UNCHANGED <<request, answer, stored, charged, generated, faults>>
      /\ job["worker"] = Generation!Idle /\ queue[r] > 0 /\ queue' = [queue EXCEPT ![r] = @ - 1]
      /\ job' = [job EXCEPT !["worker"] = [Generation!Begun EXCEPT !.retry = r]]
      /\ status' = "started" /\ begun' = begun + 1
  BY DEF Generation!Take
<1>2. /\ GenerationType /\ RunsAccounted /\ ChargesFit
      /\ Generation!kind' = Generation!kind
      /\ Generation!Needed' = Generation!Needed /\ Generation!Retries' = Generation!Retries
      /\ Generation!Queueable' = Generation!Queueable
      /\ Generation!Retries \in {1, 2}
      /\ "api" \in Generation!Places /\ "worker" \in Generation!Places
  BY <1>1, RequestKnown
<1>3. /\ job \in [Generation!Places -> GenerationJob] /\ stored \in Nat /\ faults \in Nat
      /\ begun \in Nat /\ queue \in [0..2 -> Nat]
  BY <1>2 DEF GenerationType
<1>4. PICK i : i = [Generation!Begun EXCEPT !.retry = r]
  OBVIOUS
<1>5. i.pc = "run" /\ i.retry = r
  <2>1. Generation!Begun = [pc |-> "run", at |-> 1, tries |-> 0, made |-> 0, retry |-> 0]
    BY DEF Generation!Begun, Generation!Idle
  <2> QED BY <1>4, <2>1
<1>6. job["worker"].pc = "idle"
  BY <1>1, <1>3, IdleFits
<1>7. RunsFit'
  <2>1. job' = [job EXCEPT !["worker"] = i]
    BY <1>1, <1>4
  <2> QED BY <1>1, <1>2, <1>4, <1>6, <2>1, RunBegins
<1>8. job'["worker"].pc = "run" /\ job'["worker"].retry = r /\ job'["api"] = job["api"]
  BY <1>1, <1>2, <1>3, <1>4, <1>5
<1>9. /\ queue' \in [0..2 -> Nat] /\ queue'[r] = queue[r] - 1
      /\ \A x \in 0..2 : x # r => queue'[x] = queue[x]
  BY <1>1, <1>3
<1>10. GenerationType'
  BY <1>1, <1>2, <1>3, <1>7, <1>9 DEF GenerationType, RunsFit
<1>11. RunsAccounted'
  <2>1. Generation!Queueable /\ ~(answer = "none" /\ job["api"].pc = "idle")
    BY <1>1, <1>2, <1>3 DEF RunsAccounted
  <2>2. Generation!Retries < 2 => r # 2 /\ queue'[2] = 0
    BY <1>1, <1>2, <1>3, <1>9, <2>1 DEF RunsAccounted
  <2>3. CASE Generation!Retries = 1
    <3>1. begun + 2 * queue[0] + queue[1] <= 2 * (1 + faults)
      BY <1>2, <1>6, <2>1, <2>3, <1>3 DEF RunsAccounted, RunsLeft
    <3>2. CASE r = 0
      <4>1. begun' + 2 * queue'[0] + queue'[1] + 1 <= 2 * (1 + faults)
        BY <1>1, <1>3, <1>9, <3>1, <3>2
      <4> QED BY <1>1, <1>2, <1>8, <2>1, <2>2, <2>3, <3>2, <4>1 DEF RunsAccounted, RunsLeft
    <3>3. CASE r = 1
      <4>1. begun' + 2 * queue'[0] + queue'[1] + 0 <= 2 * (1 + faults)
        BY <1>1, <1>3, <1>9, <3>1, <3>3
      <4> QED BY <1>1, <1>2, <1>8, <2>1, <2>2, <2>3, <3>3, <4>1 DEF RunsAccounted, RunsLeft
    <3> QED BY <2>2, <2>3, <3>2, <3>3
  <2>4. CASE Generation!Retries = 2
    <3>1. begun + 3 * queue[0] + 2 * queue[1] + queue[2] <= 3 * (1 + faults)
      BY <1>2, <1>6, <2>1, <2>4, <1>3 DEF RunsAccounted, RunsLeft
    <3>2. begun' + 3 * queue'[0] + 2 * queue'[1] + queue'[2] + (2 - r) <= 3 * (1 + faults)
      BY <1>1, <1>3, <1>9, <3>1
    <3> QED BY <1>1, <1>2, <1>8, <2>1, <2>2, <2>4, <3>2 DEF RunsAccounted, RunsLeft
  <2> QED BY <1>2, <2>3, <2>4
<1>12. ChargesFit'
  BY <1>1, <1>2, <1>8 DEF ChargesFit
<1> QED BY <1>7, <1>10, <1>11, <1>12 DEF GenerationInv, RunsFit

\* The worker is through with a message: done with it, or it goes on as a retry, or it dies.
LEMMA WorkerStep ==
    ASSUME GenerationInv, Generation!Finish \/ Generation!retry \/ Generation!WorkerDies
    PROVE  GenerationInv'
<1> DEFINE r == job["worker"].retry
           back == [queue EXCEPT ![r] = @ + 1]
<1>1. /\ UNCHANGED <<request, answer, stored, charged, generated, begun>>
      /\ job' = [job EXCEPT !["worker"] = Generation!Idle]
      /\ job["worker"] # Generation!Idle
      /\ \/ /\ job["worker"].pc = "done" /\ status' = "success" /\ UNCHANGED <<queue, faults>>
         \/ /\ r < Generation!Retries /\ queue' = [queue EXCEPT ![r + 1] = @ + 1]
            /\ status' = "retry" /\ UNCHANGED faults
         \/ /\ status' = "failure" /\ UNCHANGED <<queue, faults>>
         \/ /\ queue' = back /\ faults' = faults + 1 /\ UNCHANGED status
         \/ /\ r < Generation!Retries /\ queue' = [back EXCEPT ![r + 1] = @ + 1]
            /\ status' = "retry" /\ faults' = faults + 1
  BY DEF Generation!Finish, Generation!retry, Generation!WorkerDies, Generation!Fault,
         Generation!Idle
<1>2. /\ GenerationType /\ RunsAccounted /\ ChargesFit
      /\ Generation!kind' = Generation!kind
      /\ Generation!Needed' = Generation!Needed /\ Generation!Retries' = Generation!Retries
      /\ Generation!Queueable' = Generation!Queueable
      /\ Generation!Needed = Amount(Generation!Pieces, Mandatory)
      /\ Generation!Needed \in Nat /\ Generation!Retries \in {1, 2}
      /\ "api" \in Generation!Places /\ "worker" \in Generation!Places
      /\ job["worker"] \in GenerationJob
      /\ RunFits(Generation!Pieces, Generation!kind, job["worker"], stored)
  BY <1>1, RequestKnown
<1>3. /\ job \in [Generation!Places -> GenerationJob] /\ stored \in Nat /\ faults \in Nat
      /\ begun \in Nat /\ queue \in [0..2 -> Nat]
  BY <1>2 DEF GenerationType
<1>4. r \in 0..2 /\ job["worker"].pc # "idle"
  BY <1>1, <1>2 DEF GenerationJob, RunFits
<1>5. RunsFit'
  BY <1>1, <1>2, <1>3, IdleFits, RunLeaves
<1>6. /\ job'["worker"].pc = "idle" /\ job'["worker"].retry = 0 /\ job'["api"] = job["api"]
  BY <1>1, <1>2, <1>3, IdleFits
<1>7. /\ Generation!Queueable /\ ~(answer = "none" /\ job["api"].pc = "idle")
      /\ r <= Generation!Retries /\ (Generation!Retries < 2 => queue[2] = 0)
  BY <1>2, <1>4 DEF RunsAccounted
<1>8. PICK m \in 0..2 : m = r
  BY <1>4
<1>9. /\ queue' \in [0..2 -> Nat] /\ faults' \in Nat
      /\ Generation!Retries = 1 =>
             queue'[2] = 0 /\ begun + 2 * queue'[0] + queue'[1] <= 2 * (1 + faults')
      /\ Generation!Retries = 2 =>
             begun + 3 * queue'[0] + 2 * queue'[1] + queue'[2] <= 3 * (1 + faults')
  <2>1. PICK b0 \in Nat, b1 \in Nat, b2 \in Nat : b0 = queue[0] /\ b1 = queue[1] /\ b2 = queue[2]
    BY <1>3
  <2>2. /\ Generation!Retries = 1 =>
               m <= 1 /\ b2 = 0 /\ begun + 2 * b0 + b1 + (1 - m) <= 2 * (1 + faults)
        /\ Generation!Retries = 2 =>
               begun + 3 * b0 + 2 * b1 + b2 + (2 - m) <= 3 * (1 + faults)
    BY <1>2, <1>4, <1>7, <1>8, <2>1 DEF RunsAccounted, RunsLeft
  <2>3. CASE UNCHANGED <<queue, faults>>
    BY <1>2, <1>3, <1>8, <2>1, <2>2, <2>3
  <2>4. ASSUME NEW d0 \in {0, 1}, NEW d1 \in {0, 1, 2}, NEW d2 \in {0, 1, 2}, NEW f \in Nat,
               queue' \in [0..2 -> Nat], faults' = f,
               queue'[0] = b0 + d0, queue'[1] = b1 + d1, queue'[2] = b2 + d2,
               Generation!Retries = 1 => d2 = 0 /\ 2 * d0 + d1 <= (1 - m) + 2 * (f - faults),
               Generation!Retries = 2 =>
                   3 * d0 + 2 * d1 + d2 <= (2 - m) + 3 * (f - faults)
        PROVE  /\ queue' \in [0..2 -> Nat] /\ faults' \in Nat
               /\ Generation!Retries = 1 =>
                      queue'[2] = 0 /\ begun + 2 * queue'[0] + queue'[1] <= 2 * (1 + faults')
               /\ Generation!Retries = 2 =>
                      begun + 3 * queue'[0] + 2 * queue'[1] + queue'[2] <= 3 * (1 + faults')
    <3>1. CASE Generation!Retries = 1
      BY <1>3, <1>8, <2>2, <2>4, <3>1
    <3>2. CASE Generation!Retries = 2
      BY <1>3, <1>8, <2>2, <2>4, <3>2
    <3> QED BY <1>2, <3>1, <3>2
  <2>5. CASE m < Generation!Retries /\ queue' = [queue EXCEPT ![m + 1] = @ + 1] /\ UNCHANGED faults
    <3>1. CASE m = 0
      <4>1. /\ queue' \in [0..2 -> Nat]
            /\ queue'[0] = b0 + 0 /\ queue'[1] = b1 + 1 /\ queue'[2] = b2 + 0
        BY <1>3, <2>1, <2>5, <3>1
      <4> QED BY <1>2, <1>3, <2>4, <2>5, <3>1, <4>1
    <3>2. CASE m = 1
      <4>1. /\ queue' \in [0..2 -> Nat]
            /\ queue'[0] = b0 + 0 /\ queue'[1] = b1 + 0 /\ queue'[2] = b2 + 1
        BY <1>3, <2>1, <2>5, <3>2
      <4>2. Generation!Retries = 2
        BY <1>2, <2>5, <3>2
      <4> QED BY <1>2, <1>3, <2>4, <2>5, <3>2, <4>1, <4>2
    <3> QED BY <1>2, <1>8, <2>5, <3>1, <3>2
  <2>6. CASE queue' = [queue EXCEPT ![m] = @ + 1] /\ faults' = faults + 1
    <3>1. CASE m = 0
      <4>1. /\ queue' \in [0..2 -> Nat]
            /\ queue'[0] = b0 + 1 /\ queue'[1] = b1 + 0 /\ queue'[2] = b2 + 0
        BY <1>3, <2>1, <2>6, <3>1
      <4> QED BY <1>3, <2>4, <2>6, <3>1, <4>1
    <3>2. CASE m = 1
      <4>1. /\ queue' \in [0..2 -> Nat]
            /\ queue'[0] = b0 + 0 /\ queue'[1] = b1 + 1 /\ queue'[2] = b2 + 0
        BY <1>3, <2>1, <2>6, <3>2
      <4> QED BY <1>3, <2>4, <2>6, <3>2, <4>1
    <3>3. CASE m = 2
      <4>1. /\ queue' \in [0..2 -> Nat]
            /\ queue'[0] = b0 + 0 /\ queue'[1] = b1 + 0 /\ queue'[2] = b2 + 1
        BY <1>3, <2>1, <2>6, <3>3
      <4>2. Generation!Retries = 2
        BY <1>2, <2>2, <3>3
      <4> QED BY <1>3, <2>4, <2>6, <3>3, <4>1, <4>2
    <3> QED BY <1>8, <3>1, <3>2, <3>3
  <2>7. CASE /\ m < Generation!Retries /\ faults' = faults + 1
             /\ queue' = [[queue EXCEPT ![m] = @ + 1] EXCEPT ![m + 1] = @ + 1]
    <3>1. CASE m = 0
      <4>1. /\ queue' \in [0..2 -> Nat]
            /\ queue'[0] = b0 + 1 /\ queue'[1] = b1 + 1 /\ queue'[2] = b2 + 0
        BY <1>3, <2>1, <2>7, <3>1
      <4> QED BY <1>3, <2>4, <2>7, <3>1, <4>1
    <3>2. CASE m = 1
      <4>1. /\ queue' \in [0..2 -> Nat]
            /\ queue'[0] = b0 + 0 /\ queue'[1] = b1 + 1 /\ queue'[2] = b2 + 1
        BY <1>3, <2>1, <2>7, <3>2
      <4>2. Generation!Retries = 2
        BY <1>2, <2>7, <3>2
      <4> QED BY <1>3, <2>4, <2>7, <3>2, <4>1, <4>2
    <3> QED BY <1>2, <1>8, <2>7, <3>1, <3>2
  <2> QED BY <1>1, <1>8, <2>3, <2>5, <2>6, <2>7
<1>10. GenerationType'
  BY <1>1, <1>2, <1>5, <1>9 DEF GenerationType, RunsFit
<1>11. RunsAccounted'
  <2>1. RunsLeft(1, job'["worker"]) = 0 /\ RunsLeft(2, job'["worker"]) = 0
    BY <1>6 DEF RunsLeft
  <2>2. 0 <= Generation!Retries
    BY <1>2
  <2>3. /\ begun' = begun /\ Generation!Queueable' /\ ~(answer' = "none" /\ job'["api"].pc = "idle")
    BY <1>1, <1>2, <1>6, <1>7
  <2>4. job'["worker"].pc # "answer"
    BY <1>6
  <2>5. CASE Generation!Retries = 1
    <3>1. begun' + 2 * queue'[0] + queue'[1] + RunsLeft(1, job'["worker"]) <= 2 * (1 + faults')
      BY <1>3, <1>9, <2>1, <2>3, <2>5
    <3>2. queue'[2] = 0
      BY <1>9, <2>5
    <3> QED BY <1>2, <1>6, <2>2, <2>3, <2>4, <2>5, <3>1, <3>2 DEF RunsAccounted
  <2>6. CASE Generation!Retries = 2
    <3>1. begun' + 3 * queue'[0] + 2 * queue'[1] + queue'[2] + RunsLeft(2, job'["worker"])
              <= 3 * (1 + faults')
      BY <1>3, <1>9, <2>1, <2>3, <2>6
    <3> QED BY <1>2, <1>6, <2>2, <2>3, <2>4, <2>6, <3>1 DEF RunsAccounted
  <2> QED BY <1>2, <2>5, <2>6
<1>12. ChargesFit'
  <2>1. status' = "success" => stored >= Generation!Needed
    <3>1. CASE job["worker"].pc = "done"
      <4>1. PICK j \in GenerationJob : j = job["worker"] /\ j.pc = "done"
        BY <1>2, <3>1
      <4>2. CASE Generation!kind # "holiday"
        <5>1. j.made = Generation!Needed /\ j.made <= stored
          BY <1>2, <4>1, <4>2 DEF RunFits
        <5> QED BY <1>2, <1>3, <5>1
      <4>3. CASE Generation!kind = "holiday"
        <5>1. request \in Generation!Requests /\ MaxCount \in Nat
          BY <1>2, ServicesAssumption DEF GenerationType, ServicesAssumption
        <5>2. Generation!Needed = 0
          BY <4>3, <5>1, RequestPieces
        <5> QED BY <1>3, <5>2
      <4> QED BY <4>2, <4>3
    <3>2. CASE job["worker"].pc # "done"
      BY <1>1, <1>2, <3>2 DEF ChargesFit
    <3> QED BY <3>1, <3>2
  <2> QED BY <1>1, <1>2, <1>6, <2>1 DEF ChargesFit
<1> QED BY <1>5, <1>10, <1>11, <1>12 DEF GenerationInv, RunsFit


\* Every step of a request keeps the invariant.
LEMMA GenerationStep ==
    ASSUME GenerationInv, Generation!Next
    PROVE  GenerationInv'
<1>1. CASE Generation!dispatch
  BY <1>1, DispatchStep
<1>2. CASE Generation!log_usage
  BY <1>2, ChargeStep
<1>3. CASE Generation!Answer \/ Generation!ApiDies
  BY <1>3, AnswerStep
<1>4. ASSUME NEW p \in Generation!Places,
             \/ Generation!Write(p) \/ Generation!analyze(p) \/ Generation!extract_label_info(p)
             \/ Generation!_download_image(p) \/ Generation!_generate_and_store(p)
             \/ Generation!_generate_openai_edit_and_store(p)
             \/ Generation!generate_social_video(p)
      PROVE  GenerationInv'
  BY <1>4, RunWorks
<1>5. ASSUME NEW r \in 0..2, Generation!Take(r)
      PROVE  GenerationInv'
  BY <1>5, TakeStep
<1>6. CASE Generation!Finish \/ Generation!retry \/ Generation!WorkerDies
  BY <1>6, WorkerStep
<1> QED BY <1>1, <1>2, <1>3, <1>4, <1>5, <1>6 DEF Generation!Next

\* The invariant of a request holds always.
LEMMA GenerationKept == Spec => [](part = "generation" => GenerationInv)
<1>1. Init => (part = "generation" => GenerationInv)
  <2> SUFFICES ASSUME Generation!Init
               PROVE  GenerationInv
    BY DEF Init
  <2>1. MaxCount \in Nat /\ ImageTries \in Nat \ {0}
    BY ServicesAssumption DEF ServicesAssumption
  <2>2. /\ request \in Generation!Requests /\ answer = "none" /\ status = "pending"
        /\ Generation!kind \in {"caption", "holiday", "video"} => request.count = 1
        /\ job = [o \in Generation!Places |-> Generation!Idle] /\ queue = [r \in 0..2 |-> 0]
        /\ stored = 0 /\ charged = 0 /\ generated = 0 /\ begun = 0 /\ faults = 0
    BY DEF Generation!Init, Generation!kind
  <2>3. "api" \in Generation!Places /\ "worker" \in Generation!Places
    BY DEF Generation!Places
  <2>4. /\ Generation!Idle \in GenerationJob /\ Generation!Idle.pc = "idle"
        /\ Generation!Idle.retry = 0
        /\ RunFits(Generation!Pieces, Generation!kind, Generation!Idle, 0)
    BY IdleFits
  <2>5. GenerationType
    BY <2>2, <2>4 DEF GenerationType
  <2>6. job["api"] = Generation!Idle /\ job["worker"] = Generation!Idle
    BY <2>2, <2>3
  <2>7. \A p \in Generation!Places :
            RunFits(Generation!Pieces, Generation!kind, job[p], stored)
    BY <2>2, <2>4
  <2>8. Generation!Media \in Nat /\ Generation!Needed \in Nat /\ Generation!Retries \in {1, 2}
    BY <2>1, <2>2, RequestFacts
  <2>9. RunsAccounted
    <3>1. queue[0] = 0 /\ queue[1] = 0 /\ queue[2] = 0 /\ \A r \in 0..2 : queue[r] = 0
      BY <2>2
    <3> QED BY <2>2, <2>4, <2>6, <2>8, <3>1 DEF RunsAccounted, RunsLeft
  <2>10. MediaAccounted
    <3>1. /\ MediaLeft(Generation!Pieces, Generation!Idle) = 0
          /\ CallsLeft(Generation!Pieces, Generation!Idle) = 0
      BY <2>4 DEF MediaLeft, CallsLeft
    <3>2. begun * Generation!Media = 0 /\ 0 * ImageTries = 0
      BY <2>1, <2>2, <2>8
    <3> QED BY <2>2, <2>6, <3>1, <3>2 DEF MediaAccounted
  <2>11. ChargesFit
    BY <2>2, <2>4, <2>6 DEF ChargesFit
  <2> QED BY <2>5, <2>7, <2>9, <2>10, <2>11 DEF GenerationInv
<1>2. (part = "generation" => GenerationInv) /\ [Next]_vars => (part = "generation" => GenerationInv)'
  <2> SUFFICES ASSUME part = "generation" => GenerationInv, [Next]_vars, part' = "generation"
               PROVE  GenerationInv'
    OBVIOUS
  <2>1. part = "generation" /\ (Generation!Next \/ UNCHANGED Generation!vars)
    BY StepOfPart
  <2>2. CASE Generation!Next
    BY <2>1, <2>2, GenerationStep
  <2>3. CASE UNCHANGED Generation!vars
    <3>1. /\ UNCHANGED <<request, answer, job, queue, status, stored, charged, generated, begun, faults>>
          /\ GenerationInv
      BY <2>1, <2>3 DEF Generation!vars
    <3>2. UNCHANGED request
      BY <3>1
    <3>3. /\ Generation!kind' = Generation!kind /\ Generation!Pieces' = Generation!Pieces
          /\ Generation!Needed' = Generation!Needed /\ Generation!Media' = Generation!Media
          /\ Generation!Retries' = Generation!Retries
          /\ Generation!Queueable' = Generation!Queueable
      BY <3>2, SamePieces
    <3> QED BY <3>1, <3>3
            DEF GenerationInv, GenerationType, RunsAccounted, MediaAccounted, ChargesFit
  <2> QED BY <2>1, <2>2, <2>3
<1> QED BY <1>1, <1>2, PTL DEF Spec

\* The work of one request is bounded, whatever its pictures, tries, retries and the
\* processes that die: it is run once by the handler and as often as the retries of one
\* message allow, again for every fault, and no run calls or stores more than its pieces.
THEOREM WorkOfRequest == Spec => []WorkIsBounded
<1>1. (part = "generation" => GenerationInv) => WorkIsBounded
  <2> SUFFICES ASSUME GenerationInv
               PROVE  Generation!WorkIsBounded
    BY DEF WorkIsBounded
  <2>1. /\ GenerationType /\ RunsAccounted /\ MediaAccounted
        /\ MaxCount \in Nat /\ ImageTries \in Nat \ {0}
    BY ServicesAssumption DEF GenerationInv, ServicesAssumption
  <2>2. /\ stored \in Nat /\ generated \in Nat /\ begun \in Nat /\ faults \in Nat
        /\ queue \in [0..2 -> Nat] /\ Generation!Media \in Nat /\ Generation!Retries \in {1, 2}
    BY <2>1, RequestFacts DEF GenerationType
  <2>3. "api" \in Generation!Places /\ "worker" \in Generation!Places
    BY DEF Generation!Places
  <2>4. \A p \in Generation!Places :
            /\ MediaLeft(Generation!Pieces, job[p]) \in Nat
            /\ CallsLeft(Generation!Pieces, job[p]) \in Nat
    <3> SUFFICES ASSUME NEW p \in Generation!Places
                 PROVE  /\ MediaLeft(Generation!Pieces, job[p]) \in Nat
                        /\ CallsLeft(Generation!Pieces, job[p]) \in Nat
      OBVIOUS
    <3>1. PICK s, k, j : s = Generation!Pieces /\ k = Generation!kind /\ j = job[p]
      OBVIOUS
    <3>2. Len(s) \in Nat
      BY <2>1, <3>1, RequestPieces DEF GenerationType
    <3>3. j \in GenerationJob /\ RunFits(s, k, j, stored)
      BY <2>1, <3>1 DEF GenerationInv, GenerationType
    <3> QED BY <2>1, <2>2, <3>1, <3>2, <3>3, LeftIsLeft
  <2>5. begun <= IF Generation!Queueable THEN (1 + Generation!Retries) * (1 + faults) ELSE 1
    <3>1. CASE Generation!Queueable
      <4>1. /\ job["worker"] \in GenerationJob /\ job["worker"].retry <= Generation!Retries
            /\ job["worker"].retry \in 0..2
        BY <2>1, <2>3, <3>1 DEF GenerationType, GenerationJob, RunsAccounted
      <4>2. CASE Generation!Retries = 1
        <5>1. RunsLeft(1, job["worker"]) \in Nat
          BY <4>1, <4>2 DEF RunsLeft
        <5>2. begun + 2 * queue[0] + queue[1] + RunsLeft(1, job["worker"]) <= 2 * (1 + faults)
          BY <2>1, <3>1, <4>2 DEF RunsAccounted
        <5>3. begun <= 2 * (1 + faults)
          BY <2>2, <5>1, <5>2
        <5> QED BY <3>1, <4>2, <5>3
      <4>3. CASE Generation!Retries = 2
        <5>1. RunsLeft(2, job["worker"]) \in Nat
          BY <4>1, <4>3 DEF RunsLeft
        <5>2. begun + 3 * queue[0] + 2 * queue[1] + queue[2] + RunsLeft(2, job["worker"])
                  <= 3 * (1 + faults)
          BY <2>1, <3>1, <4>3 DEF RunsAccounted
        <5>3. begun <= 3 * (1 + faults)
          BY <2>2, <5>1, <5>2
        <5> QED BY <3>1, <4>3, <5>3
      <4> QED BY <2>2, <4>2, <4>3
    <3>2. CASE ~Generation!Queueable
      BY <2>1, <3>2 DEF RunsAccounted
    <3> QED BY <3>1, <3>2
  <2>6. generated <= begun * Generation!Media * ImageTries /\ stored <= begun * Generation!Media
    <3> DEFINE x == begun * Generation!Media
               y == x * ImageTries
    <3>1. x \in Nat
      BY <2>2
    <3> HIDE DEF x
    <3>2. y \in Nat
      BY <2>1, <3>1
    <3> HIDE DEF y
    <3>3. /\ stored + MediaLeft(Generation!Pieces, job["api"])
                    + MediaLeft(Generation!Pieces, job["worker"]) <= x
          /\ generated + CallsLeft(Generation!Pieces, job["api"])
                       + CallsLeft(Generation!Pieces, job["worker"]) <= y
      BY <2>1 DEF x, y, MediaAccounted
    <3>4. generated <= y /\ stored <= x
      BY <2>2, <2>3, <2>4, <3>1, <3>2, <3>3
    <3> QED BY <3>4 DEF x, y
  <2> QED BY <2>5, <2>6 DEF Generation!WorkIsBounded
<1> QED BY <1>1, GenerationKept, PTL

\* Who pays gets what was asked for: the charge is for a result, in full and for media that
\* are in the storage, no result of the handler is free save for holidays, a request that
\* was queued or that failed costs nothing, and a task that succeeded has stored it all.
THEOREM PaidForResult == Spec => []PaidIsDelivered
<1>1. (part = "generation" => GenerationInv) => PaidIsDelivered
  <2> SUFFICES ASSUME GenerationInv
               PROVE  Generation!PaidIsDelivered
    BY DEF PaidIsDelivered
  <2>1. /\ ChargesFit /\ charged \in Nat /\ stored \in Nat
        /\ answer \in {"none", "queued", "result", "error", "lost"}
    BY DEF GenerationInv, GenerationType
  <2>2. charged <= IF Generation!kind = "caption" THEN 1 ELSE stored
    BY <2>1 DEF ChargesFit
  <2>3. Generation!get_task_status = "success" => stored >= Generation!Needed
    BY <2>1 DEF ChargesFit, Generation!get_task_status
  <2> QED BY <2>1, <2>2, <2>3 DEF ChargesFit, Generation!PaidIsDelivered
<1> QED BY <1>1, GenerationKept, PTL
=============================================================================
