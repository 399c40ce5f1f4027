------------------------------ MODULE Documents ------------------------------
(***************************************************************************)
(* Rows of social_documents: the automation of stores in                   *)
(* app/api/social_media.py and the collections of app/api/social_data.py.  *)
(*                                                                         *)
(* The handlers run in a pool of threads.  Each is one transaction at the  *)
(* default level, READ COMMITTED: every SELECT sees what is committed when *)
(* it runs, and the payloads, written whole, go out in one flush at the    *)
(* end (autoflush is off): whoever commits last wins, row by row.  What a  *)
(* handler will write is determined by what its SELECTs have read.         *)
(***************************************************************************)
EXTENDS Naturals, FiniteSets

CONSTANTS Handlers,     \* threads of the pool
          MaxWorkflows  \* bound: workflows of the store

VARIABLES
    store,    \* status of the store
    workflow, \* status of each of its workflows
    post,     \* publishStatus of the scheduled post of each
    job,      \* what each handler will write, and the posts it has yet to read
    edited,   \* history: posts a client has written
    overtaken \* history: posts published before a rejection of their workflow read them

vars == <<store, workflow, post, job, edited, overtaken>>

Ids == 1..MaxWorkflows
Free == [what |-> "none", store |-> "kept", workflow |-> <<>>, post |-> <<>>, todo |-> {}]

Init ==
    /\ store = "none"
    /\ workflow = [w \in Ids |-> "none"]
    /\ post = [w \in Ids |-> "none"]
    /\ job = [h \in Handlers |-> Free]
    /\ edited = {}
    /\ overtaken = {}

\* A handler has read, and will write these; the posts in todo are still to be read.
Reads(h, what, st, wf, sp, todo) ==
    /\ job[h] = Free
    /\ job' = [job EXCEPT ![h] = [what |-> what, store |-> st, workflow |-> wf, post |-> sp,
                                  todo |-> todo]]
    /\ UNCHANGED <<store, workflow, post, edited, overtaken>>

\* A handler that has read all it needs.
Will(h, what, st, wf, sp) == Reads(h, what, st, wf, sp, {})

Active == {w \in Ids : workflow[w] \in {"scheduled", "running"}}
Rows(S, status) == [w \in S |-> status]
Over(S, f, rows) == [w \in S |-> IF w \in DOMAIN rows THEN rows[w] ELSE f[w]]

\* The workflows a second approval is refused for.
_active_workflows == Active

automation_store_fake_create(h) ==
    /\ store = "none"
    /\ Will(h, "create", "pending_approval", <<>>, <<>>)

\* A workflow and its post, with a caption and an image that take their time; the
\* status of the store is not looked at.
automation_store_approve(h) ==
    /\ store # "none"
    /\ _active_workflows = {}
    /\ \E w \in Ids :
          /\ workflow[w] = "none"
          /\ \A g \in Handlers : w \notin DOMAIN job[g].workflow
          /\ Will(h, "approve", "approved", Rows({w}, "scheduled"), Rows({w}, "pending"))

\* Mutation: only the workflows are cancelled.
RejectWorkflows(h) ==
    /\ store # "none"
    /\ Reads(h, "reject", "rejected", Rows(Active, "cancelled"), <<>>, {})

\* Every workflow that is not over, in one SELECT; then their posts, one by one.
automation_store_reject(h) ==
    /\ store # "none"
    /\ Reads(h, "reject", "rejected", Rows(Active, "cancelled"), <<>>, Active)

\* The workflow, which is not over; then the store; then the post.
automation_dispatch_publish(h, w) ==
    /\ w \in Active
    /\ Reads(h, "dispatch", "kept", <<>>, <<>>, {w})

\* A rejected store cancels the pair; else a workflow that is due is marked as
\* published, whoever publishes it.
ReadStore(h) ==
    /\ job[h].what = "dispatch" /\ job[h].workflow = <<>>
    /\ job' = [job EXCEPT ![h].workflow =
                 Rows(job[h].todo, IF store = "rejected" THEN "cancelled" ELSE "published")]
    /\ UNCHANGED <<store, workflow, post, edited, overtaken>>

\* With the workflow its post is cancelled, by a rejection unless it finds it published;
\* or published, if there is one.
ReadPost(h, w) ==
    /\ w \in job[h].todo /\ w \in DOMAIN job[h].workflow
    /\ LET status == IF job[h].workflow[w] = "published" THEN "published" ELSE "failed"
           skips == post[w] = "none" \/ (job[h].what = "reject" /\ post[w] = "published")
           rows == IF skips THEN <<>> ELSE Rows({w}, status)
       IN  job' = [job EXCEPT ![h] =
                     IF post[w] = "none" /\ status = "published" THEN Free
                     ELSE [job[h] EXCEPT
                              !.todo = @ \ {w},
                              !.post = Over(DOMAIN job[h].post \cup DOMAIN rows, job[h].post, rows)]]
    /\ UNCHANGED <<store, workflow, post, edited, overtaken>>

\* PUT and PATCH, with merge: the payload as it was read, with the status the client
\* sends if it sends one.  A payload without caption, picture or date is refused.
patch_document(h, w) ==
    /\ post[w] # "none"
    /\ \E status \in {post[w], "pending", "published"} :
          Will(h, "edit", "kept", <<>>, Rows({w}, status))

delete_document(h, w) ==
    /\ post[w] # "none"
    /\ Will(h, "edit", "kept", <<>>, Rows({w}, "none"))

\* Deletes the posts of a workspace, or those whose payload is incomplete.
admin_cleanup_documents(h) ==
    \E S \in SUBSET {w \in Ids : post[w] # "none"} :
        S # {} /\ Will(h, "edit", "kept", <<>>, Rows(S, "none"))

\* The only one to lock the row it reads.
claim_scheduled_post_publish(w) ==
    /\ post[w] \notin {"none", "published", "publishing", "failed"}
    /\ post' = [post EXCEPT ![w] = "publishing"]
    /\ UNCHANGED <<store, workflow, job, edited, overtaken>>

\* An UPDATE of a row that is gone ends the transaction; a DELETE does not.
Stale(h) ==
    \E w \in DOMAIN job[h].post :
        post[w] = "none" /\ job[h].post[w] # "none" /\ job[h].what # "approve"

\* Rejections that have read the workflow w, and not yet its post.
Rejecting(w) == {h \in Handlers : job[h].what = "reject" /\ w \in job[h].todo}

Commit(h) ==
    /\ job[h] # Free /\ job[h].todo = {}
    /\ ~Stale(h)
    /\ store' = IF job[h].store = "kept" THEN store ELSE job[h].store
    /\ workflow' = Over(Ids, workflow, job[h].workflow)
    /\ post' = Over(Ids, post, job[h].post)
    /\ edited' = IF job[h].what = "edit" THEN edited \cup DOMAIN job[h].post ELSE edited
    /\ overtaken' = overtaken \cup {w \in DOMAIN job[h].workflow :
                                     job[h].workflow[w] = "published" /\ Rejecting(w) # {}}
    /\ job' = [job EXCEPT ![h] = Free]

\* An exception is answered with an error, and the session is closed; a process that
\* dies answers nothing.
Rollback(h) ==
    /\ job[h] # Free
    /\ job' = [job EXCEPT ![h] = Free]
    /\ UNCHANGED <<store, workflow, post, edited, overtaken>>

\* For TLC: which handler holds a job makes no difference.
View == <<store, workflow, post, edited, overtaken \ edited,
          {<<job[h], Cardinality({g \in Handlers : job[g] = job[h]})>> : h \in Handlers}>>

Next ==
    \/ \E h \in Handlers :
          \/ automation_store_fake_create(h) \/ automation_store_approve(h)
          \/ automation_store_reject(h) \/ admin_cleanup_documents(h)
          \/ ReadStore(h) \/ Commit(h) \/ Rollback(h)
          \/ \E w \in Ids : automation_dispatch_publish(h, w) \/ ReadPost(h, w)
                            \/ patch_document(h, w) \/ delete_document(h, w)
    \/ \E w \in Ids : claim_scheduled_post_publish(w)

Spec == Init /\ [][Next]_vars

(***************************************************************************)
(* Properties.                                                             *)
(***************************************************************************)
\* Every variable keeps its type.
TypeOK ==
    /\ store \in {"none", "pending_approval", "approved", "rejected"}
    /\ \A w \in Ids : workflow[w] \in {"none", "scheduled", "cancelled", "published"}
    /\ \A w \in Ids : post[w] \in {"none", "pending", "publishing", "failed", "published"}

\* A workflow and its post tell the same story, in whatever order approvals,
\* rejections and publications read and commit: every transaction that ends a workflow
\* writes both rows.  One exception: a publication that commits while a rejection has
\* read the workflow and not yet the post stays published under a cancelled workflow,
\* whatever its policy says ("cancel_if_store_rejected_before_publish").  A client that
\* writes the post itself is on its own.
WorkflowAndPostAgree ==
    \A w \in Ids \ edited :
        /\ workflow[w] = "published" => post[w] = "published"
        /\ workflow[w] = "cancelled" => \/ post[w] = "failed"
                                        \/ post[w] = "published" /\ w \in overtaken
        /\ workflow[w] = "scheduled" => post[w] \in {"pending", "publishing"}
=============================================================================
