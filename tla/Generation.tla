------------------------------ MODULE Generation ------------------------------
(***************************************************************************)
(* One request for captions, pictures or a video: the handlers of          *)
(* app/api/social_media.py, task_dispatcher.py, the Celery tasks of        *)
(* image_tasks.py and the loops of content_service.py over ai_client.py.   *)
(*                                                                         *)
(* A request is a sequence of pieces, made one after the other by the API  *)
(* or by a worker.  Models, storage and broker are external: a call        *)
(* succeeds or fails, and a picture may be made (and paid) behind a call   *)
(* that fails.  Prompts, sizes and the pictures themselves are abstracted. *)
(***************************************************************************)
EXTENDS Naturals, Sequences, FiniteSets

CONSTANTS MaxCount,   \* _MAX_IMAGE_VARIANTS
          ImageTries, \* _IMAGE_MAX_RETRIES
          MaxFaults   \* bound: processes that die, answers of the broker that are lost

VARIABLES
    request,   \* what was asked for: [kind, count, image, video, celery]
    answer,    \* of the handler: none, queued, result, error, lost
    job,       \* the run of the handler and the run of the worker
    queue,     \* messages of the task, by their number of retries
    status,    \* state of the task in the result backend
    stored,    \* pictures and videos in the storage
    charged,   \* media logged as usage
    generated, \* history: calls that make a picture or a video
    begun,     \* history: runs
    faults     \* faults so far

vars == <<request, answer, job, queue, status, stored, charged, generated, begun, faults>>

Places == {"api", "worker"}
Idle == [pc |-> "idle", at |-> 1, tries |-> 0, made |-> 0, retry |-> 0]
Begun == [Idle EXCEPT !.pc = "run"]

Kinds == {"caption", "holiday", "video", "images", "reference", "revise"}
Requests == [kind: Kinds, count: 1..MaxCount, image: BOOLEAN, video: BOOLEAN, celery: BOOLEAN]

kind == request.kind

(***************************************************************************)
(* What a request is made of.                                              *)
(***************************************************************************)
Pictures(n) == [k \in 1..n |-> "picture"]
Edits(n) == [k \in 1..n |-> "edit"]

\* The text comes first; picture and video are extras.
generate_holiday_content ==
    <<"text">> \o (IF request.image THEN <<"analysis", "extra picture">> ELSE <<>>)
               \o (IF request.video THEN <<"extra video">> ELSE <<>>)

\* The prompt is analysed, unless the request has its own context or prompt.
generate_images == <<"analysis">> \o Pictures(request.count)
generate_images_from_reference == <<"download", "analysis", "label">> \o Edits(request.count)
revise_image_with_feedback == <<"analysis", "download">> \o Edits(request.count)

Pieces == CASE kind = "caption"   -> <<"text">>
            [] kind = "holiday"   -> generate_holiday_content
            [] kind = "video"     -> <<"video">>
            [] kind = "images"    -> generate_images
            [] kind = "reference" -> generate_images_from_reference
            [] kind = "revise"    -> revise_image_with_feedback

Count(pieces) == Cardinality({at \in 1..Len(Pieces) : Pieces[at] \in pieces})
Needed == Count({"picture", "edit", "video"})
Media == Needed + Count({"extra picture", "extra video"})

\* max_retries of the tasks.
Retries == IF kind \in {"holiday", "video"} THEN 1 ELSE 2

\* The captions never ask for it, and generate_images_task has no output_size: delay()
\* raises, which is taken for a broker that is down.
Queueable == request.celery /\ kind \in {"holiday", "video", "reference", "revise"}

Init ==
    /\ request \in {q \in Requests : /\ q.kind \in {"caption", "holiday", "video"} => q.count = 1
                                     /\ q.kind # "holiday" => ~q.image /\ ~q.video}
    /\ answer = "none"
    /\ job = [p \in Places |-> Idle]
    /\ queue = [r \in 0..2 |-> 0]
    /\ status = "pending"
    /\ stored = 0
    /\ charged = 0
    /\ generated = 0
    /\ begun = 0
    /\ faults = 0

Fault == faults < MaxFaults /\ faults' = faults + 1

(***************************************************************************)
(* The handler: dispatch, then its own run.                                *)
(***************************************************************************)
Enqueued == queue' = [queue EXCEPT ![0] = @ + 1]
RunsHere == job' = [job EXCEPT !["api"] = Begun] /\ begun' = begun + 1

\* Queued; or run here: as configured, or behind a broker that failed, which may have
\* taken the message all the same.
dispatch ==
    /\ answer = "none" /\ job["api"] = Idle
    /\ \/ Queueable /\ Enqueued /\ answer' = "queued" /\ UNCHANGED <<job, begun, faults>>
       \/ RunsHere /\ UNCHANGED <<answer, queue, faults>>
       \/ Queueable /\ Fault /\ Enqueued /\ RunsHere /\ UNCHANGED answer
    /\ UNCHANGED <<request, status, stored, charged, generated>>

\* What a handler charges: holidays nothing, pictures len(images) or count.
Charge == CASE kind = "holiday" -> 0
            [] kind \in {"caption", "video"} -> 1
            [] OTHER -> IF job["api"].made > 0 THEN job["api"].made ELSE request.count

\* The result is there; an INSERT that fails makes it an error.
log_usage ==
    /\ job["api"].pc = "done"
    /\ \/ /\ job' = [job EXCEPT !["api"].pc = "answer"]
          /\ charged' = charged + Charge
       \/ /\ kind # "holiday"
          /\ job' = [job EXCEPT !["api"].pc = "failed"]
          /\ UNCHANGED charged
    /\ UNCHANGED <<request, answer, queue, status, stored, generated, begun, faults>>

\* What is raised is answered with 400, or left to the framework.
Answer ==
    /\ job["api"].pc \in {"answer", "failed"}
    /\ answer' = IF job["api"].pc = "answer" THEN "result" ELSE "error"
    /\ job' = [job EXCEPT !["api"] = Idle]
    /\ UNCHANGED <<request, queue, status, stored, charged, generated, begun, faults>>

(***************************************************************************)
(* The pieces of a run, wherever it runs.                                  *)
(***************************************************************************)
On(p, pieces) == job[p].pc = "run" /\ Pieces[job[p].at] \in pieces
Extra(p) == Pieces[job[p].at] \in {"extra picture", "extra video"}

Advanced(j) == IF j.at = Len(Pieces) THEN [j EXCEPT !.pc = "done", !.tries = 0]
               ELSE [j EXCEPT !.at = @ + 1, !.tries = 0]
WithPicture(j) == [j EXCEPT !.made = @ + 1]
Advances(p) == job' = [job EXCEPT ![p] = Advanced(@)]

\* Mutation: a picture that fails is left out of the list.
LeftOut(p) == Advances(p)

\* A piece that fails ends the run, whatever it has made; an extra is left out.
Raises(p) == job' = [job EXCEPT ![p] = IF Extra(p) THEN Advanced(@) ELSE [@ EXCEPT !.pc = "failed"]]

\* generate_caption, refine_caption and the text of a holiday: one call.
Write(p) ==
    /\ On(p, {"text"})
    /\ Advances(p) \/ Raises(p)
    /\ UNCHANGED <<request, answer, queue, status, stored, charged, generated, begun, faults>>

Optional(p, piece) ==
    /\ On(p, {piece})
    /\ Advances(p)
    /\ UNCHANGED <<request, answer, queue, status, stored, charged, generated, begun, faults>>

\* Without the analysis and the texts of a label the plain prompt is used.
analyze(p) == Optional(p, "analysis")
extract_label_info(p) == Optional(p, "label")

_download_image(p) ==
    /\ On(p, {"download"})
    /\ Advances(p) \/ Raises(p)
    /\ UNCHANGED <<request, answer, queue, status, stored, charged, generated, begun, faults>>

\* One call of the loop in ai_client.
generate_image(j) == {"image", "failed"} \cup (IF j.tries + 1 < ImageTries THEN {"again"} ELSE {})

\* One submission, polled for as long as its bound allows.
_fal_submit_and_wait == {"output", "failed"}

\* An output without an address is a failure.
generate_video == UNION {IF o = "output" THEN {"video", "failed"} ELSE {o} :
                             o \in _fal_submit_and_wait}

\* The local disk or R2, behind the download or the scaling.
_upload_image_bytes == {"stored", "failed"}

Call(p, outcomes) ==
    /\ generated' = generated + 1
    /\ \E made \in outcomes, kept \in _upload_image_bytes :
          CASE made = "again" -> job' = [job EXCEPT ![p].tries = @ + 1] /\ UNCHANGED stored
            [] made # "again" /\ "failed" \in {made, kept} -> Raises(p) /\ UNCHANGED stored
            [] OTHER -> /\ stored' = stored + 1
                        /\ job' = [job EXCEPT ![p] = Advanced(WithPicture(@))]
    /\ UNCHANGED <<request, answer, queue, status, charged, begun, faults>>

\* From a text, and from other pictures.
_generate_and_store(p) == On(p, {"picture", "extra picture"}) /\ Call(p, generate_image(job[p]))
_generate_openai_edit_and_store(p) == On(p, {"edit"}) /\ Call(p, generate_image(job[p]))

\* Converted for Instagram if it can be, and stored in any case.
generate_social_video(p) == On(p, {"video", "extra video"}) /\ Call(p, generate_video)

(***************************************************************************)
(* The worker: messages are acknowledged behind the run (acks_late).       *)
(***************************************************************************)
Take(r) ==
    /\ job["worker"] = Idle /\ queue[r] > 0
    /\ queue' = [queue EXCEPT ![r] = @ - 1]
    /\ job' = [job EXCEPT !["worker"] = [Begun EXCEPT !.retry = r]]
    /\ status' = "started"
    /\ begun' = begun + 1
    /\ UNCHANGED <<request, answer, stored, charged, generated, faults>>

Finish ==
    /\ job["worker"].pc = "done"
    /\ status' = "success"
    /\ job' = [job EXCEPT !["worker"] = Idle]
    /\ UNCHANGED <<request, answer, queue, stored, charged, generated, begun, faults>>

\* Mutation: the message of a retry does not count it.
RetryForFree ==
    /\ job["worker"].pc = "failed"
    /\ queue' = [queue EXCEPT ![job["worker"].retry] = @ + 1]
    /\ status' = "retry"
    /\ job' = [job EXCEPT !["worker"] = Idle]
    /\ UNCHANGED <<request, answer, stored, charged, generated, begun, faults>>

\* What a client that polls is told: without Celery there are no tasks.
get_task_status == IF request.celery THEN status ELSE "failure"

\* self.retry: a new message with one retry more, which makes everything again; behind
\* the last one the task has failed.
retry ==
    /\ job["worker"].pc = "failed"
    /\ LET r == job["worker"].retry IN
       IF r < Retries THEN queue' = [queue EXCEPT ![r + 1] = @ + 1] /\ status' = "retry"
       ELSE status' = "failure" /\ UNCHANGED queue
    /\ job' = [job EXCEPT !["worker"] = Idle]
    /\ UNCHANGED <<request, answer, stored, charged, generated, begun, faults>>

(***************************************************************************)
(* Faults.                                                                 *)
(***************************************************************************)
\* The message is delivered again; a retry may be on its way already.
WorkerDies ==
    /\ job["worker"] # Idle
    /\ Fault
    /\ LET r == job["worker"].retry
           back == [queue EXCEPT ![r] = @ + 1] IN
       \/ queue' = back /\ UNCHANGED status
       \/ /\ job["worker"].pc = "failed" /\ r < Retries
          /\ queue' = [back EXCEPT ![r + 1] = @ + 1]
          /\ status' = "retry"
    /\ job' = [job EXCEPT !["worker"] = Idle]
    /\ UNCHANGED <<request, answer, stored, charged, generated, begun>>

\* The client gets no answer, whatever is stored or charged.
ApiDies ==
    /\ job["api"] # Idle
    /\ Fault
    /\ answer' = "lost"
    /\ job' = [job EXCEPT !["api"] = Idle]
    /\ UNCHANGED <<request, queue, status, stored, charged, generated, begun>>

Next ==
    \/ dispatch \/ log_usage \/ Answer
    \/ \E p \in Places :
          \/ Write(p) \/ analyze(p) \/ extract_label_info(p) \/ _download_image(p)
          \/ _generate_and_store(p) \/ _generate_openai_edit_and_store(p)
          \/ generate_social_video(p)
    \/ \E r \in 0..2 : Take(r)
    \/ Finish \/ retry
    \/ WorkerDies \/ ApiDies

Spec == Init /\ [][Next]_vars

(***************************************************************************)
(* Properties.                                                             *)
(***************************************************************************)
\* Every variable keeps its type.
TypeOK ==
    /\ answer \in {"none", "queued", "result", "error", "lost"}
    /\ status \in {"pending", "started", "retry", "success", "failure"}
    /\ \A p \in Places : job[p].pc \in {"idle", "run", "done", "answer", "failed"}

\* The work of one request is bounded, over the tries of a picture, the retries of the
\* task and the deliveries of its messages: once in the handler unless it was queued,
\* and the retries of one message for the task and for every fault.  Each run makes as
\* many calls as its pictures have tries, and stores no medium more than once.
WorkIsBounded ==
    /\ begun <= IF Queueable THEN (1 + Retries) * (1 + faults) ELSE 1
    /\ generated <= begun * Media * ImageTries
    /\ stored <= begun * Media

\* A user pays once, behind the result, and for what is in the storage: nobody pays
\* for a request that failed or for pictures that were not made, and a result that
\* comes from the handler itself is never free, save for holidays.  A task that is
\* reported as a success has stored what was asked for.
PaidIsDelivered ==
    /\ charged <= IF kind = "caption" THEN 1 ELSE stored
    /\ charged > 0 => charged = request.count
    /\ charged > 0 /\ answer # "lost" => answer = "result" \/ job["api"].pc = "answer"
    /\ answer = "result" /\ kind # "holiday" => charged > 0
    /\ answer = "queued" => charged = 0
    /\ get_task_status = "success" => stored >= Needed
=============================================================================
