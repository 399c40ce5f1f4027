------------------------------ MODULE Publishing ------------------------------
(***************************************************************************)
(* One request to publish on Instagram and Facebook: the handler of        *)
(* POST /social-media/post, which serves the channels one after the other, *)
(* and publish_content_task, a Celery task which serves them in a thread   *)
(* each, over content_service.py and instagram_client.py.                  *)
(*                                                                         *)
(* The Graph API is external: a call succeeds, is refused, or takes effect *)
(* while its response is lost.  A channel is a fixed sequence of calls;    *)
(* tokens, captions and addresses are abstracted away, and with them only  *)
(* the reasons for which a channel is refused before its first call.       *)
(***************************************************************************)
EXTENDS Naturals, Sequences

CONSTANTS MaxMedia,  \* bound: images and videos of a request
          MaxFaults  \* bound: lost responses, late answers and deaths

VARIABLES
    request,  \* what was asked for: [kind, wanted, images, videos]
    phase,    \* preflight, serve, answered or dead
    job,      \* by channel: [pc, at, tries, share]
    results,  \* the channels of the dictionary results
    errors,   \* the channels of the dictionary errors
    live,     \* what each channel shows of the request
    runs,     \* history: how often the request was delivered
    unsure,   \* history: channels whose error may be untrue
    faults    \* faults so far

vars == <<request, phase, job, results, errors, live, runs, unsure, faults>>

Channels == {"instagram_post", "instagram_story", "facebook_post"}
\* The order of the if statements, and of futures_map.
Rank == [instagram_post |-> 1, instagram_story |-> 2, facebook_post |-> 3]
Todo == [pc |-> "todo", at |-> 1, tries |-> 0, share |-> TRUE]

wanted == request.wanted
Media == request.images + request.videos
Handler == request.kind = "handler"

(***************************************************************************)
(* The calls each channel is made of.                                      *)
(***************************************************************************)
Publication == <<"create", "wait", "publish">>

\* post_to_instagram and post_story_to_instagram for one medium; a batch of stories
\* is one publication after the other.
post_story_batch_to_instagram(n) == [k \in 1..3 * n |-> Publication[((k - 1) % 3) + 1]]
post_to_instagram == post_story_batch_to_instagram(1)

\* A container for each child, then the carousel, which alone is published.
post_carousel_to_instagram(n) ==
    [k \in 1..(2 * n) + 3 |-> IF k = (2 * n) + 3 THEN "publish"
                            ELSE IF k % 2 = 1 THEN "create" ELSE "wait"]

\* Unpublished photos, then the post that shows them; one photo or video is a post.
post_multi_photo_to_facebook_page(n) == [k \in 1..n + 1 |-> IF k <= n THEN "upload" ELSE "post"]
post_photo_to_facebook == post_multi_photo_to_facebook_page(0)

\* The handler publishes one video in place of all images; the task sends any two
\* media to the carousel.
Album == IF Handler THEN request.videos = 0 /\ request.images > 1 ELSE Media > 1

Calls(c) ==
    CASE c = "instagram_story" -> post_story_batch_to_instagram(Media)
      [] c = "instagram_post"  -> IF Album THEN post_carousel_to_instagram(Media)
                                  ELSE post_to_instagram
      [] c = "facebook_post"   -> IF Album THEN post_multi_photo_to_facebook_page(Media)
                                  ELSE post_photo_to_facebook

\* What a channel shows when it was served once.
Pieces(c) == IF c = "instagram_story" THEN Media ELSE 1

\* Two videos do not fit one post, nor a video a carousel.
Impossible(c) ==
    c # "instagram_story" /\ IF Handler THEN request.videos > 1
                             ELSE Media > 1 /\ request.videos > 0

Reel(c) == c = "instagram_post" /\ request.videos = 1 /\ ~Album

Requests == [kind: {"handler", "task"}, wanted: SUBSET Channels,
             images: 0..MaxMedia, videos: 0..MaxMedia]

Init ==
    /\ request \in {q \in Requests : q.images + q.videos \in 1..MaxMedia}
    /\ phase = "preflight"
    /\ job = [c \in Channels |-> Todo]
    /\ results = {}
    /\ errors = {}
    /\ live = [c \in Channels |-> 0]
    /\ runs = 1
    /\ unsure = {}
    /\ faults = 0

Fault == faults < MaxFaults /\ faults' = faults + 1

(***************************************************************************)
(* The request: preflight, the channels in their order, the answer.        *)
(***************************************************************************)
\* preflight_publish_image_urls_for_graph: a bad address ends it before any call.
Preflight ==
    /\ phase = "preflight"
    /\ phase' \in {"serve", "answered"}
    /\ UNCHANGED <<request, job, results, errors, live, runs, unsure, faults>>

Collected == results \cup errors
IsNext(c) == c \in wanted \ Collected /\ \A d \in wanted \ Collected : Rank[c] <= Rank[d]

\* The handler calls the channel's function, the task has submitted it to a thread.
Start(c) ==
    /\ phase = "serve"
    /\ c \in wanted /\ job[c].pc = "todo"
    /\ Handler => IsNext(c)
    /\ job' = [job EXCEPT ![c].pc = IF Impossible(c) THEN "failed" ELSE "running"]
    /\ UNCHANGED <<request, phase, results, errors, live, runs, unsure, faults>>

\* results[key] = ..., or errors[key] = str(exc)
Collect(c) ==
    /\ phase = "serve" /\ IsNext(c)
    /\ \/ job[c].pc = "done" /\ results' = results \cup {c} /\ UNCHANGED errors
       \/ job[c].pc = "failed" /\ errors' = errors \cup {c} /\ UNCHANGED results
    /\ UNCHANGED <<request, phase, job, live, runs, unsure, faults>>

\* future.result(timeout=120) raises in the task; the thread goes on all the same.
CollectTimesOut(c) ==
    /\ phase = "serve" /\ IsNext(c)
    /\ ~Handler
    /\ job[c].pc = "running"
    /\ Fault
    /\ errors' = errors \cup {c}
    /\ unsure' = unsure \cup {c}
    /\ UNCHANGED <<request, phase, job, results, live, runs>>

\* The return: the executor's exit waits for threads that are still busy.
Answer ==
    /\ phase = "serve"
    /\ wanted \subseteq Collected
    /\ \A c \in wanted : job[c].pc \in {"done", "failed"}
    /\ phase' = "answered"
    /\ UNCHANGED <<request, job, results, errors, live, runs, unsure, faults>>

success == results # {} /\ errors = {}

(***************************************************************************)
(* One call of a channel.                                                  *)
(***************************************************************************)
Calling(c, call) == phase = "serve" /\ job[c].pc = "running" /\ Calls(c)[job[c].at] = call

Advanced(c) ==
    IF job[c].at = Len(Calls(c)) THEN [job[c] EXCEPT !.pc = "done"]
    ELSE [job[c] EXCEPT !.at = @ + 1, !.tries = 0]
Failed(c) == [job[c] EXCEPT !.pc = "failed"]
Becomes(c, next) == job' = [job EXCEPT ![c] = next]

\* Mutation: a story batch that breaks off reports the stories it has.
FailsShort(c) == Becomes(c, IF job[c].at > 3 /\ c = "instagram_story"
                            THEN [job[c] EXCEPT !.pc = "done"] ELSE Failed(c))

\* The exception leaves the channel's function.  Stories already shown stay, though
\* their ids go with the batch.
Fails(c) == Becomes(c, Failed(c))

\* A container or an unpublished photo: nothing anybody sees.  Checks of the media,
\* the token and the accounts before the first call fail here too.
Prepare(c) ==
    /\ Calling(c, "create") \/ Calling(c, "upload")
    /\ Becomes(c, Advanced(c)) \/ Fails(c)
    /\ UNCHANGED <<request, phase, results, errors, live, runs, unsure, faults>>

\* A Reels container in ERROR is created once more, not shared to the feed.
NotShared(c) == [job[c] EXCEPT !.at = @ - 1, !.tries = 0, !.share = FALSE]

\* A poll: finished; in error, once ignored; in error for good; expired, refused or
\* out of time.  In progress changes nothing.
wait_for_media_container_ready(c) ==
    /\ Calling(c, "wait")
    /\ \/ Becomes(c, Advanced(c))
       \/ job[c].tries = 0 /\ Becomes(c, [job[c] EXCEPT !.tries = 1])
       \/ IF Reel(c) /\ job[c].share THEN Becomes(c, NotShared(c)) ELSE Fails(c)
       \/ Fails(c)
    /\ UNCHANGED <<request, phase, results, errors, live, runs, unsure, faults>>

Shows(c) == live' = [live EXCEPT ![c] = @ + 1]

\* Mutation: any failure of the first attempt is tried again, a lost response too.
RetriesAll(c) ==
    /\ Calling(c, "publish")
    /\ \/ Shows(c) /\ Becomes(c, Advanced(c)) /\ UNCHANGED <<unsure, faults>>
       \/ /\ Shows(c) /\ Fault
          /\ job[c].tries = 0 /\ Becomes(c, [job[c] EXCEPT !.tries = 1])
          /\ UNCHANGED unsure
       \/ Fails(c) /\ UNCHANGED <<live, unsure, faults>>
    /\ UNCHANGED <<request, phase, results, errors, runs>>

\* media_publish: tried again once, when Graph says that the medium is not ready
\* (9007), and never when the response is lost.
publish_media(c) ==
    /\ Calling(c, "publish")
    /\ \/ Shows(c) /\ Becomes(c, Advanced(c)) /\ UNCHANGED <<unsure, faults>>
       \/ /\ job[c].tries = 0 /\ Becomes(c, [job[c] EXCEPT !.tries = 1])
          /\ UNCHANGED <<live, unsure, faults>>
       \/ Fails(c) /\ UNCHANGED <<live, unsure, faults>>
       \/ Shows(c) /\ Fault /\ Fails(c) /\ unsure' = unsure \cup {c}
    /\ UNCHANGED <<request, phase, results, errors, runs>>

\* /photos, /videos or /feed of a page: one attempt.
PostToPage(c) ==
    /\ Calling(c, "post")
    /\ \/ Shows(c) /\ Becomes(c, Advanced(c)) /\ UNCHANGED <<unsure, faults>>
       \/ Fails(c) /\ UNCHANGED <<live, unsure, faults>>
       \/ Shows(c) /\ Fault /\ Fails(c) /\ unsure' = unsure \cup {c}
    /\ UNCHANGED <<request, phase, results, errors, runs>>

(***************************************************************************)
(* The process dies.                                                       *)
(***************************************************************************)
\* The handler's request is gone; nobody answers it.
HandlerDies ==
    /\ Handler /\ phase = "serve"
    /\ Fault
    /\ phase' = "dead"
    /\ UNCHANGED <<request, job, results, errors, live, runs, unsure>>

\* The task was not acknowledged yet (task_acks_late): the broker delivers it again,
\* and it starts over whatever is live already.
WorkerDies ==
    /\ ~Handler /\ phase = "serve"
    /\ Fault
    /\ phase' = "preflight"
    /\ job' = [c \in Channels |-> Todo]
    /\ results' = {}
    /\ errors' = {}
    /\ runs' = runs + 1
    /\ unsure' = {c \in Channels : live[c] > 0}
    /\ UNCHANGED <<request, live>>

Step ==
    \/ Preflight \/ Answer
    \/ \E c \in Channels : Start(c) \/ Collect(c)

ChannelStep(c) ==
    Prepare(c) \/ wait_for_media_container_ready(c) \/ publish_media(c) \/ PostToPage(c)

Next ==
    \/ Step
    \/ \E c \in Channels : ChannelStep(c) \/ CollectTimesOut(c)
    \/ HandlerDies \/ WorkerDies

Spec == Init /\ [][Next]_vars

(***************************************************************************)
(* Properties.                                                             *)
(***************************************************************************)
\* Nothing is published twice in one delivery of a request: neither the second
\* attempt of publish_media nor the second Reels container shows anything again.
NothingTwice == \A c \in Channels : live[c] <= runs * Pieces(c)

\* The answer tells the truth: what it calls published is live in full, success means
\* all that was wanted, and behind an error nothing is live, unless a response was
\* lost or late, a worker died, or a batch of stories broke off in between.
AnswersHold ==
    phase = "answered" =>
        /\ \A c \in results : live[c] >= Pieces(c)
        /\ success => results = wanted
        /\ \A c \in errors \ unsure :
              live[c] = 0 \/ (c = "instagram_story" /\ live[c] < Pieces(c))
=============================================================================
