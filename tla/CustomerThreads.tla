---------------------------- MODULE CustomerThreads ----------------------------
(***************************************************************************)
(* A conversation with a customer: customer_interaction_service.py, the    *)
(* handlers of /customer-threads in orchestration_api.py, and the requests *)
(* for approval it makes of approval_service.py.                           *)
(*                                                                         *)
(* Threads share nothing (the hash of a request holds the thread's id), so *)
(* that one is enough.  The handlers are coroutines which block, so that   *)
(* they run one behind the other; each writes in several transactions, and *)
(* a process that dies leaves the first of them.                           *)
(***************************************************************************)
EXTENDS Naturals, Sequences

CONSTANTS MaxMessages, \* bound: messages of the thread
          MaxFaults    \* bound: processes that die

VARIABLES
    thread, \* its rows: customer_threads, customer_messages, approval_requests
    faults  \* faults so far

vars == <<thread, faults>>

\* Messages of a customer: a negative one, one that names a refund or a court, another.
Moods == {"calm", "angry", "legal"}
detect_sentiment(text) == IF text = "angry" THEN "negative" ELSE "neutral"
detect_risk_flags(text) == IF text = "legal" THEN {"legal"} ELSE {}

\* All messages, by the role they come from.  Roles "ai_draft" and "system" may be given
\* by a client too: a note.
Messages == Moods \cup {"reply", "note", "draft", "escalated", "resolved"}

Channels == {"instagram_dm", "email"}
Kinds == {"reply", "escalation"}
None == [channel |-> "none"]

Init == thread = None /\ faults = 0

-----------------------------------------------------------------------------
\* create_approval_request: nothing for what is not published by Instagram, which the name
\* of the workflow tells; none beside one that is pending.
_is_external_publish_plan(t) == t.channel = "instagram_dm"
assess_approval_need(t) == _is_external_publish_plan(t)
_proposal_hash(kind) == kind
Requested(t, kind) ==
    IF ~assess_approval_need(t) \/ t.requests[_proposal_hash(kind)] = "pending" THEN t
    ELSE [t EXCEPT !.requests[_proposal_hash(kind)] = "pending"]

\* One transaction: a message, the sentiment, the status or a request.
Written(t, write) ==
    CASE write[1] = "message"   -> [t EXCEPT !.log = Append(@, write[2])]
      [] write[1] = "sentiment" -> [t EXCEPT !.sentiment = write[2]]
      [] write[1] = "status"    -> [t EXCEPT !.status = write[2]]
      [] write[1] = "request"   -> Requested(t, write[2])

\* The first n transactions of a handler, which has three at most.
Begun(t, writes, n) ==
    CASE n = 0 -> t
      [] n = 1 -> Written(t, writes[1])
      [] n = 2 -> Written(Written(t, writes[1]), writes[2])
      [] n = 3 -> Written(Written(Written(t, writes[1]), writes[2]), writes[3])

\* The transactions of a handler, all of them, or the first ones of them.  A thread that
\* a handler left half-way is no longer whole.
Writes(t, writes) ==
    \E n \in 0..Len(writes) :
        /\ n < Len(writes) => faults < MaxFaults
        /\ faults' = IF n < Len(writes) THEN faults + 1 ELSE faults
        /\ thread' = [Begun(t, writes, n) EXCEPT !.whole = @ /\ n \in {0, Len(writes)}]

Room == thread # None /\ Len(thread.log) < MaxMessages

-----------------------------------------------------------------------------
_update_thread_from_message(text) == <<"sentiment", detect_sentiment(text)>>

\* The status is the one read before the message is written.
ingest_message(t, text) ==
    CASE text \in Moods ->
             << <<"message", text>>, _update_thread_from_message(text) >>
      [] text = "reply" /\ t.status = "awaiting_human" ->
             << <<"message", text>>, <<"status", "resolved">> >>
      [] OTHER -> << <<"message", text>> >>

\* The row of the thread comes first, in a transaction of its own.
open_thread(channel, text) ==
    /\ thread = None
    /\ LET t == [channel |-> channel, status |-> "open", sentiment |-> "neutral", log |-> <<>>,
                 requests |-> [k \in Kinds |-> "none"], whole |-> TRUE] IN
       Writes(t, ingest_message(t, text))

post_customer_message(text) ==
    /\ Room
    /\ Writes(thread, ingest_message(thread, text))

_last_customer_message(log) ==
    LET said == {i \in 1..Len(log) : log[i] \in Moods} IN
    IF said = {} THEN "none" ELSE log[CHOOSE i \in said : \A other \in said : other <= i]

\* Mutation: the draft is kept before somebody is asked.
DraftFirst ==
    << <<"message", "draft">>, <<"request", "reply">>, <<"status", "awaiting_human">> >>

\* A risky reply: the request, the status, then the draft.
Risky ==
    << <<"request", "reply">>, <<"status", "awaiting_human">>, <<"message", "draft">> >>

\* The risk is read in the message, the sentiment in the row of the thread.
draft_response ==
    /\ Room
    /\ _last_customer_message(thread.log) # "none"
    /\ Writes(thread,
              IF \/ detect_risk_flags(_last_customer_message(thread.log)) # {}
                 \/ thread.sentiment = "negative"
              THEN Risky ELSE ingest_message(thread, "draft"))

escalate ==
    /\ Room
    /\ Writes(thread, << <<"status", "escalated">>, <<"request", "escalation">>,
                         <<"message", "escalated">> >>)

mark_resolved ==
    /\ Room
    /\ thread.status # "resolved"
    /\ Writes(thread, << <<"status", "resolved">>, <<"message", "resolved">> >>)

\* The operator approves or rejects a request; the thread does not hear of it.
Decide(kind) ==
    /\ thread # None
    /\ thread.requests[kind] = "pending"
    /\ thread' = [thread EXCEPT !.requests[kind] = "answered"]
    /\ UNCHANGED faults

Next ==
    \/ \E channel \in Channels, text \in Moods : open_thread(channel, text)
    \/ \E text \in Moods \cup {"reply", "note"} : post_customer_message(text)
    \/ draft_response \/ escalate \/ mark_resolved
    \/ \E kind \in Kinds : Decide(kind)

Spec == Init /\ [][Next]_vars

-----------------------------------------------------------------------------
\* What the status is after a message, given the thread's earlier ones.
Follows(log, status, i) ==
    CASE log[i] = "draft" /\ _last_customer_message(SubSeq(log, 1, i)) \in {"angry", "legal"}
                                                      -> "awaiting_human"
      [] log[i] = "reply" /\ status = "awaiting_human" -> "resolved"
      [] log[i] \in {"escalated", "resolved"}          -> log[i]
      [] OTHER                                        -> status

StatusOf(log) ==
    LET after[i \in 0..Len(log)] == IF i = 0 THEN "open" ELSE Follows(log, after[i - 1], i) IN
    after[Len(log)]

\* The rows of a thread tell one story: unless a handler died half-way, the status is what
\* the messages make it.  And whichever transactions a crash leaves: nobody is waited for
\* without having been asked, where people are asked, and a draft that answers a message
\* with a risk in it never stands in a thread that is open as if nobody had to look.
StatusFollowsLog ==
    thread # None =>
        /\ thread.whole => thread.status = StatusOf(thread.log)
        /\ thread.status = "awaiting_human" /\ thread.channel = "instagram_dm"
               => thread.requests["reply"] # "none"
        /\ \A i \in 1..Len(thread.log) :
               /\ thread.log[i] = "draft"
               /\ _last_customer_message(SubSeq(thread.log, 1, i)) = "legal"
               => thread.status # "open"
=============================================================================
