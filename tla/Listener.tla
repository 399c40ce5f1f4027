------------------------------- MODULE Listener -------------------------------
(***************************************************************************)
(* The listener process (listener.py) on the platform's timeline: the      *)
(* polling loop with its cursor, the pool of worker threads, and what a    *)
(* thread does with an event (event_router.py, resource_service.py,        *)
(* timeline_processing.py).  The rules and planners an event starts are    *)
(* counted in acted; what they do is the subject of the other modules.     *)
(***************************************************************************)
EXTENDS Platform

CONSTANTS Threads,     \* the pool's threads (LISTENER_WORKERS)
          BatchLimit,  \* the limit of fetch_events
          MaxFaults    \* bound: faults of the listener and of the callers

ASSUME ListenerAssumption ==
    /\ IsFiniteSet(Threads) /\ BatchLimit \in Nat \ {0} /\ MaxFaults \in Nat

VARIABLES
    cursor,   \* listener_state.last_cursor
    loop,     \* where main() stands: poll, submit, advance, drain
    batch,    \* the events of this poll not submitted yet
    queue,    \* the executor's queue
    th,       \* what each thread does
    meta,     \* what update_event_processing_meta wrote for each event
    mirror,   \* the row of items in listener.db: [status, stock]
    acted,    \* how many times the rules and planners ran for each event
    lost,     \* history: events behind the cursor whose outcome nobody will write
    again,    \* history: how many times an event was left to be submitted again
    excused,  \* history: the mirror may lag, through a fault or two threads at once
    faults    \* faults so far

listenerVars == <<cursor, loop, batch, queue, th, meta, mirror, acted, lost, again,
                  excused, faults>>
vars == <<platformVars, listenerVars>>

Ids == 1..MaxEvents
Free == [pc |-> "free"]

Init ==
    /\ PlatformInit
    /\ cursor = 0
    /\ loop = "poll"
    /\ batch = <<>>
    /\ queue = <<>>
    /\ th = [t \in Threads |-> Free]
    /\ meta = [i \in Ids |-> "pending"]
    /\ mirror = [status |-> "none", stock |-> 0]
    /\ acted = [i \in Ids |-> 0]
    /\ lost = {}
    /\ again = 0
    /\ excused = FALSE
    /\ faults = 0

Elems(seq) == {seq[k] : k \in DOMAIN seq}
Busy == {t \in Threads : th[t] # Free}
InHand == {th[t].ev : t \in Busy}
Fault == faults < MaxFaults /\ faults' = faults + 1
NoFault == UNCHANGED faults

(***************************************************************************)
(* main(): poll, submit each event to the pool, move the cursor behind it. *)
(***************************************************************************)
\* Mutation: WHERE id >= ?.
FetchFromCursor(after) ==
    LET from == IF after = 0 THEN 0 ELSE after - 1
    IN  [k \in 1..(Len(timeline) - from) |-> from + k]

\* SELECT * FROM timeline WHERE id > ? ORDER BY id ASC LIMIT ?
fetch_events(after) ==
    LET last == IF after + BatchLimit < Len(timeline) THEN after + BatchLimit ELSE Len(timeline)
    IN  [k \in 1..(last - after) |-> after + k]

Poll ==
    /\ loop = "poll"
    /\ fetch_events(cursor) # <<>>
    /\ batch' = fetch_events(cursor)
    /\ loop' = "submit"
    /\ UNCHANGED <<platformVars, cursor, queue, th, meta, mirror, acted, lost, again,
                   excused, faults>>

Submit ==
    /\ loop = "submit"
    /\ queue' = Append(queue, Head(batch))
    /\ loop' = "advance"
    /\ UNCHANGED <<platformVars, cursor, batch, th, meta, mirror, acted, lost, again,
                   excused, faults>>

\* Mutation: the cursor moves to the end of the batch with its first event.
AdvanceToEnd ==
    /\ loop = "advance"
    /\ cursor' = batch[Len(batch)]
    /\ batch' = <<>>
    /\ loop' = "poll"
    /\ UNCHANGED <<platformVars, queue, th, meta, mirror, acted, lost, again, excused, faults>>

set_cursor ==
    /\ loop = "advance"
    /\ cursor' = Head(batch)
    /\ batch' = Tail(batch)
    /\ loop' = IF Len(batch) = 1 THEN "poll" ELSE "submit"
    /\ UNCHANGED <<platformVars, queue, th, meta, mirror, acted, lost, again, excused, faults>>

\* set_cursor raises: the loop's handler waits and polls again, from the old cursor.
AdvanceFails ==
    /\ loop = "advance"
    /\ Fault
    /\ batch' = <<>>
    /\ loop' = "poll"
    /\ again' = again + 1
    /\ excused' = TRUE   \* the event may run next to itself
    /\ UNCHANGED <<platformVars, cursor, queue, th, meta, mirror, acted, lost>>

\* KeyboardInterrupt, anywhere in the loop: the pool drains and the process ends.
Interrupt ==
    /\ loop # "drain"
    /\ Fault
    /\ batch' = <<>>
    /\ loop' = "drain"
    /\ again' = IF loop = "advance" THEN again + 1 ELSE again
    /\ UNCHANGED <<platformVars, cursor, queue, th, meta, mirror, acted, lost, excused>>

Restart ==
    /\ loop = "drain"
    /\ queue = <<>>
    /\ Busy = {}
    /\ loop' = "poll"
    /\ UNCHANGED <<platformVars, cursor, batch, queue, th, meta, mirror, acted, lost, again,
                   excused, faults>>

\* The process dies with its queue and its threads; supervisord starts it again.
Crash ==
    /\ Fault
    /\ lost' = lost \cup {i \in Elems(queue) \cup InHand : i <= cursor}
    /\ again' = IF loop = "advance" THEN again + 1 ELSE again
    /\ excused' = TRUE
    /\ loop' = "poll"
    /\ batch' = <<>>
    /\ queue' = <<>>
    /\ th' = [t \in Threads |-> Free]
    /\ UNCHANGED <<platformVars, cursor, meta, mirror, acted>>

(***************************************************************************)
(* A thread: _safe_process(event).                                         *)
(***************************************************************************)
ev(t) == timeline[th[t].ev]
Goto(t, pc) == th' = [th EXCEPT ![t] = [@ EXCEPT !.pc = pc]]

\* is_synthetic, or no subject to act on: process_event only writes the meta data.
Skipped(e) == e.source # "fake_platform" \/ e.subject = "None"

\* route_event, for the events of the platform.  "critical" events see rules only.
route_event(e) ==
    CASE e.name \in {"order.created", "stock.updated", "item.deleted"} -> "critical"
      [] e.name \in {"product.updated", "review.negative", "customer.created",
                     "store.created"} -> "creative"
      [] e.name = "sales.updated" -> "analytical"
      [] OTHER -> "hybrid"

Take(t) ==
    /\ th[t] = Free
    /\ queue # <<>>
    /\ LET i == Head(queue)
           e == timeline[i]
       IN  /\ th' = [th EXCEPT ![t] =
                       [pc |-> CASE Skipped(e) -> "meta"
                                 [] ~Skipped(e) /\ e.subject = "Item" -> "fetch"
                                 [] OTHER -> "act",
                        ev |-> i, row |-> Gone,
                        outcome |-> IF Skipped(e) THEN "skipped" ELSE route_event(e)]]
           /\ excused' = (excused \/ (e.subject = "Item"
                                       /\ \E u \in Busy : ev(u).subject = "Item"))
    /\ queue' = Tail(queue)
    /\ UNCHANGED <<platformVars, cursor, loop, batch, meta, mirror, acted, lost, again, faults>>

\* fetch_item: GET /resources/items/<id>, nothing on 404.
fetch_item(t) ==
    /\ th[t].pc = "fetch"
    /\ th' = [th EXCEPT ![t] = [@ EXCEPT !.pc = "upsert", !.row = item]]
    /\ UNCHANGED <<platformVars, cursor, loop, batch, queue, meta, mirror, acted, lost, again,
                   excused, faults>>

\* if item: INSERT OR REPLACE INTO items.  The status is "active" again.
upsert_item(t) ==
    /\ th[t].pc = "upsert"
    /\ mirror' = IF th[t].row.live
                 THEN [status |-> "active", stock |-> th[t].row.stock] ELSE mirror
    /\ th' = [th EXCEPT ![t] =
                  [@ EXCEPT !.pc = IF ev(t).name = "item.deleted" THEN "mark" ELSE "act",
                            !.row = Gone]]
    /\ UNCHANGED <<platformVars, cursor, loop, batch, queue, meta, acted, lost, again,
                   excused, faults>>

\* Mutation: the deletion is marked only when the item could still be fetched.
MarkFetched(t) ==
    /\ th[t].pc = "mark"
    /\ mirror' = IF th[t].row.live THEN [mirror EXCEPT !.status = "deleted"] ELSE mirror
    /\ Goto(t, "act")
    /\ UNCHANGED <<platformVars, cursor, loop, batch, queue, meta, acted, lost, again,
                   excused, faults>>

\* UPDATE items SET status='deleted' WHERE id=?
mark_item_status(t) ==
    /\ th[t].pc = "mark"
    /\ mirror' = IF mirror.status = "none" THEN mirror ELSE [mirror EXCEPT !.status = "deleted"]
    /\ Goto(t, "act")
    /\ UNCHANGED <<platformVars, cursor, loop, batch, queue, meta, acted, lost, again,
                   excused, faults>>

\* Structured rules, then the critical, monitoring or autonomous path.
Act(t) ==
    /\ th[t].pc = "act"
    /\ acted' = [acted EXCEPT ![th[t].ev] = @ + 1]
    /\ Goto(t, "meta")
    /\ UNCHANGED <<platformVars, cursor, loop, batch, queue, meta, mirror, lost, again,
                   excused, faults>>

\* A fetch, a rule or a planner raises: _safe_process notes the error instead.
\* What the rules had done stays done, and nobody processes the event again.
Raise(t) ==
    /\ th[t].pc \in {"fetch", "upsert", "mark", "act"}
    /\ Fault
    /\ th' = [th EXCEPT ![t] = [@ EXCEPT !.pc = "meta", !.outcome = "error"]]
    /\ acted' \in {acted, [acted EXCEPT ![th[t].ev] =
                              IF th[t].pc = "act" THEN @ + 1 ELSE @]}
    /\ excused' = TRUE
    /\ UNCHANGED <<platformVars, cursor, loop, batch, queue, meta, mirror, lost, again>>

\* Mutation: an outcome that cannot be written is dropped.
DropOutcome(t) ==
    /\ th[t].pc = "meta"
    /\ Fault
    /\ th' = [th EXCEPT ![t] = Free]
    /\ UNCHANGED <<platformVars, cursor, loop, batch, queue, meta, mirror, acted, lost, again,
                   excused>>

update_event_processing_meta(t) ==
    /\ th[t].pc = "meta"
    /\ meta' = [meta EXCEPT ![th[t].ev] = th[t].outcome]
    /\ th' = [th EXCEPT ![t] = Free]
    /\ UNCHANGED <<platformVars, cursor, loop, batch, queue, mirror, acted, lost, again,
                   excused, faults>>

\* The meta data cannot be written: once more as an error, then the event is given up.
MetaFails(t) ==
    /\ th[t].pc = "meta"
    /\ \/ /\ th[t].outcome # "error"
          /\ Fault
          /\ th' = [th EXCEPT ![t] = [@ EXCEPT !.outcome = "error"]]
          /\ UNCHANGED lost
       \/ /\ th[t].outcome = "error"
          /\ NoFault   \* the database is still out of reach
          /\ th' = [th EXCEPT ![t] = Free]
          /\ lost' = lost \cup {th[t].ev}
    /\ UNCHANGED <<platformVars, cursor, loop, batch, queue, meta, mirror, acted, again,
                   excused>>

(***************************************************************************)
(* The two processes side by side.                                         *)
(***************************************************************************)
CallerStep(c) ==
    /\ create_order(c) \/ Update(c) \/ Commit(c) \/ emit_timeline_event(c)
    /\ UNCHANGED listenerVars

PlatformStep ==
    \/ \E c \in Callers : CallerStep(c)
    \/ (Insert \/ Delete) /\ UNCHANGED listenerVars

\* After its commit the event of a caller that dies is missing: the mirror lags.
CallerFails(c) ==
    /\ CallerDies(c)
    /\ Fault
    /\ excused' = TRUE
    /\ UNCHANGED <<cursor, loop, batch, queue, th, meta, mirror, acted, lost, again>>

MainStep == Poll \/ Submit \/ set_cursor \/ Restart
ThreadStep(t) == Take(t) \/ fetch_item(t) \/ upsert_item(t) \/ mark_item_status(t) \/ Act(t)
                 \/ update_event_processing_meta(t)
ListenerFault == AdvanceFails \/ Interrupt \/ Crash \/ \E t \in Threads : Raise(t) \/ MetaFails(t)

Next ==
    \/ PlatformStep
    \/ \E c \in Callers : CallerFails(c)
    \/ MainStep
    \/ \E t \in Threads : ThreadStep(t)
    \/ ListenerFault

\* The loop and the threads run for ever; a restarted process goes on.  Nothing is
\* assumed of the platform: its callers may stop between two transactions.
Fairness == WF_vars(MainStep) /\ \A t \in Threads : WF_vars(ThreadStep(t))
Spec == Init /\ [][Next]_vars /\ Fairness

(***************************************************************************)
(* Properties.                                                             *)
(***************************************************************************)
\* Every variable keeps its type, whatever happens to the processes.
TypeOK ==
    /\ item \in [live : BOOLEAN, stock : Int, sales : Int]
    /\ cursor \in 0..Len(timeline)
    /\ loop \in {"poll", "submit", "advance", "drain"}
    /\ Elems(batch) \subseteq 1..Len(timeline) /\ Elems(queue) \subseteq 1..Len(timeline)
    /\ InHand \subseteq 1..Len(timeline)
    /\ loop \in {"submit", "advance"} <=> batch # <<>>
    /\ mirror.status \in {"none", "active", "deleted"}
    /\ acted \in [Ids -> Nat] /\ lost \subseteq Ids

\* No event is skipped: behind the cursor every event has its outcome, or waits in
\* the pool, or was in the pool of a process that died (listener.py moves the cursor
\* when an event is submitted, not when it is processed).
NothingSkipped ==
    \A i \in 1..cursor : meta[i] # "pending" \/ i \in Elems(queue) \cup InHand \cup lost

\* The rules and planners run once for an event, plus once for every time the loop
\* was stopped between submitting it and moving the cursor; the echoes of tools run
\* none, however often they are read (no tool can trigger itself).
ActsOnce ==
    \A i \in 1..Len(timeline) :
        acted[i] <= IF Skipped(timeline[i]) THEN 0 ELSE 1 + again

\* When everything is still, listener.db shows the item as the platform has it: the
\* order of commit and event, of fetch and upsert, of upsert and mark leaves nothing
\* behind, unless two threads worked on the item at once or a step failed.
Still ==
    /\ \A c \in Callers : call[c] = Idle
    /\ loop = "poll" /\ cursor = Len(timeline) /\ queue = <<>> /\ Busy = {}
Mentioned == \E i \in 1..Len(timeline) : timeline[i].name \in {"stock.updated", "product.updated"}
MirrorAgrees ==
    Still /\ ~excused =>
        IF item.live THEN Mentioned => mirror = [status |-> "active", stock |-> item.stock]
                     ELSE mirror.status # "active"

\* The listener catches up again and again: every event of the timeline is answered
\* in its meta data, unless the pool it waited in died or its outcome could not be
\* written twice.
EveryEventAnswered ==
    []<>(\A i \in 1..Len(timeline) : meta[i] # "pending" \/ i \in lost)
=============================================================================
