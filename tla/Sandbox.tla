------------------------------- MODULE Sandbox -------------------------------
(***************************************************************************)
(* tool_sandbox.py, behind _fake_run of tools.py: the calls of one tool,   *)
(* each tried a few times on a pool of threads that it shares with all     *)
(* others, with a time limit per try, and a breaker.                       *)
(*                                                                         *)
(* A time limit ends the caller's wait, never the run: a run that has      *)
(* begun ends when it ends, and keeps its thread until then.  Time is      *)
(* abstracted: a limit, a window or a cool-down may pass at any moment.    *)
(***************************************************************************)
EXTENDS Naturals, FiniteSets, SequencesExt

CONSTANTS Callers,    \* threads that run tools
          Workers,    \* TOOL_SANDBOX_WORKERS
          MaxRetries, \* MAX_RETRIES
          Threshold,  \* CB_FAILURE_THRESHOLD
          MaxCalls    \* bound: calls

VARIABLES
    job,     \* where each caller is: its call, and the try it waits for
    calls,   \* calls so far
    told,    \* of each caller's last call: the answer, and what its tries did
    backlog, \* of the pool: tries in their order
    strays,  \* runs that nobody waits for any more
    breaker, \* [open, cooled, failures]
    streak   \* history: calls that failed since one succeeded

vars == <<job, calls, told, backlog, strays, breaker, streak>>

\* begun, done and late: of the tries of the call, how many ran, how many of these
\* did their work while the caller waited, and how many were given up.
Idle == [pc |-> "idle", call |-> 0, attempt |-> 0, state |-> "none",
         begun |-> 0, done |-> 0, late |-> 0]
Nothing == [answer |-> "none", begun |-> 0, done |-> 0, late |-> 0]
Closed == [open |-> FALSE, cooled |-> FALSE, failures |-> 0]

Init ==
    /\ job = [c \in Callers |-> Idle]
    /\ calls = 0
    /\ told = [c \in Callers |-> Nothing]
    /\ backlog = <<>>
    /\ strays = 0
    /\ breaker = Closed
    /\ streak = 0

At(c, pc) == job[c].pc = pc
Waits(c, state) == At(c, "wait") /\ job[c].state = state
Try(c) == [caller |-> c, call |-> job[c].call, attempt |-> job[c].attempt]

(***************************************************************************)
(* The breaker, under its lock.                                            *)
(***************************************************************************)
\* Behind the cool-down the failures are forgotten too.
_circuit_open == breaker.open /\ ~breaker.cooled

CoolDownPasses ==
    /\ breaker.open /\ ~breaker.cooled
    /\ breaker' = [breaker EXCEPT !.cooled = TRUE]
    /\ UNCHANGED <<job, calls, told, backlog, strays, streak>>

\* Of the failures before this one any may have left the window.
_record_circuit_failure ==
    \E kept \in 0..breaker.failures :
        breaker' = [breaker EXCEPT !.failures = kept + 1, !.open = @ \/ kept + 1 >= Threshold]

\* Mutation: a success closes the breaker and leaves the failures.
ClosesOnly == breaker' = [Closed EXCEPT !.failures = breaker.failures]

_record_circuit_success == breaker' = Closed

(***************************************************************************)
(* execute_in_sandbox.                                                     *)
(***************************************************************************)
Answers(c, what) ==
    /\ told' = [told EXCEPT ![c] = [answer |-> what, begun |-> job[c].begun,
                                    done |-> job[c].done, late |-> job[c].late]]
    /\ job' = [job EXCEPT ![c] = Idle]

_fake_run(c) ==
    /\ At(c, "idle")
    /\ calls < MaxCalls
    /\ calls' = calls + 1
    /\ IF _circuit_open
       THEN Answers(c, "circuit_open") /\ UNCHANGED breaker
       ELSE /\ job' = [job EXCEPT ![c] = [Idle EXCEPT !.pc = "submit", !.call = calls + 1]]
            /\ breaker' = IF breaker.open THEN Closed ELSE breaker
            /\ UNCHANGED told
    /\ UNCHANGED <<backlog, strays, streak>>

\* Behind the back-off of the try before.
Submit(c) ==
    /\ At(c, "submit")
    /\ backlog' = Append(backlog, Try(c))
    /\ job' = [job EXCEPT ![c].pc = "wait", ![c].state = "queued"]
    /\ UNCHANGED <<calls, told, strays, breaker, streak>>

Succeeds(c) ==
    /\ Waits(c, "done")
    /\ _record_circuit_success
    /\ streak' = 0
    /\ Answers(c, "success")
    /\ UNCHANGED <<calls, backlog, strays>>

\* The job of a caller whose try came to nothing.
AfterTry(j) == IF j.attempt < MaxRetries THEN [j EXCEPT !.pc = "submit", !.attempt = @ + 1]
            ELSE [j EXCEPT !.pc = "record"]

\* A try that is given up while or after it runs.
GivenUp(j) == IF j.state = "queued" THEN j ELSE [j EXCEPT !.late = @ + 1]

Fails(c) ==
    /\ Waits(c, "raised")
    /\ job' = [job EXCEPT ![c] = AfterTry(@)]
    /\ UNCHANGED <<calls, told, backlog, strays, breaker, streak>>

\* cancel() withdraws what no thread has taken yet, and nothing else.  The run may end
\* between the limit and the handler.
TimesOut(c) ==
    /\ At(c, "wait") /\ job[c].state # "raised"
    /\ IF job[c].state = "queued"
       THEN \E k \in DOMAIN backlog : backlog[k] = Try(c) /\ backlog' = RemoveAt(backlog, k)
       ELSE UNCHANGED backlog
    /\ strays' = IF job[c].state = "running" THEN strays + 1 ELSE strays
    /\ job' = [job EXCEPT ![c] = AfterTry(GivenUp(@))]
    /\ UNCHANGED <<calls, told, breaker, streak>>

RecordFailure(c) ==
    /\ At(c, "record")
    /\ _record_circuit_failure
    /\ streak' = streak + 1
    /\ Answers(c, "failed")
    /\ UNCHANGED <<calls, backlog, strays>>

(***************************************************************************)
(* The pool and the tool.                                                  *)
(***************************************************************************)
Running == {c \in Callers : Waits(c, "running")}
Room == Cardinality(Running) + strays < Workers

\* A thread takes the oldest try, whether anybody waits for it or not.
Take ==
    /\ backlog # <<>> /\ Room
    /\ backlog' = Tail(backlog)
    /\ LET c == Head(backlog).caller IN
       IF Try(c) = Head(backlog) /\ Waits(c, "queued")
       THEN job' = [job EXCEPT ![c].state = "running", ![c].begun = @ + 1] /\ UNCHANGED strays
       ELSE strays' = strays + 1 /\ UNCHANGED job
    /\ UNCHANGED <<calls, told, breaker, streak>>

_do_work(c) ==
    /\ Waits(c, "running")
    /\ \/ job' = [job EXCEPT ![c].state = "done", ![c].done = @ + 1]
       \/ job' = [job EXCEPT ![c].state = "raised"]
    /\ UNCHANGED <<calls, told, backlog, strays, breaker, streak>>

\* A run that was given up does its work all the same, sooner or later.
StrayEnds ==
    /\ strays > 0
    /\ strays' = strays - 1
    /\ UNCHANGED <<job, calls, told, backlog, breaker, streak>>

\* For TLC: callers are exchangeable, so that how many are alike is what distinguishes states.
Alike(c) == <<job[c], told[c], {k \in DOMAIN backlog : backlog[k].caller = c}>>
View == <<calls, strays, breaker, streak, [k \in DOMAIN backlog |-> [backlog[k] EXCEPT !.caller = 0]],
          {<<Alike(c), Cardinality({d \in Callers : Alike(d) = Alike(c)})>> : c \in Callers}>>

Next ==
    \/ \E c \in Callers : \/ _fake_run(c) \/ Submit(c) \/ Succeeds(c) \/ Fails(c)
                          \/ TimesOut(c) \/ RecordFailure(c) \/ _do_work(c)
    \/ CoolDownPasses \/ Take \/ StrayEnds

Spec == Init /\ [][Next]_vars

(***************************************************************************)
(* Properties.                                                             *)
(***************************************************************************)
\* Every variable keeps its type.
TypeOK ==
    /\ \A c \in Callers : /\ job[c].pc \in {"idle", "submit", "wait", "record"}
                          /\ job[c].state \in {"none", "queued", "running", "done", "raised"}
                          /\ told[c].answer \in {"none", "success", "failed", "circuit_open"}
    /\ strays \in 0..Workers
    /\ breaker.failures \in 0..MaxCalls

\* An answer tells what the tries did: work is done once behind a success and not at
\* all behind a failure, save by tries that were given up while they ran; a try that was
\* given up in the backlog never runs.  A refused call runs nothing, and calls are
\* refused only behind Threshold calls that failed with no success between them.
AnswersTellOfRuns ==
    /\ \A c \in Callers :
           LET t == told[c] IN
           /\ t.begun <= MaxRetries + 1
           /\ t.answer = "success" => t.done \in 1 .. t.late + 1
           /\ t.answer = "failed" => t.done <= t.late
           /\ t.answer = "circuit_open" => t.begun = 0
    /\ \A k \in DOMAIN backlog :
           LET c == backlog[k].caller IN Waits(c, "queued") /\ Try(c) = backlog[k]
    /\ breaker.open => streak >= Threshold
=============================================================================
