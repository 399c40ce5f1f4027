---------------------------- MODULE BoundedRetries ----------------------------
(***************************************************************************)
(* What a queue of work with retries promises whoever puts work into it:   *)
(* an item is attempted a bounded number of times, one attempt after the   *)
(* other; it is given up only when all attempts are used; and however it   *)
(* ends, it has ended for good.  An attempt that was cut off may stay      *)
(* "running", which the promise does not exclude.                          *)
(***************************************************************************)
EXTENDS Naturals

CONSTANTS Items,       \* what may be submitted
          MaxAttempts  \* how often an item may be attempted

VARIABLES phase,  \* absent, ready, running, done, dropped or "given up"
          tries   \* attempts begun

vars == <<phase, tries>>

Init ==
    /\ phase = [i \in Items |-> "absent"]
    /\ tries = [i \in Items |-> 0]

Move(i, from, to) ==
    /\ phase[i] = from
    /\ phase' = [phase EXCEPT ![i] = to]

Submit(i)  == Move(i, "absent", "ready") /\ UNCHANGED tries

Attempt(i) ==
    /\ tries[i] < MaxAttempts
    /\ Move(i, "ready", "running")
    /\ tries' = [tries EXCEPT ![i] = @ + 1]

Retry(i)   == tries[i] < MaxAttempts /\ Move(i, "running", "ready") /\ UNCHANGED tries
Succeed(i) == Move(i, "running", "done") /\ UNCHANGED tries
Drop(i)    == Move(i, "running", "dropped") /\ UNCHANGED tries
GiveUp(i)  == tries[i] = MaxAttempts /\ Move(i, "running", "given up") /\ UNCHANGED tries

Next == \E i \in Items :
            Submit(i) \/ Attempt(i) \/ Retry(i) \/ Succeed(i) \/ Drop(i) \/ GiveUp(i)

Spec == Init /\ [][Next]_vars
=============================================================================
