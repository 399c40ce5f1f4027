---------------------------- MODULE ConnectionPool ----------------------------
(***************************************************************************)
(* The pool of SQLite connections that the threads of one process share    *)
(* (db.py), used the three ways the services use it: with db_connection(), *)
(* which commits or rolls back and always closes; with get_db(), a         *)
(* statement, a commit and a close that an exception skips; and the way of *)
(* create_workflow, which closes in every case and never rolls back.       *)
(*                                                                         *)
(* A connection carries the transaction it was left in.  sqlite3 opens one *)
(* before an INSERT, UPDATE or DELETE and keeps it until COMMIT or         *)
(* ROLLBACK: "open" before the first write, "write" once it holds the one  *)
(* write lock of listener.db.                                              *)
(***************************************************************************)
EXTENDS Naturals, Sequences, FiniteSets

CONSTANTS Threads,   \* the threads of the process
          Size,      \* POOL_SIZE
          MaxFaults  \* bound: statements that raise for another reason than the lock

VARIABLES
    idle,     \* ConnectionPool._queue
    created,  \* ConnectionPool._created
    lock,     \* the holder of ConnectionPool._lock, or "nobody"
    txn,      \* the transaction of each connection: none, open or write
    outside,  \* another process holds the write lock of the file
    th,       \* each thread: [pc, conn]
    gone,     \* history: connections that were never given back
    faults    \* faults so far

vars == <<idle, created, lock, txn, outside, th, gone, faults>>

Conns == 1..Size
Free == [pc |-> "free", conn |-> 0]

\* What a connection is used for: execute_query, execute_write, a SELECT or a write
\* between get_db() and close(), the INSERT of create_workflow.
Uses == {"query", "write", "bareQuery", "bareWrite", "create"}
Writing == {"write", "bareWrite", "create"}
Scoped == {"query", "write"}
Bare == {"bareQuery", "bareWrite"}

Init ==
    /\ idle = <<>>
    /\ created = 0
    /\ lock = "nobody"
    /\ txn = [c \in Conns |-> "none"]
    /\ outside = FALSE
    /\ th = [t \in Threads |-> Free]
    /\ gone = {}
    /\ faults = 0

At(t, pc) == th[t].pc = pc
conn(t) == th[t].conn
Goto(t, pc) == th' = [th EXCEPT ![t].pc = pc]
Gets(t, c) == th' = [th EXCEPT ![t] = [pc |-> "run", conn |-> c]]
Ends(c) == txn' = [txn EXCEPT ![c] = "none"]
Fault == faults < MaxFaults /\ faults' = faults + 1

(***************************************************************************)
(* acquire                                                                 *)
(***************************************************************************)
\* self._queue.get_nowait(), which raises Empty.
get_nowait(t) ==
    /\ At(t, "free")
    /\ IF idle # <<>> THEN Gets(t, Head(idle)) /\ idle' = Tail(idle)
                      ELSE Goto(t, "lock") /\ UNCHANGED idle
    /\ UNCHANGED <<created, lock, txn, outside, gone, faults>>

\* with self._lock: a new connection, or a wait for one that holds on to the lock.
Locked(t) ==
    /\ At(t, "lock")
    /\ lock = "nobody"
    /\ IF created < Size
       THEN created' = created + 1 /\ Gets(t, created + 1) /\ UNCHANGED lock
       ELSE lock' = t /\ Goto(t, "wait") /\ UNCHANGED created
    /\ UNCHANGED <<idle, txn, outside, gone, faults>>

\* _create_connection raises inside the lock: no connection is counted.
ConnectFails(t) ==
    /\ At(t, "lock")
    /\ lock = "nobody" /\ created < Size
    /\ Fault
    /\ th' = [th EXCEPT ![t] = Free]
    /\ UNCHANGED <<idle, created, lock, txn, outside, gone>>

\* conn = self._queue.get(), which has no time limit, ends, and the lock is released.
Got(t) ==
    /\ At(t, "wait")
    /\ idle # <<>>
    /\ Gets(t, Head(idle))
    /\ idle' = Tail(idle)
    /\ lock' = "nobody"
    /\ UNCHANGED <<created, txn, outside, gone, faults>>

(***************************************************************************)
(* The statement.                                                          *)
(***************************************************************************)
CanWrite(c) == ~outside /\ \A d \in Conns \ {c} : txn[d] # "write"

\* It succeeds.  Readers with get_db() do not commit.
Runs(t, use) ==
    /\ At(t, "run")
    /\ IF use \in Writing
       THEN CanWrite(conn(t)) /\ txn' = [txn EXCEPT ![conn(t)] = "write"]
       ELSE UNCHANGED txn
    /\ Goto(t, IF use = "bareQuery" THEN "close" ELSE "commit")
    /\ UNCHANGED <<idle, created, lock, outside, gone, faults>>

\* IntegrityError: the partial unique index refuses the INSERT of create_workflow,
\* the transaction that was opened for it stays.
Conflicts(t) ==
    /\ At(t, "run")
    /\ CanWrite(conn(t))
    /\ txn' = [txn EXCEPT ![conn(t)] = "write"]
    /\ Goto(t, "conflict")
    /\ UNCHANGED <<idle, created, lock, outside, gone, faults>>

\* An exception of the statement.  connection() rolls back; the uses of get_db() pass
\* their conn.close(), so that the connection is collected as garbage while _created
\* goes on counting it; the finally of create_workflow only closes.
Leaves(t, use) ==
    IF use \in Bare
    THEN /\ th' = [th EXCEPT ![t] = Free]
         /\ gone' = gone \cup {conn(t)}
         /\ Ends(conn(t))
    ELSE /\ Goto(t, IF use \in Scoped THEN "rollback" ELSE "close")
         /\ txn' = IF use \in Writing /\ txn[conn(t)] = "none"
                   THEN [txn EXCEPT ![conn(t)] = "open"] ELSE txn
         /\ UNCHANGED gone

\* "database is locked": the lock did not come free within 30 s, or the transaction
\* that the connection was left in cannot write any more.
IsLocked(t, use) ==
    /\ At(t, "run")
    /\ use \in Writing
    /\ ~CanWrite(conn(t)) \/ txn[conn(t)] = "open"
    /\ Leaves(t, use)
    /\ UNCHANGED <<idle, created, lock, outside, faults>>

\* A full disk, an interrupted statement; for a reader also a table that is missing.
Raises(t, use) ==
    /\ At(t, "run")
    /\ Fault
    /\ Leaves(t, use)
    /\ UNCHANGED <<idle, created, lock, outside>>

(***************************************************************************)
(* Behind the statement.                                                   *)
(***************************************************************************)
\* Mutation: connection() does not close behind a rollback.
KeepsOnRollback(t) ==
    /\ At(t, "commit") \/ At(t, "rollback")
    /\ Ends(conn(t))
    /\ IF At(t, "commit") THEN Goto(t, "close") ELSE th' = [th EXCEPT ![t] = Free]
    /\ UNCHANGED <<idle, created, lock, outside, gone, faults>>

CommitOrRollback(t) ==
    /\ At(t, "commit") \/ At(t, "rollback")
    /\ Ends(conn(t))
    /\ Goto(t, "close")
    /\ UNCHANGED <<idle, created, lock, outside, gone, faults>>

\* _PooledConnection.close() gives the connection back once.
Releases(t) == idle' = IF At(t, "closed") THEN idle ELSE Append(idle, conn(t))

\* create_workflow closes when it lost the race, and again in its finally.
close(t) ==
    /\ At(t, "close") \/ At(t, "conflict") \/ At(t, "closed")
    /\ Releases(t)
    /\ IF At(t, "conflict") THEN Goto(t, "closed") ELSE th' = [th EXCEPT ![t] = Free]
    /\ UNCHANGED <<created, lock, txn, outside, gone, faults>>

\* External: another process begins a write transaction, and ends it.
OtherBegins ==
    /\ ~outside
    /\ \A c \in Conns : txn[c] # "write"
    /\ outside' = TRUE
    /\ UNCHANGED <<idle, created, lock, txn, th, gone, faults>>

OtherEnds ==
    /\ outside
    /\ outside' = FALSE
    /\ UNCHANGED <<idle, created, lock, txn, th, gone, faults>>

Step(t) ==
    \/ \E use \in Uses : Runs(t, use) \/ IsLocked(t, use)
    \/ Conflicts(t) \/ CommitOrRollback(t) \/ close(t)

Next ==
    \/ \E t \in Threads : get_nowait(t) \/ Locked(t) \/ Got(t) \/ ConnectFails(t) \/ Step(t)
    \/ \E t \in Threads, use \in Uses : Raises(t, use)
    \/ OtherBegins \/ OtherEnds

\* Statements end, at the latest after their 30 s; the lock and the queue serve every
\* thread that keeps waiting for them, though others may be served before it.
Fairness == \A t \in Threads : WF_vars(Step(t)) /\ SF_vars(Locked(t)) /\ SF_vars(Got(t))
Spec == Init /\ [][Next]_vars /\ Fairness

(***************************************************************************)
(* Properties.                                                             *)
(***************************************************************************)
\* A thread that waits in acquire gets its connection, though the waiting one keeps
\* the pool's lock, until every connection the pool may make is lost.
NobodyStarves ==
    \A t \in Threads : []<>(th[t].pc \notin {"lock", "wait"} \/ Cardinality(gone) = Size)
=============================================================================
