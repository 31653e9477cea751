------------------------------- MODULE WriteGate -------------------------------
(***************************************************************************)
(* The data-store lock and the pool of worker threads that the requests share. *)
(* FastAPI runs a handler, and a generator dependency such as get_write_db,    *)
(* each in a thread of one bounded pool (external).  get_write_db waits for    *)
(* the lock in such a thread, gives the thread back when it has the lock, and  *)
(* then the handler and the response model need threads: so the lock's holder *)
(* waits for the threads that those who wait for the lock occupy.  Nothing     *)
(* keeps these from taking all of them.                                       *)
(*                                                                         *)
(* A backup and a restore take the lock inside their handlers.  The scheduler *)
(* has threads of its own.  Each request is made once.                        *)
(***************************************************************************)
EXTENDS Naturals, FiniteSets

CONSTANTS
    Dependent,   \* requests that write: their session comes from get_write_db
    Direct,      \* backups and restores
    Readers,     \* requests that only read: get_db
    Jobs,        \* daily jobs
    Threads      \* the size of the pool

Locking  == Dependent \cup Direct
Requests == Locking \cup Readers
Actors   == Requests \cup Jobs

ASSUME KindsAssumption ==
    /\ Dependent \cap Direct = {} /\ Locking \cap Readers = {} /\ Requests \cap Jobs = {}
ASSUME FiniteAssumption == IsFiniteSet(Requests)
ASSUME ThreadsAssumption == Threads \in Nat \ {0}

VARIABLE
    at      \* how far each actor is

States == {"new", "queued", "waiting", "entered", "running", "returned", "answering",
           "ended", "done"}

TypeOK == at \in [Actors -> States]

Init == at = [a \in Actors |-> "new"]

\* Wrong: get_write_db keeps its thread for as long as it has the lock.
BusyToTheEnd ==
    {r \in Requests : at[r] \in {"waiting", "running", "answering"}
                        \/ (r \in Dependent /\ at[r] \notin {"new", "queued", "done"})}

\* The threads of the pool in use.
Busy == {r \in Requests : at[r] \in {"waiting", "running", "answering"}}

ThreadFree == Cardinality(Busy) < Threads

\* Wrong: get_write_db never releases the lock.
HoldsForGood(a) ==
    \/ (a \in Dependent) /\ at[a] \notin {"new", "queued", "waiting"}
    \/ a \in Direct \cup Jobs /\ at[a] = "running"

\* From the entry of get_write_db to its exit, or within the handler or the job.
Holds(a) ==
    \/ (a \in Dependent) /\ at[a] \in {"entered", "running", "returned", "answering", "ended"}
    \/ a \in Direct \cup Jobs /\ at[a] = "running"

LockFree == \A a \in Actors : ~Holds(a)

Go(a, to) == at' = [at EXCEPT ![a] = to]

-----------------------------------------------------------------------------

Arrive(a) ==
    /\ at[a] = "new"
    /\ Go(a, IF a \in Jobs THEN "waiting" ELSE "queued")

\* A thread of the pool takes the request up.
MayTakeUp(r) == at[r] = "queued" /\ ThreadFree
TakeUp(r)    == MayTakeUp(r) /\ Go(r, IF r \in Readers THEN "running" ELSE "waiting")

\* data_store_lock; __enter__ of get_write_db returns, and its thread with it.
MayAcquire(a) == at[a] = "waiting" /\ LockFree
Acquire(a)    == MayAcquire(a) /\ Go(a, IF a \in Dependent THEN "entered" ELSE "running")

\* The handler behind get_write_db gets a thread.
MayStart(r)     == at[r] = "entered" /\ ThreadFree
StartHandler(r) == MayStart(r) /\ Go(r, "running")

\* What is left when there is nothing more to answer: to leave get_write_db.
Afterwards(a) == IF a \in Dependent THEN "ended" ELSE "done"

\* The handler raises or has nothing to return, or its result has still to be validated
\* against the response model.
MayFinish(a) == at[a] = "running"
Finish(a) ==
    /\ MayFinish(a)
    /\ \/ Go(a, Afterwards(a))
       \/ a \in Requests /\ Go(a, "returned")

\* FastAPI validates the result of a handler in a thread of the pool, too.
MayAnswer(r) == at[r] = "returned" /\ ThreadFree
Answer(r)    == MayAnswer(r) /\ Go(r, "answering")

MayEnd(r) == at[r] = "answering"
End(r)    == MayEnd(r) /\ Go(r, Afterwards(r))

\* __exit__ of get_write_db commits or rolls back, closes the session and releases the
\* lock.  FastAPI gives it a thread besides the pool.
MayLeave(r) == at[r] = "ended"
Leave(r)    == MayLeave(r) /\ Go(r, "done")

Step(a) ==
    \/ TakeUp(a) \/ Acquire(a) \/ StartHandler(a) \/ Finish(a) \/ Answer(a) \/ End(a)
    \/ Leave(a)

Next == \E a \in Actors : Arrive(a) \/ Step(a)

\* Threads run, and the queue of the pool is served in order.  A lock that is free is
\* taken by one of those who wait.
Fairness == \A a \in Actors : WF_at(Step(a))

Spec == Init /\ [][Next]_at /\ Fairness

(***************************************************************************)
(* Properties                                                               *)
(***************************************************************************)
\* No two actors write at a time, and no backup or restore runs while one writes.
OneWriter == \A a, b \in Actors : Holds(a) /\ Holds(b) => a = b

\* The lock's holder needs a thread of the pool, and all wait for the lock.
ShutOut ==
    /\ \E r \in Dependent : at[r] \in {"entered", "returned"}
    /\ Cardinality({q \in Requests : at[q] = "waiting"}) >= Threads

MayStep(a) ==
    \/ MayTakeUp(a) \/ MayAcquire(a) \/ MayStart(a) \/ MayFinish(a) \/ MayAnswer(a)
    \/ MayEnd(a) \/ MayLeave(a)

\* Someone is under way and nobody can go on.
Hangs == (\E a \in Actors : at[a] \notin {"new", "done"}) /\ \A a \in Actors : ~MayStep(a)

\* The server hangs exactly when those who wait for the lock have shut its holder out of
\* the pool: neither readers nor backups, restores and jobs can bring that about.
HangsIfShutOut == Hangs <=> ShutOut

\* Once shut out, the holder stays so, whatever else arrives.
StaysShutOut == [][ShutOut => ShutOut']_at

\* Every request and every job comes to its end, unless those who wait for the lock shut
\* its holder out of the pool.
Answered == \A a \in Actors : (at[a] # "new") ~> (at[a] = "done" \/ ShutOut)
================================================================================
