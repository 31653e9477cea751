----------------------------- MODULE WriteGateProofs -----------------------------
(***************************************************************************)
(* For any number of requests, jobs and threads: one writer at a time; the    *)
(* server hangs exactly when those who wait for the lock have shut its holder  *)
(* out of the pool; then it hangs for good; and with a thread for each request *)
(* that wants the lock it never does.                                         *)
(***************************************************************************)
EXTENDS WriteGate, FiniteSetTheorems, TLAPS

\* Only requests behind get_write_db are between its two ends, readers do not wait, and
\* jobs do without the pool.
KindsKept ==
    /\ \A a \in Actors : at[a] \in {"entered", "ended"} => a \in Dependent
    /\ \A r \in Readers : at[r] # "waiting"
    /\ \A j \in Jobs : at[j] \notin {"queued", "returned", "answering"}

PoolKept == Cardinality(Busy) <= Threads

IInv == TypeOK /\ KindsKept /\ OneWriter /\ PoolKept

\* A set of requests has a number of members, and no more than a larger one.
LEMMA Counted ==
    ASSUME NEW S, NEW T, S \subseteq T, T \subseteq Requests
    PROVE  /\ IsFiniteSet(S) /\ Cardinality(S) \in Nat /\ Cardinality(T) \in Nat
           /\ Cardinality(S) <= Cardinality(T)
           /\ S # T => Cardinality(S) < Cardinality(T)
BY FiniteAssumption, FS_Subset, FS_CardinalityType

LEMMA InitIInv == Init => IInv
<1> SUFFICES ASSUME Init PROVE IInv
  OBVIOUS
<1>1. Busy = {}
  BY DEF Init, Busy, Actors
<1>2. PoolKept
  BY <1>1, FS_EmptySet, ThreadsAssumption DEF PoolKept
<1>3. QED
  BY <1>2 DEF Init, IInv, TypeOK, KindsKept, OneWriter, Holds, States, Actors, Requests,
              Locking

\* A step that takes no thread.
LEMMA NoThreadTaken ==
    ASSUME IInv, Busy' \subseteq Busy PROVE PoolKept'
<1>1. Busy \subseteq Requests
  BY DEF Busy
<1>2. Cardinality(Busy') <= Cardinality(Busy) /\ Cardinality(Busy') \in Nat
      /\ Cardinality(Busy) \in Nat
  BY <1>1, Counted
<1>3. QED
  BY <1>2, ThreadsAssumption DEF IInv, PoolKept

\* A step that takes a free one.
LEMMA FreeThreadTaken ==
    ASSUME NEW r \in Actors, IInv, ThreadFree, Busy' \subseteq Busy \cup {r}, Busy' \subseteq Requests
    PROVE  PoolKept'
<1>1. Busy \subseteq Requests /\ IsFiniteSet(Busy) /\ Cardinality(Busy) \in Nat
  BY Counted DEF Busy
<1>2. IsFiniteSet(Busy \cup {r}) /\ Cardinality(Busy \cup {r}) <= Cardinality(Busy) + 1
      /\ Cardinality(Busy \cup {r}) \in Nat
  BY <1>1, FS_AddElement, FS_CardinalityType
<1>3. Cardinality(Busy') <= Cardinality(Busy \cup {r}) /\ Cardinality(Busy') \in Nat
  BY <1>2, FS_Subset, FS_CardinalityType
<1>4. QED
  BY <1>1, <1>2, <1>3, ThreadsAssumption DEF ThreadFree, PoolKept

LEMMA NextIInv == IInv /\ [Next]_at => IInv'
<1> SUFFICES ASSUME IInv, [Next]_at PROVE IInv'
  OBVIOUS
<1> USE DEF IInv, TypeOK, States
<1>1. CASE UNCHANGED at
  BY <1>1 DEF KindsKept, OneWriter, Holds, PoolKept, Busy
<1>2. ASSUME NEW a \in Actors, Arrive(a) PROVE IInv'
  <2>1. Busy' \subseteq Busy
    BY <1>2, KindsAssumption DEF Arrive, Go, Busy, Actors
  <2>2. QED
    BY <1>2, <2>1, NoThreadTaken, KindsAssumption
    DEF Arrive, Go, KindsKept, OneWriter, Holds, Actors, Requests, Locking
<1>3. ASSUME NEW a \in Actors, TakeUp(a) PROVE IInv'
  <2>1. Busy' \subseteq Busy \cup {a} /\ Busy' \subseteq Requests
    BY <1>3 DEF TakeUp, Go, Busy
  <2>2. PoolKept'
    BY <1>3, <2>1, FreeThreadTaken DEF TakeUp, MayTakeUp
  <2>3. QED
    BY <1>3, <2>2, KindsAssumption
    DEF TakeUp, MayTakeUp, Go, KindsKept, OneWriter, Holds, Actors, Requests, Locking
<1>4. ASSUME NEW a \in Actors, Acquire(a) PROVE IInv'
  <2>1. Busy' \subseteq Busy
    BY <1>4 DEF Acquire, MayAcquire, Go, Busy
  <2>2. QED
    BY <1>4, <2>1, NoThreadTaken DEF Acquire, MayAcquire, LockFree, Go, KindsKept, OneWriter, Holds
<1>5. ASSUME NEW a \in Actors, StartHandler(a) PROVE IInv'
  <2>1. Busy' \subseteq Busy \cup {a} /\ Busy' \subseteq Requests
    BY <1>5 DEF StartHandler, Go, Busy
  <2>2. PoolKept'
    BY <1>5, <2>1, FreeThreadTaken DEF StartHandler, MayStart
  <2>3. QED
    BY <1>5, <2>2, KindsAssumption
    DEF StartHandler, MayStart, Go, KindsKept, OneWriter, Holds, Actors, Requests, Locking
<1>6. ASSUME NEW a \in Actors, Finish(a) PROVE IInv'
  <2>1. Busy' \subseteq Busy
    <3>1. ASSUME NEW s \in {"ended", "done", "returned"}, Go(a, s) PROVE Busy' \subseteq Busy
      BY <3>1 DEF Go, Busy
    <3>2. QED
      BY <1>6, <3>1 DEF Finish, Afterwards
  <2>2. QED
    BY <1>6, <2>1, NoThreadTaken, KindsAssumption
    DEF Finish, MayFinish, Afterwards, Go, KindsKept, OneWriter, Holds, Actors, Requests, Locking
<1>7. ASSUME NEW a \in Actors, Answer(a) PROVE IInv'
  <2>1. Busy' \subseteq Busy \cup {a} /\ Busy' \subseteq Requests
    BY <1>7 DEF Answer, Go, Busy
  <2>2. PoolKept'
    BY <1>7, <2>1, FreeThreadTaken DEF Answer, MayAnswer
  <2>3. QED
    BY <1>7, <2>2, KindsAssumption
    DEF Answer, MayAnswer, Go, KindsKept, OneWriter, Holds, Actors, Requests, Locking
<1>8. ASSUME NEW a \in Actors, End(a) PROVE IInv'
  <2>1. Busy' \subseteq Busy
    BY <1>8 DEF End, MayEnd, Afterwards, Go, Busy
  <2>2. QED
    BY <1>8, <2>1, NoThreadTaken, KindsAssumption
    DEF End, MayEnd, Afterwards, Go, KindsKept, OneWriter, Holds, Actors, Requests, Locking
<1>9. ASSUME NEW a \in Actors, Leave(a) PROVE IInv'
  <2>1. Busy' \subseteq Busy
    BY <1>9 DEF Leave, MayLeave, Go, Busy
  <2>2. QED
    BY <1>9, <2>1, NoThreadTaken DEF Leave, MayLeave, Go, KindsKept, OneWriter, Holds
<1>10. QED
  BY <1>1, <1>2, <1>3, <1>4, <1>5, <1>6, <1>7, <1>8, <1>9 DEF Next, Step

\* IInv is an inductive invariant of requests and jobs that wait for data_store_lock.
THEOREM Invariance == Spec => []IInv
BY InitIInv, NextIInv, PTL DEF Spec

\* Every actor is in one of the places of its way through the lock.
THEOREM TypeCorrect == Spec => []TypeOK
BY Invariance, PTL DEF IInv

\* data_store_lock: no two actors write at a time.
THEOREM OneWriterAtATime == Spec => []OneWriter
BY Invariance, PTL DEF IInv

-----------------------------------------------------------------------------

Waiters == {q \in Requests : at[q] = "waiting"}

LEMMA BusyWaiters ==
    /\ Waiters \subseteq Busy /\ Busy \subseteq Requests
    /\ IsFiniteSet(Waiters) /\ Cardinality(Waiters) \in Nat /\ Cardinality(Busy) \in Nat
    /\ Cardinality(Waiters) <= Cardinality(Busy)
    /\ Waiters # Busy => Cardinality(Waiters) < Cardinality(Busy)
<1>1. Waiters \subseteq Busy /\ Busy \subseteq Requests
  BY DEF Waiters, Busy
<1>2. QED
  BY <1>1, Counted

\* A pool of waiters leaves no thread to anybody, and nobody runs in it.
LEMMA ShutOutHangs == ASSUME IInv, ShutOut PROVE Hangs
<1> DEFINE W == Waiters
<1>1. PICK r \in Dependent : at[r] \in {"entered", "returned"}
  BY DEF ShutOut
<1>2. r \in Actors /\ Holds(r)
  BY <1>1 DEF Actors, Requests, Locking, Holds
<1>3. Cardinality(W) >= Threads
  BY DEF ShutOut, Waiters
<1>4. ~ThreadFree
  BY <1>3, BusyWaiters, ThreadsAssumption DEF ThreadFree
<1>5. W = Busy
  BY <1>3, BusyWaiters, ThreadsAssumption DEF IInv, PoolKept
<1>6. ASSUME NEW a \in Actors PROVE ~MayStep(a)
  <2>1. ~MayTakeUp(a) /\ ~MayStart(a) /\ ~MayAnswer(a)
    BY <1>4 DEF MayTakeUp, MayStart, MayAnswer
  <2>2. ~MayAcquire(a)
    BY <1>2 DEF MayAcquire, LockFree
  <2>3. ~Holds(a) \/ a = r
    BY <1>2 DEF IInv, OneWriter
  <2>4. a \in Requests => a \notin Busy \/ at[a] = "waiting"
    BY <1>5 DEF Waiters
  <2>5. ~MayFinish(a) /\ ~MayEnd(a)
    BY <1>1, <2>3, <2>4 DEF MayFinish, MayEnd, Holds, Busy, Actors, Requests, Locking, IInv, KindsKept
  <2>6. ~MayLeave(a)
    BY <1>1, <2>3 DEF MayLeave, Holds, IInv, KindsKept
  <2>7. QED
    BY <2>1, <2>2, <2>5, <2>6 DEF MayStep
<1>7. QED
  BY <1>1, <1>2, <1>6 DEF Hangs

\* With a free thread everybody but a waiter goes on, and a waiter as well if the lock is
\* free: so there is none, the pool is full of waiters, and the lock has a holder.
LEMMA HangIsShutOut == ASSUME IInv, Hangs PROVE ShutOut
<1>1. PICK a \in Actors : at[a] \notin {"new", "done"}
  BY DEF Hangs
<1>2. \A b \in Actors : ~MayStep(b)
  BY DEF Hangs
<1>3. \A b \in Actors : at[b] \notin {"running", "answering", "ended"}
  BY <1>2 DEF MayStep, MayFinish, MayEnd, MayLeave
<1>4. ASSUME NEW b \in Actors, at[b] = "waiting" PROVE \E h \in Dependent : at[h] \in {"entered", "returned"}
  <2>1. PICK h \in Actors : Holds(h)
    BY <1>2, <1>4 DEF MayStep, MayAcquire, LockFree
  <2>2. QED
    BY <1>3, <2>1 DEF Holds
<1>5. ~ThreadFree
  <2>1. SUFFICES ASSUME ThreadFree PROVE FALSE
    OBVIOUS
  <2>2. \A b \in Actors : at[b] \notin {"queued", "entered", "returned"}
    BY <1>2, <2>1 DEF MayStep, MayTakeUp, MayStart, MayAnswer
  <2>3. at[a] = "waiting"
    BY <1>1, <1>3, <2>2 DEF IInv, TypeOK, States
  <2>4. QED
    BY <1>4, <2>2, <2>3 DEF Actors, Requests, Locking
<1>6. Busy = Waiters
  BY <1>3 DEF Busy, Waiters, Actors
<1>7. Cardinality(Waiters) >= Threads
  BY <1>5, <1>6, BusyWaiters, ThreadsAssumption DEF ThreadFree
<1>8. PICK b \in Waiters : TRUE
  BY <1>7, FS_EmptySet, ThreadsAssumption
<1>9. QED
  BY <1>4, <1>7, <1>8 DEF ShutOut, Waiters, Actors

\* The only way in which the requests, backups, restores and jobs of the server can all
\* come to a stop is that those in get_write_db, a backup or a restore who wait for the
\* lock occupy the whole pool while its holder needs a thread of it.
THEOREM OnlyShutOutHangs == Spec => []HangsIfShutOut
<1>1. IInv => HangsIfShutOut
  BY ShutOutHangs, HangIsShutOut DEF HangsIfShutOut
<1>2. QED
  BY <1>1, Invariance, PTL

\* And then it is for good: what still arrives can do nothing about it.
THEOREM ShutOutForGood == Spec => StaysShutOut
<1>1. IInv /\ [Next]_at => [ShutOut => ShutOut']_at
  <2> SUFFICES ASSUME IInv, Next, ShutOut PROVE ShutOut'
    OBVIOUS
  <2>1. \A a \in Actors : ~MayStep(a)
    BY ShutOutHangs DEF Hangs
  <2>2. PICK a \in Actors : Arrive(a)
    BY <2>1 DEF Next, Step, MayStep, TakeUp, Acquire, StartHandler, Finish, Answer, End, Leave
  <2>3. at' = [at EXCEPT ![a] = at'[a]] /\ at[a] = "new" /\ (a \in Requests => at'[a] = "queued")
    BY <2>2, KindsAssumption DEF Arrive, Go, IInv, TypeOK
  <2>4. {q \in Requests : at'[q] = "waiting"} = {q \in Requests : at[q] = "waiting"}
    BY <2>3 DEF IInv, TypeOK, Actors
  <2>5. \A r \in Dependent : at[r] \in {"entered", "returned"} => at'[r] = at[r]
    BY <2>3 DEF IInv, TypeOK, Actors, Requests, Locking
  <2>6. QED
    BY <2>4, <2>5 DEF ShutOut
<1>2. QED
  BY <1>1, Invariance, PTL DEF Spec, StaysShutOut

\* If no more requests than the pool has threads ever want the lock, the server never
\* hangs: those who wait are one fewer than those who want it.
THEOREM NoHangWithEnoughThreads == Cardinality(Locking) <= Threads => (Spec => []~Hangs)
<1> SUFFICES ASSUME Cardinality(Locking) <= Threads PROVE Spec => []~Hangs
  OBVIOUS
<1>1. IInv => ~Hangs
  <2> SUFFICES ASSUME IInv, Hangs PROVE FALSE
    OBVIOUS
  <2>1. ShutOut
    BY HangIsShutOut
  <2>2. PICK r \in Dependent : at[r] \in {"entered", "returned"}
    BY <2>1 DEF ShutOut
  <2>3. Waiters \subseteq Locking \ {r}
    BY <2>2 DEF Waiters, IInv, KindsKept, Requests
  <2>4. r \in Locking /\ Locking \subseteq Requests /\ Waiters \subseteq Locking /\ Waiters # Locking
    BY <2>2, <2>3 DEF Locking, Requests
  <2>5. Cardinality(Waiters) < Cardinality(Locking) /\ Cardinality(Waiters) \in Nat
        /\ Cardinality(Locking) \in Nat
    BY <2>4, Counted
  <2>6. QED
    BY <2>1, <2>5, ThreadsAssumption DEF ShutOut, Waiters
<1>2. QED
  BY <1>1, Invariance, PTL
================================================================================
