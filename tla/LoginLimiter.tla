---------------------------- MODULE LoginLimiter ----------------------------
(***************************************************************************)
(* The limit on failed logins per client address (LoginRateLimiter).        *)
(*                                                                         *)
(* Logins run in the threads of the request pool.  Each reads the clock,    *)
(* waits for the limiter's lock, reserves an attempt, checks the password   *)
(* without the lock, and settles the reservation.  Instead of the clock the *)
(* model keeps ages, counted from the present: the age of a failure, and    *)
(* how long ago a waiting thread read the clock.                            *)
(***************************************************************************)
EXTENDS Integers, Sequences, FiniteSets

CONSTANTS
    Clients,   \* client addresses
    Threads,   \* the threads that serve requests
    Limit,     \* LOGIN_ATTEMPT_LIMIT
    Window,    \* LOGIN_ATTEMPT_WINDOW_SECONDS
    MaxWait    \* bound: how long a thread may wait for the limiter's lock

ASSUME LimiterAssumption == Limit \in Nat /\ Window \in Nat \ {0} /\ MaxWait \in Nat
ASSUME ThreadsAssumption == IsFiniteSet(Threads)

VARIABLES
    failures,  \* the ages of the recorded failures of a client, oldest first
    pending,   \* the number of its reserved attempts
    threads,   \* what each thread does
    guesses    \* history: the ages of all failed guesses since the last success

vars == <<failures, pending, threads, guesses>>

\* Ages above MaxAge are expired for every thread, and are not told apart.
MaxAge == Window + MaxWait
Ages == 0 .. MaxAge

Idle == [at |-> "idle"]

Jobs == {Idle} \cup [at : {"waiting"}, client : Clients, waited : 0 .. MaxWait]
               \cup [at : {"checking"}, client : Clients]

TypeOK ==
    /\ failures \in [Clients -> Seq(Ages)]
    /\ pending \in [Clients -> 0 .. Limit]
    /\ threads \in [Threads -> Jobs]
    /\ guesses \in [Clients -> Seq(Ages)]

Init ==
    /\ failures = [c \in Clients |-> <<>>]
    /\ pending = [c \in Clients |-> 0]
    /\ threads = [t \in Threads |-> Idle]
    /\ guesses = [c \in Clients |-> <<>>]

Waiting(t) == threads[t].at = "waiting"
Checking(t, c) == threads[t].at = "checking" /\ threads[t].client = c

-----------------------------------------------------------------------------
(* POST /api/auth/login                                                      *)

\* try_acquire reads the clock before it takes the lock.
ReadClock(t, c) ==
    /\ threads[t] = Idle
    /\ threads' = [threads EXCEPT ![t] = [at |-> "waiting", client |-> c, waited |-> 0]]
    /\ UNCHANGED <<failures, pending, guesses>>

\* The ages without the leading ones that reach the limit.
DropOld(ages, old) ==
    LET first == CHOOSE i \in 1 .. Len(ages) + 1 :
                    /\ \A j \in 1 .. i - 1 : ages[j] >= old
                    /\ i <= Len(ages) => ages[i] < old
    IN  SubSeq(ages, first, Len(ages))

\* Wrong: a failure that is exactly one window old still counts.
KeptTooLong(f, waited) == DropOld(f, Window + waited + 1)

Kept(f, waited) == DropOld(f, Window + waited)

\* Wrong: only recorded failures count.
MayTryIgnoringPending(c, kept) == Len(kept) < Limit

MayTry(c, kept) == Len(kept) + pending[c] < Limit

Reserve(t) ==
    /\ Waiting(t)
    /\ LET c == threads[t].client
           kept == Kept(failures[c], threads[t].waited)
       IN  /\ MayTry(c, kept)
           /\ failures' = [failures EXCEPT ![c] = kept]
           /\ pending' = [pending EXCEPT ![c] = @ + 1]
           /\ threads' = [threads EXCEPT ![t] = [at |-> "checking", client |-> c]]
    /\ UNCHANGED guesses

Deny(t) ==
    /\ Waiting(t)
    /\ LET c == threads[t].client
           kept == Kept(failures[c], threads[t].waited)
       IN  /\ ~MayTry(c, kept)
           /\ failures' = [failures EXCEPT ![c] = kept]
    /\ threads' = [threads EXCEPT ![t] = Idle]
    /\ UNCHANGED <<pending, guesses>>

\* The reservation ends, however the attempt ends.
Settle(t, c) ==
    /\ Checking(t, c)
    /\ pending' = [pending EXCEPT ![c] = @ - 1]
    /\ threads' = [threads EXCEPT ![t] = Idle]

\* Wrong user name or password: record_failure.
Reject(t, c) ==
    /\ Settle(t, c)
    /\ failures' = [failures EXCEPT ![c] = Append(@, 0)]
    /\ guesses' = [guesses EXCEPT ![c] = Append(@, 0)]

\* The right password: clear.
Admit(t, c) ==
    /\ Settle(t, c)
    /\ failures' = [failures EXCEPT ![c] = <<>>]
    /\ guesses' = [guesses EXCEPT ![c] = <<>>]

\* Wrong: an exception while the password is checked keeps the reservation.
RaiseKeepingReservation(t, c) ==
    /\ Checking(t, c)
    /\ threads' = [threads EXCEPT ![t] = Idle]
    /\ UNCHANGED <<failures, pending, guesses>>

\* An exception, from the database for one: __exit__.
Raise(t, c) ==
    /\ Settle(t, c)
    /\ UNCHANGED <<failures, guesses>>

-----------------------------------------------------------------------------

Older(ages) == [i \in DOMAIN ages |-> IF ages[i] < MaxAge THEN ages[i] + 1 ELSE MaxAge]

\* The history forgets what is expired for every thread.
Recent(ages) == DropOld(ages, MaxAge)

Tick ==
    /\ \A t \in Threads : Waiting(t) => threads[t].waited < MaxWait
    /\ failures' = [c \in Clients |-> Older(failures[c])]
    /\ guesses' = [c \in Clients |-> Recent(Older(guesses[c]))]
    /\ threads' = [t \in Threads |-> IF Waiting(t) THEN [threads[t] EXCEPT !.waited = @ + 1]
                                     ELSE threads[t]]
    /\ UNCHANGED pending

Next ==
    \/ \E t \in Threads : Reserve(t) \/ Deny(t)
    \/ \E t \in Threads, c \in Clients :
        ReadClock(t, c) \/ Reject(t, c) \/ Admit(t, c) \/ Raise(t, c)
    \/ Tick

Spec == Init /\ [][Next]_vars

-----------------------------------------------------------------------------
(* Properties.                                                               *)

InFlight(c) == {t \in Threads : Checking(t, c)}

\* How many guesses since the last success are less than one window old, as seen
\* by a thread that read the clock some time ago.
GuessesWithin(c, waited) ==
    Cardinality({i \in DOMAIN guesses[c] : guesses[c][i] < Window + waited})

\* However many threads try at once, a client makes at most Limit wrong guesses
\* in any window of time unless it logs in between them: an attempt is reserved
\* before its password is checked, and no failure is forgotten early.
GuessesBounded ==
    \A c \in Clients : GuessesWithin(c, 0) + Cardinality(InFlight(c)) <= Limit

\* A reservation stands for one attempt in progress: none is leaked by an
\* exception or returned twice, which would lock the client out or let it in.
PendingExact == \A c \in Clients : pending[c] = Cardinality(InFlight(c))

\* A login is refused only when the client, at the time the thread read the
\* clock or since, did use up its attempts.
DenialsJustified ==
    [][\A t \in Threads : Waiting(t) /\ threads'[t] = Idle =>
        LET c == threads[t].client IN
        GuessesWithin(c, threads[t].waited) + Cardinality(InFlight(c)) >= Limit]_vars
=============================================================================
