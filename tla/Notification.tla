---------------------------- MODULE Notification ----------------------------
(***************************************************************************)
(* Notification of common.rs: an atomic flag, a mutex and a condition       *)
(* variable, with the steps of wait and notify that other threads can come  *)
(* between.  receive_thread answers a flush with it, and a worker that      *)
(* exits waits for ever on one that nobody notifies (Notifiers = {}).       *)
(***************************************************************************)
EXTENDS Naturals

CONSTANTS
  Waiters,    \* the threads that call wait, any number of times
  Notifiers,  \* the threads that call notify, any number of times
  Nobody      \* the owner of a free mutex

ASSUME ThreadsDiffer ==
  Waiters \intersect Notifiers = {} /\ Nobody \notin Waiters \union Notifiers

VARIABLES
  notified,   \* the flag
  mu,         \* the owner of the mutex
  pc          \* where each thread is; "out" is outside of wait and notify

vars == <<notified, mu, pc>>

Threads == Waiters \union Notifiers

WaitSteps == {"check", "lock", "recheck", "sleep", "asleep", "woken", "looping"}
NotifySteps == {"lock", "store", "wake", "unlock"}

\* The steps of a thread that owns the mutex.
Holding == {"recheck", "sleep", "looping", "store", "wake", "unlock"}

Init ==
  /\ notified = FALSE
  /\ mu = Nobody
  /\ pc = [t \in Threads |-> "out"]

Go(t, from, to) == pc[t] = from /\ pc' = [pc EXCEPT ![t] = to]
Acquire(t) == mu = Nobody /\ mu' = t
Release(t) == mu = t /\ mu' = Nobody

-----------------------------------------------------------------------------
(* wait *)

CallWait(w) == Go(w, "out", "check") /\ UNCHANGED <<notified, mu>>

FastPath(w) ==
  /\ Go(w, "check", IF notified THEN "out" ELSE "lock")
  /\ UNCHANGED <<notified, mu>>

LockToWait(w) ==
  Go(w, "lock", "recheck") /\ Acquire(w) /\ UNCHANGED notified

\* Mutant: the flag is not looked at again under the mutex.
X_Recheck(w) ==
  Go(w, "recheck", "sleep") /\ UNCHANGED <<mu, notified>>

\* The second look at the flag; returning drops the guard.
Recheck(w) ==
  /\ \/ notified /\ Go(w, "recheck", "out") /\ Release(w)
     \/ ~notified /\ Go(w, "recheck", "sleep") /\ UNCHANGED mu
  /\ UNCHANGED notified

\* Condvar::wait releases the mutex and blocks in one step,
Sleep(w) == Go(w, "sleep", "asleep") /\ Release(w) /\ UNCHANGED notified

\* may return without a notification,
Spurious(w) == Go(w, "asleep", "woken") /\ UNCHANGED <<notified, mu>>

\* and returns with the mutex.
LockAgain(w) ==
  Go(w, "woken", "looping") /\ Acquire(w) /\ UNCHANGED notified

\* The guard is dropped at the end of the loop's body.
Loop(w) == Go(w, "looping", "check") /\ Release(w) /\ UNCHANGED notified

-----------------------------------------------------------------------------
(* notify *)

CallNotify(n) ==
  Go(n, "out", IF notified THEN "out" ELSE "lock") /\ UNCHANGED <<notified, mu>>

LockToNotify(n) == Go(n, "lock", "store") /\ Acquire(n) /\ UNCHANGED notified

Store(n) == Go(n, "store", "wake") /\ notified' = TRUE /\ UNCHANGED mu

\* Mutant: notify_one.
X_NotifyAll(n) ==
  /\ pc[n] = "wake"
  /\ \/ \E w \in Waiters :
          /\ pc[w] = "asleep"
          /\ pc' = [pc EXCEPT ![n] = "unlock", ![w] = "woken"]
     \/ /\ \A w \in Waiters : pc[w] # "asleep"
        /\ pc' = [pc EXCEPT ![n] = "unlock"]
  /\ UNCHANGED <<notified, mu>>

NotifyAll(n) ==
  /\ pc[n] = "wake"
  /\ pc' = [t \in Threads |-> IF t = n THEN "unlock"
                              ELSE IF pc[t] = "asleep" THEN "woken" ELSE pc[t]]
  /\ UNCHANGED <<notified, mu>>

Unlock(n) == Go(n, "unlock", "out") /\ Release(n) /\ UNCHANGED notified

-----------------------------------------------------------------------------
\* The steps a thread takes without being called or woken.
Waiting(w) ==
  \/ FastPath(w) \/ LockToWait(w) \/ Recheck(w) \/ Sleep(w)
  \/ LockAgain(w) \/ Loop(w)

Notifying(n) == LockToNotify(n) \/ Store(n) \/ NotifyAll(n) \/ Unlock(n)

Next ==
  \/ \E w \in Waiters : CallWait(w) \/ Spurious(w) \/ Waiting(w)
  \/ \E n \in Notifiers : CallNotify(n) \/ Notifying(n)

Spec == Init /\ [][Next]_vars

\* A running thread is scheduled again and again.  Nobody has to call, and
\* nothing has to wake a sleeping thread but NotifyAll.
FairSpec ==
  /\ Spec
  /\ \A w \in Waiters : WF_vars(Waiting(w))
  /\ \A n \in Notifiers : WF_vars(Notifying(n))

-----------------------------------------------------------------------------
TypeOK ==
  /\ notified \in BOOLEAN
  /\ mu \in Threads \union {Nobody}
  /\ pc \in [Threads -> {"out"} \union WaitSteps \union NotifySteps]
  /\ \A w \in Waiters : pc[w] \in {"out"} \union WaitSteps
  /\ \A n \in Notifiers : pc[n] \in {"out"} \union NotifySteps

(* common.rs 303: no thread sleeps through the notification.  Whoever is
   asleep when the flag is set will be woken by a thread that holds the mutex
   and is about to call notify_all.  *)
NoLostWakeup ==
  notified /\ (\E w \in Waiters : pc[w] = "asleep") =>
    mu \in Notifiers /\ pc[mu] = "wake"

(* A call of wait returns only after the notification, whatever wakes it, and
   every call returns once the notification has been stored: what the handles
   of writers.rs rely on when flush waits for an answer.  *)
Event == INSTANCE OneShot WITH
  happened <- notified, inside <- {w \in Waiters : pc[w] # "out"}
KeepsPromise == Event!FairSpec
=============================================================================
