-------------------------- MODULE NotificationProof --------------------------
(***************************************************************************)
(* For every set of waiters and notifiers: no wakeup is lost, and every     *)
(* step of Notification is a step of the one-shot event or a stutter.       *)
(***************************************************************************)
EXTENDS Notification, TLAPS

(* The mutex is owned by the thread whose guard is alive. *)
OwnerHolds == \A t \in Threads : pc[t] \in Holding <=> mu = t

(* Between the second look at the flag and Condvar::wait the flag is unset:
   notify stores it under the mutex.  *)
SleepsUnnotified == \A w \in Waiters : pc[w] = "sleep" => ~notified

(* NoLostWakeup is not inductive by itself: that a thread which falls asleep
   does so before the store follows from the other two.  *)
IInv == TypeOK /\ OwnerHolds /\ SleepsUnnotified /\ NoLostWakeup

(* The invariant holds in the initial state. *)
LEMMA InitInv == Init => IInv
BY ThreadsDiffer
DEF Init, IInv, TypeOK, OwnerHolds, SleepsUnnotified, NoLostWakeup, Threads,
    Holding

(* A step of wait keeps the invariant: it never sets the flag, and takes or
   gives back the mutex for its own thread only.  *)
LEMMA WaiterKeepsInv ==
  ASSUME IInv, NEW w \in Waiters, CallWait(w) \/ Spurious(w) \/ Waiting(w)
  PROVE  IInv'
<1> USE ThreadsDiffer
        DEF IInv, TypeOK, OwnerHolds, SleepsUnnotified, NoLostWakeup, Threads,
            Holding, WaitSteps, NotifySteps, Go
<1>1. CASE CallWait(w) BY <1>1 DEF CallWait
<1>2. CASE Spurious(w) BY <1>2 DEF Spurious
<1>3. CASE FastPath(w) BY <1>3 DEF FastPath
<1>4. CASE LockToWait(w) BY <1>4 DEF LockToWait, Acquire
<1>5. CASE Recheck(w) BY <1>5 DEF Recheck, Release
<1>6. CASE Sleep(w) BY <1>6 DEF Sleep, Release
<1>7. CASE LockAgain(w) BY <1>7 DEF LockAgain, Acquire
<1>8. CASE Loop(w) BY <1>8 DEF Loop, Release
<1> QED BY <1>1, <1>2, <1>3, <1>4, <1>5, <1>6, <1>7, <1>8 DEF Waiting

(* A step of notify keeps the invariant: the store is made under the mutex, so
   no thread is between its second look and its sleep, and the mutex is kept
   until all are woken.  *)
LEMMA NotifierKeepsInv ==
  ASSUME IInv, NEW n \in Notifiers, CallNotify(n) \/ Notifying(n)
  PROVE  IInv'
<1> USE ThreadsDiffer
        DEF IInv, TypeOK, OwnerHolds, SleepsUnnotified, NoLostWakeup, Threads,
            Holding, WaitSteps, NotifySteps, Go
<1>1. CASE CallNotify(n) BY <1>1 DEF CallNotify
<1>2. CASE LockToNotify(n) BY <1>2 DEF LockToNotify, Acquire
<1>3. CASE Store(n) BY <1>3 DEF Store
<1>4. CASE NotifyAll(n) BY <1>4 DEF NotifyAll
<1>5. CASE Unlock(n) BY <1>5 DEF Unlock, Release
<1> QED BY <1>1, <1>2, <1>3, <1>4, <1>5 DEF Notifying

(* The strengthened invariant holds in every state. *)
THEOREM Invariance == Spec => []IInv
<1>1. Init => IInv BY InitInv
<1>2. IInv /\ [Next]_vars => IInv'
  <2> SUFFICES ASSUME IInv, [Next]_vars PROVE IInv' OBVIOUS
  <2>1. CASE Next BY <2>1, WaiterKeepsInv, NotifierKeepsInv DEF Next
  <2>2. CASE UNCHANGED vars
    BY <2>2 DEF vars, IInv, TypeOK, OwnerHolds, SleepsUnnotified, NoLostWakeup
  <2> QED BY <2>1, <2>2
<1> QED BY <1>1, <1>2, PTL DEF Spec

(* common.rs 285-312: no thread sleeps through the notification, however many
   threads wait and notify.  *)
THEOREM NeverLost == Spec => []NoLostWakeup
<1>1. IInv => NoLostWakeup BY DEF IInv
<1> QED BY <1>1, Invariance, PTL

-----------------------------------------------------------------------------
Inside == {w \in Waiters : pc[w] # "out"}

(* A step of a waiter enters or leaves the call, the latter only once the flag
   is set, or is invisible.  *)
LEMMA WaiterRefines ==
  ASSUME IInv, NEW w \in Waiters, CallWait(w) \/ Spurious(w) \/ Waiting(w)
  PROVE  [Event!Next]_(Event!vars)
<1> USE DEF IInv, TypeOK, Threads, WaitSteps, Go
<1>1. CASE CallWait(w)
  <2>1. Event!Enter(w) BY <1>1 DEF CallWait, Event!Enter
  <2> QED BY <2>1 DEF Event!Next
<1>2. CASE notified' = notified /\ Inside' = Inside
  BY <1>2 DEF Event!vars, Inside
<1>3. CASE notified /\ notified' = notified /\ pc' = [pc EXCEPT ![w] = "out"]
           /\ pc[w] # "out"
  <2>1. Event!Return(w) BY <1>3 DEF Event!Return
  <2> QED BY <2>1 DEF Event!Next
<1>4. CASE Spurious(w) BY <1>4, <1>2 DEF Spurious, Inside
<1>5. CASE FastPath(w)
  <2>1. CASE notified BY <2>1, <1>5, <1>3 DEF FastPath
  <2>2. CASE ~notified BY <2>2, <1>5, <1>2 DEF FastPath, Inside
  <2> QED BY <2>1, <2>2
<1>6. CASE LockToWait(w) BY <1>6, <1>2 DEF LockToWait, Inside
<1>7. CASE Recheck(w)
  <2>1. CASE notified BY <2>1, <1>7, <1>3 DEF Recheck
  <2>2. CASE ~notified BY <2>2, <1>7, <1>2 DEF Recheck, Inside
  <2> QED BY <2>1, <2>2
<1>8. CASE Sleep(w) BY <1>8, <1>2 DEF Sleep, Inside
<1>9. CASE LockAgain(w) BY <1>9, <1>2 DEF LockAgain, Inside
<1>10. CASE Loop(w) BY <1>10, <1>2 DEF Loop, Inside
<1> QED
  BY <1>1, <1>4, <1>5, <1>6, <1>7, <1>8, <1>9, <1>10 DEF Waiting

(* The first store of the flag is the event; every other step of a notifier is
   invisible.  *)
LEMMA NotifierRefines ==
  ASSUME IInv, NEW n \in Notifiers, CallNotify(n) \/ Notifying(n)
  PROVE  [Event!Next]_(Event!vars)
<1> USE ThreadsDiffer DEF IInv, TypeOK, Threads, WaitSteps, NotifySteps, Go
<1>1. Inside' = Inside
  BY DEF Inside, CallNotify, Notifying, LockToNotify, Store, NotifyAll, Unlock
<1>2. CASE notified' = notified BY <1>1, <1>2 DEF Event!vars, Inside
<1>3. CASE Store(n)
  <2>1. CASE ~notified
    <3>1. Event!Happen BY <2>1, <1>1, <1>3 DEF Store, Event!Happen, Inside
    <3> QED BY <3>1 DEF Event!Next
  <2>2. CASE notified BY <2>2, <1>3, <1>2 DEF Store
  <2> QED BY <2>1, <2>2
<1> QED
  BY <1>2, <1>3 DEF CallNotify, Notifying, LockToNotify, NotifyAll, Unlock

(* Notification implements the one-shot event: wait returns only after notify,
   whatever wakes it.  (That it does return is liveness, and TLC's.)  *)
THEOREM ImplementsOneShot == Spec => Event!Spec
<1>1. Init => Event!Init BY DEF Init, Event!Init, Threads
<1>2. IInv /\ [Next]_vars => [Event!Next]_(Event!vars)
  <2> SUFFICES ASSUME IInv, [Next]_vars PROVE [Event!Next]_(Event!vars)
    OBVIOUS
  <2>1. CASE Next BY <2>1, WaiterRefines, NotifierRefines DEF Next
  <2>2. CASE UNCHANGED vars BY <2>2 DEF vars, Event!vars
  <2> QED BY <2>1, <2>2
<1> QED BY <1>1, <1>2, Invariance, PTL DEF Spec, Event!Spec
=============================================================================
