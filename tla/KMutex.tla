------------------------------- MODULE KMutex -------------------------------
(***************************************************************************)
(* Kernel mutexes on a single CPU with a non-preemptive scheduler.         *)
(*                                                                         *)
(* Sources: src/kernel/proc/kmutex.c (kmutex_lock,                         *)
(* kmutex_lock_cancellable, kmutex_unlock), src/kernel/proc/               *)
(* sched_helper.c (sched_sleep_on, sched_wakeup_on) and                    *)
(* src/kernel/proc/kthread.c (kthread_cancel).  The scheduler core         *)
(* (sched_switch, sched_make_runnable, sched_cancellable_sleep_on,         *)
(* sched_cancel, sched_yield) lives in proc/sched.c, which is not part of  *)
(* the sources; it is modelled from the spec (section 4.1 and 5).          *)
(*                                                                         *)
(* One mutex, a set of kernel threads.  Exactly one thread runs at a time  *)
(* (curthr); it runs until it sleeps or yields, then the scheduler picks   *)
(* the head of the run queue.  Each thread repeatedly takes the mutex with *)
(* kmutex_lock or kmutex_lock_cancellable, may yield inside the critical   *)
(* section (a blocking call made while holding the mutex), and unlocks.  A *)
(* running thread may cancel any other thread.                             *)
(***************************************************************************)
EXTENDS Naturals, Sequences, FiniteSets, SequencesExt

CONSTANTS
    Threads,    \* the kernel threads (model values)
    NoThread,   \* NULL: no holder / no current thread
    Cancellers  \* the threads that call kthread_cancel on other threads

ASSUME NoThread \notin Threads /\ Cancellers \subseteq Threads

\* kt_state values of kthread_t
KtStates == {"KT_RUN", "KT_SLEEP", "KT_SLEEP_CANCELLABLE"}

(***************************************************************************)
(* pc[t] is where thread t is in its use of the mutex:                     *)
(*   "idle"       not using the mutex                                      *)
(*   "lock"       inside kmutex_lock, at the while loop's test             *)
(*   "lockc"      inside kmutex_lock_cancellable, at the while loop's test *)
(*   "lockc_wake" inside kmutex_lock_cancellable, returned from            *)
(*                sched_cancellable_sleep_on (or about to, once woken)     *)
(*   "cs"         holds the mutex (between lock and unlock)                *)
(***************************************************************************)
Pcs == {"idle", "lock", "lockc", "lockc_wake", "cs"}

VARIABLES
    holder,     \* mtx->km_holder
    waitq,      \* mtx->km_waitq, FIFO of threads
    runq,       \* the scheduler's run queue, FIFO of threads
    curthr,     \* the running thread, NoThread while the CPU idles
    kstate,     \* kt_state of every thread
    cancelled,  \* kt_cancelled of every thread
    pc

vars == <<holder, waitq, runq, curthr, kstate, cancelled, pc>>

-----------------------------------------------------------------------------
(* Scheduler primitives.                                                   *)

\* sched_make_runnable(thr): mark it runnable and append it to the run queue.
SchedMakeRunnable(thr, ks) ==
    /\ kstate' = [ks EXCEPT ![thr] = "KT_RUN"]
    /\ runq' = Append(runq, thr)

\* Fault variant of SleepOn: the switch happens before the enqueue, so what
\* is enqueued is the curthr of the next context, not the sleeper.
SleepOnSwitchFirst(t, st) ==
    /\ kstate' = [kstate EXCEPT ![t] = st]
    /\ curthr' = NoThread
    /\ waitq' = Append(waitq, curthr')

\* sched_sleep_on(q) / sched_cancellable_sleep_on(q) on the mutex queue:
\* set kt_state, enqueue, switch away.
SleepOn(t, st) ==
    /\ kstate' = [kstate EXCEPT ![t] = st]
    /\ waitq' = Append(waitq, t)
    /\ curthr' = NoThread

\* Fault variant of KmutexUnlockEffect: the head waiter is made runnable
\* but left on the wait queue (a peek where sched_wakeup_on dequeues).
KmutexUnlockEffectNoDequeue ==
    /\ holder' = NoThread
    /\ IF waitq = <<>>
       THEN UNCHANGED <<waitq, runq, kstate>>
       ELSE /\ UNCHANGED waitq
            /\ SchedMakeRunnable(Head(waitq), kstate)

\* kmutex_unlock(mtx), run by the holder: wake the head of the wait queue
\* (sched_wakeup_on) if there is one, and clear km_holder in both branches.
KmutexUnlockEffect ==
    /\ holder' = NoThread
    /\ IF waitq = <<>>
       THEN UNCHANGED <<waitq, runq, kstate>>
       ELSE /\ waitq' = Tail(waitq)
            /\ SchedMakeRunnable(Head(waitq), kstate)

-----------------------------------------------------------------------------
(* Thread actions; each is taken only by the running thread.              *)

\* Fault variant of KmutexLock: a woken waiter takes the mutex without
\* re-testing km_holder ("if" instead of "while").
KmutexLockNoRetest(t) ==
    /\ curthr = t
    /\ pc[t] \in {"idle", "lock"}
    /\ holder # t
    /\ IF holder = NoThread \/ pc[t] = "lock"
       THEN /\ holder' = t
            /\ pc' = [pc EXCEPT ![t] = "cs"]
            /\ UNCHANGED <<waitq, kstate, curthr>>
       ELSE /\ SleepOn(t, "KT_SLEEP")
            /\ pc' = [pc EXCEPT ![t] = "lock"]
            /\ UNCHANGED holder
    /\ UNCHANGED <<runq, cancelled>>

\* kmutex_lock: while (km_holder != NULL) sched_sleep_on(&km_waitq);
\* km_holder = curthr.  A fresh call starts at "idle", a woken one
\* re-tests the loop at "lock".
KmutexLock(t) ==
    /\ curthr = t
    /\ pc[t] \in {"idle", "lock"}
    /\ holder # t
    /\ IF holder = NoThread
       THEN /\ holder' = t
            /\ pc' = [pc EXCEPT ![t] = "cs"]
            /\ UNCHANGED <<waitq, kstate, curthr>>
       ELSE /\ SleepOn(t, "KT_SLEEP")
            /\ pc' = [pc EXCEPT ![t] = "lock"]
            /\ UNCHANGED holder
    /\ UNCHANGED <<runq, cancelled>>

\* Fault variant of KmutexLockCancellable: a thread found cancelled after
\* taking the mutex returns -EINTR without calling kmutex_unlock.
KmutexLockCancellableNoUnlock(t) ==
    /\ curthr = t
    /\ pc[t] \in {"idle", "lockc"}
    /\ holder # t
    /\ \/ /\ holder = NoThread
          /\ holder' = t
          /\ cancelled' = [cancelled EXCEPT ![t] = FALSE]
          /\ pc' = [pc EXCEPT ![t] = IF cancelled[t] THEN "idle" ELSE "cs"]
          /\ UNCHANGED <<waitq, runq, kstate, curthr>>
       \/ /\ holder # NoThread
          /\ cancelled[t]
          /\ pc' = [pc EXCEPT ![t] = "idle"]
          /\ UNCHANGED <<holder, waitq, runq, kstate, cancelled, curthr>>
       \/ /\ holder # NoThread
          /\ ~cancelled[t]
          /\ SleepOn(t, "KT_SLEEP_CANCELLABLE")
          /\ pc' = [pc EXCEPT ![t] = "lockc_wake"]
          /\ UNCHANGED <<holder, runq, cancelled>>

\* kmutex_lock_cancellable, the loop test.  Mutex free: take it, and if the
\* thread was cancelled clear the flag, kmutex_unlock and return -EINTR.
\* Mutex held: sched_cancellable_sleep_on returns -EINTR at once for a
\* cancelled thread, otherwise the thread sleeps cancellably.
KmutexLockCancellable(t) ==
    /\ curthr = t
    /\ pc[t] \in {"idle", "lockc"}
    /\ holder # t
    /\ \/ /\ holder = NoThread
          /\ ~cancelled[t]
          /\ holder' = t
          /\ pc' = [pc EXCEPT ![t] = "cs"]
          /\ UNCHANGED <<waitq, runq, kstate, cancelled, curthr>>
       \/ /\ holder = NoThread
          /\ cancelled[t]
          /\ cancelled' = [cancelled EXCEPT ![t] = FALSE]
          /\ KmutexUnlockEffect
          /\ pc' = [pc EXCEPT ![t] = "idle"]
          /\ UNCHANGED curthr
       \/ /\ holder # NoThread
          /\ cancelled[t]
          /\ pc' = [pc EXCEPT ![t] = "idle"]
          /\ UNCHANGED <<holder, waitq, runq, kstate, cancelled, curthr>>
       \/ /\ holder # NoThread
          /\ ~cancelled[t]
          /\ SleepOn(t, "KT_SLEEP_CANCELLABLE")
          /\ pc' = [pc EXCEPT ![t] = "lockc_wake"]
          /\ UNCHANGED <<holder, runq, cancelled>>

\* Fault variant of KmutexLockcWake: any return from the cancellable sleep
\* is taken as a cancellation and -EINTR is returned.
KmutexLockcWakeAlwaysEINTR(t) ==
    /\ curthr = t
    /\ pc[t] = "lockc_wake"
    /\ pc' = [pc EXCEPT ![t] = "idle"]
    /\ UNCHANGED <<holder, waitq, runq, curthr, kstate, cancelled>>

\* Back from sched_cancellable_sleep_on: it returns the cancelled flag; a
\* cancelled thread returns -EINTR from kmutex_lock_cancellable, any other
\* re-tests the loop.
KmutexLockcWake(t) ==
    /\ curthr = t
    /\ pc[t] = "lockc_wake"
    /\ pc' = [pc EXCEPT ![t] = IF cancelled[t] THEN "idle" ELSE "lockc"]
    /\ UNCHANGED <<holder, waitq, runq, curthr, kstate, cancelled>>

\* kmutex_unlock by the holder at the end of its critical section.
KmutexUnlock(t) ==
    /\ curthr = t
    /\ pc[t] = "cs"
    /\ holder = t
    /\ KmutexUnlockEffect
    /\ pc' = [pc EXCEPT ![t] = "idle"]
    /\ UNCHANGED <<curthr, cancelled>>

\* sched_yield: the running thread goes to the back of the run queue, e.g.
\* while blocked on I/O inside its critical section.
SchedYield(t) ==
    /\ curthr = t
    /\ pc[t] \in {"idle", "cs"}
    /\ runq' = Append(runq, t)
    /\ curthr' = NoThread
    /\ UNCHANGED <<holder, waitq, kstate, cancelled, pc>>

\* sched_cancel(kthr): set kt_cancelled; a thread in a cancellable sleep is
\* taken off its wait queue and made runnable.
SchedCancel(thr) ==
    /\ cancelled' = [cancelled EXCEPT ![thr] = TRUE]
    /\ IF kstate[thr] = "KT_SLEEP_CANCELLABLE"
       THEN /\ waitq' = Remove(waitq, thr)
            /\ SchedMakeRunnable(thr, kstate)
       ELSE UNCHANGED <<waitq, runq, kstate>>

\* Fault variant of KthreadCancel: kt_cancelled is set directly instead of
\* through sched_cancel, so a cancellable sleeper is not woken.
KthreadCancelFlagOnly(c, kthr) ==
    /\ curthr = c
    /\ c \in Cancellers
    /\ kthr # c
    /\ pc[c] \in {"idle", "cs"}
    /\ cancelled' = [cancelled EXCEPT ![kthr] = TRUE]
    /\ UNCHANGED <<holder, waitq, runq, kstate, curthr, pc>>

\* kthread_cancel(kthr, retval) by the running thread c on another thread.
KthreadCancel(c, kthr) ==
    /\ curthr = c
    /\ c \in Cancellers
    /\ kthr # c
    /\ pc[c] \in {"idle", "cs"}
    /\ SchedCancel(kthr)
    /\ UNCHANGED <<holder, curthr, pc>>

\* sched_switch when the CPU is free: run the head of the run queue.
SchedSwitch ==
    /\ curthr = NoThread
    /\ runq # <<>>
    /\ curthr' = Head(runq)
    /\ runq' = Tail(runq)
    /\ UNCHANGED <<holder, waitq, kstate, cancelled, pc>>

-----------------------------------------------------------------------------
\* kmutex_init, and kthread_create for every thread (kt_state KT_RUN,
\* kt_cancelled 0), all made runnable.
Init ==
    /\ holder = NoThread
    /\ waitq = <<>>
    /\ curthr = NoThread
    /\ runq = SetToSeq(Threads)
    /\ kstate = [t \in Threads |-> "KT_RUN"]
    /\ cancelled = [t \in Threads |-> FALSE]
    /\ pc = [t \in Threads |-> "idle"]

\* Everything thread t does while it runs.
ThreadStep(t) ==
    \/ KmutexLock(t)
    \/ KmutexLockCancellable(t)
    \/ KmutexLockcWake(t)
    \/ KmutexUnlock(t)
    \/ SchedYield(t)
    \/ \E k \in Threads : KthreadCancel(t, k)

Next ==
    \/ SchedSwitch
    \/ \E t \in Threads : ThreadStep(t)

\* The running thread always takes its next step (there is no preemption
\* and no thread stops in the middle of kernel code), it does not keep the
\* CPU forever (each thread eventually blocks or yields, as the kernel's
\* threads do when they wait for I/O or for a child), and the scheduler
\* runs the next thread whenever the CPU is free.
Fairness ==
    /\ WF_vars(SchedSwitch)
    /\ \A t \in Threads : WF_vars(ThreadStep(t)) /\ WF_vars(SchedYield(t))

Spec == Init /\ [][Next]_vars /\ Fairness

-----------------------------------------------------------------------------
TypeOK ==
    /\ holder \in Threads \cup {NoThread}
    /\ waitq \in Seq(Threads)
    /\ runq \in Seq(Threads)
    /\ curthr \in Threads \cup {NoThread}
    /\ kstate \in [Threads -> KtStates]
    /\ cancelled \in [Threads -> BOOLEAN]
    /\ pc \in [Threads -> Pcs]

\* Number of times thread t occurs in queue q.
Occurrences(q, t) == Len(SelectSeq(q, LAMBDA x : x = t))

(***************************************************************************)
(* Mutual exclusion (kmutex_lock's while loop, kmutex_unlock): a thread   *)
(* past kmutex_lock is the mutex's holder.  Since unlock clears km_holder *)
(* instead of handing it over, a woken waiter must re-test the loop; a    *)
(* woken thread that took the mutex without re-testing would share it     *)
(* with whoever took it in between.                                       *)
(***************************************************************************)
MutualExclusion ==
    \A t \in Threads : pc[t] = "cs" => holder = t

(***************************************************************************)
(* Ownership is never leaked (kmutex_lock_cancellable): whoever holds the *)
(* mutex is inside its critical section.  In particular a thread that     *)
(* returns -EINTR from kmutex_lock_cancellable after taking the mutex has *)
(* released it first.                                                     *)
(***************************************************************************)
OwnerInCriticalSection ==
    holder # NoThread => pc[holder] = "cs"

(***************************************************************************)
(* Queue discipline of sched_sleep_on / sched_wakeup_on / sched_cancel:   *)
(* every thread is in exactly one place (running, once on the run queue, *)
(* or once on the mutex queue), it is on the mutex queue exactly when its *)
(* kt_state is a sleep state, and the sleep state matches the call it     *)
(* sleeps in.  A cancelled cancellable sleeper must leave the wait queue, *)
(* or a later wakeup would enqueue it on the run queue a second time.     *)
(***************************************************************************)
QueueDiscipline ==
    \A t \in Threads :
        /\ Occurrences(runq, t) + Occurrences(waitq, t)
             + (IF curthr = t THEN 1 ELSE 0) = 1
        /\ (Occurrences(waitq, t) = 1) <=> (kstate[t] # "KT_RUN")
        /\ kstate[t] = "KT_SLEEP" => pc[t] = "lock"
        /\ kstate[t] = "KT_SLEEP_CANCELLABLE" => pc[t] = "lockc_wake"

(***************************************************************************)
(* Cancellation (spec 4.1, 5): a thread cancelled in a cancellable sleep  *)
(* on the mutex returns from kmutex_lock_cancellable, without waiting for *)
(* the holder to unlock.                                                  *)
(***************************************************************************)
CancelledSleeperReturns ==
    \A t \in Threads :
        (pc[t] = "lockc_wake" /\ cancelled[t]) ~> (pc[t] # "lockc_wake")

(***************************************************************************)
(* Refinement: kmutex_t implements MutexSpec.  The owner is km_holder; a  *)
(* thread waits "plain" inside kmutex_lock's loop and "cancellable"       *)
(* inside kmutex_lock_cancellable's; a pending cancellation is            *)
(* kt_cancelled.  So kmutex_lock never returns without the mutex,         *)
(* kmutex_lock_cancellable returns -EINTR only to a cancelled thread and  *)
(* never returns 0 to one, and only the holder clears km_holder.          *)
(***************************************************************************)
WaitingOf(t) ==
    CASE pc[t] = "lock"                  -> "plain"
      [] pc[t] \in {"lockc", "lockc_wake"} -> "cancellable"
      [] OTHER                           -> "none"

Abstract == INSTANCE MutexSpec
    WITH owner   <- holder,
         waiting <- [t \in Threads |-> WaitingOf(t)],
         cancel  <- {t \in Threads : cancelled[t]}

ImplementsMutexSpec == Abstract!Spec

(***************************************************************************)
(* No stranded waiter (spec 4.2, unlock hands the mutex to the head       *)
(* waiter): whenever threads sleep on a free mutex, some woken thread is  *)
(* on its way to re-test it, so the sleepers will be woken in turn.       *)
(***************************************************************************)
NoStrandedWaiter ==
    (holder = NoThread /\ waitq # <<>>) =>
        \E t \in Threads : pc[t] \in {"lock", "lockc", "lockc_wake"}
                           /\ kstate[t] = "KT_RUN"

=============================================================================
