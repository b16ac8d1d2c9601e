------------------------------ MODULE MutexSpec ------------------------------
(***************************************************************************)
(* What kmutex_t promises its callers (src/kernel/proc/kmutex.c, the       *)
(* comments above kmutex_lock, kmutex_lock_cancellable and kmutex_unlock), *)
(* with no queues and no scheduler:                                        *)
(*   - the mutex has at most one owner, taken only while it is free and    *)
(*     given up only by its owner;                                         *)
(*   - kmutex_lock returns only with the mutex;                            *)
(*   - kmutex_lock_cancellable returns -EINTR only to a thread that has    *)
(*     been cancelled, and never returns 0 to one (a thread cancelled      *)
(*     while it holds the mutex gives it back before returning).           *)
(* The cancellation request may stay pending after -EINTR is returned.    *)
(***************************************************************************)
CONSTANTS Threads, NoThread

VARIABLES
    owner,    \* the thread that holds the mutex, NoThread if it is free
    waiting,  \* how each thread waits: "none", "plain" or "cancellable"
    cancel    \* the threads with a pending cancellation request

Waits == {"none", "plain", "cancellable"}

\* A thread starts waiting on a held mutex, in kmutex_lock ("plain") or
\* in kmutex_lock_cancellable ("cancellable").
Wait(t, how) ==
    /\ owner \notin {NoThread, t}
    /\ waiting[t] = "none"
    /\ how \in Waits \ {"none"}
    /\ waiting' = [waiting EXCEPT ![t] = how]
    /\ UNCHANGED <<owner, cancel>>

\* A free mutex is taken by a thread that is not waiting, or by a waiter;
\* a cancellable waiter takes it only if it has not been cancelled.
Acquire(t) ==
    /\ owner = NoThread
    /\ waiting[t] = "cancellable" => t \notin cancel
    /\ owner' = t
    /\ waiting' = [waiting EXCEPT ![t] = "none"]
    /\ UNCHANGED cancel

\* The owner gives the mutex back.
Release(t) ==
    /\ owner = t
    /\ owner' = NoThread
    /\ UNCHANGED <<waiting, cancel>>

\* kmutex_lock_cancellable returns -EINTR to a cancelled thread that does
\* not hold the mutex; the request may be consumed.
Interrupted(t) ==
    /\ t \in cancel
    /\ owner # t
    /\ waiting[t] \in {"none", "cancellable"}
    /\ waiting' = [waiting EXCEPT ![t] = "none"]
    /\ cancel' \in {cancel, cancel \ {t}}
    /\ UNCHANGED owner

\* kthread_cancel requests the cancellation of a thread.
Cancel(t) ==
    /\ cancel' = cancel \cup {t}
    /\ UNCHANGED <<owner, waiting>>

Init ==
    /\ owner = NoThread
    /\ waiting = [t \in Threads |-> "none"]
    /\ cancel = {}

Next ==
    \E t \in Threads :
        \/ \E how \in Waits : Wait(t, how)
        \/ Acquire(t)
        \/ Release(t)
        \/ Interrupted(t)
        \/ Cancel(t)

Spec == Init /\ [][Next]_<<owner, waiting, cancel>>

=============================================================================
