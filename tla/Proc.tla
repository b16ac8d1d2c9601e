-------------------------------- MODULE Proc --------------------------------
(***************************************************************************)
(* The process table of src/kernel/proc/proc.c: pid allocation            *)
(* (_proc_getid), proc_create as called by fork, proc_cleanup (reparenting *)
(* to init, the zombie state and the broadcast on the parent's p_wait),   *)
(* do_waitpid for pid -1 and pid > 0 with cleanup_child_proc, and the idle *)
(* process of src/kernel/main/kmain.c, which waits for init and then shuts *)
(* the system down.                                                        *)
(*                                                                         *)
(* A process is identified by its pid, so slot[pid] says whether the pid  *)
(* is free, running or dead (a zombie not yet reaped).  Every process has *)
(* one thread.  The CPU runs one thread at a time and is never preempted, *)
(* so each system call runs atomically up to the point where do_waitpid   *)
(* sleeps on p_wait; a woken waiter re-runs the body of its loop.  Which  *)
(* runnable thread runs next is left open: user code decides when it      *)
(* calls fork, exit and waitpid.                                           *)
(***************************************************************************)
EXTENDS Naturals, Sequences, SequencesExt

CONSTANT MaxPids    \* PROC_MAX_COUNT: the pids are 0 .. MaxPids - 1

ASSUME MaxPids \in Nat /\ MaxPids >= 3

Pids     == 0..(MaxPids - 1)
PidIdle  == 0
PidInit  == 1
NoPid    == -1
\* Where a process's thread is: idle's thread in idleproc_run before it
\* waits, in user code, in do_waitpid(-1), in do_waitpid(c) for a child c,
\* or, for idle, shut down after reaping init.
Pcs      == {"boot", "user", "waitany", "waitpid", "halted"}

VARIABLES
    slot,      \* slot[p]: "free", "running" or "dead" (p_state of the proc_t)
    pproc,     \* pproc[p]: p_pproc
    children,  \* children[p]: p_children in list order
    nextpid,   \* next_pid
    pc,        \* where p's thread is
    asleep,    \* asleep[p]: p's thread is on its own p_wait queue
    waitfor    \* waitfor[p]: the child do_waitpid(c) waits for

vars == <<slot, pproc, children, nextpid, pc, asleep, waitfor>>

InList(p) == slot[p] # "free"

\* The only thread on p_wait is p's own, so broadcasting on p's queue
\* makes p runnable.
Runnable(p) ==
    /\ slot[p] = "running"
    /\ ~asleep[p]
    /\ pc[PidIdle] # "halted"

(***************************************************************************)
(* _proc_getid: starting at next_pid, the first pid not in the process    *)
(* list, counting modulo PROC_MAX_COUNT; -1 when the scan comes back to   *)
(* next_pid.                                                               *)
(***************************************************************************)
RECURSIVE GetIdFrom(_)
GetIdFrom(pid) ==
    IF ~InList(pid) THEN pid
    ELSE IF (pid + 1) % MaxPids = nextpid THEN NoPid
    ELSE GetIdFrom((pid + 1) % MaxPids)

\* Fault variant of ProcGetId: when the scan wraps round to next_pid it
\* returns the pid it stands on instead of -1.
RECURSIVE GetIdFromWrap(_)
GetIdFromWrap(pid) ==
    IF ~InList(pid) THEN pid
    ELSE IF (pid + 1) % MaxPids = nextpid THEN pid
    ELSE GetIdFromWrap((pid + 1) % MaxPids)

ProcGetIdWrap == GetIdFromWrap(nextpid)

ProcGetId == GetIdFrom(nextpid)

\* Fault variant of NextPidAfter: next_pid is not reduced modulo
\* PROC_MAX_COUNT.
NextPidAfterNoWrap(c) == c + 1

\* next_pid after pid c is handed out.
NextPidAfter(c) == (c + 1) % MaxPids

(***************************************************************************)
(* fork's proc_create: a new running process with the next free pid,      *)
(* parent the caller, inserted at the head of the caller's child list;    *)
(* next_pid moves past it.  With no free pid the call fails with -ENOMEM  *)
(* and nothing changes.                                                    *)
(***************************************************************************)
ProcCreate(p) ==
    /\ Runnable(p)
    /\ pc[p] = "user"
    /\ p # PidIdle
    /\ LET c == ProcGetId
       IN  IF c = NoPid
           THEN UNCHANGED vars
           ELSE /\ slot' = [slot EXCEPT ![c] = "running"]
                /\ pproc' = [pproc EXCEPT ![c] = p]
                /\ children' = [children EXCEPT ![p] = <<c>> \o @, ![c] = <<>>]
                /\ nextpid' = NextPidAfter(c)
                /\ pc' = [pc EXCEPT ![c] = "user"]
                /\ asleep' = [asleep EXCEPT ![c] = FALSE]
                /\ UNCHANGED waitfor

\* Fault variant of Reparent: the children move to init's list but keep
\* their old p_pproc.
ReparentKeepParent(p) ==
    IF p = PidInit THEN <<pproc, children>>
    ELSE <<pproc,
           [children EXCEPT ![PidInit] = @ \o children[p], ![p] = <<>>]>>

(***************************************************************************)
(* proc_cleanup's reparenting: unless p is init, each child in list order *)
(* leaves p's list, gets init as p_pproc and goes to the tail of init's   *)
(* list.  The result is the new <<pproc, children>>.                       *)
(***************************************************************************)
Reparent(p) ==
    IF p = PidInit THEN <<pproc, children>>
    ELSE <<[q \in Pids |-> IF q \in ToSet(children[p]) THEN PidInit ELSE pproc[q]],
           [children EXCEPT ![PidInit] = @ \o children[p], ![p] = <<>>]>>

\* sched_broadcast_on(&q->p_wait): every thread on the queue is made
\* runnable; the only thread ever on q's p_wait is q's own.
SchedBroadcastOn(q) == [asleep EXCEPT ![q] = FALSE]

(***************************************************************************)
(* proc_cleanup(status) run by p's own thread: reparent the children,     *)
(* become a zombie, broadcast on the parent's p_wait.  The open files,    *)
(* cwd and address space are released here too; the modules FdTable and   *)
(* VmObjects cover them.                                                   *)
(***************************************************************************)
ProcCleanup(p) ==
    /\ LET r == Reparent(p)
       IN  /\ pproc' = r[1]
           /\ children' = r[2]
    /\ slot' = [slot EXCEPT ![p] = "dead"]
    /\ asleep' = SchedBroadcastOn(pproc[p])
    /\ UNCHANGED <<nextpid, pc, waitfor>>

\* kthread_exit: the thread is marked exited and proc_thread_exited runs
\* proc_cleanup; sched_switch never comes back.
KthreadExit(p) == ProcCleanup(p)

\* do_exit(status) -> kthread_cancel(curthr) -> kthread_exit.
DoExit(p) ==
    /\ Runnable(p)
    /\ pc[p] = "user"
    /\ p # PidIdle
    /\ KthreadExit(p)

(***************************************************************************)
(* proc_kill_all, from sys_halt in user code: proc_kill of every process  *)
(* with pid > 2 other than the caller, then of the caller unless it is    *)
(* idle or init.  proc_kill of another process is kthread_cancel of its    *)
(* thread, which only sets kt_retval and kt_cancelled: every sleep in this *)
(* module (do_waitpid's) is not cancellable, and the flag is read only by  *)
(* kmutex_lock_cancellable, which the module KMutex covers.  proc_kill of  *)
(* the caller is do_exit.                                                  *)
(***************************************************************************)
ProcKillAll(p) ==
    /\ Runnable(p)
    /\ pc[p] = "user"
    /\ IF p \in {PidIdle, PidInit} THEN UNCHANGED vars
       ELSE KthreadExit(p)

\* cleanup_child_proc(c) called by its parent p: c leaves p's child list
\* and the process list, and its pid becomes free.
CleanupChildProc(p, c) ==
    /\ slot' = [slot EXCEPT ![c] = "free"]
    /\ children' = [children EXCEPT ![p] = SelectSeq(@, LAMBDA x : x # c)]
    /\ pproc' = [pproc EXCEPT ![c] = NoPid]

\* Fault variant of DeadChildren: the scan stops before the last child.
DeadChildrenSkipLast(p) ==
    SelectSeq(SubSeq(children[p], 1, Len(children[p]) - 1), LAMBDA x : slot[x] = "dead")

\* The dead children of p, in list order.
DeadChildren(p) == SelectSeq(children[p], LAMBDA x : slot[x] = "dead")

\* After a reap: idle, which waits only for init, goes on to final_shutdown.
AfterReap(p) == IF p = PidIdle THEN "halted" ELSE "user"

(***************************************************************************)
(* One pass of do_waitpid's loop for pid -1: reap the first dead child in *)
(* list order and return; otherwise sleep on p_wait.                       *)
(***************************************************************************)
WaitAnyBody(p) ==
    /\ IF DeadChildren(p) # <<>>
       THEN /\ CleanupChildProc(p, Head(DeadChildren(p)))
            /\ pc' = [pc EXCEPT ![p] = AfterReap(p)]
            /\ asleep' = asleep
       ELSE /\ asleep' = [asleep EXCEPT ![p] = TRUE]
            /\ pc' = [pc EXCEPT ![p] = "waitany"]
            /\ UNCHANGED <<slot, children, pproc>>
    /\ UNCHANGED waitfor

\* Fault variant of WaitPidBody: a woken waiter reaps its child without
\* re-testing p_state.
WaitPidBodyNoRetest(p, c) ==
    /\ CleanupChildProc(p, c)
    /\ pc' = [pc EXCEPT ![p] = AfterReap(p)]
    /\ asleep' = asleep
    /\ waitfor' = [waitfor EXCEPT ![p] = c]

\* Fault variant of WaitPidBody: the loop tests the last child of the list
\* (the iterator left by the search) instead of the child c it found.
WaitPidBodyLastChild(p, c) ==
    /\ LET x == children[p][Len(children[p])]
       IN  IF slot[x] = "dead"
           THEN /\ CleanupChildProc(p, x)
                /\ pc' = [pc EXCEPT ![p] = AfterReap(p)]
                /\ asleep' = asleep
           ELSE /\ asleep' = [asleep EXCEPT ![p] = TRUE]
                /\ pc' = [pc EXCEPT ![p] = "waitpid"]
                /\ UNCHANGED <<slot, children, pproc>>
    /\ waitfor' = [waitfor EXCEPT ![p] = c]

\* One pass of do_waitpid's loop for a given child c.
WaitPidBody(p, c) ==
    /\ IF slot[c] = "dead"
       THEN /\ CleanupChildProc(p, c)
            /\ pc' = [pc EXCEPT ![p] = AfterReap(p)]
            /\ asleep' = asleep
       ELSE /\ asleep' = [asleep EXCEPT ![p] = TRUE]
            /\ pc' = [pc EXCEPT ![p] = "waitpid"]
            /\ UNCHANGED <<slot, children, pproc>>
    /\ waitfor' = [waitfor EXCEPT ![p] = c]

(***************************************************************************)
(* do_waitpid(pid, 0, &status) from user code: -ECHILD with no children,  *)
(* then the loop for pid -1, or, for pid > 0, -ECHILD unless pid is a     *)
(* child and then the loop for that child.                                 *)
(***************************************************************************)
DoWaitpid(p, pid) ==
    /\ Runnable(p)
    /\ pc[p] = "user"
    /\ IF children[p] = <<>> THEN UNCHANGED vars
       ELSE IF pid = -1 THEN WaitAnyBody(p) /\ UNCHANGED nextpid
       ELSE IF pid \notin ToSet(children[p]) THEN UNCHANGED vars
       ELSE WaitPidBody(p, pid) /\ UNCHANGED nextpid

\* A waiter woken by a child's exit runs its loop again.
WaitpidResume(p) ==
    /\ Runnable(p)
    /\ \/ pc[p] = "waitany" /\ WaitAnyBody(p)
       \/ pc[p] = "waitpid" /\ WaitPidBody(p, waitfor[p])
    /\ UNCHANGED nextpid

(***************************************************************************)
(* Before bootstrap no proc_t exists and next_pid is 0.                    *)
(***************************************************************************)
Init ==
    /\ slot = [p \in Pids |-> "free"]
    /\ pproc = [p \in Pids |-> NoPid]
    /\ children = [p \in Pids |-> <<>>]
    /\ nextpid = 0
    /\ pc = [p \in Pids |-> "user"]
    /\ asleep = [p \in Pids |-> FALSE]
    /\ waitfor = [p \in Pids |-> NoPid]

(***************************************************************************)
(* bootstrap: proc_create("idle") with no current process, so idle has no *)
(* parent and joins no child list; its thread starts in idleproc_run.      *)
(***************************************************************************)
Bootstrap ==
    /\ \A q \in Pids : slot[q] = "free"
    /\ LET c == ProcGetId
       IN  /\ slot' = [slot EXCEPT ![c] = "running"]
           /\ nextpid' = NextPidAfter(c)
           /\ pc' = [pc EXCEPT ![c] = "boot"]
    /\ UNCHANGED <<pproc, children, asleep, waitfor>>

(***************************************************************************)
(* initproc_create, run by idle: proc_create("init") makes pid 1, idle's   *)
(* child.  The result is the new <<slot, pproc, children, nextpid>>.       *)
(***************************************************************************)
InitprocCreate ==
    LET c == ProcGetId
    IN  <<[slot EXCEPT ![c] = "running"], [pproc EXCEPT ![c] = PidIdle],
          [children EXCEPT ![PidIdle] = <<c>> \o @], NextPidAfter(c)>>

(***************************************************************************)
(* idleproc_run: create init, make its thread runnable, and wait for it    *)
(* with do_waitpid(-1), where idle sleeps since init is running.  The cwd  *)
(* and /dev set-up between the two are file-system calls (VfsNames).       *)
(***************************************************************************)
IdleprocRun ==
    /\ pc[PidIdle] = "boot"
    /\ LET r == InitprocCreate
       IN  /\ slot' = r[1]
           /\ pproc' = r[2]
           /\ children' = r[3]
           /\ nextpid' = r[4]
    /\ pc' = [pc EXCEPT ![PidIdle] = "waitany"]
    /\ asleep' = [asleep EXCEPT ![PidIdle] = TRUE]
    /\ UNCHANGED waitfor

Next ==
    \/ Bootstrap
    \/ IdleprocRun
    \/ \E p \in Pids :
        \/ ProcCreate(p)
        \/ DoExit(p)
        \/ ProcKillAll(p)
        \/ \E pid \in {-1} \cup (Pids \ {PidIdle}) : DoWaitpid(p, pid)
        \/ WaitpidResume(p)

Spec == Init /\ [][Next]_vars

(***************************************************************************)
(* Fairness.  The scheduler is non-preemptive with a FIFO run queue: a     *)
(* thread made runnable by sched_broadcast_on is on the run queue, and it  *)
(* runs once the threads ahead of it block or exit.  So a woken waiter     *)
(* eventually re-runs its do_waitpid loop (weak fairness of WaitpidResume). *)
(* Nothing is assumed of user code: a process need never fork, exit or     *)
(* wait.                                                                   *)
(***************************************************************************)
FairSpec == Spec /\ \A p \in Pids : WF_vars(WaitpidResume(p))
-----------------------------------------------------------------------------
(* Properties.                                                             *)

TypeOK ==
    /\ slot \in [Pids -> {"free", "running", "dead"}]
    /\ pproc \in [Pids -> Pids \cup {NoPid}]
    /\ children \in [Pids -> Seq(Pids)]
    /\ nextpid \in Pids
    /\ pc \in [Pids -> Pcs]
    /\ asleep \in [Pids -> BOOLEAN]
    /\ waitfor \in [Pids -> Pids \cup {NoPid}]

(***************************************************************************)
(* The parent links and the child lists agree (proc_create, proc_cleanup's *)
(* reparenting, cleanup_child_proc): every process but idle is on exactly  *)
(* one child list, its parent's, and that parent is in the process list;   *)
(* child lists hold only processes in the list.  Checked while the system  *)
(* runs: after idle reaps init it shuts down.                              *)
(***************************************************************************)
ProcTreeConsistent ==
    pc[PidIdle] # "halted" =>
        /\ \A p \in Pids : InList(p) /\ p # PidIdle =>
              /\ InList(pproc[p])
              /\ \A q \in Pids :
                    Len(SelectSeq(children[q], LAMBDA x : x = p))
                        = IF q = pproc[p] THEN 1 ELSE 0
        /\ \A q \in Pids : \A i \in 1..Len(children[q]) : InList(children[q][i])

(***************************************************************************)
(* do_waitpid reaps only zombies: a pid leaves the process list only if   *)
(* its process had exited, so a parent never frees a running child         *)
(* (the re-test of p_state after every wakeup).                            *)
(***************************************************************************)
ReapOnlyDead ==
    [][\A q \in Pids : InList(q) /\ ~InList(q)' => slot[q] = "dead"]_vars

(***************************************************************************)
(* A parent asleep in do_waitpid(-1) has no zombie child it could reap:   *)
(* every child that dies wakes it (proc_cleanup's broadcast on the parent's *)
(* p_wait), and reparenting must not hand it a zombie without a wakeup.    *)
(***************************************************************************)
NoSleepingWithZombie ==
    \A p \in Pids :
        (asleep[p] /\ pc[p] = "waitany" /\ slot[p] = "running")
            => DeadChildren(p) = <<>>
(***************************************************************************)
(* A parent asleep in do_waitpid(c) whose child c has exited eventually    *)
(* returns from the call, unless the system has shut down first: c's      *)
(* proc_cleanup broadcasts on the parent's p_wait, and the woken parent    *)
(* re-tests c's p_state and reaps it.                                      *)
(***************************************************************************)
WaitpidReturns ==
    \A p \in Pids :
        (pc[p] = "waitpid" /\ slot[waitfor[p]] = "dead")
            ~> (pc[p] # "waitpid" \/ pc[PidIdle] = "halted")

(***************************************************************************)
(* Once init has exited, idle eventually reaps it and shuts down           *)
(* (idleproc_run's do_waitpid(-1), which must find init among its          *)
(* children after init's exit wakes it).                                  *)
(***************************************************************************)
ShutdownFollowsInitExit ==
    slot[PidInit] = "dead" ~> pc[PidIdle] = "halted"
=============================================================================
