# TLA+ models of the Weenix kernel (src/kernel)

This directory holds TLA+ models of the kernel under `src/kernel`, the TLC
configurations that check them, and `PROJECT.json`, which maps every model
definition to the source lines it translates and lists the runs, mutants,
findings and hazards.

## The system

The kernel runs on a single CPU. Its threads are never preempted in kernel
code: a thread runs until it sleeps on a wait queue, yields or exits. Then
`sched_switch` runs the head of the FIFO run queue. These are its parts:

| part | sources | state | operations |
|---|---|---|---|
| scheduler and wait queues | `proc/sched_helper.c` (`proc/sched.c` is not in the sources) | `curthr`, the run queue, `ktqueue_t` wait queues, `kt_state`, `kt_cancelled` | `sched_sleep_on`, `sched_wakeup_on`, `sched_broadcast_on`; from the spec: `sched_switch`, `sched_make_runnable`, `sched_cancellable_sleep_on`, `sched_cancel` |
| kernel mutex | `proc/kmutex.c` | `km_holder`, `km_waitq` | `kmutex_lock`, `kmutex_lock_cancellable`, `kmutex_unlock` |
| threads | `proc/kthread.c` | `kthread_t` | `kthread_create`, `kthread_cancel`, `kthread_exit`, `kthread_clone` |
| processes | `proc/proc.c` | the process list, the pid counter, the parent/child tree, `p_state`, `p_status`, `p_wait` | `proc_create`, `proc_cleanup`, `proc_kill`, `proc_kill_all`, `do_waitpid`, `do_exit` |
| fork | `proc/fork.c` | the child's vmmap, shadow objects, file table | `do_fork`, `copy_vmmap`, `vmmap_revert` |
| memory objects | `vm/shadow.c`, `vm/anon.c` | `mmo_refcount`, `mmo_nrespages`, the shadow chain, the bottom object | `shadow_create`, `shadow_ref/put`, `anon_create`, `anon_ref/put`, `shadow_lookuppage` |
| address space | `vm/vmmap.c` | the ordered vmarea list of a process | `vmmap_create/destroy`, `vmmap_insert`, `vmmap_find_range`, `vmmap_lookup`, `vmmap_clone`, `vmmap_map`, `vmmap_remove`, `vmmap_is_range_empty`, `vmmap_read/write` |
| page faults, mmap, brk | `vm/pagefault.c`, `vm/mmap.c`, `vm/brk.c` | the vmareas, `p_brk` | `handle_pagefault`, `do_mmap`, `do_munmap`, `do_brk` |
| path resolution | `fs/namev.c` | the vnode tree, vnode refcounts | `lookup`, `dir_namev`, `open_namev` |
| file descriptors and VFS calls | `fs/open.c`, `fs/vfs_syscall.c` | `p_files[]`, `f_refcount`, `f_pos`, `f_mode` | `do_open`, `do_close`, `do_dup`, `do_dup2`, `do_read`, `do_write`, `do_mkdir`, `do_rmdir`, `do_unlink`, `do_link`, `do_rename`, `do_lseek`, `do_stat`, ... |
| special files | `fs/vn_special.c` | none beyond the device | byte- and block-device read/write dispatch |
| boot | `main/kmain.c` | the idle and init processes | `bootstrap`, `idleproc_run`, `initproc_create` |

How they interact:
- The mutex and `do_waitpid` sleep on wait queues, and `kthread_cancel` wakes
  cancellable sleepers.
- `proc_cleanup` reparents children to init and wakes the parent sleeping in
  `do_waitpid`.
- `do_fork` clones the vmmap, puts a new shadow object over every private
  mapping in both parent and child, and shares files by reference count.
- Page faults walk the shadow chain.
- `mmap`, `munmap` and `brk` edit the vmarea list through `vmmap_map` and
  `vmmap_remove`.

## Modules

### KMutex (`KMutex.tla`, `MC_KMutex.tla`)

KMutex models one mutex used by a set of threads on the single CPU.

State:
- `holder` is `km_holder` and `waitq` is `km_waitq`.
- `runq` and `curthr` are the scheduler's.
- `kstate` and `cancelled` are `kt_state` and `kt_cancelled`.
- `pc[t]` says where thread t is: idle, at `kmutex_lock`'s loop test, at
  `kmutex_lock_cancellable`'s loop test, back from its cancellable sleep, or
  in its critical section.

Actions:
- Every pass through a loop of `kmutex_lock` or `kmutex_lock_cancellable` is
  one action. It re-tests `km_holder`, then either takes the mutex or sleeps.
  A thread's execution is atomic until it sleeps, so this is faithful.
- `kmutex_unlock` is one action. `sched_wakeup_on` dequeues the head and makes
  it runnable; then `km_holder` is cleared.
- `kthread_cancel` by the running thread on another thread is one action, and
  so are `sched_yield` and `sched_switch`.

The scheduler core (`sched.c`) is not among the sources, so `sched_switch`,
`sched_make_runnable`, `sched_cancel` and `sched_yield` are modelled from the
spec and marked `spec_modelled` in the map.

Fairness:
- The running thread always takes its next step.
- Each thread eventually yields or blocks (`WF` on its yield), because kernel
  threads wait for I/O and children.
- The scheduler runs someone whenever the CPU is free.

The three threads are model values and the run queue starts in a fixed order.
Symmetry is not used, because the initial run-queue order breaks it. Three
threads are the fewest that show the stranded waiter: a holder, a cancellable
waiter and a plain waiter. Their interleavings are checked exhaustively.

Runs:
- `kmutex_safety` (pass) checks four invariants:
  - mutual exclusion;
  - the holder is always in its critical section, so no `-EINTR` path leaks
    the mutex;
  - queue discipline: each thread is in exactly one of running, the run queue
    or the wait queue, asleep exactly when it is on the wait queue;
  - the type invariant.

  It also checks that a cancelled cancellable sleeper always returns, and
  that KMutex implements the abstract mutex `MutexSpec` (below).

Refinement (`MutexSpec.tla`). `MutexSpec` states what the comments in
`kmutex.c` promise, with no queues and no scheduler. It has an owner, how
each thread waits (not at all, in `kmutex_lock`, or in
`kmutex_lock_cancellable`) and the set of threads with a pending cancel.
- A free mutex is taken by one thread.
- A cancellable waiter takes it only if it has not been cancelled.
- Only the owner releases it.
- A thread gets `-EINTR` only when it has been cancelled and does not hold
  the mutex.

KMutex instantiates it with `owner <- holder`, the waiting kind read from
`pc`, and `cancel <- {t : kt_cancelled}`. `ImplementsMutexSpec` is checked
as a PROPERTY. Its mutant returns `-EINTR` on every return from the
cancellable sleep, wakeups by `kmutex_unlock` included. No invariant notices
that: the thread is idle and off every queue, so only the refinement does.

- `kmutex_stranded` (violation) shows a code bug. `kmutex_unlock` clears the
  holder and wakes the head waiter. If that waiter sleeps in
  `kmutex_lock_cancellable` and is cancelled before it runs, it returns
  `-EINTR` without taking the mutex and without waking the next waiter. A
  thread asleep in `kmutex_lock` then sleeps on a free mutex until some
  unrelated lock and unlock happens, which may be never.

  The root is `kmutex_unlock` itself, which frees the mutex instead of
  handing it to the woken waiter as its comment and the spec (section 5)
  describe. The same line also lets a releaser that locks again overtake
  the woken waiter.

### VmArea (`VmArea.tla`)

VmArea holds the list algorithms of `vmmap.c` as pure operators over a
sequence of areas `[start, end)` sorted by start:
- `VmmapInsert` is `vmmap_insert`;
- `FindLoHi` and `FindHiLo` are the two directions of `vmmap_find_range`,
  written as RECURSIVE walks of the list;
- `VmmapLookup` is `vmmap_lookup`;
- `VmmapIsRangeEmpty` is `vmmap_is_range_empty`.

It also gives reference definitions over the set of mapped pages:
`MappedPages`, `FreeStarts`, `FirstFit` and `WellFormed`. VmObjects extends
VmArea, and its `vm_remove` run compares the operators with the references
on every map that mmap, munmap and the splits of `vmmap_remove` build
(below).

### VmObjects (`VmObjects.tla`, `MC_VmObjects.tla`)

VmObjects models the memory-object graph together with the address spaces
that hold it.

State:
- `mo[o]` is object slot o: its kind, `mmo_refcount`, the set of resident
  pages, `mmo_shadowed` and the bottom object.
  - Slot 0 is the `vn_mmobj` of one open file.
  - Slots 1..NObjs are allocated by `anon_create` and `shadow_create`. An
    allocation fails with `-ENOMEM` when no slot is free.
- `vmas[p]` is the vmarea list of process p.
- `olink[v]` is the bottom object whose `mmo_vmas` list holds area v's
  `vma_olink`.
- `fk` is the fork in progress.
- `ret` is what the last step returned.
- `startbrk` is `p_start_brk`, shared by every process because fork copies
  it, and `brk[p]` is `p_brk`. Addresses are counted in `PageSize` units per
  page, so a break can sit inside a page. `startbrk = 0` is a process made by
  `proc_create` with no ELF image. A nonzero start gives the first process
  the loader's data area, pages `UserLo` up to the page holding the start,
  backed by anonymous object 1.

Actions:
- `DoMmap` covers `do_mmap` and `vmmap_map`, including the removal of a fixed
  range before the allocations that can fail.
- `DoMunmap` covers `do_munmap` and all four cases of `vmmap_remove`, plus the
  split, whose `vmarea_alloc` can fail.
- `HandlePagefault` covers `handle_pagefault` with `pframe_lookup`. A write
  fault on a shadow object copies the first resident page down the chain, or
  the bottom object's page.
- `DoExit` is `vmmap_destroy` from `proc_cleanup`.
- `ForkBegin`, `ForkStep` and `ForkFinish` cover `do_fork`:
  - `ForkBegin` is `vmmap_clone`.
  - `ForkStep` is one iteration of `copy_vmmap`'s loop, with
    `setup_shadow_objects`. On a failure it runs `vmmap_revert` and destroys
    the child's map.
  - `ForkFinish` covers `setup_thread`, which can fail, and its revert. On
    success it copies the break (`set_brk_vals`).
- `DoBrk` covers `do_brk`:
  - `brk(0)` and an unchanged break;
  - the bounds `start_brk` and `USER_MEM_HIGH`;
  - a move within one page;
  - growth, with the collision test on `[old end, new end)`. The first growth
    maps the heap area with `MAP_FIXED` through `vmmap_map`. Later growth
    sets the end of the area `vmmap_lookup` finds at the page of
    `start_brk`;
  - shrinking, which returns `-EFAULT` when that lookup fails.
  Page tables are not modelled, so `pt_unmap_range` is a no-op here.

A call's own puts and refs are part of its action.

Some code is not among the sources and is modelled from the spec:
- `pframe_get`, `pframe_free` and `mmobj_bottom_obj`;
- the file's `mmap` operation.

Bounds:
- `MaxRef` caps `mmo_refcount`. The anonymous-private fork leak (below) lets
  refcounts grow without limit, and steps beyond the cap are not explored.
- `FaultPages` is the set of pages faults are tried on.
- `MmapLos` and `UnmapLos` are the fixed addresses tried by `mmap` and
  `munmap`. `StartBrks` and `BrkAddrs` are the starting breaks and the
  arguments tried by `brk`.

Runs:
- `vm_brk` (pass): two processes and three pages, with four object and area
  slots. The first process starts with its data area and a break of 3 (in
  the middle of page 1) or 4 (aligned at page 2). Mappings are anonymous
  private, file private and file shared, placed by first fit. Processes grow
  and shrink the break, fault, fork and exit. The run checks seven properties:
  - the heap area ends at the break's page (`HeapMatchesBreak`);
  - the areas of a map are sorted and disjoint (`RegionsDisjoint`, spec
    section 8);
  - no object is freed while a holder (an area, a shadow above it, or its
    own resident pages) still refers to it;
  - every shadow chain ends at its bottom object;
  - every area is on its bottom object's list;
  - copy-on-write, spec section 8 invariant 4 (`WritesStayPrivate`). A
    write to a private area lands in the area's own object. Another area
    whose shadow chain reaches that object, at a page both map, must have a
    shadow above it that already holds the page. So after a fork neither
    side reads what the other writes;
  - a failed fork restores the parent's areas exactly.
  Four slots let `copy_vmmap` fail on the second area after shadowing the
  first, so `vmmap_revert` really walks areas. Without `munmap`, the grown
  heap area is never split.
- `vm_brk_overlap` (violation, code bug): with `munmap` at fixed addresses,
  TLC finds this sequence from a start of 3:
  1. `brk(8)` makes the heap area pages [1,4);
  2. `munmap` of page 2 leaves [1,2) and [3,4);
  3. `brk(9)` tests only the new page 4 for collisions, then stretches [1,2)
     to [1,5), over [3,4).
  This contradicts brk.c's own comment (lines 32-36) and the spec's ordering
  invariant.
- `vm_remove` (pass): one process, three pages, and private mappings. It
  reaches all four cases of `vmmap_remove` and the split. Every reference
  count equals its number of holders, and every area stays on its bottom
  object's list. On every map so built it also checks VmArea's algorithms:
  - the list stays sorted and disjoint (`InsertKeepsOrder`);
  - `vmmap_find_range` is first fit in both directions and fails exactly
    when no run of free pages is long enough (`FindRangeIsFirstFit`);
  - `vmmap_lookup` and `vmmap_is_range_empty` agree with the mapped pages
    (`LookupAndEmptyAgree`).
  It also checks `WritesStayPrivate` on the splits. The two halves of a
  split area share one object, and the right half's `vma_off` must move,
  so the halves map disjoint pages of it.
  Three pages give maps with gaps at both ends of the user range and
  adjacent areas, which is where off-by-one errors show.
- `vm_leak` (violation, code bug): `setup_shadow_obj` refs the bottom object
  of the new shadow, but `shadow_put` releases the bottom only when it
  differs from `mmo_shadowed`. Every fork of an anonymous private area leaks
  one reference, even one that fails and is reverted. The shortest trace is
  an anonymous mmap, a fork whose `vmmap_clone` fails and is reverted, and
  the parent's exit: the anonymous object stays allocated with a reference
  nobody holds.
- `vm_dangling_vma` (violation, code bug): `vmmap_destroy` frees areas without
  unlinking `vma_olink`. `BottomListsLive` says the list of every object
  that is not freed holds only existing areas. The shortest trace is a
  private mmap of a file and the process's exit: the file object, still held
  by its vnode, keeps a link into a freed area, which the next mmap of the
  file writes through.

`vm_brk` and `vm_remove` use `CHECK_DEADLOCK FALSE`. When every
process has exited, or the `MaxRef` cap blocks every step, the system really
stops.

The clone-failure branch of `ForkBegin` (`vmmap_clone` out of area slots) is
modelled but no passing run reaches it. It needs a parent with two areas and
fewer free slots than that, which no configuration that finishes in time
combines with a fork.

Two more `do_brk` hazards are recorded without a property:
- With an aligned start, `brk(start_brk)` leaves a zero-length heap area.
  That area and its object stay until exit, and the next growth maps a new
  area.
- Shrinking leaves the pages resident in the heap object. Growing again
  shows their old contents.

`vmmap_map` calls `vmmap_remove` on a fixed range before allocations that can
fail. That contradicts its comment (lines 324-326). The model follows the
code, and the case is recorded as a hazard.

### Proc (`Proc.tla`, `MC_Proc.tla`)

Proc models the process list and tree, from boot to shutdown.

State:
- `slot[p]` is free, running or dead;
- `pproc` and `children` are `p_pproc` and `p_children`, as sequences in
  list order;
- `nextpid` is `next_pid`;
- `pc`, `asleep` and `waitfor` say where a process's thread is: idle's
  thread in `idleproc_run` before it waits, user code, or asleep in
  `do_waitpid` for any child or for one.

Actions:
- `Init` is the state before boot, with no processes and `next_pid` 0.
- `Bootstrap` is `bootstrap`, where `proc_create("idle")` runs with no
  current process.
- `IdleprocRun` covers `idleproc_run` up to its `do_waitpid(-1)`:
  - `initproc_create` makes pid 1, idle's child;
  - idle then sleeps waiting for init.
  The cwd references and the `/dev` nodes made in between are file-system
  calls, which VfsNames covers.
- `ProcCreate` is `proc_create` through fork. `_proc_getid` is the RECURSIVE
  `GetIdFrom`, which wraps modulo `PROC_MAX_COUNT` (`MaxPids`).
- `DoExit` covers the whole exit path:
  - `do_exit`, `kthread_cancel` of the current thread and `kthread_exit`;
  - `proc_cleanup` (`ProcCleanup`), which moves the children to the tail of
    init's list and broadcasts on the parent's `p_wait`.
  The broadcast is `sched_broadcast_on` (`SchedBroadcastOn`). The only
  thread that ever sleeps on a `p_wait` is its process's own, so the
  broadcast wakes that one thread.
- `ProcKillAll` is `proc_kill_all` with `proc_kill`, as `sys_halt` calls it.
  - Cancelling another process only sets its `kt_cancelled` flag, because
    `do_waitpid`'s sleep is not cancellable.
  - Only `kmutex_lock_cancellable` reads that flag, and KMutex models it.
  - So the only effect here is that a caller other than idle or init exits.
- `DoWaitpid` covers `do_waitpid`:
  - ECHILD;
  - `pid == -1`, which reaps the first dead child in list order or sleeps;
  - `pid > 0`.
- `WaitpidResume` is the re-test after a wakeup.
- Idle (pid 0) halts after reaping init, as `idleproc_run` does.

Fairness: `FairSpec` adds weak fairness of `WaitpidResume` for each pid.
- The scheduler is non-preemptive with a FIFO run queue. A waiter woken by
  `sched_broadcast_on` is on that queue, and runs once the threads ahead of
  it block or exit.
- User code gets no fairness: a process never has to fork, exit or wait.

Runs:
- `proc_tree` (pass): boot, then five pids, so allocation wraps and reuses
  pids. It checks five properties:
  - the type invariant;
  - parent links and child lists agree, with every process on exactly one
    list;
  - only dead processes are ever reaped;
  - a parent asleep in `do_waitpid(c)` after c has exited eventually returns,
    unless the system shuts down first (`WaitpidReturns`);
  - once init exits, idle eventually reaps it and halts
    (`ShutdownFollowsInitExit`).
  The same property is not stated for `do_waitpid(-1)` in general. The
  lost wakeup below breaks it.
- `proc_zombie_wakeup` (violation): a process exits and hands its zombie
  child to init. It wakes only its own parent, so init can sleep in
  `waitpid(-1)` beside a child it could reap.

Not modelled: the thread objects. Every process has one thread, so
`kthread_create`'s allocation, `kthread_clone` and `kthread_destroy` are left
out. Nothing under `src/` calls `kthread_destroy`, so every reaped process
leaks its thread and kernel stack. That leak is recorded as a hazard.

### FdTable (`FdTable.tla`, `MC_FdTable.tla`)

FdTable models the file-descriptor tables of a set of processes.

State:
- `ftab[p][fd]` is `p_files`.
- Each file slot has `f_refcount`, `f_vnode`, `f_mode` and `f_pos`.
- Each vnode has the references held through files and `vn_len`.

Actions:
- `DoOpen` covers `get_empty_fd`, `fget(-1)`, `open_namev` and the EISDIR
  path. `open_namev`'s result is an input: any vnode, or an error.
- `DoClose`, `DoDup`, `DoDup2`, `DoLseek` and `DoGetdent` model the system
  calls of the same names.
- `do_read` and `do_write` are split at the vnode operation, which may sleep
  on a busy page frame or a tty. `ReadBegin` and `WriteBegin` take the `fget`
  reference (and, for `O_APPEND`, seek to `vn_len`). `ReadEnd` and `WriteEnd`
  do `f_pos += count` and `fput`.
- `CopyFiletable` is fork's `copy_filetable`.
- `CloseAll` is the close loop of `proc_cleanup`.

`fget`, `fref` and `fput` live in `fs/file.c`, which is not among the sources.
They are modelled from the spec (`FRef`, `PutRef`, `Settle`). The last `fput`
vputs the vnode.

A failed `KASSERT` sets `panic`, which stops every further step. This is why
the pass run uses `CHECK_DEADLOCK FALSE`.

Bounds:
- `MaxPos` bounds positions. A read or write starts only where every process
  could still advance the position by one.
- The file slots are symmetric.

Runs:
- `fd_refcounts` (pass): two processes, two descriptors, two file slots, a
  directory and a regular file. Every file's refcount equals its holders: the
  descriptor slots plus the processes asleep in a read or write on it. Every
  vnode's reference count equals the number of live files on it. This holds
  through dup, dup2, fork, exit and every error path.
- `fd_shared_write_panic` (violation, code bug): two processes share a
  regular file through fork. One sleeps in the write operation at `f_pos`;
  the other moves `f_pos`, by lseek or its own write. The first then adds its
  count to the moved `f_pos`, and the `KASSERT` at `vfs_syscall.c:135`
  panics.

### VfsNames (`VfsNames.tla`, `MC_VfsNames.tla`)

VfsNames models path resolution (`namev.c`) and the system calls of
`vfs_syscall.c` that act on names. Processes each have their own cwd.

State:
- `kind[v]` is the type of vnode slot v (`dir`, `chr`, `blk`, or `free`).
- `ent[d][nm]` is the vnode that directory d names nm. A directory holds
  "." and "..".
- `vref[v]` is `vn_refcount`.
- `cwd[p]` is `p_cwd`.

A path is a sequence of tokens: `Slash` or a name. A name is a model value
with a length (`NameLen`), which is all the code looks at besides its
identity. The model has six names: "a", "b", ".", "..", `L` of exactly
`NAME_LEN` characters, and `T`, which is longer.

Path resolution:
- `Lookup` is `lookup`.
- `Walk` and `Descend` are the character loop of `dir_namev`. A slash after
  a name looks the name up and moves to the child, vputting the parent.
  Repeated slashes collapse.
- `DirNamev` adds the empty-path check, the start (the root or the base,
  with a vref) and the basename check.
- `OpenNamev` is `open_namev` without `O_CREAT`. `O_CREAT` comes only from
  `do_open`, which FdTable models.

Every operator returns its error, its vnode, and the reference deltas of
every vref and vput it made. So a missing or extra vput on any error path
shows in the counts.

System calls:
- Each call is one step of a process: `Mknod`, `Mkdir`, `Rmdir`, `Unlink`,
  `Link`, `Rename` and `Chdir`.
- Each step of a call is an operator given the result of the step before:
  `MkdirIn` takes dir_namev's result, and `MkdirLooked` takes lookup's.
- `do_rename` is `do_link` then `do_unlink` on the tree the link left.
- `do_stat` changes no state. It is checked in `OpenNamevResolves`.

The file system's vnode operations (`mkdir`, `mknod`, `rmdir`, `unlink`,
`link`) and `vref`/`vput` are not under `src/`. They are modelled from the
spec:
- a new vnode takes a free slot, or the call fails with ENOSPC;
- rmdir refuses a directory with entries besides "." and "..";
- a vnode is freed once no entry (other than ".") and no reference holds it
  (`Reclaim`).

Bounds: two processes and four vnode slots, one of them the root. Calls take
paths from a fixed set: relative and absolute paths, paths through a
directory, a trailing slash, a doubled slash, "." and "..", the empty path,
and both long names. The three non-root slots are symmetric. Every slot can
fill up, a directory can be another process's cwd when it is removed, and a
device can have two names.

Run `vfs_names` (pass) checks six properties:
- `VnodeRefsBalanced` (spec 8.1): every `vn_refcount` equals the
  references that live on: one for the root, plus one per process whose
  cwd the vnode is.
- `DirTreeWellFormed`: every directory's "." is itself, and each directory
  has exactly one name, in the directory its ".." names.
- `CwdIsLiveDirectory`: a cwd stays an allocated directory, even after
  another process rmdirs it.
- `OpenNamevResolves`: `open_namev` agrees with a reference resolution
  written per component (`RefResolve`, a `FoldLeft` over the components). It
  is checked on every path of up to three tokens over "/", "a", "..", `L`
  and `T`, from every cwd. The check covers the error, the vnode, and that
  success leaves exactly one new reference and failure none. It also checks
  that `do_stat` gives back every reference it takes.
- `RenameAllOrNothing`: from every reachable state, any rename by any
  process either changes nothing, or removes the old name and leaves the new
  name on the same vnode.
- `TypeOK`.

What the model does not reach:
- A call is one step. The file system operations can sleep on disk I/O, but
  that code is outside `src/`. Two things that need another process to act
  during a call are therefore hazards without a property:
  - the unlink of a rename failing after its link succeeded;
  - two creators of the same name both passing the EEXIST check.
- One file system, so `do_link`'s EXDEV branch cannot be taken. Nor can the
  "no such vnode operation" branches: a parent that lookup answered is a
  directory.

Spec divergence recorded here: `dir_namev` rejects a basename of exactly
`NAME_LEN` characters (`file_len >= NAME_LEN`, `namev.c:171`). `lookup` and
the directory components accept that length (`> NAME_LEN`). Spec section 7
calls only a component *beyond* the maximum too long. So a name of exactly
`NAME_LEN` characters can never be created, opened or removed through these
calls. `OpenNamevResolves` pins the code's two limits, and the divergence
is listed as a hazard.

## Plan

Done so far:
- KMutex, refining MutexSpec;
- VmArea;
- VmObjects, with `do_brk` and copy-on-write;
- Proc, with boot, `proc_kill_all` and `do_waitpid` liveness;
- FdTable;
- VfsNames.

Still to come:
1. Threads: the `kt_cancelled` flag that `proc_kill_all` sets, carried into
   KMutex's cancellable sleeps, so that Proc and KMutex share one
   scheduler.

Left out for good:
- device drivers, `vn_special.c` dispatch, and formatting in
  `proc_info`/`proc_list_info`, which are pure I/O;
- in `kmain.c`, `initproc_run` (it only execs `sbin/init`) and the kernel
  shell commands;
- page-table manipulation below `pt_map`.
