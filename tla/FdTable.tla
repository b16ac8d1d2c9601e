------------------------------ MODULE FdTable ------------------------------
(***************************************************************************)
(* Per-process file-descriptor tables, the shared file_t objects they point *)
(* to, and the vnode references those files hold.                          *)
(*                                                                         *)
(* Sources: src/kernel/fs/open.c (get_empty_fd, do_open),                  *)
(* src/kernel/fs/vfs_syscall.c (do_read, do_write, do_close, do_dup,       *)
(* do_dup2, do_getdent, do_lseek), src/kernel/proc/fork.c                  *)
(* (copy_filetable) and src/kernel/proc/proc.c (the close loop of          *)
(* proc_cleanup).  fget/fref/fput live in fs/file.c, outside src/, and are *)
(* modelled from the spec: fget(fd) takes a reference, fget(-1) allocates  *)
(* a file with one reference and no vnode, and the fput that drops the     *)
(* last reference vputs the file's vnode and frees it.                     *)
(*                                                                         *)
(* The vnode read and write operations may sleep (a busy pframe, a tty     *)
(* waiting for input), so do_read and do_write are each split at that call *)
(* into a Begin and an End step, between which other processes run.  The  *)
(* data moved is one byte per call; a position is a number of bytes.       *)
(***************************************************************************)
EXTENDS Naturals, Integers, FiniteSets, FiniteSetsExt

CONSTANTS
    Procs,       \* process slots
    InitProc,    \* the process present at boot, which never exits here
    NFILES,      \* size of p_files[]
    Files,       \* file_t slots of the file allocator
    Vnodes,      \* vnodes reachable by open_namev
    VKind,       \* [Vnodes -> {"dir","reg","chr"}]
    MaxPos       \* bound on f_pos and vn_len

ASSUME InitProc \in Procs /\ NFILES \in Nat \ {0}
ASSUME VKind \in [Vnodes -> {"dir", "reg", "chr"}]

Fds == 0..NFILES-1
NoFile == "NoFile"
NoVnode == "NoVnode"
Modes == {"read", "write", "append"}
\* A position every in-flight read or write may still advance by one.
PosCap == MaxPos - Cardinality(Procs)
Idle == [op |-> "none", file |-> NoFile, pos |-> 0]

VARIABLES
    status,   \* "running" or "free"
    ftab,     \* ftab[p][fd]: p->p_files[fd]
    fref,     \* f_refcount; 0 means the slot is free
    fvn,      \* f_vnode
    fmode,    \* f_mode
    fpos,     \* f_pos
    vref,     \* vnode references held through files
    vlen,     \* vn_len
    busy,     \* the read or write a process is asleep in
    panic     \* a KASSERT has failed and the kernel has stopped

vars == <<status, ftab, fref, fvn, fmode, fpos, vref, vlen, busy, panic>>

TypeOK ==
    /\ status \in [Procs -> {"running", "free"}]
    /\ ftab \in [Procs -> [Fds -> Files \cup {NoFile}]]
    /\ fref \in [Files -> Nat]
    /\ fvn \in [Files -> Vnodes \cup {NoVnode}]
    /\ fmode \in [Files -> SUBSET Modes]
    /\ fpos \in [Files -> 0..MaxPos]
    /\ vref \in [Vnodes -> Nat]
    /\ vlen \in [Vnodes -> 0..MaxPos]
    /\ busy \in [Procs -> [op : {"none", "read", "write"},
                           file : Files \cup {NoFile}, pos : 0..MaxPos]]
    /\ panic \in BOOLEAN

(* A process that can make a system call: running, not asleep in a vnode  *)
(* operation, and the kernel has not panicked.                           *)
Ready(p) == status[p] = "running" /\ busy[p].op = "none" /\ ~panic

(* fref: one more reference.                                               *)
FRef(fr, f) == [fr EXCEPT ![f] = @ + 1]
(* fput without the release: one reference fewer.                          *)
PutRef(fr, f) == [fr EXCEPT ![f] = @ - 1]
(* The fput side effects of moving from fref to newfref: every file whose  *)
(* last reference went away vputs its vnode and is freed.                  *)
Settle(newfref) ==
    LET released == {f \in Files : fref[f] > 0 /\ newfref[f] = 0}
    IN  /\ fref' = newfref
        /\ vref' = [v \in Vnodes |->
                      vref[v] - Quantify(released, LAMBDA f : fvn[f] = v)]

(* get_empty_fd: the lowest free descriptor, or -1 for EMFILE.             *)
GetEmptyFd(p) ==
    IF \E fd \in Fds : ftab[p][fd] = NoFile
    THEN Min({fd \in Fds : ftab[p][fd] = NoFile})
    ELSE -1

IsOpen(p, fd) == fd \in Fds /\ ftab[p][fd] # NoFile

-----------------------------------------------------------------------------
(* do_open.  acc is the access mode in oflags (including an invalid one),  *)
(* app the O_APPEND bit, res what open_namev returns: a vnode carrying one *)
(* new reference, or an error.                                             *)
OpenModeBits(acc, app) ==
    (CASE acc = "rdonly" -> {"read"}
       [] acc = "wronly" -> {"write"}
       [] acc = "rdwr"   -> {"read", "write"})
    \cup (IF app THEN {"append"} ELSE {})

(* A do_open whose EISDIR path returns without vput(vn).                  *)
OpenVrefNoPut(v, isdir) == [vref EXCEPT ![v] = @ + 1]

(* The vnode references open_namev took and do_open kept: on EISDIR the    *)
(* vnode is vput again.                                                    *)
OpenVref(v, isdir) ==
    IF isdir THEN vref ELSE [vref EXCEPT ![v] = @ + 1]

DoOpen(p, acc, app, res) ==
    /\ Ready(p)
    /\ LET fd == GetEmptyFd(p)
           freeFiles == {f \in Files : fref[f] = 0}
       IN
       IF acc \notin {"rdonly", "wronly", "rdwr"} \/ fd = -1
          \/ freeFiles = {} \/ res = "error"
       THEN UNCHANGED vars   \* EINVAL, EMFILE, ENOMEM, or open_namev's error
       ELSE
         LET f == CHOOSE g \in freeFiles : TRUE
             isdir == VKind[res] = "dir" /\ acc \in {"wronly", "rdwr"}
         IN /\ vref' = OpenVref(res, isdir)
            /\ IF isdir
               THEN UNCHANGED <<ftab, fref, fvn, fmode, fpos>>
               ELSE /\ ftab' = [ftab EXCEPT ![p][fd] = f]
                    /\ fref' = [fref EXCEPT ![f] = 1]
                    /\ fvn' = [fvn EXCEPT ![f] = res]
                    /\ fmode' = [fmode EXCEPT ![f] = OpenModeBits(acc, app)]
                    /\ fpos' = [fpos EXCEPT ![f] = 0]
            /\ UNCHANGED <<status, vlen, busy, panic>>

(* do_close: clear the slot, fput the file.                                *)
DoClose(p, fd) ==
    /\ Ready(p)
    /\ IsOpen(p, fd)
    /\ ftab' = [ftab EXCEPT ![p][fd] = NoFile]
    /\ Settle(PutRef(fref, ftab[p][fd]))
    /\ UNCHANGED <<status, fvn, fmode, fpos, vlen, busy, panic>>
(* do_dup: fget the file, install it in the lowest free slot; on EMFILE   *)
(* the reference taken by fget is fput again.                              *)
DoDup(p, fd) ==
    /\ Ready(p)
    /\ IsOpen(p, fd)
    /\ LET f == ftab[p][fd]
           newfd == GetEmptyFd(p)
       IN IF newfd = -1
          THEN /\ Settle(PutRef(FRef(fref, f), f))
               /\ UNCHANGED ftab
          ELSE /\ ftab' = [ftab EXCEPT ![p][newfd] = f]
               /\ Settle(FRef(fref, f))
    /\ UNCHANGED <<status, fvn, fmode, fpos, vlen, busy, panic>>

(* A do_dup2 that returns early for ofd = nfd without the fput.            *)
DoDup2SameNoPut(p, ofd, nfd) ==
    /\ Ready(p)
    /\ IsOpen(p, ofd)
    /\ LET f == ftab[p][ofd]
           fr1 == FRef(fref, f)
       IN IF nfd \notin Fds
          THEN /\ Settle(PutRef(fr1, f))
               /\ UNCHANGED ftab
          ELSE IF nfd = ofd
          THEN /\ Settle(fr1)
               /\ UNCHANGED ftab
          ELSE LET old == ftab[p][nfd]
               IN /\ ftab' = [ftab EXCEPT ![p][nfd] = f]
                  /\ Settle(IF old # NoFile THEN PutRef(fr1, old) ELSE fr1)
    /\ UNCHANGED <<status, fvn, fmode, fpos, vlen, busy, panic>>

(* do_dup2: fget ofd; an out-of-range nfd, or nfd = ofd, fputs it again;  *)
(* otherwise an open nfd is do_close'd and then points at ofd's file.      *)
DoDup2(p, ofd, nfd) ==
    /\ Ready(p)
    /\ IsOpen(p, ofd)
    /\ LET f == ftab[p][ofd]
           fr1 == FRef(fref, f)
       IN IF nfd \notin Fds \/ nfd = ofd
          THEN /\ Settle(PutRef(fr1, f))
               /\ UNCHANGED ftab
          ELSE LET old == ftab[p][nfd]
               IN /\ ftab' = [ftab EXCEPT ![p][nfd] = f]
                  /\ Settle(IF old # NoFile THEN PutRef(fr1, old) ELSE fr1)
    /\ UNCHANGED <<status, fvn, fmode, fpos, vlen, busy, panic>>

(* do_read up to the vnode's read operation: EISDIR and EBADF return with *)
(* the fget balanced; otherwise the process sleeps in read at f_pos,       *)
(* holding its reference.                                                  *)
ReadBegin(p, fd) ==
    /\ Ready(p)
    /\ IsOpen(p, fd)
    /\ LET f == ftab[p][fd]
       IN /\ fpos[f] <= PosCap
          /\ IF VKind[fvn[f]] = "dir" \/ "read" \notin fmode[f]
             THEN UNCHANGED vars
             ELSE /\ fref' = FRef(fref, f)
                  /\ busy' = [busy EXCEPT ![p] =
                               [op |-> "read", file |-> f, pos |-> fpos[f]]]
                  /\ UNCHANGED <<status, ftab, fvn, fmode, fpos, vref,
                                 vlen, panic>>

(* The byte count the read operation returns: a regular file has a byte   *)
(* at pos only below vn_len; a tty always delivers one.                    *)
ReadCount(v, pos) ==
    IF VKind[v] = "chr" \/ pos < vlen[v] THEN 1 ELSE 0

(* do_read after the read operation: f_pos += count, then fput.           *)
ReadEnd(p) ==
    /\ busy[p].op = "read"
    /\ ~panic
    /\ LET f == busy[p].file
       IN /\ fpos' = [fpos EXCEPT ![f] = @ + ReadCount(fvn[f], busy[p].pos)]
          /\ Settle(PutRef(fref, f))
    /\ busy' = [busy EXCEPT ![p] = Idle]
    /\ UNCHANGED <<status, ftab, fvn, fmode, vlen, panic>>

(* do_write up to the vnode's write operation: EBADF without FMODE_WRITE   *)
(* or without a write operation (a directory); O_APPEND moves f_pos to     *)
(* vn_len first.  The process then sleeps in write at f_pos.               *)
WriteBegin(p, fd) ==
    /\ Ready(p)
    /\ IsOpen(p, fd)
    /\ LET f == ftab[p][fd]
           v == fvn[f]
           pos == IF "append" \in fmode[f] THEN vlen[v] ELSE fpos[f]
       IN /\ fpos[f] <= PosCap /\ vlen[v] <= PosCap
          /\ IF "write" \notin fmode[f] \/ VKind[v] = "dir"
             THEN UNCHANGED vars
             ELSE /\ fpos' = [fpos EXCEPT ![f] = pos]
                  /\ fref' = FRef(fref, f)
                  /\ busy' = [busy EXCEPT ![p] =
                               [op |-> "write", file |-> f, pos |-> pos]]
                  /\ UNCHANGED <<status, ftab, fvn, fmode, vref, vlen, panic>>

(* The length of v after one byte is written at pos: a regular file grows *)
(* to cover it, a device has no length.                                    *)
LenAfterWrite(v, pos) ==
    IF VKind[v] = "reg" THEN Max({vlen[v], pos + 1}) ELSE vlen[v]

(* do_write after the write operation.  ok is whether it succeeded; on    *)
(* success f_pos += count and the KASSERT that a regular file's f_pos is  *)
(* within vn_len is evaluated; a failed KASSERT stops the kernel.          *)
WriteEnd(p, ok) ==
    /\ busy[p].op = "write"
    /\ ~panic
    /\ LET f == busy[p].file
           v == fvn[f]
       IN /\ IF ok
             THEN /\ vlen' = [vlen EXCEPT ![v] = LenAfterWrite(v, busy[p].pos)]
                  /\ fpos' = [fpos EXCEPT ![f] = @ + 1]
                  /\ panic' = (VKind[v] = "reg" /\ fpos'[f] > vlen'[v])
             ELSE UNCHANGED <<vlen, fpos, panic>>
          /\ Settle(PutRef(fref, f))
    /\ busy' = [busy EXCEPT ![p] = Idle]
    /\ UNCHANGED <<status, ftab, fvn, fmode>>
(* A do_lseek without the check for a negative result.                   *)
LseekAcceptsAny(np) == TRUE

(* do_lseek's acceptance of the new position: EINVAL when negative.        *)
LseekAccepts(np) == np >= 0

(* do_lseek: SEEK_SET, SEEK_CUR or SEEK_END by off; any other whence, or a *)
(* negative result, is EINVAL.  fget and fput balance on every path.       *)
DoLseek(p, fd, off, whence) ==
    /\ Ready(p)
    /\ IsOpen(p, fd)
    /\ LET f == ftab[p][fd]
           np == CASE whence = "set" -> off
                   [] whence = "cur" -> fpos[f] + off
                   [] whence = "end" -> vlen[fvn[f]] + off
                   [] OTHER          -> -1
       IN IF whence \notin {"set", "cur", "end"} \/ ~LseekAccepts(np)
          THEN UNCHANGED vars
          ELSE /\ np <= PosCap
               /\ fpos' = [fpos EXCEPT ![f] = np]
               /\ UNCHANGED <<status, ftab, fref, fvn, fmode, vref, vlen,
                              busy, panic>>

(* do_getdent: ENOTDIR unless the file is a directory; readdir returns    *)
(* one entry while f_pos is below the directory's length and 0 at the end, *)
(* and f_pos advances by what it returned.                                 *)
DoGetdent(p, fd) ==
    /\ Ready(p)
    /\ IsOpen(p, fd)
    /\ LET f == ftab[p][fd]
           v == fvn[f]
       IN IF VKind[v] # "dir"
          THEN UNCHANGED vars
          ELSE /\ fpos' = [fpos EXCEPT ![f] =
                             @ + (IF fpos[f] < vlen[v] THEN 1 ELSE 0)]
               /\ UNCHANGED <<status, ftab, fref, fvn, fmode, vref, vlen,
                              busy, panic>>

(* Number of p's descriptors that point at f.                              *)
Occ(p, f) == Quantify(Fds, LAMBDA fd : ftab[p][fd] = f)

(* copy_filetable during fork: the child c gets the parent's table and    *)
(* every entry is fref'd.                                                  *)
CopyFiletable(p, c) ==
    /\ Ready(p)
    /\ status[c] = "free"
    /\ status' = [status EXCEPT ![c] = "running"]
    /\ ftab' = [ftab EXCEPT ![c] = ftab[p]]
    /\ fref' = [f \in Files |-> fref[f] + Occ(p, f)]
    /\ UNCHANGED <<fvn, fmode, fpos, vref, vlen, busy, panic>>

(* proc_cleanup's loop: do_close every open descriptor of the exiting     *)
(* process; the slot is then free for a later fork.                        *)
CloseAll(p) ==
    /\ Ready(p)
    /\ p # InitProc
    /\ status' = [status EXCEPT ![p] = "free"]
    /\ ftab' = [ftab EXCEPT ![p] = [fd \in Fds |-> NoFile]]
    /\ Settle([f \in Files |-> fref[f] - Occ(p, f)])
    /\ UNCHANGED <<fvn, fmode, fpos, vlen, busy, panic>>

-----------------------------------------------------------------------------
AccModes == {"rdonly", "wronly", "rdwr", "invalid"}
Whences == {"set", "cur", "end", "invalid"}
Offsets == {-1, 1}

Init ==
    /\ status = [p \in Procs |-> IF p = InitProc THEN "running" ELSE "free"]
    /\ ftab = [p \in Procs |-> [fd \in Fds |-> NoFile]]
    /\ fref = [f \in Files |-> 0]
    /\ fvn = [f \in Files |-> NoVnode]
    /\ fmode = [f \in Files |-> {}]
    /\ fpos = [f \in Files |-> 0]
    /\ vref = [v \in Vnodes |-> 0]
    \* a directory holds "." and ".."; files and devices start empty
    /\ vlen = [v \in Vnodes |-> IF VKind[v] = "dir" THEN 2 ELSE 0]
    /\ busy = [p \in Procs |-> Idle]
    /\ panic = FALSE

Next ==
    \E p \in Procs :
        \/ \E acc \in AccModes, app \in BOOLEAN, res \in Vnodes \cup {"error"} :
              DoOpen(p, acc, app, res)
        \/ \E fd \in Fds :
              \/ DoClose(p, fd)
              \/ DoDup(p, fd)
              \/ \E nfd \in Fds \cup {NFILES} : DoDup2(p, fd, nfd)
              \/ ReadBegin(p, fd)
              \/ WriteBegin(p, fd)
              \/ \E off \in Offsets, wh \in Whences : DoLseek(p, fd, off, wh)
              \/ DoGetdent(p, fd)
        \/ ReadEnd(p)
        \/ \E ok \in BOOLEAN : WriteEnd(p, ok)
        \/ \E c \in Procs : CopyFiletable(p, c)
        \/ CloseAll(p)

Spec == Init /\ [][Next]_vars

-----------------------------------------------------------------------------
(* Holders of f: the descriptor slots that point at it and the processes  *)
(* asleep in a read or write with a reference fget'd from it.              *)
Holders(f) ==
    {h \in Procs \X (Fds \cup {-1}) :
        IF h[2] = -1 THEN busy[h[1]].op # "none" /\ busy[h[1]].file = f
                     ELSE ftab[h[1]][h[2]] = f}

(* Every f_refcount equals the number of its holders (descriptor slots    *)
(* and reads or writes asleep in the vnode operation), across dup, dup2's  *)
(* close-then-install, fork's table copy, exit's close loop and every      *)
(* error path's fput.  A file with no holder is free.                      *)
FileRefsExact == \A f \in Files : fref[f] = Cardinality(Holders(f))

(* Every vnode's references held through files equal the number of live  *)
(* files that point at it: do_open keeps the open_namev reference only on  *)
(* success and the last fput releases it exactly once.                     *)
VnodeRefsExact ==
    \A v \in Vnodes : vref[v] = Quantify(Files, LAMBDA f : fref[f] > 0 /\ fvn[f] = v)

(* The KASSERT of do_write holds: after a successful write to a regular   *)
(* file its f_pos is within vn_len, so the kernel never stops on it.       *)
NoWritePanic == ~panic
=============================================================================
