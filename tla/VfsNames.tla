------------------------------ MODULE VfsNames ------------------------------
(***************************************************************************)
(* Path resolution and the VFS system calls that act on names.            *)
(*                                                                         *)
(* Sources: src/kernel/fs/namev.c (lookup, dir_namev, open_namev) and      *)
(* src/kernel/fs/vfs_syscall.c (do_mknod, do_mkdir, do_rmdir, do_unlink,   *)
(* do_link, do_rename, do_chdir, do_stat).  The vnode operations they      *)
(* dispatch to (lookup, mkdir, mknod, rmdir, unlink, link, stat) belong to *)
(* the file system, outside src/, and are modelled from the spec: they act *)
(* on a tree of directory entries, and a vnode that no entry and no        *)
(* reference keeps alive is freed.                                         *)
(*                                                                         *)
(* A path is a sequence of tokens: Slash, or a name.  dir_namev walks it   *)
(* as it walks the characters: a Slash after a name ends a directory       *)
(* component, a Slash after a Slash (or first) is collapsed.  A name is a  *)
(* model value with a length, which is all the code looks at besides its   *)
(* identity.  A system call is one step: the lookups of one call run to    *)
(* completion before another process issues a call.  Each call computes    *)
(* the vref/vput deltas of every path it takes, so a missing or extra vput *)
(* shows in the vnode reference counts.                                    *)
(***************************************************************************)
EXTENDS Naturals, Integers, FiniteSets, FiniteSetsExt, Sequences, SequencesExt

CONSTANTS
    Procs,      \* processes, each with a cwd
    Vnodes,     \* vnode slots of the file system
    Root,       \* vfs_root_vn
    Names,      \* path components, "." and ".." included
    NameLen,    \* [Names -> Nat]: the length of each component
    NAME_LEN,   \* the maximum component length
    Paths,      \* the paths given to the one-path calls
    LinkPaths,  \* the paths given to link and rename
    ProbePaths  \* the paths open_namev is checked on

Slash == "/"
NoVn == "NoVn"
NoName == "NoName"
Dot == "."
DotDot == ".."
ChildNames == Names \ {Dot, DotDot}

ASSUME Root \in Vnodes /\ {Dot, DotDot} \subseteq Names
ASSUME NameLen \in [Names -> Nat] /\ NAME_LEN \in Nat
ASSUME Paths \subseteq Seq(Names \cup {Slash})

VARIABLES
    kind,   \* vn_mode's type of each slot, or "free"
    ent,    \* ent[d][nm]: the vnode directory d names nm, or NoVn
    vref,   \* vn_refcount
    cwd     \* p_cwd

vars == <<kind, ent, vref, cwd>>

Kinds == {"free", "dir", "reg", "chr", "blk"}
NoEnt == [nm \in Names |-> NoVn]
Tree == [kind |-> kind, ent |-> ent]

TypeOK ==
    /\ kind \in [Vnodes -> Kinds]
    /\ ent \in [Vnodes -> [Names -> Vnodes \cup {NoVn}]]
    /\ vref \in [Vnodes -> Nat]
    /\ cwd \in [Procs -> Vnodes]

-----------------------------------------------------------------------------
(* Reference deltas: d[v] is how many references one call took on v.       *)
D0 == [v \in Vnodes |-> 0]
VRef(d, v) == [d EXCEPT ![v] = @ + 1]
VPut(d, v) == [d EXCEPT ![v] = @ - 1]
DAdd(d1, d2) == [v \in Vnodes |-> d1[v] + d2[v]]

(* What a path operation returns: an error or "OK", a vnode, the basename, *)
(* and the reference deltas of every vref and vput it made.                *)
Res(err, vn, nm, d) == [err |-> err, vn |-> vn, name |-> nm, d |-> d]
Fail(err, d) == Res(err, NoVn, NoName, d)

(* lookup: ENAMETOOLONG beyond NAME_LEN; a vnode with no lookup operation  *)
(* (anything but a directory) gives ENOTDIR; the directory's lookup finds  *)
(* the entry, with one new reference, or gives ENOENT.                     *)
Lookup(t, dir, nm, d) ==
    CASE NameLen[nm] > NAME_LEN      -> Fail("ENAMETOOLONG", d)
      [] t.kind[dir] # "dir"          -> Fail("ENOTDIR", d)
      [] t.ent[dir][nm] = NoVn        -> Fail("ENOENT", d)
      [] OTHER -> Res("OK", t.ent[dir][nm], NoName, VRef(d, t.ent[dir][nm]))

(* The loop of dir_namev from token i on, holding a reference on curr.     *)
(* A Slash that ends a name component moves to the child the lookup       *)
(* found (Descend), vputting curr; the name left at the end is the        *)
(* basename, none when the path ends in a Slash.  A failed lookup leaves  *)
(* the deltas as they were, so lk.d is d on every error path.             *)
RECURSIVE Walk(_, _, _, _, _), Descend(_, _, _, _, _)
Walk(t, path, i, curr, d) ==
    CASE i > Len(path) ->
           Res("OK", curr, IF Last(path) # Slash THEN Last(path) ELSE NoName, d)
      [] path[i] = Slash /\ i > 1 /\ path[i - 1] # Slash ->
           Descend(t, path, i, curr, Lookup(t, curr, path[i - 1], d))
      [] OTHER -> Walk(t, path, i + 1, curr, d)

Descend(t, path, i, curr, lk) ==
    CASE NameLen[path[i - 1]] > NAME_LEN -> Fail("ENAMETOOLONG", VPut(lk.d, curr))
      [] lk.err # "OK" -> Fail(lk.err, VPut(lk.d, curr))
      [] OTHER -> Walk(t, path, i + 1, lk.vn, VPut(lk.d, curr))

(* dir_namev: EINVAL for the empty path; the walk starts at the root for  *)
(* an absolute path and at base otherwise, with one reference; a basename *)
(* of NAME_LEN or more is ENAMETOOLONG.                                    *)
StartVn(path, base) == IF path[1] = Slash THEN Root ELSE base

DirNamevEnd(w) ==
    IF w.err = "OK" /\ w.name # NoName /\ NameLen[w.name] >= NAME_LEN
    THEN Fail("ENAMETOOLONG", VPut(w.d, w.vn))
    ELSE w

DirNamev(t, path, base) ==
    IF path = <<>> THEN Fail("EINVAL", D0)
    ELSE DirNamevEnd(Walk(t, path, 1, StartVn(path, base),
                          VRef(D0, StartVn(path, base))))

(* open_namev without O_CREAT (its callers here pass flag 0): a path      *)
(* ending in Slash names the directory dir_namev stopped at, which must be *)
(* a directory; otherwise the basename is looked up and the parent vput.   *)
OpenLooked(r, lk) ==
    IF lk.err = "OK" THEN [lk EXCEPT !.d = VPut(lk.d, r.vn)]
    ELSE Fail(lk.err, VPut(lk.d, r.vn))

OpenNamevInNoDirCheck(t, r) ==
    CASE r.err # "OK" -> r
      [] r.name = NoName -> r
      [] OTHER -> OpenLooked(r, Lookup(t, r.vn, r.name, r.d))

OpenNamevIn(t, r) ==
    CASE r.err # "OK" -> r
      [] r.name # NoName /\ NameLen[r.name] > NAME_LEN ->
           Fail("ENAMETOOLONG", VPut(r.d, r.vn))
      [] r.name = NoName /\ t.kind[r.vn] # "dir" -> Fail("ENOTDIR", VPut(r.d, r.vn))
      [] r.name = NoName -> r
      [] OTHER -> OpenLooked(r, Lookup(t, r.vn, r.name, r.d))

OpenNamev(t, path, base) == OpenNamevIn(t, DirNamev(t, path, base))

-----------------------------------------------------------------------------
(* The file system's vnode operations, from the spec (the file system is   *)
(* not under src/).  A new vnode takes a free slot, ENOSPC when there is   *)
(* none; mkdir gives it "." and ".."; rmdir refuses a directory with an    *)
(* entry besides them; unlink and rmdir remove the entry; link adds one.   *)
Fs(err, t) == [err |-> err, t |-> t]
FreeSlots(t) == {v \in Vnodes : t.kind[v] = "free"}
NewSlot(t) == CHOOSE v \in FreeSlots(t) : TRUE

FsMknod(t, dir, nm, mode) ==
    IF FreeSlots(t) = {} THEN Fs("ENOSPC", t)
    ELSE LET v == NewSlot(t)
         IN Fs("OK", [kind |-> [t.kind EXCEPT ![v] = mode],
                      ent  |-> [t.ent EXCEPT ![v] = NoEnt, ![dir][nm] = v]])

FsMkdir(t, dir, nm) ==
    IF FreeSlots(t) = {} THEN Fs("ENOSPC", t)
    ELSE LET v == NewSlot(t)
         IN Fs("OK", [kind |-> [t.kind EXCEPT ![v] = "dir"],
                      ent  |-> [t.ent EXCEPT ![v] = [NoEnt EXCEPT ![Dot] = v,
                                                             ![DotDot] = dir],
                                             ![dir][nm] = v]])

Unlinked(t, dir, nm) == [t EXCEPT !.ent[dir][nm] = NoVn]

FsRmdir(t, dir, nm) ==
    IF \E n \in ChildNames : t.ent[t.ent[dir][nm]][n] # NoVn
    THEN Fs("ENOTEMPTY", t)
    ELSE Fs("OK", Unlinked(t, dir, nm))

FsUnlink(t, dir, nm) == Fs("OK", Unlinked(t, dir, nm))

FsLink(t, from, dir, nm) == Fs("OK", [t EXCEPT !.ent[dir][nm] = from])

(* A vnode is freed at its last vput once no directory entry links it:    *)
(* the slots reachable from the root and from every referenced vnode     *)
(* through entries other than "." stay, the rest become free.             *)
RECURSIVE Closure(_, _)
Closure(t, S) ==
    LET S2 == S \cup ({t.ent[v][n] : v \in S, n \in Names \ {Dot}} \ {NoVn})
    IN IF S2 = S THEN S ELSE Closure(t, S2)

Reclaim(t, vr) ==
    LET keep == Closure(t, {Root} \cup {v \in Vnodes : vr[v] > 0})
    IN [kind |-> [v \in Vnodes |-> IF v \in keep THEN t.kind[v] ELSE "free"],
        ent  |-> [v \in Vnodes |-> IF v \in keep THEN t.ent[v] ELSE NoEnt]]

-----------------------------------------------------------------------------
(* The system calls of vfs_syscall.c that take paths.  Each returns its   *)
(* error, the reference deltas of all its vrefs and vputs, and the tree   *)
(* the file system operation left; each step of a call is an operator     *)
(* given the result of the step before (r from dir_namev, lk from lookup, *)
(* o from open_namev).  A parent that lookup answered ENOENT is a         *)
(* directory, which has every operation, so the "no mknod/mkdir/...       *)
(* operation" branches cannot be taken; there is one file system, so     *)
(* do_link's EXDEV branch cannot either.                                  *)
Out(err, d, t) == [err |-> err, d |-> d, t |-> t]
FsDone(f, d) == Out(f.err, d, f.t)
Len0OrLong(r) == r.name = NoName \/ NameLen[r.name] >= NAME_LEN

\* do_mknod: only character and block devices; an existing name is EEXIST.
MknodLooked(t, r, lk, mode) ==
    CASE lk.err = "OK" -> Out("EEXIST", VPut(VPut(lk.d, lk.vn), r.vn), t)
      [] lk.err # "ENOENT" -> Out(lk.err, VPut(lk.d, r.vn), t)
      [] OTHER -> FsDone(FsMknod(t, r.vn, r.name, mode), VPut(lk.d, r.vn))

MknodIn(t, r, mode) ==
    CASE r.err # "OK"  -> Out(r.err, r.d, t)
      [] Len0OrLong(r) -> Out("ENAMETOOLONG", VPut(r.d, r.vn), t)
      [] OTHER -> MknodLooked(t, r, Lookup(t, r.vn, r.name, r.d), mode)

DoMknod(t, path, base, mode) ==
    IF mode \notin {"chr", "blk"} THEN Out("EINVAL", D0, t)
    ELSE MknodIn(t, DirNamev(t, path, base), mode)

\* do_mkdir: a path ending in a slash names an existing directory (EEXIST).
MkdirLookedExistsNoPut(t, r, lk) ==
    CASE lk.err = "OK" -> Out("EEXIST", VPut(lk.d, r.vn), t)
      [] lk.err # "ENOENT" -> Out(lk.err, VPut(lk.d, r.vn), t)
      [] OTHER -> FsDone(FsMkdir(t, r.vn, r.name), VPut(lk.d, r.vn))

MkdirLooked(t, r, lk) ==
    CASE lk.err = "OK" -> Out("EEXIST", VPut(VPut(lk.d, lk.vn), r.vn), t)
      [] lk.err # "ENOENT" -> Out(lk.err, VPut(lk.d, r.vn), t)
      [] OTHER -> FsDone(FsMkdir(t, r.vn, r.name), VPut(lk.d, r.vn))

MkdirIn(t, r) ==
    CASE r.err # "OK"    -> Out(r.err, r.d, t)
      [] r.name = NoName -> Out("EEXIST", VPut(r.d, r.vn), t)
      [] NameLen[r.name] >= NAME_LEN -> Out("ENAMETOOLONG", VPut(r.d, r.vn), t)
      [] OTHER -> MkdirLooked(t, r, Lookup(t, r.vn, r.name, r.d))

DoMkdir(t, path, base) == MkdirIn(t, DirNamev(t, path, base))

\* do_rmdir: "." is EINVAL and ".." ENOTEMPTY; the target must be a
\* directory, and is held across the file system's rmdir.
RmdirLooked(t, r, lk) ==
    CASE lk.err # "OK" -> Out(lk.err, VPut(lk.d, r.vn), t)
      [] t.kind[lk.vn] # "dir" -> Out("ENOTDIR", VPut(VPut(lk.d, lk.vn), r.vn), t)
      [] OTHER -> FsDone(FsRmdir(t, r.vn, r.name), VPut(VPut(lk.d, lk.vn), r.vn))

RmdirInNoDotCheck(t, r) ==
    CASE r.err # "OK"    -> Out(r.err, r.d, t)
      [] r.name = NoName -> Out("EINVAL", VPut(r.d, r.vn), t)
      [] NameLen[r.name] >= NAME_LEN -> Out("ENAMETOOLONG", VPut(r.d, r.vn), t)
      [] r.name = DotDot -> Out("ENOTEMPTY", VPut(r.d, r.vn), t)
      [] OTHER -> RmdirLooked(t, r, Lookup(t, r.vn, r.name, r.d))

RmdirIn(t, r) ==
    CASE r.err # "OK"    -> Out(r.err, r.d, t)
      [] r.name = NoName -> Out("EINVAL", VPut(r.d, r.vn), t)
      [] NameLen[r.name] >= NAME_LEN -> Out("ENAMETOOLONG", VPut(r.d, r.vn), t)
      [] r.name = Dot    -> Out("EINVAL", VPut(r.d, r.vn), t)
      [] r.name = DotDot -> Out("ENOTEMPTY", VPut(r.d, r.vn), t)
      [] OTHER -> RmdirLooked(t, r, Lookup(t, r.vn, r.name, r.d))

DoRmdir(t, path, base) == RmdirIn(t, DirNamev(t, path, base))

\* do_unlink: a directory is EPERM.
UnlinkLooked(t, r, lk) ==
    CASE lk.err # "OK" -> Out(lk.err, VPut(lk.d, r.vn), t)
      [] t.kind[lk.vn] = "dir" -> Out("EPERM", VPut(VPut(lk.d, lk.vn), r.vn), t)
      [] OTHER -> FsDone(FsUnlink(t, r.vn, r.name), VPut(VPut(lk.d, lk.vn), r.vn))

UnlinkIn(t, r) ==
    CASE r.err # "OK"    -> Out(r.err, r.d, t)
      [] r.name = NoName -> Out("EINVAL", VPut(r.d, r.vn), t)
      [] NameLen[r.name] >= NAME_LEN -> Out("ENAMETOOLONG", VPut(r.d, r.vn), t)
      [] OTHER -> UnlinkLooked(t, r, Lookup(t, r.vn, r.name, r.d))

DoUnlink(t, path, base) == UnlinkIn(t, DirNamev(t, path, base))

\* do_link: the source is opened (a directory is EPERM), the target's parent
\* resolved, an existing target is EEXIST; both references are dropped.
LinkLooked(t, o, r, lk) ==
    LET d2 == VPut(VPut(lk.d, o.vn), r.vn)
    IN CASE lk.err = "OK" -> Out("EEXIST", VPut(d2, lk.vn), t)
         [] lk.err # "ENOENT" -> Out(lk.err, d2, t)
         [] OTHER -> FsDone(FsLink(t, o.vn, r.vn, r.name), d2)

LinkTo(t, o, r) ==
    CASE r.err # "OK" -> Out(r.err, VPut(DAdd(o.d, r.d), o.vn), t)
      [] Len0OrLong(r) -> Out("ENAMETOOLONG", VPut(VPut(DAdd(o.d, r.d), o.vn), r.vn), t)
      [] OTHER -> LinkLooked(t, o, r, Lookup(t, r.vn, r.name, DAdd(o.d, r.d)))

LinkFrom(t, to, base, o) ==
    CASE o.err # "OK" -> Out(o.err, o.d, t)
      [] t.kind[o.vn] = "dir" -> Out("EPERM", VPut(o.d, o.vn), t)
      [] OTHER -> LinkTo(t, o, DirNamev(t, to, base))

DoLink(t, from, to, base) == LinkFrom(t, to, base, OpenNamev(t, from, base))

\* do_rename: open the old name, link the new name to it, unlink the old
\* name, drop the reference.  Not atomic: a failed link returns at once,
\* the unlink runs on the tree the link left.
RenameUnlinked(o, l, u) == Out(u.err, VPut(DAdd(o.d, DAdd(l.d, u.d)), o.vn), u.t)

RenameLinkedNoCheck(old, base, o, l) ==
    RenameUnlinked(o, l, DoUnlink(l.t, old, base))

RenameLinked(old, base, o, l) ==
    IF l.err # "OK" THEN Out(l.err, VPut(DAdd(o.d, l.d), o.vn), l.t)
    ELSE RenameUnlinked(o, l, DoUnlink(l.t, old, base))

RenameOpened(t, old, new, base, o) ==
    IF o.err # "OK" THEN Out(o.err, o.d, t)
    ELSE RenameLinked(old, base, o, DoLink(t, old, new, base))

DoRename(t, old, new, base) == RenameOpened(t, old, new, base, OpenNamev(t, old, base))

\* do_chdir: the new directory's reference from open_namev becomes p_cwd's,
\* the old cwd is vput.  A non-directory is ENOTDIR.  The result's vn is
\* the cwd after the call.
ChdirOpenedNoReturn(t, base, o) ==
    CASE o.err # "OK" -> o
      [] t.kind[o.vn] # "dir" -> Res("ENOTDIR", base, NoName, VPut(o.d, o.vn))
      [] OTHER -> [o EXCEPT !.d = VPut(@, base)]

ChdirOpenedNoDirCheck(t, base, o) ==
    IF o.err # "OK" THEN [o EXCEPT !.vn = base] ELSE [o EXCEPT !.d = VPut(@, base)]

ChdirOpened(t, base, o) ==
    CASE o.err # "OK" -> [o EXCEPT !.vn = base]
      [] t.kind[o.vn] # "dir" -> Res("ENOTDIR", base, NoName, VPut(o.d, o.vn))
      [] OTHER -> [o EXCEPT !.d = VPut(@, base)]

ChdirTo(t, path, base) == ChdirOpened(t, base, OpenNamev(t, path, base))

\* do_stat: the empty path is EINVAL; stat the opened vnode and vput it.
StatOpened(t, o) ==
    IF o.err # "OK" THEN Out(o.err, o.d, t) ELSE Out("OK", VPut(o.d, o.vn), t)

DoStat(t, path, base) ==
    IF path = <<>> THEN Out("EINVAL", D0, t)
    ELSE StatOpened(t, OpenNamev(t, path, base))

-----------------------------------------------------------------------------
(* The system calls as steps of process p, each with its inputs chosen   *)
(* from small sets and its result o computed once.  The references a     *)
(* call still holds when it returns are added to vn_refcount, and the     *)
(* vnodes its last vput left unlinked and unreferenced are freed.  do_stat *)
(* changes no state; it is checked in OpenNamevResolves.                  *)
Commit(o) ==
    /\ vref' = DAdd(vref, o.d)
    /\ \E r \in {Reclaim(o.t, vref')} : kind' = r.kind /\ ent' = r.ent

Mknod(p) ==
    \E path \in Paths, mode \in {"chr", "blk", "reg"} :
        /\ \E o \in {DoMknod(Tree, path, cwd[p], mode)} : Commit(o)
        /\ UNCHANGED cwd

Mkdir(p) ==
    \E path \in Paths :
        /\ \E o \in {DoMkdir(Tree, path, cwd[p])} : Commit(o)
        /\ UNCHANGED cwd

Rmdir(p) ==
    \E path \in Paths :
        /\ \E o \in {DoRmdir(Tree, path, cwd[p])} : Commit(o)
        /\ UNCHANGED cwd

Unlink(p) ==
    \E path \in Paths :
        /\ \E o \in {DoUnlink(Tree, path, cwd[p])} : Commit(o)
        /\ UNCHANGED cwd

Link(p) ==
    \E from, to \in LinkPaths :
        /\ \E o \in {DoLink(Tree, from, to, cwd[p])} : Commit(o)
        /\ UNCHANGED cwd

Rename(p) ==
    \E old, new \in LinkPaths :
        /\ \E o \in {DoRename(Tree, old, new, cwd[p])} : Commit(o)
        /\ UNCHANGED cwd

Chdir(p) ==
    \E path \in Paths :
        \E c \in {ChdirTo(Tree, path, cwd[p])} :
           /\ Commit(Out(c.err, c.d, Tree))
           /\ cwd' = [cwd EXCEPT ![p] = c.vn]

(* Boot: the root directory, whose "." and ".." are itself, holds the     *)
(* reference vfs_init takes and one per process cwd (kmain.c sets the     *)
(* first cwds with vref, proc_create inherits the parent's with vref).   *)
Init ==
    /\ kind = [v \in Vnodes |-> IF v = Root THEN "dir" ELSE "free"]
    /\ ent  = [v \in Vnodes |-> IF v = Root
                                THEN [NoEnt EXCEPT ![Dot] = Root, ![DotDot] = Root]
                                ELSE NoEnt]
    /\ vref = [v \in Vnodes |-> IF v = Root THEN 1 + Cardinality(Procs) ELSE 0]
    /\ cwd  = [p \in Procs |-> Root]

Next ==
    \E p \in Procs :
        \/ Mknod(p) \/ Mkdir(p) \/ Rmdir(p) \/ Unlink(p)
        \/ Link(p) \/ Rename(p) \/ Chdir(p)

Spec == Init /\ [][Next]_vars

-----------------------------------------------------------------------------
(* Properties.                                                             *)

(***************************************************************************)
(* Reference balance (spec 8.1): whatever sequence of calls succeeded or   *)
(* failed on whichever path, every vnode's vn_refcount is exactly the     *)
(* references that live on: the root's from vfs_init and one per process  *)
(* whose p_cwd it is.  A vput missing on one of the many error paths of   *)
(* dir_namev, open_namev or a system call, or one too many, breaks it.    *)
(***************************************************************************)
VnodeRefsBalanced ==
    \A v \in Vnodes :
        vref[v] = (IF v = Root THEN 1 ELSE 0) + Cardinality({p \in Procs : cwd[p] = v})

(***************************************************************************)
(* The namespace stays a tree: every live directory's "." is itself, a    *)
(* name links only live vnodes, and a directory has exactly one name,     *)
(* in the directory its ".." names.  do_link's EPERM check for a          *)
(* directory source and do_rmdir's refusal of "." and ".." keep it so.    *)
(***************************************************************************)
Parents(c) == {<<v, n>> \in Vnodes \X ChildNames : ent[v][n] = c}

DirTreeWellFormed ==
    \A v \in Vnodes : kind[v] # "free" =>
        /\ \A n \in Names : ent[v][n] # NoVn => kind[ent[v][n]] # "free"
        /\ kind[v] = "dir" =>
              /\ ent[v][Dot] = v
              /\ \A n \in ChildNames :
                    LET c == ent[v][n]
                    IN c # NoVn /\ kind[c] = "dir" =>
                          Parents(c) = {<<v, n>>} /\ ent[c][DotDot] = v

(***************************************************************************)
(* Every process's cwd is a live directory, even after another process   *)
(* removed it with rmdir: do_chdir accepts only a directory, and the      *)
(* reference p_cwd holds keeps the vnode from being freed.                 *)
(***************************************************************************)
CwdIsLiveDirectory == \A p \in Procs : kind[cwd[p]] = "dir"

(***************************************************************************)
(* open_namev against a reference resolution written per component (spec *)
(* 4.4, 8.7): the components before the last are looked up in turn from   *)
(* the root or the base, the first failure deciding the error; a path     *)
(* ending in "/" names the directory reached; the basename is looked up.  *)
(* On success the result carries one new reference, on failure none is    *)
(* left over, and do_stat gives back what it took.  The reference keeps  *)
(* the code's limits: a directory component may be NAME_LEN long, a      *)
(* basename only NAME_LEN - 1.                                             *)
(***************************************************************************)
RefStep(acc, nm) ==
    CASE acc.err # "OK"              -> acc
      [] NameLen[nm] > NAME_LEN      -> [err |-> "ENAMETOOLONG", vn |-> NoVn]
      [] kind[acc.vn] # "dir"        -> [err |-> "ENOTDIR", vn |-> NoVn]
      [] ent[acc.vn][nm] = NoVn      -> [err |-> "ENOENT", vn |-> NoVn]
      [] OTHER                       -> [err |-> "OK", vn |-> ent[acc.vn][nm]]

RefDir(acc) ==
    IF acc.err = "OK" /\ kind[acc.vn] # "dir" THEN [err |-> "ENOTDIR", vn |-> NoVn]
    ELSE acc

RefLeaf(nm, acc) ==
    CASE acc.err # "OK"            -> acc
      [] NameLen[nm] >= NAME_LEN   -> [err |-> "ENAMETOOLONG", vn |-> NoVn]
      [] OTHER                     -> RefStep(acc, nm)

RefComps(comps, trailing, start) ==
    IF trailing \/ comps = <<>>
    THEN RefDir(FoldLeft(RefStep, [err |-> "OK", vn |-> start], comps))
    ELSE RefLeaf(Last(comps), FoldLeft(RefStep, [err |-> "OK", vn |-> start], Front(comps)))

RefResolve(path, base) ==
    IF path = <<>> THEN [err |-> "EINVAL", vn |-> NoVn]
    ELSE RefComps(SelectSeq(path, LAMBDA x : x # Slash), Last(path) = Slash,
                  IF path[1] = Slash THEN Root ELSE base)

OpenNamevResolves ==
    \A path \in ProbePaths, p \in Procs :
        \E o \in {OpenNamev(Tree, path, cwd[p])}, ref \in {RefResolve(path, cwd[p])} :
           /\ o.err = ref.err
           /\ o.err = "OK" => o.vn = ref.vn
           /\ o.d = IF o.err = "OK" THEN VRef(D0, o.vn) ELSE D0
           /\ DoStat(Tree, path, cwd[p]).d = D0

(***************************************************************************)
(* do_rename is link-then-unlink (spec 9): from every reachable state, a   *)
(* rename by any process of any name to any name either changes nothing, *)
(* or afterwards the old name is gone and the new name links the vnode    *)
(* the old one did; no file is lost, none is left with both names.        *)
(***************************************************************************)
RenameOutcomeOK(old, new, base, after) ==
    \/ after = Tree
    \/ /\ OpenNamev(Tree, old, base).err = "OK"
       /\ OpenNamev(after, old, base).err = "ENOENT"
       /\ OpenNamev(after, new, base).vn = OpenNamev(Tree, old, base).vn

RenameAllOrNothing ==
    \A p \in Procs, old, new \in LinkPaths :
        \E o \in {DoRename(Tree, old, new, cwd[p])} :
            RenameOutcomeOK(old, new, cwd[p], Reclaim(o.t, DAdd(vref, o.d)))
=============================================================================
