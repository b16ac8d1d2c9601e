------------------------------ MODULE VmObjects ------------------------------
(***************************************************************************)
(* Memory objects and the address spaces that hold them.                   *)
(*                                                                         *)
(* Sources: src/kernel/vm/anon.c and shadow.c (create, ref, put,           *)
(* lookuppage, fillpage), src/kernel/vm/vmmap.c (vmmap_map, vmmap_remove, *)
(* vmmap_clone, vmmap_destroy), src/kernel/proc/fork.c (copy_vmmap,       *)
(* setup_shadow_objects, vmmap_revert, do_fork), src/kernel/vm/mmap.c     *)
(* (do_mmap, do_munmap), src/kernel/vm/pagefault.c (handle_pagefault)   *)
(* and src/kernel/vm/brk.c (do_brk, with fork's set_brk_vals).            *)
(* The page-frame cache (mm/pframe.c), mmobj_bottom_obj (mm/mmobj.c) and  *)
(* the file system's mmap operation are not part of the sources and are   *)
(* modelled from the spec (sections 2, 4.6 and 4.7).                      *)
(*                                                                         *)
(* Objects are slots 0..NObjs.  Slot 0 is the vn_mmobj of one open file;  *)
(* the others are allocated by anon_create and shadow_create (the slab    *)
(* allocator hands out the lowest free slot and fails when none is free). *)
(* mo[o] holds an object's mmo_refcount, its resident pages (page indices *)
(* within the object), mmo_shadowed and mmo_bottom_obj.  olink[v] is the  *)
(* bottom object whose vma list the vma_olink of vmarea v is on.          *)
(*                                                                         *)
(* One CPU runs one process at a time and none of these calls blocks, so  *)
(* each system call is one atomic step, except that fork's loop over the  *)
(* areas is one step per area (nothing else runs in between).             *)
(***************************************************************************)
EXTENDS VmArea, Naturals, FiniteSets, SequencesExt

CONSTANTS
    Procs,      \* processes (model values)
    NObjs,      \* number of memory-object slots for anon and shadow objects
    NVmas,      \* number of vmarea_t slots
    MapKinds,   \* the kinds of mapping do_mmap is asked for
    FirstProc,  \* the process that exists at the start
    MaxRef,     \* bound on mmo_refcount: steps past it are not explored
    FaultPages, \* the pages user code touches (page faults are tried on these)
    MmapLos,    \* the lopage arguments tried by do_mmap (0: no MAP_FIXED)
    UnmapLos,   \* the lopage arguments tried by do_munmap
    PageSize,   \* addresses per page (a break may lie inside a page)
    StartBrks,  \* the values of p_start_brk the first process may start with
    BrkAddrs    \* the addresses passed to brk (0 is NULL, i.e. sbrk(0))

ASSUME NObjs \in Nat /\ NVmas \in Nat /\ MaxRef \in Nat
ASSUME FaultPages \subseteq 1..NPages
ASSUME PageSize \in Nat \ {0} /\ StartBrks \subseteq Nat
ASSUME MapKinds \subseteq {"anon_private", "anon_shared", "file_private", "file_shared"}

FileObj  == 0
Objs     == 0..NObjs
AllocIds == 1..NObjs
NoObj    == -1
VmaIds   == 1..NVmas
NoVma    == 0
ObjPages == 0..(NPages - 1)
Kinds    == {"free", "anon", "shadow", "file"}
Rets     == {"OK", "ENOMEM", "EFAULT"}

FreeSlot == [kind |-> "free", ref |-> 0, res |-> {}, shadowed |-> NoObj,
             bottom |-> NoObj]

VARIABLES
    vmas,     \* vmas[p]: p's vmm_list (a child's new map while it is forked)
    live,     \* the processes that own an address space
    mo,       \* the memory-object slots
    olink,    \* olink[v]: the object whose mmo_vmas list holds vma_olink of v
    fk,       \* the fork in progress: parent, child, loop position
    ret,      \* what the last step returned to user space
    startbrk, \* p_start_brk, the same in every process (fork copies it)
    brk       \* brk[p]: p->p_brk

vars == <<vmas, live, mo, olink, fk, ret, startbrk, brk>>

\* fk when no fork is in progress; saved is the parent's list when its
\* fork began.
NoFork == [par |-> FirstProc, chi |-> FirstProc, i |-> 0, saved |-> <<>>]

-----------------------------------------------------------------------------
(* Memory objects.  The object helpers map object slots m to new slots.   *)

\* mmobj_bottom_obj(o): the base of o's shadow chain.
BottomObj(m, o) == IF m[o].kind = "shadow" THEN m[o].bottom ELSE o

\* The slot the slab allocator hands out next, NoObj when it is exhausted.
NextFree(m) ==
    LET f == {o \in AllocIds : m[o].kind = "free"}
    IN  IF f = {} THEN NoObj ELSE Min(f)

\* anon_create: mmobj_init and mmo_refcount = 1.
AnonCreate(m, o) ==
    [m EXCEPT ![o] = [FreeSlot EXCEPT !.kind = "anon", !.ref = 1]]

\* shadow_create: refcount 1, shadowed and bottom NULL.
ShadowCreate(m, o) ==
    [m EXCEPT ![o] = [FreeSlot EXCEPT !.kind = "shadow", !.ref = 1]]

\* anon_ref, shadow_ref and the file's ref: mmo_refcount++.
MmobjRef(m, o) == [m EXCEPT ![o].ref = @ + 1]

\* Release of an object's slot once nothing but its resident pages holds
\* it: the pages are unpinned and freed with the object.
FreeObj(m, o) == [m EXCEPT ![o] = FreeSlot]

\* A put reaching a slot that is already free corrupts it; the model
\* records this as a negative count.
PutFreed(m, o) == [m EXCEPT ![o].ref = -1]

\* Fault variant of AnonPut: the object is freed while one reference
\* beyond its resident pages is still held.
AnonPutEarly(m, o) ==
    IF m[o].ref - 1 <= Cardinality(m[o].res) + 1 THEN FreeObj(m, o)
    ELSE [m EXCEPT ![o].ref = @ - 1]

\* anon_put: decrement; once only resident pages hold the object its pages
\* are freed one by one (each pframe_free drops a page and its reference
\* through put) and then the object.
AnonPut(m, o) ==
    IF m[o].ref - 1 = Cardinality(m[o].res) THEN FreeObj(m, o)
    ELSE [m EXCEPT ![o].ref = @ - 1]

\* The file's put is a vput of its vnode, which the open file keeps alive.
FilePut(m, o) == [m EXCEPT ![o].ref = @ - 1]

\* shadow_put: decrement while references other than the resident pages
\* and this one remain; otherwise free the pages, put mmo_shadowed, put the
\* bottom object if it is not the shadowed one, and free the object.
RECURSIVE MmobjPut(_, _)
ShadowPut(m, o) ==
    IF m[o].ref > Cardinality(m[o].res) + 1
    THEN [m EXCEPT ![o].ref = @ - 1]
    ELSE LET sh == m[o].shadowed
             bt == m[o].bottom
             m1 == FreeObj(m, o)
             m2 == IF sh # NoObj THEN MmobjPut(m1, sh) ELSE m1
         IN  IF bt # NoObj /\ bt # sh THEN MmobjPut(m2, bt) ELSE m2

\* o->mmo_ops->put(o), dispatched on the object's type.
MmobjPut(m, o) ==
    CASE m[o].kind = "anon"   -> AnonPut(m, o)
      [] m[o].kind = "shadow" -> ShadowPut(m, o)
      [] m[o].kind = "file"   -> FilePut(m, o)
      [] m[o].kind = "free"   -> PutFreed(m, o)

\* pframe_get(o, pg): a page already resident is returned; otherwise a
\* frame is allocated for o (it holds a reference on o) and filled by o's
\* fillpage.  Anonymous fillpage zeroes it and the file reads it, neither
\* of which changes the objects; shadow fillpage is ShadowFillpage below.
NewPage(m, o, pg) == [m EXCEPT ![o].res = @ \cup {pg}, ![o].ref = @ + 1]

\* Whether some object from o down the chain, stopping before stop, has
\* page pg resident.  fuel bounds the walk on a malformed chain.
RECURSIVE ResidentBefore(_, _, _, _, _)
ResidentBefore(m, o, stop, pg, fuel) ==
    IF o = stop \/ o = NoObj \/ fuel = 0 THEN FALSE
    ELSE pg \in m[o].res \/ ResidentBefore(m, m[o].shadowed, stop, pg, fuel - 1)

\* The last object of o's chain: the first one with no mmo_shadowed.
RECURSIVE ChainEnd(_, _, _)
ChainEnd(m, o, fuel) ==
    IF o = NoObj \/ m[o].shadowed = NoObj \/ fuel = 0 THEN o
    ELSE ChainEnd(m, m[o].shadowed, fuel - 1)

\* shadow_fillpage(o, pf): copy from the first object below o, above the
\* bottom object, that has the page resident; if there is none, look the
\* page up in the bottom object (pframe_lookup with forwrite set, which
\* makes it resident there).
ShadowFillpage(m, o, pg) ==
    IF ResidentBefore(m, m[o].shadowed, m[o].bottom, pg, NObjs + 1) THEN m
    ELSE IF pg \in m[m[o].bottom].res THEN m
    ELSE NewPage(m, m[o].bottom, pg)

PframeGet(m, o, pg) ==
    IF pg \in m[o].res THEN m
    ELSE IF m[o].kind = "shadow" THEN ShadowFillpage(NewPage(m, o, pg), o, pg)
    ELSE NewPage(m, o, pg)

\* shadow_lookuppage(o, pg, forwrite): for writing, the page of o itself;
\* for reading, the first shadow down the chain that has it resident, else
\* the page of the chain's last object.  Anonymous and file objects look
\* the page up in themselves.
PframeLookup(m, o, pg, forwrite) ==
    LET last == ChainEnd(m, o, NObjs + 1)
    IN  IF m[o].kind # "shadow" \/ forwrite THEN PframeGet(m, o, pg)
        ELSE IF ResidentBefore(m, o, last, pg, NObjs + 1) THEN m
        ELSE PframeGet(m, last, pg)
-----------------------------------------------------------------------------
(* Address spaces.  A world w is [maps, m, ol, ret]: every vmmap, the      *)
(* object slots, the vma_olink links and the result of the call so far;   *)
(* the vmmap and fork helpers map worlds to worlds.                        *)

\* vmarea_alloc: the lowest vmarea_t slot that no vmmap uses, NoVma when
\* the slab is exhausted.
UsedVmas(w) == UNION {{w.maps[p][i].id : i \in 1..Len(w.maps[p])} : p \in Procs}

\* Fault variant of FreshVma: an off-by-one in the slot index.
FreshVmaOffByOne(w) ==
    IF VmaIds \subseteq UsedVmas(w) THEN NoVma
    ELSE Min(VmaIds \ UsedVmas(w)) + 1

FreshVma(w) ==
    IF VmaIds \subseteq UsedVmas(w) THEN NoVma ELSE Min(VmaIds \ UsedVmas(w))

\* The file system's mmap operation hands out the vnode's vn_mmobj with a
\* new reference.
FileMmap(m) == MmobjRef(m, FileObj)

\* vmmap_destroy: put the object of every area and free the areas.  The
\* areas' vma_olink links are left on the bottom objects' lists.
VmmapDestroy(w, p) ==
    [w EXCEPT !.maps[p] = <<>>,
              !.m = FoldLeft(LAMBDA mm, v : IF v.obj # NoObj
                                            THEN MmobjPut(mm, v.obj) ELSE mm,
                             @, w.maps[p])]

\* Fault variant of OffAfter: the difference is taken the wrong way round.
OffAfterSwapped(v, newstart) == v.off + (v.start - newstart)

\* Fault variant of OffAfter: vma_off is not moved with the start.
OffAfterUnmoved(v, newstart) == v.off

\* The vma_off of the part of area v that begins at page newstart.
OffAfter(v, newstart) == v.off + (newstart - v.start)

(***************************************************************************)
(* vmmap_remove(map, lopage, npages): walk the areas in order; skip those  *)
(* outside [ustart, uend); remove one inside it (unlink vma_olink, put the *)
(* object); move the start of one overlapping its low end (and vma_off    *)
(* with it); cut one overlapping its high end; split one containing it     *)
(* (the right part takes a new reference on the object and joins the      *)
(* bottom object's list) and stop.  out is the list built so far.         *)
(***************************************************************************)
RECURSIVE RemoveLoop(_, _, _, _, _, _)
RemoveLoop(w, p, ustart, uend, out, i) ==
    LET vs == w.maps[p]
    IN
    IF i > Len(vs) THEN [w EXCEPT !.maps[p] = out, !.ret = "OK"]
    ELSE
    LET v == vs[i]
        s == v.start
        e == v.end
    IN
    IF e <= ustart \/ s >= uend
    THEN RemoveLoop(w, p, ustart, uend, Append(out, v), i + 1)
    ELSE IF ustart <= s /\ uend >= e
    THEN RemoveLoop(IF v.obj = NoObj THEN w
                    ELSE [w EXCEPT !.ol[v.id] = NoObj,
                                   !.m = MmobjPut(@, v.obj)],
                    p, ustart, uend, out, i + 1)
    ELSE IF ustart <= s /\ uend > s /\ uend < e
    THEN RemoveLoop(w, p, ustart, uend,
                    Append(out, [v EXCEPT !.start = uend, !.off = OffAfter(v, uend)]),
                    i + 1)
    ELSE IF s < ustart /\ ustart < e /\ uend >= e
    THEN RemoveLoop(w, p, ustart, uend, Append(out, [v EXCEPT !.end = ustart]),
                    i + 1)
    ELSE LET rid   == FreshVma(w)
             right == [id |-> rid, start |-> uend, end |-> e,
                       off |-> OffAfter(v, uend), shared |-> v.shared,
                       obj |-> v.obj]
             w1    == IF v.obj = NoObj THEN w
                      ELSE [w EXCEPT !.m = MmobjRef(@, v.obj),
                                     !.ol[rid] = BottomObj(w.m, v.obj)]
         IN  IF rid = NoVma THEN [w EXCEPT !.ret = "ENOMEM"]
             ELSE [w1 EXCEPT !.maps[p] =
                       VmmapInsert(Append(out, [v EXCEPT !.end = ustart])
                                     \o SubSeq(vs, i + 1, Len(vs)), right),
                             !.ret = "OK"]

VmmapRemove(w, p, lopage, npages) ==
    IF npages = 0 THEN [w EXCEPT !.ret = "OK"]
    ELSE RemoveLoop(w, p, lopage, lopage + npages, <<>>, 1)

\* Fault variant of LinkAndInsert: the area joins the list of its own
\* object instead of its bottom object's.
LinkAndInsertOwnList(w, p, vma) ==
    [w EXCEPT !.ol[vma.id] = vma.obj,
              !.maps[p] = VmmapInsert(@, vma),
              !.ret = "OK"]

\* The last part of vmmap_map: link the new area into its bottom object's
\* list and insert it into the map.
LinkAndInsert(w, p, vma) ==
    [w EXCEPT !.ol[vma.id] = BottomObj(w.m, vma.obj),
              !.maps[p] = VmmapInsert(@, vma),
              !.ret = "OK"]

(***************************************************************************)
(* vmmap_map(map, file, lopage, npages, ..., flags, off = 0, HILO): pick a *)
(* range with vmmap_find_range when lopage is 0, otherwise unmap           *)
(* [lopage, lopage + npages) first; allocate the area; take a new anon     *)
(* object or the file's object; for a private file mapping interpose a    *)
(* shadow whose shadowed and bottom are the file's object.  Each           *)
(* allocation may fail with -ENOMEM, undoing what was allocated before it  *)
(* but not the unmapping.                                                  *)
(***************************************************************************)
VmmapMap(w, p, file, lopage, npages, shared) ==
    LET start == IF lopage = 0
                 THEN VmmapFindRange(w.maps[p], npages, "VMMAP_DIR_HILO")
                 ELSE lopage
        w1    == IF lopage = 0 THEN w ELSE VmmapRemove(w, p, lopage, npages)
        id    == FreshVma(w1)
        anon  == NextFree(w1.m)
        obj   == IF file THEN FileObj ELSE anon
        m1    == IF file THEN FileMmap(w1.m) ELSE AnonCreate(w1.m, anon)
        sh    == NextFree(m1)
        vma   == [id |-> id, start |-> start, end |-> start + npages, off |-> 0,
                  shared |-> shared, obj |-> obj]
    IN
    IF start = NoRange THEN [w EXCEPT !.ret = "ENOMEM"]
    ELSE IF w1.ret # "OK" THEN w1
    ELSE IF id = NoVma THEN [w1 EXCEPT !.ret = "ENOMEM"]
    ELSE IF ~file /\ anon = NoObj THEN [w1 EXCEPT !.ret = "ENOMEM"]
    ELSE IF ~shared /\ file
    THEN IF sh = NoObj
         THEN [w1 EXCEPT !.m = MmobjPut(m1, obj), !.ret = "ENOMEM"]
         ELSE LinkAndInsert(
                [w1 EXCEPT !.m = [ShadowCreate(m1, sh) EXCEPT
                                     ![sh].shadowed = obj,
                                     ![sh].bottom = BottomObj(m1, obj)]],
                p, [vma EXCEPT !.obj = sh])
    ELSE LinkAndInsert([w1 EXCEPT !.m = m1], p, vma)
-----------------------------------------------------------------------------
(* fork: copy_vmmap and its helpers (src/kernel/proc/fork.c).              *)

\* vmmap_clone: a new map with a fresh area per area of p's map, same
\* range, offset and flags, no object and an unlinked vma_olink.  It fails
\* (NULL) when the vmarea slab cannot supply them all.
CloneIds(w, p) == SetToSortSeq(VmaIds \ UsedVmas(w), <)

VmmapClone(w, p) ==
    LET ids == CloneIds(w, p)
        new == [i \in 1..Len(w.maps[p]) |->
                   [w.maps[p][i] EXCEPT !.id = ids[i], !.obj = NoObj]]
    IN  FoldLeft(VmmapInsert, <<>>, new)

\* Fault variant of SetupShadowObj: the shadow's bottom is the area's
\* object itself rather than that object's bottom.
SetupShadowObjShadowBottom(w, p, i, s) ==
    LET v == w.maps[p][i]
        b == BottomObj(w.m, v.obj)
    IN  [w EXCEPT !.m = [MmobjRef(@, v.obj) EXCEPT ![s].bottom = v.obj,
                                                   ![s].shadowed = v.obj],
                  !.ol[v.id] = b,
                  !.maps[p][i].obj = s]

\* setup_shadow_obj(vma, shadow): the shadow's bottom is the bottom of the
\* area's object and takes a reference; the shadow steals the area's
\* reference to its object; the area moves to the bottom object's list
\* and now maps the shadow.
SetupShadowObj(w, p, i, s) ==
    LET v == w.maps[p][i]
        b == BottomObj(w.m, v.obj)
    IN  [w EXCEPT !.m = [MmobjRef(@, b) EXCEPT ![s].bottom = b,
                                               ![s].shadowed = v.obj],
                  !.ol[v.id] = b,
                  !.maps[p][i].obj = s]

\* Fault variant of SetupShadowObjects: only the parent's area gets a
\* shadow; the child's keeps the object it shares with the parent, as a
\* shared area would, and joins that object's bottom list.
SetupShadowObjectsParentOnly(w, par, chi, i) ==
    LET s1 == NextFree(w.m)
        w1 == SetupShadowObj([w EXCEPT !.m = ShadowCreate(@, s1)], par, i, s1)
        nv == w1.maps[chi][i]
    IN  IF s1 = NoObj THEN [w EXCEPT !.ret = "ENOMEM"]
        ELSE [w1 EXCEPT !.m = MmobjRef(@, nv.obj),
                        !.ol[nv.id] = BottomObj(w1.m, nv.obj),
                        !.ret = "OK"]

\* setup_shadow_objects(oldvma, newvma): two new shadows (the first is put
\* back if the second cannot be had), the first over the parent's area,
\* the second over the child's after the child's area takes its own
\* reference to the object it shares with the parent.
SetupShadowObjects(w, par, chi, i) ==
    LET s1 == NextFree(w.m)
        m1 == ShadowCreate(w.m, s1)
        s2 == NextFree(m1)
        w1 == SetupShadowObj([w EXCEPT !.m = ShadowCreate(m1, s2)], par, i, s1)
        w2 == [w1 EXCEPT !.m = MmobjRef(@, w1.maps[chi][i].obj)]
    IN  IF s1 = NoObj THEN [w EXCEPT !.ret = "ENOMEM"]
        ELSE IF s2 = NoObj THEN [w EXCEPT !.m = MmobjPut(m1, s1), !.ret = "ENOMEM"]
        ELSE [SetupShadowObj(w2, chi, i, s2) EXCEPT !.ret = "OK"]

\* Fault variant of CopyVmmapStep: a failed shadowing leaves the child's
\* area pointing at the parent's object.
CopyVmmapStepKeepChild(w, par, chi, i) ==
    LET w0 == [w EXCEPT !.maps[chi][i].obj = w.maps[par][i].obj]
        nv == w0.maps[chi][i]
    IN  IF w.maps[par][i].shared
        THEN [w0 EXCEPT !.m = MmobjRef(@, nv.obj),
                        !.ol[nv.id] = BottomObj(w0.m, nv.obj),
                        !.ret = "OK"]
        ELSE SetupShadowObjects(w0, par, chi, i)

\* One pass of copy_vmmap's loop: the child's area first shares the
\* parent's object; a private area is then shadowed on both sides (on
\* failure the child's area is left without an object), a shared one takes
\* a reference and joins the bottom object's list.
CopyVmmapStep(w, par, chi, i) ==
    LET w0 == [w EXCEPT !.maps[chi][i].obj = w.maps[par][i].obj]
        nv == w0.maps[chi][i]
        w1 == SetupShadowObjects(w0, par, chi, i)
    IN  IF w.maps[par][i].shared
        THEN [w0 EXCEPT !.m = MmobjRef(@, nv.obj),
                        !.ol[nv.id] = BottomObj(w0.m, nv.obj),
                        !.ret = "OK"]
        ELSE IF w1.ret # "OK" THEN [w1 EXCEPT !.maps[chi][i].obj = NoObj]
        ELSE w1

\* vmmap_revert: walk both lists in step until a child area without an
\* object; give each private parent area back the object under its
\* shadow (a reference is taken on it, then the shadow is put).
RECURSIVE RevertLoop(_, _, _, _)
RevertLoop(w, par, chi, j) ==
    IF j > Len(w.maps[par]) \/ w.maps[chi][j].obj = NoObj THEN w
    ELSE LET old    == w.maps[par][j]
             oldmmo == w.m[old.obj].shadowed
         IN  IF old.shared THEN RevertLoop(w, par, chi, j + 1)
             ELSE RevertLoop([w EXCEPT !.m = MmobjPut(MmobjRef(@, oldmmo), old.obj),
                                       !.maps[par][j].obj = oldmmo],
                             par, chi, j + 1)

\* Fault variant of ForkFail: the parent is not reverted.
ForkFailNoRevert(w, par, chi) ==
    [VmmapDestroy(w, chi) EXCEPT !.ret = "ENOMEM"]

\* The failure path of copy_vmmap and of do_fork after setup_thread fails:
\* revert the parent, destroy the child's new map, return -ENOMEM.
ForkFail(w, par, chi) ==
    [VmmapDestroy(RevertLoop(w, par, chi, 1), chi) EXCEPT !.ret = "ENOMEM"]

-----------------------------------------------------------------------------
(* Actions.                                                                *)

W == [maps |-> vmas, m |-> mo, ol |-> olink, ret |-> "OK"]

Apply(w) == /\ vmas' = w.maps
            /\ mo' = w.m
            /\ olink' = w.ol
            /\ ret' = w.ret

Running(p) == fk.i = 0 /\ p \in live

\* A reference leaked at every fork makes mmo_refcount unbounded; the
\* model explores the steps that keep every count within MaxRef.
RefsBounded == \A o \in Objs : mo[o].ref <= MaxRef

\* do_mmap with valid arguments: addr NULL (lopage 0) or a page range
\* inside the user range, a file or MAP_ANON, MAP_PRIVATE or MAP_SHARED.
DoMmap(p, kind, lopage, npages) ==
    /\ Running(p)
    /\ lopage = 0 \/ lopage + npages <= UserHi
    /\ Apply(VmmapMap(W, p, kind \in {"file_private", "file_shared"}, lopage,
                      npages, kind \in {"anon_shared", "file_shared"}))
    /\ RefsBounded'
    /\ UNCHANGED <<live, fk, startbrk, brk>>

\* do_munmap of a range inside the user range.
DoMunmap(p, lopage, npages) ==
    /\ Running(p)
    /\ lopage + npages <= UserHi
    /\ Apply(VmmapRemove(W, p, lopage, npages))
    /\ RefsBounded'
    /\ UNCHANGED <<live, fk, startbrk, brk>>

\* do_exit: proc_cleanup destroys the address space.
DoExit(p) ==
    /\ Running(p)
    /\ Apply(VmmapDestroy(W, p))
    /\ live' = live \ {p}
    /\ UNCHANGED <<fk, startbrk, brk>>

\* handle_pagefault(vaddr, cause): a fault outside every area kills the
\* process; otherwise the page is looked up in the area's object, for
\* writing only if the fault is a write to a private area.
HandlePagefault(p, vfn, write) ==
    /\ Running(p)
    /\ LET i == VmmapLookup(vmas[p], vfn)
           v == vmas[p][i]
       IN  IF i = 0
           THEN /\ Apply(VmmapDestroy(W, p))
                /\ live' = live \ {p}
           ELSE /\ mo' = PframeLookup(mo, v.obj, v.off + (vfn - v.start),
                                      write /\ ~v.shared)
                /\ ret' = "OK"
                /\ UNCHANGED <<vmas, olink, live>>
    /\ RefsBounded'
    /\ UNCHANGED <<fk, startbrk, brk>>

\* do_fork up to copy_vmmap's loop: proc_create gives the child c and
\* vmmap_clone its new map; if the clone fails nothing is left behind.
ForkBegin(p, c) ==
    /\ Running(p)
    /\ c \notin live
    /\ IF Len(CloneIds(W, p)) < Len(vmas[p])
       THEN /\ ret' = "ENOMEM"
            /\ UNCHANGED <<vmas, mo, olink, fk>>
       ELSE LET nv == VmmapClone(W, p)
            IN  /\ vmas' = [vmas EXCEPT ![c] = nv]
                /\ olink' = [v \in VmaIds |->
                               IF \E i \in 1..Len(nv) : nv[i].id = v
                               THEN NoObj ELSE olink[v]]
                /\ fk' = [par |-> p, chi |-> c, i |-> 1, saved |-> vmas[p]]
                /\ ret' = "OK"
                /\ UNCHANGED mo
    /\ UNCHANGED <<live, startbrk, brk>>

\* One pass of copy_vmmap's loop; on failure the rest of copy_vmmap and
\* do_fork's error return.
ForkStep ==
    /\ fk.i # 0
    /\ fk.i <= Len(vmas[fk.par])
    /\ LET w == CopyVmmapStep(W, fk.par, fk.chi, fk.i)
       IN  IF w.ret = "OK"
           THEN Apply(w) /\ fk' = [fk EXCEPT !.i = @ + 1]
           ELSE Apply(ForkFail(w, fk.par, fk.chi)) /\ fk' = NoFork
    /\ RefsBounded'
    /\ UNCHANGED <<live, startbrk, brk>>

\* The rest of do_fork: setup_thread may fail (revert the parent, clean
\* the child up); otherwise set_brk_vals copies the break and the child
\* is made runnable with its new map.
ForkFinish ==
    /\ fk.i # 0
    /\ fk.i > Len(vmas[fk.par])
    /\ \/ /\ Apply(ForkFail(W, fk.par, fk.chi))
          /\ UNCHANGED <<live, brk>>
       \/ /\ live' = live \cup {fk.chi}
          /\ ret' = "OK"
          /\ brk' = [brk EXCEPT ![fk.chi] = brk[fk.par]]
          /\ UNCHANGED <<vmas, mo, olink>>
    /\ fk' = NoFork
    /\ UNCHANGED startbrk

-----------------------------------------------------------------------------
(* do_brk (src/kernel/vm/brk.c).  Addresses are counted in units smaller *)
(* than a page, so a break may lie inside a page.                         *)

\* ADDR_TO_PN, PAGE_ALIGN_UP and USER_MEM_HIGH.
AddrToPn(a)    == a \div PageSize
PageAlignUp(a) == ((a + PageSize - 1) \div PageSize) * PageSize
UserMemHigh    == UserHi * PageSize

\* The area the loader maps for data and bss: up to the page holding the
\* start of the break.
DataArea(sb) == [id |-> 1, start |-> UserLo, end |-> AddrToPn(PageAlignUp(sb)),
                 off |-> 0, shared |-> FALSE, obj |-> 1]

(***************************************************************************)
(* do_brk(addr) by the running process p, old break o, start sb.  The     *)
(* ends of the heap in pages are oe and ne (the pages holding the old and *)
(* new break, rounded up), hs the page of the start of the break and i   *)
(* the area vmmap_lookup finds there.                                     *)
(***************************************************************************)
BrkGrowMapped(w, p, addr) ==
    /\ Apply(w)
    /\ brk' = IF w.ret = "OK" THEN [brk EXCEPT ![p] = addr] ELSE brk

\* Fault variant of BrkGrow: the collision test covers one page too few.
BrkGrowShort(p, addr, oe, ne, hs, i) ==
    IF ~VmmapIsRangeEmpty(vmas[p], oe, ne - oe - 1)
    THEN ret' = "ENOMEM" /\ UNCHANGED <<vmas, mo, olink, brk>>
    ELSE IF i = 0
    THEN \E w \in {VmmapMap(W, p, FALSE, hs, ne - hs, FALSE)} :
            BrkGrowMapped(w, p, addr)
    ELSE /\ vmas' = [vmas EXCEPT ![p][i].end = ne]
         /\ brk' = [brk EXCEPT ![p] = addr]
         /\ ret' = "OK"
         /\ UNCHANGED <<mo, olink>>

\* Growing into a new page: fail if [oe, ne) meets an area; otherwise map
\* the heap area [hs, ne) with MAP_FIXED the first time, or move the end
\* of the area found at hs.
BrkGrow(p, addr, oe, ne, hs, i) ==
    IF ~VmmapIsRangeEmpty(vmas[p], oe, ne - oe)
    THEN ret' = "ENOMEM" /\ UNCHANGED <<vmas, mo, olink, brk>>
    ELSE IF i = 0
    THEN \E w \in {VmmapMap(W, p, FALSE, hs, ne - hs, FALSE)} :
            BrkGrowMapped(w, p, addr)
    ELSE /\ vmas' = [vmas EXCEPT ![p][i].end = ne]
         /\ brk' = [brk EXCEPT ![p] = addr]
         /\ ret' = "OK"
         /\ UNCHANGED <<mo, olink>>

\* Fault variant of BrkShrink: the area's end is left where it was (only
\* the page table would be cleared).
BrkShrinkKeepEnd(p, addr, ne, i) ==
    IF i = 0 THEN ret' = "EFAULT" /\ UNCHANGED <<vmas, mo, olink, brk>>
    ELSE /\ brk' = [brk EXCEPT ![p] = addr]
         /\ ret' = "OK"
         /\ UNCHANGED <<vmas, mo, olink>>

\* Shrinking below the page of the old break: -EFAULT if no area holds hs,
\* otherwise move the end of that area down to ne.  The pages above are
\* only removed from the page table (pt_unmap_range, tlb_flush_range),
\* which the model does not keep: they stay resident in the object.
BrkShrink(p, addr, ne, i) ==
    IF i = 0 THEN ret' = "EFAULT" /\ UNCHANGED <<vmas, mo, olink, brk>>
    ELSE /\ vmas' = [vmas EXCEPT ![p][i].end = ne]
         /\ brk' = [brk EXCEPT ![p] = addr]
         /\ ret' = "OK"
         /\ UNCHANGED <<mo, olink>>

BrkChange(p, addr, oe, ne, hs) ==
    LET i == VmmapLookup(vmas[p], hs)
    IN  IF ne = oe
        THEN /\ brk' = [brk EXCEPT ![p] = addr]
             /\ ret' = "OK"
             /\ UNCHANGED <<vmas, mo, olink>>
        ELSE IF addr > brk[p] THEN BrkGrow(p, addr, oe, ne, hs, i)
        ELSE BrkShrink(p, addr, ne, i)

DoBrk(p, addr) ==
    /\ Running(p)
    /\ IF addr = 0 \/ addr = brk[p]
       THEN ret' = "OK" /\ UNCHANGED <<vmas, mo, olink, brk>>
       ELSE IF addr < startbrk \/ addr >= UserMemHigh
       THEN ret' = "ENOMEM" /\ UNCHANGED <<vmas, mo, olink, brk>>
       ELSE BrkChange(p, addr, AddrToPn(PageAlignUp(brk[p])),
                      AddrToPn(PageAlignUp(addr)), AddrToPn(startbrk))
    /\ RefsBounded'
    /\ UNCHANGED <<live, fk, startbrk>>

-----------------------------------------------------------------------------
(***************************************************************************)
(* The first process.  proc_create leaves p_start_brk and p_brk NULL      *)
(* (startbrk 0) and an empty map.  The ELF loader, which is not among the *)
(* sources, sets p_start_brk = p_brk at the end of the data and bss       *)
(* region and maps that region as the first area, private and anonymous   *)
(* here, ending at the page that holds the break.                          *)
(***************************************************************************)
Loaded == startbrk # 0

Init ==
    /\ startbrk \in StartBrks
    /\ vmas = [p \in Procs |-> IF p = FirstProc /\ Loaded
                               THEN <<DataArea(startbrk)>> ELSE <<>>]
    /\ live = {FirstProc}
    /\ mo = [o \in Objs |->
               CASE o = FileObj       -> [FreeSlot EXCEPT !.kind = "file", !.ref = 1]
                 [] o = 1 /\ Loaded   -> [FreeSlot EXCEPT !.kind = "anon", !.ref = 1]
                 [] OTHER             -> FreeSlot]
    /\ olink = [v \in VmaIds |-> IF v = 1 /\ Loaded THEN 1 ELSE NoObj]
    /\ fk = NoFork
    /\ ret = "OK"
    /\ brk = [p \in Procs |-> startbrk]

Next ==
    \/ \E p \in Procs :
          \/ \E k \in MapKinds, lo \in MmapLos, n \in 1..NPages :
                DoMmap(p, k, lo, n)
          \/ \E lo \in UnmapLos, n \in 1..NPages : DoMunmap(p, lo, n)
          \/ \E vfn \in FaultPages, wr \in BOOLEAN : HandlePagefault(p, vfn, wr)
          \/ \E a \in BrkAddrs : DoBrk(p, a)
          \/ DoExit(p)
          \/ \E c \in Procs \ {p} : ForkBegin(p, c)
    \/ ForkStep
    \/ ForkFinish

Spec == Init /\ [][Next]_vars
-----------------------------------------------------------------------------
(* Properties.                                                             *)

TypeOK ==
    /\ vmas \in [Procs -> Seq([id : VmaIds, start : UserLo..UserHi,
                              end : UserLo..UserHi, off : Nat,
                              shared : BOOLEAN, obj : Objs \cup {NoObj}])]
    /\ live \subseteq Procs
    /\ mo \in [Objs -> [kind : Kinds, ref : Int, res : SUBSET Nat,
                        shadowed : Objs \cup {NoObj}, bottom : Objs \cup {NoObj}]]
    /\ olink \in [VmaIds -> Objs \cup {NoObj}]
    /\ ret \in Rets
    /\ startbrk \in StartBrks
    /\ brk \in [Procs -> 0..(UserMemHigh - 1)]

\* The references o's holders own: its resident pages, the areas mapping
\* it, the shadows over it, the shadows whose bottom it is (when it is not
\* also their shadowed object) and, for the file, the open file.
AreaRefs(o) ==
    MapThenSumSet(LAMBDA p : Cardinality({i \in 1..Len(vmas[p]) :
                                           vmas[p][i].obj = o}), Procs)
LiveShadows == {s \in AllocIds : mo[s].kind = "shadow"}
Holders(o) ==
    Cardinality(mo[o].res) + AreaRefs(o)
    + Cardinality({s \in LiveShadows : mo[s].shadowed = o})
    + Cardinality({s \in LiveShadows : mo[s].bottom = o /\ mo[s].shadowed # o})
    + (IF o = FileObj THEN 1 ELSE 0)

(***************************************************************************)
(* No object is freed, or put once more, while something still holds it   *)
(* (anon_put, shadow_put against every ref: vmmap_map, vmmap_remove's      *)
(* split, fork's shadowing and revert, vmmap_destroy, page faults):        *)
(* mmo_refcount is never below the number of holders.                      *)
(***************************************************************************)
RefcountCoversHolders == \A o \in Objs : mo[o].ref >= Holders(o)

(***************************************************************************)
(* Exact accounting: every live object's mmo_refcount is exactly the       *)
(* number of its holders, so the last holder's put frees it.               *)
(***************************************************************************)
RefcountExact ==
    \A o \in Objs : mo[o].kind # "free" => mo[o].ref = Holders(o)

(***************************************************************************)
(* The vmarea list algorithms over every map that mmap, munmap and the    *)
(* splits of vmmap_remove build: vmmap_insert keeps each list sorted by   *)
(* vma_start and disjoint; vmmap_find_range is first fit, returning the   *)
(* lowest (LOHI) or highest (HILO) free start for every size, and NoRange *)
(* exactly when none is free; vmmap_lookup and vmmap_is_range_empty agree *)
(* with the set of mapped pages.  Off-by-one errors at the ends of the    *)
(* user range or at adjacent areas show up here.                           *)
(***************************************************************************)
InsertKeepsOrder == \A p \in Procs : WellFormed(vmas[p])

FindRangeIsFirstFit ==
    \A p \in Procs, n \in 1..NPages, dir \in Dirs :
        VmmapFindRange(vmas[p], n, dir) = FirstFit(vmas[p], n, dir)

LookupAndEmptyAgree ==
    \A p \in Procs :
        /\ \A vfn \in 0..(UserHi + 1) :
              LET i == VmmapLookup(vmas[p], vfn)
              IN  IF vfn \in MappedPages(vmas[p])
                  THEN i # 0 /\ vmas[p][i].start <= vfn /\ vfn < vmas[p][i].end
                  ELSE i = 0
        /\ \A s \in UserLo..UserHi, n \in 0..NPages :
              VmmapIsRangeEmpty(vmas[p], s, n)
                  <=> (s..(s + n - 1)) \cap MappedPages(vmas[p]) = {}

(***************************************************************************)
(* Shadow chains (setup_shadow_obj, vmmap_map): every shadow has a live    *)
(* shadowed object, its chain ends in an anonymous or file object, and    *)
(* that object is its mmo_bottom_obj, which shadow_fillpage walks to and  *)
(* shadow_put releases.                                                    *)
(***************************************************************************)
ShadowChainsEndAtBottom ==
    \A s \in LiveShadows :
        /\ mo[s].shadowed \in Objs
        /\ mo[mo[s].shadowed].kind # "free"
        /\ mo[s].bottom = ChainEnd(mo, s, NObjs + 1)
        /\ mo[mo[s].bottom].kind \in {"anon", "file"}

(***************************************************************************)
(* Every area with an object is on the vma list of its object's bottom     *)
(* object (vmmap_map, vmmap_remove's split, setup_shadow_obj, copy_vmmap   *)
(* for shared areas), the list vmmap_revert's callers rely on.             *)
(***************************************************************************)
AreasOnBottomLists ==
    \A p \in Procs : \A i \in 1..Len(vmas[p]) :
        vmas[p][i].obj # NoObj =>
            olink[vmas[p][i].id] = BottomObj(mo, vmas[p][i].obj)

(***************************************************************************)
(* The vma list of every live bottom object holds only areas that exist: *)
(* a vma_olink on the list of an object that is not freed belongs to an   *)
(* area of some map whose bottom object it is. vmmap_remove unlinks it     *)
(* before freeing the area; a file object outlives the process, so a link *)
(* left on its list is later written through by the next mmap of the file.*)
(***************************************************************************)
BottomListsLive ==
    \A v \in VmaIds : (olink[v] # NoObj /\ mo[olink[v]].kind # "free") =>
        \E p \in Procs : \E i \in 1..Len(vmas[p]) :
            /\ vmas[p][i].id = v
            /\ vmas[p][i].obj # NoObj
            /\ BottomObj(mo, vmas[p][i].obj) = olink[v]

ForkFailureRestoresParent ==
    [][(fk.i # 0 /\ fk'.i = 0 /\ ret' = "ENOMEM") => vmas'[fk.par] = fk.saved]_vars

(***************************************************************************)
(* The heap matches the break (brk.c's comment, lines 29-39, and the      *)
(* spec's scenario S5): for every process, the area that vmmap_lookup     *)
(* finds at the page of p_start_brk ends exactly at the page holding      *)
(* p_brk, rounded up, so every address below the break can be written    *)
(* and none past its page (when the break is at a page boundary at or    *)
(* below the start, the heap is empty and the page may belong to an mmap  *)
(* placed there).  It relates brk to the map across grows, shrinks, page- *)
(* local moves, mmap next to the heap and fork, which copies both.       *)
(***************************************************************************)
HeapMatchesBreak ==
    \A p \in live :
        LET hs == AddrToPn(startbrk)
            he == AddrToPn(PageAlignUp(brk[p]))
            i  == VmmapLookup(vmas[p], hs)
        IN  he > hs => i # 0 /\ vmas[p][i].end = he

(***************************************************************************)
(* Region ordering (spec, section 8, invariant 3): every map is sorted by *)
(* start and its areas are pairwise disjoint, whatever brk, mmap, munmap  *)
(* and fork did to it.  brk moves an area's end in place, so it is the   *)
(* collision test before it that keeps the areas apart.                  *)
(***************************************************************************)
RegionsDisjoint ==
    \A p \in Procs :
        \A i, j \in 1..Len(vmas[p]) :
            i < j => /\ vmas[p][i].start <= vmas[p][j].start
                     /\ vmas[p][i].end <= vmas[p][j].start
                        \/ vmas[p][j].start = vmas[p][j].end
                        \/ vmas[p][i].start = vmas[p][i].end

\* The objects of o's shadow chain, o first.
RECURSIVE ChainObjs(_, _, _)
ChainObjs(m, o, fuel) ==
    IF o = NoObj \/ fuel = 0 THEN {} ELSE {o} \cup ChainObjs(m, m[o].shadowed, fuel - 1)

\* The object page indices area v maps (the chain uses the same index).
AreaPages(v) == v.off..(v.off + v.end - v.start - 1)

(***************************************************************************)
(* Copy-on-write (spec section 8, invariant 4): a write to a private area  *)
(* lands in the area's own object (handle_pagefault looks the page up for  *)
(* writing in vma_obj), and no other area can read that page there: for    *)
(* every other area whose chain passes through that object at an object   *)
(* page both map, a shadow above it in that chain already holds the page.  *)
(* fork's setup_shadow_objects gives parent and child a shadow each, and   *)
(* vmmap_remove's split keeps the halves on disjoint object pages.         *)
(* Checked when no fork is part way through its loop.                     *)
(***************************************************************************)
WritesStayPrivate ==
    fk.i = 0 =>
        \A p, q \in Procs :
            \A i \in 1..Len(vmas[p]), j \in 1..Len(vmas[q]) :
                LET v == vmas[p][i]
                    u == vmas[q][j]
                IN  (/\ ~v.shared /\ v.obj # NoObj /\ <<p, i>> # <<q, j>>
                     /\ v.obj \in ChainObjs(mo, u.obj, NObjs + 1))
                        => \A pg \in AreaPages(v) \cap AreaPages(u) :
                               ResidentBefore(mo, u.obj, v.obj, pg, NObjs + 1)
=============================================================================
