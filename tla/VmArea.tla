------------------------------- MODULE VmArea -------------------------------
(***************************************************************************)
(* The vmarea list of an address space and the pure algorithms over it,   *)
(* from src/kernel/vm/vmmap.c: vmmap_insert, vmmap_find_range,            *)
(* vmmap_lookup and vmmap_is_range_empty.                                 *)
(*                                                                         *)
(* A vmmap is a sequence of vmarea records kept in ascending order of     *)
(* vma_start.  Page numbers are virtual frame numbers; the user range is  *)
(* [UserLo, UserHi), the pages of USER_MEM_LOW and USER_MEM_HIGH.         *)
(* Only the fields the kernel's decisions read are kept: the page range,  *)
(* the page offset into the object, MAP_SHARED versus MAP_PRIVATE, the    *)
(* backing object and an identity for the vmarea_t itself.                *)
(***************************************************************************)
EXTENDS Naturals, Sequences, SequencesExt

CONSTANT NPages   \* number of user pages

ASSUME NPages \in Nat \ {0}

UserLo == 1
UserHi == NPages + 1

\* The sentinel (uint32_t)-1 returned by vmmap_find_range.
NoRange == -1

\* vmmap_find_range directions.
Dirs == {"VMMAP_DIR_LOHI", "VMMAP_DIR_HILO"}

\* Fault variant of VmmapInsert: the area is appended without looking for
\* its place in the list.
VmmapInsertAtTail(vs, newvma) == Append(vs, newvma)

\* vmmap_insert: put newvma before the first area whose vma_start is greater
\* than its own, or at the tail if there is none.
VmmapInsert(vs, newvma) ==
    LET after == {i \in 1..Len(vs) : vs[i].start > newvma.start}
    IN  IF after = {} THEN Append(vs, newvma)
        ELSE InsertAt(vs, Min(after), newvma)

(***************************************************************************)
(* vmmap_find_range, first fit.  LOHI walks the list forwards and returns *)
(* the low end of the first gap of npages or more (the gap below the      *)
(* first area, then between areas, then above the last).  HILO walks it   *)
(* backwards and returns the high end of the first such gap counted from  *)
(* the top.  i is the list position the loop is at.                       *)
(***************************************************************************)
RECURSIVE FindLoHi(_, _, _)
FindLoHi(vs, npages, i) ==
    IF i > Len(vs)
    THEN IF Len(vs) = 0
         THEN IF UserHi - UserLo >= npages THEN UserLo ELSE NoRange
         ELSE IF UserHi > vs[i - 1].end /\ UserHi - vs[i - 1].end >= npages
              THEN vs[i - 1].end ELSE NoRange
    ELSE LET lo == IF i = 1 THEN UserLo ELSE vs[i - 1].end
         IN  IF vs[i].start - lo >= npages THEN lo
             ELSE FindLoHi(vs, npages, i + 1)

\* Fault variant of FindHiLo: a gap must be strictly larger than npages.
RECURSIVE FindHiLoStrict(_, _, _)
FindHiLoStrict(vs, npages, i) ==
    IF i = 0
    THEN IF Len(vs) = 0
         THEN IF UserHi - UserLo > npages THEN UserHi - npages ELSE NoRange
         ELSE IF UserLo < vs[1].start /\ vs[1].start - UserLo > npages
              THEN vs[1].start - npages ELSE NoRange
    ELSE LET hi == IF i = Len(vs) THEN UserHi ELSE vs[i + 1].start
         IN  IF hi - vs[i].end > npages THEN hi - npages
             ELSE FindHiLoStrict(vs, npages, i - 1)

RECURSIVE FindHiLo(_, _, _)
FindHiLo(vs, npages, i) ==
    IF i = 0
    THEN IF Len(vs) = 0
         THEN IF UserHi - UserLo >= npages THEN UserHi - npages ELSE NoRange
         ELSE IF UserLo < vs[1].start /\ vs[1].start - UserLo >= npages
              THEN vs[1].start - npages ELSE NoRange
    ELSE LET hi == IF i = Len(vs) THEN UserHi ELSE vs[i + 1].start
         IN  IF hi - vs[i].end >= npages THEN hi - npages
             ELSE FindHiLo(vs, npages, i - 1)

VmmapFindRange(vs, npages, dir) ==
    IF npages <= 0 THEN NoRange
    ELSE IF dir = "VMMAP_DIR_LOHI" THEN FindLoHi(vs, npages, 1)
    ELSE FindHiLo(vs, npages, Len(vs))

\* vmmap_lookup: the position of the area containing vfn, 0 (NULL) if none.
VmmapLookup(vs, vfn) ==
    LET hit == {i \in 1..Len(vs) : vs[i].start <= vfn /\ vfn < vs[i].end}
    IN  IF hit = {} THEN 0 ELSE Min(hit)

\* Fault variant of VmmapIsRangeEmpty: an area ending exactly at startvfn
\* is taken to intersect the range.
VmmapIsRangeEmptyAdjacent(vs, startvfn, npages) ==
    npages = 0 \/
    \A i \in 1..Len(vs) :
        vs[i].end < startvfn \/ vs[i].start >= startvfn + npages

\* vmmap_is_range_empty: no area intersects [startvfn, startvfn + npages).
VmmapIsRangeEmpty(vs, startvfn, npages) ==
    npages = 0 \/
    \A i \in 1..Len(vs) :
        vs[i].end <= startvfn \/ vs[i].start >= startvfn + npages

-----------------------------------------------------------------------------
(* Reference definitions: what the list algorithms are meant to compute.  *)

\* The pages an area list maps.
MappedPages(vs) == UNION {vs[i].start..(vs[i].end - 1) : i \in 1..Len(vs)}

\* The start pages of every free run of npages user pages.
FreeStarts(vs, npages) ==
    {s \in UserLo..(UserHi - npages) :
        (s..(s + npages - 1)) \cap MappedPages(vs) = {}}

\* First fit: the lowest free run for LOHI, the highest for HILO.
FirstFit(vs, npages, dir) ==
    IF FreeStarts(vs, npages) = {} THEN NoRange
    ELSE IF dir = "VMMAP_DIR_LOHI" THEN Min(FreeStarts(vs, npages))
    ELSE Max(FreeStarts(vs, npages))

\* A well formed list: non-empty areas inside the user range, ascending and
\* pairwise disjoint.
WellFormed(vs) ==
    /\ \A i \in 1..Len(vs) :
          UserLo <= vs[i].start /\ vs[i].start < vs[i].end
          /\ vs[i].end <= UserHi
    /\ \A i \in 1..(Len(vs) - 1) : vs[i].end <= vs[i + 1].start
=============================================================================
