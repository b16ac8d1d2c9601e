---------------------------- MODULE MC_VmObjects ----------------------------
EXTENDS VmObjects, TLC

CONSTANTS p1, p2

MCProcs == {p1, p2}
OneProc == {p1}
RemoveKinds == {"anon_private", "file_private"}
\* The kinds forked under the break: private over anonymous and file
\* objects (shadow chains), and shared file areas.
ForkKinds == {"anon_private", "file_private", "file_shared"}
AnonPrivate == {"anon_private"}
AllPages == 1..NPages
NoPages == {}
PageOne == {1}
AllKinds == {"anon_private", "anon_shared", "file_private", "file_shared"}
NoAnonPrivate == {"anon_shared", "file_private", "file_shared"}
\* do_mmap's lopage: NULL (find a range) or any fixed page; NULL alone.
AllLos == 0..NPages
NoFixed == {0}
\* do_munmap's lopage: any user page, or no munmap at all.
UnmapAll == UserLo..NPages
NoUnmap == {}
\* p_start_brk: NULL (proc_create, no ELF image), or a start inside the data
\* area's last page (3) or on a page boundary (4), one page of data either way.
NoImage == {0}
MCStartBrks == {3, 4}
\* brk's argument: none, or NULL, below both starts, at both starts, inside
\* and at the ends of the pages above, and USER_MEM_HIGH (8 with three
\* pages, 10 with four).
NoBrk == {}
BrkAddrs3 == {0, 2, 3, 4, 5, 6, 8}
BrkAddrs4 == {0, 2, 3, 4, 5, 6, 8, 9, 10}
=============================================================================
