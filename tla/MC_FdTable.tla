----------------------------- MODULE MC_FdTable -----------------------------
EXTENDS FdTable, TLC

CONSTANTS p1, p2, f1, f2, f3, vd, vr, vc

MCProcs == {p1, p2}
MCFiles == {f1, f2}
MCFiles3 == {f1, f2, f3}
MCVnodes == {vd, vr, vc}
MCKind == [v \in MCVnodes |-> CASE v = vd -> "dir" [] v = vr -> "reg" [] v = vc -> "chr"]
DirReg == {vd, vr}
DirRegKind == [v \in DirReg |-> IF v = vd THEN "dir" ELSE "reg"]
FileSym == Permutations(MCFiles)
RegOnly == {vr}
RegKind == [v \in RegOnly |-> "reg"]
=============================================================================
