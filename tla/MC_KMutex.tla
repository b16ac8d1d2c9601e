----------------------------- MODULE MC_KMutex -----------------------------
(* Three kernel threads contending for one kmutex_t. *)
EXTENDS KMutex, TLC

CONSTANTS t1, t2, t3

MCThreads == {t1, t2, t3}

\* No thread cancels another: only lock, unlock and yield interleave.
MCNoCancellers == {}
=============================================================================
