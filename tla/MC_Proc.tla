------------------------------ MODULE MC_Proc ------------------------------
EXTENDS Proc, TLC
=============================================================================
