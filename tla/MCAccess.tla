------------------------------- MODULE MCAccess -------------------------------
(* An instance of Access for TLC.                                           *)
EXTENDS Access, TLC

CONSTANTS t1, t2, u1, u2

ThreadSymmetry == Permutations(Threads)
=============================================================================
