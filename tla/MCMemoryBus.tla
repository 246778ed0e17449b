----------------------------- MODULE MCMemoryBus -----------------------------
(* Instances of MemoryBus for TLC.                                          *)
EXTENDS MemoryBus, TLC

CONSTANTS g1, t1, t2

\* Two threads of the one group; they are interchangeable.
SharedGroup == [t \in Threads |-> g1]
ThreadSymmetry == Permutations({t1, t2})
=============================================================================
