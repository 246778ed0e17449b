---------------------------- MODULE MCWindowCounter ----------------------------
EXTENDS WindowCounter, TLC

CONSTANTS ka, kd, m1, m2

MemberSymmetry == Permutations(Members)
================================================================================
