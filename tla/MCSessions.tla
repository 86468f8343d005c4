------------------------------ MODULE MCSessions -----------------------------
\* A small instance of Sessions for TLC.
EXTENDS Sessions, TLC

CONSTANTS u1, s1, s2, r1, r2, r3

Symmetry == Permutations(Requests)

==============================================================================
