------------------------------- MODULE MCAccess ------------------------------
\* A small instance of Access for TLC.
EXTENDS Access, TLC

CONSTANTS u1, u2, root, x1, r1, r2, r3

Symmetry == Permutations({u1, u2}) \union Permutations(Requests)

==============================================================================
