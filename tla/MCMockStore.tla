----------------------------- MODULE MCMockStore -----------------------------
\* A small instance of MockStore for TLC.
EXTENDS MockStore, TLC

CONSTANTS m1, m2, f1, f2, c1, c2, r1, r2, r3

\* Requests that read change nothing for the others, so that one at a time is enough.
SmallInit == Init /\ Cardinality({r \in Requests : Op(r) \in Reads}) <= 1

SmallSpec == SmallInit /\ [][Next]_vars

Symmetry ==
  Permutations(Mocks) \union Permutations(Families) \union Permutations(Contents)
    \union Permutations(Requests)

==============================================================================
