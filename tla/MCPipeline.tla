----------------------------- MODULE MCPipeline ------------------------------
\* Small instances of Pipeline for TLC.
EXTENDS Pipeline, TLC

CONSTANTS g1, g2, j1, p1, w1, w2

\* Two generations that ask for the same job, which has one partition.
SharedJob == [g \in Generations |-> j1]
OnePartition == [j \in Jobs |-> p1]

Symmetry == Permutations(Workers) \union Permutations(Generations)

==============================================================================
