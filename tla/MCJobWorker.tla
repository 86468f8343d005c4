----------------------------- MODULE MCJobWorker -----------------------------
\* Small instances of JobWorker for TLC.
EXTENDS JobWorker, TLC

CONSTANTS j1, j2, p1, w1, w2

\* One partition for all keys.
OnePartition == [j \in Jobs |-> p1]

WorkerSymmetry == Permutations(Workers)

==============================================================================
