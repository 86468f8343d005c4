---------------------------- MODULE MCGeneration -----------------------------
\* Small instances of Generation for TLC.
EXTENDS Generation, TLC

CONSTANTS g1, g2, g3, j1, j2

\* Two generations that ask for the same job, and one that asks for another.
SharedJob == (g1 :> j1) @@ (g2 :> j1) @@ (g3 :> j2)
SharedJobOnly == (g1 :> j1) @@ (g2 :> j1)

==============================================================================
