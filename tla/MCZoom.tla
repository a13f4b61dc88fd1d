------------------------------- MODULE MCZoom -------------------------------
EXTENDS ZoomProperties, TLC
Symmetry == Permutations(Runs) \cup Permutations(Roots) \cup Permutations(Rows)

\* The second replacement of a checkpoint puts its files back, and only its
\* shards are replaced.
Parity(m, n) == n % 2
SameConfig(m, n) == 0
=============================================================================
