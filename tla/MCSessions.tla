----------------------------- MODULE MCSessions -----------------------------
\* Constants of the Sessions run.
EXTENDS Sessions, TLC

CONSTANTS k1, h1, h2, m1, p1, a1, a2, d1

Symmetry == Permutations({h1, h2}) \union Permutations({a1, a2})
=============================================================================
