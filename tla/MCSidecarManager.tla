-------------------------- MODULE MCSidecarManager --------------------------
EXTENDS SidecarManager, TLC

CONSTANTS s1, s2, s3

Host == {s1, s2, s3}
Starters == {s1, s2}

Symmetry == Permutations(Children) \cup Permutations(Starters)
=============================================================================
