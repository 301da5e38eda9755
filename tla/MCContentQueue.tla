---------------------------- MODULE MCContentQueue ----------------------------
EXTENDS ContentQueue

CONSTANTS t1, t2

PlainAndBase64 == {t1, t2}
OnlyT2 == {t2}

(* Clients, publishers and ids of rows are interchangeable.                *)
Symmetry == Permutations(Clients) \cup Permutations(Publishers) \cup Permutations(Rows)
=============================================================================
