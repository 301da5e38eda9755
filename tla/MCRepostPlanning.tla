--------------------------- MODULE MCRepostPlanning ---------------------------
EXTENDS RepostPlanning

CONSTANTS a1, a2, f1, p1, p2, p3

PostedTimes == p1 :> 1 @@ p2 :> 3 @@ p3 :> Never

(* Three posts: newest first, an older one first, an undated one first.    *)
PagesShown == {<<p2, p1, p3>>, <<p1, p2, p3>>, <<p3, p1, p2>>}

Item(a, t, x) == [account |-> a, fb |-> f1, when |-> t, auto |-> x, anon |-> FALSE]

TwoPlans == {<<Item(a1, 2, TRUE)>>, <<Item(a1, 1, TRUE), Item(a2, 2, FALSE)>>}

Symmetry == Permutations(Clients)
=============================================================================
