---- MODULE MCScheduledPosts ----
(* Two servers, each with a worker; requests run on the first of them.     *)
EXTENDS ScheduledPosts, TLC

CONSTANTS r1, r2, g1, s1, s2, w1, w2, c1, c2

OnePage == [r \in Rows |-> g1]

HostOf == [p \in Procs |-> IF p = w2 THEN s2 ELSE s1]

SingleHost == [p \in Procs |-> s1]
====
