---- MODULE MCAIReplies ----
(* Two conversations of one page and one of another.                       *)
EXTENDS AIReplies

CONSTANTS c1, c2, p, q, v, w, x

UUIDs == [r \in Pages |-> <<"uuid", r>>]
Numbers == [r \in Pages |-> <<"number", r>>]
TwoAndOne == [u \in Conversations |-> IF u = x THEN q ELSE p]
====
