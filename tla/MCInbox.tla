---- MODULE MCInbox ----
(* One customer writes two messages, which Facebook delivers in one entry  *)
(* or in an entry each.                                                    *)
EXTENDS Inbox, TLC

CONSTANTS a, m1, m2, h1, h2

OneSender == [m \in Messages |-> a]

OneBatch == 1 :> <<m1, m2>>
TwoBatches == 1 :> <<m1>> @@ 2 :> <<m2>>
====
