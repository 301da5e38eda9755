---- MODULE MCCommentMonitor ----
(* A worker and a second sweeper (the worker of another server or the      *)
(* process request); comments whose texts ask for all three actions, or    *)
(* for a like only.                                                        *)
EXTENDS CommentMonitor, TLC

CONSTANTS k1, k2, w, v

Price == k1 :> "asking_price" @@ k2 :> "other"
Happy == [c \in Comments |-> "positive"]

PriceOf == [c \in Comments |-> Price[c]]
====
