---------------------------- MODULE PostLifecycle ---------------------------
(***************************************************************************)
(* What the scheduled-posts worker promises for a row, whoever else runs:  *)
(* it is claimed once, reaches the Facebook feed only after the claim,     *)
(* ends in one verdict, and a PUBLISHED verdict is true.  A cancelled row  *)
(* is never claimed.  ScheduledPosts implements it when no request         *)
(* publishes rows by hand.                                                 *)
(***************************************************************************)
CONSTANT Rows

VARIABLES
  status,     \* the row's status column
  claimed,    \* rows a worker has claimed
  delivered   \* rows that are on the Facebook feed

vars == <<status, claimed, delivered>>

Move(r, from, to) ==
  /\ status[r] = from
  /\ status' = [status EXCEPT ![r] = to]

Init ==
  /\ status = [r \in Rows |-> "NONE"]
  /\ claimed = {}
  /\ delivered = {}

Schedule(r) == Move(r, "NONE", "SCHEDULED") /\ UNCHANGED <<claimed, delivered>>

Cancel(r) == Move(r, "SCHEDULED", "CANCELLED") /\ UNCHANGED <<claimed, delivered>>

Claim(r) ==
  /\ r \notin claimed
  /\ Move(r, "SCHEDULED", "PUBLISHING")
  /\ claimed' = claimed \cup {r}
  /\ UNCHANGED delivered

Deliver(r) ==
  /\ r \in claimed
  /\ status[r] \in {"PUBLISHING", "DELETED"}
  /\ delivered' = delivered \cup {r}
  /\ UNCHANGED <<status, claimed>>

Publish(r) ==
  /\ r \in delivered
  /\ Move(r, "PUBLISHING", "PUBLISHED")
  /\ UNCHANGED <<claimed, delivered>>

Fail(r) == Move(r, "PUBLISHING", "FAILED") /\ UNCHANGED <<claimed, delivered>>

(* The rows of a deleted page go together.                                 *)
DeleteRows ==
  /\ \E S \in SUBSET {r \in Rows : status[r] # "NONE"} :
       status' = [r \in Rows |-> IF r \in S THEN "DELETED" ELSE status[r]]
  /\ UNCHANGED <<claimed, delivered>>

Next ==
  \/ \E r \in Rows : \/ Schedule(r) \/ Cancel(r) \/ Claim(r)
                     \/ Deliver(r) \/ Publish(r) \/ Fail(r)
  \/ DeleteRows

Spec == Init /\ [][Next]_vars
=============================================================================
