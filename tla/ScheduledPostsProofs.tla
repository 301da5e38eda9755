------------------------ MODULE ScheduledPostsProofs ------------------------
(***************************************************************************)
(* Proofs about ScheduledPosts, for any number of rows, pages, servers,    *)
(* workers and requests, any retry and batch size and any fault bounds.    *)
(***************************************************************************)
EXTENDS ScheduledPosts, TLAPS

(* A process works on a row exactly when it is neither waiting nor done.   *)
(* Without it TypeOK is not inductive: a post of no row would be counted.  *)
BusyHasRow == \A p \in Procs : cur[p] = NoRow <=> pc[p] \in {"idle", "done"}

TypeInv == TypeOK /\ BusyHasRow

(* Every reachable state is well typed.                                    *)
LEMMA TypeInvariant == Spec => []TypeInv
<1> USE SchedulerAssumption
<1>1. Init => TypeInv
  BY DEF Init, TypeInv, BusyHasRow, TypeOK, Stored, Procs
<1>2. ASSUME TypeInv, [Next]_vars PROVE TypeInv'
  <2> USE <1>2 DEF TypeInv, BusyHasRow, TypeOK
  <2>1. ASSUME NEW p \in Procs, PublishStep(p) PROVE TypeInv'
    <3>1. CASE GetPage(p)
      BY <3>1 DEF GetPage, GiveUpOn, Goto, Finish, Rest, DbFault, db, hist, procs, faults
    <3>2. CASE Post(p)
      BY <3>2 DEF Post, MayRetry, GiveUpOn, Goto, Finish, Rest, db, hist, faults
    <3>3. CASE Record(p)
      BY <3>3 DEF Record, Goto, DbFault, hist, faults
    <3>4. CASE MarkPublished(p)
      BY <3>4 DEF MarkPublished, Finish, Rest, DbFault, hist, faults, SetStatus, Stored
    <3>5. QED
      BY <2>1, <3>1, <3>2, <3>3, <3>4 DEF PublishStep
  <2>2. ASSUME NEW w \in Workers, WorkerStep(w) PROVE TypeInv'
    <3>0. w \in Procs
      BY DEF Procs
    <3>1. CASE ListDue(w)
      BY <3>0, <3>1 DEF ListDue, Due, db, hist, faults
    <3>2. ASSUME NEW r \in Rows, Claim(w, r) PROVE TypeInv'
      BY <3>0, <3>2 DEF Claim, Claimable, NextInBatch, SetStatus, faults, Stored
    <3>3. ASSUME NEW r \in Rows, ClaimFails(w, r) PROVE TypeInv'
      BY <3>0, <3>3 DEF ClaimFails, NextInBatch, DbFault, db, hist, faults
    <3>4. CASE MarkFailed(w)
      BY <3>0, <3>4 DEF MarkFailed, Finish, Rest, DbFault, hist, faults, SetStatus, Stored
    <3>5. QED
      BY <2>1, <2>2, <3>0, <3>1, <3>2, <3>3, <3>4 DEF WorkerStep
  <2>3. ASSUME NEW c \in Callers, CallerStep(c) PROVE TypeInv'
    <3>0. c \in Procs
      BY DEF Procs
    <3>1. ASSUME NEW r \in Rows, PublishImmediate(c, r) PROVE TypeInv'
      BY <3>0, <3>1 DEF PublishImmediate, Insert, SetStatus, faults, hist, Stored
    <3>2. ASSUME NEW r \in Rows, PublishNow(c, r) PROVE TypeInv'
      BY <3>0, <3>2 DEF PublishNow, db, faults, hist
    <3>3. CASE ReadRow(c)
      BY <3>0, <3>3 DEF ReadRow, Goto, Finish, Rest, DbFault, db, faults
    <3>4. QED
      BY <2>1, <2>3, <3>0, <3>1, <3>2, <3>3 DEF CallerStep
  <2>4. CASE Environment
    <3>1. CASE Tick
      BY <3>1 DEF Tick, db, procs, faults, hist
    <3>2. ASSUME NEW r \in Rows, Schedule(r) PROVE TypeInv'
      BY <3>2 DEF Schedule, Insert, SetStatus, procs, faults, hist, Stored
    <3>3. ASSUME NEW r \in Rows, Cancel(r) PROVE TypeInv'
      BY <3>3 DEF Cancel, SetStatus, procs, faults, Stored
    <3>4. ASSUME NEW g \in Pages, TogglePage(g) PROVE TypeInv'
      BY <3>4 DEF TogglePage, procs, faults, hist
    <3>5. ASSUME NEW g \in Pages, DeletePage(g) PROVE TypeInv'
      BY <3>5 DEF DeletePage, procs, faults, hist, Stored
    <3>6. ASSUME NEW s \in Servers, Crash(s) \/ Shutdown(s) PROVE TypeInv'
      BY <3>6 DEF Crash, Shutdown, Lose, Rest, db, hist
    <3>7. QED
      BY <2>4, <3>1, <3>2, <3>3, <3>4, <3>5, <3>6 DEF Environment
  <2>5. CASE UNCHANGED vars
    BY <2>5 DEF vars, db, procs, faults, hist
  <2>6. QED
    BY <2>2, <2>3, <2>4, <2>5 DEF Next
<1>3. QED
  BY <1>1, <1>2, PTL DEF Spec

(* The variables have their types in every reachable state.                *)
THEOREM TypeCorrect == Spec => []TypeOK
<1>1. TypeInv => TypeOK
  BY DEF TypeInv
<1>2. QED
  BY <1>1, TypeInvariant, PTL
-----------------------------------------------------------------------------
(* Claims                                                                  *)

(* Why a row is claimed once: a claim takes the row out of SCHEDULED, no   *)
(* step puts a row back there, and a worker on a row is the one that       *)
(* claimed it.                                                             *)
ClaimInv ==
  /\ \A r \in Rows : claims[r] <= 1
  /\ \A r \in Rows : claims[r] > 0 => status[r] \notin {"NONE", "SCHEDULED"}
  /\ \A r \in cancels : claims[r] = 0 /\ status[r] \notin {"NONE", "SCHEDULED"}
  /\ \A w \in Workers : cur[w] # NoRow => claims[cur[w]] = 1
  /\ \A v, w \in Workers : cur[v] = cur[w] /\ cur[v] # NoRow => v = w

LEMMA ClaimInvariant == Spec => []ClaimInv
<1> USE SchedulerAssumption
<1>1. Init => ClaimInv
  BY DEF Init, ClaimInv, Procs
<1>2. ASSUME TypeInv, ClaimInv, [Next]_vars PROVE ClaimInv'
  <2> USE <1>2 DEF TypeInv, BusyHasRow, TypeOK, ClaimInv
  <2>1. ASSUME NEW p \in Procs, PublishStep(p) PROVE ClaimInv'
    <3>1. CASE GetPage(p)
      BY <3>1 DEF GetPage, GiveUpOn, Goto, Finish, db, hist, Procs
    <3>2. CASE Post(p)
      BY <3>2 DEF Post, MayRetry, GiveUpOn, Goto, Finish, db, Procs
    <3>3. CASE Record(p)
      BY <3>3 DEF Record, Goto, hist
    <3>4. CASE MarkPublished(p)
      BY <3>4 DEF MarkPublished, Finish, hist, SetStatus, Exists, Stored, Procs
    <3>5. QED
      BY <2>1, <3>1, <3>2, <3>3, <3>4 DEF PublishStep
  <2>2. ASSUME NEW w \in Workers, WorkerStep(w) PROVE ClaimInv'
    <3>0. w \in Procs
      BY DEF Procs
    <3>1. CASE ListDue(w)
      BY <3>1 DEF ListDue, db, hist
    <3>2. ASSUME NEW r \in Rows, Claim(w, r) PROVE ClaimInv'
      <4>0. status[r] = "SCHEDULED"
        BY <3>2 DEF Claim, Claimable
      <4>1. claims[r] = 0 /\ r \notin cancels
        BY <4>0
      <4>2. \A v \in Workers : cur[v] # r
        BY <3>2, <4>1
      <4>3. QED
        BY <3>0, <3>2, <4>1, <4>2 DEF Claim, Claimable, SetStatus, Procs
    <3>3. ASSUME NEW r \in Rows, ClaimFails(w, r) PROVE ClaimInv'
      BY <3>3 DEF ClaimFails, db, hist
    <3>4. CASE MarkFailed(w)
      BY <3>0, <3>4 DEF MarkFailed, Finish, hist, SetStatus, Exists, Stored, Procs
    <3>5. QED
      BY <2>1, <2>2, <3>0, <3>1, <3>2, <3>3, <3>4 DEF WorkerStep
  <2>3. ASSUME NEW c \in Callers, CallerStep(c) PROVE ClaimInv'
    <3>0. c \in Procs /\ c \notin Workers
      BY DEF Procs
    <3>1. ASSUME NEW r \in Rows, PublishImmediate(c, r) PROVE ClaimInv'
      BY <3>0, <3>1 DEF PublishImmediate, Insert, SetStatus, hist, Procs
    <3>2. ASSUME NEW r \in Rows, PublishNow(c, r) PROVE ClaimInv'
      BY <3>0, <3>2 DEF PublishNow, db, hist, Procs
    <3>3. CASE ReadRow(c)
      BY <3>0, <3>3 DEF ReadRow, Goto, Finish, db, Procs
    <3>4. QED
      BY <2>1, <2>3, <3>0, <3>1, <3>2, <3>3 DEF CallerStep
  <2>4. CASE Environment
    <3>1. CASE Tick
      BY <3>1 DEF Tick, db, procs, hist
    <3>2. ASSUME NEW r \in Rows, Schedule(r) PROVE ClaimInv'
      BY <3>2 DEF Schedule, Insert, SetStatus, procs, hist
    <3>3. ASSUME NEW r \in Rows, Cancel(r) PROVE ClaimInv'
      <4>1. status[r] = "SCHEDULED"
        BY <3>3 DEF Cancel
      <4>2. claims[r] = 0
        BY <4>1
      <4>3. QED
        BY <3>3, <4>2 DEF Cancel, SetStatus, procs
    <3>4. ASSUME NEW g \in Pages, TogglePage(g) PROVE ClaimInv'
      BY <3>4 DEF TogglePage, procs, hist
    <3>5. ASSUME NEW g \in Pages, DeletePage(g) PROVE ClaimInv'
      BY <3>5 DEF DeletePage, procs, hist
    <3>6. ASSUME NEW s \in Servers, Crash(s) \/ Shutdown(s) PROVE ClaimInv'
      BY <3>6 DEF Crash, Shutdown, Lose, db, hist, Procs
    <3>7. QED
      BY <2>4, <3>1, <3>2, <3>3, <3>4, <3>5, <3>6 DEF Environment
  <2>5. CASE UNCHANGED vars
    BY <2>5 DEF vars, db, procs, hist
  <2>6. QED
    BY <2>2, <2>3, <2>4, <2>5 DEF Next
<1>3. QED
  BY <1>1, <1>2, TypeInvariant, PTL DEF Spec

(* A row is claimed at most once in its life, and no two workers publish   *)
(* it at a time: the atomic UPDATE of MarkSchedulePublishing is enough.    *)
THEOREM ClaimsAreExclusive == Spec => []ClaimedOnce
<1>1. NoRow \notin Rows
  BY SchedulerAssumption
<1>2. ClaimInv => ClaimedOnce
  BY <1>1 DEF ClaimInv, ClaimedOnce, WorksOn
<1>3. QED
  BY <1>2, ClaimInvariant, PTL

(* No worker ever claims a row whose cancellation was answered with        *)
(* success.                                                                *)
THEOREM CancelledRowsStayUnclaimed == Spec => []CancelBeatsWorkers
<1>1. ClaimInv => CancelBeatsWorkers
  BY DEF ClaimInv, CancelBeatsWorkers
<1>2. QED
  BY <1>1, ClaimInvariant, PTL

-----------------------------------------------------------------------------
(* Posts                                                                   *)

(* Why the workers post a row once: an unclaimed row has not been posted,  *)
(* and the one worker that claimed it posts it only as long as no answer   *)
(* came back.  Requests are outside of this: they leave their mark in      *)
(* byHand before they post.                                                *)
FeedInv ==
  /\ \A c \in Callers : pc[c] \in {"getPage", "posting", "record", "markPub", "markFail"}
                         => cur[c] \in byHand
  /\ \A p \in Procs : pc[p] \in {"record", "markPub"} => posts[cur[p]] >= 1
  /\ \A r \in Rows : status[r] = "PUBLISHED" => posts[r] >= 1
  /\ \A r \in Rows \ (byHand \cup lost) : posts[r] <= 1
  /\ \A r \in Rows \ (byHand \cup lost) : claims[r] = 0 => posts[r] = 0
  /\ \A w \in Workers :
       pc[w] \in {"getPage", "posting"} /\ cur[w] \notin byHand \cup lost => posts[cur[w]] = 0

LEMMA FeedInvariant == Spec => []FeedInv
<1> USE SchedulerAssumption
<1>1. Init => FeedInv
  BY DEF Init, FeedInv, Procs
<1>2. ASSUME TypeInv, ClaimInv, FeedInv, [Next]_vars PROVE FeedInv'
  <2> USE <1>2 DEF TypeInv, BusyHasRow, TypeOK, ClaimInv, FeedInv
  <2>1. ASSUME NEW p \in Procs, PublishStep(p) PROVE FeedInv'
    <3>1. CASE GetPage(p)
      BY <3>1 DEF GetPage, GiveUpOn, Goto, Finish, Rest, db, hist, Procs
    <3>2. CASE Post(p)
      BY <3>2 DEF Post, MayRetry, Outcomes, GiveUpOn, Goto, Finish, Rest, db, Procs
    <3>3. CASE Record(p)
      BY <3>3 DEF Record, Goto, hist, DbFault
    <3>4. CASE MarkPublished(p)
      BY <3>4 DEF MarkPublished, Finish, Rest, hist, SetStatus, Exists, Stored, Procs, DbFault
    <3>5. QED
      BY <2>1, <3>1, <3>2, <3>3, <3>4 DEF PublishStep
  <2>2. ASSUME NEW w \in Workers, WorkerStep(w) PROVE FeedInv'
    <3>0. w \in Procs /\ w \notin Callers
      BY DEF Procs
    <3>1. CASE ListDue(w)
      BY <3>1 DEF ListDue, db, hist
    <3>2. ASSUME NEW r \in Rows, Claim(w, r) PROVE FeedInv'
      BY <3>0, <3>2 DEF Claim, Claimable, SetStatus, Procs
    <3>3. ASSUME NEW r \in Rows, ClaimFails(w, r) PROVE FeedInv'
      BY <3>3 DEF ClaimFails, db, hist, DbFault
    <3>4. CASE MarkFailed(w)
      BY <3>0, <3>4 DEF MarkFailed, Finish, Rest, hist, SetStatus, Exists, Stored, Procs, DbFault
    <3>5. QED
      BY <2>1, <2>2, <3>0, <3>1, <3>2, <3>3, <3>4 DEF WorkerStep
  <2>3. ASSUME NEW c \in Callers, CallerStep(c) PROVE FeedInv'
    <3>0. c \in Procs /\ c \notin Workers
      BY DEF Procs
    <3>1. ASSUME NEW r \in Rows, PublishImmediate(c, r) PROVE FeedInv'
      BY <3>0, <3>1 DEF PublishImmediate, Insert, SetStatus, hist, Procs
    <3>2. ASSUME NEW r \in Rows, PublishNow(c, r) PROVE FeedInv'
      BY <3>0, <3>2 DEF PublishNow, db, hist, Procs
    <3>3. CASE ReadRow(c)
      BY <3>0, <3>3 DEF ReadRow, Goto, Finish, Rest, db, Procs, DbFault
    <3>4. QED
      BY <2>1, <2>3, <3>0, <3>1, <3>2, <3>3 DEF CallerStep
  <2>4. CASE Environment
    <3>1. CASE Tick
      BY <3>1 DEF Tick, db, procs, hist
    <3>2. ASSUME NEW r \in Rows, Schedule(r) PROVE FeedInv'
      BY <3>2 DEF Schedule, Insert, SetStatus, procs, hist
    <3>3. ASSUME NEW r \in Rows, Cancel(r) PROVE FeedInv'
      BY <3>3 DEF Cancel, SetStatus, procs
    <3>4. ASSUME NEW g \in Pages, TogglePage(g) PROVE FeedInv'
      BY <3>4 DEF TogglePage, procs, hist
    <3>5. ASSUME NEW g \in Pages, DeletePage(g) PROVE FeedInv'
      BY <3>5 DEF DeletePage, procs, hist
    <3>6. ASSUME NEW s \in Servers, Crash(s) \/ Shutdown(s) PROVE FeedInv'
      BY <3>6 DEF Crash, Shutdown, Lose, Rest, db, hist, Procs
    <3>7. QED
      BY <2>4, <3>1, <3>2, <3>3, <3>4, <3>5, <3>6 DEF Environment
  <2>5. CASE UNCHANGED vars
    BY <2>5 DEF vars, db, procs, hist
  <2>6. QED
    BY <2>2, <2>3, <2>4, <2>5 DEF Next
<1>3. QED
  BY <1>1, <1>2, TypeInvariant, ClaimInvariant, PTL DEF Spec

(* Whatever the number of workers, a row is posted a second time only      *)
(* after a request published it by hand or an answer of Facebook got lost. *)
THEOREM WorkersPostOnce == Spec => []PostedOnceByWorkers
<1>1. TypeInv /\ FeedInv => PostedOnceByWorkers
  BY DEF TypeInv, TypeOK, FeedInv, PostedOnceByWorkers
<1>2. QED
  BY <1>1, TypeInvariant, FeedInvariant, PTL

(* Why post_history keeps up: the entry is written before the verdict, and *)
(* only a deleted page (whose rows are gone) or a database error prevents  *)
(* it.                                                                     *)
HistoryInv ==
  /\ \A p \in Procs : cur[p] # NoRow => status[cur[p]] # "NONE"
  /\ \A r \in Rows : Exists(r) => page[PageOf[r]] # "gone"
  /\ dbFaults = 0 =>
       /\ \A p \in Procs : pc[p] = "markPub" /\ Exists(cur[p]) => cur[p] \in inHistory
       /\ \A r \in Rows : status[r] = "PUBLISHED" => r \in inHistory

LEMMA HistoryInvariant == Spec => []HistoryInv
<1> USE SchedulerAssumption
<1>1. Init => HistoryInv
  BY DEF Init, HistoryInv, Exists, Stored
<1>2. ASSUME TypeInv, HistoryInv, [Next]_vars PROVE HistoryInv'
  <2> USE <1>2 DEF TypeInv, BusyHasRow, TypeOK, HistoryInv, Exists, Stored
  <2>1. ASSUME NEW p \in Procs, PublishStep(p) PROVE HistoryInv'
    <3>1. CASE GetPage(p)
      BY <3>1 DEF GetPage, GiveUpOn, Goto, Finish, Rest, DbFault, db, hist, Procs, faults
    <3>2. CASE Post(p)
      BY <3>2 DEF Post, MayRetry, Outcomes, GiveUpOn, Goto, Finish, Rest, db, Procs, faults
    <3>3. CASE Record(p)
      BY <3>3 DEF Record, Goto, hist, DbFault, faults
    <3>4. CASE MarkPublished(p)
      BY <3>4 DEF MarkPublished, Finish, Rest, hist, SetStatus, Exists, Stored, Procs, DbFault, faults
    <3>5. QED
      BY <2>1, <3>1, <3>2, <3>3, <3>4 DEF PublishStep
  <2>2. ASSUME NEW w \in Workers, WorkerStep(w) PROVE HistoryInv'
    <3>0. w \in Procs /\ w \notin Callers
      BY DEF Procs
    <3>1. CASE ListDue(w)
      BY <3>1 DEF ListDue, db, hist, faults
    <3>2. ASSUME NEW r \in Rows, Claim(w, r) PROVE HistoryInv'
      BY <3>0, <3>2 DEF Claim, Claimable, SetStatus, Procs, faults
    <3>3. ASSUME NEW r \in Rows, ClaimFails(w, r) PROVE HistoryInv'
      BY <3>3 DEF ClaimFails, db, hist, DbFault, faults
    <3>4. CASE MarkFailed(w)
      BY <3>0, <3>4 DEF MarkFailed, Finish, Rest, hist, SetStatus, Exists, Stored, Procs, DbFault, faults
    <3>5. QED
      BY <2>1, <2>2, <3>0, <3>1, <3>2, <3>3, <3>4 DEF WorkerStep
  <2>3. ASSUME NEW c \in Callers, CallerStep(c) PROVE HistoryInv'
    <3>0. c \in Procs /\ c \notin Workers
      BY DEF Procs
    <3>1. ASSUME NEW r \in Rows, PublishImmediate(c, r) PROVE HistoryInv'
      BY <3>0, <3>1 DEF PublishImmediate, Insert, SetStatus, hist, Procs, faults
    <3>2. ASSUME NEW r \in Rows, PublishNow(c, r) PROVE HistoryInv'
      BY <3>0, <3>2 DEF PublishNow, db, hist, Procs, faults
    <3>3. CASE ReadRow(c)
      BY <3>0, <3>3 DEF ReadRow, Goto, Finish, Rest, db, Procs, DbFault, faults
    <3>4. QED
      BY <2>1, <2>3, <3>0, <3>1, <3>2, <3>3 DEF CallerStep
  <2>4. CASE Environment
    <3>1. CASE Tick
      BY <3>1 DEF Tick, db, procs, hist, faults
    <3>2. ASSUME NEW r \in Rows, Schedule(r) PROVE HistoryInv'
      BY <3>2 DEF Schedule, Insert, SetStatus, procs, hist, faults
    <3>3. ASSUME NEW r \in Rows, Cancel(r) PROVE HistoryInv'
      BY <3>3 DEF Cancel, SetStatus, procs, faults
    <3>4. ASSUME NEW g \in Pages, TogglePage(g) PROVE HistoryInv'
      BY <3>4 DEF TogglePage, procs, hist, faults
    <3>5. ASSUME NEW g \in Pages, DeletePage(g) PROVE HistoryInv'
      BY <3>5 DEF DeletePage, procs, hist, faults
    <3>6. ASSUME NEW s \in Servers, Crash(s) \/ Shutdown(s) PROVE HistoryInv'
      BY <3>6 DEF Crash, Shutdown, Lose, Rest, db, hist, Procs, faults
    <3>7. QED
      BY <2>4, <3>1, <3>2, <3>3, <3>4, <3>5, <3>6 DEF Environment
  <2>5. CASE UNCHANGED vars
    BY <2>5 DEF vars, db, procs, hist, faults
  <2>6. QED
    BY <2>2, <2>3, <2>4, <2>5 DEF Next
<1>3. QED
  BY <1>1, <1>2, TypeInvariant, PTL DEF Spec

(* A PUBLISHED row has been posted, and is in the history unless the       *)
(* database failed.                                                        *)
THEOREM PublishedIsTrue == Spec => []PublishedIsOnFeed
<1>1. FeedInv /\ HistoryInv => PublishedIsOnFeed
  BY DEF FeedInv, HistoryInv, PublishedIsOnFeed
<1>2. QED
  BY <1>1, FeedInvariant, HistoryInvariant, PTL
-----------------------------------------------------------------------------
(* The refinement                                                          *)

(* Without requests that publish by hand, the row of a worker stays where  *)
(* its claim has put it, unless its page is deleted.                       *)
HeldInv == \A w \in Workers : cur[w] # NoRow => status[cur[w]] \in {"PUBLISHING", "DELETED"}

LEMMA HeldInvariant == ASSUME Callers = {} PROVE Spec => []HeldInv
<1> USE SchedulerAssumption
<1>1. Init => HeldInv
  BY DEF Init, HeldInv, Procs
<1>2. ASSUME TypeInv, ClaimInv, HeldInv, [Next]_vars PROVE HeldInv'
  <2> USE <1>2 DEF TypeInv, BusyHasRow, TypeOK, ClaimInv, HeldInv
  <2>1. ASSUME NEW w \in Workers, WorkerStep(w) PROVE HeldInv'
    <3>0. w \in Procs
      BY DEF Procs
    <3>1. CASE ListDue(w)
      BY <3>1 DEF ListDue, db
    <3>2. ASSUME NEW r \in Rows, Claim(w, r) PROVE HeldInv'
      BY <3>0, <3>2 DEF Claim, Claimable, SetStatus, Procs
    <3>3. ASSUME NEW r \in Rows, ClaimFails(w, r) PROVE HeldInv'
      BY <3>3 DEF ClaimFails, db
    <3>4. CASE GetPage(w)
      BY <3>0, <3>4 DEF GetPage, GiveUpOn, Goto, Finish, db
    <3>5. CASE Post(w)
      BY <3>0, <3>5 DEF Post, MayRetry, GiveUpOn, Goto, Finish, db
    <3>6. CASE Record(w)
      BY <3>6 DEF Record, Goto
    <3>7. CASE MarkPublished(w)
      BY <3>0, <3>7 DEF MarkPublished, Finish, SetStatus, Procs
    <3>8. CASE MarkFailed(w)
      BY <3>0, <3>8 DEF MarkFailed, Finish, SetStatus, Procs
    <3>9. QED
      BY <2>1, <3>1, <3>2, <3>3, <3>4, <3>5, <3>6, <3>7, <3>8 DEF WorkerStep, PublishStep
  <2>2. CASE Environment
    <3>1. CASE Tick
      BY <3>1 DEF Tick, db, procs
    <3>2. ASSUME NEW r \in Rows, Schedule(r) PROVE HeldInv'
      BY <3>2 DEF Schedule, Insert, SetStatus, procs
    <3>3. ASSUME NEW r \in Rows, Cancel(r) PROVE HeldInv'
      BY <3>3 DEF Cancel, SetStatus, procs
    <3>4. ASSUME NEW g \in Pages, TogglePage(g) PROVE HeldInv'
      BY <3>4 DEF TogglePage, procs
    <3>5. ASSUME NEW g \in Pages, DeletePage(g) PROVE HeldInv'
      BY <3>5 DEF DeletePage, procs, Procs
    <3>6. ASSUME NEW s \in Servers, Crash(s) \/ Shutdown(s) PROVE HeldInv'
      BY <3>6 DEF Crash, Shutdown, Lose, db, Procs
    <3>7. QED
      BY <2>2, <3>1, <3>2, <3>3, <3>4, <3>5, <3>6 DEF Environment
  <2>3. CASE UNCHANGED vars
    BY <2>3 DEF vars, db, procs
  <2>4. QED
    BY <2>1, <2>2, <2>3 DEF Next
<1>3. QED
  BY <1>1, <1>2, TypeInvariant, ClaimInvariant, PTL DEF Spec

Claimed == {r \in Rows : claims[r] > 0}

Delivered == {r \in Rows : posts[r] > 0}

(* A step that touches neither column, claims nor posts is a stutter.      *)
LEMMA Stutter ==
  ASSUME UNCHANGED <<status, claims, posts>>
  PROVE  [Lifecycle!Next]_(Lifecycle!vars)
BY DEF Lifecycle!vars

(* What a worker does is a step of the row's life, or a stutter.           *)
LEMMA WorkersStepSimulates ==
  ASSUME TypeInv, ClaimInv, FeedInv, HeldInv, NEW w \in Workers, WorkerStep(w)
  PROVE  [Lifecycle!Next]_(Lifecycle!vars)
<1> USE SchedulerAssumption DEF TypeInv, BusyHasRow, TypeOK
<1>0. w \in Procs
  BY DEF Procs
<1>1. CASE ListDue(w) \/ \E r \in Rows : ClaimFails(w, r)
  BY <1>1, Stutter DEF ListDue, ClaimFails, db, hist
<1>2. ASSUME NEW r \in Rows, Claim(w, r) PROVE [Lifecycle!Next]_(Lifecycle!vars)
  <2>1. claims[r] = 0
    BY <1>2 DEF ClaimInv, Claim, Claimable
  <2>2. Claimed' = Claimed \cup {r}
    BY <1>2, <2>1 DEF Claim, Claimed
  <2>3. Lifecycle!Claim(r)
    BY <1>2, <2>1, <2>2 DEF Claim, Claimable, SetStatus, Claimed, Lifecycle!Claim, Lifecycle!Move
  <2>4. QED
    BY <2>3 DEF Lifecycle!Next
<1>3. CASE GetPage(w)
  BY <1>3, Stutter DEF GetPage, GiveUpOn, Goto, Finish, db, hist
<1>4. CASE Post(w)
  <2>0. PICK k \in Rows : k = cur[w]
    BY <1>0, <1>4 DEF Post
  <2>1. claims[k] = 1 /\ status[k] \in {"PUBLISHING", "DELETED"}
    BY <1>0, <1>4, <2>0 DEF Post, ClaimInv, HeldInv
  <2>2. UNCHANGED <<status, claims>>
    BY <1>4 DEF Post, db
  <2>3. PICK o \in Outcomes : posts' = [posts EXCEPT ![k] = @ + (IF o.applied THEN 1 ELSE 0)]
    BY <1>4, <2>0 DEF Post
  <2>4. CASE o.applied
    <3>1. Delivered' = Delivered \cup {k}
      BY <2>1, <2>3, <2>4 DEF Delivered
    <3>2. Lifecycle!Deliver(k)
      BY <2>1, <2>2, <3>1 DEF Delivered, Lifecycle!Deliver
    <3>3. QED
      BY <3>2 DEF Lifecycle!Next
  <2>5. CASE ~o.applied
    <3>1. posts' = posts
      BY <2>1, <2>3, <2>5
    <3>2. QED
      BY <2>2, <3>1, Stutter
  <2>6. QED
    BY <2>4, <2>5
<1>5. CASE Record(w)
  BY <1>5, Stutter DEF Record, hist
<1>6. CASE MarkPublished(w)
  <2>0. PICK k \in Rows : k = cur[w]
    BY <1>0, <1>6 DEF MarkPublished
  <2>1. posts[k] > 0 /\ status[k] \in {"PUBLISHING", "DELETED"}
    BY <1>0, <1>6, <2>0 DEF MarkPublished, FeedInv, HeldInv
  <2>2. UNCHANGED <<claims, posts>>
    BY <1>6 DEF MarkPublished, hist
  <2>3. CASE Exists(k) /\ SetStatus(k, "PUBLISHED")
    <3>1. status[k] = "PUBLISHING"
      BY <2>1, <2>3 DEF Exists, Stored
    <3>2. Lifecycle!Publish(k)
      BY <2>1, <2>2, <2>3, <3>1 DEF SetStatus, Lifecycle!Publish, Lifecycle!Move
    <3>3. QED
      BY <3>2 DEF Lifecycle!Next
  <2>4. CASE UNCHANGED status
    BY <2>2, <2>4, Stutter
  <2>5. QED
    BY <1>6, <2>0, <2>3, <2>4 DEF MarkPublished
<1>7. CASE MarkFailed(w)
  <2>0. PICK k \in Rows : k = cur[w]
    BY <1>0, <1>7 DEF MarkFailed
  <2>1. status[k] \in {"PUBLISHING", "DELETED"}
    BY <1>0, <1>7, <2>0 DEF MarkFailed, HeldInv
  <2>2. UNCHANGED <<claims, posts>>
    BY <1>7 DEF MarkFailed, hist
  <2>3. CASE Exists(k) /\ SetStatus(k, "FAILED")
    <3>1. status[k] = "PUBLISHING"
      BY <2>1, <2>3 DEF Exists, Stored
    <3>2. Lifecycle!Fail(k)
      BY <2>2, <2>3, <3>1 DEF SetStatus, Lifecycle!Fail, Lifecycle!Move
    <3>3. QED
      BY <3>2 DEF Lifecycle!Next
  <2>4. CASE UNCHANGED status
    BY <2>2, <2>4, Stutter
  <2>5. QED
    BY <1>7, <2>0, <2>3, <2>4 DEF MarkFailed
<1>8. QED
  BY <1>1, <1>2, <1>3, <1>4, <1>5, <1>6, <1>7 DEF WorkerStep, PublishStep

LEMMA EnvironmentSimulates ==
  ASSUME TypeInv, Environment
  PROVE  [Lifecycle!Next]_(Lifecycle!vars)
<1> USE SchedulerAssumption DEF TypeInv, BusyHasRow, TypeOK
<1>1. CASE Tick \/ \E g \in Pages : TogglePage(g)
  BY <1>1, Stutter DEF Tick, TogglePage, db, hist
<1>2. ASSUME NEW r \in Rows, Schedule(r) PROVE [Lifecycle!Next]_(Lifecycle!vars)
  <2>1. Lifecycle!Schedule(r)
    BY <1>2 DEF Schedule, Insert, SetStatus, hist, Lifecycle!Schedule, Lifecycle!Move
  <2>2. QED
    BY <2>1 DEF Lifecycle!Next
<1>3. ASSUME NEW r \in Rows, Cancel(r) PROVE [Lifecycle!Next]_(Lifecycle!vars)
  <2>1. Lifecycle!Cancel(r)
    BY <1>3 DEF Cancel, SetStatus, Lifecycle!Cancel, Lifecycle!Move
  <2>2. QED
    BY <2>1 DEF Lifecycle!Next
<1>4. ASSUME NEW g \in Pages, DeletePage(g) PROVE [Lifecycle!Next]_(Lifecycle!vars)
  <2> DEFINE S == {r \in Rows : PageOf[r] = g /\ Exists(r)}
  <2>1. S \in SUBSET {r \in Rows : status[r] # "NONE"}
    BY DEF Exists, Stored
  <2>2. status' = [r \in Rows |-> IF r \in S THEN "DELETED" ELSE status[r]]
    BY <1>4 DEF DeletePage
  <2>3. UNCHANGED <<claims, posts>>
    BY <1>4 DEF DeletePage, hist
  <2>4. Lifecycle!DeleteRows
    BY <2>1, <2>2, <2>3 DEF Lifecycle!DeleteRows
  <2>5. QED
    BY <2>4 DEF Lifecycle!Next
<1>5. ASSUME NEW s \in Servers, Crash(s) \/ Shutdown(s) PROVE [Lifecycle!Next]_(Lifecycle!vars)
  BY <1>5, Stutter DEF Crash, Shutdown, Lose, db, hist
<1>6. QED
  BY <1>1, <1>2, <1>3, <1>4, <1>5 DEF Environment

(* The workers keep the promise of PostLifecycle, however many they are    *)
(* and whatever crashes, faults and users do, as long as no request        *)
(* publishes rows by hand.                                                 *)
THEOREM WorkersKeepTheLifecycle == ASSUME Callers = {} PROVE Spec => ImplementsLifecycle
<1>1. Init => Lifecycle!Init
  BY DEF Init, Lifecycle!Init
<1>2. ASSUME TypeInv, ClaimInv, FeedInv, HeldInv, [Next]_vars
      PROVE  [Lifecycle!Next]_(Lifecycle!vars)
  <2>1. CASE UNCHANGED vars
    BY <2>1, Stutter DEF vars, db, hist
  <2>2. QED
    BY <1>2, <2>1, WorkersStepSimulates, EnvironmentSimulates DEF Next
<1>3. QED
  BY <1>1, <1>2, TypeInvariant, ClaimInvariant, FeedInvariant, HeldInvariant, PTL
     DEF Spec, ImplementsLifecycle, Lifecycle!Spec
=============================================================================
