--------------------------- MODULE ScheduledPosts ---------------------------
(***************************************************************************)
(* Scheduled posts: the rows of facebook.scheduled_posts, the worker       *)
(* goroutine of each server that claims due rows and publishes them        *)
(* (service/worker.go), the publish-now and publish requests that publish  *)
(* a row from an HTTP handler (service/scheduler.go, handlers/publish.go), *)
(* cancellation, page toggles and page deletion, database errors, crashes  *)
(* and graceful shutdowns.                                                 *)
(*                                                                         *)
(* Every call to the database and every attempt of a Graph call is a step  *)
(* of its own: between two of them any other process may act.              *)
(***************************************************************************)
EXTENDS GraphReplies, FiniteSets

CONSTANTS
  Rows,         \* ids of scheduled_posts rows; an id is used once
  Pages,        \* registered Facebook pages
  PageOf,       \* the page of a row: page_id is NOT NULL and never updated
  Servers,      \* server processes sharing the database
  Workers,      \* worker goroutines
  Callers,      \* HTTP requests that publish a row at once, one row each
  Host,         \* the server a worker or a request runs in
  NoRow,        \* marks a process that works on no row
  MaxRetries,   \* fb.Config.MaxRetries
  BatchSize,    \* Worker.batchSize, the LIMIT of ListDue
  Grace,        \* how far in the past Schedule still accepts a time
  MaxTime,      \* bound: the clock stops here
  MaxDbFaults,  \* bound: database calls that fail
  MaxCrashes,   \* bound: crashes
  MaxShutdowns  \* bound: graceful shutdowns

Procs == Workers \cup Callers

ASSUME SchedulerAssumption ==
  /\ PageOf \in [Rows -> Pages]
  /\ Host \in [Procs -> Servers]
  /\ Workers \cap Callers = {}
  /\ NoRow \notin Rows
  /\ MaxRetries \in Nat \ {0}
  /\ BatchSize \in Nat \ {0}
  /\ {Grace, MaxTime, MaxDbFaults, MaxCrashes, MaxShutdowns} \subseteq Nat

VARIABLES
  status,     \* status column of each row, NONE before its INSERT and
              \* DELETED after the cascade of a page deletion
  dueAt,      \* scheduled_at
  now,        \* the clock
  page,       \* "on": active, posting enabled, with a token; "off"; "gone"
  inHistory,  \* rows with an entry in post_history
  pc,         \* where each worker and request is
  cur,        \* the row it works on
  attempt,    \* the loop counter of its Graph call
  batch,      \* rows of a worker's ListDue snapshot still to be tried
  dbFaults, crashes, shutdowns,  \* counters of the bounded failures
  posts,      \* history: how often Facebook carried out a post of the row
  lost,       \* history: rows one of whose posts was not acknowledged
  claims,     \* history: successful MarkPublishing calls of the row
  byHand,     \* history: rows a request started to publish
  cancels     \* history: rows that Cancel answered with success

db == <<status, dueAt, page, inHistory>>
procs == <<pc, cur, attempt, batch>>
faults == <<dbFaults, crashes, shutdowns>>
hist == <<posts, lost, claims, byHand, cancels>>
vars == <<db, now, procs, faults, hist>>

Stored == {"SCHEDULED", "PUBLISHING", "PUBLISHED", "FAILED", "CANCELLED"}

Init ==
  /\ status = [r \in Rows |-> "NONE"]
  /\ dueAt = [r \in Rows |-> 0]
  /\ now = 0
  /\ page = [g \in Pages |-> "on"]
  /\ inHistory = {}
  /\ pc = [p \in Procs |-> "idle"]
  /\ cur = [p \in Procs |-> NoRow]
  /\ attempt = [p \in Procs |-> 0]
  /\ batch = [w \in Workers |-> {}]
  /\ dbFaults = 0 /\ crashes = 0 /\ shutdowns = 0
  /\ posts = [r \in Rows |-> 0]
  /\ lost = {}
  /\ claims = [r \in Rows |-> 0]
  /\ byHand = {}
  /\ cancels = {}

-----------------------------------------------------------------------------
(* Helpers                                                                 *)

Exists(r) == status[r] \in Stored

SetStatus(r, s) == status' = [status EXCEPT ![r] = s]

(* A database call of a process fails and has no effect.                   *)
DbFault ==
  /\ dbFaults < MaxDbFaults
  /\ dbFaults' = dbFaults + 1
  /\ UNCHANGED <<crashes, shutdowns>>

(* Process p moves on to step s with the row it has.                       *)
Goto(p, s) ==
  /\ pc' = [pc EXCEPT ![p] = s]
  /\ UNCHANGED <<cur, attempt, batch>>

(* Where a process is that has no row any more: a worker waits for its     *)
(* next row, a request is answered.                                        *)
Rest(p) == IF p \in Workers THEN "idle" ELSE "done"

(* Process p has done with its row.                                        *)
Finish(p) ==
  /\ pc' = [pc EXCEPT ![p] = Rest(p)]
  /\ cur' = [cur EXCEPT ![p] = NoRow]
  /\ attempt' = [attempt EXCEPT ![p] = 0]
  /\ UNCHANGED batch

(* Breakages of GiveUpOn: the error is taken for a success; the worker     *)
(* returns without MarkFailed.                                             *)
PublishAnyway(p) == IF p \in Workers THEN Goto(p, "markPub") ELSE Finish(p)
GiveUpSilently(p) == Finish(p)

(* An error return: the worker marks the row FAILED, a request answers its *)
(* client and leaves the row as it is.                                     *)
GiveUpOn(p) == IF p \in Workers THEN Goto(p, "markFail") ELSE Finish(p)

(* Breakage of Due: the rows of pages that cannot post are left out.       *)
DueOnActivePages ==
  {r \in Rows : status[r] = "SCHEDULED" /\ dueAt[r] <= now /\ page[PageOf[r]] = "on"}

(* What ListDueScheduled selects: the earliest BatchSize due rows.         *)
Due == {r \in Rows : status[r] = "SCHEDULED" /\ dueAt[r] <= now}

(* Breakage of Claimable: MarkSchedulePublishing without its condition on  *)
(* the status.                                                             *)
ClaimableAnyway(r) == Exists(r)

(* The WHERE clause of MarkSchedulePublishing.                             *)
Claimable(r) == status[r] = "SCHEDULED"

MayRetry(p) == attempt[p] < MaxRetries

Earliest(B, S) == \A r \in B, q \in S \ B : dueAt[r] <= dueAt[q]

-----------------------------------------------------------------------------
(* The clock and the user                                                  *)

Tick ==
  /\ now < MaxTime
  /\ now' = now + 1
  /\ UNCHANGED <<db, procs, faults, hist>>

(* Scheduler.Schedule with a time t; the row's page must be registered.    *)
Insert(r, t) ==
  /\ status[r] = "NONE"
  /\ page[PageOf[r]] # "gone"
  /\ SetStatus(r, "SCHEDULED")
  /\ dueAt' = [dueAt EXCEPT ![r] = t]
  /\ UNCHANGED <<page, inHistory, now, faults, hist>>

Schedule(r) ==
  /\ \E t \in 0 .. MaxTime : t + Grace >= now /\ Insert(r, t)
  /\ UNCHANGED procs

(* The Publish handler without scheduled_at: a row due in a moment, and    *)
(* then the same request publishes it (pc "read").                         *)
PublishImmediate(c, r) ==
  /\ pc[c] = "idle"
  /\ Insert(r, now + 1)
  /\ pc' = [pc EXCEPT ![c] = "read"]
  /\ cur' = [cur EXCEPT ![c] = r]
  /\ UNCHANGED <<attempt, batch>>

Cancel(r) ==
  /\ status[r] = "SCHEDULED"
  /\ SetStatus(r, "CANCELLED")
  /\ cancels' = cancels \cup {r}
  /\ UNCHANGED <<dueAt, page, inHistory, now, procs, faults, posts, lost, claims, byHand>>

(* The page's posting flag, active flag or token is taken away or given    *)
(* back.                                                                   *)
TogglePage(g) ==
  /\ page[g] # "gone"
  /\ page' = [page EXCEPT ![g] = IF @ = "on" THEN "off" ELSE "on"]
  /\ UNCHANGED <<status, dueAt, inHistory, now, procs, faults, hist>>

(* ON DELETE CASCADE takes the page's rows and history entries along.      *)
DeletePage(g) ==
  /\ page[g] # "gone"
  /\ page' = [page EXCEPT ![g] = "gone"]
  /\ status' = [r \in Rows |-> IF PageOf[r] = g /\ Exists(r)
                               THEN "DELETED" ELSE status[r]]
  /\ inHistory' = {r \in inHistory : PageOf[r] # g}
  /\ UNCHANGED <<dueAt, now, procs, faults, hist>>

-----------------------------------------------------------------------------
(* The worker's tick                                                       *)

(* processOnce: take a snapshot of the due rows.  (A ListDue that fails    *)
(* changes nothing.)                                                       *)
ListDue(w) ==
  /\ pc[w] = "idle"
  /\ batch[w] = {}
  /\ \E B \in SUBSET Due \ {{}} :
       /\ Earliest(B, Due)
       /\ B = Due \/ Cardinality(B) = BatchSize
       /\ Cardinality(B) <= BatchSize
       /\ batch' = [batch EXCEPT ![w] = B]
  /\ UNCHANGED <<db, now, pc, cur, attempt, faults, hist>>

(* processRow starts on the next row of the snapshot.                      *)
NextInBatch(w, r) ==
  /\ pc[w] = "idle"
  /\ r \in batch[w]
  /\ Earliest({r}, batch[w])
  /\ batch' = [batch EXCEPT ![w] = @ \ {r}]

(* MarkPublishing finds the row still SCHEDULED: it is this worker's.      *)
Claim(w, r) ==
  /\ NextInBatch(w, r)
  /\ Claimable(r)
  /\ SetStatus(r, "PUBLISHING")
  /\ claims' = [claims EXCEPT ![r] = @ + 1]
  /\ pc' = [pc EXCEPT ![w] = "getPage"]
  /\ cur' = [cur EXCEPT ![w] = r]
  /\ UNCHANGED <<dueAt, page, inHistory, now, attempt, faults, posts, lost, byHand, cancels>>

(* MarkPublishing fails: the row has been taken, cancelled or deleted, or  *)
(* the database call fails.                                                *)
ClaimFails(w, r) ==
  /\ NextInBatch(w, r)
  /\ IF Claimable(r) THEN DbFault ELSE UNCHANGED faults
  /\ UNCHANGED <<db, now, pc, cur, attempt, hist>>

(* MarkFailed, whatever the row's status is by now.                        *)
MarkFailed(w) ==
  /\ pc[w] = "markFail"
  /\ \/ /\ UNCHANGED faults
        /\ IF Exists(cur[w]) THEN SetStatus(cur[w], "FAILED") ELSE UNCHANGED status
     \/ DbFault /\ UNCHANGED status
  /\ Finish(w)
  /\ UNCHANGED <<dueAt, page, inHistory, now, hist>>

-----------------------------------------------------------------------------
(* The publish-now request                                                 *)

(* Scheduler.PublishNow: Get finds the row SCHEDULED.  Nothing is claimed. *)
ReadRow(c) ==
  /\ pc[c] = "read"
  /\ IF status[cur[c]] = "SCHEDULED"
     THEN \/ /\ Goto(c, "getPage")
             /\ byHand' = byHand \cup {cur[c]}
             /\ UNCHANGED faults
          \/ DbFault /\ Finish(c) /\ UNCHANGED byHand
     ELSE Finish(c) /\ UNCHANGED <<faults, byHand>>
  /\ UNCHANGED <<db, now, posts, lost, claims, cancels>>

(* The request of the Scheduler tab: it names an existing row.             *)
PublishNow(c, r) ==
  /\ pc[c] = "idle"
  /\ Exists(r)
  /\ pc' = [pc EXCEPT ![c] = "read"]
  /\ cur' = [cur EXCEPT ![c] = r]
  /\ UNCHANGED <<db, now, attempt, batch, faults, hist>>

-----------------------------------------------------------------------------
(* Publishing a row: the part a worker and a request share                 *)

(* pages.Get, and the guards of processRow and PublishContent on what it   *)
(* returned: later changes of the page go unnoticed.                       *)
GetPage(p) ==
  /\ pc[p] = "getPage"
  /\ \/ /\ page[PageOf[cur[p]]] = "on"
        /\ pc' = [pc EXCEPT ![p] = "posting"]
        /\ attempt' = [attempt EXCEPT ![p] = 1]
        /\ UNCHANGED <<cur, batch, faults>>
     \/ page[PageOf[cur[p]]] # "on" /\ GiveUpOn(p) /\ UNCHANGED faults
     \/ DbFault /\ GiveUpOn(p)
  /\ UNCHANGED <<db, now, hist>>

(* One attempt of PostToPageFeed.                                          *)
Post(p) ==
  /\ pc[p] = "posting"
  /\ \E o \in Outcomes :
       /\ posts' = [posts EXCEPT ![cur[p]] = @ + (IF o.applied THEN 1 ELSE 0)]
       /\ lost' = IF o.applied /\ o.verdict # "done" THEN lost \cup {cur[p]} ELSE lost
       /\ \/ o.verdict = "done" /\ Goto(p, "record")
          \/ /\ o.verdict = "retry" /\ MayRetry(p)
             /\ attempt' = [attempt EXCEPT ![p] = @ + 1]
             /\ UNCHANGED <<pc, cur, batch>>
          \/ /\ o.verdict = "fail" \/ (o.verdict = "retry" /\ ~MayRetry(p))
             /\ GiveUpOn(p)
  /\ UNCHANGED <<db, now, faults, claims, byHand, cancels>>

(* InsertHistory: an error, such as the missing page, is only logged.      *)
Record(p) ==
  /\ pc[p] = "record"
  /\ \/ /\ inHistory' = IF page[PageOf[cur[p]]] = "gone"
                        THEN inHistory ELSE inHistory \cup {cur[p]}
        /\ UNCHANGED faults
     \/ DbFault /\ UNCHANGED inHistory
  /\ Goto(p, "markPub")
  /\ UNCHANGED <<status, dueAt, page, now, hist>>

(* MarkPublished, whatever the row's status is by now.                     *)
MarkPublished(p) ==
  /\ pc[p] = "markPub"
  /\ \/ /\ UNCHANGED faults
        /\ IF Exists(cur[p]) THEN SetStatus(cur[p], "PUBLISHED") ELSE UNCHANGED status
     \/ DbFault /\ UNCHANGED status
  /\ Finish(p)
  /\ UNCHANGED <<dueAt, page, inHistory, now, hist>>

-----------------------------------------------------------------------------
(* Servers going down: what their processes held in memory is gone.  The   *)
(* server is up again at once, with an idle worker; its requests are over. *)

Lose(s) ==
  /\ pc' = [p \in Procs |-> IF Host[p] = s /\ pc[p] # "idle" THEN Rest(p) ELSE pc[p]]
  /\ cur' = [p \in Procs |-> IF Host[p] = s THEN NoRow ELSE cur[p]]
  /\ attempt' = [p \in Procs |-> IF Host[p] = s THEN 0 ELSE attempt[p]]
  /\ batch' = [w \in Workers |-> IF Host[w] = s THEN {} ELSE batch[w]]
  /\ UNCHANGED <<db, now, hist, dbFaults>>

(* A crash, a kill, or a shutdown whose drain timed out.                   *)
Crash(s) ==
  /\ crashes < MaxCrashes
  /\ crashes' = crashes + 1
  /\ Lose(s)
  /\ UNCHANGED shutdowns

(* SIGTERM: srv.Shutdown waits for the requests in flight, then main       *)
(* cancels the worker's context and returns without waiting for it.        *)
Shutdown(s) ==
  /\ shutdowns < MaxShutdowns
  /\ \A c \in Callers : Host[c] = s => pc[c] \in {"idle", "done"}
  /\ shutdowns' = shutdowns + 1
  /\ Lose(s)
  /\ UNCHANGED crashes

-----------------------------------------------------------------------------
PublishStep(p) == GetPage(p) \/ Post(p) \/ Record(p) \/ MarkPublished(p)

WorkerStep(w) ==
  \/ ListDue(w)
  \/ \E r \in Rows : Claim(w, r) \/ ClaimFails(w, r)
  \/ PublishStep(w)
  \/ MarkFailed(w)

CallerStep(c) ==
  \/ \E r \in Rows : PublishImmediate(c, r) \/ PublishNow(c, r)
  \/ ReadRow(c)
  \/ PublishStep(c)

Environment ==
  \/ Tick
  \/ \E r \in Rows : Schedule(r) \/ Cancel(r)
  \/ \E g \in Pages : TogglePage(g) \/ DeletePage(g)
  \/ \E s \in Servers : Crash(s) \/ Shutdown(s)

Next ==
  \/ \E w \in Workers : WorkerStep(w)
  \/ \E c \in Callers : CallerStep(c)
  \/ Environment

(* A worker's goroutine is scheduled and its ticker keeps firing; users,   *)
(* requests and failures come as they like.                                *)
Spec == Init /\ [][Next]_vars /\ \A w \in Workers : WF_vars(WorkerStep(w))
-----------------------------------------------------------------------------
(* Properties                                                              *)

TypeOK ==
  /\ status \in [Rows -> Stored \cup {"NONE", "DELETED"}]
  /\ dueAt \in [Rows -> Nat]
  /\ now \in Nat
  /\ page \in [Pages -> {"on", "off", "gone"}]
  /\ inHistory \subseteq Rows
  /\ pc \in [Procs -> {"idle", "read", "getPage", "posting", "record", "markPub", "markFail", "done"}]
  /\ cur \in [Procs -> Rows \cup {NoRow}]
  /\ attempt \in [Procs -> 0 .. MaxRetries]
  /\ batch \in [Workers -> SUBSET Rows]
  /\ dbFaults \in Nat /\ crashes \in Nat /\ shutdowns \in Nat
  /\ posts \in [Rows -> Nat]
  /\ lost \subseteq Rows
  /\ claims \in [Rows -> Nat]
  /\ byHand \subseteq Rows
  /\ cancels \subseteq Rows

(* Process p is publishing row r.                                          *)
WorksOn(p, r) == cur[p] = r

(* "Atomic claim", "to prevent two workers picking the same row"           *)
(* (queries/scheduler.sql:30-31): over its whole life a row is claimed at  *)
(* most once, and never by two workers at a time, through stale ListDue    *)
(* snapshots, crashes and publish-now requests.                            *)
ClaimedOnce ==
  /\ \A r \in Rows : claims[r] <= 1
  /\ \A v, w \in Workers, r \in Rows : WorksOn(v, r) /\ WorksOn(w, r) => v = w

(* A row is posted to Facebook twice only if a request published it by     *)
(* hand or Facebook's answer to one of the posts got lost: N workers,      *)
(* crashes and database errors alone never post a row twice                *)
(* (worker.go:84-86, "safe to scale to N instances").                      *)
PostedOnceByWorkers ==
  \A r \in Rows : posts[r] > 1 => r \in byHand \cup lost

(* PUBLISHED is never a lie: the post is on the feed, and, as long as the  *)
(* database answers and the page is there, in post_history too.            *)
PublishedIsOnFeed ==
  \A r \in Rows : status[r] = "PUBLISHED" =>
    /\ posts[r] >= 1
    /\ dbFaults = 0 => r \in inHistory

(* A cancellation answered with success keeps every worker off the row for *)
(* good, even one that already holds the row in its snapshot.              *)
CancelBeatsWorkers == \A r \in cancels : claims[r] = 0

(* The worker's promise, see PostLifecycle; it is kept when no request     *)
(* publishes by hand.                                                      *)
Lifecycle == INSTANCE PostLifecycle WITH
  claimed <- {r \in Rows : claims[r] > 0},
  delivered <- {r \in Rows : posts[r] > 0}

ImplementsLifecycle == Lifecycle!Spec

(* A due row does not stay SCHEDULED, although workers crash, database     *)
(* calls fail and more rows are due than a batch holds.                    *)
DueRowsLeaveTheQueue ==
  \A r \in Rows : status[r] = "SCHEDULED" /\ dueAt[r] <= now ~> status[r] # "SCHEDULED"

(* A claimed row gets its verdict, unless a server goes down or a call to  *)
(* the database fails first.                                               *)
ClaimedRowsGetAVerdict ==
  \A r \in Rows : status[r] = "PUBLISHING" ~>
                    status[r] # "PUBLISHING" \/ dbFaults + crashes + shutdowns > 0
=============================================================================
