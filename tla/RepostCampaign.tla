--------------------------- MODULE RepostCampaign ---------------------------
(***************************************************************************)
(* One repost campaign: its row in facebook.repost_campaigns, its jobs in  *)
(* facebook.repost_jobs (one post to one group each), the requests that    *)
(* create it, run it, edit its jobs and delete it (service/repost.go,      *)
(* service/repost_v2.go, handlers/repost.go).  A run posts through the     *)
(* sidecar's browser inside the HTTP request that asked for it; nothing    *)
(* keeps two requests from running the same campaign.                      *)
(*                                                                         *)
(* Every database call and every sidecar call is a step of its own.        *)
(***************************************************************************)
EXTENDS Naturals, FiniteSets

CONSTANTS
  Jobs,       \* the jobs of the campaign, numbered in the order of creation
  Runs,       \* slots for concurrent RunCampaign requests
  MaxFaults,  \* bound: failed calls and requests that are given up
  MaxEdits    \* bound: edits of jobs

NoJob == 0

ASSUME RepostAssumption ==
  /\ Jobs \subseteq Nat \ {NoJob}
  /\ {MaxFaults, MaxEdits} \subseteq Nat

VARIABLES
  campaign,    \* status column of the campaign
  job,         \* status column of each job
  toCreate,    \* jobs the creating request has not inserted yet
  pc,          \* where each run is
  todo,        \* the jobs of its snapshot still to be done
  cur,         \* the job it is at
  someFailed,  \* runs with failed > 0
  faults, edits,  \* counters of the bounded events
  posts,       \* history: how often each job has been posted
  reported,    \* history: jobs the sidecar has reported as posted
  unrecorded,  \* history: jobs with a post or a report not written down
  overlapped   \* history: jobs two runs had in hand at the same time

rows == <<campaign, job>>
runs == <<pc, todo, cur, someFailed>>
hist == <<posts, reported, unrecorded, overlapped>>
vars == <<rows, toCreate, runs, faults, edits, hist>>

(* No code writes the states "running" and "expired" of a job and          *)
(* "expired" of a campaign.                                                *)
Init ==
  /\ campaign = "none"
  /\ job = [j \in Jobs |-> "none"]
  /\ toCreate = {}
  /\ pc = [r \in Runs |-> "idle"]
  /\ todo = [r \in Runs |-> {}]
  /\ cur = [r \in Runs |-> NoJob]
  /\ someFailed = {}
  /\ faults = 0 /\ edits = 0
  /\ posts = [j \in Jobs |-> 0]
  /\ reported = {} /\ unrecorded = {} /\ overlapped = {}

-----------------------------------------------------------------------------
(* Helpers                                                                 *)

CampaignStates == {"pending", "running", "completed", "failed"}
JobStates == {"pending", "completed", "failed"}

Exists(j) == job[j] \in JobStates

First(j, S) == j \in S /\ \A k \in S : j <= k

Fault ==
  /\ faults < MaxFaults
  /\ faults' = faults + 1

(* UPDATE ... WHERE id = campaign: a deleted row stays deleted.            *)
SetCampaign(s) == campaign' = IF campaign = "deleted" THEN campaign ELSE s

SetJob(j, s) == job' = IF Exists(j) THEN [job EXCEPT ![j] = s] ELSE job

Goto(r, s) ==
  /\ pc' = [pc EXCEPT ![r] = s]
  /\ UNCHANGED <<todo, cur, someFailed>>

(* The request of run r is answered, or given up.                          *)
End(r) ==
  /\ pc' = [pc EXCEPT ![r] = "idle"]
  /\ todo' = [todo EXCEPT ![r] = {}]
  /\ cur' = [cur EXCEPT ![r] = NoJob]
  /\ someFailed' = someFailed \ {r}

(* The jobs a run still has to do or is at.                                *)
InHand(r) == todo[r] \cup ({cur[r]} \ {NoJob})

-----------------------------------------------------------------------------
(* CreateCampaign and PlanRepost: the campaign, then its jobs one by one.  *)
(* A job that cannot be inserted is skipped.                               *)

Create ==
  /\ campaign = "none"
  /\ campaign' = "pending"
  /\ toCreate' = Jobs
  /\ UNCHANGED <<job, runs, faults, edits, hist>>

InsertJob ==
  /\ \E j \in toCreate :
       /\ First(j, toCreate)
       /\ toCreate' = toCreate \ {j}
       /\ \/ /\ campaign # "deleted"
             /\ job' = [job EXCEPT ![j] = "pending"]
             /\ UNCHANGED faults
          \/ /\ IF campaign = "deleted" THEN UNCHANGED faults ELSE Fault
             /\ UNCHANGED job
  /\ UNCHANGED <<campaign, runs, edits, hist>>

-----------------------------------------------------------------------------
(* RunCampaign                                                             *)

(* Get, and the check of the campaign's status.                            *)
Begin(r) ==
  /\ pc[r] = "idle"
  /\ campaign \in {"pending", "running"}
  /\ Goto(r, "start")
  /\ UNCHANGED <<rows, toCreate, faults, edits, hist>>

(* UpdateStatus(running)                                                   *)
MarkRunning(r) ==
  /\ pc[r] = "start"
  /\ \/ SetCampaign("running") /\ Goto(r, "list") /\ UNCHANGED faults
     \/ Fault /\ End(r) /\ UNCHANGED campaign
  /\ UNCHANGED <<job, toCreate, edits, hist>>

(* Breakage of PendingJobs: jobs of every status are taken.                *)
AllJobs == {j \in Jobs : Exists(j)}

PendingJobs == {j \in Jobs : job[j] = "pending"}

(* ListPendingForCampaign: the snapshot the run works on.                  *)
ListPending(r) ==
  /\ pc[r] = "list"
  /\ \/ /\ todo' = [todo EXCEPT ![r] = PendingJobs]
        /\ pc' = [pc EXCEPT ![r] = "next"]
        /\ overlapped' = overlapped \cup
             UNION {PendingJobs \cap InHand(q) : q \in Runs \ {r}}
        /\ UNCHANGED <<cur, someFailed, faults>>
     \/ Fault /\ End(r) /\ UNCHANGED overlapped
  /\ UNCHANGED <<rows, toCreate, edits, posts, reported, unrecorded>>

(* The account and the group are looked at: the sidecar may post, or the   *)
(* job fails (account inactive or gone, access denied, a call failed).     *)
Check(r) ==
  /\ pc[r] = "next"
  /\ \E j \in todo[r] :
       /\ First(j, todo[r])
       /\ todo' = [todo EXCEPT ![r] = @ \ {j}]
       /\ cur' = [cur EXCEPT ![r] = j]
  /\ \E s \in {"post", "markFailed"} : pc' = [pc EXCEPT ![r] = s]
  /\ UNCHANGED <<rows, toCreate, someFailed, faults, edits, hist>>

(* Breakage of AfterPost: an error of the sidecar is not looked at.        *)
AfterPostAnyway(success) == "markCompleted"

AfterPost(success) == IF success THEN "markCompleted" ELSE "markFailed"

(* PostToGroup.  The sidecar judges by the looks of Facebook's page three  *)
(* seconds after its click: a dialog that is gone, or a word on the page,  *)
(* is a success although nothing was posted, and a post it could not       *)
(* confirm, or whose answer got lost, is a failure.                        *)
Post(r) ==
  /\ pc[r] = "post"
  /\ \E posted, success \in BOOLEAN :
       /\ reported' = IF success THEN reported \cup {cur[r]} ELSE reported
       /\ posts' = [posts EXCEPT ![cur[r]] = @ + (IF posted THEN 1 ELSE 0)]
       /\ unrecorded' = IF posted /\ ~success THEN unrecorded \cup {cur[r]} ELSE unrecorded
       /\ IF posted /\ ~success THEN Fault ELSE UNCHANGED faults
       /\ Goto(r, AfterPost(success))
  /\ UNCHANGED <<rows, toCreate, edits, overlapped>>

(* jobs.UpdateStatus, whatever the job's status is by now; its error is    *)
(* ignored.  The pause between two groups follows a completed job.         *)
Mark(r, s) ==
  /\ \/ /\ SetJob(cur[r], s)
        /\ UNCHANGED <<faults, unrecorded>>
     \/ /\ Fault
        /\ unrecorded' = IF s = "completed" THEN unrecorded \cup {cur[r]} ELSE unrecorded
        /\ UNCHANGED job
  /\ pc' = [pc EXCEPT ![r] = "next"]
  /\ cur' = [cur EXCEPT ![r] = NoJob]
  /\ someFailed' = IF s = "failed" THEN someFailed \cup {r} ELSE someFailed
  /\ UNCHANGED <<campaign, toCreate, todo, edits,
                 posts, reported, overlapped>>

MarkCompleted(r) == pc[r] = "markCompleted" /\ Mark(r, "completed")

MarkFailed(r) == pc[r] = "markFailed" /\ Mark(r, "failed")

(* Breakage of FinalStatus: only a failure is written down.                *)
FinalStatusOfFailures(r) == IF r \in someFailed THEN "failed" ELSE campaign

FinalStatus(r) == IF r \in someFailed THEN "failed" ELSE "completed"

(* The final UpdateStatus, also of a run that found no pending job.        *)
Close(r) ==
  /\ pc[r] = "next"
  /\ todo[r] = {}
  /\ \/ /\ SetCampaign(FinalStatus(r))
        /\ UNCHANGED faults
     \/ Fault /\ UNCHANGED campaign
  /\ End(r)
  /\ UNCHANGED <<job, toCreate, edits, hist>>

(* The client goes away or the server goes down: the request's context is  *)
(* done and none of its calls has an effect any more, but a post the       *)
(* sidecar has been asked for may still go out.                            *)
Abandon(r) ==
  /\ pc[r] # "idle"
  /\ Fault
  /\ \/ /\ pc[r] = "post"
        /\ posts' = [posts EXCEPT ![cur[r]] = @ + 1]
        /\ unrecorded' = unrecorded \cup {cur[r]}
     \/ /\ unrecorded' = IF pc[r] = "markCompleted" THEN unrecorded \cup {cur[r]} ELSE unrecorded
        /\ UNCHANGED posts
  /\ End(r)
  /\ UNCHANGED <<rows, toCreate, edits, reported, overlapped>>

-----------------------------------------------------------------------------
(* Edits                                                                   *)

(* Breakage of Reset: every job is put back.                               *)
ResetAny(status) == "pending"

(* The CASE of UpdateJob.                                                  *)
Reset(status) == IF status = "failed" THEN "pending" ELSE status

(* RescheduleJob and SetJobFlags write time and flags, and put a failed    *)
(* job back to pending.                                                    *)
UpdateJob(j) ==
  /\ Exists(j)
  /\ edits < MaxEdits
  /\ edits' = edits + 1
  /\ job' = [job EXCEPT ![j] = Reset(@)]
  /\ UNCHANGED <<campaign, toCreate, runs, faults, hist>>

(* The jobs go with the campaign; runs under way go on.                    *)
DeleteCampaign ==
  /\ campaign \in CampaignStates
  /\ campaign' = "deleted"
  /\ job' = [j \in Jobs |-> IF Exists(j) THEN "deleted" ELSE job[j]]
  /\ UNCHANGED <<toCreate, runs, faults, edits, hist>>

-----------------------------------------------------------------------------
RunStep(r) ==
  \/ MarkRunning(r) \/ ListPending(r) \/ Check(r) \/ Post(r)
  \/ MarkCompleted(r) \/ MarkFailed(r) \/ Close(r)

Next ==
  \/ Create \/ InsertJob
  \/ \E r \in Runs : Begin(r) \/ RunStep(r) \/ Abandon(r)
  \/ \E j \in Jobs : UpdateJob(j)
  \/ DeleteCampaign

(* A request under way goes on, the sidecar answers within its 120 s, and  *)
(* the pause between two groups ends.                                      *)
Spec == Init /\ [][Next]_vars /\ \A r \in Runs : WF_vars(RunStep(r))

-----------------------------------------------------------------------------
(* Properties                                                              *)

TypeOK ==
  /\ campaign \in CampaignStates \cup {"none", "deleted"}
  /\ job \in [Jobs -> JobStates \cup {"none", "deleted"}]
  /\ toCreate \subseteq Jobs
  /\ pc \in [Runs -> {"idle", "start", "list", "next", "post", "markCompleted", "markFailed"}]
  /\ todo \in [Runs -> SUBSET Jobs]
  /\ cur \in [Runs -> Jobs \cup {NoJob}]
  /\ \A r \in Runs : cur[r] # NoJob <=> pc[r] \in {"post", "markCompleted", "markFailed"}
  /\ someFailed \subseteq Runs
  /\ faults \in 0 .. MaxFaults /\ edits \in 0 .. MaxEdits
  /\ posts \in [Jobs -> Nat]
  /\ reported \subseteq Jobs /\ unrecorded \subseteq Jobs /\ overlapped \subseteq Jobs

(* A job is marked completed only if the sidecar has reported its post,    *)
(* and a reported job ends up completed, or deleted: it is not put back,   *)
(* failed or lost, whatever runs overlap, are given up, or find the job    *)
(* edited or deleted meanwhile, unless its report was not written down or  *)
(* two runs had it in hand.  Whether a report is true is the sidecar's     *)
(* affair: it may report a post that is not there.                         *)
VerdictsFollowReports ==
  \A j \in Jobs :
    /\ job[j] = "completed" => j \in reported
    /\ j \in reported \ (unrecorded \cup overlapped) =>
         \/ job[j] \in {"completed", "deleted"}
         \/ \E r \in Runs : pc[r] = "markCompleted" /\ cur[r] = j

(* A job is posted twice only if one of its posts was not written down or  *)
(* two runs had it in hand at the same time: editing jobs, running the     *)
(* campaign again and giving runs up alone never post a job twice.         *)
PostedTwiceOnlyIf == \A j \in Jobs : posts[j] > 1 => j \in unrecorded \cup overlapped

(* A completed job is never put back or marked failed, unless two runs had *)
(* it in hand at the same time.                                            *)
CompletedIsFinal ==
  [][\A j \in Jobs \ overlapped :
       job[j] = "completed" => job'[j] \in {"completed", "deleted"}]_vars

(* A campaign does not stay "running", whatever runs overlap, unless a     *)
(* call fails or a request is given up.                                    *)
CampaignSettles == campaign = "running" ~> campaign # "running" \/ faults > 0
=============================================================================
