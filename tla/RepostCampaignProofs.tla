------------------------ MODULE RepostCampaignProofs ------------------------
(***************************************************************************)
(* Proofs about RepostCampaign, for any set of jobs, any number of         *)
(* requests that run the campaign at the same time and any fault bounds.   *)
(***************************************************************************)
EXTENDS RepostCampaign, TLAPS

(* TypeOK, by the parts that the actions write together.                   *)
RunTypes ==
  /\ pc \in [Runs -> {"idle", "start", "list", "next", "post", "markCompleted", "markFailed"}]
  /\ todo \in [Runs -> SUBSET Jobs]
  /\ cur \in [Runs -> Jobs \cup {NoJob}]
  /\ \A r \in Runs : cur[r] # NoJob <=> pc[r] \in {"post", "markCompleted", "markFailed"}
  /\ someFailed \subseteq Runs

RowTypes ==
  /\ campaign \in CampaignStates \cup {"none", "deleted"}
  /\ job \in [Jobs -> JobStates \cup {"none", "deleted"}]
  /\ toCreate \subseteq Jobs

HistTypes ==
  /\ posts \in [Jobs -> Nat]
  /\ reported \subseteq Jobs
  /\ unrecorded \subseteq Jobs
  /\ overlapped \subseteq Jobs

CountTypes == faults \in 0 .. MaxFaults /\ edits \in 0 .. MaxEdits

Types == RunTypes /\ RowTypes /\ HistTypes /\ CountTypes

LEMMA TypesByParts == (TypeOK <=> Types) /\ (TypeOK' <=> Types')
  BY DEF Types, TypeOK, RunTypes, RowTypes, HistTypes, CountTypes

(* A run that ends leaves the runs well typed.                             *)
LEMMA EndKeepsTypes ==
  ASSUME RunTypes, NEW r \in Runs, End(r) PROVE RunTypes'
  BY DEF RunTypes, End

(* A fault is counted within its bound.                                    *)
LEMMA FaultIsCounted ==
  ASSUME CountTypes, Fault \/ UNCHANGED faults PROVE faults' \in 0 .. MaxFaults
  BY RepostAssumption DEF CountTypes, Fault

(* Writing a job's verdict keeps the types.                                *)
LEMMA MarkKeepsTypes ==
  ASSUME TypeOK, NEW r \in Runs, NEW s \in {"completed", "failed"},
         cur[r] \in Jobs, Mark(r, s)
  PROVE  TypeOK'
<1> USE TypesByParts DEF Types
<1>1. RunTypes'
  BY DEF Mark, RunTypes
<1>2. job' \in [Jobs -> JobStates \cup {"none", "deleted"}]
  BY DEF Mark, RowTypes, SetJob, Exists, JobStates
<1>3. RowTypes'
  BY <1>2 DEF Mark, RowTypes
<1>4. unrecorded' \subseteq Jobs
  BY DEF Mark, HistTypes
<1>5. HistTypes'
  BY <1>4 DEF Mark, HistTypes
<1>6. CountTypes'
  BY FaultIsCounted DEF Mark, CountTypes
<1>7. QED
  BY <1>1, <1>3, <1>5, <1>6 DEF Types

(* The variables have their types in every reachable state.                *)
THEOREM TypeCorrect == Spec => []TypeOK
<1>1. Init => TypeOK
  BY RepostAssumption DEF Init, TypeOK
<1>2. ASSUME TypeOK, [Next]_vars PROVE TypeOK'
  <2>0. Types
    BY <1>2, TypesByParts
  <2> SUFFICES Types'
    BY TypesByParts
  <2> USE <2>0 DEF Types
  <2>1. CASE Create
    BY <2>1 DEF Create, runs, hist, RunTypes, RowTypes, HistTypes, CountTypes, CampaignStates
  <2>2. CASE InsertJob
    <3>1. PICK j \in toCreate :
             /\ toCreate' = toCreate \ {j}
             /\ \/ /\ job' = [job EXCEPT ![j] = "pending"]
                   /\ UNCHANGED faults
                \/ /\ UNCHANGED faults \/ Fault
                   /\ UNCHANGED job
      BY <2>2 DEF InsertJob
    <3>2. RowTypes'
      BY <2>2, <3>1 DEF InsertJob, RowTypes, JobStates
    <3>3. CountTypes'
      BY <2>2, <3>1, FaultIsCounted DEF InsertJob, CountTypes
    <3>4. QED
      BY <2>2, <3>2, <3>3 DEF InsertJob, runs, hist, RunTypes, HistTypes
  <2>3. ASSUME NEW r \in Runs, RunStep(r) PROVE Types'
    <3>1. CASE MarkRunning(r)
      <4>1. RunTypes'
        BY <3>1, EndKeepsTypes DEF MarkRunning, Goto, RunTypes
      <4>2. CountTypes'
        BY <3>1, FaultIsCounted DEF MarkRunning, CountTypes
      <4>3. QED
        BY <3>1, <4>1, <4>2 DEF MarkRunning, SetCampaign, hist, RowTypes, HistTypes, CampaignStates
    <3>2. CASE ListPending(r)
      <4>1. RunTypes'
        BY <3>2, EndKeepsTypes DEF ListPending, PendingJobs, RunTypes
      <4>2. overlapped' \subseteq Jobs
        BY <3>2 DEF ListPending, PendingJobs, HistTypes
      <4>3. CountTypes'
        BY <3>2, FaultIsCounted DEF ListPending, CountTypes
      <4>4. QED
        BY <3>2, <4>1, <4>2, <4>3 DEF ListPending, rows, RowTypes, HistTypes
    <3>3. CASE Check(r)
      <4>1. RunTypes'
        BY <3>3, RepostAssumption DEF Check, RunTypes
      <4>2. QED
        BY <3>3, <4>1 DEF Check, rows, hist, RowTypes, HistTypes, CountTypes
    <3>4. CASE Post(r)
      <4>0. cur[r] \in Jobs
        BY <3>4 DEF Post, RunTypes
      <4>1. RunTypes'
        BY <3>4 DEF Post, AfterPost, Goto, RunTypes
      <4>2. HistTypes'
        BY <3>4, <4>0 DEF Post, HistTypes
      <4>3. CountTypes'
        BY <3>4, FaultIsCounted DEF Post, CountTypes
      <4>4. QED
        BY <3>4, <4>1, <4>2, <4>3 DEF Post, rows, RowTypes
    <3>5. CASE MarkCompleted(r) \/ MarkFailed(r)
      <4>1. cur[r] \in Jobs
        BY <3>5 DEF MarkCompleted, MarkFailed, RunTypes
      <4>2. QED
        BY <1>2, <3>5, <4>1, MarkKeepsTypes, TypesByParts DEF MarkCompleted, MarkFailed
    <3>6. CASE Close(r)
      <4>1. RowTypes'
        BY <3>6 DEF Close, SetCampaign, FinalStatus, RowTypes, CampaignStates
      <4>2. CountTypes'
        BY <3>6, FaultIsCounted DEF Close, CountTypes
      <4>3. QED
        BY <3>6, <4>1, <4>2, EndKeepsTypes DEF Close, hist, HistTypes
    <3>7. QED
      BY <2>3, <3>1, <3>2, <3>3, <3>4, <3>5, <3>6 DEF RunStep
  <2>4. ASSUME NEW r \in Runs, Begin(r) PROVE Types'
    BY <2>4 DEF Begin, Goto, rows, hist, RunTypes, RowTypes, HistTypes, CountTypes
  <2>5. ASSUME NEW r \in Runs, Abandon(r) PROVE Types'
    <3>1. pc[r] \in {"post", "markCompleted"} => cur[r] \in Jobs
      BY DEF RunTypes
    <3>2. HistTypes'
      BY <2>5, <3>1 DEF Abandon, HistTypes
    <3>3. CountTypes'
      BY <2>5, FaultIsCounted DEF Abandon, CountTypes
    <3>4. QED
      BY <2>5, <3>2, <3>3, EndKeepsTypes DEF Abandon, rows, RowTypes
  <2>6. ASSUME NEW j \in Jobs, UpdateJob(j)
        PROVE  Types'
    <3>1. CountTypes'
      BY <2>6, RepostAssumption DEF UpdateJob, CountTypes
    <3>2. job' \in [Jobs -> JobStates \cup {"none", "deleted"}]
      BY <2>6 DEF UpdateJob, Reset, RowTypes, JobStates
    <3>3. QED
      BY <2>6, <3>1, <3>2 DEF UpdateJob, runs, hist, RunTypes, RowTypes, HistTypes
  <2>7. CASE DeleteCampaign
    BY <2>7 DEF DeleteCampaign, Exists, runs, hist, RunTypes, RowTypes, HistTypes, CountTypes
  <2>8. CASE UNCHANGED vars
    BY <2>8 DEF vars, rows, runs, hist, RunTypes, RowTypes, HistTypes, CountTypes
  <2>9. QED
    BY <1>2, <2>1, <2>2, <2>3, <2>4, <2>5, <2>6, <2>7, <2>8 DEF Next
<1>3. QED
  BY <1>1, <1>2, PTL DEF Spec
-----------------------------------------------------------------------------
(* Posts and verdicts                                                      *)

Excused == unrecorded \cup overlapped

(* The job has been posted, or reported as posted.                         *)
Sent(j) == posts[j] >= 1 \/ j \in reported

(* Two runs have a job in hand together only if it counts as overlapped.   *)
HandsApart ==
  /\ \A q, r \in Runs : q # r => InHand(q) \cap InHand(r) \subseteq overlapped
  /\ \A r \in Runs : cur[r] \notin todo[r]

(* A job in hand has been inserted, and nobody has completed it.           *)
HandsOpen ==
  /\ \A r \in Runs : \A j \in InHand(r) :
       /\ job[j] # "none"
       /\ j \in overlapped \/ job[j] # "completed"
  /\ \A j \in toCreate : job[j] = "none"

(* A job that has been sent is completed or deleted, or the run that sent  *)
(* it is about to mark it; that run is the only one to have it in hand.    *)
SentKnown ==
  /\ \A r \in Runs : pc[r] = "markCompleted" => cur[r] \in reported
  /\ \A j \in Jobs \ Excused : Sent(j) /\ job[j] \in {"none", "pending", "failed"}
       => \E r \in Runs : pc[r] = "markCompleted" /\ cur[r] = j
  /\ \A r \in Runs : \A j \in InHand(r) \ Excused : Sent(j)
       => pc[r] = "markCompleted" /\ cur[r] = j

CompletedWasReported == \A j \in Jobs : job[j] = "completed" => j \in reported

(* What both invariants rest on: neither is inductive by itself.           *)
RunInv ==
  /\ HandsApart
  /\ HandsOpen
  /\ SentKnown
  /\ CompletedWasReported
  /\ PostedTwiceOnlyIf

(* While no run's hands change and no history is written, RunInv depends   *)
(* on the job states alone.                                                *)
LEMMA EditsKeepRunInv ==
  ASSUME TypeOK, RunInv, UNCHANGED <<runs, hist>>,
         \A j \in toCreate' : job'[j] = "none",
         \A j \in Jobs : \/ job'[j] = job[j]
                         \/ job[j] = "none" /\ job'[j] = "pending"
                         \/ job[j] = "failed" /\ job'[j] = "pending"
                         \/ job'[j] = "deleted" /\ job[j] # "none"
  PROVE  RunInv'
<1> USE DEF RunInv, runs, hist
<1>0. \A r \in Runs : InHand(r)' = InHand(r) /\ InHand(r) \subseteq Jobs
  BY DEF InHand, TypeOK
<1>1. HandsApart'
  BY <1>0 DEF HandsApart
<1>2. HandsOpen'
  <2>1. ASSUME NEW r \in Runs, NEW j \in InHand(r)
        PROVE  job'[j] # "none" /\ (j \in overlapped \/ job'[j] # "completed")
    <3>1. j \in Jobs
      BY <1>0
    <3>2. job[j] # "none" /\ (j \in overlapped \/ job[j] # "completed")
      BY DEF HandsOpen
    <3>3. QED
      BY <3>1, <3>2
  <2>2. QED
    BY <1>0, <2>1 DEF HandsOpen
<1>3. SentKnown'
  <2>1. \A j \in Jobs : job'[j] \in {"none", "pending", "failed"} => job[j] \in {"none", "pending", "failed"}
    OBVIOUS
  <2>2. QED
    BY <1>0, <2>1 DEF SentKnown, Sent, Excused
<1>4. CompletedWasReported'
  BY DEF CompletedWasReported
<1>5. PostedTwiceOnlyIf'
  BY DEF PostedTwiceOnlyIf
<1>6. QED
  BY <1>1, <1>2, <1>3, <1>4, <1>5

(* A run that lets go of its jobs keeps RunInv, if it does not forget to   *)
(* mark a posted job or that job counts as unrecorded.                     *)
LEMMA EndKeepsRunInv ==
  ASSUME TypeOK, TypeOK', RunInv, NEW r \in Runs, End(r), UNCHANGED <<job, toCreate, overlapped>>,
         UNCHANGED reported, unrecorded \subseteq unrecorded',
         pc[r] = "markCompleted" => cur[r] \in unrecorded',
         \A j \in Jobs : posts'[j] >= posts[j] /\ (posts'[j] > posts[j] => j \in unrecorded')
  PROVE  RunInv'
<1> USE DEF RunInv
<1>0. /\ InHand(r)' = {}
      /\ \A q \in Runs \ {r} : /\ InHand(q)' = InHand(q)
                               /\ pc'[q] = pc[q] /\ cur'[q] = cur[q] /\ todo'[q] = todo[q]
      /\ pc'[r] = "idle" /\ cur'[r] = NoJob /\ todo'[r] = {}
      /\ \A q \in Runs : InHand(q) \subseteq Jobs
      /\ \A q \in Runs : pc[q] = "markCompleted" => cur[q] \in Jobs
      /\ posts \in [Jobs -> Nat] /\ posts' \in [Jobs -> Nat]
  BY DEF End, InHand, TypeOK
<1>1. HandsApart'
  BY <1>0 DEF HandsApart
<1>2. HandsOpen'
  BY <1>0 DEF HandsOpen
<1>3. SentKnown'
  <2>1. \A q \in Runs : pc'[q] = "markCompleted" => cur'[q] \in reported'
    BY <1>0 DEF SentKnown
  <2>2. ASSUME NEW j \in Jobs, j \notin Excused', Sent(j)' PROVE Sent(j) /\ j \notin Excused
    <3>1. posts[j] \in Nat /\ posts'[j] \in Nat
      BY <1>0
    <3>2. QED
      BY <2>2, <3>1 DEF Excused, Sent
  <2>3. ASSUME NEW j \in Jobs, j \notin Excused', Sent(j)', job[j] \in {"none", "pending", "failed"}
        PROVE  \E q \in Runs : pc'[q] = "markCompleted" /\ cur'[q] = j
    <3>1. PICK q \in Runs : pc[q] = "markCompleted" /\ cur[q] = j
      BY <2>2, <2>3 DEF SentKnown
    <3>2. q # r
      BY <2>3, <3>1 DEF Excused
    <3>3. QED
      BY <1>0, <3>1, <3>2
  <2>4. ASSUME NEW q \in Runs, NEW j \in InHand(q)', j \notin Excused', Sent(j)'
        PROVE  pc'[q] = "markCompleted" /\ cur'[q] = j
    <3>1. q # r /\ j \in InHand(q) /\ j \in Jobs
      BY <1>0
    <3>2. Sent(j) /\ j \notin Excused
      BY <2>2, <2>4, <3>1
    <3>3. pc[q] = "markCompleted" /\ cur[q] = j
      BY <3>1, <3>2 DEF SentKnown
    <3>4. QED
      BY <1>0, <3>1, <3>3
  <2>5. QED
    BY ONLY <2>1, <2>3, <2>4, job' = job DEF SentKnown
<1>4. CompletedWasReported'
  BY <1>0 DEF CompletedWasReported
<1>5. PostedTwiceOnlyIf'
  BY <1>0 DEF PostedTwiceOnlyIf
<1>6. QED
  BY <1>1, <1>2, <1>3, <1>4, <1>5

(* A run moves on without touching its hands or any row.                   *)
LEMMA MoveKeepsRunInv ==
  ASSUME TypeOK, RunInv, NEW r \in Runs, UNCHANGED <<job, toCreate, hist>>,
         pc[r] \notin {"markCompleted"},
         \E s \in {"start", "list", "next", "post", "markFailed"} : pc' = [pc EXCEPT ![r] = s],
         \A q \in Runs : InHand(q)' = InHand(q) /\ cur'[q] \notin todo'[q],
         \A q \in Runs \ {r} : cur'[q] = cur[q]
  PROVE  RunInv'
<1> USE DEF RunInv, hist
<1>0. /\ \A q \in Runs \ {r} : pc'[q] = pc[q]
      /\ \A q \in Runs : pc'[q] = "markCompleted" => q # r
      /\ \A q \in Runs : pc[q] = "markCompleted" => q # r
  BY DEF TypeOK
<1>1. HandsApart'
  BY DEF HandsApart
<1>2. HandsOpen'
  BY DEF HandsOpen
<1>3. SentKnown'
  BY <1>0 DEF SentKnown, Sent, Excused
<1>4. CompletedWasReported' /\ PostedTwiceOnlyIf'
  BY DEF CompletedWasReported, PostedTwiceOnlyIf
<1>5. QED
  BY <1>1, <1>2, <1>3, <1>4

LEMMA ListKeepsRunInv ==
  ASSUME TypeOK, RunInv, NEW r \in Runs, pc[r] = "list",
         todo' = [todo EXCEPT ![r] = PendingJobs],
         pc' = [pc EXCEPT ![r] = "next"],
         overlapped' = overlapped \cup UNION {PendingJobs \cap InHand(q) : q \in Runs \ {r}},
         UNCHANGED <<job, toCreate, cur, posts, reported, unrecorded>>
  PROVE  RunInv'
<1> USE DEF RunInv
<1>0. /\ cur[r] = NoJob
      /\ InHand(r)' = PendingJobs
      /\ \A q \in Runs \ {r} : /\ InHand(q)' = InHand(q)
                               /\ pc'[q] = pc[q] /\ cur'[q] = cur[q] /\ todo'[q] = todo[q]
      /\ \A q \in Runs \ {r} : PendingJobs \cap InHand(q) \subseteq overlapped'
      /\ overlapped \subseteq overlapped'
      /\ pc'[r] = "next" /\ todo'[r] = PendingJobs
  BY DEF InHand, TypeOK
<1>1. HandsApart'
  <2>1. NoJob \notin PendingJobs
    BY RepostAssumption DEF PendingJobs
  <2>2. QED
    BY <1>0, <2>1 DEF HandsApart
<1>2. HandsOpen'
  BY <1>0 DEF HandsOpen, PendingJobs
<1>3. SentKnown'
  <2>1. \A q \in Runs : pc'[q] = "markCompleted" => cur'[q] \in reported'
    BY <1>0 DEF SentKnown
  <2>2. ASSUME NEW j \in Jobs, j \notin Excused', Sent(j), job[j] \in {"none", "pending", "failed"}
        PROVE  \E q \in Runs \ {r} : pc[q] = "markCompleted" /\ cur[q] = j
    BY <1>0, <2>2 DEF SentKnown, Excused
  <2>3. ASSUME NEW j \in PendingJobs, j \notin Excused' PROVE ~(Sent(j))
    <3>1. SUFFICES ASSUME Sent(j) PROVE FALSE
      OBVIOUS
    <3>2. j \in Jobs /\ job[j] = "pending" /\ j # NoJob
      BY RepostAssumption DEF PendingJobs
    <3>3. PICK q \in Runs \ {r} : cur[q] = j
      BY <2>2, <2>3, <3>1, <3>2
    <3>4. j \in InHand(q)
      BY <3>2, <3>3 DEF InHand
    <3>5. QED
      BY <1>0, <2>3, <3>3, <3>4 DEF Excused
  <2>4. ASSUME NEW q \in Runs \ {r}, NEW j \in InHand(q), j \notin Excused', Sent(j)
        PROVE  pc[q] = "markCompleted" /\ cur[q] = j
    BY <1>0, <2>4 DEF SentKnown, Excused
  <2>5. QED
    BY <1>0, <2>1, <2>2, <2>3, <2>4 DEF SentKnown, Sent
<1>4. CompletedWasReported' /\ PostedTwiceOnlyIf'
  BY <1>0 DEF CompletedWasReported, PostedTwiceOnlyIf
<1>5. QED
  BY <1>1, <1>2, <1>3, <1>4

LEMMA PostKeepsRunInv ==
  ASSUME TypeOK, TypeOK', RunInv, NEW r \in Runs, Post(r) PROVE RunInv'
<1> USE DEF RunInv
<1> DEFINE j == cur[r]
<1>0. /\ pc[r] = "post" /\ j \in Jobs /\ j \in InHand(r) /\ j # NoJob
      /\ \A q \in Runs : InHand(q)' = InHand(q) /\ cur'[q] = cur[q]
      /\ \A q \in Runs : InHand(q) \subseteq Jobs
      /\ \A q \in Runs \ {r} : pc'[q] = pc[q]
      /\ UNCHANGED <<job, toCreate, cur, todo, overlapped>>
      /\ unrecorded \subseteq unrecorded'
      /\ posts \in [Jobs -> Nat]
  BY RepostAssumption DEF Post, Goto, InHand, rows, TypeOK
<1>a. PICK posted \in BOOLEAN, success \in BOOLEAN :
        /\ reported' = IF success THEN reported \cup {j} ELSE reported
        /\ posts' = [posts EXCEPT ![j] = @ + (IF posted THEN 1 ELSE 0)]
        /\ unrecorded' = IF posted /\ ~success THEN unrecorded \cup {j} ELSE unrecorded
        /\ pc' = [pc EXCEPT ![r] = AfterPost(success)]
  BY DEF Post, Goto
<1>b. pc'[r] = "markCompleted" <=> success
  BY <1>a DEF AfterPost, TypeOK
<1>c. /\ \A k \in Jobs \ {j} : posts'[k] = posts[k]
      /\ posts'[j] = IF posted THEN posts[j] + 1 ELSE posts[j]
      /\ \A k \in Jobs : posts[k] \in Nat
      /\ reported \subseteq reported'
      /\ \A k \in Jobs \ {j} : Sent(k)' => Sent(k)
  BY <1>0, <1>a DEF Sent
<1>1. HandsApart'
  BY <1>0 DEF HandsApart
<1>2. HandsOpen'
  BY <1>0 DEF HandsOpen
<1>3. j \in Excused \/ ~Sent(j)
  BY <1>0 DEF SentKnown
<1>4. SentKnown'
  <2>1. ASSUME NEW q \in Runs, pc'[q] = "markCompleted" PROVE cur'[q] \in reported'
    <3>1. CASE q = r
      BY <1>0, <1>a, <1>b, <2>1, <3>1
    <3>2. CASE q # r
      BY <1>0, <1>c, <2>1, <3>2 DEF SentKnown
    <3>3. QED
      BY <3>1, <3>2
  <2>2. ASSUME NEW k \in Jobs, k \notin Excused', Sent(k)', job[k] \in {"none", "pending", "failed"}
        PROVE  \E q \in Runs : pc'[q] = "markCompleted" /\ cur'[q] = k
    <3>1. CASE k = j
      BY <1>0, <1>3, <1>a, <1>b, <1>c, <2>2, <3>1 DEF Excused, Sent
    <3>2. CASE k # j
      <4>1. Sent(k) /\ k \notin Excused
        BY <1>0, <1>c, <2>2, <3>2 DEF Excused
      <4>2. PICK q \in Runs : pc[q] = "markCompleted" /\ cur[q] = k
        BY <2>2, <4>1 DEF SentKnown
      <4>3. QED
        BY <1>0, <3>2, <4>2
    <3>3. QED
      BY <3>1, <3>2
  <2>3. ASSUME NEW q \in Runs, NEW k \in InHand(q), k \notin Excused', Sent(k)'
        PROVE  pc'[q] = "markCompleted" /\ cur'[q] = k
    <3>0. k \in Jobs /\ k \notin Excused
      BY <1>0, <2>3 DEF Excused
    <3>1. CASE k = j
      <4>1. q = r
        BY <1>0, <2>3, <3>0, <3>1 DEF HandsApart, Excused
      <4>2. QED
        BY <1>0, <1>3, <1>a, <1>b, <1>c, <2>3, <3>0, <3>1, <4>1 DEF Excused, Sent
    <3>2. CASE k # j
      <4>1. pc[q] = "markCompleted" /\ cur[q] = k
        BY <1>c, <2>3, <3>0, <3>2 DEF SentKnown
      <4>2. QED
        BY <1>0, <3>2, <4>1
    <3>3. QED
      BY <3>1, <3>2
  <2>4. QED
    BY <1>0, <2>1, <2>2, <2>3 DEF SentKnown
<1>5. CompletedWasReported'
  BY <1>0, <1>c DEF CompletedWasReported
<1>6. PostedTwiceOnlyIf'
  <2>1. ASSUME NEW k \in Jobs, posts'[k] > 1 PROVE k \in unrecorded' \cup overlapped'
    BY <1>0, <1>3, <1>c, <2>1 DEF PostedTwiceOnlyIf, Excused, Sent
  <2>2. QED
    BY <2>1 DEF PostedTwiceOnlyIf
<1>7. QED
  BY <1>1, <1>2, <1>4, <1>5, <1>6

LEMMA MarkKeepsRunInv ==
  ASSUME TypeOK, RunInv, NEW r \in Runs, MarkCompleted(r) \/ MarkFailed(r) PROVE RunInv'
<1> USE DEF RunInv
<1> DEFINE j == cur[r]
<1>0. /\ j \in Jobs /\ j \in InHand(r) /\ j \notin todo[r]
      /\ InHand(r)' = todo[r] /\ InHand(r)' \subseteq InHand(r)
      /\ pc'[r] = "next" /\ cur'[r] = NoJob /\ NoJob \notin todo'[r]
      /\ \A q \in Runs \ {r} : /\ InHand(q)' = InHand(q)
                               /\ pc'[q] = pc[q] /\ cur'[q] = cur[q] /\ todo'[q] = todo[q]
      /\ \A q \in Runs : InHand(q) \subseteq Jobs
      /\ UNCHANGED <<toCreate, todo, posts, reported, overlapped>>
      /\ unrecorded \subseteq unrecorded'
      /\ \A k \in Jobs \ {j} : job'[k] = job[k]
  <2> USE RepostAssumption DEF MarkCompleted, MarkFailed, Mark
  <2>1. j \in Jobs /\ j \in InHand(r) /\ j \notin todo[r] /\ \A q \in Runs : InHand(q) \subseteq Jobs
    BY DEF InHand, TypeOK, HandsApart
  <2>2. /\ InHand(r)' = todo[r] /\ InHand(r)' \subseteq InHand(r)
        /\ pc'[r] = "next" /\ cur'[r] = NoJob /\ NoJob \notin todo'[r]
    BY DEF InHand, TypeOK
  <2>3. \A q \in Runs \ {r} : /\ InHand(q)' = InHand(q)
                             /\ pc'[q] = pc[q] /\ cur'[q] = cur[q] /\ todo'[q] = todo[q]
    BY DEF InHand, TypeOK
  <2>4. UNCHANGED <<toCreate, todo, posts, reported, overlapped>> /\ unrecorded \subseteq unrecorded'
    OBVIOUS
  <2>5. \A k \in Jobs \ {j} : job'[k] = job[k]
    BY DEF SetJob, TypeOK
  <2>6. QED
    BY <2>1, <2>2, <2>3, <2>4, <2>5
<1>a. /\ MarkCompleted(r) =>
           /\ pc[r] = "markCompleted" /\ j \in reported
           /\ \/ job'[j] = IF Exists(j) THEN "completed" ELSE job[j]
              \/ job'[j] = job[j] /\ j \in unrecorded'
      /\ MarkFailed(r) =>
           /\ pc[r] = "markFailed" /\ (j \in Excused \/ ~Sent(j))
           /\ job'[j] = job[j] \/ job'[j] = IF Exists(j) THEN "failed" ELSE job[j]
      /\ job[j] \in JobStates \cup {"deleted"}
  <2>1. job[j] \in JobStates \cup {"deleted"}
    BY <1>0 DEF TypeOK, HandsOpen
  <2>2. ASSUME MarkCompleted(r)
        PROVE  /\ pc[r] = "markCompleted" /\ j \in reported
               /\ \/ job'[j] = IF Exists(j) THEN "completed" ELSE job[j]
                  \/ job'[j] = job[j] /\ j \in unrecorded'
    BY <1>0, <2>2 DEF MarkCompleted, Mark, SetJob, TypeOK, SentKnown
  <2>3. ASSUME MarkFailed(r)
        PROVE  /\ pc[r] = "markFailed" /\ (j \in Excused \/ ~Sent(j))
               /\ job'[j] = job[j] \/ job'[j] = IF Exists(j) THEN "failed" ELSE job[j]
    <3>1. pc[r] = "markFailed" /\ (j \in Excused \/ ~Sent(j))
      BY <1>0, <2>3 DEF MarkFailed, SentKnown
    <3>2. QED
      BY <1>0, <2>3, <3>1 DEF MarkFailed, Mark, SetJob, TypeOK
  <2>4. QED
    BY <2>1, <2>2, <2>3
<1>b. job'[j] # "none" /\ (job'[j] = "completed" => j \in reported)
  BY <1>0, <1>a DEF JobStates, CompletedWasReported, Sent, SentKnown
<1>c. j \in Excused' \/ job'[j] \in {"completed", "deleted"} \/ ~Sent(j)
  BY <1>0, <1>a DEF Excused, JobStates, Exists
<1>1. HandsApart'
  BY <1>0 DEF HandsApart
<1>2. HandsOpen'
  <2>1. ASSUME NEW q \in Runs, NEW k \in InHand(q)'
        PROVE  job'[k] # "none" /\ (k \in overlapped \/ job'[k] # "completed")
    <3>1. CASE k = j
      BY <1>0, <1>b, <3>1 DEF HandsApart
    <3>2. CASE k # j
      BY <1>0, <3>2 DEF HandsOpen
    <3>3. QED
      BY <3>1, <3>2
  <2>2. ASSUME NEW k \in toCreate PROVE job'[k] = "none"
    BY <1>0 DEF HandsOpen, TypeOK
  <2>3. QED
    BY <1>0, <2>1, <2>2 DEF HandsOpen
<1>3. SentKnown'
  <2>1. \A q \in Runs : pc'[q] = "markCompleted" => cur'[q] \in reported'
    BY <1>0 DEF SentKnown
  <2>2. ASSUME NEW k \in Jobs, k \notin Excused', Sent(k), job'[k] \in {"none", "pending", "failed"}
        PROVE  \E q \in Runs : pc'[q] = "markCompleted" /\ cur'[q] = k
    <3>1. k # j
      BY <1>c, <2>2
    <3>2. k \notin Excused /\ job'[k] = job[k]
      BY <1>0, <2>2, <3>1 DEF Excused
    <3>3. PICK q \in Runs : pc[q] = "markCompleted" /\ cur[q] = k
      BY <2>2, <3>2 DEF SentKnown
    <3>4. QED
      BY <1>0, <3>1, <3>3
  <2>3. ASSUME NEW q \in Runs, NEW k \in InHand(q)', k \notin Excused', Sent(k)
        PROVE  pc'[q] = "markCompleted" /\ cur'[q] = k
    <3>1. k \in InHand(q) /\ k \notin Excused
      BY <1>0, <2>3 DEF Excused
    <3>2. pc[q] = "markCompleted" /\ cur[q] = k
      BY <2>3, <3>1 DEF SentKnown
    <3>3. q # r
      BY <1>0, <2>3, <3>2
    <3>4. QED
      BY <1>0, <3>2, <3>3
  <2>4. QED
    BY <1>0, <2>1, <2>2, <2>3 DEF SentKnown, Sent
<1>4. CompletedWasReported'
  BY <1>0, <1>b DEF CompletedWasReported
<1>5. PostedTwiceOnlyIf'
  BY <1>0 DEF PostedTwiceOnlyIf
<1>6. QED
  BY <1>1, <1>2, <1>3, <1>4, <1>5

(* Before the campaign there are no jobs.                                  *)
NotYet == campaign = "none" => toCreate = {} /\ \A j \in Jobs : job[j] = "none"

LEMMA NotYetInvariant == Spec => []NotYet
<1>1. Init => NotYet
  BY DEF Init, NotYet
<1>2. ASSUME TypeOK, NotYet, [Next]_vars PROVE NotYet'
  <2> USE <1>2 DEF NotYet
  <2>1. CASE Create \/ InsertJob \/ DeleteCampaign
    BY <2>1 DEF Create, InsertJob, DeleteCampaign
  <2>2. ASSUME NEW r \in Runs, Begin(r) \/ RunStep(r) \/ Abandon(r) PROVE NotYet'
    BY <2>2 DEF Begin, RunStep, MarkRunning, ListPending, Check, Post, MarkCompleted, MarkFailed,
                Mark, SetJob, Exists, JobStates, Close, SetCampaign, FinalStatus, Abandon, rows, TypeOK
  <2>3. ASSUME NEW j \in Jobs, UpdateJob(j) PROVE NotYet'
    BY <2>3 DEF UpdateJob, Exists, JobStates
  <2>4. CASE UNCHANGED vars
    BY <2>4 DEF vars, rows
  <2>5. QED
    BY <2>1, <2>2, <2>3, <2>4 DEF Next
<1>3. QED
  BY <1>1, <1>2, TypeCorrect, PTL DEF Spec

LEMMA RunInvariant == Spec => []RunInv
<1>1. Init => RunInv
  BY RepostAssumption DEF Init, RunInv, HandsApart, HandsOpen, SentKnown, Sent, InHand,
                          CompletedWasReported, PostedTwiceOnlyIf
<1>2. ASSUME TypeOK, TypeOK', NotYet, RunInv, [Next]_vars PROVE RunInv'
  <2> USE <1>2
  <2>0. \A j \in toCreate : job[j] = "none"
    BY DEF RunInv, HandsOpen
  <2>1. CASE Create
    BY <2>1, EditsKeepRunInv DEF Create, NotYet
  <2>2. CASE InsertJob
    <3>1. /\ UNCHANGED <<runs, hist>>
          /\ \A k \in toCreate' : job'[k] = "none"
          /\ \A k \in Jobs : job'[k] = job[k] \/ (job[k] = "none" /\ job'[k] = "pending")
      BY <2>0, <2>2 DEF InsertJob, TypeOK
    <3>2. QED
      BY <3>1, EditsKeepRunInv
  <2>3. ASSUME NEW r \in Runs, Begin(r) \/ RunStep(r) \/ Abandon(r) PROVE RunInv'
    <3>0. /\ pc[r] # "idle" \/ Begin(r)
          /\ cur[r] \notin todo[r] /\ \A q \in Runs : cur[q] \notin todo[q]
      BY <2>3 DEF RunStep, MarkRunning, ListPending, Check, Post, MarkCompleted, MarkFailed, Close,
                  Abandon, RunInv, HandsApart
    <3>1. CASE Begin(r)
      BY <3>0, <3>1, MoveKeepsRunInv DEF Begin, Goto, InHand, rows
    <3>2. CASE MarkRunning(r)
      <4>1. CASE Goto(r, "list")
        BY <3>0, <3>2, <4>1, MoveKeepsRunInv DEF MarkRunning, Goto, InHand
      <4>2. CASE End(r)
        <5>1. \A j \in Jobs : posts'[j] >= posts[j] /\ ~(posts'[j] > posts[j])
          BY <3>2 DEF MarkRunning, hist, TypeOK
        <5>2. QED
          BY <3>2, <4>2, <5>1, EndKeepsRunInv DEF MarkRunning, hist
      <4>3. QED
        BY <3>2, <4>1, <4>2 DEF MarkRunning
    <3>3. CASE ListPending(r)
      <4>1. CASE End(r)
        <5>1. \A j \in Jobs : posts'[j] >= posts[j] /\ ~(posts'[j] > posts[j])
          BY <3>3 DEF ListPending, TypeOK
        <5>2. UNCHANGED <<job, toCreate, reported, overlapped, unrecorded>> /\ pc[r] # "markCompleted"
          BY <3>3, <4>1 DEF ListPending, rows, End, TypeOK
        <5>3. QED
          BY <4>1, <5>1, <5>2, EndKeepsRunInv
      <4>2. CASE ~End(r)
        BY <3>3, <4>2, ListKeepsRunInv DEF ListPending, rows
      <4>3. QED
        BY <4>1, <4>2
    <3>4. CASE Check(r)
      <4>1. PICK j \in todo[r] : /\ todo' = [todo EXCEPT ![r] = @ \ {j}]
                                /\ cur' = [cur EXCEPT ![r] = j]
        BY <3>4 DEF Check
      <4>2. \A q \in Runs : InHand(q)' = InHand(q) /\ cur'[q] \notin todo'[q]
        BY <3>0, <3>4, <4>1, RepostAssumption DEF Check, InHand, TypeOK
      <4>3. pc[r] = "next" /\ UNCHANGED <<job, toCreate, hist>>
        BY <3>4 DEF Check, rows
      <4>4. \E s \in {"start", "list", "next", "post", "markFailed"} : pc' = [pc EXCEPT ![r] = s]
        BY <3>4 DEF Check
      <4>5. \A q \in Runs \ {r} : cur'[q] = cur[q]
        BY <4>1 DEF TypeOK
      <4>6. QED
        BY <4>2, <4>3, <4>4, <4>5, MoveKeepsRunInv
    <3>5. CASE Post(r)
      BY <3>5, PostKeepsRunInv
    <3>6. CASE MarkCompleted(r) \/ MarkFailed(r)
      BY <3>6, MarkKeepsRunInv
    <3>7. CASE Close(r)
      <4>1. \A j \in Jobs : posts'[j] >= posts[j] /\ ~(posts'[j] > posts[j])
        BY <3>7 DEF Close, hist, TypeOK
      <4>2. QED
        BY <3>7, <4>1, EndKeepsRunInv DEF Close, hist
    <3>8. CASE Abandon(r)
      <4>1. End(r) /\ UNCHANGED <<job, toCreate, reported, overlapped>>
        BY <3>8 DEF Abandon, rows
      <4>2. unrecorded \subseteq unrecorded' /\ (pc[r] = "markCompleted" => cur[r] \in unrecorded')
        BY <3>8 DEF Abandon
      <4>3. \A j \in Jobs : posts'[j] >= posts[j] /\ (posts'[j] > posts[j] => j \in unrecorded')
        BY <3>8 DEF Abandon, TypeOK
      <4>4. QED
        BY <4>1, <4>2, <4>3, EndKeepsRunInv
    <3>9. QED
      BY <2>3, <3>1, <3>2, <3>3, <3>4, <3>5, <3>6, <3>7, <3>8 DEF RunStep
  <2>4. ASSUME NEW j \in Jobs, UpdateJob(j) PROVE RunInv'
    <3>1. /\ UNCHANGED <<runs, hist, toCreate>>
          /\ job' = [job EXCEPT ![j] = Reset(@)] /\ Exists(j)
      BY <2>4 DEF UpdateJob
    <3>2. \A k \in Jobs : job'[k] = job[k] \/ (job[k] = "failed" /\ job'[k] = "pending")
      BY <3>1 DEF Reset, TypeOK
    <3>3. \A k \in toCreate' : job'[k] = "none"
      BY <2>0, <3>1, <3>2 DEF TypeOK
    <3>4. QED
      BY <3>1, <3>2, <3>3, EditsKeepRunInv
  <2>5. CASE DeleteCampaign
    <3>1. UNCHANGED <<runs, hist, toCreate>>
      BY <2>5 DEF DeleteCampaign
    <3>2. \A k \in Jobs : job'[k] = job[k] \/ (job'[k] = "deleted" /\ job[k] # "none")
      BY <2>5 DEF DeleteCampaign, Exists, JobStates
    <3>3. \A k \in toCreate' : job'[k] = "none"
      BY <2>0, <2>5, <3>1 DEF DeleteCampaign, Exists, JobStates, TypeOK
    <3>4. QED
      BY <3>1, <3>2, <3>3, EditsKeepRunInv
  <2>6. CASE UNCHANGED vars
    BY <2>0, <2>6, EditsKeepRunInv DEF vars, rows
  <2>7. QED
    BY <2>1, <2>2, <2>3, <2>4, <2>5, <2>6 DEF Next
<1>3. QED
  BY <1>1, <1>2, TypeCorrect, NotYetInvariant, PTL DEF Spec

(* A job is completed only after a report of its post, and a reported job  *)
(* ends up completed or deleted, but for reports that were not written     *)
(* down and jobs that two runs had in hand together.                       *)
THEOREM CompletedJobsWereReported == Spec => []VerdictsFollowReports
<1>1. TypeOK /\ RunInv => VerdictsFollowReports
  BY DEF TypeOK, RunInv, CompletedWasReported, SentKnown, Sent, Excused, JobStates, VerdictsFollowReports
<1>2. QED
  BY <1>1, TypeCorrect, RunInvariant, PTL

(* A job is posted twice only after a post that was not written down, or   *)
(* when two runs had it in hand together.                                  *)
THEOREM DoublePostsHaveACause == Spec => []PostedTwiceOnlyIf
<1>1. RunInv => PostedTwiceOnlyIf
  BY DEF RunInv
<1>2. QED
  BY <1>1, RunInvariant, PTL

(* No step takes the verdict of a completed job back, unless two runs had  *)
(* it in hand together.                                                    *)
THEOREM CompletedStays == Spec => CompletedIsFinal
<1>1. ASSUME TypeOK, RunInv, [Next]_vars, NEW j \in Jobs \ overlapped, job[j] = "completed"
      PROVE  job'[j] \in {"completed", "deleted"}
  <2> USE <1>1 DEF TypeOK
  <2>0. j \notin toCreate /\ \A r \in Runs : j \notin InHand(r)
    BY DEF RunInv, HandsOpen
  <2>1. CASE Create \/ InsertJob \/ DeleteCampaign
    BY <2>0, <2>1 DEF Create, InsertJob, DeleteCampaign
  <2>2. ASSUME NEW r \in Runs, Begin(r) \/ RunStep(r) \/ Abandon(r) PROVE job'[j] = "completed"
    <3>1. j # cur[r]
      BY <2>0, RepostAssumption DEF InHand
    <3>2. QED
      BY <2>2, <3>1 DEF Begin, RunStep, MarkRunning, ListPending, Check, Post, MarkCompleted,
                        MarkFailed, Mark, SetJob, Close, Abandon, rows
  <2>3. ASSUME NEW k \in Jobs, UpdateJob(k) PROVE job'[j] = "completed"
    BY <2>3 DEF UpdateJob, Reset
  <2>4. CASE UNCHANGED vars
    BY <2>4 DEF vars, rows
  <2>5. QED
    BY <2>1, <2>2, <2>3, <2>4 DEF Next
<1>2. TypeOK /\ RunInv /\ [Next]_vars
        => [\A j \in Jobs \ overlapped : job[j] = "completed" => job'[j] \in {"completed", "deleted"}]_vars
  BY <1>1
<1>3. QED
  BY <1>2, TypeCorrect, RunInvariant, PTL DEF Spec, CompletedIsFinal
=============================================================================
