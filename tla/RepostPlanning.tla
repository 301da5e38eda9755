---------------------------- MODULE RepostPlanning ----------------------------
(***************************************************************************)
(* What repost campaigns are made of: the accounts, the groups, the posts  *)
(* crawled from other pages, the campaigns with their jobs, and the        *)
(* requests of several users that add them, plan posts to groups, and      *)
(* change the time and the flags of a planned post (handlers/repost.go,    *)
(* service/repost.go, service/repost_v2.go, repo/repost.go).  What a run   *)
(* does with the jobs, and their status, is in RepostCampaign; the login   *)
(* that follows a new account is in AccountLogin.                          *)
(*                                                                         *)
(* Every database statement is a step of its own.                          *)
(***************************************************************************)
EXTENDS Crawl

CONSTANTS
  Accounts, GroupRows, Campaigns, Jobs,  \* ids of rows, never used twice
  Profiles,   \* profile directories of browsers
  FbGroups,   \* Facebook's ids of groups
  Clients,    \* who sends requests, one at a time
  Plans,      \* what a plan request asks for: sequences of items
  Scrapes,    \* what a browser gathers on a page: sequences of posts
  Limits,     \* how many posts a crawl asks for
  Grace,      \* minFutureSchedule
  None, Gone, \* no row, a deleted row
  MaxTime,    \* bound: the clock
  MaxOps,     \* bound: requests that are no edits
  MaxEdits,   \* bound: edits of jobs
  MaxFaults   \* bound: failed calls, and requests that are given up

(* One post for one group.                                                 *)
PlanItem == [account : Accounts, fb : FbGroups \cup {None}, when : Nat, auto : BOOLEAN, anon : BOOLEAN]

(* The time of a job may be NULL.                                          *)
JobRow == [campaign : Campaigns, account : Accounts, fb : FbGroups \cup {None},
           when : Nat \cup {None}, auto : BOOLEAN, anon : BOOLEAN]

(* What the queue view edits.                                              *)
Flags == {"auto", "anon"}
Fields == Flags \cup {"when"}

CampaignRow == [when : Nat]

(* A plan has an item; no row is None or Gone; a browser gathers no post   *)
(* twice.                                                                  *)
ASSUME PlanningAssumption ==
  /\ {Grace, MaxTime, MaxOps, MaxEdits, MaxFaults} \subseteq Nat
  /\ IsFiniteSet(Accounts) /\ IsFiniteSet(GroupRows)
  /\ Plans \subseteq Seq(PlanItem) \ {<<>>}
  /\ Scrapes \subseteq {s \in Seq(Posts) : IsInjective(s)} /\ Limits \subseteq Int
  /\ None # Gone
  /\ None \notin CampaignRow /\ Gone \notin CampaignRow
  /\ None \notin JobRow /\ Gone \notin JobRow
  /\ None \notin Campaigns \X Nat

VARIABLES
  account, group, campaign, job,  \* the row of each id
  crawled,  \* how many rows of facebook.crawled_posts each post has
  listed,   \* what each client's queue view shows
  req,      \* the request of each client: how far it is, its campaign, the
            \* items of the plan, the one it is at, the crawl it is
  now,      \* the clock
  ops, edits, faults,  \* counters of the bounded events
  plans,    \* history: the items each campaign was planned with
  origin,   \* history: the campaign and item each job was made for
  failed,   \* history: items whose job could not be inserted for a fault
  asked,    \* history: time and flags last asked for, per job
  behind,   \* history: jobs and fields asked for since a client read its view
  undone    \* history: jobs and fields that a request for another field has
            \* written over, from an older view or without any view

tables == <<account, group, campaign, job, crawled>>
requests == <<listed, req>>
bounds == <<ops, edits, faults>>
planHist == <<plans, origin, failed>>
editHist == <<asked, behind, undone>>
vars == <<tables, requests, now, bounds, planHist, editHist>>

Idle == [at |-> "idle", campaign |-> None, items |-> <<>>, n |-> 0, crawl |-> None]

Init ==
  /\ account = [a \in Accounts |-> None]
  /\ group = [g \in GroupRows |-> None]
  /\ campaign = [k \in Campaigns |-> None]
  /\ job = [j \in Jobs |-> None]
  /\ crawled = [p \in Posts |-> 0]
  /\ listed = [c \in Clients |-> [j \in Jobs |-> None]]
  /\ req = [c \in Clients |-> Idle]
  /\ now = 0 /\ ops = 0 /\ edits = 0 /\ faults = 0
  /\ plans = [k \in Campaigns |-> None]
  /\ origin = [j \in Jobs |-> None]
  /\ failed = {}
  /\ asked = [j \in Jobs |-> None]
  /\ behind = [c \in Clients |-> {}]
  /\ undone = {}

IsRow(r) == r \notin {None, Gone}

Op ==
  /\ ops < MaxOps
  /\ ops' = ops + 1
  /\ UNCHANGED edits

Edit ==
  /\ edits < MaxEdits
  /\ edits' = edits + 1
  /\ UNCHANGED ops

Fault ==
  /\ faults < MaxFaults
  /\ faults' = faults + 1

Answer(c) == req' = [req EXCEPT ![c] = Idle]

-----------------------------------------------------------------------------
(* Accounts and groups                                                     *)

(* The unique index on profile_path.                                       *)
UniqueProfile(d) == \A a \in Accounts : IsRow(account[a]) => account[a] # d

InsertAccount(a, d) ==
  /\ account[a] = None /\ UniqueProfile(d)
  /\ account' = [account EXCEPT ![a] = d]

AddAccount(d) ==
  /\ Op
  /\ \E a \in Accounts : InsertAccount(a, d)
  /\ UNCHANGED <<group, campaign, job, crawled, requests, now, faults, planHist, editHist>>

JobsWithout(S) == [j \in Jobs |-> IF j \in S THEN Gone ELSE job[j]]

(* jobs ON DELETE CASCADE, groups ON DELETE SET NULL.  Also what a request *)
(* to add an account does when the login cannot be started.                *)
DeleteAccount(a) ==
  /\ IsRow(account[a])
  /\ Op
  /\ account' = [account EXCEPT ![a] = Gone]
  /\ job' = JobsWithout({j \in Jobs : IsRow(job[j]) /\ job[j].account = a})
  /\ group' = [g \in GroupRows |->
                 IF IsRow(group[g]) /\ group[g].account = a
                 THEN [group[g] EXCEPT !.account = None] ELSE group[g]]
  /\ UNCHANGED <<campaign, crawled, requests, now, faults, planHist, editHist>>

(* The unique index on group_id, and the foreign key.                      *)
InsertGroup(g, f, a) ==
  /\ group[g] = None
  /\ \A h \in GroupRows : IsRow(group[h]) => group[h].fb # f
  /\ a # None => IsRow(account[a])
  /\ group' = [group EXCEPT ![g] = [fb |-> f, account |-> a]]

(* CreateGroupFromURL, once the sidecar has resolved the URL.  CreateGroup *)
(* does the same for a request with a status; the plugin's have none, and  *)
(* the table refuses them.                                                 *)
CreateGroup(f, a) ==
  /\ Op
  /\ \E g \in GroupRows : InsertGroup(g, f, a)
  /\ UNCHANGED <<account, campaign, job, crawled, requests, now, faults, planHist, editHist>>

(* The jobs for the group stay.                                            *)
DeleteGroup(g) ==
  /\ IsRow(group[g])
  /\ Op
  /\ group' = [group EXCEPT ![g] = Gone]
  /\ UNCHANGED <<account, campaign, job, crawled, requests, now, faults, planHist, editHist>>

-----------------------------------------------------------------------------
(* Crawling                                                                *)

(* The answer is the posts themselves; they are stored one by one, each    *)
(* crawl anew.                                                             *)
CrawlPage(c, s, limit, until) ==
  /\ req[c] = Idle
  /\ Op
  /\ req' = [req EXCEPT ![c] = [Idle EXCEPT !.at = "store", !.n = 1, !.crawl =
               [shown |-> s, limit |-> limit, until |-> until,
                answer |-> CrawlPageV2(s, limit, until)]]]
  /\ UNCHANGED <<tables, listed, now, faults, planHist, editHist>>

CreateCrawledPost(p) == crawled' = [crawled EXCEPT ![p] = @ + 1]

(* A post that cannot be stored is passed over.                            *)
StorePost(c) ==
  /\ req[c].at = "store"
  /\ IF req[c].n > Len(req[c].crawl.answer)
     THEN Answer(c) /\ UNCHANGED <<crawled, faults>>
     ELSE /\ req' = [req EXCEPT ![c].n = @ + 1]
          /\ \/ CreateCrawledPost(req[c].crawl.answer[req[c].n]) /\ UNCHANGED faults
             \/ Fault /\ UNCHANGED crawled
  /\ UNCHANGED <<account, group, campaign, job, listed, now, ops, edits, planHist, editHist>>

-----------------------------------------------------------------------------
(* Campaigns                                                               *)

EnsureFuture(t) == t > now + Grace

Begin(c, s, items) ==
  /\ req[c] = Idle
  /\ Op
  /\ req' = [req EXCEPT ![c] = [Idle EXCEPT !.at = s, !.items = items]]
  /\ UNCHANGED <<tables, listed, now, faults, planHist, editHist>>

(* One item in the past spoils the plan.  Accounts are chosen from those   *)
(* that have been seen; they may be gone.                                  *)
PlanRepost(c, items) ==
  /\ \A n \in DOMAIN items : account[items[n].account] # None
  /\ \A n \in DOMAIN items : EnsureFuture(items[n].when)
  /\ Begin(c, "plan", items)

(* Its time is not compared with the clock.                                *)
CreateCampaign(c, t) == Begin(c, "create", <<[when |-> t]>>)

Earliest(items) ==
  CHOOSE t \in {items[n].when : n \in DOMAIN items} : \A n \in DOMAIN items : t <= items[n].when

StoreCampaign(k, t) ==
  /\ campaign[k] = None
  /\ campaign' = [campaign EXCEPT ![k] = [when |-> t]]

(* The caption has been rewritten, or is kept as it was.                   *)
InsertCampaign(c) ==
  /\ req[c].at \in {"plan", "create"}
  /\ \E k \in Campaigns :
       /\ StoreCampaign(k, Earliest(req[c].items))
       /\ req' = [req EXCEPT ![c].campaign = k, ![c].n = 1,
                             ![c].at = IF req[c].at = "plan" THEN "jobs" ELSE "accounts"]
  /\ UNCHANGED <<account, group, job, crawled, listed, now, bounds, planHist, editHist>>

Registered == {a \in Accounts : IsRow(account[a])}

(* CreateCampaign: the accounts, all of them active, ...                   *)
ListAccounts(c) ==
  /\ req[c].at = "accounts"
  /\ req' = [req EXCEPT ![c].at = "groups", ![c].items =
               SetToSeq({[account |-> a, fb |-> None, when |-> req[c].items[1].when,
                          auto |-> FALSE, anon |-> FALSE] : a \in Registered})]
  /\ UNCHANGED <<tables, listed, now, bounds, planHist, editHist>>

ActiveGroups == {group[g] : g \in {h \in GroupRows : IsRow(group[h])}}

(* ... with the groups that are assigned to each of them.                  *)
ListActiveGroups(c) ==
  /\ req[c].at = "groups"
  /\ req' = [req EXCEPT ![c].at = "jobs", ![c].items =
               SetToSeq({[x[1] EXCEPT !.fb = x[2].fb] :
                 x \in {y \in ToSet(req[c].items) \X ActiveGroups : y[2].account = y[1].account}})]
  /\ UNCHANGED <<tables, listed, now, bounds, planHist, editHist>>

(* The foreign keys of campaign and account; the group is only a text.     *)
CreateJob(j, k, i) ==
  /\ job[j] = None /\ IsRow(campaign[k]) /\ IsRow(account[i.account])
  /\ job' = [job EXCEPT ![j] = [campaign |-> k, account |-> i.account, fb |-> i.fb,
                               when |-> i.when, auto |-> i.auto, anon |-> i.anon]]

(* Breakage of PassOver: the plan ends at the first job that fails.        *)
PassOverAll(c) == req' = [req EXCEPT ![c].n = Len(req[c].items) + 1]

(* A job that cannot be inserted is passed over.                           *)
PassOver(c) == req' = [req EXCEPT ![c].n = @ + 1]

InsertJob(c) ==
  /\ req[c].at = "jobs" /\ req[c].n <= Len(req[c].items)
  /\ LET k == req[c].campaign  n == req[c].n  i == req[c].items[n] IN
     \/ /\ \E j \in Jobs :
             /\ CreateJob(j, k, i)
             /\ origin' = [origin EXCEPT ![j] = <<k, n>>]
             /\ asked' = [asked EXCEPT ![j] = i]
        /\ req' = [req EXCEPT ![c].n = @ + 1]
        /\ UNCHANGED <<faults, failed>>
     \/ /\ \/ Fault
           \/ ~(IsRow(campaign[k]) /\ IsRow(account[i.account])) /\ UNCHANGED faults
        /\ PassOver(c)
        /\ failed' = IF faults' > faults THEN failed \cup {<<k, n>>} ELSE failed
        /\ UNCHANGED <<job, origin, asked>>
  /\ UNCHANGED <<account, group, campaign, crawled, listed, now, ops, edits, plans, behind, undone>>

(* An error if no job was made; the campaign stays.                        *)
AnswerPlan(c) ==
  /\ req[c].at = "jobs" /\ req[c].n > Len(req[c].items)
  /\ plans' = [plans EXCEPT ![req[c].campaign] = req[c].items]
  /\ Answer(c)
  /\ UNCHANGED <<tables, listed, now, bounds, origin, failed, editHist>>

(* A call fails, or the client goes away.                                  *)
GiveUp(c) ==
  /\ req[c] # Idle
  /\ Fault
  /\ Answer(c)
  /\ UNCHANGED <<tables, listed, now, ops, edits, planHist, editHist>>

(* The jobs go with the campaign.                                          *)
DeleteCampaign(k) ==
  /\ IsRow(campaign[k])
  /\ Op
  /\ campaign' = [campaign EXCEPT ![k] = Gone]
  /\ job' = JobsWithout({j \in Jobs : IsRow(job[j]) /\ job[j].campaign = k})
  /\ UNCHANGED <<account, group, crawled, requests, now, faults, planHist, editHist>>

-----------------------------------------------------------------------------
(* The queue view                                                          *)

ListAllJobs == [j \in Jobs |-> IF IsRow(job[j]) THEN job[j] ELSE None]

ListQueue(c) ==
  /\ listed' = [listed EXCEPT ![c] = ListAllJobs]
  /\ behind' = [behind EXCEPT ![c] = {}]
  /\ UNCHANGED <<tables, req, now, bounds, planHist, asked, undone>>

(* Breakage of UpdateJob: auto_enabled and anonymous_posting are swapped.  *)
UpdateJobSwapped(j, t, f) ==
  job' = IF IsRow(job[j])
         THEN [job EXCEPT ![j].when = t, ![j].auto = f.anon, ![j].anon = f.auto] ELSE job

UpdateJob(j, t, f) ==
  job' = IF IsRow(job[j])
         THEN [job EXCEPT ![j].when = t, ![j].auto = f.auto, ![j].anon = f.anon] ELSE job

(* Field g of job j has been asked for and the fields of "over" have been  *)
(* written along with it: no view shows g any more.                        *)
AskedFor(j, g, over) ==
  /\ behind' = [c \in Clients |-> behind[c] \cup {<<j, g>>}]
  /\ undone' = (undone \cup over) \ {<<j, g>>}

(* The flags are cleared on the way.                                       *)
RescheduleJob(j, t) ==
  /\ IsRow(job[j])
  /\ EnsureFuture(t)
  /\ Edit
  /\ UpdateJob(j, t, [auto |-> FALSE, anon |-> FALSE])
  /\ asked' = [asked EXCEPT ![j].when = t]
  /\ AskedFor(j, "when", {j} \X Flags)
  /\ UNCHANGED <<account, group, campaign, crawled, requests, now, faults, planHist>>

(* A box of the view is clicked: the other flag goes along as the view     *)
(* shows it, and so does the time, or no time, which is stored as NULL.    *)
SetJobFlags(c, j, g, t) ==
  /\ listed[c][j] # None
  /\ t \in {listed[c][j].when, None}
  /\ Edit
  /\ LET shown == listed[c][j]  clicked == [shown EXCEPT ![g] = ~@] IN
     /\ UpdateJob(j, t, clicked)
     /\ asked' = [asked EXCEPT ![j][g] = clicked[g]]
     /\ AskedFor(j, g, (behind[c] \cap ({j} \X Fields))
                          \cup (IF t = shown.when THEN {} ELSE {<<j, "when">>}))
  /\ UNCHANGED <<account, group, campaign, crawled, requests, now, faults, planHist>>

Tick ==
  /\ now < MaxTime
  /\ now' = now + 1
  /\ UNCHANGED <<tables, requests, bounds, planHist, editHist>>

-----------------------------------------------------------------------------
Tables ==
  \/ \E d \in Profiles : AddAccount(d)
  \/ \E a \in Accounts : DeleteAccount(a)
  \/ \E f \in FbGroups, a \in Accounts \cup {None} : CreateGroup(f, a)
  \/ \E g \in GroupRows : DeleteGroup(g)
  \/ \E k \in Campaigns : DeleteCampaign(k)

Requests(c) ==
  \/ \E s \in Scrapes, limit \in Limits, until \in Untils : CrawlPage(c, s, limit, until)
  \/ \E items \in Plans : PlanRepost(c, items)
  \/ \E t \in 0 .. MaxTime : CreateCampaign(c, t)
  \/ StorePost(c) \/ InsertCampaign(c) \/ ListAccounts(c) \/ ListActiveGroups(c)
  \/ InsertJob(c) \/ AnswerPlan(c) \/ GiveUp(c) \/ ListQueue(c)
  \/ \E j \in Jobs, g \in Flags, t \in (0 .. MaxTime) \cup {None} : SetJobFlags(c, j, g, t)

Next ==
  \/ Tables
  \/ \E c \in Clients : Requests(c)
  \/ \E j \in Jobs, t \in 0 .. MaxTime : RescheduleJob(j, t)
  \/ Tick

Spec == Init /\ [][Next]_vars

-----------------------------------------------------------------------------
(* Properties                                                              *)

(* The types of the tables, with the foreign keys of jobs and groups.      *)
TypeOK ==
  LET Rowed(S) == S \cup {None, Gone} IN
  /\ account \in [Accounts -> Rowed(Profiles)]
  /\ group \in [GroupRows -> Rowed([fb : FbGroups, account : Accounts \cup {None}])]
  /\ campaign \in [Campaigns -> Rowed(CampaignRow)]
  /\ crawled \in [Posts -> Nat]
  /\ \A g \in GroupRows :
       IsRow(group[g]) /\ group[g].account # None => IsRow(account[group[g].account])
  /\ \A j \in Jobs : IsRow(job[j]) => IsRow(campaign[job[j].campaign]) /\ IsRow(account[job[j].account])
  /\ now \in 0 .. MaxTime
  /\ ops \in 0 .. MaxOps /\ edits \in 0 .. MaxEdits /\ faults \in 0 .. MaxFaults
  /\ {j \in Jobs : IsRow(job[j])} \subseteq {j \in Jobs : origin[j] # None}

(* Time and flags of a planned post are what was last asked for, each by   *)
(* itself, whatever requests overlap, unless a request for another field   *)
(* wrote it over: a click sends the other flag and the time of a view that *)
(* is older than the last request for them, or no time at all, and a       *)
(* reschedule clears the flags.                                            *)
JobsAsAsked ==
  \A j \in Jobs, g \in Fields : IsRow(job[j]) /\ job[j][g] # asked[j][g] => <<j, g>> \in undone

(* Each item of a plan that was answered has its job, unless its insert    *)
(* failed, or campaign or account have been deleted: items after one that  *)
(* cannot be inserted are not lost.                                        *)
MissingJobsHaveACause ==
  \A k \in Campaigns : plans[k] # None /\ IsRow(campaign[k]) =>
    \A n \in DOMAIN plans[k] :
      \/ \E j \in Jobs : IsRow(job[j]) /\ origin[j] = <<k, n>>
      \/ <<k, n>> \in failed
      \/ ~IsRow(account[plans[k][n].account])

(* A crawl answers the newest posts that are not newer than the day asked  *)
(* for, newest first and undated ones last, or, without a day, the first   *)
(* posts of the page: whatever order the page shows its posts in.          *)
CrawlTakesNewest ==
  \A c \in Clients : req[c].at = "store" =>
    LET k == req[c].crawl IN Answers(k.answer, k.shown, k.limit, k.until)
=============================================================================
