------------------------- MODULE RepostPlanningProofs -------------------------
(***************************************************************************)
(* Proofs about RepostPlanning, for any number of accounts, groups,        *)
(* campaigns, jobs and clients, any plans, and any bounds.                 *)
(*                                                                         *)
(* PlanningInv says, of a request that is inserting the jobs of a plan,    *)
(* that every item before the one it is at has its job or a reason to have *)
(* none; Later says which steps keep such a reason.  CrawlAnswers is about *)
(* the operators of Crawl alone.                                           *)
(***************************************************************************)
EXTENDS RepostPlanning, SequenceTheorems, FiniteSetTheorems, WellFoundedInduction, TLAPS

-----------------------------------------------------------------------------
(* The types of the variables.                                             *)
Scans == {[shown |-> s, limit |-> m, until |-> u, answer |-> CrawlPageV2(s, m, u)] :
            s \in Scrapes, m \in Limits, u \in Untils}

Timed == {<<[when |-> t]>> : t \in Nat}

Request == [at : {"idle", "store", "plan", "create", "accounts", "groups", "jobs"},
            campaign : Campaigns \cup {None}, items : Seq(PlanItem) \cup Timed, n : Nat,
            crawl : Scans \cup {None}]

PlanTypes ==
  /\ account \in [Accounts -> Profiles \cup {None, Gone}]
  /\ group \in [GroupRows -> [fb : FbGroups, account : Accounts \cup {None}] \cup {None, Gone}]
  /\ campaign \in [Campaigns -> CampaignRow \cup {None, Gone}]
  /\ job \in [Jobs -> JobRow \cup {None, Gone}]
  /\ crawled \in [Posts -> Nat]
  /\ listed \in [Clients -> [Jobs -> JobRow \cup {None}]]
  /\ req \in [Clients -> Request]
  /\ plans \in [Campaigns -> Seq(PlanItem) \cup {None}]
  /\ origin \in [Jobs -> (Campaigns \X Nat) \cup {None}]
  /\ asked \in [Jobs -> PlanItem \cup {None}]
  /\ behind \in [Clients -> SUBSET (Jobs \X Fields)]

Bounded ==
  /\ now \in 0 .. MaxTime
  /\ ops \in 0 .. MaxOps /\ edits \in 0 .. MaxEdits /\ faults \in 0 .. MaxFaults

GroupsOK ==
  \A g \in GroupRows : IsRow(group[g]) /\ group[g].account # None => IsRow(account[group[g].account])

(* Jobs are as asked, but for what requests for other fields wrote over.   *)
JobsOK ==
  \A j \in Jobs :
    /\ job[j] # None => asked[j] \in PlanItem /\ origin[j] # None
    /\ IsRow(job[j]) =>
         /\ IsRow(campaign[job[j].campaign]) /\ IsRow(account[job[j].account])
         /\ \A g \in Fields : job[j][g] # asked[j][g] => <<j, g>> \in undone

(* A view that is not behind shows what was asked for.                     *)
ListsOK ==
  \A c \in Clients, j \in Jobs : listed[c][j] # None =>
    /\ job[j] # None
    /\ \A g \in Fields : listed[c][j][g] # asked[j][g] => <<j, g>> \in undone \cup behind[c]

(* Item n of campaign k has its job for account a, or a reason for none.   *)
Cause(k, n, a) ==
  \/ \E j \in Jobs : IsRow(job[j]) /\ origin[j] = <<k, n>> /\ job[j].campaign = k /\ job[j].account = a
  \/ <<k, n>> \in failed
  \/ account[a] = Gone

(* Accounts that have been seen.                                           *)
Known(items) == items \in Seq(PlanItem) /\ \A n \in DOMAIN items : account[items[n].account] # None

PlansOK ==
  \A k \in Campaigns : plans[k] # None =>
    /\ campaign[k] # None
    /\ IsRow(campaign[k]) => \A n \in DOMAIN plans[k] : Cause(k, n, plans[k][n].account)

(* A request has given each item it has passed its job, or a reason.       *)
RequestOK(r) ==
  /\ r.at = "store" => r.crawl \in Scans
  /\ r.at = "plan" => Known(r.items) /\ r.items # <<>>
  /\ r.at \in {"create", "accounts"} => r.items \in Timed
  /\ r.at \in {"groups", "jobs"} => Known(r.items)
  /\ r.at \in {"accounts", "groups", "jobs"} =>
       r.campaign \in Campaigns /\ campaign[r.campaign] # None /\ r.n > 0
  /\ r.at \in {"accounts", "groups"} => r.n = 1
  /\ r.at = "jobs" /\ IsRow(campaign[r.campaign]) =>
       \A n \in DOMAIN r.items : n < r.n => Cause(r.campaign, n, r.items[n].account)

RequestsOK == \A c \in Clients : RequestOK(req[c])

(* The inductive invariant.                                                *)
PlanningInv ==
  PlanTypes /\ Bounded /\ GroupsOK /\ JobsOK /\ ListsOK /\ PlansOK /\ RequestsOK

(* What a step may do to accounts, campaigns and jobs: a row that is gone  *)
(* stays gone, and a job goes only with its account or campaign.           *)
Later ==
  /\ \A a \in Accounts : (account[a] # None => account'[a] # None) /\ (account[a] = Gone => account'[a] = Gone)
  /\ \A k \in Campaigns : campaign[k] # None => campaign'[k] # None /\ (IsRow(campaign[k])' => IsRow(campaign[k]))
  /\ \A j \in Jobs : IsRow(job[j]) =>
       \/ IsRow(job[j])' /\ origin'[j] = origin[j] /\ job'[j].campaign = job[j].campaign
          /\ job'[j].account = job[j].account
       \/ account'[job[j].account] = Gone
       \/ ~IsRow(campaign'[job[j].campaign])
  /\ failed \subseteq failed'

-----------------------------------------------------------------------------
(* Numbers have a least one.                                               *)
LEMMA NatMin ==
  ASSUME NEW T, T \subseteq Nat, T # {} PROVE \E x \in T : \A y \in T : x <= y
<1> DEFINE Lt == {p \in Nat \X Nat : p[1] < p[2]}
<1>1. IsWellFoundedOn(Lt, Nat)
  BY NatLessThanWellFounded, Zenon DEF OpToRel
<1>2. PICK x \in T : \A y \in T : ~(<<y, x>> \in Lt)
  <2> HIDE DEF Lt
  <2>1. QED
    BY <1>1, WFMin, Zenon
<1>3. ASSUME NEW y \in T PROVE x <= y
  <2>1. x \in Nat /\ y \in Nat /\ <<y, x>> \in Nat \X Nat
    BY <1>3
  <2>2. <<y, x>> \notin Lt
    BY <1>2, <1>3
  <2>3. ~(y < x)
    BY <2>1, <2>2
  <2>4. QED
    BY <2>1, <2>3
<1>4. QED
  BY <1>3

(* The sequence of a set consists of its elements.                         *)
LEMMA SetAsSeq ==
  ASSUME NEW S, IsFiniteSet(S) PROVE SetToSeq(S) \in Seq(S)
<1>1. PICK n \in Nat : n = Cardinality(S) /\ ExistsBijection(1 .. n, S)
  BY FS_CardinalityType
<1>2. PICK f \in Bijection(1 .. n, S) : TRUE
  BY <1>1 DEF ExistsBijection
<1>3. f \in [1 .. n -> S] /\ IsInjective(f)
  BY <1>2 DEF Bijection, Injection, IsInjective
<1>4. SetToSeq(S) \in [1 .. n -> S]
  BY <1>1, <1>3 DEF SetToSeq
<1>5. QED
  BY <1>4

(* The values of a function on a finite set.                               *)
LEMMA ImageIsFinite ==
  ASSUME NEW S, IsFiniteSet(S), NEW f, DOMAIN f = S PROVE IsFiniteSet({f[x] : x \in S})
<1> DEFINE T == {f[x] : x \in S}
           g == [x \in S |-> f[x]]
<1>1. g \in Surjection(S, T)
  BY DEF Surjection
<1>2. QED
  BY <1>1, FS_Surjection, Zenon

-----------------------------------------------------------------------------
(* A client without a request.                                             *)
LEMMA IdleIsOK == Idle \in Request /\ RequestOK(Idle)
  BY DEF Idle, Request, RequestOK, Scans

(* A job, or the reason it is missing, stays until its campaign goes.      *)
LEMMA CauseStays ==
  ASSUME Later, NEW k \in Campaigns, NEW n, NEW a \in Accounts, campaign[k] # None,
         IsRow(campaign[k])', IsRow(campaign[k]) => Cause(k, n, a)
  PROVE  Cause(k, n, a)'
<1>1. Cause(k, n, a)
  BY DEF Later
<1>2. ASSUME NEW j \in Jobs, IsRow(job[j]), origin[j] = <<k, n>>, job[j].campaign = k, job[j].account = a
      PROVE  Cause(k, n, a)'
  <2>1. CASE IsRow(job[j])' /\ origin'[j] = origin[j] /\ job'[j].campaign = job[j].campaign
             /\ job'[j].account = job[j].account
    BY <1>2, <2>1 DEF Cause
  <2>2. CASE account'[a] = Gone
    BY <2>2 DEF Cause
  <2>3. QED
    BY <1>2, <2>1, <2>2 DEF Later, IsRow
<1>3. QED
  BY <1>1, <1>2 DEF Later, Cause

(* An account that has been seen is not forgotten.                         *)
LEMMA KnownStays ==
  ASSUME Later, NEW items, Known(items) PROVE Known(items)'
<1>1. \A n \in DOMAIN items : items[n].account \in Accounts
  <2>1. \A n \in DOMAIN items : items[n] \in PlanItem
    BY DEF Known
  <2>2. QED
    BY <2>1 DEF PlanItem
<1>2. QED
  BY <1>1 DEF Known, Later

(* A request that does not move stays in order.                            *)
LEMMA RequestStays ==
  ASSUME Later, NEW r, RequestOK(r) PROVE RequestOK(r)'
<1>1. r.at \in {"groups", "jobs"} => \A n \in DOMAIN r.items : r.items[n].account \in Accounts
  <2>1. r.at \in {"groups", "jobs"} => \A n \in DOMAIN r.items : r.items[n] \in PlanItem
    BY DEF RequestOK, Known
  <2>2. QED
    BY <2>1 DEF PlanItem
<1>2. r.at \in {"accounts", "groups", "jobs"} =>
        r.campaign \in Campaigns /\ campaign[r.campaign] # None /\ campaign'[r.campaign] # None /\ r.n > 0
  BY DEF RequestOK, Later
<1>3. ASSUME r.at = "jobs", IsRow(campaign[r.campaign])', NEW n \in DOMAIN r.items, n < r.n
      PROVE  Cause(r.campaign, n, r.items[n].account)'
  <2>1. IsRow(campaign[r.campaign]) => Cause(r.campaign, n, r.items[n].account)
    BY <1>3 DEF RequestOK
  <2>2. QED
    BY <1>1, <1>2, <1>3, <2>1, CauseStays
<1>4. (r.at = "plan" => Known(r.items)') /\ (r.at \in {"groups", "jobs"} => Known(r.items)')
  BY KnownStays DEF RequestOK
<1>5. QED
  BY <1>2, <1>3, <1>4 DEF RequestOK

(* So does a plan that was answered.                                       *)
LEMMA PlansStay ==
  ASSUME Later, PlansOK, PlanTypes, UNCHANGED plans PROVE PlansOK'
<1>1. ASSUME NEW k \in Campaigns, plans[k] # None
      PROVE  /\ campaign'[k] # None
             /\ IsRow(campaign[k])' => \A n \in DOMAIN plans[k] : Cause(k, n, plans[k][n].account)'
  <2>1. campaign[k] # None /\ campaign'[k] # None
    BY <1>1 DEF PlansOK, Later
  <2>2. \A n \in DOMAIN plans[k] : plans[k][n].account \in Accounts
    <3>1. plans[k] \in Seq(PlanItem)
      BY <1>1 DEF PlanTypes
    <3>2. \A n \in DOMAIN plans[k] : plans[k][n] \in PlanItem
      BY <3>1
    <3>3. QED
      BY <3>2 DEF PlanItem
  <2>3. ASSUME IsRow(campaign[k])', NEW n \in DOMAIN plans[k] PROVE Cause(k, n, plans[k][n].account)'
    <3>1. IsRow(campaign[k]) => Cause(k, n, plans[k][n].account)
      BY <1>1, <2>3 DEF PlansOK
    <3>2. QED
      BY <2>1, <2>2, <2>3, <3>1, CauseStays
  <2>4. QED
    BY <2>1, <2>3
<1>2. QED
  BY <1>1 DEF PlansOK

(* A step of the tables, and of the requests in R.                         *)
LEMMA TableStep ==
  ASSUME PlanningInv, Later, UNCHANGED plans, PlanTypes', Bounded', GroupsOK', JobsOK', ListsOK',
         \A c \in Clients : req'[c] = req[c] \/ RequestOK(req[c])'
  PROVE  PlanningInv'
<1>1. PlansOK'
  BY PlansStay DEF PlanningInv
<1>2. ASSUME NEW c \in Clients PROVE RequestOK(req[c])'
  <2>1. CASE req'[c] = req[c]
    <3>1. PICK r : r = req[c] /\ r = req'[c]
      BY <2>1
    <3>2. RequestOK(r)'
      BY <1>2, <3>1, RequestStays DEF PlanningInv, RequestsOK
    <3>3. QED
      BY <3>1, <3>2 DEF RequestOK
  <2>2. CASE RequestOK(req[c])'
    BY <2>2
  <2>3. QED
    BY <1>2, <2>1, <2>2
<1>3. QED
  BY <1>1, <1>2 DEF PlanningInv, RequestsOK

(* A step of one request that leaves the tables of the plans alone.        *)
LEMMA OnlyRequest ==
  ASSUME PlanningInv, NEW c \in Clients, NEW r \in Request, req' = [req EXCEPT ![c] = r], RequestOK(r),
         crawled' \in [Posts -> Nat], Bounded',
         UNCHANGED <<account, group, campaign, job, listed, planHist, editHist>>
  PROVE  PlanningInv'
<1> USE DEF PlanningInv, planHist, editHist
<1>1. PlanTypes'
  BY DEF PlanTypes
<1>2. GroupsOK' /\ JobsOK' /\ ListsOK' /\ Later
  BY DEF GroupsOK, JobsOK, ListsOK, Later, IsRow
<1>3. RequestOK(r)'
  BY <1>2, RequestStays
<1>4. \A d \in Clients : req'[d] = req[d] \/ RequestOK(req[d])'
  <2>1. ASSUME NEW d \in Clients PROVE req'[d] = req[d] \/ RequestOK(req[d])'
    <3>1. CASE d # c
      BY <3>1 DEF PlanTypes
    <3>2. CASE d = c
      <4>1. req'[d] = r
        BY <3>2 DEF PlanTypes
      <4>2. QED
        BY <1>3, <4>1 DEF RequestOK
    <3>3. QED
      BY <3>1, <3>2
  <2>2. QED
    BY <2>1
<1>5. QED
  BY <1>1, <1>2, <1>4, TableStep

-----------------------------------------------------------------------------
(* An account that is added.                                               *)
LEMMA AddAccountStep ==
  ASSUME PlanningInv, NEW d \in Profiles, AddAccount(d) PROVE PlanningInv'
<1> USE DEF PlanningInv
<1>1. PICK a \in Accounts : account[a] = None /\ account' = [account EXCEPT ![a] = d]
  BY DEF AddAccount, InsertAccount
<1>2. UNCHANGED <<group, campaign, job, crawled, listed, req, plans, origin, failed, asked, behind, undone>>
      /\ Bounded'
  BY PlanningAssumption DEF AddAccount, Op, Bounded, requests, planHist, editHist
<1>3. account' \in [Accounts -> Profiles \cup {None, Gone}] /\ \A b \in Accounts \ {a} : account'[b] = account[b]
  BY <1>1 DEF PlanTypes
<1>4. PlanTypes'
  BY <1>2, <1>3 DEF PlanTypes
<1>5. \A b \in Accounts : IsRow(account[b]) => IsRow(account[b])'
  BY <1>1, <1>3 DEF IsRow
<1>6. Later
  BY <1>1, <1>2, <1>3, PlanningAssumption DEF Later, IsRow
<1>7. GroupsOK' /\ JobsOK' /\ ListsOK'
  <2>1. \A g \in GroupRows : IsRow(group[g]) => group[g].account \in Accounts \cup {None}
    BY DEF PlanTypes, IsRow
  <2>2. \A j \in Jobs : IsRow(job[j]) => job[j].account \in Accounts
    BY DEF PlanTypes, IsRow, JobRow
  <2>3. GroupsOK'
    BY <1>2, <1>3, <1>5, <1>1, <2>1 DEF GroupsOK, IsRow
  <2>4. JobsOK'
    BY <1>2, <1>3, <1>5, <1>1, <2>2 DEF JobsOK, IsRow
  <2>5. QED
    BY <1>2, <2>3, <2>4 DEF ListsOK
<1>8. QED
  BY <1>2, <1>4, <1>6, <1>7, TableStep

(* The cascade of an account: its jobs go, its groups stay.                *)
LEMMA DeleteAccountStep ==
  ASSUME PlanningInv, NEW a \in Accounts, DeleteAccount(a) PROVE PlanningInv'
<1> USE DEF PlanningInv
<1> DEFINE S == {j \in Jobs : IsRow(job[j]) /\ job[j].account = a}
<1>1. /\ UNCHANGED <<campaign, crawled, listed, req, plans, origin, failed, asked, behind, undone>>
      /\ Bounded' /\ IsRow(account[a]) /\ account' = [account EXCEPT ![a] = Gone]
      /\ job' = [j \in Jobs |-> IF j \in S THEN Gone ELSE job[j]]
      /\ group' = [g \in GroupRows |->
                     IF IsRow(group[g]) /\ group[g].account = a THEN [group[g] EXCEPT !.account = None] ELSE group[g]]
  BY PlanningAssumption DEF DeleteAccount, JobsWithout, Op, Bounded, requests, planHist, editHist
<1>2. account' \in [Accounts -> Profiles \cup {None, Gone}] /\ account'[a] = Gone
      /\ \A b \in Accounts \ {a} : account'[b] = account[b]
  BY <1>1 DEF PlanTypes
<1>3. job' \in [Jobs -> JobRow \cup {None, Gone}]
  BY <1>1 DEF PlanTypes
<1>4. ASSUME NEW g \in GroupRows
      PROVE  \/ group'[g] = group[g] /\ (IsRow(group[g]) => group[g].account # a)
             \/ group'[g] \in [fb : FbGroups, account : Accounts \cup {None}] /\ group'[g].account = None
  <2>1. CASE IsRow(group[g]) /\ group[g].account = a
    <3>1. group[g] \in [fb : FbGroups, account : Accounts \cup {None}]
          /\ group'[g] = [group[g] EXCEPT !.account = None]
      BY <1>1, <2>1 DEF PlanTypes, IsRow
    <3>2. QED
      BY <3>1
  <2>2. CASE ~(IsRow(group[g]) /\ group[g].account = a)
    BY <1>1, <2>2
  <2>3. QED
    BY <2>1, <2>2
<1>5. group' \in [GroupRows -> [fb : FbGroups, account : Accounts \cup {None}] \cup {None, Gone}]
  <2>1. \A g \in GroupRows : group'[g] \in [fb : FbGroups, account : Accounts \cup {None}] \cup {None, Gone}
    BY <1>4 DEF PlanTypes
  <2>2. QED
    BY <1>1, <2>1
<1>6. PlanTypes'
  BY <1>1, <1>2, <1>3, <1>5 DEF PlanTypes
<1>7. \A j \in Jobs : IF j \in S THEN job'[j] = Gone ELSE job'[j] = job[j]
  BY <1>1
<1>8. Later
  BY <1>1, <1>2, <1>7, PlanningAssumption DEF Later, IsRow
<1>9. GroupsOK'
  <2>1. ASSUME NEW g \in GroupRows, IsRow(group[g])', group'[g].account # None
        PROVE  IsRow(account'[group'[g].account])
    <3>1. group'[g] = group[g] /\ IsRow(group[g]) /\ group[g].account # a
      BY <1>4, <2>1 DEF IsRow
    <3>2. group[g].account \in Accounts
      BY <2>1, <3>1 DEF PlanTypes, IsRow
    <3>3. IsRow(account[group[g].account])
      BY <2>1, <3>1 DEF GroupsOK
    <3>4. account'[group[g].account] = account[group[g].account]
      BY <1>2, <3>1, <3>2
    <3>5. QED
      BY <3>1, <3>3, <3>4
  <2>2. QED
    BY <2>1 DEF GroupsOK, IsRow
<1>10. JobsOK'
  <2>1. \A j \in Jobs : IsRow(job[j]) => job[j].account \in Accounts
    BY DEF PlanTypes, IsRow, JobRow
  <2>2. ASSUME NEW j \in Jobs PROVE
           /\ job'[j] # None => asked'[j] \in PlanItem /\ origin'[j] # None
           /\ IsRow(job'[j]) =>
                /\ IsRow(campaign'[job'[j].campaign]) /\ IsRow(account'[job'[j].account])
                /\ \A g \in Fields : job'[j][g] # asked'[j][g] => <<j, g>> \in undone'
    <3>1. CASE j \in S
      BY <1>1, <1>7, <3>1 DEF JobsOK, IsRow
    <3>2. CASE j \notin S
      BY <1>1, <1>2, <1>7, <2>1, <3>2 DEF JobsOK, IsRow
    <3>3. QED
      BY <3>1, <3>2
  <2>3. QED
    BY <2>2 DEF JobsOK, IsRow
<1>11. ListsOK'
  BY <1>1, <1>7, PlanningAssumption DEF ListsOK
<1>12. QED
  BY <1>1, <1>6, <1>8, <1>9, <1>10, <1>11, TableStep

(* A group has no account, or one that exists.                             *)
LEMMA CreateGroupStep ==
  ASSUME PlanningInv, NEW f \in FbGroups, NEW a \in Accounts \cup {None}, CreateGroup(f, a) PROVE PlanningInv'
<1> USE DEF PlanningInv
<1>1. PICK g \in GroupRows : /\ (a # None => IsRow(account[a]))
                             /\ group' = [group EXCEPT ![g] = [fb |-> f, account |-> a]]
  BY DEF CreateGroup, InsertGroup
<1>2. UNCHANGED <<account, campaign, job, crawled, listed, req, plans, origin, failed, asked, behind, undone>>
      /\ Bounded'
  BY PlanningAssumption DEF CreateGroup, Op, Bounded, requests, planHist, editHist
<1>3. group' \in [GroupRows -> [fb : FbGroups, account : Accounts \cup {None}] \cup {None, Gone}]
      /\ group'[g].account = a /\ \A h \in GroupRows \ {g} : group'[h] = group[h]
  BY <1>1 DEF PlanTypes
<1>4. PlanTypes'
  BY <1>2, <1>3 DEF PlanTypes
<1>5. Later /\ JobsOK' /\ ListsOK'
  BY <1>2 DEF Later, JobsOK, ListsOK, IsRow
<1>6. GroupsOK'
  BY <1>1, <1>2, <1>3 DEF GroupsOK, IsRow
<1>7. QED
  BY <1>2, <1>4, <1>5, <1>6, TableStep

(* A group that goes takes no job along.                                   *)
LEMMA DeleteGroupStep ==
  ASSUME PlanningInv, NEW g \in GroupRows, DeleteGroup(g) PROVE PlanningInv'
<1> USE DEF PlanningInv
<1>1. group' = [group EXCEPT ![g] = Gone]
      /\ UNCHANGED <<account, campaign, job, crawled, listed, req, plans, origin, failed, asked, behind,
                     undone>>
      /\ Bounded'
  BY PlanningAssumption DEF DeleteGroup, Op, Bounded, requests, planHist, editHist
<1>2. PlanTypes' /\ GroupsOK'
  BY <1>1 DEF PlanTypes, GroupsOK, IsRow
<1>3. Later /\ JobsOK' /\ ListsOK'
  BY <1>1 DEF Later, JobsOK, ListsOK, IsRow
<1>4. QED
  BY <1>1, <1>2, <1>3, TableStep

(* The cascade of a campaign.                                              *)
LEMMA DeleteCampaignStep ==
  ASSUME PlanningInv, NEW k \in Campaigns, DeleteCampaign(k) PROVE PlanningInv'
<1> USE DEF PlanningInv
<1> DEFINE S == {j \in Jobs : IsRow(job[j]) /\ job[j].campaign = k}
<1>1. /\ UNCHANGED <<account, group, crawled, listed, req, plans, origin, failed, asked, behind, undone>>
      /\ Bounded' /\ IsRow(campaign[k]) /\ campaign' = [campaign EXCEPT ![k] = Gone]
      /\ job' = [j \in Jobs |-> IF j \in S THEN Gone ELSE job[j]]
  BY PlanningAssumption DEF DeleteCampaign, JobsWithout, Op, Bounded, requests, planHist, editHist
<1>2. campaign' \in [Campaigns -> CampaignRow \cup {None, Gone}] /\ campaign'[k] = Gone
      /\ \A h \in Campaigns \ {k} : campaign'[h] = campaign[h]
  BY <1>1 DEF PlanTypes
<1>3. job' \in [Jobs -> JobRow \cup {None, Gone}]
  BY <1>1 DEF PlanTypes
<1>4. PlanTypes'
  BY <1>1, <1>2, <1>3 DEF PlanTypes
<1>5. \A j \in Jobs : IF j \in S THEN job'[j] = Gone ELSE job'[j] = job[j]
  BY <1>1
<1>6. Later
  BY <1>1, <1>2, <1>5, PlanningAssumption DEF Later, IsRow
<1>7. GroupsOK'
  BY <1>1 DEF GroupsOK, IsRow
<1>8. \A j \in Jobs : IsRow(job[j]) => job[j].campaign \in Campaigns
  BY DEF PlanTypes, IsRow, JobRow
<1>9. ASSUME NEW j \in Jobs PROVE
         /\ job'[j] # None => asked'[j] \in PlanItem /\ origin'[j] # None
         /\ IsRow(job'[j]) =>
              /\ IsRow(campaign'[job'[j].campaign]) /\ IsRow(account'[job'[j].account])
              /\ \A g \in Fields : job'[j][g] # asked'[j][g] => <<j, g>> \in undone'
  <2>1. CASE j \in S
    BY <1>1, <1>5, <2>1 DEF JobsOK, IsRow
  <2>2. CASE j \notin S
    BY <1>1, <1>2, <1>5, <1>8, <2>2 DEF JobsOK, IsRow
  <2>3. QED
    BY <2>1, <2>2
<1>10. JobsOK'
  BY <1>9 DEF JobsOK, IsRow
<1>11. ListsOK'
  BY <1>1, <1>5, PlanningAssumption DEF ListsOK
<1>12. QED
  BY <1>1, <1>4, <1>6, <1>7, <1>10, <1>11, TableStep

-----------------------------------------------------------------------------
(* PlanRepost and CreateCampaign, as they begin.                           *)
LEMMA BeginStep ==
  ASSUME PlanningInv, NEW c \in Clients, NEW s \in {"plan", "create"}, NEW items, Begin(c, s, items),
         \/ s = "plan" /\ items \in Plans /\ \A n \in DOMAIN items : account[items[n].account] # None
         \/ s = "create" /\ items \in Timed
  PROVE  PlanningInv'
<1> DEFINE r == [Idle EXCEPT !.at = s, !.items = items]
<1>1. items \in Seq(PlanItem) \cup Timed /\ (s = "plan" => Known(items) /\ items # <<>>)
  BY PlanningAssumption DEF Known
<1>2. r \in Request /\ r.at = s /\ r.items = items
  BY <1>1, IdleIsOK DEF Request
<1>3. RequestOK(r)
  <2> HIDE DEF r
  <2>1. QED
    BY <1>1, <1>2 DEF RequestOK
<1>4. Bounded' /\ req' = [req EXCEPT ![c] = r] /\ crawled' \in [Posts -> Nat]
      /\ UNCHANGED <<account, group, campaign, job, listed, planHist, editHist>>
  BY PlanningAssumption DEF Begin, Op, Bounded, PlanningInv, PlanTypes, tables
<1>5. QED
  <2> HIDE DEF r
  <2>1. QED
    BY <1>2, <1>3, <1>4, OnlyRequest

(* A crawl touches neither plans nor jobs.                                 *)
LEMMA CrawlPageStep ==
  ASSUME PlanningInv, NEW c \in Clients, NEW s \in Scrapes, NEW m \in Limits, NEW u \in Untils,
         CrawlPage(c, s, m, u)
  PROVE  PlanningInv'
<1> DEFINE k == [shown |-> s, limit |-> m, until |-> u, answer |-> CrawlPageV2(s, m, u)]
           r == [Idle EXCEPT !.at = "store", !.n = 1, !.crawl = k]
<1>1. k \in Scans
  BY DEF Scans
<1>2. r \in Request /\ r.at = "store" /\ r.crawl \in Scans
  <2> HIDE DEF k
  <2>1. QED
    BY <1>1, IdleIsOK DEF Request
<1>3. RequestOK(r)
  <2> HIDE DEF r
  <2>1. QED
    BY <1>2 DEF RequestOK
<1>4. Bounded' /\ req' = [req EXCEPT ![c] = r] /\ crawled' \in [Posts -> Nat]
      /\ UNCHANGED <<account, group, campaign, job, listed, planHist, editHist>>
  BY PlanningAssumption DEF CrawlPage, Op, Bounded, PlanningInv, PlanTypes, tables
<1>5. QED
  <2> HIDE DEF r
  <2>1. QED
    BY <1>2, <1>3, <1>4, OnlyRequest

(* Nor do the posts it stores.                                             *)
LEMMA StorePostStep ==
  ASSUME PlanningInv, NEW c \in Clients, StorePost(c) PROVE PlanningInv'
<1>1. Bounded' /\ crawled' \in [Posts -> Nat]
      /\ UNCHANGED <<account, group, campaign, job, listed, planHist, editHist>>
  <2>1. Bounded' /\ UNCHANGED <<account, group, campaign, job, listed, planHist, editHist>>
    BY PlanningAssumption DEF StorePost, Fault, Bounded, PlanningInv
  <2>2. crawled \in [Posts -> Nat]
    BY DEF PlanningInv, PlanTypes
  <2>3. UNCHANGED crawled \/ \E p : CreateCrawledPost(p)
    BY DEF StorePost
  <2>4. ASSUME NEW p, CreateCrawledPost(p) PROVE crawled' \in [Posts -> Nat]
    <3>1. crawled' = [crawled EXCEPT ![p] = crawled[p] + 1]
      BY <2>4 DEF CreateCrawledPost
    <3>2. CASE p \in Posts
      BY <2>2, <3>1, <3>2
    <3>3. CASE p \notin Posts
      BY <2>2, <3>1, <3>3
    <3>4. QED
      BY <3>2, <3>3
  <2>5. QED
    BY <2>1, <2>2, <2>3, <2>4
<1>2. CASE Answer(c)
  BY <1>1, <1>2, IdleIsOK, OnlyRequest DEF Answer
<1>3. CASE req' = [req EXCEPT ![c].n = @ + 1]
  <2> DEFINE r == [req[c] EXCEPT !.n = @ + 1]
  <2>1. req[c] \in Request /\ req[c].at = "store" /\ req[c].crawl \in Scans
    BY DEF StorePost, PlanningInv, PlanTypes, RequestsOK, RequestOK
  <2>2. r \in Request /\ r.at = "store" /\ r.crawl \in Scans
    BY <2>1 DEF Request
  <2>3. req' = [req EXCEPT ![c] = r]
    BY <1>3 DEF PlanningInv, PlanTypes
  <2>4. PICK q \in Request : q = r
    BY <2>2
  <2>5. RequestOK(q)
    <3> HIDE DEF r
    <3>1. QED
      BY <2>2, <2>4 DEF RequestOK
  <2>6. QED
    <3> HIDE DEF r
    <3>1. QED
      BY <1>1, <2>3, <2>4, <2>5, OnlyRequest
<1>4. QED
  BY <1>2, <1>3 DEF StorePost

(* A request that ends leaves what it has written.                         *)
LEMMA GiveUpStep ==
  ASSUME PlanningInv, NEW c \in Clients, GiveUp(c) PROVE PlanningInv'
<1>1. Bounded' /\ crawled' \in [Posts -> Nat]
      /\ UNCHANGED <<account, group, campaign, job, listed, planHist, editHist>>
  BY PlanningAssumption DEF GiveUp, Fault, Bounded, PlanningInv, PlanTypes, tables
<1>2. QED
  BY <1>1, IdleIsOK, OnlyRequest DEF GiveUp, Answer

(* A plan has an earliest time.                                            *)
LEMMA EarliestIsATime ==
  ASSUME NEW items, items \in Timed \/ (items \in Seq(PlanItem) /\ items # <<>>) PROVE Earliest(items) \in Nat
<1> DEFINE T == {items[n].when : n \in DOMAIN items}
<1>1. T \subseteq Nat /\ T # {}
  <2>1. CASE items \in Timed
    <3>1. PICK t \in Nat : items = <<[when |-> t]>>
      BY <2>1 DEF Timed
    <3>2. DOMAIN items = {1} /\ items[1].when = t
      BY <3>1
    <3>3. QED
      BY <3>2
  <2>2. CASE items \in Seq(PlanItem) /\ items # <<>>
    <3>1. 1 \in DOMAIN items /\ \A n \in DOMAIN items : items[n] \in PlanItem
      BY <2>2
    <3>2. \A n \in DOMAIN items : items[n].when \in Nat
      BY <3>1 DEF PlanItem
    <3>3. QED
      BY <3>1, <3>2
  <2>3. QED
    BY <2>1, <2>2
<1>2. \E t \in T : \A u \in T : t <= u
  <2> HIDE DEF T
  <2>1. QED
    BY <1>1, NatMin
<1>3. \E t \in T : \A n \in DOMAIN items : t <= items[n].when
  BY <1>2
<1>4. Earliest(items) \in T
  BY <1>3, Zenon DEF Earliest
<1>5. QED
  BY <1>1, <1>4

(* A campaign starts without jobs, at its first item.                      *)
LEMMA InsertCampaignStep ==
  ASSUME PlanningInv, NEW c \in Clients, InsertCampaign(c) PROVE PlanningInv'
<1> USE DEF PlanningInv
<1>0. req[c] \in Request /\ RequestOK(req[c]) /\ req[c].at \in {"plan", "create"}
  BY DEF RequestsOK, PlanTypes, InsertCampaign
<1>1. PICK k \in Campaigns : /\ StoreCampaign(k, Earliest(req[c].items))
                             /\ req' = [req EXCEPT ![c].campaign = k, ![c].n = 1,
                                                   ![c].at = IF req[c].at = "plan" THEN "jobs" ELSE "accounts"]
  BY DEF InsertCampaign
<1>2. /\ UNCHANGED <<account, group, job, crawled, listed, plans, origin, failed, asked, behind, undone>>
      /\ Bounded'
  BY DEF InsertCampaign, Bounded, bounds, planHist, editHist
<1>3. Earliest(req[c].items) \in Nat
  <2>1. PICK items : items = req[c].items
    OBVIOUS
  <2>2. items \in Timed \/ (items \in Seq(PlanItem) /\ items # <<>>)
    BY <1>0, <2>1 DEF RequestOK, Known
  <2>3. Earliest(items) \in Nat
    BY <2>2, EarliestIsATime
  <2>4. QED
    BY <2>1, <2>3
<1>4. campaign[k] = None /\ campaign' \in [Campaigns -> CampaignRow \cup {None, Gone}]
      /\ campaign'[k] \in CampaignRow /\ \A h \in Campaigns \ {k} : campaign'[h] = campaign[h]
  BY <1>1, <1>3 DEF StoreCampaign, PlanTypes, CampaignRow
<1>5. PICK r \in Request : /\ req' = [req EXCEPT ![c] = r] /\ r.campaign = k /\ r.n = 1 /\ r.items = req[c].items
                           /\ r.at = IF req[c].at = "plan" THEN "jobs" ELSE "accounts"
  <2> DEFINE w == [req[c] EXCEPT !.campaign = k, !.n = 1, !.at = IF req[c].at = "plan" THEN "jobs" ELSE "accounts"]
  <2>1. /\ w \in Request /\ w.campaign = k /\ w.n = 1 /\ w.items = req[c].items
        /\ w.at = IF req[c].at = "plan" THEN "jobs" ELSE "accounts"
    BY <1>0 DEF Request
  <2>2. req' = [req EXCEPT ![c] = w]
    BY <1>1 DEF PlanTypes
  <2>3. QED
    <3> HIDE DEF w
    <3>1. QED
      BY <2>1, <2>2
<1>6. PlanTypes'
  BY <1>2, <1>4, <1>5 DEF PlanTypes
<1>7. \A h \in Campaigns : IsRow(campaign[h]) => IsRow(campaign'[h])
  BY <1>4 DEF IsRow
<1>8. Later
  BY <1>2, <1>4 DEF Later, IsRow
<1>9. GroupsOK' /\ ListsOK'
  BY <1>2 DEF GroupsOK, ListsOK, IsRow
<1>10. JobsOK'
  <2>1. \A j \in Jobs : IsRow(job[j]) => job[j].campaign \in Campaigns
    BY DEF PlanTypes, IsRow, JobRow
  <2>2. QED
    BY <1>2, <1>4, <2>1 DEF JobsOK, IsRow
<1>11. RequestOK(r)'
  <2>1. r.at = "jobs" => Known(r.items)'
    BY <1>0, <1>5, <1>8, KnownStays DEF RequestOK
  <2>2. r.at = "accounts" => r.items \in Timed
    BY <1>0, <1>5 DEF RequestOK
  <2>3. r.at = "jobs" => \A n \in DOMAIN r.items : ~(n < r.n)
    BY <2>1, <1>5 DEF Known
  <2>4. campaign'[r.campaign] # None
    BY <1>4, <1>5, PlanningAssumption
  <2>5. QED
    BY <1>0, <1>5, <2>1, <2>2, <2>3, <2>4 DEF RequestOK
<1>12. \A d \in Clients : req'[d] = req[d] \/ RequestOK(req[d])'
  <2>1. ASSUME NEW d \in Clients, d = c PROVE RequestOK(req[d])'
    <3>1. req'[d] = r
      BY <1>5, <2>1 DEF PlanTypes
    <3>2. QED
      BY <1>11, <3>1 DEF RequestOK
  <2>2. QED
    BY <1>5, <2>1 DEF PlanTypes
<1>13. QED
  BY <1>2, <1>6, <1>8, <1>9, <1>10, <1>12, TableStep

(* The items are those of accounts that exist as they are read, ...        *)
LEMMA ListAccountsStep ==
  ASSUME PlanningInv, NEW c \in Clients, ListAccounts(c) PROVE PlanningInv'
<1> DEFINE t == req[c].items[1].when
           Row(a) == [account |-> a, fb |-> None, when |-> t, auto |-> FALSE, anon |-> FALSE]
           X == {Row(a) : a \in Registered}
<1>1. req[c] \in Request /\ RequestOK(req[c]) /\ req[c].at = "accounts"
      /\ req' = [req EXCEPT ![c].at = "groups", ![c].items = SetToSeq(X)]
  BY DEF PlanningInv, RequestsOK, PlanTypes, ListAccounts
<1>2. t \in Nat
  <2>1. PICK u \in Nat : req[c].items = <<[when |-> u]>>
    BY <1>1 DEF RequestOK, Timed
  <2>2. req[c].items[1].when = u
    BY <2>1
  <2>3. QED
    BY <2>2
<1>3. SetToSeq(X) \in Seq(X)
  <2> DEFINE f == [a \in Registered |-> Row(a)]
  <2>1. IsFiniteSet(Registered)
    BY PlanningAssumption, FS_Subset DEF Registered
  <2>2. X = {f[a] : a \in Registered} /\ DOMAIN f = Registered
    OBVIOUS
  <2>3. IsFiniteSet(X)
    <3> HIDE DEF f, X
    <3>1. QED
      BY <2>1, <2>2, ImageIsFinite
  <2>4. QED
    <3> HIDE DEF X
    <3>1. QED
      BY <2>3, SetAsSeq
<1>4. \A i \in X : i \in PlanItem /\ account[i.account] # None
  <2>1. \A a \in Registered : a \in Accounts /\ account[a] # None
    BY DEF Registered, IsRow
  <2>2. \A a \in Registered : Row(a) \in PlanItem /\ Row(a).account = a
    <3> HIDE DEF t
    <3>1. QED
      BY <1>2, <2>1 DEF PlanItem
  <2>3. QED
    <3> HIDE DEF Row
    <3>1. QED
      BY <2>1, <2>2
<1>5. Known(SetToSeq(X))
  <2> HIDE DEF X
  <2>1. SetToSeq(X) \in Seq(PlanItem) /\ \A n \in DOMAIN SetToSeq(X) : SetToSeq(X)[n] \in X
    BY <1>3, <1>4
  <2>2. QED
    BY <1>4, <2>1 DEF Known
<1> HIDE DEF X
<1>6. PICK items : items = SetToSeq(X)
  OBVIOUS
<1>7. PICK r \in Request : /\ req' = [req EXCEPT ![c] = r] /\ r.at = "groups" /\ r.items = items
                           /\ r.campaign = req[c].campaign /\ r.n = req[c].n
  <2> DEFINE w == [req[c] EXCEPT !.at = "groups", !.items = items]
  <2>1. /\ w \in Request /\ w.at = "groups" /\ w.items = items
        /\ w.campaign = req[c].campaign /\ w.n = req[c].n
    BY <1>1, <1>5, <1>6 DEF Request, Known
  <2>2. req' = [req EXCEPT ![c] = w]
    BY <1>1, <1>6 DEF PlanTypes, PlanningInv
  <2>3. QED
    <3> HIDE DEF w
    <3>1. QED
      BY <2>1, <2>2
<1>8. RequestOK(r)
  BY <1>1, <1>5, <1>6, <1>7 DEF RequestOK
<1>9. Bounded' /\ crawled' \in [Posts -> Nat]
      /\ UNCHANGED <<account, group, campaign, job, listed, planHist, editHist>>
  BY DEF ListAccounts, Bounded, bounds, PlanningInv, PlanTypes, tables
<1>10. QED
  BY <1>7, <1>8, <1>9, OnlyRequest

(* ... with groups.                                                        *)
LEMMA ListActiveGroupsStep ==
  ASSUME PlanningInv, NEW c \in Clients, ListActiveGroups(c) PROVE PlanningInv'
<1> DEFINE G == {h \in GroupRows : IsRow(group[h])}
           s == req[c].items
           Y == {y \in ToSet(s) \X ActiveGroups : y[2].account = y[1].account}
           X == {[x[1] EXCEPT !.fb = x[2].fb] : x \in Y}
<1>1. req[c] \in Request /\ RequestOK(req[c]) /\ req[c].at = "groups"
      /\ req' = [req EXCEPT ![c].at = "jobs", ![c].items = SetToSeq(X)]
  BY DEF PlanningInv, RequestsOK, PlanTypes, ListActiveGroups
<1>2. s \in Seq(PlanItem) /\ \A n \in DOMAIN s : s[n] \in PlanItem /\ account[s[n].account] # None
  BY <1>1 DEF RequestOK, Known
<1>3. IsFiniteSet(Y)
  <2>1. IsFiniteSet(ToSet(s))
    <3>1. IsFiniteSet(DOMAIN s)
      <4>1. DOMAIN s = 1 .. Len(s) /\ Len(s) \in Nat
        BY <1>2
      <4>2. QED
        BY <4>1, FS_Interval
    <3>2. QED
      BY <3>1, ImageIsFinite DEF ToSet
  <2>2. IsFiniteSet(ActiveGroups)
    <3> DEFINE f == [g \in G |-> group[g]]
    <3>1. IsFiniteSet(G)
      BY PlanningAssumption, FS_Subset
    <3>2. ActiveGroups = {f[g] : g \in G} /\ DOMAIN f = G
      BY DEF ActiveGroups
    <3>3. QED
      <4> HIDE DEF f, G
      <4>1. QED
        BY <3>1, <3>2, ImageIsFinite
  <2>3. IsFiniteSet(ToSet(s) \X ActiveGroups)
    BY <2>1, <2>2, FS_Product
  <2>4. QED
    BY <2>3, FS_Subset
<1>4. SetToSeq(X) \in Seq(X)
  <2> DEFINE f == [x \in Y |-> [x[1] EXCEPT !.fb = x[2].fb]]
  <2>1. X = {f[x] : x \in Y} /\ DOMAIN f = Y
    OBVIOUS
  <2>2. IsFiniteSet(X)
    <3> HIDE DEF f, X, Y
    <3>1. QED
      BY <1>3, <2>1, ImageIsFinite
  <2>3. QED
    <3> HIDE DEF X
    <3>1. QED
      BY <2>2, SetAsSeq
<1>5. \A i \in X : i \in PlanItem /\ account[i.account] # None
  <2>1. ASSUME NEW x \in Y PROVE LET i == [x[1] EXCEPT !.fb = x[2].fb] IN i \in PlanItem /\ account[i.account] # None
    <3>1. PICK n \in DOMAIN s : x[1] = s[n]
      BY DEF ToSet
    <3>2. x[1] \in PlanItem /\ account[x[1].account] # None
      BY <1>2, <3>1
    <3>3. x[2].fb \in FbGroups
      <4>1. PICK g \in G : x[2] = group[g]
        BY DEF ActiveGroups
      <4>2. group[g] \in [fb : FbGroups, account : Accounts \cup {None}]
        BY <4>1 DEF PlanningInv, PlanTypes, IsRow
      <4>3. QED
        BY <4>1, <4>2
    <3>4. QED
      BY <3>2, <3>3 DEF PlanItem
  <2>2. QED
    <3> HIDE DEF Y
    <3>1. QED
      BY <2>1
<1>6. Known(SetToSeq(X))
  <2> HIDE DEF X
  <2>1. SetToSeq(X) \in Seq(PlanItem) /\ \A n \in DOMAIN SetToSeq(X) : SetToSeq(X)[n] \in X
    BY <1>4, <1>5
  <2>2. QED
    BY <1>5, <2>1 DEF Known
<1> HIDE DEF X
<1>7. PICK items : items = SetToSeq(X)
  OBVIOUS
<1>8. PICK r \in Request : /\ req' = [req EXCEPT ![c] = r] /\ r.at = "jobs" /\ r.items = items
                           /\ r.campaign = req[c].campaign /\ r.n = req[c].n
  <2> DEFINE w == [req[c] EXCEPT !.at = "jobs", !.items = items]
  <2>1. /\ w \in Request /\ w.at = "jobs" /\ w.items = items
        /\ w.campaign = req[c].campaign /\ w.n = req[c].n
    BY <1>1, <1>6, <1>7 DEF Request, Known
  <2>2. req' = [req EXCEPT ![c] = w]
    BY <1>1, <1>7 DEF PlanTypes, PlanningInv
  <2>3. QED
    <3> HIDE DEF w
    <3>1. QED
      BY <2>1, <2>2
<1>9. RequestOK(r)
  <2>1. Known(items) /\ r.n = 1
    BY <1>1, <1>6, <1>7, <1>8 DEF RequestOK
  <2>2. \A n \in DOMAIN items : ~(n < 1)
    BY <2>1 DEF Known
  <2>3. QED
    BY <1>1, <1>8, <2>1, <2>2 DEF RequestOK
<1>10. Bounded' /\ crawled' \in [Posts -> Nat]
      /\ UNCHANGED <<account, group, campaign, job, listed, planHist, editHist>>
  BY DEF ListActiveGroups, Bounded, bounds, PlanningInv, PlanTypes, tables
<1>11. QED
  BY <1>8, <1>9, <1>10, OnlyRequest

(* The next item is taken, once the one at hand has a cause.               *)
LEMMA NextItem ==
  ASSUME PlanningInv, Later, NEW c \in Clients, NEW q, q = req[c], q.at = "jobs", q.n <= Len(q.items),
         req' = [req EXCEPT ![c].n = @ + 1],
         IsRow(campaign[q.campaign])' => Cause(q.campaign, q.n, q.items[q.n].account)'
  PROVE  /\ req' \in [Clients -> Request]
         /\ \A d \in Clients : req'[d] = req[d] \/ RequestOK(req[d])'
<1> DEFINE w == [req[c] EXCEPT !.n = @ + 1]
<1>1. req[c] \in Request /\ RequestOK(req[c]) /\ req \in [Clients -> Request]
  BY DEF PlanningInv, PlanTypes, RequestsOK
<1>2. q \in Request /\ RequestOK(q)
  BY <1>1
<1>3. PICK r \in Request : /\ r = w
                           /\ r.at = "jobs" /\ r.n = q.n + 1 /\ r.items = q.items /\ r.campaign = q.campaign
  <2>1. w \in Request /\ w.at = "jobs" /\ w.n = q.n + 1 /\ w.items = q.items /\ w.campaign = q.campaign
    BY <1>1, <1>2 DEF Request
  <2>2. QED
    <3> HIDE DEF w
    <3>1. QED
      BY <2>1
<1>4. req' = [req EXCEPT ![c] = r]
  BY <1>1, <1>3
<1>5. RequestOK(q)'
  BY <1>2, RequestStays
<1>6. q.at = "jobs" /\ q.n \in Nat /\ q.n <= Len(q.items)
  BY <1>1, <1>2 DEF Request
<1>7. RequestOK(r)'
  <2>1. /\ Known(r.items)' /\ r.campaign \in Campaigns /\ campaign'[r.campaign] # None /\ r.n > 0
    BY <1>3, <1>5, <1>6 DEF RequestOK
  <2>2. ASSUME IsRow(campaign[q.campaign])', NEW n \in DOMAIN q.items, n < q.n + 1
        PROVE  Cause(q.campaign, n, q.items[n].account)'
    <3>1. DOMAIN q.items \subseteq Nat
      BY <1>5, <1>6 DEF RequestOK, Known
    <3>2. CASE n < q.n
      BY <1>5, <1>6, <2>2, <3>2 DEF RequestOK
    <3>3. CASE n = q.n
      BY <2>2, <3>3
    <3>4. QED
      BY <1>6, <2>2, <3>1, <3>2, <3>3
  <2>3. QED
    BY <1>3, <2>1, <2>2 DEF RequestOK
<1>8. ASSUME NEW d \in Clients PROVE req'[d] = req[d] \/ RequestOK(req[d])'
  <2>1. CASE d # c
    BY <1>1, <1>4, <2>1
  <2>2. CASE d = c
    <3>1. req'[d] = r
      BY <1>1, <1>4, <2>2
    <3>2. QED
      BY <1>7, <3>1 DEF RequestOK
  <2>3. QED
    BY <2>1, <2>2
<1>9. QED
  BY <1>1, <1>4, <1>8

(* The item has its job, the insert failed, or a foreign key refused it.   *)
LEMMA InsertJobStep ==
  ASSUME PlanningInv, NEW c \in Clients, InsertJob(c) PROVE PlanningInv'
<1> USE DEF PlanningInv
<1>1. PICK q, k, n, i : q = req[c] /\ k = q.campaign /\ n = q.n /\ i = q.items[n]
  OBVIOUS
<1>2. req[c] \in Request /\ RequestOK(req[c]) /\ req[c].at = "jobs" /\ n <= Len(req[c].items)
  BY <1>1 DEF RequestsOK, PlanTypes, InsertJob
<1>3. k \in Campaigns /\ n \in Nat /\ campaign[k] # None /\ i \in PlanItem /\ account[i.account] # None
  <2>1. Known(req[c].items) /\ n \in Nat /\ n > 0
    BY <1>1, <1>2 DEF RequestOK, Request
  <2>2. n \in DOMAIN req[c].items
    BY <1>2, <2>1 DEF Known
  <2>3. QED
    BY <1>1, <1>2, <2>1, <2>2 DEF RequestOK, Known
<1>4. UNCHANGED <<account, group, campaign, crawled, listed, now, ops, edits, plans, behind, undone>>
      /\ req' = [req EXCEPT ![c].n = @ + 1]
  BY DEF InsertJob, PassOver
<1>5. CASE /\ \E j \in Jobs :
                /\ CreateJob(j, k, i)
                /\ origin' = [origin EXCEPT ![j] = <<k, n>>]
                /\ asked' = [asked EXCEPT ![j] = i]
           /\ UNCHANGED <<faults, failed>>
  <2>1. PICK j \in Jobs : /\ CreateJob(j, k, i)
                          /\ origin' = [origin EXCEPT ![j] = <<k, n>>]
                          /\ asked' = [asked EXCEPT ![j] = i]
    BY <1>5
  <2>2. PICK x \in JobRow : /\ job' = [job EXCEPT ![j] = x] /\ x.campaign = k /\ x.account = i.account
                            /\ \A g \in Fields : x[g] = i[g]
    <3> DEFINE w == [campaign |-> k, account |-> i.account, fb |-> i.fb,
                     when |-> i.when, auto |-> i.auto, anon |-> i.anon]
    <3>1. w \in JobRow
      BY <1>3 DEF JobRow, PlanItem
    <3>2. /\ w.campaign = k /\ w.account = i.account /\ \A g \in Fields : w[g] = i[g]
          /\ job' = [job EXCEPT ![j] = w]
      BY <2>1 DEF CreateJob, Fields, Flags
    <3>3. QED
      <4> HIDE DEF w
      <4>1. QED
        BY <3>1, <3>2
  <2>3. job[j] = None /\ IsRow(campaign[k]) /\ IsRow(account[i.account])
    BY <2>1 DEF CreateJob
  <2>4. /\ IsRow(job'[j]) /\ job'[j] = x /\ origin'[j] = <<k, n>> /\ asked'[j] = i
        /\ \A h \in Jobs \ {j} : job'[h] = job[h] /\ origin'[h] = origin[h] /\ asked'[h] = asked[h]
    BY <2>1, <2>2, PlanningAssumption DEF PlanTypes, IsRow
  <2>5. Later
    BY <1>4, <1>5, <2>3, <2>4 DEF Later, IsRow
  <2>6. Cause(k, n, i.account)'
    BY <2>2, <2>4 DEF Cause, IsRow
  <2>7. req' \in [Clients -> Request] /\ \A d \in Clients : req'[d] = req[d] \/ RequestOK(req[d])'
    <3>1. IsRow(campaign[q.campaign])' => Cause(q.campaign, q.n, q.items[q.n].account)'
      BY <1>1, <2>6
    <3>2. QED
      BY <1>1, <1>2, <1>4, <2>5, <3>1, NextItem
  <2>8. PlanTypes'
    <3>1. job' \in [Jobs -> JobRow \cup {None, Gone}] /\ asked' \in [Jobs -> PlanItem \cup {None}]
          /\ origin' \in [Jobs -> (Campaigns \X Nat) \cup {None}]
      BY <1>3, <2>1, <2>2 DEF PlanTypes
    <3>2. QED
      BY <1>4, <2>7, <3>1 DEF PlanTypes
  <2>9. Bounded' /\ GroupsOK' /\ ListsOK'
    BY <1>4, <1>5, <2>3, <2>4 DEF Bounded, GroupsOK, ListsOK, IsRow
  <2>10. JobsOK'
    <3>1. <<k, n>> # None
      BY <1>3, PlanningAssumption
    <3>2. ASSUME NEW h \in Jobs PROVE
             /\ job'[h] # None => asked'[h] \in PlanItem /\ origin'[h] # None
             /\ IsRow(job'[h]) =>
                  /\ IsRow(campaign[job'[h].campaign]) /\ IsRow(account[job'[h].account])
                  /\ \A g \in Fields : job'[h][g] # asked'[h][g] => <<h, g>> \in undone
      <4>1. CASE h = j
        <5>1. \A g \in Fields : job'[j][g] = asked'[j][g]
          BY <2>2, <2>4
        <5>2. job'[j].campaign = k /\ job'[j].account = i.account
          BY <2>2, <2>4
        <5>3. QED
          BY <1>3, <2>3, <2>4, <3>1, <4>1, <5>1, <5>2
      <4>2. CASE h # j
        BY <2>4, <4>2 DEF JobsOK
      <4>3. QED
        BY <4>1, <4>2
    <3>3. QED
      BY <1>4, <3>2 DEF JobsOK, IsRow
  <2>11. QED
    BY <1>4, <2>5, <2>7, <2>8, <2>9, <2>10, TableStep
<1>6. CASE /\ \/ Fault
              \/ ~(IsRow(campaign[k]) /\ IsRow(account[i.account])) /\ UNCHANGED faults
           /\ failed' = IF faults' > faults THEN failed \cup {<<k, n>>} ELSE failed
           /\ UNCHANGED <<job, origin, asked>>
  <2>1. Bounded' /\ failed \subseteq failed'
    BY <1>4, <1>6, PlanningAssumption DEF Bounded, Fault
  <2>2. Later /\ GroupsOK' /\ ListsOK' /\ JobsOK'
    BY <1>4, <1>6, <2>1 DEF Later, GroupsOK, ListsOK, JobsOK, IsRow
  <2>3. IsRow(campaign[k])' => Cause(k, n, i.account)'
    <3>1. CASE Fault
      <4>1. faults' > faults
        BY <3>1 DEF Fault, Bounded
      <4>2. <<k, n>> \in failed'
        BY <1>6, <4>1
      <4>3. QED
        BY <4>2 DEF Cause
    <3>2. CASE ~(IsRow(campaign[k]) /\ IsRow(account[i.account]))
      BY <1>3, <1>4, <3>2 DEF Cause, IsRow
    <3>3. QED
      BY <1>6, <3>1, <3>2
  <2>4. req' \in [Clients -> Request] /\ \A d \in Clients : req'[d] = req[d] \/ RequestOK(req[d])'
    <3>1. IsRow(campaign[q.campaign])' => Cause(q.campaign, q.n, q.items[q.n].account)'
      BY <1>1, <2>3
    <3>2. QED
      BY <1>1, <1>2, <1>4, <2>2, <3>1, NextItem
  <2>5. PlanTypes'
    BY <1>4, <1>6, <2>4 DEF PlanTypes
  <2>6. QED
    BY <1>4, <2>1, <2>2, <2>4, <2>5, TableStep
<1>7. QED
  BY <1>1, <1>5, <1>6 DEF InsertJob, PassOver

(* Every item has had its turn.                                            *)
LEMMA AnswerPlanStep ==
  ASSUME PlanningInv, NEW c \in Clients, AnswerPlan(c) PROVE PlanningInv'
<1> USE DEF PlanningInv
<1>1. PICK k, items : k = req[c].campaign /\ items = req[c].items
  OBVIOUS
<1>2. /\ req[c] \in Request /\ RequestOK(req[c]) /\ req[c].at = "jobs" /\ req[c].n > Len(items)
      /\ plans' = [plans EXCEPT ![k] = items] /\ req' = [req EXCEPT ![c] = Idle]
      /\ UNCHANGED <<account, group, campaign, job, crawled, listed, origin, failed, asked, behind, undone>>
      /\ Bounded'
  BY <1>1 DEF RequestsOK, PlanTypes, AnswerPlan, Answer, tables, bounds, editHist, Bounded
<1>3. Known(items) /\ k \in Campaigns /\ campaign[k] # None
  BY <1>1, <1>2 DEF RequestOK
<1>4. IsRow(campaign[k]) => \A n \in DOMAIN items : Cause(k, n, items[n].account)
  <2>1. \A n \in DOMAIN items : n < req[c].n
    BY <1>2, <1>3 DEF Known, Request
  <2>2. QED
    BY <1>1, <1>2, <2>1 DEF RequestOK
<1>5. PlanTypes'
  BY <1>2, <1>3, IdleIsOK DEF PlanTypes, Known
<1>6. GroupsOK' /\ JobsOK' /\ ListsOK' /\ Later
  BY <1>2 DEF GroupsOK, JobsOK, ListsOK, Later, IsRow
<1>7. PlansOK'
  <2>1. ASSUME NEW h \in Campaigns, plans'[h] # None
        PROVE  /\ campaign[h] # None
               /\ IsRow(campaign[h]) => \A n \in DOMAIN plans'[h] : Cause(h, n, plans'[h][n].account)
    <3>1. CASE h = k
      <4>1. plans'[h] = items
        BY <1>2, <1>3, <3>1 DEF PlanTypes
      <4>2. QED
        BY <1>3, <1>4, <3>1, <4>1
    <3>2. CASE h # k
      <4>1. plans'[h] = plans[h]
        BY <1>2, <3>2 DEF PlanTypes
      <4>2. QED
        BY <2>1, <4>1 DEF PlansOK
    <3>3. QED
      BY <3>1, <3>2
  <2>2. QED
    BY <1>2, <2>1 DEF PlansOK, Cause, IsRow
<1>8. RequestsOK'
  <2>1. ASSUME NEW d \in Clients PROVE RequestOK(req[d])'
    <3>1. PICK r : r = req'[d]
      OBVIOUS
    <3>2. RequestOK(r)
      BY <1>2, <3>1, IdleIsOK DEF PlanTypes, RequestsOK
    <3>3. RequestOK(r)'
      BY <1>6, <3>2, RequestStays
    <3>4. QED
      BY <3>1, <3>3 DEF RequestOK
  <2>2. QED
    BY <2>1 DEF RequestsOK
<1>9. QED
  BY <1>2, <1>5, <1>6, <1>7, <1>8

-----------------------------------------------------------------------------
(* A view that is read shows what was asked for.                           *)
LEMMA ListQueueStep ==
  ASSUME PlanningInv, NEW c \in Clients, ListQueue(c) PROVE PlanningInv'
<1> USE DEF PlanningInv
<1>1. listed' = [listed EXCEPT ![c] = ListAllJobs] /\ behind' = [behind EXCEPT ![c] = {}]
      /\ UNCHANGED <<account, group, campaign, job, crawled, req, plans, origin, failed, asked, undone>>
      /\ Bounded'
  BY DEF ListQueue, tables, bounds, planHist, Bounded
<1>2. \A j \in Jobs : ListAllJobs[j] # None => ListAllJobs[j] = job[j] /\ IsRow(job[j])
  BY DEF ListAllJobs
<1>3. ListAllJobs \in [Jobs -> JobRow \cup {None}]
  BY DEF ListAllJobs, PlanTypes, IsRow
<1>4. PlanTypes'
  BY <1>1, <1>3 DEF PlanTypes
<1>5. GroupsOK' /\ JobsOK' /\ Later
  BY <1>1 DEF GroupsOK, JobsOK, Later, IsRow
<1>6. ListsOK'
  <2>1. ASSUME NEW d \in Clients, NEW j \in Jobs, listed'[d][j] # None
        PROVE  /\ job'[j] # None
               /\ \A g \in Fields : listed'[d][j][g] # asked'[j][g] => <<j, g>> \in undone' \cup behind'[d]
    <3>1. CASE d = c
      <4>1. listed'[d][j] = job[j] /\ IsRow(job[j])
        BY <1>1, <1>2, <2>1, <3>1 DEF PlanTypes
      <4>2. QED
        BY <1>1, <4>1 DEF JobsOK, IsRow
    <3>2. CASE d # c
      <4>1. listed'[d] = listed[d] /\ behind'[d] = behind[d]
        BY <1>1, <3>2 DEF PlanTypes
      <4>2. QED
        BY <1>1, <2>1, <4>1 DEF ListsOK
    <3>3. QED
      BY <3>1, <3>2
  <2>2. QED
    BY <2>1 DEF ListsOK
<1>7. QED
  BY <1>1, <1>4, <1>5, <1>6, TableStep

(* A job is rewritten in place: its time and its flags.                    *)
LEMMA RewrittenJob ==
  ASSUME PlanTypes, NEW j \in Jobs, NEW t \in Nat \cup {None}, NEW f, f.auto \in BOOLEAN, f.anon \in BOOLEAN,
         UpdateJob(j, t, f)
  PROVE  /\ job' \in [Jobs -> JobRow \cup {None, Gone}]
         /\ \A h \in Jobs \ {j} : job'[h] = job[h]
         /\ ~IsRow(job[j]) => job'[j] = job[j]
         /\ IsRow(job[j]) => /\ job'[j] \in JobRow
                             /\ job'[j].campaign = job[j].campaign /\ job'[j].account = job[j].account
                             /\ job'[j].when = t /\ job'[j].auto = f.auto /\ job'[j].anon = f.anon
<1>1. CASE IsRow(job[j])
  <2> DEFINE w == [job[j] EXCEPT !.when = t, !.auto = f.auto, !.anon = f.anon]
  <2>1. job[j] \in JobRow /\ job \in [Jobs -> JobRow \cup {None, Gone}]
    BY <1>1 DEF PlanTypes, IsRow
  <2>2. /\ w \in JobRow /\ w.campaign = job[j].campaign /\ w.account = job[j].account
        /\ w.when = t /\ w.auto = f.auto /\ w.anon = f.anon
    BY <2>1 DEF JobRow
  <2>3. job' = [job EXCEPT ![j] = w]
    BY <1>1, <2>1 DEF UpdateJob
  <2>4. QED
    <3> HIDE DEF w
    <3>1. QED
      BY <1>1, <2>1, <2>2, <2>3
<1>2. CASE ~IsRow(job[j])
  BY <1>2 DEF PlanTypes, UpdateJob
<1>3. QED
  BY <1>1, <1>2

(* An edit that writes field g of a job as asked, and over some others.    *)
Edited(j, g, over, i) ==
  /\ AskedFor(j, g, over) /\ asked' = [asked EXCEPT ![j] = i]
  /\ UNCHANGED <<account, group, campaign, crawled, listed, req, plans, origin, failed>>
  /\ job[j] # None /\ job'[j] # None /\ (IsRow(job'[j]) <=> IsRow(job[j]))
  /\ job' \in [Jobs -> JobRow \cup {None, Gone}] /\ \A h \in Jobs \ {j} : job'[h] = job[h]
  /\ IsRow(job[j]) => job'[j].campaign = job[j].campaign /\ job'[j].account = job[j].account
  /\ \A x \in Fields \ {g} : i[x] = asked[j][x]
  /\ IsRow(job[j]) => /\ job'[j][g] = i[g]
                      /\ \A x \in Fields \ {g} : job'[j][x] # asked[j][x] => <<j, x>> \in undone \cup over

(* Such an edit leaves the job as asked but for what it wrote over, and    *)
(* all views behind on g.                                                  *)
LEMMA EditStep ==
  ASSUME PlanningInv, Bounded', NEW j \in Jobs, NEW g \in Fields, NEW over, NEW i \in PlanItem, Edited(j, g, over, i)
  PROVE  PlanningInv'
<1>0. /\ AskedFor(j, g, over) /\ asked' = [asked EXCEPT ![j] = i]
      /\ UNCHANGED <<account, group, campaign, crawled, listed, req, plans, origin, failed>>
      /\ job[j] # None /\ job'[j] # None /\ (IsRow(job'[j]) <=> IsRow(job[j]))
      /\ job' \in [Jobs -> JobRow \cup {None, Gone}] /\ \A h \in Jobs \ {j} : job'[h] = job[h]
      /\ IsRow(job[j]) => job'[j].campaign = job[j].campaign /\ job'[j].account = job[j].account
      /\ \A x \in Fields \ {g} : i[x] = asked[j][x]
      /\ IsRow(job[j]) => /\ job'[j][g] = i[g]
                          /\ \A x \in Fields \ {g} : job'[j][x] # asked[j][x] => <<j, x>> \in undone \cup over
  BY DEF Edited
<1> USE <1>0
<1> USE DEF PlanningInv
<1>1. /\ behind' = [c \in Clients |-> behind[c] \cup {<<j, g>>}]
      /\ undone' = (undone \cup over) \ {<<j, g>>}
  BY DEF AskedFor
<1>2. asked'[j] = i /\ asked' \in [Jobs -> PlanItem \cup {None}] /\ \A h \in Jobs \ {j} : asked'[h] = asked[h]
  BY DEF PlanTypes
<1>3. \A h \in Jobs, x \in Fields : <<h, x>> \in undone \cup over => <<h, x>> \in undone' \/ (h = j /\ x = g)
  BY <1>1
<1>4. PlanTypes'
  BY <1>1, <1>2 DEF PlanTypes
<1>5. Later /\ GroupsOK'
  BY DEF Later, GroupsOK, IsRow
<1>6. ASSUME NEW h \in Jobs PROVE
         /\ job'[h] # None => asked'[h] \in PlanItem /\ origin'[h] # None
         /\ IsRow(job'[h]) =>
              /\ IsRow(campaign'[job'[h].campaign]) /\ IsRow(account'[job'[h].account])
              /\ \A x \in Fields : job'[h][x] # asked'[h][x] => <<h, x>> \in undone'
  <2>1. CASE h = j
    BY <1>2, <1>3, <2>1 DEF JobsOK
  <2>2. CASE h # j
    BY <1>2, <1>3, <2>2 DEF JobsOK
  <2>3. QED
    BY <2>1, <2>2
<1>7. JobsOK'
  BY <1>6 DEF JobsOK, IsRow
<1>8. ASSUME NEW c \in Clients, NEW h \in Jobs, listed[c][h] # None
      PROVE  /\ job'[h] # None
             /\ \A x \in Fields : listed[c][h][x] # asked'[h][x] => <<h, x>> \in undone' \cup behind'[c]
  <2>1. behind[c] \cup {<<j, g>>} \subseteq behind'[c]
    BY <1>1
  <2>2. CASE h = j
    BY <1>2, <1>3, <1>8, <2>1, <2>2 DEF ListsOK
  <2>3. CASE h # j
    BY <1>2, <1>3, <1>8, <2>1, <2>3 DEF ListsOK
  <2>4. QED
    BY <2>2, <2>3
<1>9. ListsOK'
  BY <1>8 DEF ListsOK
<1>10. QED
  BY <1>4, <1>5, <1>7, <1>9, TableStep

(* The new time is the one asked for; the flags are written over.          *)
LEMMA RescheduleJobStep ==
  ASSUME PlanningInv, NEW j \in Jobs, NEW t \in 0 .. MaxTime, RescheduleJob(j, t) PROVE PlanningInv'
<1> DEFINE off == [auto |-> FALSE, anon |-> FALSE]
<1>1. /\ IsRow(job[j]) /\ UpdateJob(j, t, off) /\ Bounded' /\ AskedFor(j, "when", {j} \X Flags)
      /\ UNCHANGED <<account, group, campaign, crawled, listed, req, plans, origin, failed>>
      /\ asked' = [asked EXCEPT ![j].when = t]
  BY PlanningAssumption DEF RescheduleJob, Edit, Bounded, requests, planHist, PlanningInv
<1>2. /\ job' \in [Jobs -> JobRow \cup {None, Gone}] /\ \A h \in Jobs \ {j} : job'[h] = job[h]
      /\ job'[j] \in JobRow /\ job'[j].campaign = job[j].campaign /\ job'[j].account = job[j].account
      /\ job'[j].when = t
  <2>1. t \in Nat \cup {None} /\ off.auto \in BOOLEAN /\ off.anon \in BOOLEAN
    BY PlanningAssumption
  <2>2. QED
    <3> HIDE DEF off
    <3>1. QED
      BY <1>1, <2>1, RewrittenJob DEF PlanningInv
<1>3. asked[j] \in PlanItem
  BY <1>1 DEF JobsOK, IsRow, PlanningInv
<1>4. PICK i \in PlanItem : /\ i.when = t /\ asked' = [asked EXCEPT ![j] = i]
                            /\ \A x \in Fields \ {"when"} : i[x] = asked[j][x]
  <2> DEFINE w == [asked[j] EXCEPT !.when = t]
  <2>1. w \in PlanItem /\ w.when = t /\ \A x \in Fields \ {"when"} : w[x] = asked[j][x]
    BY <1>3, PlanningAssumption DEF PlanItem, Fields, Flags
  <2>2. asked' = [asked EXCEPT ![j] = w]
    BY <1>1 DEF PlanTypes, PlanningInv
  <2>3. QED
    <3> HIDE DEF w
    <3>1. QED
      BY <2>1, <2>2
<1>5. IsRow(job'[j]) /\ job[j] # None /\ job'[j] # None
  BY <1>1, <1>2, PlanningAssumption DEF IsRow
<1> HIDE DEF off
<1>6. "when" \in Fields /\ \A x \in Fields \ {"when"} : <<j, x>> \in {j} \X Flags
  BY DEF Fields
<1>7. Edited(j, "when", {j} \X Flags, i)
  BY <1>1, <1>2, <1>4, <1>5, <1>6 DEF Edited
<1>8. QED
  BY <1>1, <1>6, <1>7, EditStep

(* The clicked flag is the one asked for; the other flag and the time are  *)
(* those of the view, which are as asked unless the view is behind.        *)
LEMMA SetJobFlagsStep ==
  ASSUME PlanningInv, NEW c \in Clients, NEW j \in Jobs, NEW g \in Flags, NEW t, SetJobFlags(c, j, g, t)
  PROVE  PlanningInv'
<1> DEFINE shown == listed[c][j]
           clicked == [shown EXCEPT ![g] = ~@]
           over == (behind[c] \cap ({j} \X Fields)) \cup (IF t = shown.when THEN {} ELSE {<<j, "when">>})
<1>1. /\ shown # None /\ t \in {shown.when, None} /\ UpdateJob(j, t, clicked) /\ Bounded'
      /\ UNCHANGED <<account, group, campaign, crawled, listed, req, plans, origin, failed>>
      /\ asked' = [asked EXCEPT ![j][g] = clicked[g]] /\ AskedFor(j, g, over)
  BY PlanningAssumption DEF SetJobFlags, Edit, Bounded, requests, planHist, PlanningInv
<1>2. /\ shown \in JobRow /\ job[j] # None /\ asked[j] \in PlanItem
      /\ \A x \in Fields : shown[x] # asked[j][x] => <<j, x>> \in undone \cup behind[c]
  BY <1>1 DEF PlanningInv, PlanTypes, ListsOK, JobsOK
<1>3. /\ g \in Fields /\ g # "when" /\ t \in Nat \cup {None}
      /\ clicked.auto \in BOOLEAN /\ clicked.anon \in BOOLEAN /\ clicked[g] \in BOOLEAN
      /\ \A x \in Flags \ {g} : clicked[x] = shown[x]
  <2>1. g \in Fields /\ g # "when" /\ t \in Nat \cup {None}
    BY <1>1, <1>2 DEF JobRow, Fields, Flags
  <2>2. CASE g = "auto"
    BY <1>2, <2>1, <2>2 DEF JobRow, Flags
  <2>3. CASE g = "anon"
    BY <1>2, <2>1, <2>3 DEF JobRow, Flags
  <2>4. QED
    BY <2>2, <2>3 DEF Flags
<1> HIDE DEF clicked
<1>4. /\ job' \in [Jobs -> JobRow \cup {None, Gone}] /\ \A h \in Jobs \ {j} : job'[h] = job[h]
      /\ ~IsRow(job[j]) => job'[j] = job[j]
      /\ IsRow(job[j]) => /\ job'[j] \in JobRow
                          /\ job'[j].campaign = job[j].campaign /\ job'[j].account = job[j].account
                          /\ job'[j].when = t /\ job'[j].auto = clicked.auto /\ job'[j].anon = clicked.anon
  BY <1>1, <1>3, RewrittenJob DEF PlanningInv
<1>5. PICK i \in PlanItem : /\ i[g] = clicked[g] /\ asked' = [asked EXCEPT ![j] = i]
                            /\ \A x \in Fields \ {g} : i[x] = asked[j][x]
  <2> DEFINE w == [asked[j] EXCEPT ![g] = clicked[g]]
  <2>1. w \in PlanItem /\ w[g] = clicked[g] /\ \A x \in Fields \ {g} : w[x] = asked[j][x]
    <3>1. CASE g = "auto"
      BY <1>2, <1>3, <3>1 DEF PlanItem, Fields, Flags
    <3>2. CASE g = "anon"
      BY <1>2, <1>3, <3>2 DEF PlanItem, Fields, Flags
    <3>3. QED
      BY <3>1, <3>2 DEF Flags
  <2>2. asked' = [asked EXCEPT ![j] = w]
    BY <1>1 DEF PlanTypes, PlanningInv
  <2>3. QED
    <3> HIDE DEF w
    <3>1. QED
      BY <2>1, <2>2
<1>6. job'[j] # None /\ (IsRow(job'[j]) <=> IsRow(job[j]))
  BY <1>2, <1>4, PlanningAssumption DEF IsRow
<1>7. ASSUME IsRow(job[j])
      PROVE  /\ job'[j][g] = i[g]
             /\ \A x \in Fields \ {g} : job'[j][x] # asked[j][x] => <<j, x>> \in undone \cup over
  <2>1. \A x \in Flags : job'[j][x] = clicked[x]
    BY <1>4, <1>7 DEF Flags
  <2>2. ASSUME NEW x \in Fields \ {g}, job'[j][x] # asked[j][x] PROVE <<j, x>> \in undone \cup over
    <3>1. CASE x = "when"
      BY <1>2, <1>4, <1>7, <2>2, <3>1
    <3>2. CASE x \in Flags
      BY <1>2, <1>3, <2>1, <2>2, <3>2
    <3>3. QED
      BY <2>2, <3>1, <3>2 DEF Fields
  <2>3. QED
    BY <1>5, <2>1, <2>2
<1> HIDE DEF over
<1>8. Edited(j, g, over, i)
  BY <1>1, <1>2, <1>4, <1>5, <1>6, <1>7 DEF Edited
<1>9. QED
  BY <1>1, <1>3, <1>8, EditStep

(* The clock, and nothing.                                                 *)
LEMMA IdleStep ==
  ASSUME PlanningInv, Tick \/ UNCHANGED vars PROVE PlanningInv'
<1> USE DEF PlanningInv
<1>1. /\ UNCHANGED <<account, group, campaign, job, crawled, listed, req, plans, origin, failed,
                     asked, behind, undone>>
      /\ Bounded'
  BY PlanningAssumption DEF Tick, vars, tables, requests, bounds, planHist, editHist, Bounded
<1>2. PlanTypes' /\ GroupsOK' /\ JobsOK' /\ ListsOK' /\ Later
  BY <1>1 DEF PlanTypes, GroupsOK, JobsOK, ListsOK, Later, IsRow
<1>3. QED
  BY <1>1, <1>2, TableStep

-----------------------------------------------------------------------------
(* The order of a crawl is total, and strict.                              *)
LEMMA SoonerIsAnOrder ==
  ASSUME NEW s \in Seq(Posts), NEW i \in DOMAIN s, NEW j \in DOMAIN s, NEW k \in DOMAIN s
  PROVE  /\ ~Sooner(s, i, i)
         /\ i # j => Sooner(s, i, j) \/ Sooner(s, j, i)
         /\ Sooner(s, i, j) /\ Sooner(s, j, k) => Sooner(s, i, k)
<1>1. i \in Nat /\ j \in Nat /\ k \in Nat /\ s[i] \in Posts /\ s[j] \in Posts /\ s[k] \in Posts
  OBVIOUS
<1>2. \A p \in Posts : PostedAt[p] = Never \/ PostedAt[p] \in Int
  BY CrawlAssumption
<1>3. QED
  BY <1>1, <1>2, CrawlAssumption DEF Sooner, Before, Dated

(* Some positions of a sequence, the last of them apart.                   *)
LEMMA LastOne ==
  ASSUME NEW s \in Seq(Posts)
  PROVE  \A n \in Nat : \A K \in SUBSET (DOMAIN s) :
           IsFiniteSet(K) /\ Cardinality(K) = n /\ K # {} =>
             \E m \in K : \A k \in K \ {m} : Sooner(s, k, m)
<1> DEFINE Has(K) == \E m \in K : \A k \in K \ {m} : Sooner(s, k, m)
           Bad == {n \in Nat : \E K \in SUBSET (DOMAIN s) : IsFiniteSet(K) /\ Cardinality(K) = n /\ K # {} /\ ~Has(K)}
<1>1. SUFFICES ASSUME Bad # {} PROVE FALSE
  OBVIOUS
<1>2. PICK n \in Bad : \A m \in Bad : n <= m
  <2>1. Bad \subseteq Nat
    OBVIOUS
  <2> HIDE DEF Bad
  <2>2. QED
    BY <1>1, <2>1, NatMin
<1>3. PICK K \in SUBSET (DOMAIN s) : IsFiniteSet(K) /\ Cardinality(K) = n /\ K # {} /\ ~Has(K)
  BY <1>2
<1>4. PICK x \in K : TRUE
  BY <1>3
<1>5. IsFiniteSet(K \ {x}) /\ Cardinality(K \ {x}) = n - 1 /\ n \in Nat
  BY <1>2, <1>3, FS_RemoveElement
<1>6. K \ {x} # {}
  BY <1>3, <1>4
<1>7. Has(K \ {x})
  <2>1. Cardinality(K \ {x}) \in Nat
    BY <1>5, FS_CardinalityType
  <2>2. n - 1 \in Nat /\ n - 1 \notin Bad
    <3>1. n - 1 \in Nat /\ ~(n <= n - 1)
      BY <1>5, <2>1
    <3>2. QED
      BY <1>2, <3>1
  <2> HIDE DEF Has
  <2>3. QED
    BY <1>3, <1>5, <1>6, <2>2
<1>8. PICK m \in K \ {x} : \A k \in (K \ {x}) \ {m} : Sooner(s, k, m)
  BY <1>7
<1>9. CASE Sooner(s, x, m)
  <2>1. \A k \in K \ {m} : Sooner(s, k, m)
    BY <1>8, <1>9
  <2>2. QED
    BY <1>3, <2>1
<1>10. CASE ~Sooner(s, x, m)
  <2>1. Sooner(s, m, x)
    BY <1>3, <1>8, <1>10, SoonerIsAnOrder
  <2>2. \A k \in K \ {x} : Sooner(s, k, x)
    <3>1. ASSUME NEW k \in K \ {x}, k # m PROVE Sooner(s, k, x)
      <4>1. Sooner(s, k, m)
        BY <1>8, <3>1
      <4>2. QED
        BY <1>3, <1>4, <1>8, <2>1, <4>1, SoonerIsAnOrder
    <3>2. QED
      BY <2>1, <3>1
  <2>3. QED
    BY <1>3, <2>2
<1>11. QED
  BY <1>9, <1>10

(* f has the positions K of s in order.                                    *)
Sorts(s, f, K) ==
  /\ f \in [1 .. Cardinality(K) -> K]
  /\ \A i, j \in DOMAIN f : i < j => Sooner(s, f[i], f[j])

(* Some positions of a sequence can be put in order.                       *)
LEMMA CanBeSorted ==
  ASSUME NEW s \in Seq(Posts)
  PROVE  \A n \in Nat : \A K \in SUBSET (DOMAIN s) :
           IsFiniteSet(K) /\ Cardinality(K) = n => \E f : Sorts(s, f, K)
<1> DEFINE Has(K) == \E f : Sorts(s, f, K)
           Bad == {n \in Nat : \E K \in SUBSET (DOMAIN s) : IsFiniteSet(K) /\ Cardinality(K) = n /\ ~Has(K)}
<1>1. SUFFICES ASSUME Bad # {} PROVE FALSE
  OBVIOUS
<1>2. PICK n \in Bad : \A m \in Bad : n <= m
  <2>1. Bad \subseteq Nat
    OBVIOUS
  <2> HIDE DEF Bad
  <2>2. QED
    BY <1>1, <2>1, NatMin
<1>3. PICK K \in SUBSET (DOMAIN s) : IsFiniteSet(K) /\ Cardinality(K) = n /\ ~Has(K)
  BY <1>2
<1>4. n \in Nat /\ n > 0 /\ K # {}
  <2>1. ASSUME n = 0 PROVE FALSE
    <3> DEFINE f == [i \in 1 .. 0 |-> 0]
    <3>1. f \in [1 .. 0 -> K] /\ DOMAIN f = {}
      OBVIOUS
    <3>2. Sorts(s, f, K)
      BY <1>3, <2>1, <3>1 DEF Sorts
    <3>3. QED
      BY <1>3, <3>2
  <2>2. n \in Nat
    BY <1>2
  <2>3. QED
    BY <1>3, <2>1, <2>2, FS_EmptySet
<1>5. PICK m \in K : \A k \in K \ {m} : Sooner(s, k, m)
  BY <1>3, <1>4, LastOne
<1>6. IsFiniteSet(K \ {m}) /\ Cardinality(K \ {m}) = n - 1
  BY <1>3, FS_RemoveElement
<1>7. PICK f : Sorts(s, f, K \ {m})
  <2>1. n - 1 \in Nat /\ n - 1 \notin Bad
    BY <1>2, <1>4
  <2>2. Has(K \ {m})
    <3> HIDE DEF Has
    <3>1. QED
      BY <1>3, <1>6, <2>1
  <2>3. QED
    BY <2>2
<1> DEFINE g == [i \in 1 .. n |-> IF i = n THEN m ELSE f[i]]
<1>8. f \in [1 .. n - 1 -> K \ {m}] /\ \A i, j \in 1 .. n - 1 : i < j => Sooner(s, f[i], f[j])
  BY <1>6, <1>7 DEF Sorts
<1>9. g \in [1 .. n -> K]
  BY <1>4, <1>8
<1>10. ASSUME NEW i \in 1 .. n, NEW j \in 1 .. n, i < j PROVE Sooner(s, g[i], g[j])
  <2>1. i \in 1 .. n - 1 /\ g[i] = f[i]
    BY <1>4, <1>10
  <2>2. CASE j = n
    <3>1. f[i] \in K \ {m} /\ g[j] = m
      BY <1>8, <2>1, <2>2
    <3>2. QED
      BY <1>5, <2>1, <3>1
  <2>3. CASE j # n
    <3>1. j \in 1 .. n - 1 /\ g[j] = f[j]
      BY <1>4, <2>3
    <3>2. QED
      BY <1>8, <1>10, <2>1, <3>1
  <2>4. QED
    BY <2>2, <2>3
<1>11. Sorts(s, g, K)
  <2>1. DOMAIN g = 1 .. n
    OBVIOUS
  <2> HIDE DEF g
  <2>2. QED
    BY <1>3, <1>9, <1>10, <2>1 DEF Sorts
<1>12. QED
  BY <1>3, <1>11

(* What a crawl sorts: all of the posts kept, each in its place.           *)
LEMMA SortedPosts ==
  ASSUME NEW s \in Seq(Posts), NEW K \in SUBSET (DOMAIN s)
  PROVE  /\ Cardinality(K) \in 0 .. Len(s)
         /\ K = DOMAIN s => Cardinality(K) = Len(s)
         /\ \E f \in [1 .. Cardinality(K) -> K] :
              /\ StableSort(s, K) = [n \in 1 .. Cardinality(K) |-> s[f[n]]]
              /\ \A i, j \in 1 .. Cardinality(K) : i < j => Sooner(s, f[i], f[j]) /\ f[i] # f[j]
              /\ \A k \in K : \E i \in 1 .. Cardinality(K) : f[i] = k
<1>1. Len(s) \in Nat /\ DOMAIN s = 1 .. Len(s)
  OBVIOUS
<1>2. IsFiniteSet(DOMAIN s) /\ Cardinality(DOMAIN s) = Len(s)
  <2>1. PICK l \in Nat : l = Len(s) /\ DOMAIN s = 1 .. l
    BY <1>1
  <2>2. IsFiniteSet(1 .. l) /\ Cardinality(1 .. l) = l
    BY FS_Interval
  <2>3. QED
    BY <2>1, <2>2
<1>3. IsFiniteSet(K) /\ Cardinality(K) <= Len(s) /\ Cardinality(K) \in Nat
  BY <1>2, FS_Subset, FS_CardinalityType
<1>4. PICK N \in Nat : N = Cardinality(K)
  BY <1>3
<1>5. \E f : Sorts(s, f, K)
  BY <1>3, CanBeSorted
<1> DEFINE f == CHOOSE g \in [1 .. Cardinality(K) -> K] : \A i, j \in DOMAIN g : i < j => Sooner(s, g[i], g[j])
<1>6. Sorts(s, f, K)
  <2>1. \E g \in [1 .. Cardinality(K) -> K] : \A i, j \in DOMAIN g : i < j => Sooner(s, g[i], g[j])
    BY <1>5 DEF Sorts
  <2>2. f \in [1 .. Cardinality(K) -> K] /\ \A i, j \in DOMAIN f : i < j => Sooner(s, f[i], f[j])
    BY <2>1, Zenon
  <2>3. QED
    BY <2>2 DEF Sorts
<1>7. StableSort(s, K) = [n \in 1 .. Cardinality(K) |-> s[f[n]]]
  BY Zenon DEF StableSort
<1> HIDE DEF f
<1>8. f \in [1 .. N -> K] /\ \A i, j \in 1 .. N : i < j => Sooner(s, f[i], f[j])
  BY <1>4, <1>6 DEF Sorts
<1>9. \A i, j \in 1 .. N : i < j => f[i] # f[j]
  <2>1. ASSUME NEW i \in 1 .. N, NEW j \in 1 .. N, i < j PROVE f[i] # f[j]
    <3>1. Sooner(s, f[i], f[j]) /\ f[i] \in DOMAIN s /\ f[j] \in DOMAIN s
      BY <1>8, <2>1
    <3>2. ~Sooner(s, f[i], f[i])
      BY <3>1, SoonerIsAnOrder
    <3>3. QED
      BY <3>1, <3>2
  <2>2. QED
    BY <2>1
<1>10. f \in Surjection(1 .. N, K)
  <2>1. f \in Injection(1 .. N, K)
    BY <1>8, <1>9 DEF Injection, IsInjective
  <2>2. Cardinality(1 .. N) = N
    BY FS_Interval
  <2>3. QED
    BY <1>3, <1>4, <2>1, <2>2, FS_Injection
<1>11. \A k \in K : \E i \in 1 .. N : f[i] = k
  BY <1>10 DEF Surjection
<1>12. f \in [1 .. Cardinality(K) -> K]
  BY <1>4, <1>8
<1>13. \A i, j \in 1 .. Cardinality(K) : i < j => Sooner(s, f[i], f[j]) /\ f[i] # f[j]
  BY <1>4, <1>8, <1>9
<1>14. \A k \in K : \E i \in 1 .. Cardinality(K) : f[i] = k
  BY <1>4, <1>11
<1>15. \E g \in [1 .. Cardinality(K) -> K] :
         /\ StableSort(s, K) = [n \in 1 .. Cardinality(K) |-> s[g[n]]]
         /\ \A i, j \in 1 .. Cardinality(K) : i < j => Sooner(s, g[i], g[j]) /\ g[i] # g[j]
         /\ \A k \in K : \E i \in 1 .. Cardinality(K) : g[i] = k
  BY <1>7, <1>12, <1>13, <1>14, Zenon
<1>16. Cardinality(K) \in 0 .. Len(s) /\ (K = DOMAIN s => Cardinality(K) = Len(s))
  BY <1>1, <1>2, <1>3
<1>17. QED
  BY <1>15, <1>16, Zenon

(* Take keeps the first posts, all of them or as many as were asked for.   *)
LEMMA FirstOfThem ==
  ASSUME NEW t \in Seq(Posts), NEW limit \in Int
  PROVE  /\ Take(t, limit) \in Seq(Posts)
         /\ Len(Take(t, limit)) <= Len(t)
         /\ Take(t, limit) = SubSeq(t, 1, Len(Take(t, limit)))
         /\ \A i \in 1 .. Len(Take(t, limit)) : Take(t, limit)[i] = t[i]
         /\ limit > 0 => Len(Take(t, limit)) <= limit
         /\ Len(Take(t, limit)) = Len(t) \/ (limit > 0 /\ Len(Take(t, limit)) = limit)
<1>1. CASE limit > 0 /\ Len(t) > limit
  <2>1. Take(t, limit) = SubSeq(t, 1, limit)
    BY <1>1 DEF Take
  <2>2. SubSeq(t, 1, limit) \in Seq(Posts) /\ Len(SubSeq(t, 1, limit)) = limit
        /\ \A i \in 1 .. limit : SubSeq(t, 1, limit)[i] = t[i]
    BY <1>1
  <2>3. QED
    BY <1>1, <2>1, <2>2
<1>2. CASE ~(limit > 0 /\ Len(t) > limit)
  <2>1. Take(t, limit) = t
    BY <1>2 DEF Take
  <2>2. t = SubSeq(t, 1, Len(t))
    OBVIOUS
  <2>3. QED
    BY <1>2, <2>1, <2>2
<1>3. QED
  BY <1>1, <1>2

(* Sooner means newer, or not older, and dated ones first.                 *)
LEMMA SoonerIsNewer ==
  ASSUME NEW s \in Seq(Posts), NEW i \in DOMAIN s, NEW j \in DOMAIN s, Sooner(s, i, j)
  PROVE  /\ s[i] \in Posts /\ s[j] \in Posts
         /\ PostedAt[s[j]] # Never => PostedAt[s[i]] # Never /\ PostedAt[s[i]] >= PostedAt[s[j]]
<1>1. s[i] \in Posts /\ s[j] \in Posts
  OBVIOUS
<1>2. \A p \in Posts : PostedAt[p] = Never \/ PostedAt[p] \in Int
  BY CrawlAssumption
<1>3. QED
  BY <1>1, <1>2, CrawlAssumption DEF Sooner, Before, Dated

(* One cut answers a crawl; all posts are kept if none is too new.         *)
LEMMA CutAnswers ==
  ASSUME NEW s \in Seq(Posts), IsInjective(s), NEW limit \in Int, NEW until \in Int
  PROVE  /\ Cut(s, limit, until) \in Seq(Posts)
         /\ Answers(Cut(s, limit, until), s, limit, until)
         /\ (\A i \in DOMAIN s : ~NewerThan(s[i], until)) /\ (limit > 0 => Len(s) <= limit) =>
              Len(Cut(s, limit, until)) = Len(s)
<1>0. PICK K, u : K = {i \in DOMAIN s : ~NewerThan(s[i], until)} /\ u = StableSort(s, K)
  OBVIOUS
<1>1. PICK N \in Nat : N = Cardinality(K) /\ N <= Len(s) /\ (K = DOMAIN s => N = Len(s))
  <2>1. K \in SUBSET (DOMAIN s)
    BY <1>0
  <2>2. Cardinality(K) \in 0 .. Len(s) /\ (K = DOMAIN s => Cardinality(K) = Len(s)) /\ Len(s) \in Nat
    BY <2>1, SortedPosts
  <2>3. QED
    BY <2>2
<1>2. PICK f \in [1 .. N -> K] : /\ u = [n \in 1 .. N |-> s[f[n]]]
                                 /\ \A i, j \in 1 .. N : i < j => Sooner(s, f[i], f[j]) /\ f[i] # f[j]
                                 /\ \A k \in K : \E n \in 1 .. N : f[n] = k
  <2>1. K \in SUBSET (DOMAIN s)
    BY <1>0
  <2>2. PICK f \in [1 .. Cardinality(K) -> K] :
          /\ StableSort(s, K) = [n \in 1 .. Cardinality(K) |-> s[f[n]]]
          /\ \A i, j \in 1 .. Cardinality(K) : i < j => Sooner(s, f[i], f[j]) /\ f[i] # f[j]
          /\ \A k \in K : \E i \in 1 .. Cardinality(K) : f[i] = k
    BY <2>1, SortedPosts, Zenon
  <2>3. /\ f \in [1 .. N -> K] /\ u = [n \in 1 .. N |-> s[f[n]]]
        /\ \A i, j \in 1 .. N : i < j => Sooner(s, f[i], f[j]) /\ f[i] # f[j]
        /\ \A k \in K : \E n \in 1 .. N : f[n] = k
    BY <1>0, <1>1, <2>2, Zenon
  <2>4. QED
    BY <2>3, Zenon
<1>3. \A i \in 1 .. N : f[i] \in DOMAIN s /\ s[f[i]] \in Posts /\ ~NewerThan(s[f[i]], until)
  <2>1. \A k \in K : k \in DOMAIN s /\ s[k] \in Posts /\ ~NewerThan(s[k], until)
    BY <1>0
  <2>2. QED
    BY <1>2, <2>1
<1>4. u \in Seq(Posts) /\ Len(u) = N /\ \A i \in 1 .. N : u[i] = s[f[i]]
  BY <1>2, <1>3
<1>5. PICK t \in Seq(Posts) : t = Cut(s, limit, until) /\ t = Take(u, limit)
  BY <1>0, <1>4, FirstOfThem DEF Cut
<1>6. PICK M \in Nat : /\ M = Len(t) /\ DOMAIN t = 1 .. M /\ M <= N
                       /\ \A i \in 1 .. M : t[i] = s[f[i]] /\ i \in 1 .. N
                       /\ limit > 0 => M <= limit
                       /\ M = N \/ (limit > 0 /\ M = limit)
  <2>0. PICK l \in Nat : l = Len(t) /\ DOMAIN t = 1 .. l
    OBVIOUS
  <2>1. Len(t) \in Nat /\ DOMAIN t = 1 .. Len(t)
    BY <2>0
  <2>2. Len(t) <= N /\ (limit > 0 => Len(t) <= limit) /\ (Len(t) = N \/ (limit > 0 /\ Len(t) = limit))
    BY <1>4, <1>5, FirstOfThem
  <2>3. \A i \in 1 .. Len(t) : t[i] = s[f[i]] /\ i \in 1 .. N
    <3>1. \A i \in 1 .. Len(t) : t[i] = u[i]
      BY <1>4, <1>5, FirstOfThem
    <3>2. \A i \in 1 .. Len(t) : i \in 1 .. N
      <4>1. l <= N
        BY <2>0, <2>2
      <4>2. \A i \in 1 .. l : i \in 1 .. N
        BY <4>1
      <4>3. QED
        BY <2>0, <4>2
    <3>3. QED
      BY <1>4, <3>1, <3>2
  <2>4. QED
    BY <2>1, <2>2, <2>3
<1>7. IsInjective(t)
  <2>1. ASSUME NEW i \in 1 .. M, NEW j \in 1 .. M, i < j PROVE t[i] # t[j]
    <3>1. f[i] # f[j] /\ f[i] \in DOMAIN s /\ f[j] \in DOMAIN s /\ t[i] = s[f[i]] /\ t[j] = s[f[j]]
      BY <1>2, <1>3, <1>6, <2>1
    <3>2. QED
      BY <3>1 DEF IsInjective
  <2>2. QED
    BY <1>6, <2>1 DEF IsInjective
<1>8. ToSet(t) \subseteq ToSet(s)
  BY <1>3, <1>6 DEF ToSet
<1>9. \A p \in Posts : PostedAt[p] = Never \/ PostedAt[p] \in Int
  BY CrawlAssumption
<1>10. \A p \in ToSet(t) : PostedAt[p] = Never \/ PostedAt[p] <= until
  BY <1>3, <1>6, <1>9 DEF ToSet, NewerThan, Dated
<1>11. ASSUME NEW p \in ToSet(s) \ ToSet(t), PostedAt[p] = Never \/ ~(PostedAt[p] > until)
       PROVE  /\ Len(t) = limit
              /\ \A r \in ToSet(t) : PostedAt[r] = Never => PostedAt[p] = Never
              /\ PostedAt[p] # Never =>
                   \A r \in ToSet(t) : PostedAt[r] # Never => PostedAt[r] >= PostedAt[p]
  <2>1. PICK k \in DOMAIN s : p = s[k] /\ k \in K
    BY <1>0, <1>11 DEF ToSet, NewerThan, Dated
  <2>2. PICK i \in 1 .. N : f[i] = k
    BY <1>1, <1>2, <2>1
  <2>3. ~(i <= M)
    BY <1>6, <1>11, <2>1, <2>2 DEF ToSet
  <2>4. \A r \in ToSet(t) : \E j \in 1 .. M : r = s[f[j]]
    BY <1>6 DEF ToSet
  <2>5. ASSUME NEW r \in ToSet(t)
        PROVE  PostedAt[p] # Never => PostedAt[r] # Never /\ PostedAt[r] >= PostedAt[p]
    <3>1. PICK j \in 1 .. M : r = s[f[j]]
      BY <2>4
    <3>2. Sooner(s, f[j], k) /\ f[j] \in DOMAIN s
      BY <1>2, <1>3, <1>6, <2>2, <2>3, <3>1
    <3>3. QED
      BY <2>1, <3>1, <3>2, SoonerIsNewer
  <2>6. Len(t) = limit
    BY <1>6, <2>2, <2>3
  <2>7. QED
    BY <2>5, <2>6
<1>12. ASSUME NEW i \in 1 .. M, NEW j \in 1 .. M, i < j, PostedAt[t[j]] # Never
       PROVE  PostedAt[t[i]] # Never /\ PostedAt[t[i]] >= PostedAt[t[j]]
  <2>1. Sooner(s, f[i], f[j]) /\ f[i] \in DOMAIN s /\ f[j] \in DOMAIN s
    BY <1>2, <1>3, <1>6, <1>12
  <2>2. QED
    BY <1>6, <1>12, <2>1, SoonerIsNewer
<1>13. until # Never
  BY CrawlAssumption
<1>14. Answers(t, s, limit, until)
  BY <1>6, <1>7, <1>8, <1>10, <1>11, <1>12, <1>13 DEF Answers
<1>15. (\A i \in DOMAIN s : ~NewerThan(s[i], until)) /\ (limit > 0 => Len(s) <= limit) => Len(t) = Len(s)
  <2>1. (\A i \in DOMAIN s : ~NewerThan(s[i], until)) => K = DOMAIN s
    BY <1>0
  <2>2. QED
    BY <1>1, <1>6, <2>1
<1>16. QED
  BY <1>5, <1>14, <1>15

(* A crawl cuts twice, and answers what was asked for.                     *)
LEMMA CrawlAnswers ==
  ASSUME NEW s \in Seq(Posts), IsInjective(s), NEW limit \in Int, NEW until \in Untils
  PROVE  Answers(CrawlPageV2(s, limit, until), s, limit, until)
<1>1. CASE until = Never
  <2>1. PICK t \in Seq(Posts) : t = Take(s, limit)
    BY FirstOfThem
  <2>2. /\ Len(t) <= Len(s) /\ t = SubSeq(s, 1, Len(t)) /\ (limit > 0 => Len(t) <= limit)
        /\ Len(t) = Len(s) \/ Len(t) = limit
        /\ \A i \in 1 .. Len(t) : t[i] = s[i]
    BY <2>1, FirstOfThem
  <2>3. Take(t, limit) = t
    <3>1. Len(t) \in Int
      OBVIOUS
    <3>2. limit > 0 => Len(t) <= limit
      BY <2>2, Zenon
    <3>3. ~(limit > 0 /\ Len(t) > limit)
      BY <3>1, <3>2
    <3>4. QED
      BY <3>3, Zenon DEF Take
  <2>4. CrawlPageV2(s, limit, until) = t
    BY <1>1, <2>1, <2>3 DEF CrawlPageV2, ScrapePage, FilterAndLimitCrawledPosts
  <2>5. PICK l \in Nat, m \in Nat : l = Len(t) /\ m = Len(s) /\ DOMAIN t = 1 .. l /\ DOMAIN s = 1 .. m
    OBVIOUS
  <2>6. \A i \in 1 .. l : i \in 1 .. m /\ t[i] = s[i]
    <3>1. l <= m
      BY <2>2, <2>5
    <3>2. \A i \in 1 .. l : i \in 1 .. m
      BY <3>1
    <3>3. \A i \in 1 .. l : t[i] = s[i]
      BY <2>2, <2>5
    <3>4. QED
      BY <3>2, <3>3
  <2>7. IsInjective(t) /\ ToSet(t) \subseteq ToSet(s)
    BY <2>5, <2>6 DEF IsInjective, ToSet
  <2>8. QED
    BY <1>1, <2>2, <2>4, <2>7 DEF Answers
<1>2. CASE until # Never
  <2>1. until \in Int
    <3>1. ASSUME NEW day \in Days PROVE ParseUntilDate(day) \in Int
      <4>1. day \in Int /\ DayLength \in Int
        BY CrawlAssumption
      <4>2. QED
        BY <4>1 DEF ParseUntilDate
    <3>2. Times \subseteq Int
      BY CrawlAssumption
    <3>3. QED
      BY <1>2, <3>1, <3>2, Zenon DEF Untils
  <2>2. PICK t \in Seq(Posts) : t = Cut(s, limit, until) /\ Answers(t, s, limit, until)
    BY <2>1, CutAnswers
  <2>3. IsInjective(t) /\ (limit > 0 => Len(t) <= limit)
    BY <2>2 DEF Answers
  <2>4. \A i \in DOMAIN t : ~NewerThan(t[i], until)
    <3>1. ASSUME NEW i \in DOMAIN t PROVE ~NewerThan(t[i], until)
      <4>1. t[i] \in ToSet(t) /\ t[i] \in Posts
        BY DEF ToSet
      <4>2. PostedAt[t[i]] = Never \/ PostedAt[t[i]] <= until
        BY <1>2, <2>2, <4>1 DEF Answers
      <4>3. PostedAt[t[i]] = Never \/ PostedAt[t[i]] \in Int
        BY <4>1, CrawlAssumption
      <4>4. QED
        BY <2>1, <4>2, <4>3 DEF NewerThan, Dated
    <3>2. QED
      BY <3>1
  <2>5. PICK v \in Seq(Posts) : v = Cut(t, limit, until) /\ Answers(v, t, limit, until) /\ Len(v) = Len(t)
    BY <2>1, <2>3, <2>4, CutAnswers
  <2>6. CrawlPageV2(s, limit, until) = v
    BY <1>2, <2>2, <2>5 DEF CrawlPageV2, ScrapePage, FilterAndLimitCrawledPosts
  <2>7. ToSet(v) \subseteq ToSet(t) /\ ToSet(t) \subseteq ToSet(s)
    BY <2>2, <2>5 DEF Answers
  <2>8. ASSUME NEW p \in ToSet(s) \ ToSet(v)
        PROVE  \/ PostedAt[p] # Never /\ PostedAt[p] > until
               \/ /\ Len(v) = limit
                  /\ \A r \in ToSet(v) : PostedAt[r] = Never => PostedAt[p] = Never
                  /\ PostedAt[p] # Never =>
                       \A r \in ToSet(v) : PostedAt[r] # Never => PostedAt[r] >= PostedAt[p]
    <3>1. CASE p \in ToSet(t)
      BY <1>2, <2>5, <2>8, <3>1 DEF Answers
    <3>2. CASE p \notin ToSet(t)
      <4>1. \/ PostedAt[p] # Never /\ PostedAt[p] > until
            \/ /\ Len(t) = limit
               /\ \A r \in ToSet(t) : PostedAt[r] = Never => PostedAt[p] = Never
               /\ PostedAt[p] # Never =>
                    \A r \in ToSet(t) : PostedAt[r] # Never => PostedAt[r] >= PostedAt[p]
        BY <1>2, <2>2, <2>8, <3>2 DEF Answers
      <4>2. QED
        BY <2>5, <2>7, <4>1
    <3>3. QED
      BY <3>1, <3>2
  <2>9. Answers(v, s, limit, until)
    <3>1. /\ IsInjective(v) /\ (limit > 0 => Len(v) <= limit)
          /\ \A p \in ToSet(v) : PostedAt[p] = Never \/ PostedAt[p] <= until
          /\ \A i, j \in 1 .. Len(v) :
               i < j /\ PostedAt[v[j]] # Never => PostedAt[v[i]] # Never /\ PostedAt[v[i]] >= PostedAt[v[j]]
      BY <1>2, <2>5 DEF Answers
    <3>2. ToSet(v) \subseteq ToSet(s)
      BY <2>7
    <3>3. QED
      BY <1>2, <2>8, <3>1, <3>2 DEF Answers
  <2>10. QED
    BY <2>6, <2>9
<1>3. QED
  BY <1>1, <1>2

-----------------------------------------------------------------------------
(* Nobody has asked for anything.                                          *)
LEMMA InitialState == Init => PlanningInv
<1> SUFFICES ASSUME Init PROVE PlanningInv
  OBVIOUS
<1> USE DEF Init
<1>1. PlanTypes
  BY IdleIsOK DEF PlanTypes
<1>2. Bounded
  BY PlanningAssumption DEF Bounded
<1>3. GroupsOK /\ JobsOK /\ ListsOK /\ PlansOK
  BY DEF GroupsOK, JobsOK, ListsOK, PlansOK, IsRow
<1>4. RequestsOK
  BY IdleIsOK DEF RequestsOK
<1>5. QED
  BY <1>1, <1>2, <1>3, <1>4 DEF PlanningInv

(* Every step keeps the invariant.                                         *)
LEMMA EveryStep == PlanningInv /\ [Next]_vars => PlanningInv'
<1> SUFFICES ASSUME PlanningInv, [Next]_vars PROVE PlanningInv'
  OBVIOUS
<1>1. CASE Tables
  BY <1>1, AddAccountStep, DeleteAccountStep, CreateGroupStep, DeleteGroupStep, DeleteCampaignStep DEF Tables
<1>2. ASSUME NEW c \in Clients, Requests(c) PROVE PlanningInv'
  <2>1. CASE \E s \in Scrapes, limit \in Limits, until \in Untils : CrawlPage(c, s, limit, until)
    BY <2>1, CrawlPageStep
  <2>2. CASE \E items \in Plans : PlanRepost(c, items)
    <3>1. PICK items \in Plans : PlanRepost(c, items)
      BY <2>2
    <3>2. QED
      BY <3>1, BeginStep DEF PlanRepost
  <2>3. CASE \E t \in 0 .. MaxTime : CreateCampaign(c, t)
    <3>1. PICK t \in 0 .. MaxTime : CreateCampaign(c, t)
      BY <2>3
    <3>2. <<[when |-> t]>> \in Timed
      BY PlanningAssumption DEF Timed
    <3>3. QED
      BY <3>1, <3>2, BeginStep DEF CreateCampaign
  <2>4. CASE StorePost(c) \/ InsertCampaign(c) \/ ListAccounts(c) \/ ListActiveGroups(c)
    BY <2>4, StorePostStep, InsertCampaignStep, ListAccountsStep, ListActiveGroupsStep
  <2>5. CASE InsertJob(c) \/ AnswerPlan(c) \/ GiveUp(c) \/ ListQueue(c)
    BY <2>5, InsertJobStep, AnswerPlanStep, GiveUpStep, ListQueueStep
  <2>6. CASE \E j \in Jobs, g \in Flags, t \in (0 .. MaxTime) \cup {None} : SetJobFlags(c, j, g, t)
    BY <2>6, SetJobFlagsStep
  <2>7. QED
    BY <1>2, <2>1, <2>2, <2>3, <2>4, <2>5, <2>6 DEF Requests
<1>3. CASE \E j \in Jobs, t \in 0 .. MaxTime : RescheduleJob(j, t)
  BY <1>3, RescheduleJobStep
<1>4. CASE Tick \/ UNCHANGED vars
  BY <1>4, IdleStep
<1>5. QED
  BY <1>1, <1>2, <1>3, <1>4 DEF Next

(* The inductive invariant.                                                *)
LEMMA Invariant == Spec => []PlanningInv
  BY InitialState, EveryStep, PTL DEF Spec

-----------------------------------------------------------------------------
(* The tables have their types, and the foreign keys of jobs and groups    *)
(* hold: a job's campaign and account exist (repost.sql.go, CreateJob, and *)
(* the cascades of DeleteCampaign and DeleteAccount).                      *)
THEOREM TypeCorrect == Spec => []TypeOK
<1>1. PlanningInv => TypeOK
  BY DEF PlanningInv, PlanTypes, Bounded, GroupsOK, JobsOK, TypeOK, IsRow
<1>2. QED
  BY <1>1, Invariant, PTL

(* Time and flags of a job are those last asked for, each by itself, but   *)
(* for what a click sent along from a view that was behind or without a    *)
(* time, and for the flags that a reschedule clears (RescheduleJob,        *)
(* SetJobFlagsForJob).                                                     *)
THEOREM EditsAreKept == Spec => []JobsAsAsked
<1>1. PlanningInv => JobsAsAsked
  BY DEF PlanningInv, JobsOK, JobsAsAsked
<1>2. QED
  BY <1>1, Invariant, PTL

(* Each item of an answered plan has its job, unless its insert failed, or *)
(* the campaign or the account is gone (PlanRepost, CreateCampaign).       *)
THEOREM NoJobIsLost == Spec => []MissingJobsHaveACause
<1>1. PlanningInv => MissingJobsHaveACause
  BY DEF PlanningInv, PlansOK, Cause, MissingJobsHaveACause, IsRow
<1>2. QED
  BY <1>1, Invariant, PTL

(* A crawl answers the newest posts that are not newer than what was asked *)
(* for, newest first, undated ones last, whatever the order of the page    *)
(* in (FilterAndLimitCrawledPosts, and the filter of the sidecar).         *)
THEOREM CrawlsTakeNewest == Spec => []CrawlTakesNewest
<1>1. ASSUME PlanningInv, NEW c \in Clients, req[c].at = "store"
      PROVE  Answers(req[c].crawl.answer, req[c].crawl.shown, req[c].crawl.limit, req[c].crawl.until)
  <2>1. req[c].crawl \in Scans
    BY <1>1 DEF PlanningInv, RequestsOK, RequestOK
  <2>2. PICK s \in Scrapes, m \in Limits, u \in Untils :
          req[c].crawl = [shown |-> s, limit |-> m, until |-> u, answer |-> CrawlPageV2(s, m, u)]
    BY <2>1 DEF Scans
  <2>3. s \in Seq(Posts) /\ IsInjective(s) /\ m \in Int
    BY PlanningAssumption
  <2>4. Answers(CrawlPageV2(s, m, u), s, m, u)
    BY <2>3, CrawlAnswers
  <2>5. QED
    BY <2>2, <2>4
<1>2. PlanningInv => CrawlTakesNewest
  BY <1>1 DEF CrawlTakesNewest
<1>3. QED
  BY <1>2, Invariant, PTL
=============================================================================
