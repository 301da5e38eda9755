------------------------ MODULE CommentMonitorProofs ------------------------
(***************************************************************************)
(* Proofs about CommentMonitor, for any set of comments, whatever their    *)
(* texts are taken for, any number of workers and requests and any fault   *)
(* bounds.                                                                 *)
(***************************************************************************)
EXTENDS CommentMonitor, TLAPS

(* The statements are names for single reads and updates: every step may  *)
(* use them.                                                              *)
USE DEF GetComment, UpdateCommentLiked, UpdateCommentPrivateReply,
        MarkCommentProcessed, InsertReply, CommentLists

Steps == {"idle", "next", "get", "claim", "analyse", "like", "markLiked",
          "reply", "logReply", "pm", "markPM", "logPM", "finish"}

(* TypeOK, by the parts the actions write together.  A sweep that is not   *)
(* between two comments is at a stored one: without it TypeOK would not be *)
(* inductive.                                                              *)
SweepTypes ==
  /\ pc \in [Sweepers -> Steps]
  /\ cur \in [Sweepers -> Comments \cup {NoComment}]
  /\ todo \in [Sweepers -> SUBSET Comments]
  /\ sawLiked \in [Sweepers -> BOOLEAN]
  /\ sawPM \in [Sweepers -> BOOLEAN]
  /\ \A p \in Sweepers : cur[p] # NoComment <=> pc[p] \notin {"idle", "next"}

RowTypes ==
  /\ stored \subseteq Comments
  /\ liked \subseteq stored /\ pmSent \subseteq stored
  /\ processed \subseteq stored /\ analysed \subseteq stored
  /\ claimAge \in [Comments -> 0 .. ClaimTimeout + 1]
  /\ replyRows \subseteq stored \X {"reply", "pm"}
  /\ \A p \in Sweepers : cur[p] # NoComment => cur[p] \in stored

BoundTypes ==
  faults \in 0 .. MaxFaults /\ stops \in 0 .. MaxStops /\ likesByHand \in 0 .. MaxLikes

HistTypes ==
  /\ sent \subseteq stored \X Kinds
  /\ thisClaim \subseteq stored \X Kinds /\ twice \subseteq stored \X Kinds
  /\ byHand \subseteq stored

Types == SweepTypes /\ RowTypes /\ BoundTypes /\ HistTypes

LEMMA TypesGiveTypeOK == Types => TypeOK
  BY DEF Types, SweepTypes, RowTypes, BoundTypes, HistTypes, TypeOK, Steps

LEMMA BoundsKept ==
  ASSUME BoundTypes, Fault \/ UNCHANGED bounds PROVE BoundTypes'
  BY MonitorAssumption DEF BoundTypes, Fault, bounds

LEMMA GotoKeepsTypes ==
  ASSUME SweepTypes, NEW p \in Sweepers, cur[p] # NoComment,
         NEW s \in Steps \ {"idle", "next"}, Goto(p, s)
  PROVE  SweepTypes' /\ cur' = cur
  BY DEF SweepTypes, Goto

LEMMA ContinueKeepsTypes ==
  ASSUME SweepTypes, NEW p \in Sweepers, Continue(p)
  PROVE  SweepTypes' /\ \A q \in Sweepers : cur'[q] # NoComment => cur'[q] = cur[q]
  BY DEF SweepTypes, Continue, Steps

LEMMA ActKeepsTypes ==
  ASSUME Types, NEW p \in Sweepers, cur[p] # NoComment, NEW kind \in Kinds,
         NEW ok \in Steps \ {"idle", "next"}, NEW err \in Steps \ {"idle", "next"},
         Act(p, kind, ok, err)
  PROVE  Types'
<1> USE DEF Types
<1>1. PICK o \in Outcomes :
        /\ UNCHANGED bounds \/ Fault
        /\ Goto(p, StepAfter(o, ok, err))
        /\ sent' = IF o.applied THEN sent \cup {<<cur[p], kind>>} ELSE sent
  BY DEF Act
<1>2. SweepTypes' /\ cur' = cur
  BY <1>1, GotoKeepsTypes DEF StepAfter
<1>3. BoundTypes'
  BY <1>1, BoundsKept
<1>4. RowTypes'
  BY <1>2 DEF Act, RowTypes, rows, flags
<1>5. HistTypes'
  <2>1. cur[p] \in stored /\ stored' = stored
    BY DEF RowTypes, Act, rows
  <2>2. sent' \subseteq stored \X Kinds
    BY <1>1, <2>1 DEF HistTypes
  <2>3. thisClaim' \subseteq stored \X Kinds /\ twice' \subseteq stored \X Kinds
    BY <2>1 DEF HistTypes, Act
  <2>4. QED
    BY <2>1, <2>2, <2>3 DEF HistTypes, Act
<1>6. QED
  BY <1>2, <1>3, <1>4, <1>5

LEMMA SkipKeepsTypes ==
  ASSUME Types, NEW p \in Sweepers, cur[p] # NoComment,
         NEW s \in Steps \ {"idle", "next"}, Skip(p, s)
  PROVE  Types'
<1>1. SweepTypes' /\ cur' = cur
  BY GotoKeepsTypes DEF Types, Skip
<1>2. QED
  BY <1>1 DEF Types, Skip, RowTypes, BoundTypes, HistTypes, rows, flags, bounds, hist

LEMMA TypeInvariant == Spec => []Types
<1> USE MonitorAssumption
<1>1. Init => Types
  BY DEF Init, Types, SweepTypes, RowTypes, BoundTypes, HistTypes, Steps
<1>2. ASSUME Types, [Next]_vars PROVE Types'
  <2> USE <1>2 DEF Types
  <2>1. ASSUME NEW p \in Sweepers, Work(p) PROVE Types'
    <3> DEFINE c == cur[p]
    <3>0. /\ pc[p] \notin {"idle", "next"} => c \in stored /\ c \in Comments /\ c # NoComment
          /\ pc[p] \in Steps
      BY DEF SweepTypes, RowTypes
    <3>1. CASE EndSweep(p)
      <4>1. SweepTypes' /\ cur' = cur
        BY <3>1 DEF EndSweep, SweepTypes, Steps
      <4>2. QED
        BY <3>1, <4>1 DEF EndSweep, RowTypes, BoundTypes, HistTypes, rows, flags, bounds, hist
    <3>2. CASE UpsertNew(p)
      <4>1. PICK k \in todo[p] :
              /\ todo' = [todo EXCEPT ![p] = @ \ {k}]
              /\ \/ /\ stored' = stored \cup {k}
                    /\ liked' = liked \ {k}
                    /\ pmSent' = pmSent \ {k}
                    /\ processed' = processed \ {k}
                    /\ analysed' = analysed \ {k}
                    /\ pc' = [pc EXCEPT ![p] = "get"]
                    /\ cur' = [cur EXCEPT ![p] = k]
                    /\ UNCHANGED bounds
                 \/ Fault /\ UNCHANGED <<stored, flags, pc, cur>>
        BY <3>2 DEF UpsertNew, UpsertFails, ResetProcessed
      <4>2. k \in Comments /\ k # NoComment
        BY DEF SweepTypes
      <4>3. SweepTypes'
        BY <3>2, <4>1, <4>2 DEF UpsertNew, SweepTypes, Steps
      <4>4. stored \subseteq stored' /\ stored' \subseteq Comments
        BY <4>1, <4>2 DEF RowTypes
      <4>5. /\ liked' \subseteq stored' /\ pmSent' \subseteq stored'
            /\ processed' \subseteq stored' /\ analysed' \subseteq stored'
        BY <4>1, <4>4 DEF RowTypes, flags
      <4>6. \A q \in Sweepers : cur'[q] # NoComment => cur'[q] \in stored'
        BY <4>1, <4>4 DEF RowTypes, SweepTypes
      <4>7. RowTypes'
        BY <3>2, <4>4, <4>5, <4>6 DEF UpsertNew, RowTypes
      <4>8. BoundTypes'
        BY <4>1, BoundsKept
      <4>9. HistTypes'
        BY <3>2, <4>4 DEF UpsertNew, HistTypes, hist
      <4>10. QED
        BY <4>3, <4>7, <4>8, <4>9
    <3>3. CASE Get(p)
      <4>1. SweepTypes' /\ \A q \in Sweepers : cur'[q] # NoComment => cur'[q] = cur[q]
        <5>1. /\ todo' = todo
              /\ \/ /\ pc' = [pc EXCEPT ![p] = "next"]
                    /\ cur' = [cur EXCEPT ![p] = NoComment]
                 \/ pc' = [pc EXCEPT ![p] = "claim"] /\ cur' = cur
          BY <3>3 DEF Get
        <5>2. sawLiked' \in [Sweepers -> BOOLEAN] /\ sawPM' \in [Sweepers -> BOOLEAN]
          <6>0. (cur[p] \in liked) \in BOOLEAN /\ (cur[p] \in pmSent) \in BOOLEAN /\ FALSE \in BOOLEAN
            OBVIOUS
          <6>1. PICK b \in BOOLEAN, d \in BOOLEAN : /\ sawLiked' = [sawLiked EXCEPT ![p] = b]
                                                  /\ sawPM' = [sawPM EXCEPT ![p] = d]
            BY <3>3, <6>0, Zenon DEF Get
          <6>2. QED
            BY <6>1 DEF SweepTypes
        <5>3. QED
          BY <3>0, <3>3, <5>1, <5>2 DEF Get, SweepTypes, Steps
      <4>2. BoundTypes'
        BY <3>3, BoundsKept DEF Get
      <4>3. QED
        BY <3>3, <4>1, <4>2 DEF Get, RowTypes, HistTypes, rows, flags, hist
    <3>4. CASE Claim(p)
      <4>1. SweepTypes' /\ cur' = cur
        BY <3>0, <3>4, GotoKeepsTypes DEF Claim, Steps
      <4>2. claimAge' \in [Comments -> 0 .. ClaimTimeout + 1]
        <5>1. 0 \in 0 .. ClaimTimeout + 1
          OBVIOUS
        <5>2. QED
          BY <3>4, <5>1 DEF Claim, RowTypes
      <4>3. RowTypes'
        BY <3>4, <4>1, <4>2 DEF Claim, RowTypes, flags
      <4>4. QED
        BY <3>4, <4>1, <4>3 DEF Claim, BoundTypes, bounds, HistTypes
    <3>5. CASE ClaimFails(p)
      <4>1. SweepTypes' /\ \A q \in Sweepers : cur'[q] # NoComment => cur'[q] = cur[q]
        BY <3>5, ContinueKeepsTypes DEF ClaimFails
      <4>2. BoundTypes'
        BY <3>5, BoundsKept DEF ClaimFails
      <4>3. QED
        BY <3>5, <4>1, <4>2 DEF ClaimFails, RowTypes, HistTypes, rows, flags, hist
    <3>6. CASE Analyse(p)
      <4>1. SweepTypes' /\ cur' = cur
        BY <3>0, <3>6, GotoKeepsTypes DEF Analyse, Steps
      <4>2. /\ liked' \subseteq stored /\ pmSent' \subseteq stored
            /\ processed' \subseteq stored /\ analysed' \subseteq stored
        BY <3>0, <3>6 DEF Analyse, Put, flags, RowTypes
      <4>3. BoundTypes'
        BY <3>6, BoundsKept DEF Analyse
      <4>4. QED
        BY <3>6, <4>1, <4>2, <4>3 DEF Analyse, RowTypes, HistTypes, hist
    <3>7. CASE Like(p)
      BY <3>0, <3>7, ActKeepsTypes, SkipKeepsTypes DEF Like, Kinds, Steps
    <3>8. CASE Reply(p)
      BY <3>0, <3>8, ActKeepsTypes, SkipKeepsTypes DEF Reply, Kinds, Steps
    <3>9. CASE PM(p)
      BY <3>0, <3>9, ActKeepsTypes, SkipKeepsTypes DEF PM, Kinds, Steps
    <3>10. CASE MarkLiked(p)
      <4>1. SweepTypes' /\ cur' = cur
        BY <3>0, <3>10, GotoKeepsTypes DEF MarkLiked, Steps
      <4>2. liked' \subseteq stored /\ processed' \subseteq stored
        BY <3>0, <3>10 DEF MarkLiked, RowTypes
      <4>3. BoundTypes'
        BY <3>10, BoundsKept DEF MarkLiked
      <4>4. QED
        BY <3>10, <4>1, <4>2, <4>3 DEF MarkLiked, RowTypes, HistTypes, hist
    <3>11. CASE LogReply(p)
      <4>1. SweepTypes' /\ cur' = cur
        BY <3>0, <3>11, GotoKeepsTypes DEF LogReply, Steps
      <4>2. replyRows' \subseteq stored \X {"reply", "pm"}
        BY <3>0, <3>11 DEF LogReply, RowTypes
      <4>3. BoundTypes'
        BY <3>11, BoundsKept DEF LogReply
      <4>4. QED
        BY <3>11, <4>1, <4>2, <4>3 DEF LogReply, RowTypes, HistTypes, flags, hist
    <3>12. CASE MarkPM(p)
      <4>1. SweepTypes' /\ cur' = cur
        BY <3>0, <3>12, GotoKeepsTypes DEF MarkPM, Steps
      <4>2. pmSent' \subseteq stored /\ processed' \subseteq stored
        BY <3>0, <3>12 DEF MarkPM, RowTypes
      <4>3. BoundTypes'
        BY <3>12, BoundsKept DEF MarkPM
      <4>4. QED
        BY <3>12, <4>1, <4>2, <4>3 DEF MarkPM, RowTypes, HistTypes, hist
    <3>13. CASE MarkProcessed(p)
      <4>1. SweepTypes' /\ \A q \in Sweepers : cur'[q] # NoComment => cur'[q] = cur[q]
        BY <3>13, ContinueKeepsTypes DEF MarkProcessed
      <4>2. processed' \subseteq stored
        BY <3>0, <3>13 DEF MarkProcessed, RowTypes
      <4>3. BoundTypes'
        BY <3>13, BoundsKept DEF MarkProcessed
      <4>4. QED
        BY <3>13, <4>1, <4>2, <4>3 DEF MarkProcessed, RowTypes, HistTypes, hist
    <3>14. QED
      BY <2>1, <3>1, <3>2, <3>3, <3>4, <3>5, <3>6, <3>7, <3>8, <3>9, <3>10, <3>11, <3>12, <3>13
      DEF Work
  <2>2. ASSUME NEW p \in Sweepers, StartSweep(p) PROVE Types'
    <3>1. SweepTypes'
      BY <2>2 DEF StartSweep, SweepTypes, Steps
    <3>2. BoundTypes'
      BY <2>2, BoundsKept DEF StartSweep
    <3>3. QED
      BY <2>2, <3>1, <3>2 DEF StartSweep, RowTypes, HistTypes, rows, flags, hist
  <2>3. ASSUME NEW p \in Sweepers, Stop(p) PROVE Types'
    <3>1. SweepTypes' /\ \A q \in Sweepers : cur'[q] # NoComment => cur'[q] = cur[q]
      BY <2>3 DEF Stop, SweepTypes, Steps
    <3>2. BoundTypes'
      BY <2>3 DEF Stop, BoundTypes
    <3>3. QED
      BY <2>3, <3>1, <3>2 DEF Stop, RowTypes, HistTypes, rows, flags, hist
  <2>4. ASSUME NEW c \in Comments, LikeComment(c) PROVE Types'
    <3>1. BoundTypes'
      BY <2>4 DEF LikeComment, BoundTypes
    <3>2. QED
      BY <2>4, <3>1 DEF LikeComment, SweepTypes, RowTypes, HistTypes, sweeps
  <2>5. CASE Tick
    <3>1. claimAge' \in [Comments -> 0 .. ClaimTimeout + 1]
      BY <2>5 DEF Tick, RowTypes
    <3>2. QED
      BY <2>5, <3>1 DEF Tick, SweepTypes, RowTypes, BoundTypes, HistTypes, flags, sweeps, bounds, hist
  <2>6. CASE UNCHANGED vars
    BY <2>6 DEF vars, SweepTypes, RowTypes, BoundTypes, HistTypes, rows, flags, sweeps, bounds, hist
  <2>7. QED
    BY <2>1, <2>2, <2>3, <2>4, <2>5, <2>6 DEF Next
<1>3. QED
  BY <1>1, <1>2, PTL DEF Spec

(* The variables have their types in every reachable state.                *)
THEOREM TypeCorrect == Spec => []TypeOK
  BY TypeInvariant, TypesGiveTypeOK, PTL
-----------------------------------------------------------------------------
(* Claims                                                                  *)

Acting == {"analyse", "like", "markLiked", "reply", "logReply", "pm", "markPM", "logPM", "finish"}

(* The actions a sweep at step s has not come to yet.                      *)
Ahead(s) ==
  {k \in Kinds : \/ k = "like" /\ s \in {"analyse", "like"}
                 \/ k = "reply" /\ s \in {"analyse", "like", "markLiked", "reply"}
                 \/ k = "pm" /\ s \in {"analyse", "like", "markLiked", "reply", "logReply", "pm"}}

(* The sweep that acts on a comment holds a claim that has not expired, so *)
(* nobody else can claim it; and nothing it has still ahead has been asked *)
(* for under this claim.  OneAtATime and OncePerClaim alone are not        *)
(* inductive: they say nothing of the claim's age and of what is ahead.    *)
ClaimInv ==
  /\ \A p \in Sweepers, c \in Comments : ActsOn(p, c) => claimAge[c] <= ClaimTimeout
  /\ OneAtATime
  /\ \A p \in Sweepers : pc[p] \in Acting =>
       \A k \in Ahead(pc[p]) : <<cur[p], k>> \notin thisClaim
  /\ OncePerClaim

(* A step of one sweep that neither claims nor asks anything of Facebook.  *)
LEMMA QuietKeepsClaimInv ==
  ASSUME Types, ClaimInv, NEW p \in Sweepers,
         UNCHANGED <<claimAge, thisClaim, twice>>,
         \A q \in Sweepers \ {p} : pc'[q] = pc[q] /\ cur'[q] = cur[q],
         \/ pc'[p] \notin Acting
         \/ /\ pc[p] \in Acting /\ cur'[p] = cur[p]
            /\ Ahead(pc'[p]) \subseteq Ahead(pc[p])
  PROVE  ClaimInv'
<1>1. \A q \in Sweepers, c \in Comments : ActsOn(q, c)' => ActsOn(q, c)
  BY DEF ActsOn, Acting
<1>2. (\A q \in Sweepers, c \in Comments : ActsOn(q, c) => claimAge[c] <= ClaimTimeout)'
  BY <1>1 DEF ClaimInv
<1>3. OneAtATime'
  BY <1>1 DEF ClaimInv, OneAtATime
<1>4. ASSUME NEW q \in Sweepers, pc'[q] \in Acting, NEW k \in Ahead(pc'[q])
      PROVE  <<cur'[q], k>> \notin thisClaim'
  <2>1. pc[q] \in Acting /\ cur'[q] = cur[q] /\ k \in Ahead(pc[q])
    BY <1>4
  <2>2. QED
    BY <2>1 DEF ClaimInv
<1>5. QED
  BY <1>2, <1>3, <1>4 DEF ClaimInv, OncePerClaim

(* A Graph call for an action that was ahead.                              *)
LEMMA ActKeepsClaimInv ==
  ASSUME Types, ClaimInv, NEW p \in Sweepers, pc[p] \in Acting, NEW kind \in Ahead(pc[p]),
         NEW ok \in Acting, NEW err \in Acting,
         Ahead(ok) \subseteq Ahead(pc[p]) \ {kind}, Ahead(err) \subseteq Ahead(pc[p]) \ {kind},
         Act(p, kind, ok, err)
  PROVE  ClaimInv'
<1>0. /\ pc'[p] \in {ok, err} /\ \A q \in Sweepers \ {p} : pc'[q] = pc[q]
      /\ cur' = cur /\ claimAge' = claimAge
      /\ thisClaim' = thisClaim \cup {<<cur[p], kind>>}
      /\ twice' = twice \cup ({<<cur[p], kind>>} \cap thisClaim)
      /\ cur[p] \in Comments
  BY DEF Act, Goto, StepAfter, rows, Types, SweepTypes, Acting
<1>1. \A q \in Sweepers, c \in Comments : ActsOn(q, c)' <=> ActsOn(q, c)
  BY <1>0 DEF ActsOn, Acting
<1>2. (\A q \in Sweepers, c \in Comments : ActsOn(q, c) => claimAge[c] <= ClaimTimeout)'
  BY <1>0, <1>1 DEF ClaimInv
<1>3. OneAtATime'
  BY <1>1 DEF ClaimInv, OneAtATime
<1>4. ASSUME NEW q \in Sweepers, pc'[q] \in Acting, NEW k \in Ahead(pc'[q])
      PROVE  <<cur'[q], k>> \notin thisClaim'
  <2>1. CASE q = p
    <3>1. k # kind /\ k \in Ahead(pc[p])
      BY <1>0, <1>4, <2>1
    <3>2. <<cur[p], k>> \notin thisClaim
      BY <3>1 DEF ClaimInv
    <3>3. QED
      BY <1>0, <2>1, <3>1, <3>2
  <2>2. CASE q # p
    <3>1. pc[q] \in Acting /\ <<cur[q], k>> \notin thisClaim /\ cur[q] \in Comments
      BY <1>0, <1>4, <2>2 DEF ClaimInv, Types, SweepTypes, Acting
    <3>2. cur[q] # cur[p]
      BY <1>0, <2>2, <3>1 DEF ClaimInv, OneAtATime, ActsOn, Acting
    <3>3. QED
      BY <1>0, <2>2, <3>1, <3>2
  <2>3. QED
    BY <2>1, <2>2
<1>5. OncePerClaim'
  BY <1>0 DEF ClaimInv, OncePerClaim
<1>6. QED
  BY <1>2, <1>3, <1>4, <1>5 DEF ClaimInv

LEMMA ClaimKeepsClaimInv ==
  ASSUME Types, ClaimInv, NEW p \in Sweepers, Claim(p) PROVE ClaimInv'
<1> DEFINE d == cur[p]
<1>0. /\ d \in Comments /\ claimAge[d] > ClaimTimeout
      /\ claimAge'[d] = 0 /\ \A c \in Comments \ {d} : claimAge'[c] = claimAge[c]
      /\ pc'[p] = "analyse" /\ \A q \in Sweepers \ {p} : pc'[q] = pc[q]
      /\ cur' = cur
      /\ \A c \in Comments, k \in Kinds : <<c, k>> \in thisClaim' <=> <<c, k>> \in thisClaim /\ c # d
      /\ twice' = twice
  <2>1. d \in Comments /\ claimAge \in [Comments -> Nat] /\ claimAge[d] > ClaimTimeout
    BY MonitorAssumption DEF Claim, Claimable, Types, SweepTypes, RowTypes
  <2>2. \A c \in Comments, k \in Kinds : <<c, k>> \in thisClaim' <=> <<c, k>> \in thisClaim /\ c # d
    BY DEF Claim
  <2>3. QED
    BY <2>1, <2>2 DEF Claim, Goto, Types, SweepTypes
<1>1. \A q \in Sweepers : ~ActsOn(q, d)
  BY <1>0, MonitorAssumption DEF ClaimInv, Types, RowTypes
<1>2. \A q \in Sweepers, c \in Comments : ActsOn(q, c)' => ActsOn(q, c) \/ (q = p /\ c = d)
  BY <1>0 DEF ActsOn
<1>3. (\A q \in Sweepers, c \in Comments : ActsOn(q, c) => claimAge[c] <= ClaimTimeout)'
  BY <1>0, <1>1, <1>2, MonitorAssumption DEF ClaimInv
<1>4. OneAtATime'
  BY <1>0, <1>1, <1>2 DEF ClaimInv, OneAtATime
<1>5. ASSUME NEW q \in Sweepers, pc'[q] \in Acting, NEW k \in Ahead(pc'[q])
      PROVE  <<cur'[q], k>> \notin thisClaim'
  <2>0. k \in Kinds
    BY DEF Ahead
  <2>1. CASE q = p
    BY <1>0, <2>0, <2>1
  <2>2. CASE q # p
    <3>1. <<cur[q], k>> \notin thisClaim /\ cur[q] \in Comments
      BY <1>0, <1>5, <2>2 DEF ClaimInv, Types, SweepTypes, Acting
    <3>2. QED
      BY <1>0, <2>0, <3>1
  <2>3. QED
    BY <2>1, <2>2
<1>6. QED
  BY <1>0, <1>3, <1>4, <1>5 DEF ClaimInv, OncePerClaim

LEMMA ClaimInvariant == ASSUME ~SlowSweeps PROVE Spec => []ClaimInv
<1>1. Init => ClaimInv
  BY DEF Init, ClaimInv, OneAtATime, OncePerClaim, ActsOn, Acting
<1>2. ASSUME Types, ClaimInv, [Next]_vars PROVE ClaimInv'
  <2> USE <1>2
  <2>1. ASSUME NEW p \in Sweepers, Work(p) PROVE ClaimInv'
    <3>0. pc[p] \in Acting => cur[p] # NoComment
      BY DEF Types, SweepTypes, Acting
    <3>1. CASE Claim(p)
      BY <3>1, ClaimKeepsClaimInv
    <3>2. CASE Like(p)
      <4>1. CASE Act(p, "like", "markLiked", "reply")
        BY <3>2, <4>1, ActKeepsClaimInv DEF Like, Acting, Ahead, Kinds
      <4>2. CASE Skip(p, "reply")
        BY <3>2, <4>2, QuietKeepsClaimInv DEF Like, Skip, Goto, rows, hist, Acting, Ahead, Types, SweepTypes
      <4>3. QED
        BY <3>2, <4>1, <4>2 DEF Like
    <3>3. CASE Reply(p)
      <4>1. CASE Act(p, "reply", "logReply", "pm")
        BY <3>3, <4>1, ActKeepsClaimInv DEF Reply, Acting, Ahead, Kinds
      <4>2. CASE Skip(p, "pm")
        BY <3>3, <4>2, QuietKeepsClaimInv DEF Reply, Skip, Goto, rows, hist, Acting, Ahead, Types, SweepTypes
      <4>3. QED
        BY <3>3, <4>1, <4>2 DEF Reply
    <3>4. CASE PM(p)
      <4>1. CASE Act(p, "pm", "markPM", "finish")
        BY <3>4, <4>1, ActKeepsClaimInv DEF PM, Acting, Ahead, Kinds
      <4>2. CASE Skip(p, "finish")
        BY <3>4, <4>2, QuietKeepsClaimInv DEF PM, Skip, Goto, rows, hist, Acting, Ahead, Types, SweepTypes
      <4>3. QED
        BY <3>4, <4>1, <4>2 DEF PM
    <3>5. CASE EndSweep(p) \/ UpsertNew(p) \/ Get(p) \/ ClaimFails(p)
      BY <3>5, QuietKeepsClaimInv
      DEF EndSweep, UpsertNew, UpsertFails, Get, ClaimFails, Continue, rows, hist, Acting, Types, SweepTypes
    <3>6. CASE MarkProcessed(p)
      BY <3>6, QuietKeepsClaimInv DEF MarkProcessed, hist, Continue, Acting, Types, SweepTypes
    <3>7. CASE Analyse(p) \/ MarkLiked(p) \/ LogReply(p) \/ MarkPM(p)
      BY <3>7, QuietKeepsClaimInv
      DEF Analyse, MarkLiked, LogReply, MarkPM, Goto, hist, Acting, Ahead, Types, SweepTypes
    <3>8. QED
      BY <2>1, <3>1, <3>2, <3>3, <3>4, <3>5, <3>6, <3>7 DEF Work
  <2>2. ASSUME NEW p \in Sweepers, StartSweep(p) \/ Stop(p) PROVE ClaimInv'
    BY <2>2, QuietKeepsClaimInv DEF StartSweep, Stop, rows, hist, Acting, Types, SweepTypes
  <2>3. ASSUME NEW c \in Comments, LikeComment(c) PROVE ClaimInv'
    BY <2>3 DEF LikeComment, sweeps, ClaimInv, OneAtATime, OncePerClaim, ActsOn
  <2>4. CASE Tick
    <3>1. \A p \in Sweepers, c \in Comments : ActsOn(p, c)' <=> ActsOn(p, c)
      BY <2>4 DEF Tick, sweeps, ActsOn
    <3>2. (\A p \in Sweepers, c \in Comments : ActsOn(p, c) => claimAge[c] <= ClaimTimeout)'
      <4>1. ASSUME NEW p \in Sweepers, NEW c \in Comments, ActsOn(p, c) PROVE claimAge'[c] <= ClaimTimeout
        <5>1. claimAge[c] < ClaimTimeout /\ claimAge[c] \in Nat /\ ClaimTimeout \in Nat
          BY <2>4, <4>1, MonitorAssumption DEF Tick, Types, RowTypes
        <5>2. claimAge'[c] = claimAge[c] + 1
          BY <2>4, <5>1 DEF Tick
        <5>3. QED
          BY <5>1, <5>2
      <4>2. QED
        BY <3>1, <4>1
    <3>3. QED
      BY <2>4, <3>1, <3>2 DEF Tick, sweeps, hist, ClaimInv, OneAtATime, OncePerClaim
  <2>5. CASE UNCHANGED vars
    BY <2>5 DEF vars, rows, sweeps, hist, ClaimInv, OneAtATime, OncePerClaim, ActsOn
  <2>6. QED
    BY <2>1, <2>2, <2>3, <2>4, <2>5 DEF Next
<1>3. QED
  BY <1>1, <1>2, TypeInvariant, PTL DEF Spec

(* As long as no sweep outlives its claim, at most one sweep at a time     *)
(* acts on a comment, however many servers and requests there are.         *)
THEOREM ClaimsAreExclusive == ASSUME ~SlowSweeps PROVE Spec => []OneAtATime
<1>1. ClaimInv => OneAtATime
  BY DEF ClaimInv
<1>2. QED
  BY <1>1, ClaimInvariant, PTL

(* ... and under one claim no action is asked for twice.                   *)
THEOREM ActionsOncePerClaim == ASSUME ~SlowSweeps PROVE Spec => []OncePerClaim
<1>1. ClaimInv => OncePerClaim
  BY DEF ClaimInv
<1>2. QED
  BY <1>1, ClaimInvariant, PTL
-----------------------------------------------------------------------------
(* Marks                                                                   *)

(* What a sweep is about to write down has happened, and so has what its   *)
(* Get returned: the second Upsert writes that back.                       *)
SweepMarks(p) ==
  /\ pc[p] = "markLiked" => <<cur[p], "like">> \in sent
  /\ pc[p] = "logReply" => <<cur[p], "reply">> \in sent
  /\ pc[p] \in {"markPM", "logPM"} => <<cur[p], "pm">> \in sent
  /\ pc[p] \in {"claim", "analyse"} /\ sawLiked[p] => cur[p] \in byHand \/ <<cur[p], "like">> \in sent
  /\ pc[p] \in {"claim", "analyse"} /\ sawPM[p] => <<cur[p], "pm">> \in sent

MarkInv == MarksAreTrue /\ \A p \in Sweepers : SweepMarks(p)

(* A step of one sweep; what the other sweeps have seen stays true because *)
(* nothing that has happened is undone.                                    *)
LEMMA OthersKeepMarks ==
  ASSUME MarkInv, NEW q \in Sweepers, pc'[q] = pc[q], cur'[q] = cur[q],
         sawLiked'[q] = sawLiked[q], sawPM'[q] = sawPM[q],
         sent \subseteq sent', byHand \subseteq byHand'
  PROVE  SweepMarks(q)'
  BY DEF MarkInv, SweepMarks

LEMMA ActKeepsMarks ==
  ASSUME Types, MarkInv, NEW p \in Sweepers, NEW kind \in Kinds,
         NEW ok \in Steps, NEW err \in {"reply", "pm", "finish"},
         ok = IF kind = "like" THEN "markLiked" ELSE IF kind = "reply" THEN "logReply" ELSE "markPM",
         Act(p, kind, ok, err)
  PROVE  MarkInv'
<1>1. PICK o \in Outcomes :
        /\ Goto(p, StepAfter(o, ok, err))
        /\ sent' = IF o.applied THEN sent \cup {<<cur[p], kind>>} ELSE sent
  BY DEF Act
<1>2. o.verdict = "done" => o.applied
  BY DEF Outcomes
<1>3. UNCHANGED <<liked, pmSent, replyRows, byHand, cur, sawLiked, sawPM>> /\ sent \subseteq sent'
  BY <1>1 DEF Act, Goto, rows, flags
<1>4. SweepMarks(p)'
  BY <1>1, <1>2, <1>3 DEF Goto, StepAfter, SweepMarks, Kinds, Types, SweepTypes
<1>5. ASSUME NEW q \in Sweepers \ {p} PROVE SweepMarks(q)'
  BY <1>1, <1>3, OthersKeepMarks DEF Goto, Types, SweepTypes
<1>6. MarksAreTrue'
  BY <1>3 DEF MarkInv, MarksAreTrue
<1>7. QED
  BY <1>4, <1>5, <1>6 DEF MarkInv

(* A sweep that goes to a step with nothing to mark.                       *)
LEMMA MoveKeepsMarks ==
  ASSUME Types, MarkInv, NEW p \in Sweepers,
         pc'[p] \in {"idle", "next", "get", "like", "reply", "pm", "finish"},
         \A q \in Sweepers \ {p} : /\ pc'[q] = pc[q] /\ cur'[q] = cur[q]
                                  /\ sawLiked'[q] = sawLiked[q] /\ sawPM'[q] = sawPM[q],
         sent' = sent, byHand' = byHand, MarksAreTrue'
  PROVE  MarkInv'
<1>1. SweepMarks(p)'
  BY DEF SweepMarks
<1>2. QED
  BY <1>1, OthersKeepMarks DEF MarkInv

LEMMA MarkInvariant == Spec => []MarkInv
<1>1. Init => MarkInv
  BY DEF Init, MarkInv, MarksAreTrue, SweepMarks
<1>2. ASSUME Types, MarkInv, [Next]_vars PROVE MarkInv'
  <2> USE <1>2
  <2>0. MarksAreTrue /\ \A p \in Sweepers : SweepMarks(p)
    BY DEF MarkInv
  <2>1. ASSUME NEW p \in Sweepers, Work(p) PROVE MarkInv'
    <3>1. CASE Like(p)
      <4>1. CASE Act(p, "like", "markLiked", "reply")
        BY <4>1, ActKeepsMarks DEF Steps, Kinds
      <4>2. CASE Skip(p, "reply")
        BY <2>0, <4>2, MoveKeepsMarks DEF Skip, Goto, rows, flags, hist, Types, SweepTypes, MarksAreTrue
      <4>3. QED
        BY <3>1, <4>1, <4>2 DEF Like
    <3>2. CASE Reply(p)
      <4>1. CASE Act(p, "reply", "logReply", "pm")
        BY <4>1, ActKeepsMarks DEF Steps, Kinds
      <4>2. CASE Skip(p, "pm")
        BY <2>0, <4>2, MoveKeepsMarks DEF Skip, Goto, rows, flags, hist, Types, SweepTypes, MarksAreTrue
      <4>3. QED
        BY <3>2, <4>1, <4>2 DEF Reply
    <3>3. CASE PM(p)
      <4>1. CASE Act(p, "pm", "markPM", "finish")
        BY <4>1, ActKeepsMarks DEF Steps, Kinds
      <4>2. CASE Skip(p, "finish")
        BY <2>0, <4>2, MoveKeepsMarks DEF Skip, Goto, rows, flags, hist, Types, SweepTypes, MarksAreTrue
      <4>3. QED
        BY <3>3, <4>1, <4>2 DEF PM
    <3>4. CASE EndSweep(p) \/ UpsertNew(p) \/ ClaimFails(p) \/ MarkProcessed(p)
      <4>1. MarksAreTrue'
        BY <2>0, <3>4 DEF EndSweep, UpsertNew, UpsertFails, ClaimFails, MarkProcessed, rows, flags, hist, MarksAreTrue
      <4>2. QED
        BY <3>4, <4>1, MoveKeepsMarks
        DEF EndSweep, UpsertNew, UpsertFails, ClaimFails, MarkProcessed, Continue, hist, Types, SweepTypes
    <3>5. CASE Get(p)
      <4>0. UNCHANGED <<liked, pmSent, replyRows, sent, byHand>>
        BY <3>5 DEF Get, rows, flags, hist
      <4>1. SweepMarks(p)'
        <5>1. pc'[p] \in {"next", "claim"} /\ (pc'[p] = "claim" => cur'[p] = cur[p])
          BY <3>5 DEF Get, Types, SweepTypes
        <5>2. sawLiked'[p] => cur[p] \in liked
          BY <3>5 DEF Get, Types, SweepTypes
        <5>3. sawPM'[p] => cur[p] \in pmSent
          BY <3>5 DEF Get, Types, SweepTypes
        <5>4. QED
          BY <2>0, <4>0, <5>1, <5>2, <5>3 DEF SweepMarks, MarksAreTrue
      <4>2. ASSUME NEW q \in Sweepers \ {p} PROVE SweepMarks(q)'
        BY <3>5, OthersKeepMarks DEF Get, hist, Types, SweepTypes
      <4>3. QED
        BY <2>0, <4>0, <4>1, <4>2 DEF MarkInv, MarksAreTrue
    <3>6. CASE Claim(p)
      <4>1. SweepMarks(p)'
        BY <2>0, <3>6 DEF Claim, Goto, SweepMarks, Types, SweepTypes
      <4>2. ASSUME NEW q \in Sweepers \ {p} PROVE SweepMarks(q)'
        BY <3>6, OthersKeepMarks DEF Claim, Goto, Types, SweepTypes
      <4>3. QED
        BY <2>0, <3>6, <4>1, <4>2 DEF Claim, flags, MarkInv, MarksAreTrue
    <3>7. CASE Analyse(p)
      <4>1. MarksAreTrue'
        BY <2>0, <3>7 DEF Analyse, Put, flags, hist, SweepMarks, MarksAreTrue
      <4>2. QED
        BY <3>7, <4>1, MoveKeepsMarks DEF Analyse, Goto, hist, Types, SweepTypes
    <3>8. CASE MarkLiked(p)
      <4>1. MarksAreTrue'
        BY <2>0, <3>8 DEF MarkLiked, hist, SweepMarks, MarksAreTrue
      <4>2. QED
        BY <3>8, <4>1, MoveKeepsMarks DEF MarkLiked, Goto, hist, Types, SweepTypes
    <3>9. CASE LogReply(p)
      <4>1. MarksAreTrue'
        BY <2>0, <3>9 DEF LogReply, flags, hist, SweepMarks, MarksAreTrue
      <4>2. QED
        BY <3>9, <4>1, MoveKeepsMarks DEF LogReply, Goto, hist, Types, SweepTypes
    <3>10. CASE MarkPM(p)
      <4>1. MarksAreTrue'
        BY <2>0, <3>10 DEF MarkPM, hist, SweepMarks, MarksAreTrue
      <4>2. SweepMarks(p)'
        BY <2>0, <3>10 DEF MarkPM, Goto, hist, SweepMarks, Types, SweepTypes
      <4>3. ASSUME NEW q \in Sweepers \ {p} PROVE SweepMarks(q)'
        BY <3>10, OthersKeepMarks DEF MarkPM, Goto, hist, Types, SweepTypes
      <4>4. QED
        BY <4>1, <4>2, <4>3 DEF MarkInv
    <3>11. QED
      BY <2>1, <3>1, <3>2, <3>3, <3>4, <3>5, <3>6, <3>7, <3>8, <3>9, <3>10 DEF Work
  <2>2. ASSUME NEW p \in Sweepers, StartSweep(p) \/ Stop(p) PROVE MarkInv'
    <3>1. MarksAreTrue'
      BY <2>0, <2>2 DEF StartSweep, Stop, rows, flags, hist, MarksAreTrue
    <3>2. QED
      BY <2>2, <3>1, MoveKeepsMarks DEF StartSweep, Stop, hist, Types, SweepTypes
  <2>3. ASSUME NEW c \in Comments, LikeComment(c) PROVE MarkInv'
    <3>1. MarksAreTrue'
      BY <2>0, <2>3 DEF LikeComment, MarksAreTrue
    <3>2. ASSUME NEW q \in Sweepers PROVE SweepMarks(q)'
      BY <2>3, OthersKeepMarks DEF LikeComment, sweeps
    <3>3. QED
      BY <3>1, <3>2 DEF MarkInv
  <2>4. CASE Tick \/ UNCHANGED vars
    BY <2>0, <2>4 DEF Tick, vars, rows, flags, sweeps, hist, MarkInv, MarksAreTrue, SweepMarks
  <2>5. QED
    BY <2>1, <2>2, <2>3, <2>4 DEF Next
<1>3. QED
  BY <1>1, <1>2, TypeInvariant, PTL DEF Spec

(* What the tables say was done to a comment was done, whatever overlaps   *)
(* or fails, and although the upserts overwrite the marks.                 *)
THEOREM MarksTellTheTruth == Spec => []MarksAreTrue
<1>1. MarkInv => MarksAreTrue
  BY DEF MarkInv
<1>2. QED
  BY <1>1, MarkInvariant, PTL
=============================================================================
