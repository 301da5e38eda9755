--------------------------- MODULE CommentMonitor ---------------------------
(***************************************************************************)
(* The comment monitor: sweeps over the comments of a page that store each *)
(* comment, claim it, and like it, answer it or send its author a private  *)
(* message (service/comment_monitor.go).  A sweep is run by the comment    *)
(* worker of every server (service/comment_worker.go) and by the           *)
(* POST /comments/process request; facebook.comments and the function      *)
(* claim_comment of migration 008 are what they share.                     *)
(*                                                                         *)
(* Every database call and every Graph call is a step of its own.          *)
(***************************************************************************)
EXTENDS GraphReplies, FiniteSets

CONSTANTS
  Comments,      \* comments under the recent posts of a page
  IntentOf,      \* what ClassifyIntent says of each comment's text
  SentimentOf,   \* what classifySentiment says of it
  Sweepers,      \* processes that run ProcessPageComments
  Workers,       \* those of them that are comment workers
  NoComment,     \* marks a sweeper that is at no comment
  ClaimTimeout,  \* the 5 minutes after which a claim expires
  SlowSweeps,    \* whether work on a comment may outlast its claim
  MaxFaults,     \* bound: database and Graph calls that fail
  MaxStops,      \* bound: sweeps that are cut short
  MaxLikes       \* bound: likes by hand

Intents == {"asking_price", "complaint", "interested", "general", "other"}
Sentiments == {"positive", "negative", "neutral"}
Kinds == {"like", "reply", "pm"}

ASSUME MonitorAssumption ==
  /\ IntentOf \in [Comments -> Intents]
  /\ SentimentOf \in [Comments -> Sentiments]
  /\ Workers \subseteq Sweepers
  /\ NoComment \notin Comments
  /\ {ClaimTimeout, MaxFaults, MaxStops, MaxLikes} \subseteq Nat
  /\ SlowSweeps \in BOOLEAN

VARIABLES
  stored,     \* comments with a row in facebook.comments
  liked,      \* rows with is_liked
  pmSent,     \* rows with is_private_reply_sent
  processed,  \* rows with processed
  analysed,   \* rows that hold the comment's intent and sentiment
  claimAge,   \* time since claimed_at, up to ClaimTimeout + 1, which also
              \* stands for a claimed_at that is NULL
  replyRows,  \* <<comment, kind>> with a row in facebook.comment_replies
  pc, cur, todo,  \* where each sweep is, at which comment, and what is left
  sawLiked, sawPM,  \* what its Get returned: dbComment
  faults, stops, likesByHand,  \* counters of the bounded events
  sent,       \* history: <<comment, kind>> carried out by Facebook
  thisClaim,  \* history: <<comment, kind>> asked of Facebook since the
              \* comment's last claim
  twice,      \* history: those asked for twice under one claim
  byHand      \* history: comments liked by hand

flags == <<liked, pmSent, processed, analysed>>
rows == <<stored, flags, claimAge, replyRows>>
sweeps == <<pc, cur, todo, sawLiked, sawPM>>
bounds == <<faults, stops, likesByHand>>
hist == <<sent, thisClaim, twice, byHand>>
vars == <<rows, sweeps, bounds, hist>>

Init ==
  /\ stored = {} /\ liked = {} /\ pmSent = {} /\ processed = {} /\ analysed = {}
  /\ claimAge = [c \in Comments |-> ClaimTimeout + 1]
  /\ replyRows = {}
  /\ pc = [p \in Sweepers |-> "idle"]
  /\ cur = [p \in Sweepers |-> NoComment]
  /\ todo = [p \in Sweepers |-> {}]
  /\ sawLiked = [p \in Sweepers |-> FALSE]
  /\ sawPM = [p \in Sweepers |-> FALSE]
  /\ faults = 0 /\ stops = 0 /\ likesByHand = 0
  /\ sent = {} /\ thisClaim = {} /\ twice = {} /\ byHand = {}

-----------------------------------------------------------------------------
(* What a comment's intent and sentiment ask for                           *)

ShouldLike(c) == SentimentOf[c] = "positive" \/ IntentOf[c] = "interested"

ShouldReplyPublic(c) == IntentOf[c] \in {"asking_price", "general"}

(* alreadySent is taken from the freshly built commentModel, not from the  *)
(* row, so it is always false.                                             *)
ShouldPM(c) ==
  IntentOf[c] = "interested" \/ (IntentOf[c] = "asking_price" /\ SentimentOf[c] # "negative")

Wanted(c) == {k \in Kinds : \/ k = "like" /\ ShouldLike(c)
                            \/ k = "reply" /\ ShouldReplyPublic(c)
                            \/ k = "pm" /\ ShouldPM(c)}

-----------------------------------------------------------------------------
(* The statements on the rows (db/queries/comments.sql), and what a sweep  *)
(* may get to see of the page.                                             *)

GetComment(c) ==
  [is_liked |-> c \in liked, is_private_reply_sent |-> c \in pmSent, processed |-> c \in processed]

UpdateCommentLiked(c) == liked' = liked \cup {c} /\ processed' = processed \cup {c}

UpdateCommentPrivateReply(c) == pmSent' = pmSent \cup {c} /\ processed' = processed \cup {c}

MarkCommentProcessed(c) == processed' = processed \cup {c}

InsertReply(c, kind) == replyRows' = replyRows \cup {<<c, kind>>}

CommentLists == SUBSET Comments

-----------------------------------------------------------------------------
(* Helpers                                                                 *)

Fault ==
  /\ faults < MaxFaults
  /\ faults' = faults + 1
  /\ UNCHANGED <<stops, likesByHand>>

(* A flag of a row, written as the sweep has it.                           *)
Put(S, c, b) == IF b THEN S \cup {c} ELSE S \ {c}

Goto(p, s) ==
  /\ pc' = [pc EXCEPT ![p] = s]
  /\ UNCHANGED <<cur, todo, sawLiked, sawPM>>

(* continue: on to the next comment of the sweep.                          *)
Continue(p) ==
  /\ pc' = [pc EXCEPT ![p] = "next"]
  /\ cur' = [cur EXCEPT ![p] = NoComment]
  /\ UNCHANGED <<todo, sawLiked, sawPM>>

(* Breakage of Claimable: claim_comment without its condition on claimed_at.*)
ClaimableAlways(c) == c \in stored

(* The WHERE clause of claim_comment.                                      *)
Claimable(c) == claimAge[c] > ClaimTimeout

(* Breakage of StepAfter: an error is logged and then taken for a success. *)
StepAfterIgnoringErrors(o, ok, err) == ok

(* Where a sweep goes after a Graph call with outcome o.                   *)
StepAfter(o, ok, err) == IF o.verdict = "done" THEN ok ELSE err

(* Between its claim and MarkProcessed a sweep acts on its comment.        *)
ActsOn(p, c) ==
  cur[p] = c /\ pc[p] \in {"analyse", "like", "markLiked", "reply", "logReply",
                           "pm", "markPM", "logPM", "finish"}

-----------------------------------------------------------------------------
(* Time passes.  Work on a comment is at most three Graph calls of three   *)
(* attempts each, well below the claim's five minutes with the default     *)
(* timeouts: without SlowSweeps no claim expires under a sweep's hands.    *)
Tick ==
  /\ SlowSweeps \/ \A p \in Sweepers, c \in Comments : ActsOn(p, c) => claimAge[c] < ClaimTimeout
  /\ claimAge' = [c \in Comments |-> IF claimAge[c] > ClaimTimeout THEN claimAge[c] ELSE claimAge[c] + 1]
  /\ UNCHANGED <<stored, flags, replyRows, sweeps, bounds, hist>>

(* ProcessPageComments has loaded the page, its posts and their comments.  *)
(* The comments of a post that cannot be loaded are skipped.               *)
StartSweep(p) ==
  /\ pc[p] = "idle"
  /\ \E S \in CommentLists :
       /\ todo' = [todo EXCEPT ![p] = S]
       /\ IF S = Comments THEN UNCHANGED bounds ELSE Fault
  /\ pc' = [pc EXCEPT ![p] = "next"]
  /\ UNCHANGED <<rows, cur, sawLiked, sawPM, hist>>

EndSweep(p) ==
  /\ pc[p] = "next"
  /\ todo[p] = {}
  /\ pc' = [pc EXCEPT ![p] = "idle"]
  /\ UNCHANGED <<rows, cur, todo, sawLiked, sawPM, bounds, hist>>

UpsertFails(p, c) == Fault /\ UNCHANGED <<stored, flags, pc, cur>>

(* Breakage of ResetProcessed: the upsert leaves the row's mark alone.     *)
KeepProcessed(c) == UNCHANGED processed

(* processed = EXCLUDED.processed, which is false.                         *)
ResetProcessed(c) == processed' = processed \ {c}

(* Upsert with the flags of a new comment.  ON CONFLICT it resets them.    *)
UpsertNew(p) ==
  /\ pc[p] = "next"
  /\ \E c \in todo[p] :
       /\ todo' = [todo EXCEPT ![p] = @ \ {c}]
       /\ \/ /\ stored' = stored \cup {c}
             /\ liked' = liked \ {c}
             /\ pmSent' = pmSent \ {c}
             /\ ResetProcessed(c)
             /\ analysed' = analysed \ {c}
             /\ pc' = [pc EXCEPT ![p] = "get"]
             /\ cur' = [cur EXCEPT ![p] = c]
             /\ UNCHANGED bounds
          \/ UpsertFails(p, c)
  /\ UNCHANGED <<claimAge, replyRows, sawLiked, sawPM, hist>>

(* Get, and the skip of a comment that is already processed.  When Get     *)
(* fails, the sweep goes on with the new comment it has built.             *)
Get(p) ==
  /\ pc[p] = "get"
  /\ \/ /\ sawLiked' = [sawLiked EXCEPT ![p] = GetComment(cur[p]).is_liked]
        /\ sawPM' = [sawPM EXCEPT ![p] = GetComment(cur[p]).is_private_reply_sent]
        /\ IF GetComment(cur[p]).processed
           THEN /\ pc' = [pc EXCEPT ![p] = "next"]
                /\ cur' = [cur EXCEPT ![p] = NoComment]
           ELSE /\ pc' = [pc EXCEPT ![p] = "claim"]
                /\ UNCHANGED cur
        /\ UNCHANGED bounds
     \/ /\ Fault
        /\ sawLiked' = [sawLiked EXCEPT ![p] = FALSE]
        /\ sawPM' = [sawPM EXCEPT ![p] = FALSE]
        /\ pc' = [pc EXCEPT ![p] = "claim"]
        /\ UNCHANGED cur
  /\ UNCHANGED <<rows, todo, hist>>

(* claim_comment                                                           *)
Claim(p) ==
  /\ pc[p] = "claim"
  /\ Claimable(cur[p])
  /\ claimAge' = [claimAge EXCEPT ![cur[p]] = 0]
  /\ Goto(p, "analyse")
  /\ thisClaim' = {e \in thisClaim : e[1] # cur[p]}
  /\ UNCHANGED <<stored, flags, replyRows, bounds, sent, twice, byHand>>

ClaimFails(p) ==
  /\ pc[p] = "claim"
  /\ IF Claimable(cur[p]) THEN Fault ELSE UNCHANGED bounds
  /\ Continue(p)
  /\ UNCHANGED <<rows, hist>>

(* The second Upsert writes the analysis, and the flags Get returned.      *)
Analyse(p) ==
  /\ pc[p] = "analyse"
  /\ \/ /\ liked' = Put(liked, cur[p], sawLiked[p])
        /\ pmSent' = Put(pmSent, cur[p], sawPM[p])
        /\ processed' = processed \ {cur[p]}
        /\ analysed' = analysed \cup {cur[p]}
        /\ UNCHANGED bounds
     \/ Fault /\ UNCHANGED flags
  /\ Goto(p, "like")
  /\ UNCHANGED <<stored, claimAge, replyRows, hist>>

(* A Graph call that acts on the comment: on success the sweep records it  *)
(* (step ok), on an error it goes on (step err).                           *)
Act(p, kind, ok, err) ==
  /\ \E o \in Outcomes :
       /\ \/ o.verdict = "done" /\ UNCHANGED bounds
          \/ o.verdict = "fail" /\ Fault
       /\ Goto(p, StepAfter(o, ok, err))
       /\ sent' = IF o.applied THEN sent \cup {<<cur[p], kind>>} ELSE sent
  /\ thisClaim' = thisClaim \cup {<<cur[p], kind>>}
  /\ twice' = twice \cup ({<<cur[p], kind>>} \cap thisClaim)
  /\ UNCHANGED <<rows, byHand>>

Skip(p, step) == Goto(p, step) /\ UNCHANGED <<rows, bounds, hist>>

Like(p) ==
  /\ pc[p] = "like"
  /\ IF ShouldLike(cur[p]) /\ ~sawLiked[p] THEN Act(p, "like", "markLiked", "reply")
                                           ELSE Skip(p, "reply")

MarkLiked(p) ==
  /\ pc[p] = "markLiked"
  /\ \/ UpdateCommentLiked(cur[p]) /\ UNCHANGED bounds
     \/ Fault /\ UNCHANGED <<liked, processed>>
  /\ Goto(p, "reply")
  /\ UNCHANGED <<stored, pmSent, analysed, claimAge, replyRows, hist>>

Reply(p) ==
  /\ pc[p] = "reply"
  /\ IF ShouldReplyPublic(cur[p]) THEN Act(p, "reply", "logReply", "pm") ELSE Skip(p, "pm")

LogReply(p) ==
  /\ \/ pc[p] = "logReply" /\ Goto(p, "pm")
     \/ pc[p] = "logPM" /\ Goto(p, "finish")
  /\ \/ InsertReply(cur[p], IF pc[p] = "logPM" THEN "pm" ELSE "reply") /\ UNCHANGED bounds
     \/ Fault /\ UNCHANGED replyRows
  /\ UNCHANGED <<stored, flags, claimAge, hist>>

PM(p) ==
  /\ pc[p] = "pm"
  /\ IF ShouldPM(cur[p]) THEN Act(p, "pm", "markPM", "finish") ELSE Skip(p, "finish")

MarkPM(p) ==
  /\ pc[p] = "markPM"
  /\ \/ UpdateCommentPrivateReply(cur[p]) /\ UNCHANGED bounds
     \/ Fault /\ UNCHANGED <<pmSent, processed>>
  /\ Goto(p, "logPM")
  /\ UNCHANGED <<stored, liked, analysed, claimAge, replyRows, hist>>

MarkProcessed(p) ==
  /\ pc[p] = "finish"
  /\ \/ MarkCommentProcessed(cur[p]) /\ UNCHANGED bounds
     \/ Fault /\ UNCHANGED processed
  /\ Continue(p)
  /\ UNCHANGED <<stored, liked, pmSent, analysed, claimAge, replyRows, hist>>

(* The server stops or crashes, or the request's context ends, after which *)
(* all its calls fail.                                                     *)
Stop(p) ==
  /\ pc[p] # "idle"
  /\ stops < MaxStops
  /\ stops' = stops + 1
  /\ pc' = [pc EXCEPT ![p] = "idle"]
  /\ cur' = [cur EXCEPT ![p] = NoComment]
  /\ todo' = [todo EXCEPT ![p] = {}]
  /\ UNCHANGED <<rows, sawLiked, sawPM, faults, likesByHand, hist>>

(* POST /comments/:id/like updates the row; it calls no Graph endpoint.    *)
LikeComment(c) ==
  /\ c \in stored
  /\ likesByHand < MaxLikes
  /\ likesByHand' = likesByHand + 1
  /\ UpdateCommentLiked(c)
  /\ byHand' = byHand \cup {c}
  /\ UNCHANGED <<stored, pmSent, analysed, claimAge, replyRows, sweeps, faults, stops,
                 sent, thisClaim, twice>>

-----------------------------------------------------------------------------
Work(p) ==
  \/ EndSweep(p) \/ UpsertNew(p) \/ Get(p) \/ Claim(p) \/ ClaimFails(p) \/ Analyse(p)
  \/ Like(p) \/ MarkLiked(p) \/ Reply(p) \/ LogReply(p) \/ PM(p) \/ MarkPM(p)
  \/ MarkProcessed(p)

Next ==
  \/ \E p \in Sweepers : StartSweep(p) \/ Work(p) \/ Stop(p)
  \/ \E c \in Comments : LikeComment(c)
  \/ Tick

(* A sweep that runs goes on, the workers' tickers start another, and time *)
(* passes; requests and users come as they like.                           *)
Fairness ==
  /\ \A p \in Sweepers : WF_vars(Work(p))
  /\ \A w \in Workers : WF_vars(StartSweep(w))
  /\ WF_vars(Tick)

Spec == Init /\ [][Next]_vars /\ Fairness

-----------------------------------------------------------------------------
(* Properties                                                              *)

TypeOK ==
  /\ stored \subseteq Comments
  /\ liked \subseteq stored /\ pmSent \subseteq stored
  /\ processed \subseteq stored /\ analysed \subseteq stored
  /\ claimAge \in [Comments -> 0 .. ClaimTimeout + 1]
  /\ replyRows \subseteq stored \X {"reply", "pm"}
  /\ pc \in [Sweepers -> {"idle", "next", "get", "claim", "analyse", "like", "markLiked",
                          "reply", "logReply", "pm", "markPM", "logPM", "finish"}]
  /\ cur \in [Sweepers -> stored \cup {NoComment}]
  /\ todo \in [Sweepers -> SUBSET Comments]
  /\ sawLiked \in [Sweepers -> BOOLEAN]
  /\ sawPM \in [Sweepers -> BOOLEAN]
  /\ faults \in 0 .. MaxFaults /\ stops \in 0 .. MaxStops /\ likesByHand \in 0 .. MaxLikes
  /\ sent \subseteq stored \X Kinds
  /\ thisClaim \subseteq stored \X Kinds /\ twice \subseteq stored \X Kinds
  /\ byHand \subseteq stored

(* "Ensures only one worker/instance processes a comment"                  *)
(* (008_comments.up.sql:54), as long as no sweep outlives its claim.       *)
OneAtATime ==
  \A p, q \in Sweepers, c \in Comments : ActsOn(p, c) /\ ActsOn(q, c) => p = q

(* Under one claim the Graph call of each action is made at most once, by  *)
(* whichever sweep.  (That one call may itself take effect twice: see      *)
(* DuplicateNeedsLostReply in RetryLoop.)                                  *)
OncePerClaim == twice = {}

(* What the tables say of a comment has happened: a like, unless somebody  *)
(* liked it by hand, a private message, a reply.                           *)
MarksAreTrue ==
  /\ \A c \in liked \ byHand : <<c, "like">> \in sent
  /\ \A c \in pmSent : <<c, "pm">> \in sent
  /\ replyRows \subseteq sent

(* A comment that asks for an action gets it, although calls fail and      *)
(* sweeps are cut short.                                                   *)
WantedActionsHappen ==
  \A c \in Comments : \A k \in Wanted(c) : <>(<<c, k>> \in sent)
=============================================================================
