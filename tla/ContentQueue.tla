---------------------------- MODULE ContentQueue ----------------------------
(***************************************************************************)
(* The content queue (service/queue.go, handlers/queue.go, repo/queue.go)  *)
(* and the publisher it shares with the scheduler (service/publisher.go),  *)
(* composed with the pages: an item is posted to the page its row names,   *)
(* with the switches and the token of the page as they are read.  Items    *)
(* are put into facebook.content_queue by other programs; no code of the   *)
(* repository inserts one.                                                 *)
(*                                                                         *)
(* Every database statement and every Graph call is a step of its own.     *)
(***************************************************************************)
EXTENDS Pages

CONSTANTS
  Items,       \* ids of rows of facebook.content_queue
  Publishers   \* who sends requests about items, one at a time

VARIABLES
  item,      \* the row of each item: page, status, whether its content is
             \* still the original
  task,      \* the request of each publisher: how far it is, its item, the
             \* row it has read, and the page it has read
  inHistory, \* number of rows of facebook.post_history made from each item
  posts,     \* history: how often each item is on a feed
  cut,       \* history: items with a post that was not written down
  loud,      \* history: rows posted to although posting had been asked off
  restated   \* history: items posted once whose status was then set by hand

queue == <<item, task, inHistory>>
qhist == <<posts, cut, loud, restated>>
qvars == <<queue, qhist>>
vars == <<pvars, qvars>>

Statuses == {"NEW", "DRAFTING", "REVIEW", "READY", "PUBLISHED", "REJECTED"}

ItemRow == [page : Rows \cup {None}, status : Statuses, original : BOOLEAN]

ASSUME QueueAssumption == None \notin ItemRow

NoTask == [at |-> "idle", item |-> None, read |-> None, page |-> None, off |-> FALSE]

Init ==
  /\ PagesInit
  /\ item = [i \in Items |-> None]
  /\ task = [q \in Publishers |-> NoTask]
  /\ inHistory = [i \in Items |-> 0]
  /\ posts = [i \in Items |-> 0]
  /\ cut = {}
  /\ loud = {}
  /\ restated = {}

InQueue(i) == item[i] \notin {None, Gone}

ItemOp == Op /\ UNCHANGED <<rekeys, faults>>

Fault ==
  /\ faults < MaxFaults
  /\ faults' = faults + 1
  /\ UNCHANGED <<ops, rekeys>>

NoFault == UNCHANGED bounds

(* Another program puts an item into the queue, for a page or for none.    *)
Enqueue(i) ==
  /\ item[i] = None
  /\ \E p \in {r \in Rows : Registered(r)} \cup {None} :
       item' = [item EXCEPT ![i] = [page |-> p, status |-> "REVIEW", original |-> TRUE]]
  /\ UNCHANGED <<pvars, task, inHistory, qhist>>

-----------------------------------------------------------------------------
(* Statements                                                              *)

GetQueueItem(i) == item[i]

DeleteQueueItem(i) == item' = [item EXCEPT ![i] = Gone]

(* A row of the history needs its page.                                    *)
InsertPostHistory(p, i) ==
  /\ Registered(p)
  /\ inHistory' = [inHistory EXCEPT ![i] = @ + 1]

UpdateQueueStatus(i, s) ==
  item' = IF InQueue(i) THEN [item EXCEPT ![i].status = s] ELSE item

UpdateQueueContent(i) ==
  item' = IF InQueue(i) THEN [item EXCEPT ![i].original = FALSE] ELSE item

Done(q) == task' = [task EXCEPT ![q] = NoTask]

Start(q, i, s) ==
  /\ task[q] = NoTask
  /\ InQueue(i)
  /\ ItemOp
  /\ task' = [task EXCEPT ![q] = [NoTask EXCEPT !.at = s, !.item = i, !.read = GetQueueItem(i)]]
  /\ UNCHANGED <<tables, requests, hist, item, inHistory>>

-----------------------------------------------------------------------------
(* Requests of one statement                                               *)

(* UpdateStatus: READY and REJECTED, whatever the item's status is.        *)
UpdateStatus(i, s) ==
  /\ InQueue(i)
  /\ ItemOp
  /\ UpdateQueueStatus(i, s)
  /\ restated' = IF posts[i] > 0 THEN restated \cup {i} ELSE restated
  /\ UNCHANGED <<tables, requests, hist, task, inHistory, posts, cut, loud>>

Approve(i) == UpdateStatus(i, "READY")

Reject(i) == UpdateStatus(i, "REJECTED")

DeleteItem(i) ==
  /\ InQueue(i)
  /\ ItemOp
  /\ DeleteQueueItem(i)
  /\ UNCHANGED <<tables, requests, hist, task, inHistory, qhist>>

-----------------------------------------------------------------------------
(* RegenerateContent: Get, and UpdateContent with what was read, marked.   *)
(* The status stays.                                                       *)

RegenerateContent(q, i) == Start(q, i, "rewrite") /\ UNCHANGED qhist

Rewrite(q) ==
  /\ task[q].at = "rewrite"
  /\ UpdateQueueContent(task[q].item)
  /\ Done(q)
  /\ UNCHANGED <<pvars, inHistory, qhist>>

-----------------------------------------------------------------------------
(* PublishNow                                                              *)

(* Get.  Nobody looks at the item's status.                                *)
PublishNow(q, i) == Start(q, i, "lookUp") /\ UNCHANGED qhist

(* pages.Get of the page the item named; an item without one is refused.   *)
LookUpPage(q) ==
  /\ task[q].at = "lookUp"
  /\ LET p == task[q].read.page IN
     IF p # None /\ Registered(p)
     THEN task' = [task EXCEPT ![q].at = "check", ![q].page = GetPage(p),
                               ![q].off = (asked[p]["posting"] = FALSE)]
     ELSE Done(q)
  /\ UNCHANGED <<pvars, item, inHistory, qhist>>

(* Breakage of MayPublish: the page's posting switch is not looked at.     *)
MayPublishActive(m) == m.active /\ m.token # <<>>

(* The guards of PublishContent.                                           *)
MayPublish(m) == m.active /\ m.posting /\ m.token # <<>>

(* Breakage of Refused: the error of PublishContent is passed over.        *)
RefusedAnyway(q) == task' = [task EXCEPT ![q].at = "mark"]

(* An error of PublishContent ends the request.                            *)
Refused(q) == Done(q)

(* PublishContent's Graph call; a text that is not a token is refused.  A  *)
(* post may go out although the call reports a failure.                    *)
Post(q) ==
  /\ task[q].at = "check"
  /\ LET i == task[q].item  m == task[q].page IN
     \/ /\ MayPublish(m) /\ Len(m.token) = 1
        /\ posts' = [posts EXCEPT ![i] = @ + 1]
        /\ loud' = IF task[q].off THEN loud \cup {task[q].read.page} ELSE loud
        /\ \/ task' = [task EXCEPT ![q].at = "record"] /\ NoFault /\ UNCHANGED cut
           \/ Fault /\ Done(q) /\ cut' = cut \cup {i}
     \/ Refused(q) /\ NoFault /\ UNCHANGED <<posts, cut, loud>>
  /\ UNCHANGED <<tables, requests, hist, item, inHistory, restated>>

(* InsertHistory: an error, such as the missing page, is only logged.      *)
Record(q) ==
  /\ task[q].at = "record"
  /\ LET i == task[q].item  p == task[q].read.page IN
     \/ InsertPostHistory(p, i) /\ NoFault /\ UNCHANGED cut
     \/ ~Registered(p) /\ NoFault /\ UNCHANGED <<inHistory, cut>>
     \/ Fault /\ cut' = cut \cup {i} /\ UNCHANGED inHistory
  /\ task' = [task EXCEPT ![q].at = "mark"]
  /\ UNCHANGED <<tables, requests, hist, item, posts, loud, restated>>

MarkPublished(q) ==
  /\ task[q].at = "mark"
  /\ UpdateQueueStatus(task[q].item, "PUBLISHED")
  /\ Done(q)
  /\ UNCHANGED <<pvars, inHistory, qhist>>

(* The items posted by requests in Q that have not written everything down.*)
Unfinished(Q) == {task[q].item : q \in {o \in Q : task[o].at \in {"record", "mark"}}}

(* A call fails, or the client goes away.  A post that has gone out stays. *)
GiveUpTask(q) ==
  /\ task[q] # NoTask
  /\ Fault
  /\ Done(q)
  /\ cut' = cut \cup Unfinished({q})
  /\ UNCHANGED <<tables, requests, hist, item, inHistory, posts, loud, restated>>

-----------------------------------------------------------------------------
(* Deleting a page: page_id ON DELETE SET NULL in the queue, ON DELETE     *)
(* CASCADE in the history.                                                 *)
DropPage(p) ==
  /\ DeletePage(p)
  /\ item' = [i \in Items |-> IF InQueue(i) /\ item[i].page = p
                              THEN [item[i] EXCEPT !.page = None] ELSE item[i]]
  /\ inHistory' = [i \in Items |-> IF InQueue(i) /\ item[i].page = p THEN 0 ELSE inHistory[i]]
  /\ UNCHANGED <<task, qhist>>

(* The server is started again: these requests are over, too.              *)
RestartServer(k) ==
  /\ Restart(k)
  /\ task' = [q \in Publishers |-> NoTask]
  /\ cut' = cut \cup Unfinished(Publishers)
  /\ UNCHANGED <<item, inHistory, posts, loud, restated>>

QueueRequests ==
  \/ \E i \in Items : Enqueue(i) \/ Approve(i) \/ Reject(i) \/ DeleteItem(i)
  \/ \E q \in Publishers :
       \/ \E i \in Items : RegenerateContent(q, i) \/ PublishNow(q, i)
       \/ Rewrite(q) \/ LookUpPage(q) \/ Post(q) \/ Record(q) \/ MarkPublished(q) \/ GiveUpTask(q)

Next ==
  \/ PageRequests /\ UNCHANGED qvars
  \/ \E p \in Rows : DropPage(p)
  \/ \E k \in Keys \cup {None} : RestartServer(k)
  \/ QueueRequests

Spec == Init /\ [][Next]_vars

-----------------------------------------------------------------------------
(* Properties                                                              *)

(* The types of the tables, with the foreign keys of pages and items.      *)
TypeOK ==
  /\ \A p \in Rows : Registered(p) =>
       page[p] \in PageRow /\ PersonaExists(page[p].persona)
  /\ personas \subseteq Personas /\ key \in Keys \cup {None}
  /\ \A i \in Items : InQueue(i) =>
       /\ item[i] \in ItemRow
       /\ item[i].page # None => Registered(item[i].page)
  /\ \A i \in Items : inHistory[i] <= posts[i]
  /\ ops \in 0 .. MaxOps /\ rekeys \in 0 .. MaxRekeys /\ faults \in 0 .. MaxFaults

(* Switches, persona and texts of a page are what was last asked for,      *)
(* whatever requests overlap, unless somebody wrote the whole row back     *)
(* from a copy that was older: a list that shows an earlier state, or the  *)
(* read of touchLastActive.                                                *)
FieldsAsAsked ==
  \A p \in Rows, g \in Fields \ {"token"} :
    Registered(p) /\ page[p][g] # asked[p][g] => <<p, g>> \in undone

(* The token a page was added with can be read, however often its row is   *)
(* written back, unless the key was replaced or taken away, or the token   *)
(* was stored before there was a key and looks like something sealed.      *)
TokensReadable ==
  \A p \in Rows : Registered(p) /\ p \notin doubtful => GetPage(p).token = asked[p]["token"]

(* A page whose posting has been switched off is not posted to by requests *)
(* that read it afterwards, unless an older copy switched it on again.     *)
SilentAfterSwitchOff == \A p \in loud : <<p, "posting">> \in undone

(* What shows as published has been posted; what is on a feed shows as     *)
(* published unless its status was set by hand after a post; and the       *)
(* history has a row for each post: unless a call failed or a request was  *)
(* cut short behind the post, or it is not through yet.                    *)
PostsAreAccounted ==
  \A i \in Items : InQueue(i) =>
    LET At(S) == \E q \in Publishers : task[q].item = i /\ task[q].at \in S IN
    /\ item[i].status = "PUBLISHED" => posts[i] > 0
    /\ posts[i] > 0 => item[i].status = "PUBLISHED" \/ i \in cut \cup restated \/ At({"record", "mark"})
    /\ posts[i] > inHistory[i] => item[i].page = None \/ i \in cut \/ At({"record"})
=============================================================================
