------------------------------- MODULE Inbox --------------------------------
(***************************************************************************)
(* The Messenger inbox of one page: webhook deliveries that store customer *)
(* messages and count them as unread (service/webhook.go, service/inbox.go,*)
(* handlers/webhook.go), the sync request that creates and updates         *)
(* conversations from Facebook's threads, and the user who marks a         *)
(* conversation read.  Facebook delivers an entry again until it has been  *)
(* answered, and sometimes although it has been; deliveries overlap.       *)
(*                                                                         *)
(* Every database call is a step of its own.  db.Retry makes up to three   *)
(* attempts of one: a call whose answer gets lost may have been applied    *)
(* before it is repeated.                                                  *)
(***************************************************************************)
EXTENDS Naturals, Sequences, FiniteSets

CONSTANTS
  Customers,       \* who write to the page: each has at most one conversation
  Messages,        \* their messages, by Facebook's mid
  Sender,          \* the customer who wrote a message
  Entries,         \* webhook entries
  Batch,           \* the messages of each entry
  Handlers,        \* slots for concurrent deliveries
  NoEntry, NoCustomer,
  MaxUnread,       \* bound: the unread count of a thread at Facebook
  MaxRedeliveries, \* bound: deliveries beyond the one that is owed
  MaxFaults,       \* bound: database calls that fail, deliveries cut short
  MaxSyncs, MaxReads  \* bounds: requests of the user

MessagesOf(e) == {Batch[e][i] : i \in 1 .. Len(Batch[e])}

ASSUME InboxAssumption ==
  /\ Sender \in [Messages -> Customers]
  /\ Batch \in [Entries -> Seq(Messages)]
  /\ \A e \in Entries : Len(Batch[e]) >= 1
  /\ NoEntry \notin Entries /\ NoCustomer \notin Customers
  /\ {MaxUnread, MaxRedeliveries, MaxFaults, MaxSyncs, MaxReads} \subseteq Nat

VARIABLES
  page,       \* "absent" or "registered": the page's row in facebook.pages
  convs,      \* customers with a row in facebook.conversations
  unread,     \* unread_count
  stored,     \* messages with a row in facebook.messages
  noted,      \* entries with a row in facebook.webhook_events that was left
              \* unprocessed or holds an error message
  owed,       \* entries Facebook has had no answer to
  pc, ent, at,  \* where each delivery is, its entry, its message's index
  sync, syncTodo, syncCur,  \* the sync request: step, threads, customer
  redeliveries, faults, syncs, reads,  \* counters of the bounded events
  bumps,      \* history: how often each message has been counted as unread
  blurred,    \* history: messages a failed or unfinished step has to do with
  unknown,    \* history: messages delivered before the page was registered
  beaten,     \* history: messages dropped because another process had
              \* created the conversation a moment earlier
  overlapped, \* history: messages two deliveries worked on at a time
  seen,       \* history: messages stored when their conversation was read
  missed      \* history: messages whose count was reset before they were stored

rows == <<page, convs, unread, stored, noted>>
deliveries == <<owed, pc, ent, at>>
syncing == <<sync, syncTodo, syncCur>>
bounds == <<redeliveries, faults, syncs, reads>>
hist == <<bumps, blurred, unknown, beaten, overlapped, seen, missed>>
vars == <<rows, deliveries, syncing, bounds, hist>>

Init ==
  /\ page = "absent" /\ convs = {} /\ stored = {} /\ noted = {}
  /\ unread = [c \in Customers |-> 0]
  /\ owed = Entries
  /\ pc = [h \in Handlers |-> "idle"]
  /\ ent = [h \in Handlers |-> NoEntry]
  /\ at = [h \in Handlers |-> 1]
  /\ sync = "idle" /\ syncTodo = {} /\ syncCur = NoCustomer
  /\ redeliveries = 0 /\ faults = 0 /\ syncs = 0 /\ reads = 0
  /\ bumps = [m \in Messages |-> 0]
  /\ blurred = {} /\ unknown = {} /\ beaten = {}
  /\ overlapped = {} /\ seen = {} /\ missed = {}

-----------------------------------------------------------------------------
(* The statements that read or write the rows (db/queries/*.sql)           *)

GetByCustomer(c) == c \in convs

InsertConversation(c) == convs' = convs \cup {c}

UpdatePreview(c, delta) == unread' = [unread EXCEPT ![c] = @ + delta]

MarkConversationRead(c) == unread' = [unread EXCEPT ![c] = 0]

(* ON CONFLICT DO NOTHING                                                  *)
InsertMessage(m) == stored' = stored \cup {m}

(* An event with an error message is one a reader of the table can find.   *)
MarkWebhookProcessed(e, failed) == noted' = noted \cup (IF failed THEN {e} ELSE {})

(* What GetConversations may return: any of the page's threads.            *)
ThreadLists == SUBSET Customers

-----------------------------------------------------------------------------
(* Helpers                                                                 *)

Msg(h) == Batch[ent[h]][at[h]]

(* The messages a delivery has not finished with.                          *)
Remaining(h) == {Batch[ent[h]][i] : i \in at[h] .. Len(Batch[ent[h]])}

(* A delivery works on message m: it has not found it stored.              *)
WorksOn(h, m) ==
  pc[h] \in {"page", "conv", "create", "bump", "insert"} /\ Msg(h) = m

Fault ==
  /\ faults < MaxFaults
  /\ faults' = faults + 1
  /\ UNCHANGED <<redeliveries, syncs, reads>>

Goto(h, s) ==
  /\ pc' = [pc EXCEPT ![h] = s]
  /\ UNCHANGED <<owed, ent, at>>

(* HandleWebhookMessage returned no error: on to the entry's next message. *)
NextMessage(h) ==
  /\ IF at[h] < Len(Batch[ent[h]])
     THEN /\ pc' = [pc EXCEPT ![h] = "get"]
          /\ at' = [at EXCEPT ![h] = @ + 1]
     ELSE pc' = [pc EXCEPT ![h] = "markOk"] /\ UNCHANGED at
  /\ UNCHANGED <<owed, ent>>

(* Breakage of Abort: the message is skipped and the others go on.         *)
AbortMessage(h) == NextMessage(h)

(* handleMessaging returns the error: the entry's other messages are left. *)
Abort(h) == Goto(h, "markErr")

(* The slot of a delivery is free again.                                   *)
Release(h) ==
  /\ pc' = [pc EXCEPT ![h] = "idle"]
  /\ ent' = [ent EXCEPT ![h] = NoEntry]
  /\ at' = [at EXCEPT ![h] = 1]

(* Facebook gets its 200, whatever became of the messages.                 *)
Answer(h) ==
  /\ Release(h)
  /\ owed' = owed \ {ent[h]}

-----------------------------------------------------------------------------
(* A webhook delivery                                                      *)

AddPage ==
  /\ page = "absent"
  /\ page' = "registered"
  /\ UNCHANGED <<convs, unread, stored, noted, deliveries, syncing, bounds, hist>>

(* Facebook sends an entry: the one delivery that is owed, or another.     *)
Deliver(h, e) ==
  /\ pc[h] = "idle"
  /\ \/ e \in owed /\ (\A g \in Handlers : ent[g] # e) /\ UNCHANGED bounds
     \/ /\ redeliveries < MaxRedeliveries
        /\ redeliveries' = redeliveries + 1
        /\ UNCHANGED <<faults, syncs, reads>>
  /\ pc' = [pc EXCEPT ![h] = "event"]
  /\ ent' = [ent EXCEPT ![h] = e]
  /\ UNCHANGED <<owed, at, rows, syncing, hist>>

(* webhookRepo.Create: an entry whose event cannot be stored is skipped.   *)
CreateEvent(h) ==
  /\ pc[h] = "event"
  /\ \/ Goto(h, "get") /\ UNCHANGED <<bounds, blurred>>
     \/ Fault /\ Answer(h) /\ blurred' = blurred \cup Remaining(h)
  /\ UNCHANGED <<rows, syncing, bumps, unknown, beaten, overlapped, seen, missed>>

(* Breakage of Known: no message is taken for a duplicate.                 *)
NeverKnown(m) == FALSE

(* The message's mid is in facebook.messages.                              *)
Known(m) == m \in stored

(* Breakage of SkipDuplicate: the entry ends with the duplicate.           *)
LeaveAtDuplicate(h) == Goto(h, "markOk")

SkipDuplicate(h) == NextMessage(h)

(* msgRepo.Get: an error is taken for "not there".                         *)
Get(h) ==
  /\ pc[h] = "get"
  /\ \/ Known(Msg(h)) /\ SkipDuplicate(h) /\ UNCHANGED <<bounds, blurred, overlapped>>
     \/ /\ \/ ~Known(Msg(h)) /\ UNCHANGED <<bounds, blurred>>
           \/ Fault /\ blurred' = blurred \cup {Msg(h)}
        /\ Goto(h, "page")
        /\ overlapped' = IF \E g \in Handlers \ {h} : WorksOn(g, Msg(h))
                         THEN overlapped \cup {Msg(h)} ELSE overlapped
  /\ UNCHANGED <<rows, syncing, bumps, unknown, beaten, seen, missed>>

(* pagesRepo.GetByFBID                                                     *)
FindPage(h) ==
  /\ pc[h] = "page"
  /\ \/ /\ page = "registered" /\ Goto(h, "conv")
        /\ UNCHANGED <<bounds, blurred, unknown>>
     \/ /\ page = "absent" /\ Abort(h)
        /\ unknown' = unknown \cup Remaining(h)
        /\ UNCHANGED <<bounds, blurred>>
     \/ Fault /\ Abort(h) /\ blurred' = blurred \cup Remaining(h) /\ UNCHANGED unknown
  /\ UNCHANGED <<rows, syncing, bumps, beaten, overlapped, seen, missed>>

(* convRepo.GetByCustomer                                                  *)
FindConversation(h) ==
  /\ pc[h] = "conv"
  /\ \/ /\ Goto(h, IF GetByCustomer(Sender[Msg(h)]) THEN "bump" ELSE "create")
        /\ UNCHANGED <<bounds, blurred>>
     \/ Fault /\ Abort(h) /\ blurred' = blurred \cup Remaining(h)
  /\ UNCHANGED <<rows, syncing, bumps, unknown, beaten, overlapped, seen, missed>>

(* Breakage of CountNew: the message that opens a conversation is not      *)
(* counted.                                                                *)
CountNewNot(h) == Goto(h, "insert")

CountNew(h) == Goto(h, "bump")

(* convRepo.Create: unread_count starts at 0; the unique index on page and *)
(* customer refuses a second row, and that error is not transient.         *)
CreateConversation(h) ==
  /\ pc[h] = "create"
  /\ \/ /\ ~GetByCustomer(Sender[Msg(h)])
        /\ InsertConversation(Sender[Msg(h)])
        /\ CountNew(h)
        /\ UNCHANGED <<bounds, blurred, beaten>>
     \/ /\ GetByCustomer(Sender[Msg(h)])
        /\ Abort(h)
        /\ beaten' = beaten \cup Remaining(h)
        /\ UNCHANGED <<bounds, convs, blurred>>
     \/ /\ Fault /\ Abort(h)
        /\ InsertConversation(Sender[Msg(h)]) \/ UNCHANGED convs
        /\ blurred' = blurred \cup Remaining(h)
        /\ UNCHANGED beaten
  /\ UNCHANGED <<page, unread, stored, noted, syncing, bumps, unknown, overlapped, seen, missed>>

(* convRepo.UpdatePreview with a delta of 1; its error is ignored.  An     *)
(* attempt whose answer got lost counts although it is made again: here    *)
(* once more, in the code up to twice.                                     *)
Bump(h) ==
  /\ pc[h] = "bump"
  /\ \E n \in 0 .. 2 :
       /\ UpdatePreview(Sender[Msg(h)], n)
       /\ bumps' = [bumps EXCEPT ![Msg(h)] = @ + n]
       /\ IF n = 1 THEN UNCHANGED <<bounds, blurred>>
                   ELSE Fault /\ blurred' = blurred \cup {Msg(h)}
  /\ Goto(h, "insert")
  /\ UNCHANGED <<page, convs, stored, noted, syncing, unknown, beaten, overlapped, seen, missed>>

(* msgRepo.Insert; its error is only logged.                               *)
Insert(h) ==
  /\ pc[h] = "insert"
  /\ \/ InsertMessage(Msg(h)) /\ UNCHANGED <<bounds, blurred>>
     \/ Fault /\ blurred' = blurred \cup {Msg(h)} /\ UNCHANGED stored
  /\ NextMessage(h)
  /\ UNCHANGED <<page, convs, unread, noted, syncing, bumps, unknown, beaten, overlapped, seen, missed>>

(* webhookRepo.MarkProcessed with or without an error message; the row     *)
(* stays unprocessed when it fails.                                        *)
MarkProcessed(h) ==
  /\ pc[h] \in {"markOk", "markErr"}
  /\ \/ MarkWebhookProcessed(ent[h], pc[h] = "markErr") /\ UNCHANGED bounds
     \/ Fault /\ noted' = noted \cup {ent[h]}
  /\ Answer(h)
  /\ UNCHANGED <<page, convs, unread, stored, syncing, hist>>

(* Facebook hangs up, which ends the request's context and so every later  *)
(* call, or the server goes down: no answer.                               *)
Stop(h) ==
  /\ pc[h] # "idle"
  /\ Fault
  /\ noted' = IF pc[h] = "event" THEN noted ELSE noted \cup {ent[h]}
  /\ blurred' = IF pc[h] = "insert" THEN blurred \cup {Msg(h)} ELSE blurred
  /\ Release(h)
  /\ UNCHANGED <<page, convs, unread, stored, syncing, owed, bumps, unknown, beaten,
                 overlapped, seen, missed>>

-----------------------------------------------------------------------------
(* The sync request and the user                                           *)

(* The page's threads have been fetched.                                   *)
StartSync ==
  /\ sync = "idle" /\ page = "registered"
  /\ syncs < MaxSyncs
  /\ syncs' = syncs + 1
  /\ sync' = "find"
  /\ syncTodo' \in ThreadLists
  /\ UNCHANGED <<syncCur, rows, deliveries, redeliveries, faults, reads, hist>>

(* GetByCustomer for the next thread; an error skips the thread.           *)
SyncFind ==
  /\ sync = "find"
  /\ \E c \in syncTodo :
       /\ syncTodo' = syncTodo \ {c}
       /\ \/ /\ sync' = IF GetByCustomer(c) THEN "bump" ELSE "create"
             /\ syncCur' = c
             /\ UNCHANGED bounds
          \/ Fault /\ UNCHANGED <<sync, syncCur>>
  /\ UNCHANGED <<rows, deliveries, hist>>

NextThread == sync' = "find" /\ syncCur' = NoCustomer /\ UNCHANGED syncTodo

(* Create; an error, such as the row another process has made, is logged.  *)
(* The thread's unread count is no column of the INSERT.                   *)
SyncCreate ==
  /\ sync = "create"
  /\ \/ InsertConversation(syncCur) /\ UNCHANGED bounds
     \/ Fault /\ UNCHANGED convs
  /\ NextThread
  /\ UNCHANGED <<page, unread, stored, noted, deliveries, hist>>

(* UpdatePreview adds the thread's unread count to the one there is.       *)
SyncBump ==
  /\ sync = "bump"
  /\ \/ /\ \E n \in 0 .. MaxUnread : UpdatePreview(syncCur, n)
        /\ UNCHANGED bounds
     \/ Fault /\ UNCHANGED unread
  /\ NextThread
  /\ UNCHANGED <<page, convs, stored, noted, deliveries, hist>>

EndSync ==
  /\ sync = "find" /\ syncTodo = {}
  /\ sync' = "idle"
  /\ UNCHANGED <<syncTodo, syncCur, rows, deliveries, bounds, hist>>

(* The user has the stored messages of a conversation on the screen and    *)
(* marks it read.                                                          *)
MarkRead(c) ==
  /\ c \in convs
  /\ reads < MaxReads
  /\ reads' = reads + 1
  /\ MarkConversationRead(c)
  /\ seen' = seen \cup {m \in stored : Sender[m] = c}
  /\ missed' = missed \cup {m \in Messages : Sender[m] = c /\ \E h \in Handlers : pc[h] = "insert" /\ Msg(h) = m}
  /\ UNCHANGED <<page, convs, stored, noted, deliveries, syncing, redeliveries, faults, syncs,
                 bumps, blurred, unknown, beaten, overlapped>>

-----------------------------------------------------------------------------
Handle(h) ==
  \/ CreateEvent(h) \/ Get(h) \/ FindPage(h) \/ FindConversation(h)
  \/ CreateConversation(h) \/ Bump(h) \/ Insert(h) \/ MarkProcessed(h)

SyncStep == SyncFind \/ SyncCreate \/ SyncBump \/ EndSync

Next ==
  \/ AddPage
  \/ \E h \in Handlers : (\E e \in Entries : Deliver(h, e)) \/ Handle(h) \/ Stop(h)
  \/ StartSync \/ SyncStep
  \/ \E c \in Customers : MarkRead(c)

(* Facebook keeps delivering what it has had no answer to, and a handler   *)
(* that runs goes on.                                                      *)
Spec ==
  /\ Init /\ [][Next]_vars
  /\ \A h \in Handlers : WF_vars(Handle(h))
  /\ \A e \in Entries : WF_vars(e \in owed /\ \E h \in Handlers : Deliver(h, e))

-----------------------------------------------------------------------------
(* Properties                                                              *)

TypeOK ==
  /\ page \in {"absent", "registered"}
  /\ convs \subseteq Customers
  /\ unread \in [Customers -> Nat]
  /\ stored \subseteq Messages
  /\ noted \subseteq Entries /\ owed \subseteq Entries
  /\ pc \in [Handlers -> {"idle", "event", "get", "page", "conv", "create", "bump", "insert",
                          "markOk", "markErr"}]
  /\ ent \in [Handlers -> Entries \cup {NoEntry}]
  /\ \A h \in Handlers : ent[h] = NoEntry <=> pc[h] = "idle"
  /\ at \in [Handlers -> Nat]
  /\ \A h \in Handlers : pc[h] # "idle" => at[h] \in 1 .. Len(Batch[ent[h]])
  /\ sync \in {"idle", "find", "create", "bump"}
  /\ syncTodo \subseteq Customers
  /\ syncCur \in Customers \cup {NoCustomer}
  /\ {redeliveries, faults, syncs, reads} \subseteq Nat
  /\ bumps \in [Messages -> Nat]
  /\ {blurred, unknown, beaten, overlapped, seen, missed} \subseteq SUBSET Messages

(* "Idempotency: skip if this Facebook message ID was already processed"   *)
(* (inbox.go:120): a message raises the unread count once, however often   *)
(* it is delivered, unless two deliveries of it overlap or a call for it   *)
(* fails.                                                                  *)
CountedOnce == \A m \in Messages \ (blurred \cup overlapped) : bumps[m] <= 1

(* A stored message the user has not seen shows as unread, unless its      *)
(* count failed or was reset before the message was there to be seen.      *)
UnseenMeansUnread ==
  \A m \in stored \ (seen \cup missed \cup blurred) : unread[Sender[m]] > 0

(* Facebook's answer says 200 whatever happened, and it will not deliver   *)
(* the entry again: a message of an answered entry is stored, or a call    *)
(* for it failed, or the page was not there, or another process had just   *)
(* created the sender's conversation.                                      *)
LossesHaveACause ==
  \A e \in Entries \ owed : MessagesOf(e) \subseteq stored \cup blurred \cup unknown \cup beaten

(* "Idempotency and replay buffer" (009_webhook.up.sql:2): an answered     *)
(* entry with a message that is not stored has an event row that says so,  *)
(* by its error or by not being processed, unless a call failed.           *)
LossIsOnRecord ==
  \A e \in Entries \ (owed \cup noted) : MessagesOf(e) \subseteq stored \cup blurred

(* Every message a customer sends is stored in the end, but for the same   *)
(* causes, although deliveries are cut short and repeated.                 *)
MessagesArrive ==
  \A m \in Messages : <>(m \in stored \cup blurred \cup unknown \cup beaten)
=============================================================================
