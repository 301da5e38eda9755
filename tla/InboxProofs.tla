---------------------------- MODULE InboxProofs -----------------------------
(***************************************************************************)
(* Proofs about Inbox, for any set of customers, messages and entries, any *)
(* number of overlapping deliveries and any bounds.                        *)
(***************************************************************************)
EXTENDS Inbox, TLAPS

(* The statements are names for single updates: every step may use them.   *)
USE DEF GetByCustomer, InsertConversation, UpdatePreview, MarkConversationRead,
        InsertMessage, MarkWebhookProcessed, ThreadLists

Steps == {"idle", "event", "get", "page", "conv", "create", "bump", "insert",
          "markOk", "markErr"}

(* TypeOK, by the parts the actions write together.  A delivery begins     *)
(* with the first message, and the sync request is at a customer between   *)
(* its two calls: without these TypeOK would not be inductive.             *)
DeliveryTypes ==
  /\ pc \in [Handlers -> Steps]
  /\ ent \in [Handlers -> Entries \cup {NoEntry}]
  /\ at \in [Handlers -> Nat]
  /\ owed \subseteq Entries
  /\ \A h \in Handlers : ent[h] = NoEntry <=> pc[h] = "idle"
  /\ \A h \in Handlers : pc[h] # "idle" => at[h] \in 1 .. Len(Batch[ent[h]])
  /\ \A h \in Handlers : pc[h] \in {"idle", "event"} => at[h] = 1

RowTypes ==
  /\ page \in {"absent", "registered"}
  /\ convs \subseteq Customers
  /\ unread \in [Customers -> Nat]
  /\ stored \subseteq Messages
  /\ noted \subseteq Entries

SyncTypes ==
  /\ sync \in {"idle", "find", "create", "bump"}
  /\ syncTodo \subseteq Customers
  /\ syncCur \in Customers \cup {NoCustomer}
  /\ sync \in {"create", "bump"} => syncCur \in Customers

BoundTypes ==
  /\ redeliveries \in Nat /\ faults \in Nat
  /\ syncs \in Nat /\ reads \in Nat

HistTypes ==
  /\ bumps \in [Messages -> Nat]
  /\ blurred \subseteq Messages /\ unknown \subseteq Messages
  /\ beaten \subseteq Messages /\ overlapped \subseteq Messages
  /\ seen \subseteq Messages /\ missed \subseteq Messages

Types == DeliveryTypes /\ RowTypes /\ SyncTypes /\ BoundTypes /\ HistTypes

LEMMA TypesGiveTypeOK == Types => TypeOK
  BY DEF Types, DeliveryTypes, RowTypes, SyncTypes, BoundTypes, HistTypes, TypeOK, Steps

-----------------------------------------------------------------------------
(* How the steps of a delivery move it                                     *)

(* Only delivery h moves.                                                  *)
Only(h) ==
  \A g \in Handlers \ {h} : pc'[g] = pc[g] /\ ent'[g] = ent[g] /\ at'[g] = at[g]

(* The messages before the one a delivery is at.                           *)
Before(h) == {Batch[ent[h]][i] : i \in 1 .. at[h] - 1}

(* What a delivery is at is an entry, with one of its messages.            *)
LEMMA AtAMessage ==
  ASSUME DeliveryTypes, NEW h \in Handlers, pc[h] # "idle"
  PROVE  /\ ent[h] \in Entries /\ Msg(h) \in Messages
         /\ Remaining(h) \subseteq Messages
         /\ MessagesOf(ent[h]) = Before(h) \cup Remaining(h)
<1>1. ent[h] \in Entries /\ at[h] \in 1 .. Len(Batch[ent[h]])
  BY DEF DeliveryTypes
<1>2. Batch[ent[h]] \in Seq(Messages) /\ Len(Batch[ent[h]]) \in Nat
  BY <1>1, InboxAssumption
<1>3. \A i \in 1 .. Len(Batch[ent[h]]) : Batch[ent[h]][i] \in Messages
  BY <1>2
<1>4. 1 .. Len(Batch[ent[h]]) = (1 .. at[h] - 1) \cup (at[h] .. Len(Batch[ent[h]]))
  BY <1>1, <1>2
<1>5. QED
  BY <1>1, <1>3, <1>4 DEF Msg, Remaining, MessagesOf, Before

LEMMA GotoMoves ==
  ASSUME DeliveryTypes, NEW h \in Handlers, pc[h] # "idle",
         NEW s \in Steps \ {"idle", "event"}, Goto(h, s)
  PROVE  /\ DeliveryTypes' /\ Only(h)
         /\ pc'[h] = s /\ ent' = ent /\ at' = at /\ owed' = owed
  BY DEF DeliveryTypes, Goto, Only, Steps

(* The end of a message: on to the next, or every one is behind.           *)
LEMMA NextMessageMoves ==
  ASSUME DeliveryTypes, NEW h \in Handlers, pc[h] # "idle", NextMessage(h)
  PROVE  /\ DeliveryTypes' /\ Only(h)
         /\ pc'[h] \in {"get", "markOk"} /\ ent' = ent /\ owed' = owed
         /\ pc'[h] = "get" => Before(h)' = Before(h) \cup {Msg(h)}
         /\ pc'[h] = "markOk" => MessagesOf(ent[h]) = Before(h) \cup {Msg(h)}
<1>1. ent[h] \in Entries /\ at[h] \in 1 .. Len(Batch[ent[h]]) /\ Len(Batch[ent[h]]) \in Nat
  BY InboxAssumption DEF DeliveryTypes
<1>2. CASE at[h] < Len(Batch[ent[h]])
  <2>1. pc' = [pc EXCEPT ![h] = "get"] /\ at' = [at EXCEPT ![h] = at[h] + 1]
        /\ UNCHANGED <<owed, ent>>
    BY <1>2 DEF NextMessage
  <2>2. DeliveryTypes'
    BY <1>1, <1>2, <2>1 DEF DeliveryTypes, Steps
  <2>3. 1 .. (at[h] + 1) - 1 = (1 .. at[h] - 1) \cup {at[h]}
    BY <1>1
  <2>4. at'[h] = at[h] + 1 /\ pc'[h] = "get"
    BY <2>1 DEF DeliveryTypes
  <2>5. Before(h)' = Before(h) \cup {Msg(h)}
    BY <2>1, <2>3, <2>4 DEF Before, Msg
  <2>6. QED
    BY <2>1, <2>2, <2>4, <2>5 DEF Only, DeliveryTypes
<1>3. CASE ~(at[h] < Len(Batch[ent[h]]))
  <2>1. pc' = [pc EXCEPT ![h] = "markOk"] /\ UNCHANGED <<owed, ent, at>>
    BY <1>3 DEF NextMessage
  <2>2. at[h] = Len(Batch[ent[h]])
    BY <1>1, <1>3
  <2>3. 1 .. Len(Batch[ent[h]]) = (1 .. at[h] - 1) \cup {at[h]}
    BY <1>1, <2>2
  <2>4. MessagesOf(ent[h]) = Before(h) \cup {Msg(h)}
    BY <2>3 DEF MessagesOf, Before, Msg
  <2>5. QED
    BY <2>1, <2>4 DEF Only, DeliveryTypes, Steps
<1>4. QED
  BY <1>2, <1>3

LEMMA ReleaseMoves ==
  ASSUME DeliveryTypes, NEW h \in Handlers, Release(h), owed' \subseteq owed
  PROVE  DeliveryTypes' /\ Only(h) /\ pc'[h] = "idle"
  BY DEF DeliveryTypes, Release, Only, Steps

LEMMA DeliverMoves ==
  ASSUME DeliveryTypes, NEW h \in Handlers, NEW e \in Entries, Deliver(h, e)
  PROVE  /\ DeliveryTypes' /\ Only(h)
         /\ pc'[h] = "event" /\ owed' = owed
<1>1. pc[h] = "idle" /\ at[h] = 1 /\ Len(Batch[e]) \in Nat /\ Len(Batch[e]) >= 1
  BY InboxAssumption DEF DeliveryTypes, Deliver
<1>2. 1 \in 1 .. Len(Batch[e])
  BY <1>1
<1>3. e # NoEntry
  BY InboxAssumption
<1>4. QED
  BY <1>1, <1>2, <1>3 DEF Deliver, DeliveryTypes, Only, Steps

LEMMA BoundsKept ==
  ASSUME BoundTypes, Fault \/ UNCHANGED bounds PROVE BoundTypes'
  BY DEF BoundTypes, Fault, bounds

-----------------------------------------------------------------------------
(* Types                                                                   *)

LEMMA HandleKeepsTypes ==
  ASSUME Types, NEW h \in Handlers, Handle(h) \/ Stop(h) PROVE Types'
<1> USE DEF Types
<1>0. pc[h] # "idle"
  BY DEF Handle, CreateEvent, Get, FindPage, FindConversation, CreateConversation, Bump,
         Insert, MarkProcessed, Stop
<1>1. Msg(h) \in Messages /\ Remaining(h) \subseteq Messages /\ ent[h] \in Entries
  BY <1>0, AtAMessage
<1>2. Sender[Msg(h)] \in Customers
  BY <1>1, InboxAssumption
<1>3. CASE CreateEvent(h)
  <2>1. DeliveryTypes'
    BY <1>0, <1>3, GotoMoves, ReleaseMoves DEF CreateEvent, Answer, Steps
  <2>2. BoundTypes'
    BY <1>3, BoundsKept DEF CreateEvent
  <2>3. QED
    BY <1>1, <1>3, <2>1, <2>2 DEF CreateEvent, rows, syncing, RowTypes, SyncTypes, HistTypes
<1>4. CASE Get(h)
  <2>1. DeliveryTypes'
    BY <1>0, <1>4, GotoMoves, NextMessageMoves DEF Get, SkipDuplicate, Steps
  <2>2. BoundTypes'
    BY <1>4, BoundsKept DEF Get
  <2>3. blurred' \subseteq Messages /\ overlapped' \subseteq Messages
    BY <1>1, <1>4 DEF Get, HistTypes
  <2>4. QED
    BY <1>4, <2>1, <2>2, <2>3 DEF Get, rows, syncing, RowTypes, SyncTypes, HistTypes
<1>5. CASE FindPage(h)
  <2>1. DeliveryTypes'
    BY <1>0, <1>5, GotoMoves DEF FindPage, Abort, Steps
  <2>2. BoundTypes'
    BY <1>5, BoundsKept DEF FindPage
  <2>3. blurred' \subseteq Messages /\ unknown' \subseteq Messages
    BY <1>1, <1>5 DEF FindPage, HistTypes
  <2>4. QED
    BY <1>5, <2>1, <2>2, <2>3 DEF FindPage, rows, syncing, RowTypes, SyncTypes, HistTypes
<1>6. CASE FindConversation(h)
  <2>1. DeliveryTypes'
    BY <1>0, <1>6, GotoMoves DEF FindConversation, Abort, Steps
  <2>2. BoundTypes'
    BY <1>6, BoundsKept DEF FindConversation
  <2>3. QED
    BY <1>1, <1>6, <2>1, <2>2 DEF FindConversation, rows, syncing, RowTypes, SyncTypes, HistTypes
<1>7. CASE CreateConversation(h)
  <2>1. DeliveryTypes'
    BY <1>0, <1>7, GotoMoves DEF CreateConversation, CountNew, Abort, Steps
  <2>2. BoundTypes'
    BY <1>7, BoundsKept DEF CreateConversation
  <2>3. convs' \subseteq Customers
    BY <1>2, <1>7 DEF CreateConversation, RowTypes
  <2>4. blurred' \subseteq Messages /\ beaten' \subseteq Messages
    BY <1>1, <1>7 DEF CreateConversation, HistTypes
  <2>5. QED
    BY <1>7, <2>1, <2>2, <2>3, <2>4 DEF CreateConversation, syncing, RowTypes, SyncTypes, HistTypes
<1>8. CASE Bump(h)
  <2>1. DeliveryTypes'
    BY <1>0, <1>8, GotoMoves DEF Bump, Steps
  <2>2. PICK n \in 0 .. 2 :
           /\ unread' = [unread EXCEPT ![Sender[Msg(h)]] = @ + n]
           /\ bumps' = [bumps EXCEPT ![Msg(h)] = @ + n]
           /\ IF n = 1 THEN UNCHANGED <<bounds, blurred>>
                       ELSE Fault /\ blurred' = blurred \cup {Msg(h)}
    BY <1>8 DEF Bump
  <2>3. BoundTypes'
    BY <2>2, BoundsKept
  <2>4. unread' \in [Customers -> Nat]
    BY <1>2, <2>2 DEF RowTypes
  <2>5. bumps' \in [Messages -> Nat] /\ blurred' \subseteq Messages
    BY <1>1, <2>2 DEF HistTypes
  <2>6. QED
    BY <1>8, <2>1, <2>3, <2>4, <2>5 DEF Bump, syncing, RowTypes, SyncTypes, HistTypes
<1>9. CASE Insert(h)
  <2>1. DeliveryTypes'
    BY <1>0, <1>9, NextMessageMoves DEF Insert
  <2>2. BoundTypes'
    BY <1>9, BoundsKept DEF Insert
  <2>3. QED
    BY <1>1, <1>9, <2>1, <2>2 DEF Insert, syncing, RowTypes, SyncTypes, HistTypes
<1>10. CASE MarkProcessed(h)
  <2>1. DeliveryTypes'
    BY <1>10, ReleaseMoves DEF MarkProcessed, Answer
  <2>2. BoundTypes'
    BY <1>10, BoundsKept DEF MarkProcessed
  <2>3. noted' \subseteq Entries
    BY <1>1, <1>10 DEF MarkProcessed, RowTypes
  <2>4. QED
    BY <1>10, <2>1, <2>2, <2>3 DEF MarkProcessed, syncing, hist, RowTypes, SyncTypes, HistTypes
<1>11. CASE Stop(h)
  <2>1. DeliveryTypes'
    BY <1>11, ReleaseMoves DEF Stop
  <2>2. BoundTypes'
    BY <1>11, BoundsKept DEF Stop
  <2>3. noted' \subseteq Entries /\ blurred' \subseteq Messages
    BY <1>1, <1>11 DEF Stop, RowTypes, HistTypes
  <2>4. QED
    BY <1>11, <2>1, <2>2, <2>3 DEF Stop, syncing, RowTypes, SyncTypes, HistTypes
<1>12. QED
  BY <1>3, <1>4, <1>5, <1>6, <1>7, <1>8, <1>9, <1>10, <1>11 DEF Handle

LEMMA OthersKeepTypes ==
  ASSUME Types,
         \/ AddPage \/ StartSync \/ SyncStep \/ UNCHANGED vars
         \/ (\E h \in Handlers, e \in Entries : Deliver(h, e))
         \/ (\E c \in Customers : MarkRead(c))
  PROVE  Types'
<1> USE DEF Types
<1>1. CASE AddPage
  BY <1>1 DEF AddPage, deliveries, syncing, bounds, hist, DeliveryTypes, RowTypes, SyncTypes,
              BoundTypes, HistTypes
<1>2. CASE StartSync
  BY <1>2 DEF StartSync, rows, deliveries, hist, DeliveryTypes, RowTypes, SyncTypes, BoundTypes,
              HistTypes
<1>3. CASE SyncFind
  <2>1. BoundTypes'
    BY <1>3, BoundsKept DEF SyncFind
  <2>2. SyncTypes'
    BY <1>3 DEF SyncFind, SyncTypes
  <2>3. QED
    BY <1>3, <2>1, <2>2 DEF SyncFind, rows, deliveries, hist, DeliveryTypes, RowTypes, HistTypes
<1>4. CASE SyncCreate
  <2>1. BoundTypes'
    BY <1>4, BoundsKept DEF SyncCreate
  <2>2. QED
    BY <1>4, <2>1 DEF SyncCreate, NextThread, deliveries, hist, DeliveryTypes, RowTypes, SyncTypes,
                      HistTypes
<1>5. CASE SyncBump
  <2>1. BoundTypes'
    BY <1>5, BoundsKept DEF SyncBump
  <2>2. unread' \in [Customers -> Nat]
    BY <1>5, InboxAssumption DEF SyncBump, RowTypes, SyncTypes
  <2>3. QED
    BY <1>5, <2>1, <2>2 DEF SyncBump, NextThread, deliveries, hist, DeliveryTypes, RowTypes,
                            SyncTypes, HistTypes
<1>6. CASE EndSync
  BY <1>6 DEF EndSync, rows, deliveries, bounds, hist, DeliveryTypes, RowTypes, SyncTypes,
              BoundTypes, HistTypes
<1>7. CASE UNCHANGED vars
  BY <1>7 DEF vars, rows, deliveries, syncing, bounds, hist, DeliveryTypes, RowTypes, SyncTypes,
              BoundTypes, HistTypes
<1>8. ASSUME NEW h \in Handlers, NEW e \in Entries, Deliver(h, e) PROVE Types'
  <2>1. DeliveryTypes'
    BY <1>8, DeliverMoves
  <2>2. BoundTypes'
    BY <1>8 DEF Deliver, BoundTypes, bounds
  <2>3. QED
    BY <1>8, <2>1, <2>2 DEF Deliver, rows, syncing, hist, RowTypes, SyncTypes, HistTypes
<1>9. ASSUME NEW c \in Customers, MarkRead(c) PROVE Types'
  <2>1. missed' \subseteq Messages /\ seen' \subseteq Messages
    BY <1>9 DEF MarkRead, RowTypes, HistTypes
  <2>2. QED
    BY <1>9, <2>1 DEF MarkRead, deliveries, syncing, DeliveryTypes, RowTypes, SyncTypes,
                      BoundTypes, HistTypes
<1>10. QED
  BY <1>1, <1>2, <1>3, <1>4, <1>5, <1>6, <1>7, <1>8, <1>9 DEF SyncStep

LEMMA TypesKept == Types /\ [Next]_vars => Types'
  BY HandleKeepsTypes, OthersKeepTypes DEF Next

LEMMA TypesFromStart == Init => Types
  BY DEF Init, Types, DeliveryTypes, RowTypes, SyncTypes, BoundTypes, HistTypes, Steps

(* The variables have their types, and no delivery runs past its entry.    *)
THEOREM InboxTypeCorrect == Spec => []TypeOK
<1>1. Spec => []Types
  BY TypesFromStart, TypesKept, PTL DEF Spec
<1>2. QED
  BY <1>1, TypesGiveTypeOK, PTL

-----------------------------------------------------------------------------
(* CountedOnce.  A delivery that works on a message has not counted it     *)
(* before Bump; after that the message is about to be stored, and then it  *)
(* is known.                                                               *)

(* A message no two deliveries have worked on at a time has one at most.   *)
Apart ==
  \A m \in Messages \ overlapped : \A g, h \in Handlers :
    WorksOn(g, m) /\ WorksOn(h, m) => g = h

AtInsert(h, m) == pc[h] = "insert" /\ Msg(h) = m

Counted ==
  \A m \in Messages \ (blurred \cup overlapped) :
    /\ bumps[m] <= 1
    /\ \A h \in Handlers : WorksOn(h, m) /\ ~AtInsert(h, m) => bumps[m] = 0
    /\ m \notin stored /\ (\A h \in Handlers : ~AtInsert(h, m)) => bumps[m] = 0

CountInv == Apart /\ Counted

LEMMA CountGivesCountedOnce == CountInv => CountedOnce
  BY DEF CountInv, Counted, CountedOnce

LEMMA OthersStay ==
  ASSUME NEW h \in Handlers, Only(h)
  PROVE  \A g \in Handlers \ {h} : \A m \in Messages :
           /\ WorksOn(g, m)' <=> WorksOn(g, m)
           /\ AtInsert(g, m)' <=> AtInsert(g, m)
  BY DEF Only, WorksOn, AtInsert, Msg

(* A step that counts nothing and takes no new message up: the message it  *)
(* was about to store is stored, or a call for it failed.                  *)
LEMMA QuietKeepsCount ==
  ASSUME CountInv, NEW h \in Handlers, Only(h),
         bumps' = bumps, overlapped' = overlapped,
         blurred \subseteq blurred', stored \subseteq stored',
         \A m \in Messages : WorksOn(h, m)' => WorksOn(h, m),
         \A m \in Messages \ blurred' : AtInsert(h, m) => AtInsert(h, m)' \/ m \in stored',
         \A m \in Messages \ blurred' : WorksOn(h, m)' /\ AtInsert(h, m) => AtInsert(h, m)'
  PROVE  CountInv'
<1>1. Apart'
  BY OthersStay DEF CountInv, Apart
<1>2. Counted'
  <2> SUFFICES ASSUME NEW m \in Messages, m \notin blurred', m \notin overlapped'
               PROVE  /\ bumps[m] <= 1
                      /\ \A g \in Handlers : WorksOn(g, m)' /\ ~AtInsert(g, m)' => bumps[m] = 0
                      /\ m \notin stored' /\ (\A g \in Handlers : ~AtInsert(g, m)') => bumps[m] = 0
    BY DEF Counted
  <2>1. m \notin blurred \cup overlapped
    OBVIOUS
  <2>2. bumps[m] <= 1
    BY <2>1 DEF CountInv, Counted
  <2>3. ASSUME NEW g \in Handlers, WorksOn(g, m)', ~AtInsert(g, m)' PROVE bumps[m] = 0
    BY <2>1, <2>3, OthersStay DEF CountInv, Counted
  <2>4. ASSUME m \notin stored', \A g \in Handlers : ~AtInsert(g, m)' PROVE bumps[m] = 0
    BY <2>1, <2>4, OthersStay DEF CountInv, Counted
  <2>5. QED
    BY <2>2, <2>3, <2>4
<1>3. QED
  BY <1>1, <1>2 DEF CountInv

(* Steps of a delivery that never store or count.                          *)
LEMMA MoveKeepsCount ==
  ASSUME CountInv, DeliveryTypes, NEW h \in Handlers, pc[h] # "idle",
         bumps' = bumps, overlapped' = overlapped, stored' = stored,
         blurred \subseteq blurred',
         \/ /\ pc[h] # "insert"
            /\ \/ \E s \in Steps \ {"idle", "event"} :
                    Goto(h, s) /\ (pc[h] \in {"page", "conv", "create"} \/ s \in {"get", "markOk", "markErr"})
               \/ NextMessage(h)
         \/ Release(h) /\ owed' \subseteq owed /\ (pc[h] = "insert" => Msg(h) \in blurred')
  PROVE  CountInv'
<1>1. Only(h)
  BY GotoMoves, NextMessageMoves, ReleaseMoves
<1>2. \A m \in Messages : WorksOn(h, m)' => WorksOn(h, m)
  <2>1. CASE \E s \in Steps \ {"idle", "event"} :
               Goto(h, s) /\ (pc[h] \in {"page", "conv", "create"} \/ s \in {"get", "markOk", "markErr"})
    BY <2>1, GotoMoves DEF WorksOn, Msg
  <2>2. CASE NextMessage(h)
    BY <2>2, NextMessageMoves DEF WorksOn
  <2>3. CASE Release(h) /\ owed' \subseteq owed
    BY <2>3, ReleaseMoves DEF WorksOn
  <2>4. QED
    BY <2>1, <2>2, <2>3
<1>3. \A m \in Messages \ blurred' : ~AtInsert(h, m)
  BY DEF AtInsert
<1>4. QED
  BY <1>1, <1>2, <1>3, QuietKeepsCount

LEMMA GetKeepsCount ==
  ASSUME CountInv, Types, NEW h \in Handlers, Get(h) PROVE CountInv'
<1>0. pc[h] = "get" /\ DeliveryTypes /\ Msg(h) \in Messages
  BY AtAMessage DEF Get, Types
<1>1. CASE Known(Msg(h)) /\ SkipDuplicate(h) /\ UNCHANGED <<bounds, blurred, overlapped>>
  BY <1>0, <1>1, MoveKeepsCount DEF Get, SkipDuplicate, rows
<1>2. CASE /\ ~Known(Msg(h)) \/ blurred' = blurred \cup {Msg(h)}
           /\ blurred \subseteq blurred'
           /\ Goto(h, "page")
           /\ overlapped' = IF \E g \in Handlers \ {h} : WorksOn(g, Msg(h))
                            THEN overlapped \cup {Msg(h)} ELSE overlapped
  <2>1. Only(h) /\ pc'[h] = "page" /\ Msg(h)' = Msg(h)
    BY <1>0, <1>2, GotoMoves DEF Msg, Steps
  <2>2. \A m \in Messages : WorksOn(h, m)' <=> m = Msg(h)
    BY <2>1 DEF WorksOn
  <2>3. \A m \in Messages : ~AtInsert(h, m) /\ ~AtInsert(h, m)'
    BY <1>0, <2>1 DEF AtInsert
  <2>4. bumps' = bumps /\ stored' = stored
    BY <1>2 DEF Get, rows
  <2>5. Msg(h) \notin overlapped' => \A g \in Handlers \ {h} : ~WorksOn(g, Msg(h))
    BY <1>2
  <2>6. overlapped \subseteq overlapped'
    BY <1>2
  <2>7. Apart'
    BY <2>1, <2>2, <2>5, <2>6, OthersStay DEF CountInv, Apart
  <2>8. Counted'
    <3> SUFFICES ASSUME NEW m \in Messages, m \notin blurred', m \notin overlapped'
                 PROVE  /\ bumps[m] <= 1
                        /\ \A g \in Handlers : WorksOn(g, m)' /\ ~AtInsert(g, m)' => bumps[m] = 0
                        /\ m \notin stored /\ (\A g \in Handlers : ~AtInsert(g, m)') => bumps[m] = 0
      BY <2>4 DEF Counted
    <3>1. m \notin blurred /\ m \notin overlapped
      BY <1>2, <2>6
    <3>2. bumps[m] <= 1
      BY <3>1 DEF CountInv, Counted
    <3>3. m \notin stored /\ (\A g \in Handlers : ~AtInsert(g, m)') => bumps[m] = 0
      BY <2>1, <2>3, <3>1, OthersStay DEF CountInv, Counted
    <3>4. m = Msg(h) => m \notin stored /\ (\A g \in Handlers : ~AtInsert(g, m)')
      <4>1. m = Msg(h) => m \notin stored
        BY <1>2 DEF Known
      <4>2. \A g \in Handlers : AtInsert(g, m) => WorksOn(g, m)
        BY DEF AtInsert, WorksOn
      <4>3. QED
        BY <2>1, <2>3, <2>5, <4>1, <4>2, OthersStay
    <3>5. ASSUME NEW g \in Handlers, WorksOn(g, m)', ~AtInsert(g, m)' PROVE bumps[m] = 0
      <4>1. CASE m = Msg(h)
        BY <3>3, <3>4, <4>1
      <4>2. CASE m # Msg(h)
        BY <2>1, <2>2, <3>1, <3>5, <4>2, OthersStay DEF CountInv, Counted
      <4>3. QED
        BY <4>1, <4>2
    <3>6. QED
      BY <3>2, <3>3, <3>5
  <2>9. QED
    BY <2>7, <2>8 DEF CountInv
<1>3. QED
  BY <1>0, <1>1, <1>2 DEF Get

LEMMA BumpKeepsCount ==
  ASSUME CountInv, Types, NEW h \in Handlers, Bump(h) PROVE CountInv'
<1>0. pc[h] = "bump" /\ DeliveryTypes /\ Msg(h) \in Messages /\ bumps \in [Messages -> Nat]
  BY AtAMessage DEF Bump, Types, HistTypes
<1>1. PICK n \in 0 .. 2 :
         /\ bumps' = [bumps EXCEPT ![Msg(h)] = @ + n]
         /\ IF n = 1 THEN UNCHANGED <<bounds, blurred>>
                     ELSE Fault /\ blurred' = blurred \cup {Msg(h)}
  BY DEF Bump
<1>2. Only(h) /\ pc'[h] = "insert" /\ Msg(h)' = Msg(h)
  BY <1>0, GotoMoves DEF Bump, Msg, Steps
<1>3. \A m \in Messages : (WorksOn(h, m)' <=> WorksOn(h, m)) /\ (AtInsert(h, m)' <=> m = Msg(h))
  BY <1>0, <1>2 DEF WorksOn, AtInsert
<1>4. WorksOn(h, Msg(h)) /\ ~AtInsert(h, Msg(h))
  BY <1>0 DEF WorksOn, AtInsert
<1>5. overlapped' = overlapped /\ stored' = stored /\ blurred \subseteq blurred'
  BY <1>1 DEF Bump
<1>6. Apart'
  BY <1>2, <1>3, <1>5, OthersStay DEF CountInv, Apart
<1>7. Counted'
  <2> SUFFICES ASSUME NEW m \in Messages, m \notin blurred', m \notin overlapped
               PROVE  /\ bumps'[m] <= 1
                      /\ \A g \in Handlers : WorksOn(g, m)' /\ ~AtInsert(g, m)' => bumps'[m] = 0
                      /\ m \notin stored /\ (\A g \in Handlers : ~AtInsert(g, m)') => bumps'[m] = 0
    BY <1>5 DEF Counted
  <2>1. m \notin blurred \cup overlapped
    BY <1>5
  <2>2. CASE m = Msg(h)
    <3>1. bumps[m] = 0 /\ n = 1
      BY <1>1, <1>4, <2>1, <2>2 DEF CountInv, Counted
    <3>2. bumps'[m] = 1
      BY <1>0, <1>1, <2>2, <3>1
    <3>3. \A g \in Handlers : WorksOn(g, m)' => g = h
      BY <1>2, <1>4, <2>1, <2>2, OthersStay DEF CountInv, Apart
    <3>4. QED
      BY <1>3, <2>2, <3>2, <3>3
  <2>3. CASE m # Msg(h)
    <3>1. bumps'[m] = bumps[m]
      BY <1>0, <1>1, <2>3
    <3>2. ~AtInsert(h, m) /\ ~AtInsert(h, m)' /\ ~WorksOn(h, m)'
      BY <1>0, <1>2, <2>3 DEF AtInsert, WorksOn
    <3>3. QED
      BY <1>2, <2>1, <3>1, <3>2, OthersStay DEF CountInv, Counted
  <2>4. QED
    BY <2>2, <2>3
<1>8. QED
  BY <1>6, <1>7 DEF CountInv

LEMMA InsertKeepsCount ==
  ASSUME CountInv, Types, NEW h \in Handlers, Insert(h) PROVE CountInv'
<1>0. pc[h] = "insert" /\ DeliveryTypes
  BY DEF Insert, Types
<1>1. Only(h) /\ pc'[h] \in {"get", "markOk"}
  BY <1>0, NextMessageMoves DEF Insert
<1>2. Msg(h) \in stored' \cup blurred' /\ stored \subseteq stored' /\ blurred \subseteq blurred'
  BY DEF Insert
<1>3. \A m \in Messages : ~WorksOn(h, m)' /\ (AtInsert(h, m) => m = Msg(h))
  BY <1>1 DEF WorksOn, AtInsert
<1>4. QED
  BY <1>1, <1>2, <1>3, QuietKeepsCount DEF Insert

LEMMA CountKept ==
  ASSUME CountInv, Types, [Next]_vars PROVE CountInv'
<1>1. ASSUME NEW h \in Handlers, Handle(h) \/ Stop(h) PROVE CountInv'
  <2>0. DeliveryTypes
    BY DEF Types
  <2>1. CASE CreateEvent(h)
    BY <2>0, <2>1, MoveKeepsCount DEF CreateEvent, Answer, rows, Steps
  <2>2. CASE Get(h)
    BY <2>2, GetKeepsCount
  <2>3. CASE FindPage(h)
    BY <2>0, <2>3, MoveKeepsCount DEF FindPage, Abort, rows, Steps
  <2>4. CASE FindConversation(h)
    BY <2>0, <2>4, MoveKeepsCount DEF FindConversation, Abort, rows, Steps
  <2>5. CASE CreateConversation(h)
    BY <2>0, <2>5, MoveKeepsCount DEF CreateConversation, CountNew, Abort, Steps
  <2>6. CASE Bump(h)
    BY <2>6, BumpKeepsCount
  <2>7. CASE Insert(h)
    BY <2>7, InsertKeepsCount
  <2>8. CASE MarkProcessed(h)
    BY <2>0, <2>8, MoveKeepsCount DEF MarkProcessed, Answer, hist
  <2>9. CASE Stop(h)
    BY <2>0, <2>9, MoveKeepsCount DEF Stop
  <2>10. QED
    BY <1>1, <2>1, <2>2, <2>3, <2>4, <2>5, <2>6, <2>7, <2>8, <2>9 DEF Handle
<1>2. ASSUME NEW h \in Handlers, NEW e \in Entries, Deliver(h, e) PROVE CountInv'
  <2>1. Only(h) /\ pc'[h] = "event" /\ pc[h] = "idle"
    BY <1>2, DeliverMoves DEF Types, Deliver
  <2>2. QED
    BY <1>2, <2>1, QuietKeepsCount DEF Deliver, rows, hist, WorksOn, AtInsert
<1>3. CASE \/ AddPage \/ StartSync \/ SyncStep \/ UNCHANGED vars \/ \E c \in Customers : MarkRead(c)
  <2>1. UNCHANGED <<deliveries, stored, bumps, blurred, overlapped>>
    BY <1>3 DEF AddPage, StartSync, SyncStep, SyncFind, SyncCreate, SyncBump, EndSync, MarkRead, rows,
                hist, vars
  <2>2. \A h \in Handlers, m \in Messages :
          (WorksOn(h, m)' <=> WorksOn(h, m)) /\ (AtInsert(h, m)' <=> AtInsert(h, m))
    BY <2>1 DEF WorksOn, AtInsert, Msg, deliveries
  <2>3. QED
    BY <2>1, <2>2 DEF CountInv, Apart, Counted
<1>4. QED
  BY <1>1, <1>2, <1>3 DEF Next

LEMMA CountFromStart == Init => CountInv
  BY DEF Init, CountInv, Apart, Counted, WorksOn

(* However often and however late a message is delivered, it is counted as *)
(* unread once, unless deliveries of it overlap or a call for it fails.    *)
THEOREM MessagesAreCountedOnce == Spec => []CountedOnce
<1>1. Spec => [](Types /\ CountInv)
  BY TypesFromStart, TypesKept, CountFromStart, CountKept, PTL DEF Spec
<1>2. QED
  BY <1>1, CountGivesCountedOnce, PTL

-----------------------------------------------------------------------------
(* UnseenMeansUnread.  The count is raised before the message is stored,   *)
(* so from the insert on the conversation shows something unread.          *)

SeenInv ==
  \A m \in Messages \ (missed \cup blurred) :
    m \in stored \ seen \/ (\E h \in Handlers : AtInsert(h, m)) => unread[Sender[m]] > 0

LEMMA SeenGivesUnseen ==
  ASSUME SeenInv, Types PROVE UnseenMeansUnread
  BY DEF SeenInv, UnseenMeansUnread, Types, RowTypes

(* A step that lowers no count and stores nothing but what it was about to.*)
LEMMA QuietKeepsSeen ==
  ASSUME SeenInv, Types, Types', NEW h \in Handlers, Only(h),
         \A c \in Customers : unread'[c] >= unread[c],
         seen' = seen, missed' = missed, blurred \subseteq blurred',
         \A m \in stored' \ blurred' : m \in stored \/ AtInsert(h, m),
         \A m \in Messages \ blurred' : AtInsert(h, m)' => AtInsert(h, m)
  PROVE  SeenInv'
<1> SUFFICES ASSUME NEW m \in Messages, m \notin missed, m \notin blurred',
                    m \in stored' \ seen \/ (\E g \in Handlers : AtInsert(g, m)')
             PROVE  unread'[Sender[m]] > 0
  BY DEF SeenInv
<1>1. m \in stored \ seen \/ (\E g \in Handlers : AtInsert(g, m))
  BY OthersStay
<1>2. unread[Sender[m]] > 0
  BY <1>1 DEF SeenInv
<1>3. Sender[m] \in Customers
  BY InboxAssumption
<1>4. unread[Sender[m]] \in Nat /\ unread'[Sender[m]] \in Nat
  BY <1>3 DEF Types, RowTypes
<1>5. QED
  BY <1>2, <1>3, <1>4

LEMMA BumpKeepsSeen ==
  ASSUME SeenInv, Types, NEW h \in Handlers, Bump(h) PROVE SeenInv'
<1>0. pc[h] = "bump" /\ DeliveryTypes /\ Msg(h) \in Messages /\ unread \in [Customers -> Nat]
  BY AtAMessage DEF Bump, Types, RowTypes
<1>1. PICK n \in 0 .. 2 :
         /\ unread' = [unread EXCEPT ![Sender[Msg(h)]] = @ + n]
         /\ IF n = 1 THEN UNCHANGED <<bounds, blurred>>
                     ELSE Fault /\ blurred' = blurred \cup {Msg(h)}
  BY DEF Bump
<1>2. Only(h) /\ pc'[h] = "insert" /\ Msg(h)' = Msg(h)
  BY <1>0, GotoMoves DEF Bump, Msg, Steps
<1>3. seen' = seen /\ missed' = missed /\ stored' = stored /\ blurred \subseteq blurred'
  BY <1>1 DEF Bump
<1> SUFFICES ASSUME NEW m \in Messages, m \notin missed, m \notin blurred',
                    m \in stored \ seen \/ (\E g \in Handlers : AtInsert(g, m)')
             PROVE  unread'[Sender[m]] > 0
  BY <1>3 DEF SeenInv
<1>4. Sender[m] \in Customers /\ Sender[Msg(h)] \in Customers
  BY <1>0, InboxAssumption
<1>5. unread[Sender[m]] \in Nat /\ unread'[Sender[m]] \in {unread[Sender[m]], unread[Sender[m]] + n}
  BY <1>0, <1>1, <1>4
<1>6. CASE m = Msg(h)
  <2>1. n = 1
    BY <1>1, <1>6
  <2>2. unread'[Sender[m]] = unread[Sender[m]] + 1
    BY <1>0, <1>1, <1>4, <1>6, <2>1
  <2>3. QED
    BY <1>5, <2>2
<1>7. CASE m # Msg(h)
  <2>1. ~AtInsert(h, m)'
    BY <1>2, <1>7 DEF AtInsert
  <2>2. m \in stored \ seen \/ (\E g \in Handlers : AtInsert(g, m))
    BY <1>2, <2>1, OthersStay
  <2>3. unread[Sender[m]] > 0
    BY <1>3, <2>2 DEF SeenInv
  <2>4. QED
    BY <1>5, <2>3
<1>8. QED
  BY <1>6, <1>7

(* A conversation that is read has its stored messages seen, and those     *)
(* that are about to be stored are missed.                                 *)
LEMMA ReadKeepsSeen ==
  ASSUME SeenInv, Types, NEW c \in Customers, MarkRead(c) PROVE SeenInv'
<1>1. \A h \in Handlers, m \in Messages : AtInsert(h, m)' <=> AtInsert(h, m)
  BY DEF MarkRead, deliveries, AtInsert, Msg
<1> SUFFICES ASSUME NEW m \in Messages, m \notin missed', m \notin blurred,
                    m \in stored \ seen' \/ (\E h \in Handlers : AtInsert(h, m))
             PROVE  unread'[Sender[m]] > 0
  BY <1>1 DEF SeenInv, MarkRead
<1>2. m \notin missed /\ m \notin seen' => m \notin seen
  BY DEF MarkRead
<1>3. Sender[m] # c
  BY DEF MarkRead, AtInsert
<1>4. unread'[Sender[m]] = unread[Sender[m]]
  BY <1>3, InboxAssumption DEF MarkRead, Types, RowTypes
<1>5. m \notin missed
  BY DEF MarkRead
<1>6. unread[Sender[m]] > 0
  BY <1>2, <1>5 DEF SeenInv, MarkRead
<1>7. QED
  BY <1>4, <1>6

LEMMA SeenKept ==
  ASSUME SeenInv, Types, [Next]_vars PROVE SeenInv'
<1>0. Types' /\ DeliveryTypes /\ unread \in [Customers -> Nat]
  BY TypesKept DEF Types, RowTypes
<1>1. ASSUME NEW h \in Handlers, Handle(h) \/ Stop(h) PROVE SeenInv'
  <2>1. CASE Bump(h)
    BY <2>1, BumpKeepsSeen
  <2>2. CASE Insert(h)
    <3>1. Only(h) /\ pc'[h] \in {"get", "markOk"} /\ pc[h] = "insert"
      BY <1>0, <2>2, NextMessageMoves DEF Insert
    <3>2. \A c \in Customers : unread'[c] >= unread[c]
      BY <1>0, <2>2 DEF Insert
    <3>3. \A m \in stored' : m \in stored \/ AtInsert(h, m)
      BY <2>2 DEF Insert, AtInsert
    <3>4. \A m \in Messages : ~AtInsert(h, m)'
      BY <3>1 DEF AtInsert
    <3>5. seen' = seen /\ missed' = missed /\ blurred \subseteq blurred'
      BY <2>2 DEF Insert
    <3>6. QED
      BY <1>0, <3>1, <3>2, <3>3, <3>4, <3>5, QuietKeepsSeen
  <2>3. CASE ~Bump(h) /\ ~Insert(h)
    <3>1. pc[h] # "idle" /\ Only(h) /\ pc'[h] # "insert"
      BY <1>0, <1>1, <2>3, GotoMoves, NextMessageMoves, ReleaseMoves
         DEF Handle, CreateEvent, Get, SkipDuplicate, FindPage, FindConversation,
             CreateConversation, CountNew, Abort, MarkProcessed, Answer, Stop, Steps
    <3>2. UNCHANGED <<unread, seen, missed, stored>> /\ blurred \subseteq blurred'
      BY <1>1, <2>3
         DEF Handle, CreateEvent, Get, FindPage, FindConversation, CreateConversation,
             MarkProcessed, Stop, rows, hist
    <3>3. \A c \in Customers : unread'[c] >= unread[c]
      BY <1>0, <3>2
    <3>4. \A m \in Messages : ~AtInsert(h, m)'
      BY <3>1 DEF AtInsert
    <3>5. QED
      BY <1>0, <3>1, <3>2, <3>3, <3>4, QuietKeepsSeen
  <2>4. QED
    BY <2>1, <2>2, <2>3
<1>2. ASSUME NEW h \in Handlers, NEW e \in Entries, Deliver(h, e) PROVE SeenInv'
  <2>1. Only(h) /\ pc'[h] = "event"
    BY <1>0, <1>2, DeliverMoves
  <2>2. \A c \in Customers : unread'[c] >= unread[c]
    BY <1>0, <1>2 DEF Deliver, rows
  <2>3. QED
    BY <1>0, <1>2, <2>1, <2>2, QuietKeepsSeen DEF Deliver, rows, hist, AtInsert
<1>3. CASE AddPage \/ StartSync \/ SyncStep \/ UNCHANGED vars
  <2>1. UNCHANGED <<deliveries, stored, seen, missed, blurred>>
    BY <1>3 DEF AddPage, StartSync, SyncStep, SyncFind, SyncCreate, SyncBump, EndSync, rows, hist, vars
  <2>2. \A h \in Handlers, m \in Messages : AtInsert(h, m)' <=> AtInsert(h, m)
    BY <2>1 DEF AtInsert, Msg, deliveries
  <2>3. \A c \in Customers : unread'[c] >= unread[c]
    <3>1. CASE SyncBump
      <4>1. PICK n \in Nat : unread' = [unread EXCEPT ![syncCur] = @ + n] \/ UNCHANGED unread
        BY <3>1, InboxAssumption DEF SyncBump
      <4>2. QED
        BY <1>0, <4>1
    <3>2. CASE ~SyncBump
      BY <1>0, <1>3, <3>2 DEF AddPage, StartSync, SyncStep, SyncFind, SyncCreate, EndSync, rows, vars
    <3>3. QED
      BY <3>1, <3>2
  <2>4. \A m \in Messages : unread[Sender[m]] > 0 => unread'[Sender[m]] > 0
    <3> SUFFICES ASSUME NEW m \in Messages, unread[Sender[m]] > 0 PROVE unread'[Sender[m]] > 0
      OBVIOUS
    <3>1. Sender[m] \in Customers
      BY InboxAssumption
    <3>2. unread[Sender[m]] \in Nat /\ unread'[Sender[m]] \in Nat
      BY <1>0, <3>1 DEF Types, RowTypes
    <3>3. QED
      BY <2>3, <3>1, <3>2
  <2>5. QED
    BY <2>1, <2>2, <2>4 DEF SeenInv
<1>4. ASSUME NEW c \in Customers, MarkRead(c) PROVE SeenInv'
  BY <1>4, ReadKeepsSeen
<1>5. QED
  BY <1>1, <1>2, <1>3, <1>4 DEF Next

LEMMA SeenFromStart == Init => SeenInv
  BY DEF Init, SeenInv, AtInsert

(* A stored message nobody has seen shows as unread, unless its count      *)
(* failed or the conversation was read between count and insert.           *)
THEOREM UnseenMessagesShow == Spec => []UnseenMeansUnread
<1>1. Spec => [](Types /\ SeenInv)
  BY TypesFromStart, TypesKept, SeenFromStart, SeenKept, PTL DEF Spec
<1>2. QED
  BY <1>1, SeenGivesUnseen, PTL

-----------------------------------------------------------------------------
(* LossesHaveACause and LossIsOnRecord.  What a delivery has left behind   *)
(* is stored or a call for it failed; when it ends its entry early, the    *)
(* rest has one of the known causes, and the event row gets an error.      *)

ProgressOf(h) ==
  /\ pc[h] \in {"event", "get", "page", "conv", "create", "bump", "insert"}
       => Before(h) \subseteq stored \cup blurred
  /\ pc[h] = "markOk" => MessagesOf(ent[h]) \subseteq stored \cup blurred
  /\ pc[h] = "markErr" => MessagesOf(ent[h]) \subseteq stored \cup blurred \cup unknown \cup beaten

LossInv ==
  /\ \A h \in Handlers : ProgressOf(h)
  /\ LossesHaveACause /\ LossIsOnRecord

(* The sets only grow, so the other deliveries keep what they have.        *)
Grows ==
  /\ stored \subseteq stored' /\ blurred \subseteq blurred'
  /\ unknown \subseteq unknown' /\ beaten \subseteq beaten' /\ noted \subseteq noted'

LEMMA OthersProgress ==
  ASSUME LossInv, NEW h \in Handlers, Only(h), Grows, ProgressOf(h)', owed' = owed
  PROVE  LossInv'
<1>1. ASSUME NEW g \in Handlers, g # h PROVE ProgressOf(g)'
  <2>1. ProgressOf(g) /\ pc'[g] = pc[g] /\ ent'[g] = ent[g] /\ at'[g] = at[g]
    BY <1>1 DEF LossInv, Only
  <2>2. Before(g)' = Before(g)
    BY <2>1 DEF Before
  <2>3. QED
    BY <2>1, <2>2 DEF ProgressOf, Grows
<1>2. LossesHaveACause' /\ LossIsOnRecord'
  BY DEF LossInv, LossesHaveACause, LossIsOnRecord, Grows
<1>3. QED
  BY <1>1, <1>2 DEF LossInv

(* A delivery that ends, answered or not.                                  *)
LEMMA EndKeepsLoss ==
  ASSUME LossInv, DeliveryTypes, NEW h \in Handlers, Release(h), Grows,
         pc[h] # "idle",
         \/ owed' = owed
         \/ /\ owed' = owed \ {ent[h]}
            /\ MessagesOf(ent[h]) \subseteq stored' \cup blurred' \cup unknown' \cup beaten'
            /\ ent[h] \in noted' \/ MessagesOf(ent[h]) \subseteq stored' \cup blurred'
  PROVE  LossInv'
<1>1. Only(h) /\ pc'[h] = "idle"
  BY ReleaseMoves
<1>2. \A g \in Handlers : ProgressOf(g)'
  <2>1. ASSUME NEW g \in Handlers, g # h PROVE ProgressOf(g)'
    <3>1. ProgressOf(g) /\ pc'[g] = pc[g] /\ ent'[g] = ent[g] /\ at'[g] = at[g]
      BY <1>1, <2>1 DEF LossInv, Only
    <3>2. Before(g)' = Before(g)
      BY <3>1 DEF Before
    <3>3. QED
      BY <3>1, <3>2 DEF ProgressOf, Grows
  <2>2. ProgressOf(h)'
    BY <1>1 DEF ProgressOf
  <2>3. QED
    BY <2>1, <2>2
<1>3. LossesHaveACause' /\ LossIsOnRecord'
  BY DEF LossInv, LossesHaveACause, LossIsOnRecord, Grows
<1>4. QED
  BY <1>2, <1>3 DEF LossInv

(* A delivery that goes on with its message.                               *)
LEMMA GotoKeepsLoss ==
  ASSUME LossInv, DeliveryTypes, NEW h \in Handlers, Grows,
         pc[h] \in {"event", "get", "page", "conv", "create", "bump"},
         NEW s \in {"get", "page", "conv", "create", "bump", "insert"}, Goto(h, s)
  PROVE  LossInv'
<1>1. Only(h) /\ pc'[h] = s /\ ent' = ent /\ at' = at /\ owed' = owed
  BY GotoMoves DEF Steps
<1>2. Before(h)' = Before(h)
  BY <1>1 DEF Before
<1>3. ProgressOf(h)'
  BY <1>1, <1>2 DEF LossInv, ProgressOf, Grows
<1>4. QED
  BY <1>1, <1>3, OthersProgress

(* A delivery that gives its entry up: the rest has a cause.               *)
LEMMA AbortKeepsLoss ==
  ASSUME LossInv, DeliveryTypes, NEW h \in Handlers, Grows,
         pc[h] \in {"page", "conv", "create"}, Abort(h),
         Remaining(h) \subseteq blurred' \cup unknown' \cup beaten'
  PROVE  LossInv'
<1>1. Only(h) /\ pc'[h] = "markErr" /\ ent' = ent /\ at' = at /\ owed' = owed
  BY GotoMoves DEF Abort, Steps
<1>2. MessagesOf(ent[h]) = Before(h) \cup Remaining(h)
  BY AtAMessage
<1>3. Before(h) \subseteq stored \cup blurred
  BY DEF LossInv, ProgressOf
<1>4. ProgressOf(h)'
  BY <1>1, <1>2, <1>3 DEF ProgressOf, Grows
<1>5. QED
  BY <1>1, <1>4, OthersProgress

(* A delivery that is done with its message.                               *)
LEMMA NextMessageKeepsLoss ==
  ASSUME LossInv, DeliveryTypes, NEW h \in Handlers, Grows,
         pc[h] \in {"get", "insert"}, NextMessage(h), Msg(h) \in stored' \cup blurred'
  PROVE  LossInv'
<1>1. /\ Only(h) /\ pc'[h] \in {"get", "markOk"} /\ ent' = ent /\ owed' = owed
      /\ pc'[h] = "get" => Before(h)' = Before(h) \cup {Msg(h)}
      /\ pc'[h] = "markOk" => MessagesOf(ent[h]) = Before(h) \cup {Msg(h)}
  BY NextMessageMoves
<1>2. Before(h) \subseteq stored \cup blurred
  BY DEF LossInv, ProgressOf
<1>3. ProgressOf(h)'
  BY <1>1, <1>2 DEF ProgressOf, Grows
<1>4. QED
  BY <1>1, <1>3, OthersProgress

LEMMA HandleKeepsLoss ==
  ASSUME LossInv, Types, NEW h \in Handlers, Handle(h) \/ Stop(h) PROVE LossInv'
<1>0. DeliveryTypes
  BY DEF Types
<1>1. CASE CreateEvent(h)
  <2>1. Grows
    BY <1>1 DEF CreateEvent, Grows, rows
  <2>2. CASE Goto(h, "get")
    BY <1>0, <1>1, <2>1, <2>2, GotoKeepsLoss DEF CreateEvent
  <2>3. CASE Answer(h) /\ blurred' = blurred \cup Remaining(h)
    <3>1. Before(h) \subseteq stored \cup blurred /\ MessagesOf(ent[h]) = Before(h) \cup Remaining(h)
      BY <1>0, <1>1, AtAMessage DEF CreateEvent, LossInv, ProgressOf
    <3>2. MessagesOf(ent[h]) \subseteq stored' \cup blurred'
      BY <2>1, <2>3, <3>1 DEF Grows
    <3>3. QED
      BY <1>0, <1>1, <2>1, <2>3, <3>2, EndKeepsLoss DEF CreateEvent, Answer
  <2>4. QED
    BY <1>1, <2>2, <2>3 DEF CreateEvent
<1>2. CASE Get(h)
  <2>1. Grows
    BY <1>2 DEF Get, Grows, rows
  <2>2. CASE Known(Msg(h)) /\ SkipDuplicate(h)
    BY <1>0, <1>2, <2>1, <2>2, NextMessageKeepsLoss DEF Get, Known, SkipDuplicate, rows
  <2>3. CASE Goto(h, "page")
    BY <1>0, <1>2, <2>1, <2>3, GotoKeepsLoss DEF Get
  <2>4. QED
    BY <1>2, <2>2, <2>3 DEF Get
<1>3. CASE FindPage(h)
  <2>1. Grows
    BY <1>3 DEF FindPage, Grows, rows
  <2>2. CASE Goto(h, "conv")
    BY <1>0, <1>3, <2>1, <2>2, GotoKeepsLoss DEF FindPage
  <2>3. CASE Abort(h) /\ (unknown' = unknown \cup Remaining(h) \/ blurred' = blurred \cup Remaining(h))
    BY <1>0, <1>3, <2>1, <2>3, AbortKeepsLoss DEF FindPage
  <2>4. QED
    BY <1>3, <2>2, <2>3 DEF FindPage
<1>4. CASE FindConversation(h)
  <2>1. Grows
    BY <1>4 DEF FindConversation, Grows, rows
  <2>2. CASE Goto(h, IF Sender[Msg(h)] \in convs THEN "bump" ELSE "create")
    BY <1>0, <1>4, <2>1, <2>2, GotoKeepsLoss DEF FindConversation
  <2>3. CASE Abort(h) /\ blurred' = blurred \cup Remaining(h)
    BY <1>0, <1>4, <2>1, <2>3, AbortKeepsLoss DEF FindConversation
  <2>4. QED
    BY <1>4, <2>2, <2>3 DEF FindConversation
<1>5. CASE CreateConversation(h)
  <2>1. Grows
    BY <1>5 DEF CreateConversation, Grows
  <2>2. CASE CountNew(h)
    BY <1>0, <1>5, <2>1, <2>2, GotoKeepsLoss DEF CreateConversation, CountNew
  <2>3. CASE Abort(h) /\ (beaten' = beaten \cup Remaining(h) \/ blurred' = blurred \cup Remaining(h))
    BY <1>0, <1>5, <2>1, <2>3, AbortKeepsLoss DEF CreateConversation
  <2>4. QED
    BY <1>5, <2>2, <2>3 DEF CreateConversation
<1>6. CASE Bump(h)
  <2>1. Grows
    BY <1>6 DEF Bump, Grows
  <2>2. QED
    BY <1>0, <1>6, <2>1, GotoKeepsLoss DEF Bump
<1>7. CASE Insert(h)
  <2>1. Grows
    BY <1>7 DEF Insert, Grows
  <2>2. QED
    BY <1>0, <1>7, <2>1, NextMessageKeepsLoss DEF Insert
<1>8. CASE MarkProcessed(h)
  <2>1. Grows
    BY <1>8 DEF MarkProcessed, Grows, hist
  <2>2. ProgressOf(h) /\ pc[h] \in {"markOk", "markErr"} /\ UNCHANGED <<stored, blurred, unknown, beaten>>
    BY <1>8 DEF LossInv, MarkProcessed, hist
  <2>3. MessagesOf(ent[h]) \subseteq stored' \cup blurred' \cup unknown' \cup beaten'
    BY <2>2 DEF ProgressOf
  <2>4. ent[h] \in noted' \/ MessagesOf(ent[h]) \subseteq stored' \cup blurred'
    BY <1>8, <2>2 DEF MarkProcessed, ProgressOf
  <2>5. QED
    BY <1>0, <1>8, <2>1, <2>2, <2>3, <2>4, EndKeepsLoss DEF MarkProcessed, Answer
<1>9. CASE Stop(h)
  <2>1. Grows
    BY <1>9 DEF Stop, Grows
  <2>2. QED
    BY <1>0, <1>9, <2>1, EndKeepsLoss DEF Stop
<1>10. QED
  BY <1>1, <1>2, <1>3, <1>4, <1>5, <1>6, <1>7, <1>8, <1>9 DEF Handle

LEMMA LossKept ==
  ASSUME LossInv, Types, [Next]_vars PROVE LossInv'
<1>0. DeliveryTypes
  BY DEF Types
<1>1. ASSUME NEW h \in Handlers, Handle(h) \/ Stop(h) PROVE LossInv'
  BY <1>1, HandleKeepsLoss
<1>2. ASSUME NEW h \in Handlers, NEW e \in Entries, Deliver(h, e) PROVE LossInv'
  <2>1. Only(h) /\ pc'[h] = "event" /\ owed' = owed /\ DeliveryTypes'
    BY <1>0, <1>2, DeliverMoves
  <2>2. at'[h] = 1
    BY <2>1 DEF DeliveryTypes
  <2>3. ProgressOf(h)'
    BY <2>1, <2>2 DEF ProgressOf, Before
  <2>4. Grows
    BY <1>2 DEF Deliver, Grows, rows, hist
  <2>5. QED
    BY <2>1, <2>3, <2>4, OthersProgress
<1>3. CASE \/ AddPage \/ StartSync \/ SyncStep \/ UNCHANGED vars \/ \E c \in Customers : MarkRead(c)
  <2>1. UNCHANGED <<deliveries, stored, noted, blurred, unknown, beaten>>
    BY <1>3 DEF AddPage, StartSync, SyncStep, SyncFind, SyncCreate, SyncBump, EndSync, MarkRead, rows,
                hist, vars
  <2>2. \A h \in Handlers : ProgressOf(h)' <=> ProgressOf(h)
    BY <2>1 DEF ProgressOf, Before, deliveries
  <2>3. QED
    BY <2>1, <2>2 DEF LossInv, LossesHaveACause, LossIsOnRecord, deliveries
<1>4. QED
  BY <1>1, <1>2, <1>3 DEF Next

LEMMA LossFromStart == Init => LossInv
  BY DEF Init, LossInv, ProgressOf, LossesHaveACause, LossIsOnRecord

(* A message Facebook will not deliver again is stored, or there is one of *)
(* four reasons why it is not.                                             *)
THEOREM LostMessagesHaveACause == Spec => []LossesHaveACause
<1>1. LossInv => LossesHaveACause
  BY DEF LossInv
<1>2. QED
  BY <1>1, TypesFromStart, TypesKept, LossFromStart, LossKept, PTL DEF Spec

(* An answered entry with a message that is not stored has an event row    *)
(* that says so, unless a call for the message failed.                     *)
THEOREM LostMessagesAreOnRecord == Spec => []LossIsOnRecord
<1>1. LossInv => LossIsOnRecord
  BY DEF LossInv
<1>2. QED
  BY <1>1, TypesFromStart, TypesKept, LossFromStart, LossKept, PTL DEF Spec
=============================================================================
