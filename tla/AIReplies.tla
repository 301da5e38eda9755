------------------------------ MODULE AIReplies ------------------------------
(***************************************************************************)
(* The AI's answers to Messenger messages (service/ai_responder.go): every *)
(* message the webhook hands on, a repeated one too, starts a goroutine    *)
(* that passes the gates of MaybeReply, asks OpenAI and sends the answer.  *)
(* The goroutines share the rate limiter and the breaker                   *)
(* (service/ai_protection.go).  The module extends CircuitBreaker: its     *)
(* callers are the goroutines, and its actions parts of theirs.            *)
(***************************************************************************)
EXTENDS CircuitBreaker

CONSTANTS
  Pages, LocalId, FbId,       \* pages, their id in facebook.pages and Facebook's
  Conversations, PageOf,      \* conversations and their pages
  PerConvCooldown, Window, PerPageMax,               \* limits of the limiter
  MaxAITurns,                 \* answers of the AI in one conversation
  MaxMessages, MaxRedeliveries, MaxFaults, MaxToggles   \* bounds of the model

(* A local id is a UUID, Facebook's ids are numbers.                       *)
ASSUME RepliesAssumption ==
  /\ \A p, q \in Pages : LocalId[p] # FbId[q]
  /\ PageOf \in [Conversations -> Pages]
  /\ {PerConvCooldown, Window, MaxAITurns} \subseteq Nat \ {0}
  /\ {PerPageMax, MaxMessages, MaxRedeliveries, MaxFaults, MaxToggles} \subseteq Nat

VARIABLES
  aiEnabled,      \* conversations whose AI is on
  last,           \* "none", "plain", "stop", "reply": the latest message of each
  turns,          \* stored AI messages of each conversation
  convAge,        \* time since the limiter let it through, up to PerConvCooldown
  pageWindow,     \* how much of at most each age it let through, by its key for the page
  at,             \* "idle", "load", "count", "ask", "list", "off", "call", "send"
  conv,           \* the conversation of each goroutine
  messages, redeliveries, faults, toggles,           \* counted for the bounds
  bearers,        \* history: goroutines with a stop signal to see, unless excused
  passed          \* history: the same by the real page

limiter == <<convAge, pageWindow, passed>>
rows == <<aiEnabled, last, turns>>
world == <<messages, redeliveries, toggles>>
vars == <<breakerVars, limiter, rows, at, conv, world, faults, bearers>>

(* GetByFBID: the page with this Facebook id, if there is one.             *)
PageByFBID(id) == {p \in Pages : FbId[p] = id}

(* The page MaybeReply and SendMessage look up for a conversation, by      *)
(* conv.PageID, a local id.  The limiter's key is its Facebook id, and ""  *)
(* for a page that was not found: the error of the lookup is dropped.      *)
PageFor(v) == PageByFBID(LocalId[PageOf[v]])

(* A window has no entry as old as Window.                                 *)
Ages == 0 .. Window - 1

Empty == [a \in Ages |-> 0]

(* One entry more, as old as now.                                          *)
Entered(w) == [a \in Ages |-> w[a] + 1]

(* Entries leave the window at its edge.  (The code drops them when it     *)
(* looks next.)                                                            *)
Aged(w) == [a \in Ages |-> IF a = 0 THEN 0 ELSE w[a - 1]]

Size(w) == w[Window - 1]

Init ==
  /\ BreakerInit
  /\ aiEnabled = Conversations
  /\ last = [v \in Conversations |-> "none"]
  /\ turns = [v \in Conversations |-> 0]
  /\ convAge = [v \in Conversations |-> PerConvCooldown]
  /\ pageWindow = [k \in {PageFor(v) : v \in Conversations} |-> Empty]
  /\ at = [c \in Callers |-> "idle"]
  /\ conv \in {[c \in Callers |-> v] : v \in Conversations}
  /\ messages = 0 /\ redeliveries = 0 /\ faults = 0 /\ toggles = 0
  /\ bearers = {}
  /\ passed = [p \in Pages |-> Empty]

(* The statements on the rows (db/queries/conversations.sql, messages.sql) *)
GetConversation(v) == [ai_enabled |-> v \in aiEnabled]

CountAITurns(v) == turns[v]

(* The newest comes first.                                                 *)
ListMessages(v) == last[v]

ToggleConversationAI(v, on) ==
  aiEnabled' = IF on THEN aiEnabled \cup {v} ELSE aiEnabled \ {v}

Goto(c, step) == at' = [at EXCEPT ![c] = step]

(* An error of the database, of Graph, or the end of the context's 30 s.   *)
Fault ==
  /\ faults < MaxFaults
  /\ faults' = faults + 1

(* MaybeReply returns without having looked for a stop signal, or without  *)
(* having switched the AI off.                                             *)
Abandon(c) ==
  /\ Goto(c, "idle")
  /\ bearers' = bearers \ {c}

(* Goroutines that have not read the messages of v yet.                    *)
Unlooked(v) == {c \in Callers : conv[c] = v /\ at[c] \in {"load", "count", "ask", "list"}}

(* The goroutine of a message, which is to see the latest one stored.      *)
Launch(c, v) ==
  /\ at[c] = "idle"
  /\ Goto(c, "load")
  /\ conv' = [conv EXCEPT ![c] = v]
  /\ bearers' = (bearers \ ({c} \cup IF last'[v] = last[v] THEN {} ELSE Unlooked(v)))
                   \cup {d \in {c} : last'[v] = "stop"}

(* A message comes in and its goroutine starts, also when the message      *)
(* could not be stored, which is only logged.  A message is stamped before *)
(* it is stored: one that was stamped later may be there already, and the  *)
(* latest is the one stamped last.                                         *)
Message(c, v, text) ==
  /\ messages < MaxMessages
  /\ messages' = messages + 1
  /\ \/ /\ last' = [last EXCEPT ![v] = text]
        /\ UNCHANGED faults
     \/ /\ last[v] # "none"
        /\ UNCHANGED <<last, faults>>
     \/ /\ Fault
        /\ UNCHANGED last
  /\ Launch(c, v)
  /\ UNCHANGED <<breakerVars, limiter, aiEnabled, turns, redeliveries, toggles>>

(* A delivery is repeated: the message is known, and its goroutine starts  *)
(* all the same.                                                           *)
Redelivery(c, v) ==
  /\ redeliveries < MaxRedeliveries
  /\ redeliveries' = redeliveries + 1
  /\ last[v] # "none"
  /\ UNCHANGED last
  /\ Launch(c, v)
  /\ UNCHANGED <<breakerVars, limiter, aiEnabled, turns, messages, toggles, faults>>

(* The conversation is read, and the page, whose error is dropped.         *)
Load(c) ==
  /\ at[c] = "load"
  /\ \/ /\ Goto(c, IF GetConversation(conv[c]).ai_enabled THEN "count" ELSE "idle")
        /\ UNCHANGED <<faults, bearers>>
     \/ Fault /\ Abandon(c)
  /\ UNCHANGED <<breakerVars, limiter, rows, conv, world>>

(* At the turn limit the AI is to be switched off; an error of the count   *)
(* is passed over.                                                         *)
CountTurns(c) ==
  /\ at[c] = "count"
  /\ \/ /\ Goto(c, IF CountAITurns(conv[c]) < MaxAITurns THEN "ask" ELSE "off")
        /\ UNCHANGED faults
     \/ Fault /\ Goto(c, "ask")
  /\ UNCHANGED <<breakerVars, limiter, rows, conv, world, bearers>>

(* Breakage of LimiterAllows: one entry too many.                          *)
LimiterAllowsOneMore(v) ==
  /\ convAge[v] >= PerConvCooldown
  /\ Size(pageWindow[PageFor(v)]) <= PerPageMax

(* aiRateLimiter.Allow returns true.                                       *)
LimiterAllows(v) ==
  /\ convAge[v] >= PerConvCooldown
  /\ Size(pageWindow[PageFor(v)]) < PerPageMax

BreakerRefuses ==
  \/ state = "open" /\ age <= OpenDuration
  \/ state = "half-open" /\ ~FreeSlot

TakeTurn(v) ==
  /\ LimiterAllows(v)
  /\ convAge' = [convAge EXCEPT ![v] = 0]
  /\ pageWindow' = [pageWindow EXCEPT ![PageFor(v)] = Entered(@)]
  /\ passed' = [passed EXCEPT ![PageOf[v]] = Entered(@)]

(* The limiter and then the breaker, in memory and each under its lock.    *)
(* What the breaker refuses has been counted by the limiter.               *)
Ask(c) ==
  /\ at[c] = "ask"
  /\ \/ /\ ~LimiterAllows(conv[c])
        /\ Abandon(c)
        /\ UNCHANGED <<breakerVars, limiter>>
     \/ /\ TakeTurn(conv[c])
        /\ BreakerRefuses
        /\ Abandon(c)
        /\ UNCHANGED breakerVars
     \/ /\ TakeTurn(conv[c])
        /\ Allow(c)
        /\ Goto(c, "list")
        /\ UNCHANGED bearers
  /\ UNCHANGED <<rows, conv, world, faults>>

(* Breakage of AsksForHuman: the oldest message is looked at, which is the *)
(* latest only as long as there is no other.                               *)
AsksForHumanFirst(c) == ListMessages(conv[c]) = "stop" /\ messages = 1

(* shouldStopAutoChat of the latest message.                               *)
AsksForHuman(c) == ListMessages(conv[c]) = "stop"

(* The messages are read: the latest decides.  An answer of the AI not     *)
(* older than 30 s ends the goroutine, and after a stop signal all that is *)
(* left to do is to switch the AI off; from then on, and after an error,   *)
(* nothing is reported to the breaker.                                     *)
List(c) ==
  /\ at[c] = "list"
  /\ \/ /\ ReturnEarly(c)
        /\ Fault
        /\ Abandon(c)
     \/ /\ AsksForHuman(c)
        /\ ReturnEarly(c)
        /\ Goto(c, "off")
        /\ UNCHANGED <<faults, bearers>>
     \/ /\ ~AsksForHuman(c)
        /\ \E fresh \in BOOLEAN :
             IF ListMessages(conv[c]) = "reply" /\ fresh
             THEN ReturnEarly(c) /\ Goto(c, "idle")
             ELSE Goto(c, "call") /\ UNCHANGED breakerVars
        /\ UNCHANGED <<faults, bearers>>
  /\ UNCHANGED <<limiter, rows, conv, world>>

(* The AI is switched off, or the error dropped.                           *)
SwitchOff(c) ==
  /\ at[c] = "off"
  /\ \/ /\ ToggleConversationAI(conv[c], FALSE)
        /\ Goto(c, "idle")
        /\ UNCHANGED <<faults, bearers>>
     \/ /\ Fault
        /\ Abandon(c)
        /\ UNCHANGED aiEnabled
  /\ UNCHANGED <<breakerVars, limiter, last, turns, conv, world>>

(* callAI and the cleaning of its answer, of which nothing may be left.    *)
CallAI(c) ==
  /\ at[c] = "call"
  /\ \/ Succeed(c) /\ Goto(c, "send")
     \/ (Succeed(c) \/ Fail(c)) /\ Goto(c, "idle")
  /\ UNCHANGED <<limiter, rows, conv, world, faults, bearers>>

(* SendMessage: without a page there is no sending.  An error ends it, and *)
(* when only the message could not be stored the rows are none the wiser.  *)
Send(c) ==
  /\ at[c] = "send"
  /\ Goto(c, "idle")
  /\ \/ /\ IF PageFor(conv[c]) = {}
             THEN UNCHANGED <<last, turns, bearers>>
             ELSE /\ last' = [last EXCEPT ![conv[c]] = "reply"]
                  /\ turns' = [turns EXCEPT ![conv[c]] = @ + 1]
                  /\ bearers' = bearers \ Unlooked(conv[c])
        /\ UNCHANGED faults
     \/ Fault /\ UNCHANGED <<last, turns, bearers>>
  /\ UNCHANGED <<breakerVars, limiter, aiEnabled, conv, world>>

(* POST /conversations/:id/toggle-ai.  Staff may switch on what a stop     *)
(* signal has switched off.                                                *)
ToggleAI(v) ==
  /\ toggles < MaxToggles
  /\ toggles' = toggles + 1
  /\ \E on \in BOOLEAN :
       /\ ToggleConversationAI(v, on)
       /\ bearers' = bearers \ {c \in Callers : on /\ conv[c] = v /\ at[c] = "idle"}
  /\ UNCHANGED <<breakerVars, limiter, last, turns, at, conv, messages, redeliveries, faults>>

Tick ==
  /\ BreakerTick
  /\ convAge' = [v \in Conversations |->
                   IF convAge[v] < PerConvCooldown THEN convAge[v] + 1 ELSE PerConvCooldown]
  /\ pageWindow' = [k \in DOMAIN pageWindow |-> Aged(pageWindow[k])]
  /\ passed' = [p \in Pages |-> Aged(passed[p])]
  /\ UNCHANGED <<rows, at, conv, world, faults, bearers>>

MaybeReply(c) ==
  Load(c) \/ CountTurns(c) \/ Ask(c) \/ List(c) \/ SwitchOff(c) \/ CallAI(c) \/ Send(c)

Next ==
  \/ \E c \in Callers, v \in Conversations :
       (\E text \in {"plain", "stop"} : Message(c, v, text)) \/ Redelivery(c, v)
  \/ \E c \in Callers : MaybeReply(c)
  \/ \E v \in Conversations : ToggleAI(v)
  \/ Tick

Spec == Init /\ [][Next]_vars

-----------------------------------------------------------------------------
(* The limiter never holds more than its limits.                           *)
TypeOK ==
  /\ BreakerTypeOK
  /\ aiEnabled \subseteq Conversations
  /\ last \in [Conversations -> {"none", "plain", "stop", "reply"}]
  /\ turns \in [Conversations -> Nat]
  /\ convAge \in [Conversations -> 0 .. PerConvCooldown]
  /\ pageWindow \in [{PageFor(v) : v \in Conversations} -> [Ages -> 0 .. PerPageMax]]
  /\ at \in [Callers -> {"idle", "load", "count", "ask", "list", "off", "call", "send"}]
  /\ conv \in [Callers -> Conversations]
  /\ bearers \subseteq Callers
  /\ passed \in [Pages -> [Ages -> Nat]]

(* A customer who asks for a human is heard ("we stop auto-chat ... to let *)
(* staff take over", ai_responder.go:578-580): a goroutine that starts     *)
(* while the latest message stored is a stop signal, whichever message it  *)
(* was started for, asks OpenAI for no answer, and when it is done the     *)
(* conversation's AI is off; unless the limiter or the breaker turned it   *)
(* away, an error ended it, a later message was stored before it looked,   *)
(* or staff switched the AI on afterwards.  Of a signal that could not be  *)
(* stored nobody hears.                                                    *)
StopIsHeard ==
  \A c \in bearers :
    /\ at[c] \notin {"call", "send"}
    /\ at[c] = "idle" => conv[c] \notin aiEnabled

(* In no window of the limiter's length does a page get more answers       *)
(* through than its limit ("per-page rate limits", ai_protection.go:10),   *)
(* whatever key the limiter counts it under.                               *)
PagesKeepTheirLimit == \A p \in Pages : Size(passed[p]) <= PerPageMax
=============================================================================
