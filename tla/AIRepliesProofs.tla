--------------------------- MODULE AIRepliesProofs ---------------------------
(***************************************************************************)
(* Proofs about AIReplies and about CircuitBreaker, which it extends, for  *)
(* any number of goroutines, conversations and pages and any limits; and   *)
(* about RetryLoop, which stands for the client that makes the call to     *)
(* OpenAI and the calls to Graph, for any retry limit, initial backoff and *)
(* set of replies that end a call at once.                                 *)
(***************************************************************************)
EXTENDS AIReplies, RetryLoop, TLAPS

(* The statements are names for single reads and updates: every step may  *)
(* use them.                                                              *)
USE DEF GetConversation, CountAITurns, ListMessages, ToggleConversationAI

Steps == {"idle", "load", "count", "ask", "list", "off", "call", "send"}

GoroutinesOK ==
  /\ at \in [Callers -> Steps]
  /\ conv \in [Callers -> Conversations]
  /\ last \in [Conversations -> {"none", "plain", "stop", "reply"}]

(* StopIsHeard speaks of the end of a goroutine and of what it asks.  On   *)
(* its way to the messages the latest is still the stop signal, or the     *)
(* goroutine would have been excused.                                      *)
BearersOK ==
  \A c \in bearers :
    /\ at[c] = "idle" => conv[c] \notin aiEnabled
    /\ at[c] \in {"load", "count", "ask", "list"} => last[conv[c]] = "stop"
    /\ at[c] \notin {"call", "send"}

HeardInv == GoroutinesOK /\ bearers \subseteq Callers /\ BearersOK

(* A goroutine that takes a step, and what the others see of it.           *)
LEMMA Walk ==
  ASSUME GoroutinesOK, NEW c \in Callers, NEW s \in Steps, Goto(c, s)
  PROVE  /\ at' \in [Callers -> Steps]
         /\ at'[c] = s
         /\ \A d \in Callers \ {c} : at'[d] = at[d]
  BY DEF Goto, GoroutinesOK

LEMMA HeardInvariant == Spec => []HeardInv
<1> USE DEF HeardInv, BearersOK
<1>1. Init => HeardInv
  BY DEF Init, GoroutinesOK, Steps
<1>2. ASSUME HeardInv, [Next]_vars PROVE HeardInv'
  <2> USE <1>2
  <2>1. ASSUME NEW c \in Callers, NEW v \in Conversations, Launch(c, v), UNCHANGED aiEnabled,
               last' \in [Conversations -> {"none", "plain", "stop", "reply"}],
               \A u \in Conversations \ {v} : last'[u] = last[u]
        PROVE  HeardInv'
    <3>1. at[c] = "idle" /\ Goto(c, "load") /\ conv' = [conv EXCEPT ![c] = v]
      BY <2>1 DEF Launch
    <3>2. at' \in [Callers -> Steps] /\ at'[c] = "load" /\ \A d \in Callers \ {c} : at'[d] = at[d]
      BY <3>1, Walk DEF Steps
    <3>3. GoroutinesOK' /\ bearers' \subseteq Callers
      <4>1. bearers' \subseteq bearers \cup {c}
        BY <2>1 DEF Launch
      <4>2. QED
        BY <2>1, <3>1, <3>2, <4>1 DEF GoroutinesOK
    <3>4. ASSUME NEW d \in bearers', d = c
          PROVE  conv'[d] = v /\ last'[v] = "stop"
      BY <2>1, <3>1, <3>4 DEF GoroutinesOK, Launch
    <3>5. ASSUME NEW d \in bearers', d # c
          PROVE  /\ d \in bearers /\ conv'[d] = conv[d]
                 /\ last'[conv[d]] = last[conv[d]] \/ d \notin Unlooked(conv[d])
      <4>1. d \in bearers /\ (last'[v] = last[v] \/ d \notin Unlooked(v))
        BY <2>1, <3>5 DEF Launch
      <4>2. conv[d] \in Conversations /\ conv'[d] = conv[d]
        BY <3>1, <3>5, <4>1 DEF GoroutinesOK
      <4>3. QED
        BY <2>1, <4>1, <4>2
    <3>6. ASSUME NEW d \in bearers'
          PROVE  /\ at'[d] = "idle" => conv'[d] \notin aiEnabled'
                 /\ at'[d] \in {"load", "count", "ask", "list"} => last'[conv'[d]] = "stop"
                 /\ at'[d] \notin {"call", "send"}
      <4>1. CASE d = c
        BY <3>2, <3>4, <4>1
      <4>2. CASE d # c
        <5>1. d \in bearers /\ conv'[d] = conv[d] /\ at'[d] = at[d] /\ d \in Callers
          BY <3>2, <3>5, <4>2
        <5>2. at[d] \in {"load", "count", "ask", "list"} => last'[conv[d]] = last[conv[d]]
          BY <3>5, <4>2, <5>1 DEF Unlooked
        <5>3. QED
          BY <2>1, <5>1, <5>2
      <4>3. QED
        BY <4>1, <4>2
    <3>7. QED
      BY <3>3, <3>6
  <2>2. ASSUME NEW c \in Callers, NEW v \in Conversations,
               Redelivery(c, v) \/ \E t \in {"plain", "stop"} : Message(c, v, t)
        PROVE  HeardInv'
    <3>1. last \in [Conversations -> {"none", "plain", "stop", "reply"}]
      BY DEF GoroutinesOK
    <3>2. CASE Redelivery(c, v)
      BY <2>1, <3>1, <3>2 DEF Redelivery
    <3>3. ASSUME NEW t \in {"plain", "stop"}, Message(c, v, t) PROVE HeardInv'
      <4>1. last' = [last EXCEPT ![v] = t] \/ last' = last
        BY <3>3 DEF Message
      <4>2. Launch(c, v) /\ UNCHANGED aiEnabled
        BY <3>3 DEF Message
      <4>3. QED
        BY <2>1, <3>1, <4>1, <4>2
    <3>4. QED
      BY <2>2, <3>2, <3>3
  <2>3. ASSUME NEW c \in Callers, NEW s \in Steps, Goto(c, s), UNCHANGED <<conv, last>>,
               aiEnabled' \subseteq aiEnabled,
               bearers' = bearers \ {c} \/ bearers' = bearers,
               c \in bearers' =>
                 /\ s = "idle" => conv[c] \notin aiEnabled'
                 /\ s \in {"load", "count", "ask", "list"} => last[conv[c]] = "stop"
                 /\ s \notin {"call", "send"}
        PROVE  HeardInv'
    <3>1. at' \in [Callers -> Steps] /\ at'[c] = s /\ \A d \in Callers \ {c} : at'[d] = at[d]
      BY <2>3, Walk
    <3>2. GoroutinesOK'
      BY <2>3, <3>1 DEF GoroutinesOK
    <3>3. QED
      BY <2>3, <3>1, <3>2 DEF GoroutinesOK
  <2>4. ASSUME NEW c \in Callers, Load(c) PROVE HeardInv'
    BY <2>4, <2>3 DEF Load, Abandon, rows, Steps
  <2>5. ASSUME NEW c \in Callers, CountTurns(c) PROVE HeardInv'
    BY <2>5, <2>3 DEF CountTurns, rows, Steps
  <2>6. ASSUME NEW c \in Callers, Ask(c) PROVE HeardInv'
    BY <2>6, <2>3 DEF Ask, Abandon, rows, Steps
  <2>7. ASSUME NEW c \in Callers, List(c) PROVE HeardInv'
    BY <2>7, <2>3 DEF List, Abandon, AsksForHuman, rows, Steps
  <2>8. ASSUME NEW c \in Callers, CallAI(c) PROVE HeardInv'
    BY <2>8, <2>3 DEF CallAI, rows, Steps
  <2>9. ASSUME NEW c \in Callers, Send(c) PROVE HeardInv'
    <3>1. c \notin bearers /\ at[c] = "send" /\ Goto(c, "idle") /\ UNCHANGED <<conv, aiEnabled>>
      BY <2>9 DEF Send
    <3>2. CASE UNCHANGED <<last, bearers>>
      <4>1. "idle" \in Steps /\ c \notin bearers'
        BY <3>1, <3>2 DEF Steps
      <4>2. QED
        BY <2>3, <3>1, <3>2, <4>1
    <3>3. CASE /\ last' = [last EXCEPT ![conv[c]] = "reply"]
               /\ bearers' = bearers \ Unlooked(conv[c])
      <4>1. at' \in [Callers -> Steps] /\ \A d \in Callers \ {c} : at'[d] = at[d]
        BY <3>1, Walk DEF Steps
      <4>2. GoroutinesOK'
        BY <3>1, <3>3, <4>1 DEF GoroutinesOK
      <4>3. ASSUME NEW d \in bearers', at[d] \in {"load", "count", "ask", "list"}
            PROVE  last'[conv[d]] = last[conv[d]]
        BY <3>1, <3>3, <4>3 DEF Unlooked, GoroutinesOK
      <4>4. QED
        BY <3>1, <3>3, <4>1, <4>2, <4>3
    <3>4. QED
      BY <2>9, <3>2, <3>3 DEF Send
  <2>10. ASSUME NEW v \in Conversations, ToggleAI(v) PROVE HeardInv'
    <3>1. UNCHANGED <<at, conv, last>> /\ GoroutinesOK'
      BY <2>10 DEF ToggleAI, GoroutinesOK
    <3>2. PICK on \in BOOLEAN :
            /\ aiEnabled' = IF on THEN aiEnabled \cup {v} ELSE aiEnabled \ {v}
            /\ bearers' = bearers \ {c \in Callers : on /\ conv[c] = v /\ at[c] = "idle"}
      BY <2>10 DEF ToggleAI
    <3>3. QED
      BY <3>1, <3>2
  <2>11. CASE Tick
    BY <2>11 DEF Tick, rows, GoroutinesOK
  <2>12. CASE UNCHANGED vars
    BY <2>12 DEF vars, rows, GoroutinesOK
  <2>13. ASSUME NEW c \in Callers, SwitchOff(c) PROVE HeardInv'
    BY <2>13, <2>3 DEF SwitchOff, Abandon, Steps
  <2>14. QED
    BY <2>2, <2>4, <2>5, <2>6, <2>7, <2>8, <2>9, <2>10, <2>11, <2>12, <2>13 DEF Next, MaybeReply
<1>3. QED
  BY <1>1, <1>2, PTL DEF Spec

(* A goroutine that starts with a stop signal as the latest message asks   *)
(* for no answer and leaves the AI off, unless it is turned away, hit by   *)
(* an error, overtaken before it looked, or the AI switched on again.      *)
THEOREM StopSignalsAreHeard == Spec => []StopIsHeard
<1>1. HeardInv => StopIsHeard
  BY DEF HeardInv, BearersOK, StopIsHeard
<1>2. QED
  BY <1>1, HeardInvariant, PTL

(* The goroutines use the breaker as CircuitBreaker has it: asked before   *)
(* the call, and told its result once.                                     *)
THEOREM AnswersUseTheBreaker == Spec => BreakerInit /\ [][BreakerNext]_breakerVars
<1>1. Init => BreakerInit
  BY DEF Init
<1>2. [Next]_vars => [BreakerNext]_breakerVars
  <2> SUFFICES ASSUME [Next]_vars PROVE BreakerNext \/ UNCHANGED breakerVars
    BY DEF breakerVars, breaker, breakerHist
  <2>1. ASSUME NEW c \in Callers, NEW v \in Conversations, NEW t \in {"plain", "stop"},
               Message(c, v, t)
        PROVE  UNCHANGED breakerVars
    BY <2>1 DEF Message
  <2>2. ASSUME NEW c \in Callers, NEW v \in Conversations, Redelivery(c, v)
        PROVE  UNCHANGED breakerVars
    BY <2>2 DEF Redelivery
  <2>3. ASSUME NEW c \in Callers, MaybeReply(c) PROVE BreakerNext \/ UNCHANGED breakerVars
    BY <2>3 DEF MaybeReply, Load, CountTurns, Ask, List, SwitchOff, CallAI, Send, BreakerNext, Finish
  <2>4. ASSUME NEW v \in Conversations, ToggleAI(v) PROVE UNCHANGED breakerVars
    BY <2>4 DEF ToggleAI
  <2>5. CASE Tick
    BY <2>5 DEF Tick, BreakerNext
  <2>6. QED
    BY <2>1, <2>2, <2>3, <2>4, <2>5 DEF Next, vars
<1>3. QED
  BY <1>1, <1>2, PTL DEF Spec

-----------------------------------------------------------------------------
(* CircuitBreaker                                                          *)

(* For QuietAfterOpening: lastFailureAt is no older than the opening, and  *)
(* only an open breaker has opened recently.                               *)
BreakerInv ==
  /\ BreakerTypeOK
  /\ FailuresAreConsecutive
  /\ age <= sinceOpened
  /\ state # "open" => sinceOpened > OpenDuration

LEMMA BreakerInvariant == BreakerInit /\ [][BreakerNext]_breakerVars => []BreakerInv
<1>0. MaxFailures \in Nat /\ MaxFailures >= 1 /\ OpenDuration \in Nat /\ HalfOpenMax \in Nat
  BY BreakerAssumption
<1> USE <1>0 DEF BreakerInv, BreakerTypeOK, FailuresAreConsecutive
<1>1. BreakerInit => BreakerInv
  BY DEF BreakerInit
<1>2. ASSUME BreakerInv, [BreakerNext]_breakerVars PROVE BreakerInv'
  <2> USE <1>2
  <2>1. CASE BreakerTick
    BY <2>1 DEF BreakerTick, Older
  <2>2. ASSUME NEW c \in Callers, Allow(c) PROVE BreakerInv'
    <3>1. CASE state = "closed"
      BY <2>2, <3>1 DEF Allow, FreeSlot
    <3>2. CASE state = "open"
      BY <2>2, <3>2 DEF Allow, FreeSlot
    <3>3. CASE state = "half-open"
      BY <2>2, <3>3 DEF Allow, FreeSlot
    <3>4. QED
      BY <3>1, <3>2, <3>3
  <2>3. ASSUME NEW c \in Callers, Succeed(c) PROVE BreakerInv'
    BY <2>3 DEF Succeed, Leave
  <2>4. ASSUME NEW c \in Callers, Fail(c) PROVE BreakerInv'
    BY <2>4 DEF Fail, Leave, OneMore
  <2>5. ASSUME NEW c \in Callers, ReturnEarly(c) PROVE BreakerInv'
    BY <2>5 DEF ReturnEarly, Leave, breaker, breakerHist
  <2>6. CASE UNCHANGED breakerVars
    BY <2>6 DEF breakerVars, breaker, breakerHist
  <2>7. QED
    BY <2>1, <2>2, <2>3, <2>4, <2>5, <2>6 DEF BreakerNext, Finish
<1>3. QED
  BY <1>1, <1>2, PTL

(* The state, the counters and the callers have their types: no more slots *)
(* are taken than there are.                                               *)
THEOREM BreakerTypeCorrect == BreakerSpec => []BreakerTypeOK
<1>1. BreakerInv => BreakerTypeOK
  BY DEF BreakerInv
<1>2. QED
  BY <1>1, BreakerInvariant, PTL DEF BreakerSpec

(* Only MaxFailures failures in a row open a closed breaker.               *)
THEOREM OpensOnFailuresInARow == BreakerSpec => []FailuresAreConsecutive
<1>1. BreakerInv => FailuresAreConsecutive
  BY DEF BreakerInv
<1>2. QED
  BY <1>1, BreakerInvariant, PTL DEF BreakerSpec

(* In a step that lets a caller in, the breaker has been open for longer   *)
(* than OpenDuration, or is not open.                                      *)
LEMMA AdmissionIsLate ==
  ASSUME BreakerInv, BreakerNext, NEW c \in Callers, pc[c] = "idle", pc'[c] = "admitted"
  PROVE  sinceOpened > OpenDuration
<1> USE DEF BreakerInv, BreakerTypeOK
<1>1. CASE BreakerTick
  BY <1>1 DEF BreakerTick
<1>2. ASSUME NEW d \in Callers, Allow(d) PROVE sinceOpened > OpenDuration
  <2>1. CASE state = "open"
    BY <1>2, <2>1, BreakerAssumption DEF Allow, FreeSlot
  <2>2. CASE state # "open"
    BY <2>2
  <2>3. QED
    BY <2>1, <2>2
<1>3. ASSUME NEW d \in Callers, Finish(d) PROVE sinceOpened > OpenDuration
  <2>1. pc' = [pc EXCEPT ![d] = "idle"]
    BY <1>3 DEF Finish, Succeed, Fail, ReturnEarly, Leave
  <2>2. QED
    BY <2>1
<1>4. QED
  BY <1>1, <1>2, <1>3 DEF BreakerNext

(* For OpenDuration after it opened the breaker admits nobody, whatever    *)
(* late results arrive.                                                    *)
THEOREM OpenMeansQuiet == BreakerSpec => QuietAfterOpening
<1>1. BreakerInv /\ [BreakerNext]_breakerVars =>
        [\A c \in Callers :
           pc[c] = "idle" /\ pc'[c] = "admitted" => sinceOpened > OpenDuration]_breakerVars
  BY AdmissionIsLate
<1>2. QED
  BY <1>1, BreakerInvariant, PTL DEF BreakerSpec, QuietAfterOpening

(* What is proved of the breaker holds of the breaker that the goroutines  *)
(* of the replies share.                                                   *)
THEOREM RepliesAreProtected ==
  Spec => []FailuresAreConsecutive /\ QuietAfterOpening
<1>1. BreakerInv => FailuresAreConsecutive
  BY DEF BreakerInv
<1>2. BreakerInv /\ [BreakerNext]_breakerVars =>
        [\A c \in Callers :
           pc[c] = "idle" /\ pc'[c] = "admitted" => sinceOpened > OpenDuration]_breakerVars
  BY AdmissionIsLate
<1>3. QED
  BY <1>1, <1>2, BreakerInvariant, AnswersUseTheBreaker, PTL DEF QuietAfterOpening

-----------------------------------------------------------------------------
(* The limiter                                                             *)

Keys == {PageFor(v) : v \in Conversations}

(* Younger entries are counted among the older ones: what fits at the      *)
(* oldest age fits at each.                                                *)
Grows(w) == \A a, b \in Ages : a <= b => w[a] <= w[b]

(* What a page has got through is in the window of its key, whichever key  *)
(* the lookup gives it.  At the oldest age alone this would not outlive a  *)
(* tick, which lets go of that age and needs the one before.               *)
WindowsInv ==
  /\ pageWindow \in [Keys -> [Ages -> 0 .. PerPageMax]]
  /\ passed \in [Pages -> [Ages -> Nat]]
  /\ convAge \in [Conversations -> 0 .. PerConvCooldown]
  /\ \A k \in Keys : Grows(pageWindow[k])
  /\ \A u \in Conversations, a \in Ages : passed[PageOf[u]][a] <= pageWindow[PageFor(u)][a]
  /\ \A p \in Pages, a \in Ages :
       (\A u \in Conversations : PageOf[u] # p) => passed[p][a] = 0

(* Ages, and the numbers that bound them.                                  *)
LEMMA AgesOK ==
  /\ Window \in Nat /\ Window >= 1 /\ PerPageMax \in Nat /\ PerConvCooldown \in Nat
  /\ Window - 1 \in Ages /\ 0 \in Ages /\ Ages \subseteq Nat
  /\ \A a \in Ages : a <= Window - 1 /\ (a # 0 => a - 1 \in Ages)
<1>1. Window \in Nat /\ Window >= 1 /\ PerPageMax \in Nat /\ PerConvCooldown \in Nat
  BY RepliesAssumption
<1>2. QED
  BY <1>1 DEF Ages

(* An entry, and a tick, keep the order of the ages.                       *)
LEMMA EnteredGrows ==
  ASSUME NEW w \in [Ages -> 0 .. PerPageMax], Grows(w), Size(w) < PerPageMax
  PROVE  Entered(w) \in [Ages -> 0 .. PerPageMax] /\ Grows(Entered(w))
<1>1. ASSUME NEW a \in Ages
      PROVE  w[a] \in 0 .. PerPageMax /\ w[a] <= w[Window - 1] /\ w[Window - 1] < PerPageMax
  BY AgesOK DEF Grows, Size
<1>2. \A a \in Ages : w[a] + 1 \in 0 .. PerPageMax
  BY <1>1, AgesOK
<1>3. QED
  BY <1>1, <1>2, AgesOK DEF Entered, Grows

LEMMA AgedGrows ==
  ASSUME NEW w \in [Ages -> 0 .. PerPageMax], Grows(w)
  PROVE  Aged(w) \in [Ages -> 0 .. PerPageMax] /\ Grows(Aged(w))
<1>1. \A a \in Ages : Aged(w)[a] = IF a = 0 THEN 0 ELSE w[a - 1]
  BY DEF Aged
<1>2. \A a \in Ages : Aged(w)[a] \in 0 .. PerPageMax
  BY <1>1, AgesOK
<1>3. Aged(w) \in [Ages -> 0 .. PerPageMax]
  BY <1>2 DEF Aged
<1>4. ASSUME NEW a \in Ages, NEW b \in Ages, a <= b PROVE Aged(w)[a] <= Aged(w)[b]
  <2>1. CASE a = 0
    BY <1>1, <1>2, <2>1, AgesOK
  <2>2. CASE a # 0
    <3>1. b # 0 /\ a - 1 \in Ages /\ b - 1 \in Ages /\ a - 1 <= b - 1
      BY <1>4, <2>2, AgesOK
    <3>2. w[a - 1] <= w[b - 1]
      BY <3>1 DEF Grows
    <3>3. QED
      BY <1>1, <2>2, <3>1, <3>2
  <2>3. QED
    BY <2>1, <2>2
<1>5. QED
  BY <1>3, <1>4 DEF Grows

LEMMA WindowsInvariant == Spec => []WindowsInv
<1>1. Init => WindowsInv
  <2> SUFFICES ASSUME Init PROVE WindowsInv
    OBVIOUS
  <2>1. Empty \in [Ages -> 0 .. PerPageMax] /\ Empty \in [Ages -> Nat] /\ \A a \in Ages : Empty[a] = 0
    BY AgesOK DEF Empty
  <2>2. pageWindow = [k \in Keys |-> Empty] /\ passed = [p \in Pages |-> Empty]
        /\ convAge = [v \in Conversations |-> PerConvCooldown]
    BY DEF Init, Keys
  <2>3. \A u \in Conversations : PageOf[u] \in Pages /\ PageFor(u) \in Keys
    BY RepliesAssumption DEF Keys
  <2>4. QED
    BY <2>1, <2>2, <2>3, AgesOK DEF WindowsInv, Grows
<1>2. ASSUME HeardInv, WindowsInv, [Next]_vars PROVE WindowsInv'
  <2> USE <1>2
  <2>1. CASE UNCHANGED limiter
    BY <2>1 DEF limiter, WindowsInv, Grows
  <2>2. ASSUME NEW v \in Conversations, TakeTurn(v) PROVE WindowsInv'
    <3> DEFINE k0 == PageFor(v)
               r == PageOf[v]
               w == pageWindow[k0]
    <3>1. k0 \in Keys /\ r \in Pages
      BY RepliesAssumption DEF Keys
    <3>2. w \in [Ages -> 0 .. PerPageMax] /\ Grows(w) /\ Size(w) < PerPageMax
      BY <2>2, <3>1 DEF TakeTurn, LimiterAllows, WindowsInv
    <3>3. Entered(w) \in [Ages -> 0 .. PerPageMax] /\ Grows(Entered(w))
      BY <3>2, EnteredGrows
    <3>4. pageWindow' = [pageWindow EXCEPT ![k0] = Entered(w)]
          /\ passed' = [passed EXCEPT ![r] = Entered(passed[r])]
          /\ convAge' = [convAge EXCEPT ![v] = 0]
      BY <2>2, <3>1 DEF TakeTurn
    <3>5. pageWindow' \in [Keys -> [Ages -> 0 .. PerPageMax]] /\ (\A k \in Keys : Grows(pageWindow'[k]))
      BY <3>1, <3>3, <3>4 DEF WindowsInv
    <3>6. Entered(passed[r]) \in [Ages -> Nat]
      BY <3>1 DEF Entered, WindowsInv
    <3>7. passed' \in [Pages -> [Ages -> Nat]] /\ convAge' \in [Conversations -> 0 .. PerConvCooldown]
      BY <3>1, <3>4, <3>6, AgesOK DEF WindowsInv
    <3>8. ASSUME NEW p \in Pages, NEW a \in Ages
          PROVE  passed'[p][a] = IF p = r THEN passed[p][a] + 1 ELSE passed[p][a]
      BY <3>1, <3>4 DEF Entered, WindowsInv
    <3>9. ASSUME NEW k \in Keys, NEW a \in Ages
          PROVE  pageWindow'[k][a] = IF k = k0 THEN pageWindow[k][a] + 1 ELSE pageWindow[k][a]
      BY <3>1, <3>4 DEF Entered, WindowsInv
    <3>10. ASSUME NEW u \in Conversations, NEW a \in Ages
           PROVE  passed'[PageOf[u]][a] <= pageWindow'[PageFor(u)][a]
      <4>1. PageOf[u] \in Pages /\ PageFor(u) \in Keys
        BY RepliesAssumption DEF Keys
      <4>2. /\ passed[PageOf[u]][a] \in Nat /\ pageWindow[PageFor(u)][a] \in Nat
            /\ passed[PageOf[u]][a] <= pageWindow[PageFor(u)][a]
        BY <4>1, AgesOK DEF WindowsInv
      <4>3. PageOf[u] = r => PageFor(u) = k0
        BY DEF PageFor
      <4>4. QED
        BY <3>8, <3>9, <4>1, <4>2, <4>3
    <3>11. ASSUME NEW p \in Pages, NEW a \in Ages, \A u \in Conversations : PageOf[u] # p
           PROVE  passed'[p][a] = 0
      BY <3>8, <3>11 DEF WindowsInv
    <3>12. QED
      BY <3>5, <3>7, <3>10, <3>11 DEF WindowsInv
  <2>3. CASE Tick
    <3>1. /\ pageWindow' = [k \in Keys |-> Aged(pageWindow[k])]
          /\ passed' = [p \in Pages |-> Aged(passed[p])]
          /\ convAge' \in [Conversations -> 0 .. PerConvCooldown]
      BY <2>3, AgesOK DEF Tick, WindowsInv
    <3>2. pageWindow' \in [Keys -> [Ages -> 0 .. PerPageMax]] /\ (\A k \in Keys : Grows(pageWindow'[k]))
      BY <3>1, AgedGrows DEF WindowsInv
    <3>3. ASSUME NEW p \in Pages PROVE Aged(passed[p]) \in [Ages -> Nat]
      BY AgesOK DEF Aged, WindowsInv
    <3>4. passed' \in [Pages -> [Ages -> Nat]]
      BY <3>1, <3>3
    <3>5. ASSUME NEW p \in Pages, NEW k \in Keys, NEW a \in Ages
          PROVE  /\ a = 0 => passed'[p][a] = 0 /\ pageWindow'[k][a] = 0
                 /\ a # 0 => /\ a - 1 \in Ages
                             /\ passed'[p][a] = passed[p][a - 1]
                             /\ pageWindow'[k][a] = pageWindow[k][a - 1]
      BY <3>1, AgesOK DEF Aged
    <3>6. ASSUME NEW u \in Conversations, NEW a \in Ages
          PROVE  passed'[PageOf[u]][a] <= pageWindow'[PageFor(u)][a]
      <4>1. PageOf[u] \in Pages /\ PageFor(u) \in Keys
        BY RepliesAssumption DEF Keys
      <4>2. QED
        BY <3>5, <4>1 DEF WindowsInv
    <3>7. ASSUME NEW p \in Pages, NEW a \in Ages, \A u \in Conversations : PageOf[u] # p
          PROVE  passed'[p][a] = 0
      <4>1. passed'[p][a] = IF a = 0 THEN 0 ELSE passed[p][a - 1]
        BY <3>1 DEF Aged
      <4>2. a # 0 => a - 1 \in Ages
        BY AgesOK
      <4>3. QED
        BY <3>7, <4>1, <4>2 DEF WindowsInv
    <3>8. QED
      BY <3>1, <3>2, <3>4, <3>6, <3>7 DEF WindowsInv
  <2>4. ASSUME NEW c \in Callers, MaybeReply(c) PROVE WindowsInv'
    <3>1. conv[c] \in Conversations
      BY DEF HeardInv, GoroutinesOK
    <3>2. UNCHANGED limiter \/ TakeTurn(conv[c])
      BY <2>4 DEF MaybeReply, Load, CountTurns, Ask, List, SwitchOff, CallAI, Send
    <3>3. QED
      BY <2>1, <2>2, <3>1, <3>2
  <2>5. ASSUME NEW c \in Callers, NEW v \in Conversations,
               Redelivery(c, v) \/ \E t \in {"plain", "stop"} : Message(c, v, t)
        PROVE  UNCHANGED limiter
    BY <2>5 DEF Message, Redelivery
  <2>6. ASSUME NEW v \in Conversations, ToggleAI(v) PROVE UNCHANGED limiter
    BY <2>6 DEF ToggleAI
  <2>7. QED
    BY <2>1, <2>3, <2>4, <2>5, <2>6 DEF Next, vars
<1>3. QED
  BY <1>1, <1>2, HeardInvariant, PTL DEF Spec

(* No page gets more answers through in a window than its limit, however   *)
(* the limiter finds the key of a page.                                    *)
THEOREM PagesStayInTheirLimit == Spec => []PagesKeepTheirLimit
<1>1. ASSUME WindowsInv, NEW p \in Pages PROVE Size(passed[p]) <= PerPageMax
  <2>1. CASE \A u \in Conversations : PageOf[u] # p
    BY <1>1, <2>1, AgesOK DEF WindowsInv, Size
  <2>2. CASE \E u \in Conversations : PageOf[u] = p
    <3>1. PICK u \in Conversations : PageOf[u] = p
      BY <2>2
    <3>2. PageFor(u) \in Keys
      BY DEF Keys
    <3>3. /\ passed[p][Window - 1] <= pageWindow[PageFor(u)][Window - 1]
          /\ pageWindow[PageFor(u)][Window - 1] \in 0 .. PerPageMax
          /\ passed[p][Window - 1] \in Nat
      BY <1>1, <3>1, <3>2, AgesOK DEF WindowsInv
    <3>4. QED
      BY <3>3, AgesOK DEF Size
  <2>3. QED
    BY <2>1, <2>2
<1>2. WindowsInv => PagesKeepTheirLimit
  BY <1>1 DEF PagesKeepTheirLimit
<1>3. QED
  BY <1>2, WindowsInvariant, PTL

(* The variables have their types, and no window is fuller than it may be. *)
THEOREM RepliesTypeCorrect == Spec => []TypeOK
<1> DEFINE RowsOK == aiEnabled \subseteq Conversations /\ turns \in [Conversations -> Nat]
<1>1. Spec => []RowsOK
  <2>1. Init => RowsOK
    BY DEF Init
  <2>2. ASSUME HeardInv, RowsOK, [Next]_vars PROVE RowsOK'
    <3>1. CASE UNCHANGED rows
      BY <2>2, <3>1 DEF rows
    <3>2. ASSUME NEW c \in Callers, MaybeReply(c) PROVE RowsOK'
      <4>1. conv[c] \in Conversations
        BY <2>2 DEF HeardInv, GoroutinesOK
      <4>2. CASE Load(c) \/ CountTurns(c) \/ Ask(c) \/ List(c) \/ CallAI(c)
        BY <3>1, <4>2 DEF Load, CountTurns, Ask, List, CallAI
      <4>3. CASE SwitchOff(c)
        BY <2>2, <4>3 DEF SwitchOff
      <4>4. CASE Send(c)
        BY <2>2, <4>1, <4>4 DEF Send
      <4>5. QED
        BY <3>2, <4>2, <4>3, <4>4 DEF MaybeReply
    <3>3. ASSUME NEW c \in Callers, NEW v \in Conversations,
                 Redelivery(c, v) \/ \E t \in {"plain", "stop"} : Message(c, v, t)
          PROVE  RowsOK'
      BY <2>2, <3>3 DEF Message, Redelivery, rows
    <3>4. ASSUME NEW v \in Conversations, ToggleAI(v) PROVE RowsOK'
      BY <2>2, <3>4 DEF ToggleAI
    <3>5. CASE Tick
      BY <3>1, <3>5 DEF Tick
    <3>6. QED
      BY <2>2, <3>1, <3>2, <3>3, <3>4, <3>5 DEF Next, vars
  <2>3. QED
    BY <2>1, <2>2, HeardInvariant, PTL DEF Spec
<1>2. BreakerInv /\ HeardInv /\ WindowsInv /\ RowsOK => TypeOK
  BY DEF BreakerInv, HeardInv, GoroutinesOK, WindowsInv, Keys, Steps, TypeOK
<1>3. QED
  BY <1>1, <1>2, BreakerInvariant, AnswersUseTheBreaker, HeardInvariant, WindowsInvariant, PTL

-----------------------------------------------------------------------------
(* RetryLoop                                                               *)

(* Together with the invariants of the runs: the books are empty before    *)
(* the first call and consistent within one.  CallTypeOK needs             *)
(* WaitAccounted (the loop wakes only below the limit), and                *)
(* DuplicateNeedsLostReply needs to know that a call in progress has not   *)
(* been carried out except by attempts it then retried, of which there is  *)
(* at most one per attempt made.                                           *)
Accounts ==
  /\ InCall => applied = lost
  /\ phase = "sending" => lost < attempt

LoopInv ==
  /\ CallTypeOK
  /\ WaitAccounted
  /\ DuplicateNeedsLostReply
  /\ Accounts

LEMMA LoopInvariant == CallSpec => []LoopInv
<1>0. MaxRetries \in Nat /\ MaxRetries >= 1 /\ InitialBackoff \in Nat
  BY RetryAssumption
<1> USE <1>0 DEF LoopInv, CallTypeOK, WaitAccounted, DuplicateNeedsLostReply, Accounts, InCall
<1>1. CallInit => LoopInv
  <2>0. CallInit => cancelled \in BOOLEAN /\ refused \in BOOLEAN
    BY Zenon DEF CallInit
  <2>1. CallInit => CallTypeOK
    BY <2>0 DEF CallInit
  <2>2. CallInit => WaitAccounted
    BY DEF CallInit
  <2>3. CallInit => DuplicateNeedsLostReply
    BY DEF CallInit
  <2>4. CallInit => Accounts
    BY DEF CallInit
  <2>5. QED
    BY <2>1, <2>2, <2>3, <2>4
<1>2. ASSUME LoopInv, [CallNext]_callVars PROVE LoopInv'
  <2> USE <1>2
  <2>1. CASE Call
    <3>1. cancelled' \in BOOLEAN /\ refused' \in BOOLEAN
      BY <2>1, Zenon DEF Call
    <3>2. QED
      BY <2>1, <3>1 DEF Call
  <2>2. CASE Cancel
    BY <2>2 DEF Cancel
  <2>3. ASSUME NEW r \in Replies, Reply(r) PROVE LoopInv'
    <3>1. PICK effect \in MayApply(r) :
            /\ applied' = applied + (IF effect THEN 1 ELSE 0)
            /\ lost' = lost + (IF effect /\ Verdict(r, GiveUp) = "retry" THEN 1 ELSE 0)
      BY <2>3 DEF Reply
    <3>2. (effect \in BOOLEAN) /\ (r = "ok" => effect)
      BY DEF MayApply
    <3>3. CASE Verdict(r, GiveUp) = "done"
      <4>1. r = "ok"
        BY <3>3 DEF Verdict
      <4>2. QED
        BY <2>3, <3>1, <3>2, <3>3, <4>1 DEF Reply, AfterAttempt
    <3>4. CASE Verdict(r, GiveUp) = "fail"
      BY <2>3, <3>1, <3>2, <3>4 DEF Reply, AfterAttempt
    <3>5. CASE Verdict(r, GiveUp) = "retry"
      BY <2>3, <3>1, <3>2, <3>5 DEF Reply, AfterAttempt
    <3>6. QED
      BY <3>3, <3>4, <3>5 DEF Verdict
  <2>4. CASE Wake
    BY <2>4 DEF Wake
  <2>5. CASE Abort
    BY <2>5 DEF Abort
  <2>6. CASE UNCHANGED callVars
    BY <2>6 DEF callVars
  <2>7. QED
    BY <2>1, <2>2, <2>3, <2>4, <2>5, <2>6 DEF CallNext
<1>3. QED
  BY <1>1, <1>2, PTL DEF CallSpec

(* No call makes more attempts than MaxRetries allows.                     *)
THEOREM AttemptsAreBounded == CallSpec => []CallTypeOK
<1>1. LoopInv => CallTypeOK
  BY DEF LoopInv
<1>2. QED
  BY <1>1, LoopInvariant, PTL

(* A call sleeps the sum of its doubling backoffs and never after its last *)
(* attempt.                                                                *)
THEOREM BackoffTelescopes == CallSpec => []WaitAccounted
<1>1. LoopInv => WaitAccounted
  BY DEF LoopInv
<1>2. QED
  BY <1>1, LoopInvariant, PTL

(* A call that returns a result was carried out once more than the number  *)
(* of its attempts whose success the client did not see: retries duplicate *)
(* a post only after a lost answer.                                        *)
THEOREM DuplicatesAreLostReplies == CallSpec => []DuplicateNeedsLostReply
<1>1. LoopInv => DuplicateNeedsLostReply
  BY DEF LoopInv
<1>2. QED
  BY <1>1, LoopInvariant, PTL

(* The invariant behind it: a call answered with a 4xx is over.            *)
RefusedInv == refused => ~InCall

(* A client that gives up on every 4xx, as the OpenAI client does, makes   *)
(* no further attempt after one.                                           *)
THEOREM GivingUpOn4xxIsEnough ==
  ASSUME Status4xx \subseteq GiveUp
  PROVE  CallSpec => RefusedIsFinal
<1> USE DEF RefusedInv, InCall
<1>1. CallInit => RefusedInv
  BY DEF CallInit
<1>2. ASSUME RefusedInv, [CallNext]_callVars PROVE RefusedInv'
  <2> USE <1>2
  <2>1. CASE Call
    BY <2>1 DEF Call
  <2>2. CASE Cancel
    BY <2>2 DEF Cancel
  <2>3. ASSUME NEW r \in Replies, Reply(r) PROVE RefusedInv'
    <3>1. CASE r \in Status4xx
      <4>1. Verdict(r, GiveUp) = "fail"
        BY <3>1 DEF Verdict, Status4xx
      <4>2. QED
        BY <2>3, <4>1 DEF Reply, AfterAttempt
    <3>2. CASE r \notin Status4xx
      BY <2>3, <3>2 DEF Reply
    <3>3. QED
      BY <3>1, <3>2
  <2>4. CASE Wake
    BY <2>4 DEF Wake
  <2>5. CASE Abort
    BY <2>5 DEF Abort
  <2>6. CASE UNCHANGED callVars
    BY <2>6 DEF callVars
  <2>7. QED
    BY <2>1, <2>2, <2>3, <2>4, <2>5, <2>6 DEF CallNext
<1>3. RefusedInv => [InCall /\ refused => attempt' = attempt]_callVars
  OBVIOUS
<1>4. QED
  BY <1>1, <1>2, <1>3, PTL DEF CallSpec, RefusedIsFinal
=============================================================================
