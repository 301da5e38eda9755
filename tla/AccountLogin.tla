---------------------------- MODULE AccountLogin ----------------------------
(***************************************************************************)
(* Adding a Facebook account: the plugin's button (tabs/RepostTab.tsx),    *)
(* the request that creates the row and has the sidecar open a browser     *)
(* (handlers/repost.go, service/sidecar.go), and the sidecar's session, in *)
(* which the user logs in while a background flow watches and a cancel     *)
(* request may come (sidecar/src/account-login.js).  An account stands for *)
(* its row, its profile and the session that was started for it.           *)
(***************************************************************************)
EXTENDS Naturals

CONSTANTS
  Accounts,
  MaxPolls,       \* 300 in the code
  MaxFaults,      \* bounds of the model: errors of calls,
  MaxCancels,     \* cancel requests
  MaxRestarts     \* and restarts of the sidecar

ASSUME LoginAssumption ==
  /\ MaxPolls \in Nat \ {0}
  /\ {MaxFaults, MaxCancels, MaxRestarts} \subseteq Nat

VARIABLES
  ui,             \* the plugin: "none", "creating", "polling" and what it tells
  polls,          \* polls made for each account
  request,        \* POST /fb-accounts: "none", "insert", "start", "await", "rollback", "done"
  rows,           \* accounts in facebook.fb_accounts
  left,           \* requests whose client went away: their context is done
  status,         \* the sidecar's sessions; "unknown" if there is none
  flow,           \* _runLoginFlow: "none", "launching", "opening", "waiting",
                  \* "closing", "failing", "done"
  browser,        \* "none", "open", "closed"
  away,           \* browsers whose page is none of Facebook's login pages
  cancelling,     \* sessions whose cancelSession awaits the end of the browser
  faults, cancels, restarts,
  started,        \* history: accounts whose session was started,
  confirmed,      \* that the flow took for logged in,
  loggedIn,       \* whose user has left the login pages,
  unloaded,       \* whose login page did not load,
  excused         \* and for which a row and a session may not match

plugin == <<ui, polls>>
backend == <<request, rows, left>>
sidecar == <<status, flow, browser, away, cancelling>>
bounds == <<faults, cancels, restarts>>
pages == <<loggedIn, unloaded>>
hist == <<started, confirmed, pages, excused>>
vars == <<plugin, backend, sidecar, bounds, hist>>

Init ==
  /\ ui = [a \in Accounts |-> "none"]
  /\ polls = [a \in Accounts |-> 0]
  /\ request = [a \in Accounts |-> "none"]
  /\ rows = {} /\ left = {}
  /\ status = [a \in Accounts |-> "unknown"]
  /\ flow = [a \in Accounts |-> "none"]
  /\ browser = [a \in Accounts |-> "none"]
  /\ away = {}
  /\ cancelling = {}
  /\ faults = 0 /\ cancels = 0 /\ restarts = 0
  /\ started = {} /\ confirmed = {} /\ loggedIn = {} /\ unloaded = {} /\ excused = {}

Request(a, step) == request' = [request EXCEPT ![a] = step]

(* What the plugin shows, unless its window is gone.                       *)
Show(a, what) == ui' = [ui EXCEPT ![a] = IF a \in left THEN @ ELSE what]

(* A call fails, at once if the request's context is done.                 *)
Fails(a) ==
  \/ a \in left /\ UNCHANGED faults
  \/ a \notin left /\ faults < MaxFaults /\ faults' = faults + 1

-----------------------------------------------------------------------------
(* handleAddAccount, up to its request.                                    *)
AddAccount(a) ==
  /\ ui[a] = "none"
  /\ ui' = [ui EXCEPT ![a] = "creating"]
  /\ Request(a, "insert")
  /\ UNCHANGED <<polls, rows, left, sidecar, bounds, hist>>

(* The plugin's window goes away, and with it its request.                 *)
Leave(a) ==
  /\ ui[a] \in {"creating", "polling"}
  /\ left' = left \cup {a}
  /\ UNCHANGED <<plugin, request, rows, sidecar, bounds, hist>>

(* CreateAccount: the row first.  An insert that fails may have happened.  *)
InsertRow(a) ==
  /\ request[a] = "insert"
  /\ \/ /\ a \notin left
        /\ rows' = rows \cup {a}
        /\ Request(a, "start")
        /\ UNCHANGED <<ui, faults, excused>>
     \/ /\ Fails(a)
        /\ rows' \in {rows, rows \cup {a}}
        /\ excused' = excused \cup {a}
        /\ Request(a, "done")
        /\ Show(a, "error")
  /\ UNCHANGED <<polls, left, sidecar, cancels, restarts, started, confirmed, pages>>

(* StartAccountLogin reaches the sidecar, and startLogin runs up to the    *)
(* launch of the browser, or it does not.                                  *)
StartLogin(a) ==
  /\ request[a] = "start"
  /\ \/ /\ a \notin left
        /\ status' = [status EXCEPT ![a] = "running"]
        /\ flow' = [flow EXCEPT ![a] = "launching"]
        /\ started' = started \cup {a}
        /\ Request(a, "await")
        /\ UNCHANGED faults
     \/ /\ Fails(a)
        /\ Request(a, "rollback")
        /\ UNCHANGED <<status, flow, started>>
  /\ UNCHANGED <<plugin, rows, left, browser, away, cancelling, cancels, restarts,
                 confirmed, pages, excused>>

(* The sidecar's answer arrives, or it is lost.                            *)
Created(a) ==
  /\ request[a] = "await"
  /\ \/ /\ a \notin left
        /\ Request(a, "done")
        /\ Show(a, "polling")
        /\ UNCHANGED <<faults, excused>>
     \/ /\ Fails(a)
        /\ Request(a, "rollback")
        /\ excused' = excused \cup {a}
        /\ UNCHANGED ui
  /\ UNCHANGED <<polls, rows, left, sidecar, cancels, restarts, started, confirmed, pages>>

(* Breakage of RollBack: the row is kept.                                  *)
RollBackNothing(a) ==
  /\ request[a] = "rollback"
  /\ Request(a, "done")
  /\ Show(a, "error")
  /\ UNCHANGED <<polls, rows, left, sidecar, bounds, hist>>

(* The row is deleted again, with the request's context: an error leaves   *)
(* it behind as an orphan, of which the answer tells.                      *)
RollBack(a) ==
  /\ request[a] = "rollback"
  /\ Request(a, "done")
  /\ Show(a, "error")
  /\ \/ /\ a \notin left
        /\ rows' = rows \ {a}
        /\ UNCHANGED <<faults, excused>>
     \/ /\ Fails(a)
        /\ excused' = excused \cup {a}
        /\ UNCHANGED rows
  /\ UNCHANGED <<polls, left, sidecar, cancels, restarts, started, confirmed, pages>>

(* The server goes down with the requests in hand.                         *)
Crash ==
  LET hit == {a \in Accounts : request[a] \notin {"none", "done"}} IN
  /\ faults < MaxFaults
  /\ faults' = faults + 1
  /\ hit # {}
  /\ request' = [a \in Accounts |-> IF a \in hit THEN "done" ELSE request[a]]
  /\ ui' = [a \in Accounts |-> IF a \in hit \ left THEN "error" ELSE ui[a]]
  /\ excused' = excused \cup hit
  /\ UNCHANGED <<polls, rows, left, sidecar, cancels, restarts, started, confirmed, pages>>

(* POST /delete-fb-account: the session goes on.                           *)
DeleteAccount(a) ==
  /\ a \in rows
  /\ rows' = rows \ {a}
  /\ excused' = excused \cup {a}
  /\ UNCHANGED <<plugin, request, left, sidecar, bounds, started, confirmed, pages>>

(* Breakage of Verdict: whatever has ended has ended well.                 *)
VerdictOfEnd(s) == IF s = "running" THEN "polling" ELSE "ok"

(* What pollLogin makes of a status.  A session that is not known is       *)
(* reported as expired.                                                    *)
Verdict(s) ==
  IF s = "running" THEN "polling" ELSE IF s = "completed" THEN "ok" ELSE "failed"

(* Errors of a poll are passed over; each counts.                          *)
Poll(a) ==
  /\ ui[a] = "polling"
  /\ a \notin left
  /\ polls[a] < MaxPolls
  /\ polls' = [polls EXCEPT ![a] = @ + 1]
  /\ \/ Show(a, Verdict(status[a])) /\ UNCHANGED faults
     \/ Fails(a) /\ UNCHANGED ui
  /\ UNCHANGED <<backend, sidecar, cancels, restarts, hist>>

(* Breakage of GiveUp: one poll more is waited for than is ever made.      *)
GiveUpLater(a) ==
  /\ ui[a] = "polling"
  /\ a \notin left
  /\ polls[a] > MaxPolls
  /\ Show(a, "timeout")
  /\ UNCHANGED <<polls, backend, sidecar, bounds, hist>>

(* The end of the loop.                                                    *)
GiveUp(a) ==
  /\ ui[a] = "polling"
  /\ a \notin left
  /\ polls[a] = MaxPolls
  /\ Show(a, "timeout")
  /\ UNCHANGED <<polls, backend, sidecar, bounds, hist>>

-----------------------------------------------------------------------------
(* launchPersistentContext.                                                *)
Launch(a) ==
  /\ flow[a] = "launching"
  /\ \/ /\ flow' = [flow EXCEPT ![a] = "opening"]
        /\ browser' = [browser EXCEPT ![a] = "open"]
        /\ UNCHANGED status
     \/ /\ flow' = [flow EXCEPT ![a] = "done"]
        /\ status' = [status EXCEPT ![a] = "failed"]
        /\ UNCHANGED browser
  /\ UNCHANGED <<plugin, backend, away, cancelling, bounds, hist>>

(* page.goto of the login page, whose errors are passed over, and the      *)
(* filling in.  A page that did not load is none of the login pages.       *)
OpenPage(a) ==
  /\ flow[a] = "opening"
  /\ flow' = [flow EXCEPT ![a] = "waiting"]
  /\ \/ UNCHANGED <<faults, away, unloaded>>
     \/ /\ browser[a] = "open"
        /\ faults < MaxFaults
        /\ faults' = faults + 1
        /\ away' = away \cup {a}
        /\ unloaded' = unloaded \cup {a}
  /\ UNCHANGED <<plugin, backend, status, browser, cancelling, cancels, restarts,
                 started, confirmed, loggedIn, excused>>

(* The user logs in, or what was filled in does.                           *)
LogIn(a) ==
  /\ browser[a] = "open"
  /\ flow[a] # "opening"
  /\ away' = away \cup {a}
  /\ loggedIn' = loggedIn \cup {a}
  /\ UNCHANGED <<plugin, backend, status, flow, browser, cancelling, bounds,
                 started, confirmed, unloaded, excused>>

Shut(a) ==
  /\ browser' = [browser EXCEPT ![a] = IF @ = "open" THEN "closed" ELSE @]
  /\ away' = away \ {a}

(* By the user, by a crash, or by a cancel that is under way.              *)
BrowserCloses(a) ==
  /\ browser[a] = "open"
  /\ Shut(a)
  /\ UNCHANGED <<plugin, backend, status, flow, cancelling, bounds, hist>>

(* The flow looks at the page: it is none of the login pages, or is gone.  *)
Watch(a) ==
  /\ flow[a] = "waiting"
  /\ \/ /\ a \in away
        /\ status' = [status EXCEPT ![a] = "completed"]
        /\ flow' = [flow EXCEPT ![a] = "done"]
        /\ confirmed' = confirmed \cup {a}
     \/ /\ browser[a] = "closed"
        /\ flow' = [flow EXCEPT ![a] = "closing"]
        /\ UNCHANGED <<status, confirmed>>
  /\ UNCHANGED <<plugin, backend, browser, away, cancelling, bounds, started, pages, excused>>

(* Breakage of TimeOut: the time is looked at only when the page is gone.  *)
TimeOutWhenClosed(a) ==
  /\ flow[a] = "waiting"
  /\ browser[a] = "closed"
  /\ flow' = [flow EXCEPT ![a] = "closing"]
  /\ UNCHANGED <<plugin, backend, status, browser, away, cancelling, bounds, hist>>

(* Ten minutes are over.                                                   *)
TimeOut(a) ==
  /\ flow[a] = "waiting"
  /\ flow' = [flow EXCEPT ![a] = "closing"]
  /\ UNCHANGED <<plugin, backend, status, browser, away, cancelling, bounds, hist>>

(* Breakage of CloseBrowser: the browser is left to the user.              *)
CloseNothing(a) ==
  /\ flow[a] = "closing"
  /\ flow' = [flow EXCEPT ![a] = "failing"]
  /\ UNCHANGED <<plugin, backend, status, browser, away, cancelling, bounds, hist>>

(* finally: the browser of a session that is not completed is closed, then *)
(* the error is noted, whatever the status has become meanwhile.           *)
CloseBrowser(a) ==
  /\ flow[a] = "closing"
  /\ Shut(a)
  /\ flow' = [flow EXCEPT ![a] = "failing"]
  /\ UNCHANGED <<plugin, backend, status, cancelling, bounds, hist>>

Fail(a) ==
  /\ flow[a] = "failing"
  /\ flow' = [flow EXCEPT ![a] = "done"]
  /\ status' = [status EXCEPT ![a] = "failed"]
  /\ UNCHANGED <<plugin, backend, browser, away, cancelling, bounds, hist>>

(* cancelSession: before the launch has come back there is no browser that *)
(* it could close.                                                         *)
Cancel(a) ==
  /\ cancels < MaxCancels
  /\ cancels' = cancels + 1
  /\ status[a] # "unknown"
  /\ a \notin cancelling
  /\ \/ /\ browser[a] = "none"
        /\ status' = [status EXCEPT ![a] = "expired"]
        /\ UNCHANGED cancelling
     \/ /\ browser[a] # "none"
        /\ cancelling' = cancelling \cup {a}
        /\ UNCHANGED status
  /\ UNCHANGED <<plugin, backend, flow, browser, away, faults, restarts, hist>>

Cancelled(a) ==
  /\ a \in cancelling
  /\ cancelling' = cancelling \ {a}
  /\ status' = [status EXCEPT ![a] = "expired"]
  /\ Shut(a)
  /\ UNCHANGED <<plugin, backend, flow, bounds, hist>>

(* The sidecar's sessions live in its memory, and its browsers end with it.*)
Restart ==
  /\ restarts < MaxRestarts
  /\ restarts' = restarts + 1
  /\ status' = [a \in Accounts |-> "unknown"]
  /\ flow' = [a \in Accounts |-> "none"]
  /\ browser' = [a \in Accounts |-> "none"]
  /\ away' = {}
  /\ cancelling' = {}
  /\ UNCHANGED <<plugin, backend, faults, cancels, hist>>

-----------------------------------------------------------------------------
CreateAccount(a) == InsertRow(a) \/ StartLogin(a) \/ Created(a) \/ RollBack(a)
PollLogin(a) == Poll(a) \/ GiveUp(a)
RunLoginFlow(a) == Launch(a) \/ OpenPage(a) \/ Watch(a) \/ TimeOut(a) \/ CloseBrowser(a) \/ Fail(a)
User(a) == AddAccount(a) \/ Leave(a) \/ DeleteAccount(a) \/ LogIn(a) \/ BrowserCloses(a) \/ Cancel(a)

Next ==
  \/ \E a \in Accounts :
       User(a) \/ CreateAccount(a) \/ PollLogin(a) \/ RunLoginFlow(a) \/ Cancelled(a)
  \/ Crash \/ Restart

(* Handlers, the plugin's loop and the flow go on: their calls have        *)
(* timeouts, and the flow has one of ten minutes.                          *)
Fairness ==
  \A a \in Accounts :
    /\ WF_vars(CreateAccount(a))
    /\ WF_vars(PollLogin(a))
    /\ WF_vars(RunLoginFlow(a))

Spec == Init /\ [][Next]_vars /\ Fairness

-----------------------------------------------------------------------------
TypeOK ==
  /\ ui \in [Accounts -> {"none", "creating", "polling", "ok", "failed", "timeout", "error"}]
  /\ polls \in [Accounts -> 0 .. MaxPolls]
  /\ request \in [Accounts -> {"none", "insert", "start", "await", "rollback", "done"}]
  /\ status \in [Accounts -> {"unknown", "running", "completed", "failed", "expired"}]
  /\ flow \in [Accounts -> {"none", "launching", "opening", "waiting", "closing", "failing", "done"}]
  /\ browser \in [Accounts -> {"none", "open", "closed"}]
  /\ rows \cup left \cup away \cup cancelling \subseteq Accounts
  /\ started \cup confirmed \cup loggedIn \cup unloaded \cup excused \subseteq Accounts

(* The plugin calls an account logged in only if its user has left the     *)
(* login pages, or they did not load: in spite of cancels, restarts and    *)
(* answers that got lost.                                                  *)
SuccessIsTrue ==
  \A a \in Accounts : ui[a] = "ok" => a \in loggedIn \cup unloaded

(* No browser stays open without a flow that watches it, unless the login  *)
(* was completed.                                                          *)
NoStrayBrowser ==
  \A a \in Accounts :
    browser[a] = "open" => flow[a] \in {"opening", "waiting", "closing"} \/ a \in confirmed

(* When the request is answered the account has a row exactly if it has a  *)
(* session ("Roll back the row we just inserted so the user doesn't see a  *)
(* phantom account", handlers/repost.go:241-242), unless an insert or an   *)
(* answer was lost, the rollback failed, the server went down or the user  *)
(* deleted the row.                                                        *)
RowsMatchSessions ==
  \A a \in Accounts : request[a] = "done" => (a \in rows <=> a \in started) \/ a \in excused

(* The button works again in the end, and no session runs for ever.        *)
AddingEnds == \A a \in Accounts : ui[a] = "creating" ~> ui[a] \notin {"creating", "polling"} \/ a \in left
SessionsEnd == \A a \in Accounts : flow[a] = "launching" ~> flow[a] \in {"done", "none"}
=============================================================================
