------------------------- MODULE AccountLoginProofs -------------------------
(***************************************************************************)
(* Proofs about the two models of the sidecar: AccountLogin, for any       *)
(* number of accounts, and SidecarManager, for any number of servers and   *)
(* processes; and for any bounds.                                          *)
(***************************************************************************)
EXTENDS AccountLogin, SidecarManager, TLAPS

-----------------------------------------------------------------------------
(* Types, and the polls stay in their number.                              *)
THEOREM LoginTypeCorrect == Spec => []TypeOK
<1> USE LoginAssumption DEF TypeOK, vars, plugin, backend, sidecar, bounds, hist, pages
<1>1. Init => TypeOK
  BY DEF Init
<1>2. ASSUME TypeOK, [Next]_vars PROVE TypeOK'
  <2> USE <1>2
  <2>1. ASSUME NEW a \in Accounts, AddAccount(a) PROVE TypeOK'
    BY <2>1 DEF AddAccount, Request
  <2>2. ASSUME NEW a \in Accounts, Leave(a) PROVE TypeOK'
    BY <2>2 DEF Leave
  <2>3. ASSUME NEW a \in Accounts, InsertRow(a) PROVE TypeOK'
    BY <2>3 DEF InsertRow, Request, Show, Fails
  <2>4. ASSUME NEW a \in Accounts, StartLogin(a) PROVE TypeOK'
    BY <2>4 DEF StartLogin, Request, Fails
  <2>5. ASSUME NEW a \in Accounts, Created(a) PROVE TypeOK'
    BY <2>5 DEF Created, Request, Show, Fails
  <2>6. ASSUME NEW a \in Accounts, RollBack(a) PROVE TypeOK'
    BY <2>6 DEF RollBack, Request, Show, Fails
  <2>7. ASSUME NEW a \in Accounts, DeleteAccount(a) PROVE TypeOK'
    BY <2>7 DEF DeleteAccount
  <2>8. ASSUME NEW a \in Accounts, Poll(a) PROVE TypeOK'
    BY <2>8 DEF Poll, Show, Fails, Verdict
  <2>9. ASSUME NEW a \in Accounts, GiveUp(a) PROVE TypeOK'
    BY <2>9 DEF GiveUp, Show
  <2>10. ASSUME NEW a \in Accounts, Launch(a) PROVE TypeOK'
    BY <2>10 DEF Launch
  <2>11. ASSUME NEW a \in Accounts, OpenPage(a) PROVE TypeOK'
    BY <2>11 DEF OpenPage
  <2>12. ASSUME NEW a \in Accounts, LogIn(a) PROVE TypeOK'
    BY <2>12 DEF LogIn
  <2>13. ASSUME NEW a \in Accounts, BrowserCloses(a) PROVE TypeOK'
    BY <2>13 DEF BrowserCloses, Shut
  <2>14. ASSUME NEW a \in Accounts, Watch(a) PROVE TypeOK'
    BY <2>14 DEF Watch
  <2>15. ASSUME NEW a \in Accounts, TimeOut(a) PROVE TypeOK'
    BY <2>15 DEF TimeOut
  <2>16. ASSUME NEW a \in Accounts, CloseBrowser(a) PROVE TypeOK'
    BY <2>16 DEF CloseBrowser, Shut
  <2>17. ASSUME NEW a \in Accounts, Fail(a) PROVE TypeOK'
    BY <2>17 DEF Fail
  <2>18. ASSUME NEW a \in Accounts, Cancel(a) PROVE TypeOK'
    BY <2>18 DEF Cancel
  <2>19. ASSUME NEW a \in Accounts, Cancelled(a) PROVE TypeOK'
    BY <2>19 DEF Cancelled, Shut
  <2>20. CASE Crash
    BY <2>20 DEF Crash
  <2>21. CASE Restart
    BY <2>21 DEF Restart
  <2>22. CASE UNCHANGED vars
    BY <2>22
  <2>23. QED
    BY <2>1, <2>2, <2>3, <2>4, <2>5, <2>6, <2>7, <2>8, <2>9, <2>10, <2>11, <2>12, <2>13, <2>14, <2>15, <2>16, <2>17, <2>18, <2>19, <2>20, <2>21, <2>22
    DEF Next, User, CreateAccount, PollLogin, RunLoginFlow
<1>3. QED
  BY <1>1, <1>2, PTL DEF Spec

-----------------------------------------------------------------------------
(* What is reported as a success goes back to a page: one that the user    *)
(* left, or one that did not load.                                         *)
TrueInv ==
  /\ away \subseteq loggedIn \cup unloaded
  /\ \A a \in Accounts : status[a] = "completed" => a \in loggedIn \cup unloaded
  /\ SuccessIsTrue

(* The only way to "ok" leads over "completed", and to that over away.    *)
LEMMA TrueInvariant == Spec => []TrueInv
<1> USE DEF TrueInv, SuccessIsTrue, TypeOK, vars, plugin, backend, sidecar, bounds, hist, pages
<1>1. Init => TrueInv
  BY DEF Init
<1>2. ASSUME TypeOK, TrueInv, [Next]_vars PROVE TrueInv'
  <2> USE <1>2
  <2>1. ASSUME NEW a \in Accounts, AddAccount(a) PROVE TrueInv'
    BY <2>1 DEF AddAccount, Request
  <2>2. ASSUME NEW a \in Accounts, Leave(a) PROVE TrueInv'
    BY <2>2 DEF Leave
  <2>3. ASSUME NEW a \in Accounts, InsertRow(a) PROVE TrueInv'
    BY <2>3 DEF InsertRow, Request, Show, Fails
  <2>4. ASSUME NEW a \in Accounts, StartLogin(a) PROVE TrueInv'
    BY <2>4 DEF StartLogin, Request, Fails
  <2>5. ASSUME NEW a \in Accounts, Created(a) PROVE TrueInv'
    BY <2>5 DEF Created, Request, Show, Fails
  <2>6. ASSUME NEW a \in Accounts, RollBack(a) PROVE TrueInv'
    BY <2>6 DEF RollBack, Request, Show, Fails
  <2>7. ASSUME NEW a \in Accounts, DeleteAccount(a) PROVE TrueInv'
    BY <2>7 DEF DeleteAccount
  <2>8. ASSUME NEW a \in Accounts, Poll(a) PROVE TrueInv'
    BY <2>8 DEF Poll, Show, Fails, Verdict
  <2>9. ASSUME NEW a \in Accounts, GiveUp(a) PROVE TrueInv'
    BY <2>9 DEF GiveUp, Show
  <2>10. ASSUME NEW a \in Accounts, Launch(a) PROVE TrueInv'
    BY <2>10 DEF Launch
  <2>11. ASSUME NEW a \in Accounts, OpenPage(a) PROVE TrueInv'
    BY <2>11 DEF OpenPage
  <2>12. ASSUME NEW a \in Accounts, LogIn(a) PROVE TrueInv'
    BY <2>12 DEF LogIn
  <2>13. ASSUME NEW a \in Accounts, BrowserCloses(a) PROVE TrueInv'
    BY <2>13 DEF BrowserCloses, Shut
  <2>14. ASSUME NEW a \in Accounts, Watch(a) PROVE TrueInv'
    BY <2>14 DEF Watch
  <2>15. ASSUME NEW a \in Accounts, TimeOut(a) PROVE TrueInv'
    BY <2>15 DEF TimeOut
  <2>16. ASSUME NEW a \in Accounts, CloseBrowser(a) PROVE TrueInv'
    BY <2>16 DEF CloseBrowser, Shut
  <2>17. ASSUME NEW a \in Accounts, Fail(a) PROVE TrueInv'
    BY <2>17 DEF Fail
  <2>18. ASSUME NEW a \in Accounts, Cancel(a) PROVE TrueInv'
    BY <2>18 DEF Cancel
  <2>19. ASSUME NEW a \in Accounts, Cancelled(a) PROVE TrueInv'
    BY <2>19 DEF Cancelled, Shut
  <2>20. CASE Crash
    BY <2>20 DEF Crash
  <2>21. CASE Restart
    BY <2>21 DEF Restart
  <2>22. CASE UNCHANGED vars
    BY <2>22
  <2>23. QED
    BY <2>1, <2>2, <2>3, <2>4, <2>5, <2>6, <2>7, <2>8, <2>9, <2>10, <2>11, <2>12, <2>13, <2>14, <2>15, <2>16, <2>17, <2>18, <2>19, <2>20, <2>21, <2>22
    DEF Next, User, CreateAccount, PollLogin, RunLoginFlow
<1>3. QED
  BY <1>1, <1>2, LoginTypeCorrect, PTL DEF Spec

(* The plugin announces a login only if the user has left the login pages  *)
(* or they did not load (pollLogin, _runLoginFlow).                        *)
THEOREM SuccessIsReported == Spec => []SuccessIsTrue
BY TrueInvariant, PTL DEF TrueInv

-----------------------------------------------------------------------------
(* A browser exists only after the request has reached the sidecar, and    *)
(* not before the launch is over.                                          *)
BrowserInv ==
  /\ \A a \in Accounts : ui[a] = "none" => request[a] = "none"
  /\ \A a \in Accounts :
       request[a] \in {"none", "insert", "start"} => browser[a] = "none" /\ flow[a] = "none"
  /\ \A a \in Accounts : flow[a] = "launching" => browser[a] = "none"
  /\ NoStrayBrowser

(* The flow that opened it goes with it until the login is completed.     *)
LEMMA BrowserInvariant == Spec => []BrowserInv
<1> USE DEF BrowserInv, NoStrayBrowser, TypeOK, vars, plugin, backend, sidecar, bounds, hist, pages
<1>1. Init => BrowserInv
  BY DEF Init
<1>2. ASSUME TypeOK, BrowserInv, [Next]_vars PROVE BrowserInv'
  <2> USE <1>2
  <2>1. ASSUME NEW a \in Accounts, AddAccount(a) PROVE BrowserInv'
    BY <2>1 DEF AddAccount, Request
  <2>2. ASSUME NEW a \in Accounts, Leave(a) PROVE BrowserInv'
    BY <2>2 DEF Leave
  <2>3. ASSUME NEW a \in Accounts, InsertRow(a) PROVE BrowserInv'
    BY <2>3 DEF InsertRow, Request, Show, Fails
  <2>4. ASSUME NEW a \in Accounts, StartLogin(a) PROVE BrowserInv'
    BY <2>4 DEF StartLogin, Request, Fails
  <2>5. ASSUME NEW a \in Accounts, Created(a) PROVE BrowserInv'
    BY <2>5 DEF Created, Request, Show, Fails
  <2>6. ASSUME NEW a \in Accounts, RollBack(a) PROVE BrowserInv'
    BY <2>6 DEF RollBack, Request, Show, Fails
  <2>7. ASSUME NEW a \in Accounts, DeleteAccount(a) PROVE BrowserInv'
    BY <2>7 DEF DeleteAccount
  <2>8. ASSUME NEW a \in Accounts, Poll(a) PROVE BrowserInv'
    BY <2>8 DEF Poll, Show, Fails, Verdict
  <2>9. ASSUME NEW a \in Accounts, GiveUp(a) PROVE BrowserInv'
    BY <2>9 DEF GiveUp, Show
  <2>10. ASSUME NEW a \in Accounts, Launch(a) PROVE BrowserInv'
    BY <2>10 DEF Launch
  <2>11. ASSUME NEW a \in Accounts, OpenPage(a) PROVE BrowserInv'
    BY <2>11 DEF OpenPage
  <2>12. ASSUME NEW a \in Accounts, LogIn(a) PROVE BrowserInv'
    BY <2>12 DEF LogIn
  <2>13. ASSUME NEW a \in Accounts, BrowserCloses(a) PROVE BrowserInv'
    BY <2>13 DEF BrowserCloses, Shut
  <2>14. ASSUME NEW a \in Accounts, Watch(a) PROVE BrowserInv'
    BY <2>14 DEF Watch
  <2>15. ASSUME NEW a \in Accounts, TimeOut(a) PROVE BrowserInv'
    BY <2>15 DEF TimeOut
  <2>16. ASSUME NEW a \in Accounts, CloseBrowser(a) PROVE BrowserInv'
    BY <2>16 DEF CloseBrowser, Shut
  <2>17. ASSUME NEW a \in Accounts, Fail(a) PROVE BrowserInv'
    BY <2>17 DEF Fail
  <2>18. ASSUME NEW a \in Accounts, Cancel(a) PROVE BrowserInv'
    BY <2>18 DEF Cancel
  <2>19. ASSUME NEW a \in Accounts, Cancelled(a) PROVE BrowserInv'
    BY <2>19 DEF Cancelled, Shut
  <2>20. CASE Crash
    BY <2>20 DEF Crash
  <2>21. CASE Restart
    BY <2>21 DEF Restart
  <2>22. CASE UNCHANGED vars
    BY <2>22
  <2>23. QED
    BY <2>1, <2>2, <2>3, <2>4, <2>5, <2>6, <2>7, <2>8, <2>9, <2>10, <2>11, <2>12, <2>13, <2>14, <2>15, <2>16, <2>17, <2>18, <2>19, <2>20, <2>21, <2>22
    DEF Next, User, CreateAccount, PollLogin, RunLoginFlow
<1>3. QED
  BY <1>1, <1>2, LoginTypeCorrect, PTL DEF Spec

(* No browser stays open without a flow, unless its login was completed    *)
(* (the finally of _runLoginFlow).                                         *)
THEOREM BrowsersAreWatched == Spec => []NoStrayBrowser
BY BrowserInvariant, PTL DEF BrowserInv

-----------------------------------------------------------------------------
(* How far a request has come tells what it has done, unless the account   *)
(* is excused.                                                             *)
RowInv ==
  /\ \A a \in Accounts : ui[a] = "none" => request[a] = "none"
  /\ \A a \in Accounts \ excused :
       /\ a \in rows => request[a] \notin {"none", "insert"}
       /\ a \in started => request[a] \in {"await", "done"}
       /\ request[a] \in {"start", "rollback"} => a \in rows
       /\ request[a] = "await" => a \in rows /\ a \in started
  /\ RowsMatchSessions

(* Each step of CreateAccount carries this to the next.                    *)
LEMMA RowInvariant == Spec => []RowInv
<1> USE DEF RowInv, RowsMatchSessions, TypeOK, vars, plugin, backend, sidecar, bounds, hist, pages
<1>1. Init => RowInv
  BY DEF Init
<1>2. ASSUME TypeOK, RowInv, [Next]_vars PROVE RowInv'
  <2> USE <1>2
  <2>1. ASSUME NEW a \in Accounts, AddAccount(a) PROVE RowInv'
    BY <2>1 DEF AddAccount, Request
  <2>2. ASSUME NEW a \in Accounts, Leave(a) PROVE RowInv'
    BY <2>2 DEF Leave
  <2>3. ASSUME NEW a \in Accounts, InsertRow(a) PROVE RowInv'
    BY <2>3 DEF InsertRow, Request, Show, Fails
  <2>4. ASSUME NEW a \in Accounts, StartLogin(a) PROVE RowInv'
    BY <2>4 DEF StartLogin, Request, Fails
  <2>5. ASSUME NEW a \in Accounts, Created(a) PROVE RowInv'
    BY <2>5 DEF Created, Request, Show, Fails
  <2>6. ASSUME NEW a \in Accounts, RollBack(a) PROVE RowInv'
    BY <2>6 DEF RollBack, Request, Show, Fails
  <2>7. ASSUME NEW a \in Accounts, DeleteAccount(a) PROVE RowInv'
    BY <2>7 DEF DeleteAccount
  <2>8. ASSUME NEW a \in Accounts, Poll(a) PROVE RowInv'
    BY <2>8 DEF Poll, Show, Fails, Verdict
  <2>9. ASSUME NEW a \in Accounts, GiveUp(a) PROVE RowInv'
    BY <2>9 DEF GiveUp, Show
  <2>10. ASSUME NEW a \in Accounts, Launch(a) PROVE RowInv'
    BY <2>10 DEF Launch
  <2>11. ASSUME NEW a \in Accounts, OpenPage(a) PROVE RowInv'
    BY <2>11 DEF OpenPage
  <2>12. ASSUME NEW a \in Accounts, LogIn(a) PROVE RowInv'
    BY <2>12 DEF LogIn
  <2>13. ASSUME NEW a \in Accounts, BrowserCloses(a) PROVE RowInv'
    BY <2>13 DEF BrowserCloses, Shut
  <2>14. ASSUME NEW a \in Accounts, Watch(a) PROVE RowInv'
    BY <2>14 DEF Watch
  <2>15. ASSUME NEW a \in Accounts, TimeOut(a) PROVE RowInv'
    BY <2>15 DEF TimeOut
  <2>16. ASSUME NEW a \in Accounts, CloseBrowser(a) PROVE RowInv'
    BY <2>16 DEF CloseBrowser, Shut
  <2>17. ASSUME NEW a \in Accounts, Fail(a) PROVE RowInv'
    BY <2>17 DEF Fail
  <2>18. ASSUME NEW a \in Accounts, Cancel(a) PROVE RowInv'
    BY <2>18 DEF Cancel
  <2>19. ASSUME NEW a \in Accounts, Cancelled(a) PROVE RowInv'
    BY <2>19 DEF Cancelled, Shut
  <2>20. CASE Crash
    BY <2>20 DEF Crash
  <2>21. CASE Restart
    BY <2>21 DEF Restart
  <2>22. CASE UNCHANGED vars
    BY <2>22
  <2>23. QED
    BY <2>1, <2>2, <2>3, <2>4, <2>5, <2>6, <2>7, <2>8, <2>9, <2>10, <2>11, <2>12, <2>13, <2>14, <2>15, <2>16, <2>17, <2>18, <2>19, <2>20, <2>21, <2>22
    DEF Next, User, CreateAccount, PollLogin, RunLoginFlow
<1>3. QED
  BY <1>1, <1>2, LoginTypeCorrect, PTL DEF Spec

(* An answered request leaves a row exactly if it started a session        *)
(* (CreateAccount and its rollback).                                       *)
THEOREM RowsAndSessionsAgree == Spec => []RowsMatchSessions
BY RowInvariant, PTL DEF RowInv

-----------------------------------------------------------------------------
(* SidecarManager                                                          *)

(* What the two properties leave open.  The process a server could kill is *)
(* the one its present run has spawned, in that run and not before; what   *)
(* its start has found is known only once the start is over; and what has  *)
(* failed or was killed has ended, so its owner does not change again.     *)
HandlesOK ==
  \A s \in Servers :
    /\ at[s] # "down" => runs[s] > 0
    /\ at[s] \in {"down", "ping", "spawn"} => handle[s] = None
    /\ at[s] \in {"down", "ping", "spawn", "wait"} => source[s] = None
    /\ handle[s] # None => owner[handle[s]] = Run(s) /\ child[handle[s]] # "none"

EndsOK == \A c \in failed \cup killed : child[c] = "ended"

HostInv ==
  /\ HostTypeOK
  /\ HandlesOK
  /\ EndsOK
  /\ StraysHaveACause
  /\ SidecarStays

(* Kill ends at most the process the server has at hand, and forgets it.   *)
LEMMA KillIsOwn ==
  ASSUME HostInv, NEW s \in Servers, Kill(s)
  PROVE  /\ child' \in [Children -> {"none", "booting", "serving", "ended"}]
         /\ killed' \subseteq Children
         /\ handle' \in [Servers -> Children \cup {None}]
         /\ handle'[s] = None
         /\ \A r \in Servers \ {s} : handle'[r] = handle[r]
         /\ \A c \in Children : child'[c] = child[c] \/ (c = handle[s] /\ child'[c] = "ended" /\ c \in killed')
         /\ \A c \in Children : c = handle[s] => ~Lives(c)'
         /\ killed \subseteq killed'
         /\ \A c \in killed' : child'[c] = "ended"
<1> DEFINE C == {c \in Children : c = handle[s] /\ Lives(c)}
<1>1. child' = [c \in Children |-> IF c \in C THEN "ended" ELSE child[c]] /\ killed' = killed \cup C
  BY DEF Kill
<1>2. handle' = [handle EXCEPT ![s] = None]
  BY DEF Kill
<1>3. child' \in [Children -> {"none", "booting", "serving", "ended"}]
  BY <1>1 DEF HostInv, HostTypeOK
<1>4. handle' \in [Servers -> Children \cup {None}] /\ handle'[s] = None
      /\ \A r \in Servers \ {s} : handle'[r] = handle[r]
  BY <1>2 DEF HostInv, HostTypeOK
<1>5. \A c \in killed' : child'[c] = "ended"
  BY <1>1 DEF HostInv, HostTypeOK, EndsOK
<1>6. \A c \in Children : c = handle[s] => ~Lives(c)'
  BY <1>1 DEF Lives
<1>7. QED
  BY <1>1, <1>3, <1>4, <1>5, <1>6 DEF HostInv, HostTypeOK

LEMMA HostInvariant == HostSpec => []HostInv
<1>0. MaxRuns \in Nat /\ None \notin Children
  BY SidecarAssumption
<1> USE <1>0
<1>1. HostInit => HostInv
  BY DEF HostInit, HostInv, HostTypeOK, HandlesOK, EndsOK, StraysHaveACause, SidecarStays, Lives
<1>2. ASSUME HostInv, [HostNext]_hostVars PROVE HostInv'
  <2> USE <1>2 DEF HostInv, HostTypeOK, HandlesOK, EndsOK, StraysHaveACause, SidecarStays, Lives, Run
  <2>1. ASSUME NEW c \in Children, Listen(c) PROVE HostInv'
    BY <2>1 DEF Listen, Answering
  <2>2. ASSUME NEW c \in Children, Break(c) PROVE HostInv'
    BY <2>2 DEF Break
  <2>3. ASSUME NEW s \in Servers, Start(s) PROVE HostInv'
    BY <2>3 DEF Start, hostHist
  <2>4. ASSUME NEW s \in Servers, Adopt(s) PROVE HostInv'
    BY <2>4 DEF Adopt, CleanupOfAdopted, Answering
  <2>5. ASSUME NEW s \in Servers, NotFound(s) PROVE HostInv'
    BY <2>5 DEF NotFound, hostHist
  <2>6. ASSUME NEW s \in Servers, Spawn(s) PROVE HostInv'
    BY <2>6 DEF Spawn
  <2>7. ASSUME NEW s \in Servers, Ready(s) PROVE HostInv'
    BY <2>7 DEF Ready, Answering
  <2>8. ASSUME NEW s \in Servers, WaitTooLong(s) PROVE HostInv'
    BY <2>8, KillIsOwn DEF WaitTooLong
  <2>9. ASSUME NEW s \in Servers, Serve(s) PROVE HostInv'
    BY <2>9 DEF Serve, hostHist
  <2>10. ASSUME NEW s \in Servers, Shutdown(s) PROVE HostInv'
    BY <2>10, KillIsOwn DEF Shutdown, End
  <2>11. ASSUME NEW s \in Servers, Exit(s) PROVE HostInv'
    BY <2>11 DEF Exit, End
  <2>12. CASE UNCHANGED hostVars
    BY <2>12 DEF hostVars, hostHist
  <2>13. QED
    BY <2>1, <2>2, <2>3, <2>4, <2>5, <2>6, <2>7, <2>8, <2>9, <2>10, <2>11, <2>12 DEF HostNext
<1>3. QED
  BY <1>1, <1>2, PTL DEF HostSpec

(* The variables have their types: what a server kills, has found or has   *)
(* lost is a process of the sidecar.                                       *)
THEOREM HostTypeCorrect == HostSpec => []HostTypeOK
<1>1. HostInv => HostTypeOK
  BY DEF HostInv
<1>2. QED
  BY <1>1, HostInvariant, PTL

(* A process that runs is in the hands of the run that spawned it, unless  *)
(* that run has ended without its cleanup: EnsureRunning that gives up     *)
(* leaves nothing behind.                                                  *)
THEOREM NoStraysWithoutCause == HostSpec => []StraysHaveACause
<1>1. HostInv => StraysHaveACause
  BY DEF HostInv
<1>2. QED
  BY <1>1, HostInvariant, PTL

(* What a server's start has found goes away only if the process broke, or *)
(* the run that had spawned it has killed it.                              *)
THEOREM FoundSidecarsStay == HostSpec => []SidecarStays
<1>1. HostInv => SidecarStays
  BY DEF HostInv
<1>2. QED
  BY <1>1, HostInvariant, PTL
=============================================================================
