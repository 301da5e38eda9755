----------------------------- MODULE RetryLoop ------------------------------
(***************************************************************************)
(* One outbound HTTP call with retries and exponential backoff: the loop   *)
(* of (c *Client) doWithRetry in internal/fb/graph_client.go and, with a   *)
(* different GiveUp, that of (c *Client) Complete in internal/ai/openai.go.*)
(* The client makes one call after another; `applied` counts how many      *)
(* times the server carried the current call out.                          *)
(***************************************************************************)
EXTENDS GraphReplies

CONSTANTS
  MaxRetries,      \* cfg.MaxRetries: attempts before giving up
  InitialBackoff,  \* cfg.InitialBackoff: length of the first sleep
  GiveUp           \* replies that end the call in an error at once

ASSUME RetryAssumption ==
  /\ MaxRetries \in Nat \ {0}
  /\ InitialBackoff \in Nat \ {0}
  /\ GiveUp \subseteq Replies \ {"ok"}

VARIABLES
  phase,      \* "idle", "sending", "waiting", "done", "failed"
  attempt,    \* the loop counter, 1 .. MaxRetries during a call
  backoff,    \* the next sleep
  waited,     \* history: time slept in this call
  cancelled,  \* the call's context is done
  applied,    \* history: attempts the server carried out
  lost,       \* history: those of them the client then retried
  refused     \* history: the call has been answered with a 4xx status

callVars == <<phase, attempt, backoff, waited, cancelled, applied, lost, refused>>

InCall == phase \in {"sending", "waiting"}

CallInit ==
  /\ phase = "idle"
  /\ attempt = 0
  /\ backoff = InitialBackoff
  /\ waited = 0
  /\ cancelled = FALSE
  /\ applied = 0
  /\ lost = 0
  /\ refused = FALSE

(* A new call enters the loop.                                             *)
Call ==
  /\ ~InCall
  /\ phase' = "sending"
  /\ attempt' = 1
  /\ backoff' = InitialBackoff
  /\ waited' = 0
  /\ cancelled' = FALSE
  /\ applied' = 0
  /\ lost' = 0
  /\ refused' = FALSE

(* The caller's context is cancelled or times out.                         *)
Cancel ==
  /\ InCall
  /\ ~cancelled
  /\ cancelled' = TRUE
  /\ UNCHANGED <<phase, attempt, backoff, waited, applied, lost, refused>>

AfterAttemptGoesOn(v) ==
  IF v # "fail" /\ attempt < MaxRetries THEN "waiting"
  ELSE IF v = "done" THEN "done"
  ELSE "failed"

(* The phase after an attempt whose branch is v: no sleep after the last.  *)
AfterAttempt(v) ==
  IF v = "done" THEN "done"
  ELSE IF v = "retry" /\ attempt < MaxRetries THEN "waiting"
  ELSE "failed"

(* http.Do returns, or fails, and the loop decides.                        *)
Reply(r) ==
  /\ phase = "sending"
  /\ \E effect \in MayApply(r) :
       /\ applied' = applied + (IF effect THEN 1 ELSE 0)
       /\ lost' = lost + (IF effect /\ Verdict(r, GiveUp) = "retry" THEN 1 ELSE 0)
  /\ refused' = (refused \/ r \in Status4xx)
  /\ phase' = AfterAttempt(Verdict(r, GiveUp))
  /\ UNCHANGED <<attempt, backoff, waited, cancelled>>

(* Breakage of Wake: the select waits for the context only.                *)
WakeOnDone ==
  /\ phase = "waiting"
  /\ cancelled
  /\ phase' = "sending"
  /\ attempt' = attempt + 1
  /\ UNCHANGED <<backoff, waited, cancelled, applied, lost, refused>>

(* The sleep ends: next attempt, doubled backoff.                          *)
Wake ==
  /\ phase = "waiting"
  /\ ~cancelled
  /\ phase' = "sending"
  /\ attempt' = attempt + 1
  /\ waited' = waited + backoff
  /\ backoff' = 2 * backoff
  /\ UNCHANGED <<cancelled, applied, lost, refused>>

(* The select sees ctx.Done instead.  (When both are ready Go picks one;   *)
(* an attempt made with a done context fails before it is sent, so the     *)
(* call ends the same way.)                                                *)
Abort ==
  /\ phase = "waiting"
  /\ cancelled
  /\ phase' = "failed"
  /\ UNCHANGED <<attempt, backoff, waited, cancelled, applied, lost, refused>>

CallNext == \/ Call
        \/ Cancel
        \/ \E r \in Replies : Reply(r)
        \/ Wake
        \/ Abort

(* The per-attempt HTTP timeout makes an attempt end, and timers fire; no  *)
(* one is obliged to make a call.                                          *)
CallFairness == WF_callVars((\E r \in Replies : Reply(r)) \/ Wake \/ Abort)

CallSpec == CallInit /\ [][CallNext]_callVars /\ CallFairness

-----------------------------------------------------------------------------
CallTypeOK ==
  /\ phase \in {"idle", "sending", "waiting", "done", "failed"}
  /\ attempt \in 0 .. MaxRetries
  /\ backoff \in Nat
  /\ waited \in Nat
  /\ cancelled \in BOOLEAN
  /\ applied \in Nat
  /\ lost \in Nat
  /\ refused \in BOOLEAN

(* The loop sleeps only when another attempt is still allowed, and the     *)
(* time slept is the sum of the doubling backoffs: it telescopes to        *)
(* backoff - InitialBackoff.  An increment, a doubling or a break out of   *)
(* place in the loop breaks it.                                            *)
WaitAccounted ==
  /\ phase = "waiting" => attempt < MaxRetries
  /\ waited = backoff - InitialBackoff

(* The server carries a call out more than once only when an attempt it    *)
(* did carry out looked to the client like one worth retrying; and a call  *)
(* that returns a result was carried out.                                  *)
DuplicateNeedsLostReply ==
  /\ applied <= lost + 1
  /\ phase = "done" => applied = lost + 1
  /\ lost <= attempt

(* "Does NOT retry on 4xx" (graph_client.go:362): once the server has      *)
(* answered a call with a 4xx, no further attempt of it is made.           *)
RefusedIsFinal == [][InCall /\ refused => attempt' = attempt]_callVars

(* Whatever the server does, a call comes back to its caller.              *)
EveryCallEnds == InCall ~> ~InCall
=============================================================================
