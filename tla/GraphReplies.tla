---------------------------- MODULE GraphReplies ----------------------------
(***************************************************************************)
(* What one attempt of an HTTP call to the Facebook Graph API (or to       *)
(* OpenAI, whose client has the same loop) can bring back, and what the    *)
(* client of internal/fb/graph_client.go makes of it.  Pure operators: the *)
(* call as a state machine is RetryLoop, and the modules whose steps post  *)
(* to Facebook take the outcomes of an attempt from here.                  *)
(***************************************************************************)
EXTENDS Naturals

(* The ways an attempt ends, as doWithRetry tells them apart:              *)
(*   network    http.Do returned an error (refused, reset, timed out)      *)
(*   readBody   the response arrived but its body could not be read        *)
(*   ok         2xx with a body that decodes                               *)
(*   badBody    2xx with a body that does not decode, or an empty id       *)
(*   fbStop     an error envelope with a code of noRetryCodes              *)
(*   fbOther4xx a 4xx status, error envelope with any other code           *)
(*   fbOther5xx a 5xx status, error envelope with any other code           *)
(*   http4xx    a 4xx status without an error envelope                     *)
(*   http5xx    a 5xx status without an error envelope                     *)
Replies == {"network", "readBody", "ok", "badBody", "fbStop",
            "fbOther4xx", "fbOther5xx", "http4xx", "http5xx"}

(* Replies whose HTTP status is 4xx (a code of noRetryCodes comes with a   *)
(* 4xx status).                                                            *)
Status4xx == {"fbStop", "fbOther4xx", "http4xx"}

(* The replies that end a Graph call in an error at once.  doWithRetry     *)
(* looks at the error envelope before the status: an envelope is judged by *)
(* its code alone, and the status is compared with 500 only without one.   *)
GraphGiveUp == {"badBody", "fbStop", "http4xx"}

(* The replies that end an OpenAI call in an error at once: every 4xx.     *)
OpenAIGiveUp == {"badBody"} \cup Status4xx

(* The branch taken on a reply by a loop that gives up on giveUp.          *)
Verdict(reply, giveUp) ==
  IF reply = "ok" THEN "done"
  ELSE IF reply \in giveUp THEN "fail"
  ELSE "retry"

(* Whether the server carried the operation out although this is what the  *)
(* client saw.  A connection that breaks or a 5xx says nothing about it; a *)
(* 4xx had no effect.                                                      *)
MayApply(reply) ==
  IF reply \in {"ok", "badBody", "readBody"} THEN {TRUE}
  ELSE IF reply \in Status4xx THEN {FALSE}
  ELSE BOOLEAN

(* What an attempt of a Graph call amounts to for a caller that only sees  *)
(* the verdict.  A cancelled context ends the call instead of the next     *)
(* attempt, so a "retry" may also be a "fail".                             *)
Outcomes ==
  [applied : BOOLEAN, verdict : {"done", "retry", "fail"}]
    \ {[applied |-> FALSE, verdict |-> "done"]}

(* Outcomes is exactly what the replies and a cancellation can produce.    *)
ASSUME OutcomesExact ==
  Outcomes =
    {o \in [applied : BOOLEAN, verdict : {"done", "retry", "fail"}] :
       \E r \in Replies : /\ o.applied \in MayApply(r)
                          /\ \/ o.verdict = Verdict(r, GraphGiveUp)
                             \/ /\ Verdict(r, GraphGiveUp) = "retry"
                                /\ o.verdict = "fail"}
=============================================================================
