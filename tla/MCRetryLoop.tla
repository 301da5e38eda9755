---- MODULE MCRetryLoop ----
(* The Graph client with its defaults: three                               *)
(* attempts and an initial backoff of 500 ms (here one unit).              *)
EXTENDS RetryLoop
====
