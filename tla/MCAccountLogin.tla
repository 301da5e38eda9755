---- MODULE MCAccountLogin ----
(* One account: accounts share nothing but crashes and restarts.           *)
EXTENDS AccountLogin

CONSTANTS a
====
