---- MODULE MCRepostCampaign ----
(* A campaign of two jobs and two run requests at a time.                  *)
EXTENDS RepostCampaign

CONSTANTS a, b
====
