-------------------------- MODULE PublicationFlow --------------------------
(***************************************************************************)
(* What publication promises: an organization becomes public only through  *)
(* a request that is approved, and a request is decided once.              *)
(***************************************************************************)
VARIABLE stage      \* "private", "asked" or "public"

Stage == {"private", "asked", "public"}

FlowInit == stage = "private"

Ask == stage = "private" /\ stage' = "asked"
Approve == stage = "asked" /\ stage' = "public"
Reject == stage = "asked" /\ stage' = "private"
Withdraw == stage = "public" /\ stage' = "private"

FlowNext == Ask \/ Approve \/ Reject \/ Withdraw

FlowSpec == FlowInit /\ [][FlowNext]_stage
=============================================================================
