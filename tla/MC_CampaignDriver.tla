------------------------- MODULE MC_CampaignDriver -------------------------
(* Two rounds of two shards, under each launcher. *)
EXTENDS CampaignDriver

MC_Budgets == <<10, 20>>
MC_MaxFaults == [pf |-> 1, exago |-> 2, drive |-> 2, auto |-> 2]
MC_Modes == {m \in Mode : m.dep = "afterok" => m.launcher = "drive"}
=============================================================================
