--------------------------- MODULE MC_CampaignRepair ---------------------------
(* Three sources: one with a candidate sampled twice and a torn line, one with  *)
(* linear costs, one with two rows to repair in different shards.  Four rows   *)
(* to repair at most, in three shards; the run id of a candidate sampled again *)
(* is the same.                                                                *)
EXTENDS CampaignRepair
R(c, r, ok, quad, unit) == [cand |-> c, run |-> r, ok |-> ok, quad |-> quad,
                            marked |-> FALSE, unit |-> unit, before |-> "none"]
Rows0 == <<R(1, "a", FALSE, TRUE, 0), Torn, R(1, "a", TRUE, TRUE, 0)>>
Rows1 == <<R(5, "f", TRUE, FALSE, 0), R(2, "b", TRUE, FALSE, 1)>>
Rows2 == <<R(3, "d", FALSE, TRUE, 0), R(4, "e", FALSE, TRUE, 0)>>
Samples3 == (0 :> Rows0) @@ (1 :> Rows1) @@ (2 :> Rows2)

\* A resumed session overwrote the first report with its own row.
ReportOf(rows, failed) ==
  [solved |-> [k \in {<<rows[i].cand, rows[i].run>> : i \in 1 .. Len(rows)} |->
                 Outcome(rows[CHOOSE i \in 1 .. Len(rows) : <<rows[i].cand, rows[i].run>> = k])],
   failed |-> failed, skipped |-> 0, unsampled |-> 0]
Reports3 == (0 :> ReportOf(<<Rows0[3]>>, {1})) @@ (1 :> ReportOf(Rows1, {})) @@ (2 :> ReportOf(Rows2, {8}))
Dealt3 == (0 :> {1, 7}) @@ (1 :> {2, 5, 9}) @@ (2 :> {3, 4, 8})

May(sel, key) ==
  CASE key[2] = 3 -> {"infeasible"}
    [] key[2] = 4 -> {"error", "solved"}
    [] key[2] = 1 -> IF sel = "failed" THEN {"solved"} ELSE {"solved", "unmarked"}
    [] OTHER -> {"solved"}
=============================================================================
