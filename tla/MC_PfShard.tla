----------------------------- MODULE MC_PfShard -----------------------------
(* What the candidates of a small power-flow shard may meet. *)
EXTENDS PfShard

Valid    == [success |-> TRUE, status |-> "LOCALLY_SOLVED", primal |-> TRUE,
             valid |-> TRUE, violations |-> {}]
Limits   == [Valid EXCEPT !.valid = FALSE, !.violations = {"operational"}]
Island   == [success |-> FALSE, status |-> "ISLANDED", primal |-> FALSE,
             valid |-> FALSE, violations |-> {}]
Crashed  == [Island EXCEPT !.status = "PROCESS_ERROR"]

\* Each candidate has its own way to go wrong.
Mixed == [c \in Cands |->
  CASE c = 1 -> {<<Limits, "done">>, <<Limits, "late">>}
    [] c = 2 -> {<<Valid, "done">>, <<Crashed, "done">>, <<Valid, "copy">>}
    [] OTHER -> {<<Island, "done">>, <<Valid, "early">>}]
SomeTears == {Whole, Fragment}
=============================================================================
