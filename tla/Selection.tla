------------------------------ MODULE Selection ------------------------------
(***************************************************************************)
(* What a campaign round runs (acquisition/, screening/, planning.py,      *)
(* scheduler.py): which candidates go to the AC solver, which of them the  *)
(* portfolio takes, and how much each round may spend.                     *)
(*                                                                         *)
(* A candidate is a record with an id, the attributes the limits count,    *)
(* its stratum and integer scores; fractions are shares of `unit'.  What   *)
(* rng.shuffle does is the field draw: an order of the candidates.         *)
(***************************************************************************)
EXTENDS PythonLists, FiniteSets

Ids(s) == {s[i].id : i \in DOMAIN s}

(***************************************************************************)
(* stratified_random_order: each stratum is shuffled, then they give one   *)
(* candidate each in turn until all are empty.                             *)
(***************************************************************************)

StratifiedOrder(cands) ==
  LET first(c) == Min({i \in DOMAIN cands : cands[i].stratum = c.stratum})
      turn(c) == Cardinality({i \in DOMAIN cands : /\ cands[i].stratum = c.stratum
                                                   /\ cands[i].draw < c.draw})
  IN Descending(cands, [i \in DOMAIN cands |->
                          - (turn(cands[i]) * (Len(cands) + 1) + first(cands[i]))])

(***************************************************************************)
(* select_ac_evaluations.                                                  *)
(***************************************************************************)
\* A limit of 0 is none.
Violates(cand, selected, limits) ==
  \E k \in DOMAIN limits :
    /\ limits[k] > 0
    /\ Cardinality({i \in DOMAIN selected : selected[i][k] = cand[k]}) >= limits[k]

Label(cand, queue) == cand @@ [queue |-> queue]

\* Variant with a bug: what is passed over counts against the quota.
TakeFrom_Passed(queue, name, quota, selected, limits) ==
  FoldLeft(LAMBDA s, c :
             IF s.taken >= quota THEN s
             ELSE IF c.id \in Ids(s.sel) \/ Violates(c, s.sel, limits)
             THEN [s EXCEPT !.taken = @ + 1]
             ELSE [sel |-> Append(s.sel, Label(c, name)), taken |-> s.taken + 1],
           [sel |-> selected, taken |-> 0], queue).sel

\* Takes up to `quota' of the queue, passing over what is selected already and
\* what would break a limit.
TakeFrom(queue, name, quota, selected, limits) ==
  FoldLeft(LAMBDA s, c :
             IF s.taken >= quota \/ c.id \in Ids(s.sel) \/ Violates(c, s.sel, limits) THEN s
             ELSE [sel |-> Append(s.sel, Label(c, name)), taken |-> s.taken + 1],
           [sel |-> selected, taken |-> 0], queue).sel

By(cands, field) == Descending(cands, [i \in DOMAIN cands |-> cands[i][field]])

\* The queues in their order; severity_upper_bound is at 1.96 standard deviations.
Queues(cands) ==
  LET weighted(c) == 5 * c.credible + 3 * c.severity + 2 * c.novelty
      upper(c) == 100 * c.severity + 196 * c.unsure
  IN << <<"coverage", By(cands, "novelty")>>,
        <<"active_set", By(cands, "active")>>,
        <<"boundary", By(cands, "boundary")>>,
        <<"credible_contingency", Descending(cands, [i \in DOMAIN cands |-> weighted(cands[i])])>>,
        <<"severity_uncertainty", Descending(cands, [i \in DOMAIN cands |-> upper(cands[i])])>>,
        <<"audit", StratifiedOrder(cands)>> >>

\* deduplicate_and_backfill: cut to the target, or filled up by novelty; the
\* limits do not hold here.
Backfilled(selected, cands, target) ==
  IF Len(selected) >= target THEN SubSeq(selected, 1, target)
  ELSE TakeFrom(By(cands, "novelty"), "backfill", target - Len(selected),
                selected, <<>>)

SelectAC(cands, budget, share, unit, limits) ==
  IF budget >= Len(cands)
  THEN TakeFrom(cands, "full_budget", Len(cands), <<>>, limits)
  ELSE Backfilled(
         FoldLeft(LAMBDA sel, q : TakeFrom(q[2], q[1], Rounded(budget * share[q[1]], unit),
                                           sel, limits),
                  <<>>, Queues(cands)),
         cands, budget)

Counted(counts, row, limits, kept) ==
  IF ~kept THEN counts ELSE [k \in DOMAIN limits |-> [counts[k] EXCEPT ![row[k]] = @ + 1]]

\* run_campaign_round_streaming: one pass with a counter per attribute value; the
\* ids are not looked at.
Streamed(rows, limits, values) ==
  FoldLeft(LAMBDA s, r :
             LET kept == \A k \in DOMAIN limits : limits[k] = 0 \/ s.counts[k][r[k]] < limits[k]
             IN [out |-> IF kept THEN Append(s.out, Label(r, "full_budget")) ELSE s.out,
                 counts |-> Counted(s.counts, r, limits, kept)],
           [out |-> <<>>, counts |-> [k \in DOMAIN limits |-> [v \in values |-> 0]]], rows).out

\* run_adaptive_campaign_round: the newlines of the file are counted, so the last
\* row is missed when it has none.
RoundSelection(rows, terminated, budget, share, unit, limits, values) ==
  IF budget >= (IF terminated \/ rows = <<>> THEN Len(rows) ELSE Len(rows) - 1)
  THEN Streamed(rows, limits, values)
  ELSE SelectAC(rows, budget, share, unit, limits)

(***************************************************************************)
(* screen_candidates: a candidate with a reason to escalate is accepted;   *)
(* of the others a stratified sample is audited.                           *)
(***************************************************************************)
\* A small fraction of few is still one.
AuditTarget(rejected, share, unit) == Larger(1, Rounded(rejected * share, unit))

Screened(cands, share, unit) ==
  LET accepted == SelectSeq(cands, LAMBDA c : c.reasons # {})
      rejected == SelectSeq(cands, LAMBDA c : c.reasons = {})
      target == AuditTarget(Len(rejected), share, unit)
      audited == IF rejected = <<>> THEN <<>>
                 ELSE SubSeq(StratifiedOrder(rejected), 1,
                             Min({target, Len(rejected)}))
  IN SelectSeq(accepted \o rejected,
               LAMBDA c : c.id \in Ids(audited) \/ c.reasons # {})

(***************************************************************************)
(* plan_round_budgets and GlobalScheduler.run.                             *)
(***************************************************************************)

\* Every round keeps its minimum; the rest goes by weight, the pieces the floors
\* leave to the largest remainders, the earlier round first.
RoundBudgets(total, weights, least) ==
  LET free == total - least * Len(weights)
      floor == [i \in DOMAIN weights |-> (free * weights[i]) \div Sum(weights)]
      rest == [i \in DOMAIN weights |-> (free * weights[i]) % Sum(weights)]
      place(i) == Cardinality({j \in DOMAIN weights : \/ rest[j] > rest[i]
                                                      \/ rest[j] = rest[i] /\ j < i})
  IN [i \in DOMAIN weights |->
        least + floor[i] + (IF place(i) < free - Sum(floor) THEN 1 ELSE 0)]

\* novelty_saturation and screening_reliability_met, of a round with metrics.
Stops(m) == m.known /\ m.cluster <= m.fewClusters /\ m.active <= m.fewActive
                    /\ m.missed <= m.tolerance

\* The rounds run in order until one's metrics, if it has any, say stop.
Executed(budgets, metrics) ==
  LET stops == {i \in DOMAIN budgets : Stops(metrics[i])}
  IN SubSeq(budgets, 1, IF stops = {} THEN Len(budgets) ELSE Min(stops))
=============================================================================
