---------------------------- MODULE PfCandidates ----------------------------
(***************************************************************************)
(* How a power-flow round gets its candidates (pf/candidates.py,           *)
(* pf/anchors.py, pf/controls.py): redispatch that keeps the total         *)
(* generation, the response of the units that remain after an outage, the  *)
(* contingencies that are drawn, quotas, the pool of anchors, the four     *)
(* schedules and the loop that fills one slot after the other.             *)
(*                                                                         *)
(* A unit is [pmin, pmax, pg, slack].  Powers are integers in a small      *)
(* unit: shares are rounded down, and as in the code what is left of a     *)
(* residual below the tolerance is balanced.  Fractions are integers over  *)
(* a common denominator; `order' gives the place of a name in the sort.    *)
(***************************************************************************)
EXTENDS Integers, Sequences, FiniteSets, FiniteSetsExt, SequencesExt

CONSTANT Tolerance   \* the residual that counts as balanced

Above(x) == IF x > 0 THEN x ELSE 0
Least(x, y) == IF x < y THEN x ELSE y

Clipped(x, lo, hi) == IF x < lo THEN lo ELSE IF x > hi THEN hi ELSE x
Balanced(x) == x \in - Tolerance .. Tolerance
TotalOf(f) == MapThenSumSet(LAMBDA g : f[g], DOMAIN f)

\* One pass of _rebalance: the residual is shared among the units with room, by
\* weight, or by room when all weights are zero; no unit leaves its limits.
Shared(values, units, target, weights) ==
  LET residual == TotalOf(values) - target
      down == residual > 0
      room == [g \in DOMAIN values |->
                 Above(IF down THEN values[g] - units[g].pmin
                               ELSE units[g].pmax - values[g])]
      eligible == {g \in DOMAIN values : room[g] > 0}
      given == [g \in eligible |-> IF g \in DOMAIN weights THEN Above(weights[g])
                                                           ELSE room[g]]
      weight == IF TotalOf(given) > 0 THEN given ELSE [g \in eligible |-> room[g]]
      need == IF down THEN residual ELSE - residual
      share == [g \in eligible |-> Least(room[g], (need * weight[g]) \div TotalOf(weight))]
  IN IF Balanced(residual) \/ eligible = {} THEN values
     ELSE [g \in DOMAIN values |->
             IF g \notin eligible THEN values[g]
             ELSE IF down THEN values[g] - share[g] ELSE values[g] + share[g]]

\* for _ in range(len(values) + 1)
Passes(n) == n + 1

Rebalanced(values, units, target, weights) ==
  FoldLeft(LAMBDA v, k : Shared(v, units, target, weights),
           values, [k \in 1 .. Passes(Cardinality(DOMAIN values)) |-> k])

NoWeights == [g \in {} |-> 0]

\* balanced_redispatch: each unit moves by its proposed amount, within its
\* limits, and the total is brought back to what it was.
Redispatched(units, delta) ==
  LET target == TotalOf([g \in DOMAIN units |-> units[g].pg])
      moved == [g \in DOMAIN units |->
                  Clipped(units[g].pg + delta[g], units[g].pmin, units[g].pmax)]
      values == Rebalanced(moved, units, target, NoWeights)
  IN [ok |-> Balanced(TotalOf(values) - target), pg |-> values]

\* apply_response_policy after the loss of the units `lost': nothing when they
\* gave no power, an error when nothing is to replace them or too little is left.
Response(units, lost, policy, factors) ==
  LET left == DOMAIN units \ lost
      gone == TotalOf([g \in lost |-> units[g].pg])
      kept == [g \in left |-> units[g].pg]
      weights == IF policy = "reserve_participation"
                 THEN [g \in left |-> Above(units[g].pmax - units[g].pg)]
                 ELSE factors
      values == Rebalanced(kept, units, TotalOf(kept) + gone, weights)
  IN IF gone <= 0 THEN [ok |-> TRUE, pg |-> kept]
     ELSE IF policy = "fixed_controls_slack_loss" THEN [ok |-> FALSE, pg |-> kept]
     ELSE [ok |-> Balanced(TotalOf(values) - TotalOf(kept) - gone), pg |-> values]

-----------------------------------------------------------------------------
(* _criticality_buckets: the rows by descending score, cut in thirds. *)
Ceil3(n) == (n + 2) \div 3

Cut(rows, from, to) == SubSeq(rows, from + 1, Least(to, Len(rows)))

\* Rows are ranked; a third that would be empty is filled from the others.
Bucket(rows, name) ==
  LET n == Len(rows)
      third == IF Ceil3(n) > 1 THEN Ceil3(n) ELSE 1
      middle == Cut(rows, third, 2 * third)
      rest == Cut(rows, 2 * third, n)
      last == Cut(rows, Above(n - third), n)
  IN CASE name = "critical" -> Cut(rows, 0, third)
       [] name = "intermediate" -> IF middle # <<>> THEN middle ELSE rows
       [] name = "benign" -> IF rest # <<>> THEN rest ELSE last
       [] OTHER -> rows
Strata == {"critical", "intermediate", "benign", "random_audit"}

\* The units _sample_stratified_contingency may take out for n1_generator: not
\* those at a reference bus; from the stratum, or else from all.
OutageChoices(ranked, units, stratum) ==
  LET allowed(rows) == {g \in Range(rows) : ~units[g].slack}
  IN IF allowed(Bucket(ranked, stratum)) # {} THEN allowed(Bucket(ranked, stratum))
                                              ELSE allowed(ranked)

\* n2_structured of _sample_contingency: a branch and one that shares a bus with
\* it, or any other when none does.
PairChoices(branches, first) ==
  LET others == DOMAIN branches \ {first}
      adjacent == {b \in others : branches[b] \cap branches[first] # {}}
  IN IF adjacent # {} THEN adjacent ELSE others

-----------------------------------------------------------------------------
(* validate_pf_result, a component's solution being "missing", "ok" or "out" *)
(* of its limits; `residual' says that generation and demand do not balance. *)

Violations(gens, buses, branches, residual) ==
  UNION {IF "missing" \in part THEN {"incomplete"} ELSE {} :
           part \in {Range(gens), Range(buses), Range(branches)}}
    \cup (IF "out" \in Range(gens) \cup Range(buses) \cup Range(branches)
            THEN {"operational"} ELSE {})
    \cup (IF residual THEN {"balance"} ELSE {})

\* validate_anchor_consistency compares the buses both solutions have, and passes
\* only if there is one and all agree.
Consistent(source, solved) ==
  LET both == DOMAIN source \cap DOMAIN solved
  IN both # {} /\ \A b \in both : source[b] = solved[b]

(***************************************************************************)
(* allocate_quota.                                                         *)
(***************************************************************************)
\* How far each key is below its share of everything there will be, times the
\* sum of the fractions; the fractions themselves when no key is below.
QuotaWeights(total, fractions, existing) ==
  LET had(k) == IF k \in DOMAIN existing THEN existing[k] ELSE 0
      deficit == [k \in DOMAIN fractions |->
                    Above((total + TotalOf(existing)) * fractions[k]
                             - had(k) * TotalOf(fractions))]
  IN IF TotalOf(deficit) > 0 THEN deficit ELSE fractions

\* Largest remainder: the floors, then one more for the keys with the largest
\* remainders, ties by name.
AllocateQuota(total, fractions, existing, order) ==
  LET w == QuotaWeights(total, fractions, existing)
      base == [k \in DOMAIN w |-> (total * w[k]) \div TotalOf(w)]
      rest == [k \in DOMAIN w |-> (total * w[k]) % TotalOf(w)]
      place(k) == Cardinality({l \in DOMAIN w : \/ rest[l] > rest[k]
                                                \/ rest[l] = rest[k] /\ order[l] < order[k]})
  IN [k \in DOMAIN w |-> base[k] + (IF place(k) < total - TotalOf(base) THEN 1 ELSE 0)]

(***************************************************************************)
(* load_anchor_pool: reservoir sampling over the eligible rows; draws[n]   *)
(* is what rng.randrange(n) returns for the n-th of them.                  *)
(***************************************************************************)

RowDraws(n) == 0 .. n - 1

Reservoir(rows, maximum, draws) ==
  FoldLeft(LAMBDA pool, n :
             IF Len(pool) < maximum THEN Append(pool, rows[n])
             ELSE IF draws[n] < maximum THEN [pool EXCEPT ![draws[n] + 1] = rows[n]]
             ELSE pool,
           <<>>, [n \in DOMAIN rows |-> n])

\* Every way the draws can come out for `size' rows.
PoolDraws(size) == {d \in [1 .. size -> 0 .. size - 1] : \A n \in 1 .. size : d[n] \in RowDraws(n)}

(***************************************************************************)
(* generate_candidates.                                                    *)
(***************************************************************************)
Exact == "exact_consistency"

\* The exact slots come on top of intact ones: the quota must hold them.
QuotasFit(distance, topology) == topology["intact"] >= distance[Exact]

Outages(topology) == TotalOf([t \in DOMAIN topology \ {"intact"} |-> topology[t]])

\* All orders rng.shuffle may give a schedule with these counts.
Shuffles(counts) ==
  {s \in [1 .. TotalOf(counts) -> DOMAIN counts] :
     \A k \in DOMAIN counts : Cardinality({i \in DOMAIN s : s[i] = k}) = counts[k]}

\* An exact slot that is not intact is swapped with the next intact one, if any.
PairSlot(topo, i, stratum) ==
  LET later == {j \in i + 1 .. Len(topo) : topo[j] = "intact"}
  IN IF stratum # Exact \/ topo[i] = "intact" THEN [ok |-> TRUE, topo |-> topo]
     ELSE IF later = {} THEN [ok |-> FALSE, topo |-> topo]
     ELSE [ok |-> TRUE, topo |-> [topo EXCEPT ![i] = "intact", ![Min(later)] = topo[i]]]

\* Variant with a bug: the criticality schedule advances with every slot.
NextOutage_Always(k, class) == k + 1

NextOutage(k, class) == IF class = "intact" THEN k ELSE k + 1
NextUnit(k, class) == IF class = "n1_generator" THEN k + 1 ELSE k

\* The loop: for each slot the pairing, then attempts over the anchors, of which
\* rejected[i] fail; after max_attempts the generation is given up.
Start(topology) == [ok |-> TRUE, topo |-> topology, outages |-> 0, units |-> 0, made |-> <<>>]
FillSlot(s, i, distance, crit, resp, rejected, attempts) ==
  LET paired == PairSlot(s.topo, i, distance[i])
      class == paired.topo[i]
  IN IF ~s.ok THEN s
     ELSE IF ~paired.ok \/ rejected[i] >= attempts THEN [s EXCEPT !.ok = FALSE]
     ELSE [ok |-> TRUE, topo |-> paired.topo,
           outages |-> NextOutage(s.outages, class), units |-> NextUnit(s.units, class),
           made |-> Append(s.made,
             [stratum |-> distance[i], class |-> class,
              anchor |-> i - 1 + rejected[i],   \* modulo the number of anchors
              crit |-> IF class = "intact" THEN "none"
                       ELSE IF s.outages < Len(crit) THEN crit[s.outages + 1] ELSE "beyond",
              policy |-> IF class # "n1_generator" THEN "fixed_controls_slack_loss"
                         ELSE IF s.units < Len(resp) THEN resp[s.units + 1] ELSE "beyond"])]

Generated(distance, topology, crit, resp, rejected, attempts) ==
  FoldLeft(LAMBDA s, i : FillSlot(s, i, distance, crit, resp, rejected, attempts),
           Start(topology), [i \in DOMAIN distance |-> i])

(***************************************************************************)
(* build_anchor_index: the anchors are the solved AC-OPF samples of the    *)
(* lines that decode; a parent network has one split.                      *)
(***************************************************************************)

\* candidate.parent_network_id, or else the sample's case.
SplitKey(sample) == IF sample.parent = "none" THEN sample.case ELSE sample.parent

Anchors(lines) ==
  SelectSeq(lines, LAMBDA x : x.decodes /\ x.task = "ac_opf" /\ x.success)

\* bucket[key] stands for the hash of the key modulo 100.
DatasetSplit(bucket) == IF bucket < 70 THEN "train" ELSE IF bucket < 80 THEN "validation"
                        ELSE IF bucket < 90 THEN "test" ELSE "ood"
SplitOf(sample, bucket) == DatasetSplit(bucket[SplitKey(sample)])
=============================================================================
