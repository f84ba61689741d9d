------------------------------- MODULE PfData -------------------------------
(***************************************************************************)
(* The algorithms of the power-flow campaign that work on values: each     *)
(* action calls one of them on an input of a bounded set and holds what it *)
(* returns, against which the properties are stated.                       *)
(***************************************************************************)
EXTENDS PfCandidates, DataCall

CONSTANTS
  U,            \* a megawatt in the unit of power; at least 100 * Tolerance
  MaxQuota,     \* bound of the totals a quota is asked for
  MaxFraction,  \* bound of a fraction of a quota
  MaxExisting,  \* bound of a prior count
  MaxOffered,      \* bound of the rows offered to the reservoir
  MaxRanked,    \* bound of the components ranked
  MaxCount      \* bound of the candidates generated

Rules == INSTANCE Outcomes
PlaceOf == [a |-> 1, b |-> 2, c |-> 3, d |-> 4]

-----------------------------------------------------------------------------
CallQuota ==
  /\ Idle
  /\ \E total \in 0 .. MaxQuota, fractions \in [{"a", "b", "c"} -> 0 .. MaxFraction],
        existing \in [{"a", "b", "d"} -> 0 .. MaxExisting] :
       /\ TotalOf(fractions) > 0
       /\ call' = [fn |-> "quota", total |-> total, fractions |-> fractions,
                   existing |-> existing,
                   out |-> AllocateQuota(total, fractions, existing, PlaceOf)]

\* The pools that all draws together give.
CallReservoir ==
  /\ Idle
  /\ \E size \in 1 .. MaxOffered, maximum \in 1 .. MaxOffered :
       call' = [fn |-> "reservoir", size |-> size, maximum |-> maximum,
                out |-> [d \in PoolDraws(size) |->
                           Reservoir([n \in 1 .. size |-> n], maximum, d)]]

Classes3 == {"intact", "n1_branch", "n1_generator"}
OutageStrata == {"critical", "benign"}
Policies == {"reserve_participation", "governor_droop"}

\* Quotas of the four schedules, their shuffles, and one slot's rejections.
CallGenerate ==
  /\ Idle
  /\ \E distance \in [{Exact, "near_opf"} -> 0 .. MaxCount],
        topology \in [Classes3 -> 0 .. MaxCount], crit \in [OutageStrata -> 0 .. MaxCount],
        resp \in [Policies -> 0 .. MaxCount] :
       /\ TotalOf(distance) = MaxCount /\ TotalOf(topology) = MaxCount
       /\ QuotasFit(distance, topology)
       /\ TotalOf(crit) = Outages(topology) /\ TotalOf(resp) = topology["n1_generator"]
       /\ \E ds \in Shuffles(distance), ts \in Shuffles(topology), cs \in Shuffles(crit),
             rs \in Shuffles(resp), rejections \in 0 .. 2 :
            LET rejected == [i \in 1 .. MaxCount |-> IF i = 1 THEN rejections ELSE 0]
            IN call' = [fn |-> "generate", distance |-> distance, topology |-> topology,
                        crit |-> crit, resp |-> resp, ds |-> ds, ts |-> ts,
                        rejections |-> rejections,
                        out |-> Generated(ds, ts, cs, rs, rejected, 2)]

CallAnchors ==
  /\ Idle
  /\ \E lines \in [1 .. 2 -> [case : {"c1", "c2"}, parent : {"p", "c1", "none"},
                              task : {"ac_opf", "pf"}, success : BOOLEAN, decodes : BOOLEAN]],
        bucket \in [{"c1", "c2", "p"} -> {0, 75, 85, 95}] :
       call' = [fn |-> "anchors", lines |-> lines,
                out |-> [i \in DOMAIN Anchors(lines) |->
                           [parent |-> Anchors(lines)[i].parent, case |-> Anchors(lines)[i].case,
                            task |-> Anchors(lines)[i].task,
                            split |-> SplitOf(Anchors(lines)[i], bucket)]]]

PowerUnit(max, given) == [pmin |-> 0, pmax |-> max * U, pg |-> given * U, slack |-> FALSE]
Fleets == [1 .. 3 -> {PowerUnit(max, given) : max \in 0 .. 2, given \in 0 .. 2}]
Sane(fleet) == \A g \in DOMAIN fleet : fleet[g].pg <= fleet[g].pmax

CallRedispatch ==
  /\ Idle
  /\ \E fleet \in {f \in Fleets : Sane(f)}, delta \in [1 .. 3 -> {- U, 0, 2 * U}] :
       call' = [fn |-> "redispatch", fleet |-> fleet, out |-> Redispatched(fleet, delta)]

CallResponse ==
  /\ Idle
  /\ \E fleet \in {f \in Fleets : Sane(f)}, lost \in SUBSET {1},
        policy \in {"reserve_participation", "governor_droop", "fixed_controls_slack_loss"},
        factors \in [{2, 3} -> 0 .. 2] :
       call' = [fn |-> "response", fleet |-> fleet, lost |-> lost, policy |-> policy,
                factors |-> factors, out |-> Response(fleet, lost, policy, factors)]

\* Rows are ranked 1, 2, ...; some are units at the reference bus.
CallBuckets ==
  /\ Idle
  /\ \E n \in 1 .. MaxRanked : \E slack \in SUBSET (1 .. n) :
       LET ranked == [i \in 1 .. n |-> i]
           units == [g \in 1 .. n |-> [slack |-> g \in slack]]
       IN call' = [fn |-> "buckets", n |-> n, slack |-> slack,
                   out |-> [s \in Strata |-> [rows |-> Bucket(ranked, s),
                                              units |-> OutageChoices(ranked, units, s)]]]

CallPair ==
  /\ Idle
  /\ \E ends \in [1 .. 3 -> {{1, 2}, {2, 3}, {3, 4}, {1}}], first \in 1 .. 3 :
       call' = [fn |-> "pair", ends |-> ends, first |-> first, out |-> PairChoices(ends, first)]

Judged == {"ok", "out", "missing"}
Solutions == UNION {[buses -> 0 .. 1] : buses \in SUBSET {1, 2}}

\* An exact candidate is compared with the solution of its anchor as well.
CallValidate ==
  /\ Idle
  /\ \E gens, buses, branches \in [1 .. 1 -> Judged], residual, success, exact \in BOOLEAN,
        source, solved \in Solutions :
       LET found == IF success THEN Violations(gens, buses, branches, residual) ELSE {}
           same == Consistent(source, solved)
           result == [success |-> success, primal |-> FALSE, violations |-> found,
                      valid |-> success /\ found = {} /\ (exact => same),
                      status |-> IF success THEN "LOCALLY_SOLVED" ELSE "ITERATION_LIMIT"]
           compared == IF exact THEN {same} ELSE {}
       IN call' = [fn |-> "validate", seen |-> Range(gens) \cup Range(buses) \cup Range(branches),
                   residual |-> residual, success |-> success, exact |-> exact,
                   solved |-> solved, same |-> same,
                   out |-> [class |-> Rules!OutcomeClass(result),
                            labels |-> Rules!FilterLabels(result, TRUE, exact, compared)]]

\* A record is made of a result that no validation was made of.
CallUnvalidated ==
  /\ Idle
  /\ \E success, exact \in BOOLEAN :
       LET result == [success |-> success, primal |-> FALSE, violations |-> {}, valid |-> TRUE,
                      status |-> IF success THEN "LOCALLY_SOLVED" ELSE "ITERATION_LIMIT"]
       IN call' = [fn |-> "unvalidated", exact |-> exact,
                   out |-> Rules!FilterLabels(result, FALSE, exact, {})]

PfNext ==
  \/ CallQuota \/ CallReservoir \/ CallGenerate \/ CallAnchors \/ CallRedispatch
  \/ CallResponse \/ CallBuckets \/ CallPair \/ CallValidate \/ CallUnvalidated

-----------------------------------------------------------------------------
\* A quota is dealt out to the last piece, each key gets its share of what is
\* missing up to one piece, and a key that has its share gets nothing as long as
\* another lacks some, whatever prior counts it starts from.
QuotaRule ==
  Calls("quota") =>
    LET w == QuotaWeights(call.total, call.fractions, call.existing)
    IN /\ TotalOf(call.out) = call.total
       /\ \A k \in DOMAIN w :
            /\ call.out[k] * TotalOf(w) - call.total * w[k]
                 \in 1 - TotalOf(w) .. TotalOf(w) - 1
            /\ w[k] = 0 => call.out[k] = 0

\* The reservoir is a fair sample without repetition: over all draws every row
\* is in the pool equally often.
ReservoirFair ==
  Calls("reservoir") =>
    LET holds(row) == Cardinality({d \in DOMAIN call.out : row \in Range(call.out[d])})
    IN /\ \A d \in DOMAIN call.out :
            Cardinality(Range(call.out[d])) = Least(call.size, call.maximum)
              /\ Len(call.out[d]) = Least(call.size, call.maximum)
       /\ \A row \in 1 .. call.size : holds(row) = holds(1)

From(s, i, value) == Cardinality({j \in i .. Len(s) : s[j] = value})

\* That the quotas fit does not mean that a round can be generated: the exact
\* slots are paired if and only if from every slot on there are as many intact
\* topologies left as exact controls, in the order the shuffles gave.
GenerationPairs ==
  Calls("generate") =>
    (call.out.ok <=>
       /\ call.rejections < 2
       /\ \A i \in 1 .. MaxCount : From(call.ts, i, "intact") >= From(call.ds, i, Exact))

MadeWith(field, value) == Cardinality({i \in DOMAIN call.out.made : call.out.made[i][field] = value})

\* A generated round meets all four quotas, swaps and rejected anchors
\* notwithstanding, and its exact candidates are intact.
QuotasMet ==
  Calls("generate") /\ call.out.ok =>
    /\ \A d \in DOMAIN call.distance : MadeWith("stratum", d) = call.distance[d]
    /\ \A t \in DOMAIN call.topology : MadeWith("class", t) = call.topology[t]
    /\ \A c \in DOMAIN call.crit : MadeWith("crit", c) = call.crit[c]
    /\ \A p \in DOMAIN call.resp : MadeWith("policy", p) = call.resp[p]
    /\ \A i \in DOMAIN call.out.made :
         call.out.made[i].stratum = Exact => call.out.made[i].class = "intact"

\* No parent network is in two splits, so nothing learnt from it is tested on it;
\* only solved AC-OPF samples are anchors.
SplitsApart ==
  Calls("anchors") =>
    \A i, j \in DOMAIN call.out :
      LET a == call.out[i]
          b == call.out[j]
      IN /\ a.parent # "none" /\ a.parent = b.parent => a.split = b.split
         /\ a.parent = "none" /\ b.parent \in {"none", a.case} /\ a.case = b.case
              => a.split = b.split
         /\ a.task = "ac_opf"

WithinLimits(pg) ==
  \A g \in DOMAIN pg : pg[g] \in call.fleet[g].pmin .. call.fleet[g].pmax

\* A redispatch that starts within the limits always balances, whatever is
\* proposed, and ends within them.
RedispatchBalances ==
  Calls("redispatch") => call.out.ok /\ WithinLimits(call.out.pg)

\* The loss of a unit is made up if and only if the others have the room, within
\* their limits, and a unit without a share moves only when all that have one
\* are at their limit.
ResponseMakesUp ==
  Calls("response") =>
    LET left == DOMAIN call.out.pg
        lostPg == TotalOf([g \in call.lost |-> call.fleet[g].pg])
        room == TotalOf([g \in left |-> call.fleet[g].pmax - call.fleet[g].pg])
        moved(g) == call.out.pg[g] # call.fleet[g].pg
        shares == {g \in left \cap DOMAIN call.factors : call.factors[g] > 0}
    IN /\ call.out.ok <=> \/ lostPg = 0
                          \/ call.policy # "fixed_controls_slack_loss" /\ room >= lostPg
       /\ WithinLimits(call.out.pg)
       /\ call.policy = "governor_droop" /\ shares # {} =>
            \A g \in left \ shares :
              moved(g) => \A h \in shares :
                            call.out.pg[h] >= call.fleet[h].pmax - Tolerance

\* Whatever the number of components, no stratum is empty and every component is
\* in one; the outage drawn is never at the reference bus, and is from its
\* stratum when that has any; the two branches of a pair differ.
OutageRule ==
  /\ Calls("buckets") =>
       /\ \A s \in Strata : call.out[s].rows # <<>>
       /\ UNION {Range(call.out[s].rows) : s \in Strata \ {"random_audit"}} = 1 .. call.n
       /\ \A s \in Strata : /\ call.out[s].units \cap call.slack = {}
                             /\ call.out[s].units = {} => call.slack = 1 .. call.n
  /\ Calls("pair") => call.out # {} /\ call.first \notin call.out

\* A record counts as valid exactly when its labels say that it balances and is
\* within its limits, and for an exact candidate that some bus was compared with
\* the anchor and agrees; nothing is claimed of a solution with parts missing, nor
\* of one that was not validated.
LabelsAgree ==
  /\ Calls("unvalidated") =>
       /\ {call.out.balance, call.out.operational} = {"not_evaluated"}
       /\ call.out.anchor = IF call.exact THEN "not_evaluated" ELSE "not_applicable"
  /\ Calls("validate") =>
      LET l == call.out.labels
      IN /\ call.out.class = "converged_valid" <=>
              /\ l.balance = "satisfied" /\ l.operational = "within_limits"
              /\ l.anchor \in {"consistent", "not_applicable"}
         /\ l.anchor = "consistent" => call.exact /\ call.same /\ call.solved # <<>>
         /\ l.anchor = "not_applicable" => ~call.exact
         /\ call.success /\ "missing" \notin call.seen =>
              /\ l.operational = "limit_violating" <=> "out" \in call.seen
              /\ l.balance = "violated" <=> call.residual
         /\ "missing" \in call.seen => l.operational = "not_evaluated"

\* What a power-flow campaign computes on values is right: see the parts.
PfCampaignRight ==
  /\ QuotaRule /\ ReservoirFair /\ GenerationPairs /\ QuotasMet /\ SplitsApart
  /\ RedispatchBalances /\ ResponseMakesUp /\ OutageRule /\ LabelsAgree
=============================================================================
