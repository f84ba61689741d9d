---------------------------- MODULE ScenarioData ----------------------------
(***************************************************************************)
(* Operating points, sampled, spread and applied, and outages, drawn,      *)
(* filtered and applied, on small inputs.                                  *)
(***************************************************************************)
EXTENDS Contingencies, DataCall

CONSTANTS
  MaxPoints,    \* operating points of a case (--per-case)
  MaxRegimes,   \* regimes; also topologies and expansions of a case
  MaxRows,      \* rows enumerate_contingencies.py reads
  MaxWorkers    \* --workers

CallStrata ==
  /\ Idle
  /\ \E total \in 1 .. MaxPoints, hash, shift \in 0 .. MaxPoints :
       call' = [fn |-> "strata", total |-> total,
                out |-> [i \in 1 .. total |-> Stratum(hash, shift, i - 1, total)]]

CallPoints ==
  /\ Idle
  /\ \E sampler \in {"regime_specific", "time_series"}, total \in 1 .. MaxPoints,
        regimes, topologies \in 1 .. MaxRegimes, expansions \in 0 .. MaxRegimes :
       call' = [fn |-> "points", total |-> total, regimes |-> regimes, topologies |-> topologies,
                sampler |-> sampler,
                out |-> [i \in 1 .. total |->
                  OperatingRow(i - 1, total, regimes, topologies, expansions, sampler, 0)]]

(***************************************************************************)
(* Units: one that is on, one that absorbs reactive power only, and one    *)
(* whose minimum is above what is left of it when it is derated.           *)
(***************************************************************************)
GenUnit(id, pmin, pmax, qmin, qmax) ==
  [id |-> id, pmin |-> pmin, pmax |-> pmax, qmin |-> qmin, qmax |-> qmax, cost |-> id]
UnitsOfCase ==
  << GenUnit(1, 0, 10, -5, 5), GenUnit(2, 4, 5, -3, -1), GenUnit(3, -2, 0, 0, 0), GenUnit(4, 3, 3, 1, 2) >>
\* The second unit is out of service, and the parser left it out.
UnitsWithGap == << GenUnit(1, 0, 10, -5, 5), GenUnit(3, 0, 5, 0, 0) >>
CaseOf(net) == [net |-> net, units |-> UnitsOfCase, loads |-> <<[bus |-> 1, pd |-> 6], [bus |-> 2, pd |-> 3]>>]

Regions == {[north |-> 100, south |-> 100, east |-> 100, west |-> 100],
            [north |-> 92, south |-> 108, east |-> 100, west |-> 95]}
Point(load, region, fleet, renew, reserve, perm) ==
  [load |-> load, region |-> region, fleet |-> fleet, renew |-> renew, reserve |-> reserve,
   perm |-> perm]
\* The number a hash leaves modulo i + 1 may be any.
Draws(n) == {d \in [1 .. n - 1 -> 0 .. n - 1] : \A i \in 1 .. n - 1 : d[i] <= i}

\* The registry of a case: files, in the order of their labels, hold loads of buses;
\* an operating point names one of them, or one that is no more.
LoadFiles == [1 .. 2 -> {<<0, 0>>, <<0, 7>>, <<2, 9>>}]

CallApply ==
  /\ Idle
  /\ \E load \in {70, 145}, region \in Regions, fleet \in {50, 100}, renew \in {10, 140},
        reserve \in {5, 20, 300}, draws \in Draws(4), files \in LoadFiles, id \in 0 .. 2 :
       LET case == CaseOf([buses |-> 1 .. 2, branches |-> <<>>, gens |-> <<>>, loads |-> <<>>])
           op == Point(load, region, fleet, renew, reserve, SeededPermutation(4, draws))
           snapshot == SnapshotOf(SnapshotRegistry(files), id)
       IN /\ draws \in {[i \in 1 .. 3 |-> i], [i \in 1 .. 3 |-> 0]} \/ <<load, fleet, id>> = <<70, 50, 0>>
          /\ call' = [fn |-> "apply", case |-> case, op |-> op, files |-> files, id |-> id,
                      out |-> ApplyOperatingPoint(case, op, snapshot)]

(***************************************************************************)
(* Outages of small networks.                                              *)
(***************************************************************************)
NetOf(buses, ends) ==
  [buses |-> 1 .. buses, gens |-> <<>>, loads |-> <<>>,
   branches |-> [i \in DOMAIN ends |-> [id |-> <<"b", i>>, ends |-> ends[i]]]]

\* Up to the order of the branches.
EndsOf(buses, n) ==
  {ends \in [1 .. n -> {e \in (1 .. buses) \X (1 .. buses) : e[1] <= e[2]}] :
     \A i \in 1 .. n - 1 : 10 * ends[i][1] + ends[i][2] <= 10 * ends[i + 1][1] + ends[i + 1][2]}

\* Every draw at once: all branches of the pool, whose last is not of the case, the
\* corridors, all pairs with a unit, and two sets of three.
AllDraws(pool, corridors) ==
  LET b == pool.branch
      u == pool.unit
      mixed == FlattenSeq([i \in DOMAIN b |-> [j \in DOMAIN u |-> <<b[i], u[j]>>]])
      three == BuildKPlus(pool, 3, <<u[1], u[2], b[1]>>, b[1])
  IN [singles |-> b, corridors |-> corridors, pairs |-> <<b[1], b[2], b[3], b[4], b[2], b[3]>>,
      interacting |-> mixed, sequential |-> mixed,
      cuts |-> << [k |-> 3, outages |-> three],
                  [k |-> 3, outages |-> BuildKPlus(pool, 3, <<b[1], b[2], b[3]>>, b[1])] >>,
      cascades |-> <<three, <<b[2], b[3]>>>>]

CallPrefilter ==
  /\ Idle
  /\ \E buses \in 2 .. 4, switched \in SUBSET (1 .. 3), load \in {70, 130, 500}, fleet \in {100, 60},
        corridors \in {<<>>, <<3, 2>>},
        units \in {UnitsOfCase, UnitsWithGap} : \E ends \in EndsOf(buses, 3) :
       LET pool == CasePool(4, 2)
           op == Point(load, [north |-> 100, south |-> 100, east |-> 100, west |-> 100], fleet, 40, 15,
                       [i \in 1 .. 4 |-> i])
           case == [CaseOf(NetOf(buses, ends)) EXCEPT !.units = units]
       IN /\ units = UnitsOfCase \/ (buses = 3 /\ switched = {})
          /\ buses = 3 \/ (switched = {} /\ fleet = 100 /\ load # 500)
          /\ call' = [fn |-> "prefilter", case |-> case, op |-> op, switched |-> switched,
                      draws |-> AllDraws(pool, corridors),
                      out |-> ExpandOne(TRUE, case, op, switched, AllDraws(pool, corridors), TRUE)]

CallDraws ==
  /\ Idle
  /\ \E branches, units \in 1 .. 3, k \in 3 .. 4 :
       LET pool == CasePool(branches, units)
       IN \E sample \in Samples(pool.branch \o pool.unit, k), spare \in Range(pool.branch),
             singles \in Samples(pool.branch, 2), pairs \in Samples(pool.branch, 4) :
            LET set == BuildKPlus(pool, k, sample, spare)
                draws == [singles |-> singles, corridors |-> <<1>>, pairs |-> pairs,
                          interacting |-> <<>>, sequential |-> <<<<spare, Unit(1)>>>>,
                          cuts |-> <<[k |-> k, outages |-> set]>>, cascades |-> <<set>>]
            IN call' = [fn |-> "draws", pool |-> pool,
                        out |-> ExpandOne(FALSE, CaseOf(NetOf(1, <<>>)), <<>>, {}, draws, FALSE)]

\* What a row expands to: some have no outage left.
ByRow == [row \in 1 .. MaxRows |-> row % 3]

CallChunks ==
  /\ Idle
  /\ \E n \in 0 .. MaxRows, requested \in 0 .. MaxWorkers, cores \in 1 .. MaxWorkers :
       call' = [fn |-> "chunks", n |-> n,
                alone |-> Min({IF requested > 0 THEN requested ELSE cores, n}) <= 1,
                out |-> Enumerated([i \in 1 .. n |-> i], requested, cores, ByRow)]

CallStatic ==
  /\ Idle
  /\ \E ends \in EndsOf(3, 4), off \in SUBSET (1 .. 4) :
       LET net == NetOf(3, ends)
       IN call' = [fn |-> "static", net |-> net, off |-> off, out |-> StaticBranches(net, off)]

ScenarioNext == CallStrata \/ CallPoints \/ CallApply
                  \/ CallPrefilter \/ CallDraws \/ CallChunks \/ CallStatic

-----------------------------------------------------------------------------
\* Whatever the hashes are, the points of a case fall each in a stratum of its own.
StrataHitOnce ==
  Calls("strata") => Range(call.out) = 0 .. call.total - 1

\* Each regime and each topology has its share of the points, give or take one, also
\* when they are more than the points; seasons do not go back.
RegimesBalanced ==
  Calls("points") =>
    LET share(key(_), n) ==
          \A a, b \in 0 .. n - 1 :
            Cardinality({i \in DOMAIN call.out : key(call.out[i]) = a})
              <= Cardinality({i \in DOMAIN call.out : key(call.out[i]) = b}) + 1
        regime(row) == row.regime
        topology(row) == row.topology
    IN /\ share(regime, call.regimes) /\ share(topology, call.topologies)
       /\ call.sampler = "time_series" =>
            \A i, j \in DOMAIN call.out : i <= j => call.out[i].regime <= call.out[j].regime

\* Whatever the hashes are, each cost curve is some unit's: none is lost or doubled.
CostsPermuted ==
  Calls("apply") =>
    /\ IsInjective(call.op.perm)
    /\ \A c \in DOMAIN call.case.units :
         Cardinality({i \in DOMAIN call.out.units : call.out.units[i].cost = c}) = 1

\* Scaled by different factors, the limits of a unit that gives power stay in order.
LimitsStayOrdered ==
  Calls("apply") =>
    \A u \in Range(call.out.units) : u.pmin <= u.pmax /\ u.qmin <= u.qmax

\* A point with a snapshot is solved with the loads of the file its number stood for
\* when the registry was made, empty files counted, and with none of the case's.
SnapshotTakesOver ==
  Calls("apply") =>
    LET of == IF call.id = 0 THEN <<6, 3>>
              ELSE IF call.files[call.id] = <<0, 0>> THEN <<6, 3>> ELSE call.files[call.id]
        at(b) == Sum([i \in {k \in DOMAIN call.out.loads : call.out.loads[k].bus = b} |->
                        call.out.loads[i].pd])
    IN \A b \in 1 .. 2 : at(b) = of[b] * call.op.load * call.op.region[Region(b)] * 10

\* Operating points cover their space and are applied as they were made: see the parts.
OperatingPointsRight ==
  /\ StrataHitOnce /\ RegimesBalanced /\ CostsPermuted /\ LimitsStayOrdered
  /\ SnapshotTakesOver

\* What is solved: the operating point's variant of the network, scaled, then the outage.
Solved(outages) ==
  LET net == ApplyTopology(call.case.net, call.switched, Range(call.draws.corridors))
  IN ApplyContingency(ApplyOperatingPoint([call.case EXCEPT !.net = net], call.op, <<>>), outages)

\* Without a snapshot, an expansion or regional scales, the filters, which judge the
\* base case, drop all outages of an order the size of the case excludes and those
\* that leave what is solved in more parts than the case has or short of power.  They
\* drop no other one of units the case has; the outage of a unit that is out of service
\* is judged by the unit that stands in its place, and may be dropped besides.
PrefilterAgrees ==
  Calls("prefilter") =>
    LET rows == EnumeratedRows(call.draws)
        buses == Cardinality(call.case.net.buses)
        small(c) == buses <= SmallCase => c.order = 1
        medium(c) == buses <= MediumCase => c.order <= 2
        solvable(c) ==
          LET case == Solved(c.outages)
              power == Sum([i \in DOMAIN case.units |-> case.units[i].pmax])
              load == Sum([i \in DOMAIN case.loads |-> case.loads[i].pd])
          IN /\ Components(case.net, {}) <= Components(call.case.net, {})
             /\ power * 100 >= 103 * load
        units == {Unit(u.id) : u \in Range(call.case.units)}
        there(c) == \A x \in Range(c.outages) : x[1] = "generator" => x \in units
        passed == {c.id : c \in Range(call.out)}
        right == {i \in DOMAIN rows : small(rows[i]) /\ medium(rows[i]) /\ solvable(rows[i])}
    IN passed \subseteq right /\ {i \in right : there(rows[i])} \subseteq passed

\* A row says what it is: no component twice, as many as its order says unless the case
\* has fewer, a branch in every large outage, no cascade of two; numbers in order.
OutagesHonest ==
  Calls("draws") =>
    \A i \in DOMAIN call.out :
      LET c == call.out[i]
          all == Len(call.pool.branch) + Len(call.pool.unit)
      IN /\ c.id = i /\ IsInjective(c.outages)
         /\ Len(c.outages) = Min({c.order, all})
         /\ c.order >= 3 => Range(c.outages) \cap Range(call.pool.branch) # {}
         /\ c.class = "sequential_cascade" => c.order = Len(c.outages) /\ c.order >= 3

\* Every row is expanded once and in its place, whatever the number of processes, and
\* from two on what it expands to does not depend on it.
ChunksLoseNothing ==
  Calls("chunks") =>
    LET whole == FlattenSeq([i \in 1 .. call.n |-> Expanded(i, <<"row", i>>, ByRow)])
    IN /\ Len(call.out) = Len(whole)
       /\ \A k \in DOMAIN whole : SubSeq(call.out[k], 1, 2) = SubSeq(whole[k], 1, 2)
       /\ call.alone \/ call.out = whole

\* The loss of a branch of the static set leaves the network that is in service in as
\* many parts as it was, and every such branch is eligible.
StaticSetKeepsNetwork ==
  Calls("static") =>
    call.out = {i \in DOMAIN call.net.branches \ call.off :
                  Components(call.net, call.off \cup {i}) = Components(call.net, call.off)}

\* Contingencies are what they say, and the filters drop no other: see the parts.
ContingenciesRight ==
  /\ PrefilterAgrees /\ OutagesHonest /\ ChunksLoseNothing /\ StaticSetKeepsNetwork

\* What is generated, operating points and outages, is what it says: see the parts.
ScenariosRight == OperatingPointsRight /\ ContingenciesRight
=============================================================================
