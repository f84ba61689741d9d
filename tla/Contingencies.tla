---------------------------- MODULE Contingencies ----------------------------
(***************************************************************************)
(* Outages: what enumeration draws for an operating point, which of it the *)
(* feasibility filters let through (contingencies/enumeration.py and       *)
(* feasibility.py), and what an outage does to the case (apply.py).        *)
(*                                                                         *)
(* A component is <<type, id>>; branch ids are those of module Topology.   *)
(* A contingency is [order, event, class, outages], outages in order.      *)
(***************************************************************************)
EXTENDS OperatingPoints

CONSTANTS
  SmallCase,    \* SMALL_CASE_MAX_BUS
  MediumCase    \* MEDIUM_CASE_MAX_BUS

Branch(i) == <<"branch", <<"b", i>>>>
Parallel(i) == <<"branch", <<"parallel", i>>>>
Unit(i) == <<"generator", i>>

(***************************************************************************)
(* apply_contingency: a component that the case does not have is passed    *)
(* over.                                                                   *)
(***************************************************************************)
ApplyContingency(case, outages) ==
  [case EXCEPT
     !.net.branches = SelectSeq(@, LAMBDA b : <<"branch", b.id>> \notin Range(outages)),
     !.units = SelectSeq(@, LAMBDA u : Unit(u.id) \notin Range(outages))]

(***************************************************************************)
(* The filters look at the case as it was read.                            *)
(***************************************************************************)
\* Variant with a bug: only the circuits of the case are edges.
Edges_Base(net, reinforced) == net

\* Reinforced corridors of the case have a second edge at the end.
Edges(net, reinforced) ==
  LET twice == SetToSortSeq(reinforced \cap DOMAIN net.branches, <)
  IN [net EXCEPT !.branches = @ \o [k \in DOMAIN twice |->
        [id |-> <<"parallel", twice[k]>>, ends |-> net.branches[twice[k]].ends]]]

CreatesIsland(net, switched, reinforced, outages) ==
  LET graph == Edges(net, reinforced)
      out(i) == i \in switched \/ <<"branch", graph.branches[i].id>> \in Range(outages)
      removed == {i \in DOMAIN graph.branches : out(i)}
  IN removed # {} /\ Components(graph, removed) > Components(net, {})

\* Where the filter finds a unit: by its id, or else by the number in the id, where
\* another unit may stand (the parser leaves out units that are out of service).
PlaceOfUnit(case, id) ==
  LET named == {i \in DOMAIN case.units : case.units[i].id = id}
  IN IF named # {} THEN named ELSE {id} \cap DOMAIN case.units

\* The capacity that is left covers the load and three per cent; in 10^-6.
GenerationAdequate(case, op, outages) ==
  LET capacity(places) ==
        MapThenSumSet(LAMBDA i : case.units[i].pmax * Availability(i, op), places)
      lost == {c[2] : c \in {x \in Range(outages) : x[1] = "generator"}}
      total == capacity(DOMAIN case.units)
                 - MapThenSumSet(LAMBDA id : capacity(PlaceOfUnit(case, id)), lost)
      load == Sum([i \in DOMAIN case.loads |-> case.loads[i].pd])
  IN total * 100 >= 103 * op.load * load * 100

OrderAllowed(buses, c) ==
  \/ buses <= 0 \/ buses > MediumCase
  \/ buses <= SmallCase /\ c.order <= 1 /\ c.event = "simultaneous"
  \/ buses > SmallCase /\ c.order <= 2 /\ c.event \in {"simultaneous", "sequential_n1n1"}

(***************************************************************************)
(* expand_one.  The pool has as many branches and units as the size of the *)
(* case suggests, which the case may not have.                             *)
(***************************************************************************)
CasePool(branches, units) ==
  [branch |-> [i \in 1 .. branches |-> Branch(i)], unit |-> [i \in 1 .. units |-> Unit(i)]]

\* pick_distinct and rng.sample: what can come out.
Samples(pool, count) ==
  IF count <= 0 THEN {<<>>}
  ELSE IF count >= Len(pool) THEN {pool}
  ELSE {s \in [1 .. count -> Range(pool)] : IsInjective(s)}

\* unique_components: the first of each.
Unique(s) == SelectSeq([i \in DOMAIN s |-> [c |-> s[i], first |-> \A j \in 1 .. i - 1 : s[j] # s[i]]],
                       LAMBDA x : x.first)
UniqueComponents(s) == LET u == Unique(s) IN [i \in DOMAIN u |-> u[i].c]

\* k components, one of them a branch, or all there are.
BuildKPlus(pool, k, sample, spare) ==
  IF k >= Len(pool.branch) + Len(pool.unit) THEN pool.branch \o pool.unit
  ELSE IF pool.branch # <<>> /\ Range(sample) \cap Range(pool.branch) = {}
  THEN UniqueComponents([sample EXCEPT ![1] = spare])
  ELSE UniqueComponents(sample)

Row(order, event, class, outages) ==
  [order |-> order, event |-> event, class |-> class, outages |-> outages]

SingleRows(picked) ==
  [i \in DOMAIN picked |-> Row(1, "simultaneous", "independent_random", <<picked[i]>>)]

\* The new circuit of a corridor alone, and both.
ReinforcedRows(corridors) ==
  FlattenSeq([i \in DOMAIN corridors |->
    << Row(1, "simultaneous", "independent_random", <<Parallel(corridors[i])>>),
       Row(2, "simultaneous", "common_corridor", <<Branch(corridors[i]), Parallel(corridors[i])>>) >>])

\* Two at a time; the last of an odd number is left over.
PairRows(picked) ==
  [i \in 1 .. Len(picked) \div 2 |->
     Row(2, "simultaneous", "common_corridor", <<picked[2 * i - 1], picked[2 * i]>>)]

InteractingRows(pairs) ==
  [i \in DOMAIN pairs |-> Row(2, "simultaneous", "electrically_interacting", pairs[i])]
SequentialRows(pairs) ==
  [i \in DOMAIN pairs |-> Row(2, "sequential_n1n1", "sequential_n1n1", pairs[i])]
\* A cut set is [k, outages]: its order is what was asked for.
CutSetRows(sets) ==
  [i \in DOMAIN sets |-> Row(sets[i].k, "simultaneous", "cut_set", sets[i].outages)]
CascadeRows(sets) ==
  LET deep == SelectSeq(sets, LAMBDA s : Len(s) >= 3)
  IN [i \in DOMAIN deep |-> Row(Len(deep[i]), "sequential_cascade", "sequential_cascade", deep[i])]

\* The rows in the order they are numbered in.
EnumeratedRows(draws) ==
  SingleRows(draws.singles) \o ReinforcedRows(draws.corridors) \o PairRows(draws.pairs)
    \o InteractingRows(draws.interacting) \o SequentialRows(draws.sequential)
    \o CutSetRows(draws.cuts) \o CascadeRows(draws.cascades)

\* A case that cannot be read, not known, has no network: only the order is judged.
PassesFilters(known, case, op, switched, reinforced, c) ==
  /\ OrderAllowed(Cardinality(case.net.buses), c)
  /\ known => /\ ~CreatesIsland(case.net, switched, reinforced, c.outages)
              /\ GenerationAdequate(case, op, c.outages)

ExpandOne(known, case, op, switched, draws, prefilter) ==
  LET rows == EnumeratedRows(draws)
      numbered == [i \in DOMAIN rows |-> rows[i] @@ [id |-> i]]
  IN IF ~prefilter THEN numbered
     ELSE IF known /\ ~GenerationAdequate(case, op, <<>>) THEN <<>>
     ELSE SelectSeq(numbered,
            LAMBDA c : PassesFilters(known, case, op, switched, Range(draws.corridors), c))

(***************************************************************************)
(* enumerate_contingencies.py: contiguous chunks, one process each, whose  *)
(* parts are joined in their order.  A row has outages[row] outages, drawn *)
(* with what seeds them: its id, or with one worker all rows before it.    *)
(***************************************************************************)

SplitRows(rows, n) ==
  LET k == Len(rows) \div n
      start(i) == (i - 1) * k + Min({i - 1, Len(rows) % n})
  IN SelectSeq([i \in 1 .. n |-> SubSeq(rows, start(i) + 1, start(i + 1))], LAMBDA c : c # <<>>)

Expanded(row, rng, outages) == [i \in 1 .. outages[row] |-> <<row, i, rng>>]

Enumerated(rows, requested, cores, outages) ==
  LET expand(row, rng) == Expanded(row, rng, outages)
      workers == Larger(1, Min({IF requested > 0 THEN requested ELSE cores, Larger(1, Len(rows))}))
      seeded(chunk) == FlattenSeq([i \in DOMAIN chunk |-> expand(chunk[i], <<"row", chunk[i]>>)])
      parts == SplitRows(rows, workers)
  IN IF workers = 1
     THEN FlattenSeq([i \in DOMAIN rows |-> expand(rows[i], <<"run", SubSeq(rows, 1, i - 1)>>)])
     ELSE FlattenSeq([p \in DOMAIN parts |-> seeded(parts[p])])

(***************************************************************************)
(* make_n1_contingency_set.py; off is the set of branches out of service.  *)
(***************************************************************************)
InService(net, off) ==
  [net EXCEPT !.branches = [i \in DOMAIN @ |->
                              IF i \in off THEN [@[i] EXCEPT !.ends = <<@[1], @[1]>>] ELSE @[i]]]

StaticBranches(net, off) == DOMAIN net.branches \ (off \cup FindBridges(InService(net, off)))
=============================================================================
