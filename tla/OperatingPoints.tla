--------------------------- MODULE OperatingPoints ---------------------------
(***************************************************************************)
(* Operating points of a case: how they are sampled, spread over regimes,  *)
(* topologies and expansions (operating_point_generation.py), and what     *)
(* they do to the case that is solved (operating_points.py,                *)
(* load_snapshots.py).                                                     *)
(*                                                                         *)
(* A case is [net, units, loads]: a network of module Topology, the units  *)
(* as [id, pmin, pmax, qmin, qmax, cost], the loads as [bus, pd].          *)
(* Scales are percentages and the case they give is in 10^-5 of its units, *)
(* so that nothing is rounded.                                             *)
(***************************************************************************)
EXTENDS Topology

Clamp(x, low, high) == Min({high, Larger(low, x)})

(***************************************************************************)
(* sample_unit_vector, latin_hypercube: point idx of `total' falls in one  *)
(* stratum of each dimension.  The hashes are any numbers.                 *)
(***************************************************************************)
Coprime(a, b) == \A d \in 2 .. b : ~(a % d = 0 /\ b % d = 0)

\* The first number from the hash on, round the clock, that is coprime with total.
CoprimeMultiplier(hash, total) ==
  LET step(a) == IF Coprime(a, total) THEN a ELSE Larger(1, (a + 1) % total)
  IN FoldLeft(LAMBDA a, n : step(a), Larger(1, hash % total), [n \in 1 .. total |-> n])

Stratum(hash, shift, idx, total) ==
  IF total <= 1 THEN 0
  ELSE (CoprimeMultiplier(hash, total) * idx + (shift % total)) % total

(***************************************************************************)
(* choose_regime, and what main of create_operating_point.py gives point   *)
(* idx: topologies and expansions go round with the same index.            *)
(***************************************************************************)

ChooseRegime(idx, total, n, sampler, draw) ==
  CASE sampler = "regime_specific" -> idx % n
    [] sampler = "time_series" -> Min({(idx * n) \div Larger(1, total), n - 1})
    [] OTHER -> draw

OperatingRow(idx, total, regimes, topologies, expansions, sampler, draw) ==
  [regime |-> ChooseRegime(idx, total, regimes, sampler, draw),
   topology |-> idx % topologies,
   expansion |-> IF expansions = 0 THEN 0 ELSE idx % expansions]

(***************************************************************************)
(* _seeded_permutation: Fisher-Yates; draws[i] is state % (i + 1).         *)
(***************************************************************************)
SeededPermutation(n, draws) ==
  FoldLeft(LAMBDA perm, i : [perm EXCEPT ![i + 1] = perm[draws[i] + 1], ![draws[i] + 1] = perm[i + 1]],
           [i \in 1 .. n |-> i], [k \in 1 .. n - 1 |-> n - k])

PermutedCosts(costs, perm) == [i \in DOMAIN costs |-> costs[perm[i]]]

(***************************************************************************)
(* apply_operating_point.  op: load, region (by name), reserve, fleet,     *)
(* renew, and perm, the identity unless costs are permuted.                *)
(***************************************************************************)
Region(bus) == <<"north", "south", "east", "west">>[1 + (bus % 4)]

\* Every third unit is taken for renewable; in 10^-4.
Availability(pos, op) == Clamp(op.fleet * (IF (pos % 3) = 1 THEN op.renew ELSE 100), 1000, 12000)

UnitAt(unit, pos, op) ==
  LET pmax == unit.pmax * Availability(pos, op) * 10
      pmin == unit.pmin * Clamp(1000 * 100 - op.reserve * 500, 50000, 120000)
  IN [unit EXCEPT !.pmax = pmax, !.pmin = IF pmin > pmax THEN unit.pmax * Availability(pos, op) * 8
                                          ELSE pmin,
                  !.qmin = @ * Availability(pos, op) * 10, !.qmax = @ * Availability(pos, op) * 10]

\* Loads of a snapshot, a function from buses, take the place of those of the case;
\* those of nothing are dropped.
Rebuilt(snapshot) ==
  LET at == SetToSortSeq({b \in DOMAIN snapshot : snapshot[b] # 0}, <)
  IN [i \in DOMAIN at |-> [bus |-> at[i], pd |-> snapshot[at[i]]]]

ApplyOperatingPoint(case, op, snapshot) ==
  LET loads == IF snapshot = <<>> THEN case.loads ELSE Rebuilt(snapshot)
      costs == PermutedCosts([i \in DOMAIN case.units |-> case.units[i].cost], op.perm)
  IN [case EXCEPT
        !.loads = [i \in DOMAIN loads |->
                     [loads[i] EXCEPT !.pd = @ * op.load * op.region[Region(loads[i].bus)] * 10]],
        !.units = [i \in DOMAIN case.units |->
                     [UnitAt(case.units[i], i, op) EXCEPT !.cost = costs[i]]]]

\* build_snapshot_registry and get_snapshot_bus_loads: files, sorted by label, are
\* numbered before those without loads are left out; an id that is not known gives
\* nothing, and the case is solved with its own loads.
SnapshotRegistry(files) ==
  [i \in {k \in DOMAIN files : \E b \in DOMAIN files[k] : files[k][b] # 0} |-> files[i]]
SnapshotOf(registry, id) == IF id \in DOMAIN registry THEN registry[id] ELSE <<>>
=============================================================================
