------------------------------- MODULE Topology -------------------------------
(***************************************************************************)
(* Networks and what is done to them: components and bridges, switched and *)
(* reinforced branches (topology/generation.py), new equipment             *)
(* (topology/expansion.py).                                                *)
(*                                                                         *)
(* A network is [buses, branches, gens, loads]: bus numbers, a sequence of *)
(* [id, ends], where ends is a pair of buses, and the sequences of the     *)
(* buses that have a unit or a load.  A branch with an unknown end is one  *)
(* from a bus to itself, as the code reads it.                             *)
(***************************************************************************)
EXTENDS PythonLists, FiniteSets

Loop(branch) == branch.ends[1] = branch.ends[2]
Closed(net, removed) == {i \in DOMAIN net.branches : i \notin removed /\ ~Loop(net.branches[i])}

\* _num_components: union-find over the branches that are not removed.
Components(net, removed) ==
  LET join(parts, i) ==
        LET ends == {net.branches[i].ends[1], net.branches[i].ends[2]}
            met == {p \in parts : p \cap ends # {}}
        IN (parts \ met) \cup {UNION met}
  IN Cardinality(FoldSet(LAMBDA i, parts : join(parts, i), {{b} : b \in net.buses},
                         Closed(net, removed)))

(***************************************************************************)
(* _find_bridges: depth-first search without recursion.  A frame of the    *)
(* stack is [bus, via, next]: the branch it was entered by and the number  *)
(* of neighbours looked at.                                                *)
(***************************************************************************)
\* adj[bus]: what the bus is joined to and by which branch, in branch order; a
\* branch from a bus to itself is there twice.
Neighbours(net, bus) ==
  FlattenSeq([i \in DOMAIN net.branches |->
    LET e == net.branches[i].ends
    IN (IF e[1] = bus THEN << [to |-> e[2], by |-> i] >> ELSE <<>>)
         \o (IF e[2] = bus THEN << [to |-> e[1], by |-> i] >> ELSE <<>>)])

\* Variant with a bug: the way back is told by the bus it leads to.
WayBack_Bus(frame, below, n) == below # <<>> /\ n.to = Last(below).bus

WayBack(frame, below, n) == n.by = frame.via

Enter(s, bus, via) ==
  [s EXCEPT !.stack = Append(@, [bus |-> bus, via |-> via, next |-> 1]),
            !.disc = (bus :> s.timer) @@ @, !.low = (bus :> s.timer) @@ @, !.timer = @ + 1]

\* The next neighbour of the bus on top of the stack.
Look(net, s) ==
  LET top == Last(s.stack)
      n == Neighbours(net, top.bus)[top.next]
      on == [s EXCEPT !.stack[Len(s.stack)].next = @ + 1]
  IN IF WayBack(top, Front(s.stack), n) THEN on
     ELSE IF n.to \notin DOMAIN s.disc THEN Enter(on, n.to, n.by)
     ELSE [on EXCEPT !.low[top.bus] = Min({@, s.disc[n.to]})]

\* All neighbours are done: the bus below learns how far up this one gets.
Leave(s) ==
  LET top == Last(s.stack)
      below == Front(s.stack)
      up == Last(below).bus
  IN IF below = <<>> THEN [s EXCEPT !.stack = below]
     ELSE [s EXCEPT !.stack = below,
                    !.low[up] = Min({@, s.low[top.bus]}),
                    !.bridges = IF s.low[top.bus] > s.disc[up] THEN @ \cup {top.via} ELSE @]

SearchStep(net, s) ==
  LET fresh == net.buses \ DOMAIN s.disc
      top == Last(s.stack)
  IN IF s.stack = <<>> THEN IF fresh = {} THEN s ELSE Enter(s, Min(fresh), 0)
     ELSE IF top.next <= Len(Neighbours(net, top.bus)) THEN Look(net, s)
     ELSE Leave(s)

\* Each bus is entered and left, each branch looked at from both ends.
FindBridges(net) ==
  FoldLeft(LAMBDA s, n : SearchStep(net, s),
           [stack |-> <<>>, disc |-> <<>>, low |-> <<>>, timer |-> 0, bridges |-> {}],
           [n \in 1 .. 2 * (Cardinality(net.buses) + Len(net.branches)) |-> n]).bridges

(***************************************************************************)
(* generate_topology_variants, one attempt; apply_topology.                *)
(***************************************************************************)
Reinforceable(net) == Closed(net, {})
Switchable(net) == Closed(net, FindBridges(net))

\* Every third attempt adds circuits, and all do when no branch can be opened.
Upgrades(net, index) == Reinforceable(net) # {} /\ (index % 3 = 0 \/ Switchable(net) = {})

\* How many branches the attempt picks, of which ones.
PickSize(net, index, upgrade, most) ==
  Min({Cardinality(IF upgrade THEN Reinforceable(net) ELSE Switchable(net)),
       1 + ((index - 1) % Max({1, most}))})
Picks(net, index, upgrade, most) ==
  kSubset(PickSize(net, index, upgrade, most),
          IF upgrade THEN Reinforceable(net) ELSE Switchable(net))

\* A pick that was had, or that would open the network, is passed over.
Accepts(net, variants, pick, upgrade) ==
  /\ ~\E v \in Range(variants) : pick = IF upgrade THEN v.reinforced ELSE v.switched
  /\ upgrade \/ Components(net, pick) = Components(net, {})

Baseline == [switched |-> {}, reinforced |-> {}]
Variant(pick, upgrade) ==
  IF upgrade THEN [switched |-> {}, reinforced |-> pick] ELSE [switched |-> pick, reinforced |-> {}]

\* The reinforced circuits are those of the network as it was.
ApplyTopology(net, switched, reinforced) ==
  LET left == SelectSeq([i \in DOMAIN net.branches |-> i], LAMBDA i : i \notin switched)
      twice == SetToSortSeq(reinforced \cap DOMAIN net.branches, <)
  IN [net EXCEPT !.branches =
        [j \in DOMAIN left |-> net.branches[left[j]]] \o
        [j \in DOMAIN twice |-> [net.branches[twice[j]] EXCEPT !.id = <<"parallel", twice[j]>>]]]

(***************************************************************************)
(* expansion.py: a step of a plan is [class, buses, gens, loads, branches, *)
(* moved]; moved says for the id of a branch which end goes to the new     *)
(* bus.                                                                    *)
(***************************************************************************)
Classes == <<"generator", "transformer", "greenfield", "split", "load">>

Degree(net, bus) ==
  Cardinality({i \in DOMAIN net.branches : bus \in Range(net.branches[i].ends)})

NewBus(base, net) == Max(net.buses) + 1

Nothing == [class |-> "none", buses |-> {}, gens |-> <<>>, loads |-> <<>>, branches |-> <<>>,
            moved |-> <<>>]
Joins(s, a, b) == << [id |-> <<"new", s>>, ends |-> <<a, b>>] >>

\* Load buses without a unit, or else any without, or else any.
UnitSites(net) ==
  LET free == net.buses \ Range(net.gens)
  IN IF free \cap Range(net.loads) # {} THEN free \cap Range(net.loads)
     ELSE IF free # {} THEN free ELSE net.buses

Tie(s, bus, new) == Joins(s, bus, new)

\* Half of the branches of a bus with at least four are moved to the new bus.
SplitSteps(base, net, s) ==
  UNION {LET at == {i \in DOMAIN net.branches : bus \in Range(net.branches[i].ends)}
         IN {[Nothing EXCEPT !.class = "split", !.buses = {NewBus(base, net)},
                !.branches = Tie(s, bus, NewBus(base, net)),
                !.moved = [id \in {net.branches[i].id : i \in moves} |->
                             LET i == CHOOSE j \in moves : net.branches[j].id = id
                             IN IF net.branches[i].ends[1] = bus THEN 1 ELSE 2]] :
               moves \in kSubset(Cardinality(at) \div 2, at)} :
           bus \in {b \in net.buses : Degree(net, b) >= 4}}

\* _build_single_plan: the steps of a class that can come out for the network that
\* the steps before it left; there may be none.
Steps(class, base, net, s) ==
  CASE class = "generator" ->
         {[Nothing EXCEPT !.class = class, !.gens = <<bus>>] : bus \in UnitSites(net)}
    [] class = "load" -> {[Nothing EXCEPT !.class = class, !.loads = <<bus>>] : bus \in net.buses}
    [] class = "transformer" ->
         {[Nothing EXCEPT !.class = class,
             !.branches = Joins(s, net.branches[i].ends[1], net.branches[i].ends[2])] :
            i \in Closed(net, {})}
    [] class = "greenfield" ->
         {[Nothing EXCEPT !.class = class, !.buses = {NewBus(base, net)},
             !.gens = <<NewBus(base, net)>>, !.branches = Joins(s, bus, NewBus(base, net))] :
            bus \in net.buses}
    [] class = "split" -> SplitSteps(base, net, s)

\* apply_expansion of one step: ends are moved by branch id, then all is added.
ApplyStep(net, step) ==
  [buses |-> net.buses \cup step.buses, gens |-> net.gens \o step.gens,
   loads |-> net.loads \o step.loads,
   branches |->
     [i \in DOMAIN net.branches |->
        LET b == net.branches[i]
        IN IF b.id \in DOMAIN step.moved
           THEN [b EXCEPT !.ends[step.moved[b.id]] = CHOOSE n \in step.buses : TRUE] ELSE b]
     \o step.branches]

ApplyExpansion(net, steps) == FoldLeft(LAMBDA n, step : ApplyStep(n, step), net, steps)

\* The deepest a cascade may get: a fraction of the buses, under max_steps.
Ceiling(buses, maxSteps, share, unit) ==
  LET most == Larger(1, maxSteps)
      relative == Larger(1, Rounded(share * buses, unit))
  IN IF share = 0 THEN most ELSE IF most > 1 THEN Min({relative, most}) ELSE relative

Depth(index, ceiling) == 1 + ((index - 1) % ceiling)
ClassAt(index, s) == Classes[1 + ((index - 1 + s) % Len(Classes))]
=============================================================================
