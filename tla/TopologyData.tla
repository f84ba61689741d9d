---------------------------- MODULE TopologyData ----------------------------
(***************************************************************************)
(* Topology variants and expansion plans of small networks.  A variant is  *)
(* drawn per attempt, an expansion is a cascade of steps, each on the      *)
(* network the ones before it left; call holds the loop's variables.       *)
(***************************************************************************)
EXTENDS Topology, DataCall

CONSTANTS
  Buses,         \* bus numbers of the networks
  MaxBranches,   \* branches of a network whose bridges are searched
  MaxVariants,   \* n_variants
  MaxAttempts,   \* the bound max_attempts of the loop
  MaxSteps       \* max_steps of a cascade

Ends == {e \in Buses \X Buses : e[1] <= e[2]}
Rank(e) == e[1] * 100 + e[2]

Network(ends, gens, loads) ==
  [buses |-> Buses, gens |-> gens, loads |-> loads,
   branches |-> [i \in DOMAIN ends |-> [id |-> <<"b", i>>, ends |-> ends[i]]]]

CallBridges ==
  /\ Idle
  /\ \E ends \in [1 .. MaxBranches -> Ends] :
       LET net == Network(ends, <<>>, <<>>)
       IN call' = [fn |-> "bridges", net |-> net, out |-> FindBridges(net)]

\* Networks up to the order of their branches.
Shapes == {ends \in [1 .. 4 -> {e \in Ends : e[2] <= 3}] :
             \A i \in 1 .. 3 : Rank(ends[i]) <= Rank(ends[i + 1])}
Small(ends) == [Network(ends, <<1>>, <<2, 1>>) EXCEPT !.buses = 1 .. 3]

CallVariants ==
  /\ Idle
  /\ \E ends \in Shapes, most \in 1 .. 2 :
       call' = [fn |-> "variants", net |-> Small(ends), most |-> most,
                index |-> 1, variants |-> <<Baseline>>]

\* One pass of the loop: the index advances, whatever becomes of the pick.
Attempt ==
  /\ Calls("variants")
  /\ Len(call.variants) < MaxVariants /\ call.index <= MaxAttempts
  /\ Reinforceable(call.net) # {}
  /\ LET upgrade == Upgrades(call.net, call.index)
     IN \E pick \in Picks(call.net, call.index, upgrade, call.most) :
          call' = [call EXCEPT !.index = @ + 1,
                     !.variants = IF Accepts(call.net, call.variants, pick, upgrade)
                                  THEN Append(@, Variant(pick, upgrade)) ELSE @]

CallExpansion ==
  /\ Idle
  /\ \E ends \in Shapes, index \in 1 .. Len(Classes), maxSteps \in 0 .. MaxSteps, share \in 0 .. 2 :
       call' = [fn |-> "expansion", net |-> Small(ends), now |-> Small(ends), index |-> index,
                maxSteps |-> maxSteps, s |-> 0, steps |-> <<>>,
                depth |-> Depth(index, Ceiling(3, maxSteps, share, 2))]

\* The next class of the cascade; one that cannot be is passed over.
Expand ==
  /\ Calls("expansion")
  /\ call.s < call.depth
  /\ LET steps == Steps(ClassAt(call.index, call.s), call.net, call.now, call.s)
     IN \/ /\ steps = {}
           /\ call' = [call EXCEPT !.s = @ + 1]
        \/ \E step \in steps :
             call' = [call EXCEPT !.s = @ + 1, !.steps = Append(@, step),
                                  !.now = ApplyStep(@, step)]

TopologyNext == CallBridges \/ CallVariants \/ Attempt \/ CallExpansion \/ Expand

-----------------------------------------------------------------------------
\* The search finds the branches, and only those, whose loss alone splits off a
\* part of the network; two circuits of one corridor are no bridges.
BridgesExact ==
  Calls("bridges") =>
    call.out = {i \in DOMAIN call.net.branches :
                  Components(call.net, {i}) > Components(call.net, {})}

\* Variants differ from each other, the baseline first; opening the branches of one
\* leaves the components as they are, and a network without a branch to open gets
\* upgrades only.
VariantsKeepNetwork ==
  Calls("variants") =>
    LET vs == call.variants
    IN /\ vs[1] = Baseline /\ Len(vs) <= MaxVariants
       /\ IsInjective(vs)
       /\ \A v \in Range(vs) :
            /\ Components(ApplyTopology(call.net, v.switched, v.reinforced), {})
                 = Components(call.net, {})
            /\ Switchable(call.net) = {} => v.switched = {}

\* A corridor that a variant reinforces survives the loss of either circuit.
ReinforcedSurvives ==
  Calls("variants") =>
    \A v \in Range(call.variants) :
      LET net == ApplyTopology(call.net, v.switched, v.reinforced)
          at(id) == {i \in DOMAIN net.branches : net.branches[i].id = id}
      IN \A b \in v.reinforced :
           \A i \in at(<<"b", b>>) \cup at(<<"parallel", b>>) :
             Components(net, {i}) = Components(net, {})

\* An expansion leaves as many components as there were, at every step and also
\* when the case is solved with branches opened and circuits added first, which the
\* plan was not made for.
ExpansionKeepsComponents ==
  Calls("expansion") =>
    \A switched \in SUBSET Switchable(call.net), reinforced \in {{}, {1}} :
      Components(call.net, switched) = Components(call.net, {}) =>
        Components(ApplyExpansion(ApplyTopology(call.net, switched, reinforced), call.steps), {})
          = Components(call.net, {})

\* Replaying the steps gives the network the cascade was planned on, with a new
\* number for every new bus, and nothing joined to a bus that is not there.
PlanReplays ==
  Calls("expansion") =>
    LET added == MapThenSumSet(LAMBDA i : Cardinality(call.steps[i].buses), DOMAIN call.steps)
    IN /\ ApplyExpansion(call.net, call.steps) = call.now
       /\ Cardinality(call.now.buses) = Cardinality(call.net.buses) + added
       /\ \A i \in DOMAIN call.now.branches : Range(call.now.branches[i].ends) \subseteq call.now.buses
       /\ Range(call.now.gens) \cup Range(call.now.loads) \subseteq call.now.buses
       /\ call.maxSteps > 1 => Len(call.steps) <= call.maxSteps

\* Topology variants and expansions leave a network that can be solved: see the parts.
NetworksStayWhole ==
  /\ BridgesExact /\ VariantsKeepNetwork /\ ReinforcedSurvives
  /\ ExpansionKeepsComponents /\ PlanReplays
=============================================================================
