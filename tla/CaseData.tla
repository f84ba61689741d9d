------------------------------- MODULE CaseData -------------------------------
(***************************************************************************)
(* What a campaign computes on values: the choice of candidates, the       *)
(* networks they run on, the quotas and controls of the power flow, the    *)
(* runs of another solver; and the tools that go over what came of it.     *)
(***************************************************************************)
EXTENDS SelectionData, TopologyData, ScenarioData, PfData,
        ExagoLadder, SampleToolsData

Next == ScenarioNext \/ SampleToolsNext \/ LadderNext \/ PfNext \/ TopologyNext
          \/ SelectionNext \/ Return
Spec == Init /\ [][Next]_call
=============================================================================
