------------------------------ MODULE Outcomes ------------------------------
(***************************************************************************)
(* What becomes of a solver's termination status: the feasibility label,   *)
(* the PF outcome class and the PF filter labels (round_runner.py).        *)
(*                                                                         *)
(* A result is [success, status, primal, valid, violations]: `primal' says *)
(* that the primal status is FEASIBLE_POINT, `valid' and `violations' come *)
(* from the validation of a power flow.  One status stands for each group  *)
(* of statuses the code treats alike; ISLANDED stands for those that name  *)
(* an island, PREFLIGHT for those in none of the code's sets.              *)
(***************************************************************************)
Feasible      == {"LOCALLY_SOLVED"}
Ambiguous     == {"DUAL_INFEASIBLE"}
Indeterminate == {"TIMEOUT", "ITERATION_LIMIT"}
Erroneous     == {"PROCESS_ERROR", "SERVER_EXCEPTION", "INVALID_MODEL"}
Infeasible    == Ambiguous \cup {"LOCALLY_INFEASIBLE"}   \* contain INFEASIBLE
Statuses == Feasible \cup Infeasible \cup Indeterminate \cup Erroneous
              \cup {"ISLANDED", "PREFLIGHT"}
Results == [success : BOOLEAN, status : Statuses, primal : BOOLEAN, valid : BOOLEAN,
            violations : SUBSET {"incomplete", "balance", "operational"}]

\* classify_feasibility: the first test that applies decides.
Feasibility(r) ==
  CASE r.success \/ r.status \in Feasible -> "feasible"
    [] ~r.success /\ r.status \in Ambiguous -> "indeterminate"
    [] ~r.success /\ r.status \in Infeasible \ Ambiguous -> "infeasible"
    [] ~r.success /\ r.status = "INVALID_MODEL" ->
         IF r.primal THEN "infeasible" ELSE "error"
    [] ~r.success /\ r.status \in Erroneous \ {"INVALID_MODEL"} -> "error"
    [] OTHER -> "indeterminate"

\* _pf_outcome_class
OutcomeClass(r) ==
  CASE r.success -> IF r.valid THEN "converged_valid" ELSE "converged_invalid"
    [] ~r.success /\ (r.status = "ISLANDED"
                        \/ (r.status = "INVALID_MODEL" /\ r.primal)) -> "islanded"
    [] ~r.success /\ r.status \in Erroneous
         /\ ~(r.status = "INVALID_MODEL" /\ r.primal) -> "software_model_error"
    [] OTHER -> "nonconvergent"

Classes == {"converged_valid", "converged_invalid", "islanded",
            "software_model_error", "nonconvergent"}

\* _pf_filter_labels; a violation is "incomplete", "balance" or "operational".
\* `listed' says that the validation has a list of violations, `exact' that the
\* candidate repeats its anchor, and `compared' holds whether the solution agreed
\* with the anchor's: nothing, where they were not compared.
FilterLabels(r, listed, exact, compared) ==
  LET judged == r.success /\ listed /\ "incomplete" \notin r.violations
  IN [convergence |-> IF r.success THEN "converged"
                      ELSE IF OutcomeClass(r) = "software_model_error" THEN "error"
                      ELSE "not_converged",
      balance     |-> IF ~judged THEN "not_evaluated"
                      ELSE IF "balance" \in r.violations THEN "violated" ELSE "satisfied",
      operational |-> IF ~judged THEN "not_evaluated"
                      ELSE IF "operational" \in r.violations THEN "limit_violating"
                      ELSE "within_limits",
      anchor      |-> IF ~exact THEN "not_applicable"
                      ELSE IF compared = {} THEN "not_evaluated"
                      ELSE IF TRUE \in compared THEN "consistent" ELSE "inconsistent"]
=============================================================================
