----------------------------- MODULE ExagoLadder -----------------------------
(***************************************************************************)
(* The ladder of solver runs a candidate climbs in the ExaGO map task      *)
(* (run_campaign_exago_ac_opf_round.py, exago_adapter.py): GPU, IPOPT, its *)
(* checkpoint, another formulation.                                        *)
(*                                                                         *)
(* How a run of opflow ends is one word: "converged", "failed" (it says    *)
(* so, or its exit status does although it says otherwise), "crashed" (it  *)
(* says nothing and exits with an error), "late" (killed at its time       *)
(* limit), or "garbled" (its objective is no number, which raises).        *)
(***************************************************************************)
EXTENDS PythonLists, DataCall

LabelRules == INSTANCE Outcomes

CONSTANT TimeLimits   \* timeout_s of a case, in seconds; multiples of 4

Rungs == <<"gpu", "polar", "checkpoint", "cartesian">>

\* The time limit of each rung.
RungLimit(rung, timeout) ==
  CASE rung \in {"gpu", "polar"} -> timeout
    [] rung = "checkpoint" -> Larger(timeout \div 4, 300)
    [] rung = "cartesian"  -> Larger(timeout \div 2, 900)

\* run_exago_case: the termination status of an end.
RungStatus(end) == CASE end = "converged" -> "converged" [] end = "failed" -> "nonconverged"
                 [] end = "crashed" -> "process_error" [] OTHER -> "timeout"

\* A run raises when its output cannot be read, or when it was late and its log,
\* which is bytes then, is wanted.
Raises(end, verbose) == end = "garbled" \/ (verbose /\ end = "late")

PolarAsked(c) ==
  c.mode = "ipopt_only" \/ (c.mode = "gpu_then_ipopt" /\ c.ends["gpu"] # "converged")
Resumed(c) == PolarAsked(c) /\ c.ends["polar"] # "converged" /\ c.checkpoint = "written"

\* Variant with a bug: what the checkpoint gave is not looked at.
CartesianAsked_Anyway(c) == PolarAsked(c) /\ c.ends["polar"] # "converged"

CartesianAsked(c) ==
  /\ PolarAsked(c) /\ c.ends["polar"] # "converged"
  /\ ~(Resumed(c) /\ c.ends["checkpoint"] = "converged")

\* The rungs that are asked, as far as none raises.
Asked(rung, c) == CASE rung = "gpu" -> c.mode # "ipopt_only"
                    [] rung = "polar" -> PolarAsked(c)
                    [] rung = "checkpoint" -> Resumed(c)
                    [] rung = "cartesian" -> CartesianAsked(c)

\* _solve_candidate_exago: the rung whose result is returned and the trail.  The
\* checkpoint is removed behind its rung, unless that raises.
Climb(c) ==
  LET asked == SelectSeq(Rungs, LAMBDA rung : Asked(rung, c))
      raising == {i \in DOMAIN asked : Raises(c.ends[asked[i]], c.verbose)}
      done == IF raising = {} THEN asked
              ELSE SubSeq(asked, 1, CHOOSE i \in raising : \A k \in raising : i <= k)
      used == Last(done)
  IN [raised |-> raising # {},
      attempts |-> [i \in DOMAIN done |-> [rung |-> done[i], status |-> RungStatus(c.ends[done[i]])]],
      used |-> used, success |-> c.ends[used] = "converged", status |-> RungStatus(c.ends[used]),
      fallback |-> CASE used = "gpu" -> FALSE
                     [] used = "polar" -> c.mode = "gpu_then_ipopt"
                     [] OTHER -> TRUE,
      left |-> IF raising # {} /\ used \in {"polar", "checkpoint"} THEN c.checkpoint ELSE "none"]

\* classify_feasibility, which goes by the status in upper case and knows
\* neither CONVERGED nor NONCONVERGED.
LadderLabel(out) ==
  LabelRules!Feasibility([success |-> out.success, primal |-> FALSE, status |->
    CASE out.status = "timeout" -> "TIMEOUT" [] out.status = "process_error" -> "PROCESS_ERROR"
      [] OTHER -> "PREFLIGHT"])

RungEnds == {"converged", "failed", "crashed", "late", "garbled"}
CallClimb ==
  /\ Idle
  /\ \E mode \in {"gpu_then_ipopt", "ipopt_only", "gpu_only"}, ends \in [Range(Rungs) -> RungEnds],
        checkpoint \in {"none", "empty", "written"}, verbose \in BOOLEAN, timeout \in TimeLimits :
       LET c == [mode |-> mode, ends |-> ends, checkpoint |-> checkpoint, verbose |-> verbose]
       IN call' = [fn |-> "climb", case |-> c, timeout |-> timeout, out |-> Climb(c)]

LadderNext == CallClimb

-----------------------------------------------------------------------------
\* What the record says of a candidate is what its trail says: no rung is tried
\* behind one that converged, the candidate is feasible if one did, an error only if
\* the last one crashed, and a fallback was used if it was not the first.  The
\* checkpoint is tried only behind the polar run it is from, and stays behind only
\* when a run raises.  If nothing converges, all that the mode allows was tried, in
\* two and three quarters of the time limit, unless that is below the floors.
LadderHonest ==
  Calls("climb") =>
    LET out == call.out
        n == Len(out.attempts)
        tried == {out.attempts[i].rung : i \in 1 .. n}
        spent == FoldSeq(LAMBDA a, t : t + RungLimit(a.rung, call.timeout), 0, out.attempts)
    IN /\ \A i \in 1 .. n - 1 : out.attempts[i].status # "converged"
       /\ ~out.raised =>
            /\ LadderLabel(out) = "feasible" <=> \E i \in 1 .. n : out.attempts[i].status = "converged"
            /\ LadderLabel(out) = "error" <=> out.attempts[n].status = "process_error"
            /\ out.fallback <=> n > 1
            /\ out.left = "none"
            /\ LadderLabel(out) # "feasible" =>
                 tried = CASE call.case.mode = "gpu_only" -> {"gpu"}
                           [] call.case.mode # "gpu_only" ->
                                {"polar", "cartesian"}
                                  \cup (IF call.case.mode = "gpu_then_ipopt" THEN {"gpu"} ELSE {})
                                  \cup (IF call.case.checkpoint = "written" THEN {"checkpoint"} ELSE {})
       /\ "checkpoint" \in tried =>
            \E i \in 1 .. n - 1 : /\ out.attempts[i].rung = "polar"
                                  /\ out.attempts[i + 1].rung = "checkpoint"
       /\ call.timeout >= 1800 => 4 * spent <= 11 * call.timeout
=============================================================================
