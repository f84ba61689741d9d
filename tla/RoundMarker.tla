---------------------------- MODULE RoundMarker ----------------------------
(***************************************************************************)
(* What the reduce stage promises: the round marker is published in one    *)
(* step and says what the shard reports say at that moment.  It is ok only *)
(* when every listed shard has an ok report; otherwise it names the first  *)
(* shard that stops the round.                                             *)
(***************************************************************************)
EXTENDS Naturals, Sequences

CONSTANTS N,          \* shards of the round are numbered 1 .. N
          Lengths,    \* shards an invocation may list: 1 .. n for n in Lengths
          OkReports   \* contents of a successful execution report

VARIABLES reports,    \* reports[s]: execution report of shard s
          marker      \* round_<NNN>_mapreduce_reduce_report.json

Shards == 1 .. N
Reports == OkReports \cup {"absent", "torn", "failed"}
Absent == [kind |-> "absent", ok |-> FALSE]
Marker(ok, n, merged, blocker) == [kind |-> "marker", ok |-> ok, length |-> n,
                                   merged |-> merged, blocker |-> blocker]

Init == reports \in [Shards -> {"absent"}] /\ marker = Absent

\* A map task writes a report, or leaves it torn.
Report(s, r) == /\ reports[s] \notin OkReports
                /\ reports' = [reports EXCEPT ![s] = r]
                /\ UNCHANGED marker

\* The reports of shards 1 .. k, in order.
Prefix(k) == [s \in 1 .. k |-> reports[s]]

Publish(n) ==
  /\ \/ /\ \A s \in 1 .. n : reports[s] \in OkReports
        /\ marker' = Marker(TRUE, n, Prefix(n), 0)
     \/ \E b \in 1 .. n :
          /\ \A s \in 1 .. b - 1 : reports[s] \in OkReports
          /\ reports[b] \in {"absent", "failed"}
          /\ marker' = Marker(FALSE, n, Prefix(b - 1), b)
  /\ UNCHANGED reports

\* A marker that is not ok makes room for another attempt.
Withdraw == /\ marker # Absent /\ ~marker.ok
            /\ marker' = Absent
            /\ UNCHANGED reports

Next == \/ \E s \in Shards : \E r \in Reports \ {"absent"} : Report(s, r)
        \/ \E n \in Lengths : Publish(n)
        \/ Withdraw

Spec == Init /\ [][Next]_<<reports, marker>>
=============================================================================
