--------------------------- MODULE SampleToolsData ---------------------------
(***************************************************************************)
(* The tools on sample files, called on small files of every shape a kill  *)
(* leaves.                                                                 *)
(***************************************************************************)
EXTENDS SampleTools, DataCall

CONSTANT MaxStored   \* lines of a sample file

\* The record of an outage as enumeration and the PF campaign write it.
Written(event, outages) ==
  [event |-> event,
   first |-> IF event = "sequential_n1n1" THEN outages[1] ELSE Absent,
   second |-> IF event = "sequential_n1n1" THEN outages[2] ELSE Absent,
   stages |-> IF event = "sequential_cascade" THEN outages ELSE <<>>,
   components |-> IF event = "simultaneous" THEN outages ELSE <<>>]

CallOrphans ==
  /\ Idle
  /\ \E status \in [1 .. 2 -> {"on", "off", "null"}], idle \in [1 .. 2 -> BOOLEAN],
        bus \in [1 .. 2 -> 1 .. 2], pv \in SUBSET {1, 2},
        event \in {"simultaneous", "sequential_n1n1", "sequential_cascade"},
        outages \in {<<Unit(1), Unit(2)>>, <<Branch(1), Unit(2)>>, <<Unit(1), Unit(9)>>,
                     <<Branch(2), Branch(1)>>} :
       LET units == [i \in 1 .. 2 |-> [id |-> i, bus |-> bus[i], status |-> status[i], idle |-> idle[i]]]
       IN call' = [fn |-> "orphans", units |-> units, pv |-> pv, outages |-> outages,
                   out |-> JqRow(units, pv, Written(event, outages))]

\* Records 1 and 2 are PF records of campaign 1, record 4 of campaign 2, and
\* record 3 is without its identity.
Record(id) == [id |-> id, pf |-> id # 3, row |-> CASE id = 1 -> "audited" [] id = 2 -> "unsuccessful"
                                                   [] id = 3 -> "invalid" [] OTHER -> "null"]
Home(id) == IF id = 4 THEN 2 ELSE 1
Pieces == {Frag} \cup {Record(id) : id \in 1 .. 3}
StoredFiles(pieces) == UNION {[1 .. n -> {<<p>> : p \in pieces} \cup (pieces \X pieces)] : n \in 0 .. MaxStored}

CallAudit ==
  /\ Idle
  /\ \E first \in StoredFiles(Pieces), second \in {<<>>, <<<<Record(4)>>>>},
        ids \in {<<>>, <<1>>, <<1, 2>>, <<2, 4>>, <<1, 1>>}, campaigns \in {{1}, {1, 2}},
        changed \in BOOLEAN :
       LET rows == [i \in DOMAIN ids |-> Record(ids[i])]
           manifest == [digest |-> IF changed THEN Append(rows, Record(4)) ELSE rows,
                        count |-> Len(rows),
                        records |-> [i \in DOMAIN ids |-> [id |-> ids[i], campaign |-> Home(ids[i])]]]
       IN call' = [fn |-> "audit", files |-> <<first, second>>, ids |-> ids, campaigns |-> campaigns,
                   changed |-> changed,
                   out |-> Audit(<<first, second>>, campaigns, rows, manifest)]

Results == [success : {FALSE}, status : Outcome!Statuses, primal : BOOLEAN]
             \cup [success : {TRUE}, status : {"LOCALLY_SOLVED", "PREFLIGHT"}, primal : {TRUE}]
Labels == {"none", "feasible", "infeasible", "indeterminate", "error"}

CallRelabel ==
  /\ Idle
  /\ \E result \in Results, label \in Labels, schema \in {"1.0", "1.1"},
        rest \in {<<>>, <<<<Frag>>>>} :
       LET rec == [result |-> result, label |-> label, schema |-> schema]
           lines == << <<rec>>, <<Frag, rec>> >> \o rest
       IN call' = [fn |-> "relabel", lines |-> lines, out |-> Relabelled(lines)]

CallExtract ==
  /\ Idle
  /\ \E files \in [1 .. 2 -> UNION {[1 .. n -> {<<Frag>>} \cup {<<[cand |-> c, label |-> l, case |-> TRUE]>> :
                                       c \in 1 .. 2, l \in {"error", "feasible"}}] : n \in 0 .. MaxStored}],
        caseless \in BOOLEAN :
       LET kept == [f \in 1 .. 2 |-> IF caseless /\ f = 1 /\ files[f] # <<>> /\ Decodes(files[f][1])
                                       THEN [files[f] EXCEPT ![1][1].case = FALSE] ELSE files[f]]
       IN call' = [fn |-> "extract", files |-> kept,
                   out |-> [order \in {<<1, 2>>, <<2, 1>>} |-> Extracted(kept, order)]]

\* Rows of two candidates, solved to a time limit or to the end, with or without
\* their label, of two sizes.
SolvedRow(cand, status, labelled, body) ==
  LET result == [success |-> FALSE, status |-> status, primal |-> FALSE]
  IN [cand |-> cand, result |-> result, solved |-> TRUE, body |-> body, schema |-> "1.0",
      label |-> IF labelled THEN Classified(result) ELSE "none"]
Stored == {<<SolvedRow(cand, status, labelled, body)>> :
             cand \in 1 .. 2, status \in {"TIMEOUT", "PROCESS_ERROR"}, labelled \in BOOLEAN, body \in {1, 2}}
            \cup {<<Frag>>}

\* The labels may be upgraded between the choice of the restarts and their run.
CallRestart ==
  /\ Idle
  /\ \E first \in [1 .. 3 -> Stored], second \in {<<>>, <<<<SolvedRow(1, "TIMEOUT", FALSE, 1)>>>>} :
       LET files == <<first, second>>
           sources == Restarts(files, {"TIMEOUT"})
       IN call' = [fn |-> "restart", files |-> files,
                   out |-> {[source |-> s, now |-> WarmStart(files[s.file], s),
                             later |-> WarmStart(Relabelled(files[s.file]), s)] : s \in sources}]

SampleToolsNext == CallOrphans \/ CallAudit \/ CallRelabel \/ CallExtract \/ CallRestart

-----------------------------------------------------------------------------
\* The audit counts as orphans the PV buses at which the case that is solved,
\* with the outages applied, has no unit in service with a limit other than zero;
\* a unit whose status is null is not judged but reported.
OrphansExact ==
  Calls("orphans") =>
    LET case == [net |-> [branches |-> <<>>], units |-> call.units]
        left == Range(ApplyContingency(case, call.outages).units)
        carried == {u.bus : u \in {u \in left : u.status = "on" /\ ~u.idle}}
    IN /\ call.out.nulls <=> \E u \in Range(call.units) : u.status = "null"
       /\ ~call.out.nulls => call.out.orphans = Cardinality(call.pv \ carried)

Times(id) == Cardinality({i \in DOMAIN call.out.records : call.out.records[i].id = id})
LineEnds(id) ==
  Cardinality({<<c, i>> \in UNION {{<<c, i>> : i \in DOMAIN call.files[c]} : c \in call.campaigns} :
                 Last(call.files[c][i]) = Record(id)})

\* Whatever kills left of the files, a PF record at the end of a line is counted
\* once for each such line, and one of the overlay that no line ends with exactly
\* once; a record that a fragment follows on its line is counted only when jq can
\* read its file; every record counted is audited, failed or an exception.  The
\* audit gives up when the overlay is not what its manifest says, and when jq
\* could read a file the overlay names though two records share a line.
AuditCountsOnce ==
  Calls("audit") =>
    LET inOverlay(id) == id \in Range(call.ids) /\ Home(id) \in call.campaigns
        named(c) == \E id \in Range(call.ids) : Home(id) = c
        glued(c) == JqReads(call.files[c]) /\ \E i \in DOMAIN call.files[c] : Len(call.files[c][i]) > 1
    IN /\ call.out.ok <=> ~call.changed /\ ~\E c \in call.campaigns : named(c) /\ glued(c)
       /\ call.out.ok =>
            /\ \A id \in {1, 2, 4} :
                 ~glued(Home(id)) =>
                   Times(id) = IF LineEnds(id) = 0 /\ inOverlay(id) THEN 1 ELSE LineEnds(id)
            /\ call.out.summary.records = call.out.summary.successful + call.out.summary.unsuccessful
            /\ call.out.summary.exceptions + call.out.summary.audited
                 = call.out.summary.successful
                     + Sum([c \in call.campaigns |->
                              IF JqReads(call.files[c]) THEN 0 ELSE Malformed(call.files[c])])

\* After the upgrade every record that decodes has the label the solver's runner
\* gives to the same result today; the other lines are as they were, and a second
\* upgrade changes nothing.
LabelsMirror ==
  Calls("relabel") =>
    /\ \A i \in DOMAIN call.lines :
         IF Decodes(call.lines[i])
         THEN /\ call.out[i][1].label = Outcome!Feasibility(call.out[i][1].result)
              /\ call.out[i][1].result = call.lines[i][1].result
              /\ call.out[i][1].schema = "1.1"
         ELSE call.out[i] = call.lines[i]
    /\ Relabelled(call.out) = call.out

\* In whatever order the scans end, every candidate of a record that ended in an
\* error is written once.
ExtractedOnce ==
  Calls("extract") =>
    \A order \in DOMAIN call.out :
      /\ IsInjective(call.out[order])
      /\ Range(call.out[order]) =
           {l[1].cand : l \in {l \in UNION {Range(call.files[f]) : f \in 1 .. 2} :
                                 Decodes(l) /\ l[1].label = "error" /\ l[1].case}}

\* A restart reads back the row that was chosen, the last of its candidate.  When
\* the file was rewritten since, it raises or reads a row of the same candidate:
\* never the solution of another one.
WarmStartOwn ==
  Calls("restart") =>
    \A r \in call.out :
      LET rows == {x \in RestartRows(call.files, {"TIMEOUT"}) :
                     call.files[x[1]][x[2]][1].cand = r.source.cand}
          last == CHOOSE x \in rows : \A y \in rows : y[1] < x[1] \/ (y[1] = x[1] /\ y[2] <= x[2])
      IN /\ r.now.ok /\ r.source.file = last[1] /\ r.now.rec = call.files[last[1]][last[2]][1]
         /\ r.source.at = Offset(call.files[last[1]], last[2])
         /\ r.later.ok => r.later.rec.cand = r.source.cand

\* The tools that go over finished samples miss none and take none for another: see
\* the parts.
SampleToolsRight ==
  /\ OrphansExact /\ AuditCountsOnce /\ LabelsMirror /\ ExtractedOnce /\ WarmStartOwn
=============================================================================
