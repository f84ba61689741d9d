----------------------------- MODULE SampleTools -----------------------------
(***************************************************************************)
(* Tools that go over the samples.jsonl files of many shards after the     *)
(* fact: the audit of orphan PV buses (audit_orphan_pv_pf_corpus.py), the  *)
(* upgrade of feasibility labels (backfill_feasibility_labels.py), the     *)
(* candidates of process errors (extract_process_error_candidates.py) and  *)
(* those of warm restarts (prepare_powermodels_restart_campaign.py).       *)
(*                                                                         *)
(* A kill may have joined what it left of a record with the next one: a    *)
(* line is a sequence of pieces, records or Frag, of which only the last   *)
(* is followed by a newline.  It decodes when it is one record.            *)
(***************************************************************************)
EXTENDS Contingencies

Outcome == INSTANCE Outcomes

Frag == [id |-> 0]   \* no record is number 0
Decodes(line) == Len(line) = 1 /\ line[1] # Frag

-----------------------------------------------------------------------------
(* Orphan PV buses of one record, counted by the jq filter and, as its       *)
(* reference, in Python.  A unit is [id, bus, status, idle]: idle when its   *)
(* four limits are zero.  A contingency is [event, first, second, stages,    *)
(* components], where Absent stands for a field that is not there.           *)
Absent == <<"none", 0>>

\* generator_outages
Outaged(c) ==
  {o \in CASE c.event = "sequential_n1n1" -> {c.first, c.second}
           [] c.event = "sequential_cascade" -> Range(c.stages)
           [] OTHER -> Range(c.components) : o[1] = "generator"}

Online(units, c) ==
  {i \in DOMAIN units : units[i].status # "off" /\ Unit(units[i].id) \notin Outaged(c)
                          /\ ~units[i].idle}

\* JQ_FILTER: `.status // 1' takes a null for 1, the null is counted beside.
JqRow(units, pv, c) ==
  [nulls |-> \E i \in DOMAIN units : units[i].status = "null",
   orphans |-> Cardinality(pv \ {units[i].bus : i \in Online(units, c)})]

-----------------------------------------------------------------------------
(* The audit of the corpus.  A record is [id, pf, row]: pf when it has the    *)
(* identity of a PF record, row what the filter makes of it.                  *)
Rows == {"unsuccessful", "null", "invalid", "audited"}

\* parse_sample_lines: of a line that does not decode, what its end holds.
Parsed(lines) ==
  FlattenSeq([i \in DOMAIN lines |->
    IF Last(lines[i]) # Frag /\ Last(lines[i]).pf THEN <<Last(lines[i])>> ELSE <<>>])
Malformed(lines) == Cardinality({i \in DOMAIN lines : ~Decodes(lines[i])})

\* jq reads a stream of values: it minds fragments, not lines.
JqReads(lines) == \A i \in DOMAIN lines : Frag \notin Range(lines[i])

Hashes(records) == {records[i].id : i \in DOMAIN records}

\* audit_file with source_hashes_for_overlay_file, for a file the overlay names.
FileAudit(lines, named) ==
  IF JqReads(lines)
  THEN [records |-> FlattenSeq(lines), malformed |-> 0,
        hashes |-> IF named THEN Hashes(Parsed(lines)) ELSE {},
        raised |-> named /\ Malformed(lines) > 0]
  ELSE [records |-> Parsed(lines), malformed |-> Malformed(lines),
        hashes |-> Hashes(Parsed(lines)), raised |-> FALSE]

\* load_recovery_overlay: every byte and every row is what the manifest says.
OverlayLoads(rows, manifest) ==
  /\ rows = manifest.digest
  /\ Len(rows) = manifest.count /\ Len(rows) = Len(manifest.records)
  /\ \A i \in DOMAIN rows : rows[i].id = manifest.records[i].id

\* Variant with a bug: only rows of the overlay itself are told apart.
OverlayAdded_Itself(rows, manifest, existing, campaigns) ==
  FoldLeft(LAMBDA acc, i :
             IF \/ manifest.records[i].campaign \notin campaigns
                \/ rows[i].id \in acc.seen
             THEN acc
             ELSE [added |-> Append(acc.added, rows[i]), seen |-> acc.seen \cup {rows[i].id}],
           [added |-> <<>>, seen |-> {}], [i \in DOMAIN rows |-> i]).added

\* select_overlay_records
OverlayAdded(rows, manifest, existing, campaigns) ==
  FoldLeft(LAMBDA acc, i :
             IF \/ manifest.records[i].campaign \notin campaigns
                \/ rows[i].id \in existing \cup acc.seen
             THEN acc
             ELSE [added |-> Append(acc.added, rows[i]), seen |-> acc.seen \cup {rows[i].id}],
           [added |-> <<>>, seen |-> {}], [i \in DOMAIN rows |-> i]).added

\* summarize_jq_output and accumulate, over all that is counted.
Summary(records, malformed) ==
  LET rows(kinds) == Cardinality({i \in DOMAIN records : records[i].row \in kinds})
  IN [records |-> Len(records), unsuccessful |-> rows({"unsuccessful"}),
      successful |-> rows(Rows \ {"unsuccessful"}), audited |-> rows({"audited"}),
      exceptions |-> rows({"null", "invalid"}) + malformed]

\* main: files[c] is the sample file of campaign c; the overlay comes last.
Audit(files, campaigns, rows, manifest) ==
  LET named == {manifest.records[i].campaign : i \in DOMAIN manifest.records}
      found == [c \in campaigns |-> FileAudit(files[c], c \in named)]
      existing == UNION {found[c].hashes : c \in campaigns}
      fromFiles == FoldSet(LAMBDA c, acc : acc \o found[c].records, <<>>, campaigns)
      all == fromFiles \o OverlayAdded(rows, manifest, existing, campaigns)
  IN IF ~OverlayLoads(rows, manifest) \/ \E c \in campaigns : found[c].raised
     THEN [ok |-> FALSE]
     ELSE [ok |-> TRUE, records |-> all,
           summary |-> Summary(all, Sum([c \in campaigns |-> found[c].malformed]))]

-----------------------------------------------------------------------------
(* The upgrade of labels.  A record has a result and a label, "none" when it  *)
(* is of schema 1.0 and older than labels.                                    *)

\* _classify, which "mirrors round_runner.classify_feasibility"
Classified(r) ==
  CASE r.success \/ r.status \in Outcome!Feasible -> "feasible"
    [] ~r.success /\ r.status \in Outcome!Ambiguous \cup Outcome!Indeterminate -> "indeterminate"
    [] ~r.success /\ r.status = "LOCALLY_INFEASIBLE" -> "infeasible"
    [] ~r.success /\ r.status = "INVALID_MODEL" /\ r.primal -> "infeasible"
    [] ~r.success /\ r.status \in Outcome!Erroneous /\ ~(r.status = "INVALID_MODEL" /\ r.primal)
         -> "error"
    [] OTHER -> "indeterminate"

Unlabelled(rec) == rec.label # Classified(rec.result) \/ rec.schema = "1.0"
Upgraded(rec) == [rec EXCEPT !.label = Classified(rec.result), !.schema = "1.1"]

\* _process_file: the lines that do not decode are kept.
Relabelled(lines) ==
  [i \in DOMAIN lines |->
     IF Decodes(lines[i]) /\ Unlabelled(lines[i][1]) THEN <<Upgraded(lines[i][1])>> ELSE lines[i]]

-----------------------------------------------------------------------------
(* Candidates to run again. *)
\* _scan_file: a record without a case in its candidate is passed over.
ErrorCandidates(lines) ==
  LET taken == SelectSeq(lines, LAMBDA l : Decodes(l) /\ l[1].label = "error" /\ l[1].case)
  IN [i \in DOMAIN taken |-> taken[i][1].cand]

\* main: the files in the order their scans end; the first of each candidate.
Extracted(files, order) ==
  FoldLeft(LAMBDA acc, c : IF c \in Range(acc) THEN acc ELSE Append(acc, c), <<>>,
           FlattenSeq([k \in DOMAIN order |-> ErrorCandidates(files[order[k]])]))

\* What a label takes of its record, and the bytes of a line, its newline with it.
Width(label) == IF label = "none" THEN 0 ELSE IF label = "error" THEN 1 ELSE 2
Size(piece) == IF piece = Frag THEN 1 ELSE piece.body + Width(piece.label)
Bytes(line) == Sum([i \in DOMAIN line |-> Size(line[i])]) + 1
Offset(lines, i) == Sum([j \in 1 .. i - 1 |-> Bytes(lines[j])])

\* Row x[2] of file x[1] is read after row y[2] of file y[1].
Later(x, y) == x[1] > y[1] \/ (x[1] = y[1] /\ x[2] > y[2])

RestartRows(files, statuses) ==
  {x \in UNION {{<<f, i>> : i \in DOMAIN files[f]} : f \in DOMAIN files} :
     LET line == files[x[1]][x[2]]
     IN Decodes(line) /\ line[1].result.status \in statuses /\ line[1].cand # 0 /\ line[1].solved}

\* collect_restart_candidates: of each candidate the row that is read last, and
\* where its bytes are.
Restarts(files, statuses) ==
  LET rows == RestartRows(files, statuses)
      cand(x) == files[x[1]][x[2]][1].cand
  IN {[cand |-> cand(x), file |-> x[1], at |-> Offset(files[x[1]], x[2]),
       length |-> Bytes(files[x[1]][x[2]])] :
       x \in {x \in rows : \A y \in rows : cand(y) = cand(x) => ~Later(y, x)}}

\* _load_warm_start_solution: the bytes decode when they are one line.
WarmStart(lines, source) ==
  LET read == {i \in DOMAIN lines : /\ Decodes(lines[i])
                                    /\ Offset(lines, i) = source.at
                                    /\ source.length \in {Bytes(lines[i]) - 1, Bytes(lines[i])}}
  IN IF \E i \in read : lines[i][1].cand = source.cand /\ lines[i][1].solved
     THEN [ok |-> TRUE, rec |-> lines[CHOOSE i \in read : TRUE][1]]
     ELSE [ok |-> FALSE]
=============================================================================
