---------------------------- MODULE CampaignRepair ----------------------------
(***************************************************************************)
(* Repairing stored results in place: the cost backfill                    *)
(* (backfill_cost_scaling.py), the repair campaign of failed or legacy-    *)
(* quadratic rows (repair_failed_campaign_cases.py and its sbatch script), *)
(* and the rebuild of the derived shard reports                            *)
(* (rebuild_round_shard_summaries.py).                                     *)
(*                                                                         *)
(* Each is a job of several tasks, run one job at a time and resubmitted,  *)
(* perhaps with another number of tasks, until its parts are all there.  A *)
(* kill ends every task where it is; files are replaced by renaming, so a  *)
(* kill leaves each as it was or as it is to be.                           *)
(***************************************************************************)
EXTENDS Integers, Sequences, FiniteSets, SequencesExt

CONSTANTS
  N,            \* source files, in the order of the source list: 0 .. N - 1
  Original,     \* Original[f]: the rows of samples.jsonl of source f
  FirstReport,  \* FirstReport[f]: the execution report of its last session
  Dealt,        \* Dealt[f]: the candidates its shard was dealt
  Disabled,     \* candidates of cases the execution policy disables
  K,            \* shards of the repair campaign: 0 .. K - 1
  TaskCounts,   \* numbers of tasks a job may be submitted with
  Verdicts(_, _), \* Verdicts(select, key): how the retry of a row may end
  MaxKills      \* bound: jobs killed and index tasks failed

Sources == 0 .. N - 1
Shards == 0 .. K - 1
MaxTasks == CHOOSE n \in TaskCounts : \A m \in TaskCounts : m <= n
Parts == 0 .. MaxTasks - 1

(* Rows.  A row that is not JSON has candidate 0.  unit is 1 when the        *)
(* objective is in the per-unit costs, 0 in the legacy ones, 2 in neither;   *)
(* marked says the row has its cost_convention; before is the success of the *)
(* row a repaired row replaced (its repair_provenance), "none" for others.    *)
Row == [cand : Nat, run : STRING, ok : BOOLEAN, quad : BOOLEAN, marked : BOOLEAN,
        unit : 0 .. 2, before : {"none", "failed", "solved"}]
Torn == [cand |-> 0, run |-> "none", ok |-> FALSE, quad |-> FALSE,
         marked |-> FALSE, unit |-> 0, before |-> "none"]
Valid(row) == row.cand # 0
Key(f, row) == <<f, row.cand, row.run>>
Keys == UNION {{Key(f, Original[f][i]) : i \in 1 .. Len(Original[f])} : f \in Sources}
Fixed(row) == row.before # "none"
Outcome(row) == [ok |-> row.ok, marked |-> row.marked, unit |-> row.unit]
Sampled(rows) == {rows[i].cand : i \in {i \in 1 .. Len(rows) : Valid(rows[i])}}

(* A report has the outcome of each row it knows of, by candidate and run.    *)
Entry == [ok : BOOLEAN, marked : BOOLEAN, unit : 0 .. 2]
IsReport(r) ==
  /\ r = [solved |-> [k \in DOMAIN r.solved |-> r.solved[k]], failed |-> r.failed,
          skipped |-> r.skipped, unsampled |-> r.unsampled]
  /\ \A k \in DOMAIN r.solved : k \in Nat \X STRING /\ r.solved[k] \in Entry

ASSUME RepairBounds == /\ N \in Nat /\ K \in Nat \ {0} /\ MaxKills \in Nat
                       /\ TaskCounts \subseteq Nat \ {0}
                       /\ \E n \in TaskCounts : \A m \in TaskCounts : m <= n
\* A shard samples and reports candidates it was dealt; what was stored with its
\* cost convention is in those costs.
ASSUME StoredAssumption ==
  /\ Original \in [Sources -> Seq(Row)] /\ DOMAIN FirstReport = Sources
  /\ FirstReport = [f \in Sources |-> FirstReport[f]]
  /\ \A f \in Sources :
       /\ IsReport(FirstReport[f])
       /\ Dealt[f] \subseteq Nat /\ IsFiniteSet(Dealt[f])
       /\ Sampled(Original[f]) \cup FirstReport[f].failed \subseteq Dealt[f]
       /\ \A i \in 1 .. Len(Original[f]) :
            LET row == Original[f][i] IN ~Fixed(row) /\ (row.marked /\ row.ok => row.unit = 1)
\* "unmarked": solved by code from before the cost convention.
ASSUME VerdictsAreKnown ==
  \A mode \in {"failed", "legacy-quadratic"}, key \in Keys :
    Verdicts(mode, key) \subseteq {"solved", "unmarked", "infeasible", "error"}

VARIABLES
  select,      \* what the campaign repairs: "failed" or "legacy-quadratic"
  samples,     \* samples[f]: the rows of samples.jsonl
  reports,     \* reports[f]: its execution report
  rescaled,    \* backfill parts with a manifest
  prepared,    \* prepared[p]: task count of the part p that was prepared, or 0
  candidates,  \* failed_candidates.jsonl: keys of rows, <<>> if there is none
  dealt,       \* candidates written to the shard files, or -1 if there are no files
  lost,        \* positions of dealt candidates that are not in the files
  broken,      \* shards whose file ends in a part of a line
  retries,     \* retries[s]: the retry rows of shard s
  done,        \* shards with a done marker
  index,       \* index[p]: task count and rows of merge_index/part_p, or count 0
  applied,     \* applied[p]: task count of merge_parts/part_p, or 0
  merged,      \* merge_manifest.json says complete
  progress,    \* progress[p]: sources in the progress file of rebuild part p
  summed,      \* summed[p]: task count of rebuild part p, or 0
  rebuilt,     \* task count of a complete rebuild_manifest.json, or 0
  job,         \* the running job: its kind, its tasks, its phase
  at,          \* at[p]: the source task p is at, the step in it, the rows it collected
  tried,       \* positions in candidates that the running job has retried
  kills        \* jobs killed and index tasks failed so far

stored == <<samples, reports>>
split == <<dealt, lost, broken>>
plan == <<prepared, candidates, split>>
solve == <<retries, done>>
merge == <<index, applied, merged>>
rebuild == <<progress, summed, rebuilt>>
control == <<job, at, tried>>
repairVars == <<select, stored, rescaled, plan, solve, merge, rebuild, control, kills>>

NoJob == [kind |-> "none", n |-> 0, pc |-> "idle"]
TaskStart == [source |-> 0, step |-> "open", rows |-> {}]
Tasks == 0 .. job.n - 1
Running(kind, pc) == job.kind = kind /\ job.pc = pc
Goto(pc) == job' = [job EXCEPT !.pc = pc] /\ at' = [p \in Parts |-> TaskStart] /\ tried' = {}
End == job' = NoJob /\ at' = [p \in Parts |-> TaskStart] /\ tried' = {}

RepairInit ==
  /\ select \in {"failed", "legacy-quadratic"}
  /\ samples = Original /\ reports = FirstReport
  /\ rescaled = {}
  /\ prepared = [p \in Parts |-> 0] /\ candidates = <<>>
  /\ dealt = -1 /\ lost = {} /\ broken = {}
  /\ retries = [s \in Shards |-> <<>>] /\ done = {} /\ tried = {}
  /\ index = [p \in Parts |-> [n |-> 0, rows |-> {}]]
  /\ applied = [p \in Parts |-> 0] /\ merged = FALSE
  /\ progress = [p \in Parts |-> {}]
  /\ summed = [p \in Parts |-> 0] /\ rebuilt = 0
  /\ job = NoJob /\ at = [p \in Parts |-> TaskStart] /\ kills = 0

-----------------------------------------------------------------------------
Selected(row) == /\ Valid(row)
                 /\ IF select = "failed" THEN ~row.ok ELSE row.quad /\ ~row.marked

\* The rows of part p of n when the sources are cut into contiguous parts.
Slice(n, p) == {f \in Sources : (N * p) \div n <= f /\ f < (N * (p + 1)) \div n}

\* The rows at positions S by their ids, and the last of those with the ids k.
IdsAt(rows, S) == {<<rows[i].cand, rows[i].run>> : i \in S}
LastWith(rows, S, k) ==
  CHOOSE i \in S : /\ <<rows[i].cand, rows[i].run>> = k
                   /\ \A j \in S : <<rows[j].cand, rows[j].run>> = k => j <= i

-----------------------------------------------------------------------------
(* Jobs *)
\* What a job finds when it starts decides where it starts.
FirstPhase(kind) ==
  IF kind # "repair" THEN "files"
  ELSE IF candidates = <<>> THEN "prepare" ELSE IF dealt = -1 THEN "deal" ELSE "solve"

\* The backfill comes first, the repair "after the linear backfill so the two
\* never overlap"; the rebuild finds the merge of the quadratic rows complete.
Submit(kind, n) ==
  /\ job = NoJob
  /\ CASE kind = "backfill" -> /\ candidates = <<>> /\ prepared = [p \in Parts |-> 0]
                               /\ ~ 0 .. n - 1 \subseteq rescaled
       [] kind = "rebuild" -> merged /\ select = "legacy-quadratic" /\ rebuilt = 0
       [] OTHER -> dealt # 0
  /\ job' = [kind |-> kind, n |-> n, pc |-> FirstPhase(kind)]
  /\ UNCHANGED <<select, stored, rescaled, plan, solve, merge, rebuild, at, tried, kills>>

\* What is left of a split that is killed: each shard file is written through a buffer
\* of its own, so it has the lines up to some position, and perhaps part of the next.
CutSplit ==
  \E upTo \in [Shards -> 0 .. Len(candidates)] :
    /\ lost' = {k \in 1 .. dealt : k > upTo[(k - 1) % K]}
    /\ broken' \in SUBSET {(k - 1) % K : k \in lost'}

KillJob == /\ job # NoJob /\ kills < MaxKills
           /\ kills' = kills + 1 /\ End
           /\ IF Running("repair", "deal") THEN CutSplit ELSE UNCHANGED <<lost, broken>>
           /\ UNCHANGED <<select, stored, rescaled, prepared, candidates, dealt, solve, merge,
                          rebuild>>

\* Task p's next source among those of S not yet passed.
Ahead(p, S) == {f \in S : f >= at[p].source}
Next1(p, S) == Min(Ahead(p, S))
Pass(p, f) == at' = [at EXCEPT ![p] = [source |-> f + 1, step |-> "open", rows |-> {}]]

-----------------------------------------------------------------------------
(* The backfill *)

\* classify, rescale_linear and mark_already_v2; a row that did not converge
\* has no dispatch to verify its objective with.
Rescaled(row) ==
  CASE ~Valid(row) \/ row.marked -> row
    [] row.quad -> IF row.ok /\ row.unit = 1 THEN [row EXCEPT !.marked = TRUE] ELSE row
    [] ~row.quad /\ row.ok -> IF row.unit = 2 THEN row ELSE [row EXCEPT !.marked = TRUE, !.unit = 1]
    [] OTHER -> [row EXCEPT !.marked = TRUE]

NewRows(f) == [i \in 1 .. Len(samples[f]) |-> Rescaled(samples[f][i])]

\* _update_report: objective and cost convention, not the status.
Rescored(r, rows, S) ==
  LET old == r.solved IN
  [r EXCEPT !.solved = [k \in DOMAIN old |->
     IF k \in IdsAt(rows, S)
     THEN [ok |-> old[k].ok, marked |-> TRUE, unit |-> rows[LastWith(rows, S, k)].unit]
     ELSE old[k]]]

\* process_file: the samples first, then the report.
RescaleFile(p) ==
  /\ Running("backfill", "files") /\ p \in Tasks /\ p \notin rescaled
  /\ Ahead(p, Slice(job.n, p)) # {}
  /\ LET f == Next1(p, Slice(job.n, p))
         changed == {i \in 1 .. Len(samples[f]) : NewRows(f)[i] # samples[f][i]}
     IN \/ /\ at[p].step = "open" /\ changed = {} /\ Pass(p, f)
           /\ UNCHANGED stored
        \/ /\ at[p].step = "open" /\ changed # {}
           /\ samples' = [samples EXCEPT ![f] = NewRows(f)]
           /\ at' = [at EXCEPT ![p] = [source |-> f, step |-> "swapped", rows |-> changed]]
           /\ UNCHANGED reports
        \/ /\ at[p].step = "swapped" /\ Pass(p, f)
           /\ reports' = [reports EXCEPT ![f] =
                            Rescored(@, samples[f], at[p].rows)]
           /\ UNCHANGED samples
  /\ UNCHANGED <<select, rescaled, plan, solve, merge, rebuild, job, tried, kills>>

\* The manifest that later jobs skip the part for.
RescaledPart(p) ==
  /\ Running("backfill", "files") /\ p \in Tasks /\ p \notin rescaled
  /\ Ahead(p, Slice(job.n, p)) = {}
  /\ rescaled' = rescaled \cup {p}
  /\ UNCHANGED <<select, stored, plan, solve, merge, rebuild, control, kills>>

EndBackfill == /\ Running("backfill", "files") /\ Tasks \subseteq rescaled
               /\ End
               /\ UNCHANGED <<select, stored, rescaled, plan, solve, merge, rebuild, kills>>

-----------------------------------------------------------------------------
(* Repair: prepare *)
SelectedKeys(f) == FlattenSeq([i \in 1 .. Len(samples[f]) |->
  IF Selected(samples[f][i]) THEN <<Key(f, samples[f][i])>> ELSE <<>>])

\* The candidates of the sources from first to last - 1.
Extracted(first, last) == FlattenSeq([i \in 1 .. last - first |-> SelectedKeys(first + i - 1)])

PreparePart(p) == /\ Running("repair", "prepare") /\ p \in Tasks /\ prepared[p] = 0
                  /\ prepared' = [prepared EXCEPT ![p] = job.n]
                  /\ UNCHANGED <<select, stored, rescaled, candidates, split, solve, merge, rebuild,
                                 control, kills>>

\* The parts are of this submission, contiguous, and reach the last source.
PartsFit(n) == \A p \in 0 .. n - 1 : prepared[p] = n

FinalizePrepare ==
  /\ Running("repair", "prepare") /\ \A p \in Tasks : prepared[p] # 0
  /\ IF PartsFit(job.n)
     THEN /\ candidates' = FlattenSeq([i \in 1 .. job.n |->
               LET n == prepared[i - 1]
               IN Extracted((N * (i - 1)) \div n, (N * i) \div n)])
          /\ Goto("deal")
     ELSE /\ End /\ UNCHANGED candidates
  /\ UNCHANGED <<select, stored, rescaled, prepared, split, solve, merge, rebuild, kills>>

\* shard_selected_candidates.py --stream: a killed split is never done again,
\* since later jobs find shard files.
Deal == /\ Running("repair", "deal")
        /\ IF dealt < Len(candidates)
           THEN dealt' = dealt + 1 /\ UNCHANGED control
           ELSE Goto("solve") /\ UNCHANGED dealt
        /\ UNCHANGED <<select, stored, rescaled, prepared, candidates, lost, broken, solve,
                       merge, rebuild, kills>>

-----------------------------------------------------------------------------
(* Repair: the retries; ShardRunner has what happens inside a session *)
Positions(s) == {k \in (1 .. dealt) \ lost : (k - 1) % K = s}
\* find -size +0: the shards that have something in their file.
FilledShards == {s \in Shards : Positions(s) # {}} \cup broken

\* The rows a session of the running job found in the shard's file.
Found(s) == 1 .. Len(retries[s]) - Cardinality(tried \cap Positions(s))

\* Not sampled before the session, or only with a status that --resume retries.
Pending(s) ==
  {k \in Positions(s) \ tried :
     \A i \in Found(s) : retries[s][i].key = candidates[k] => retries[s][i].verdict = "error"}

\* Task s mod n runs its shards in order.
Turn(s) == /\ Running("repair", "solve") /\ s \in FilledShards \ done
           /\ \A r \in FilledShards : r < s /\ r % job.n = s % job.n => r \in done

Retry(s, k, verdict) ==
  /\ retries' = [retries EXCEPT ![s] = Append(@, [key |-> candidates[k], verdict |-> verdict])]
  /\ tried' = tried \cup {k}
  /\ UNCHANGED <<select, stored, rescaled, plan, done, merge, rebuild, job, at, kills>>

MarkDone(s) == /\ Pending(s) = {}
               /\ done' = done \cup {s}
               /\ UNCHANGED <<select, stored, rescaled, plan, retries, merge, rebuild,
                              control, kills>>

\* _read_jsonl raises on the line that was cut, in every session of the shard: its task
\* ends there, and when the others have ended the job fails before the merge.
Unreadable == /\ \E s \in Shards : Turn(s)
              /\ \A s \in Shards : Turn(s) => s \in broken
              /\ End
              /\ UNCHANGED <<select, stored, rescaled, plan, solve, merge, rebuild, kills>>

\* The candidates in the order of the shard file.
Session(s) ==
  /\ Turn(s) /\ s \notin broken
  /\ \/ MarkDone(s)
     \/ \E k \in Pending(s) :
          /\ \A j \in Pending(s) : k <= j
          /\ \E v \in Verdicts(select, candidates[k]) : Retry(s, k, v)

\* Variant with a bug: shards without candidates are waited for.
Mergeable_All == Running("repair", "solve") /\ Shards \subseteq done

\* No shard is unfinished: missing_done = 0.
Mergeable == Running("repair", "solve") /\ FilledShards \subseteq done

BeginMerge == /\ Mergeable
              /\ IF FilledShards = {} THEN End ELSE Goto("index")
              /\ UNCHANGED <<select, stored, rescaled, plan, solve, merge, rebuild, kills>>

-----------------------------------------------------------------------------
(* Repair: the merge *)
Converged(verdict) == verdict \in {"solved", "unmarked"}
Counts(row) == select = "legacy-quadratic" \/ Converged(row.verdict)
Pointers == UNION {{<<s, i>> : i \in 1 .. Len(retries[s])} : s \in Shards}

\* build_merge_index: rows of the retry files p, p + n, ..., by their offsets.
IndexedRows(n, p) == {e \in Pointers : e[1] % n = p /\ Counts(retries[e[1]][e[2]])}

\* A part that has its manifest is left as it is, whatever its task count.
IndexPart(p) ==
  /\ Running("repair", "index") /\ p \in Tasks /\ index[p].n = 0 /\ at[p].step = "open"
  /\ index' = [index EXCEPT ![p] = [n |-> job.n, rows |-> IndexedRows(job.n, p)]]
  /\ UNCHANGED <<select, stored, rescaled, plan, solve, applied, merged, rebuild, control, kills>>

\* "some merge-index parts failed": the job goes on to the merge.
FailIndex(p) ==
  /\ Running("repair", "index") /\ p \in Tasks /\ index[p].n = 0 /\ at[p].step = "open"
  /\ kills < MaxKills /\ kills' = kills + 1
  /\ at' = [at EXCEPT ![p].step = "failed"]
  /\ UNCHANGED <<select, stored, rescaled, plan, solve, merge, rebuild, job, tried>>

BeginApply == /\ Running("repair", "index")
              /\ \A p \in Tasks : index[p].n # 0 \/ at[p].step = "failed"
              /\ Goto("apply")
              /\ UNCHANGED <<select, stored, rescaled, plan, solve, merge, rebuild, kills>>

\* _index_parts: the first part says how many there are.
IndexWhole == index[0].n # 0 /\ \A p \in 0 .. index[0].n - 1 : index[p].n # 0
Entries == UNION {index[p].rows : p \in 0 .. index[0].n - 1}
KeyAt(e) == retries[e[1]][e[2]].key

RetriesWith(key) == {e \in Entries : KeyAt(e) = key}

\* Variant with a bug: the first retry of a row is taken.
Latest_First(key) ==
  LET first == CHOOSE e \in RetriesWith(key) : \A d \in RetriesWith(key) : e[2] <= d[2]
  IN retries[first[1]][first[2]].verdict

\* The merge reads part by part, in a part file by file, in a file row by row.
Place(e) == <<Max({p \in 0 .. index[0].n - 1 : e \in index[p].rows}), e[1], e[2]>>
Precedes(d, e) == \/ d[1] < e[1]
                  \/ d[1] = e[1] /\ d[2] < e[2]
                  \/ d[1] = e[1] /\ d[2] = e[2] /\ d[3] < e[3]
LastPlace(P) == CHOOSE e \in P : \A d \in P : ~Precedes(e, d)

\* The last retry of a row wins.
Latest(key) == LET last == LastPlace({Place(e) : e \in RetriesWith(key)})
               IN retries[last[2]][last[3]].verdict

RetriesOf(f) == {key \in {KeyAt(e) : e \in Entries} : key[1] = f}
\* The sources with retries whose hash is in the bucket of task p.
Bucket(p) == {f \in Sources : f % job.n = p /\ RetriesOf(f) # {}}

\* Variant with a bug: a row with a retry is replaced whatever it is by now.
Replaced_Again(f) == {i \in 1 .. Len(samples[f]) : Key(f, samples[f][i]) \in RetriesOf(f)}

\* The rows that will be replaced: with a retry, and still selected.
Replaced(f) == {i \in 1 .. Len(samples[f]) :
                  Selected(samples[f][i]) /\ Key(f, samples[f][i]) \in RetriesOf(f)}

\* The retry under the row's own ids, with the marker a failed retry lacks.
Replacement(row, verdict) ==
  [row EXCEPT !.ok = Converged(verdict), !.marked = verdict # "unmarked",
              !.unit = IF verdict = "unmarked" THEN 0 ELSE 1,
              !.before = IF row.ok THEN "solved" ELSE "failed"]

MergedRows(f) ==
  [i \in 1 .. Len(samples[f]) |->
     IF i \in Replaced(f) THEN Replacement(samples[f][i], Latest(Key(f, samples[f][i])))
     ELSE samples[f][i]]

\* _update_report: the outcome of the new rows at S, and the cost convention if
\* the retry has one.
Refreshed(r, rows, new, S) ==
  LET old == r.solved
      NewRow(k) == new[LastWith(rows, S, k)]
  IN [r EXCEPT !.solved = [k \in DOMAIN old |->
        IF k \in IdsAt(rows, S)
        THEN [ok |-> NewRow(k).ok, marked |-> NewRow(k).marked \/ old[k].marked, unit |-> NewRow(k).unit]
        ELSE old[k]]]

\* The exceptions of _apply_retries, raised with nothing written.
Mismatch(f) == Replaced(f) # {} /\ {Key(f, samples[f][i]) : i \in Replaced(f)} # RetriesOf(f)
OldCode(f) == /\ select = "legacy-quadratic"
              /\ \E i \in Replaced(f) : Latest(Key(f, samples[f][i])) = "unmarked"

Applying(p) == Running("repair", "apply") /\ p \in Tasks /\ applied[p] # job.n /\ at[p].step # "failed"

\* Variant with a bug: the samples are swapped before the report is updated.
ApplyTo_SwapFirst(p, f) ==
  \/ /\ at[p].step = "open" /\ Replaced(f) = {} /\ Pass(p, f) /\ UNCHANGED stored
  \/ /\ at[p].step = "open" /\ Replaced(f) # {} /\ ~Mismatch(f) /\ ~OldCode(f)
     /\ samples' = [samples EXCEPT ![f] = MergedRows(f)]
     /\ at' = [at EXCEPT ![p] = [source |-> f, step |-> "reported", rows |-> {}]]
     /\ UNCHANGED reports
  \/ /\ at[p].step = "reported" /\ Pass(p, f)
     /\ reports' = [reports EXCEPT ![f] = Refreshed(@, samples[f], samples[f],
                                                    {i \in 1 .. Len(samples[f]) : Fixed(samples[f][i])})]
     /\ UNCHANGED samples

\* _apply_retries: "report first: if killed before the swap, a rerun redoes both".
ApplyTo(p, f) ==
  \/ /\ at[p].step = "open" /\ Replaced(f) = {} /\ Pass(p, f) /\ UNCHANGED stored
  \/ /\ at[p].step = "open" /\ Replaced(f) # {} /\ ~Mismatch(f) /\ ~OldCode(f)
     /\ reports' = [reports EXCEPT ![f] = Refreshed(@, samples[f], MergedRows(f), Replaced(f))]
     /\ at' = [at EXCEPT ![p] = [source |-> f, step |-> "reported", rows |-> {}]]
     /\ UNCHANGED samples
  \/ /\ at[p].step = "reported" /\ Pass(p, f)
     /\ samples' = [samples EXCEPT ![f] = MergedRows(f)]
     /\ UNCHANGED reports

ApplySource(p) ==
  /\ Applying(p) /\ IndexWhole /\ Ahead(p, Bucket(p)) # {}
  /\ ApplyTo(p, Next1(p, Bucket(p)))
  /\ UNCHANGED <<select, rescaled, plan, solve, merge, rebuild, job, tried, kills>>

AppliedPart(p) ==
  /\ Applying(p) /\ IndexWhole /\ Ahead(p, Bucket(p)) = {}
  /\ applied' = [applied EXCEPT ![p] = job.n]
  /\ UNCHANGED <<select, stored, rescaled, plan, solve, index, merged, rebuild, control, kills>>

\* The index has a part missing, or a source raises: the task ends there.
FailPart(p) ==
  /\ Applying(p)
  /\ ~IndexWhole \/ (Ahead(p, Bucket(p)) # {} /\ at[p].step = "open" /\
                     LET f == Next1(p, Bucket(p)) IN Mismatch(f) \/ OldCode(f))
  /\ at' = [at EXCEPT ![p].step = "failed"]
  /\ UNCHANGED <<select, stored, rescaled, plan, solve, merge, rebuild, job, tried, kills>>

\* merge-finalize: the manifest only when every part is applied.
MergeFinalize ==
  /\ Running("repair", "apply") /\ \A p \in Tasks : ~Applying(p)
  /\ merged' = (merged \/ \A p \in Tasks : applied[p] = job.n)
  /\ End
  /\ UNCHANGED <<select, stored, rescaled, plan, solve, index, applied, rebuild, kills>>

-----------------------------------------------------------------------------
(* Rebuild *)

\* The last row of candidate c.
EntryOf(rows, c) ==
  CHOOSE i \in 1 .. Len(rows) : rows[i].cand = c /\ \A j \in i + 1 .. Len(rows) : rows[j].cand # c

Summary(f) ==
  LET rows == samples[f]
      solved == Sampled(rows)
      kept == {EntryOf(rows, c) : c \in solved}
      failed == reports[f].failed \ solved
      skipped == (Dealt[f] \ (solved \cup failed)) \cap Disabled
      left == Cardinality(Dealt[f]) - Cardinality(solved) - Cardinality(failed) - Cardinality(skipped)
  IN [solved |-> [k \in IdsAt(rows, kept) |-> Outcome(rows[LastWith(rows, kept, k)])],
      failed |-> failed, skipped |-> Cardinality(skipped),
      unsampled |-> IF left > 0 THEN left ELSE 0]

\* The sources p, p + n, ... that the part's progress file does not name.
Unsummed(p) == {f \in Sources : f % job.n = p} \ progress[p]

RebuildShard(p) ==
  /\ Running("rebuild", "files") /\ p \in Tasks /\ summed[p] = 0 /\ Unsummed(p) # {}
  /\ LET f == Min(Unsummed(p))
     IN \/ /\ at[p].step = "open"
           /\ reports' = [reports EXCEPT ![f] = Summary(f)]
           /\ at' = [at EXCEPT ![p].step = "reported"] /\ UNCHANGED progress
        \/ /\ at[p].step = "reported"
           /\ progress' = [progress EXCEPT ![p] = @ \cup {f}]
           /\ at' = [at EXCEPT ![p].step = "open"] /\ UNCHANGED reports
  /\ UNCHANGED <<select, samples, rescaled, plan, solve, merge, summed, rebuilt, job, tried, kills>>

RebuiltPart(p) ==
  /\ Running("rebuild", "files") /\ p \in Tasks /\ summed[p] = 0 /\ Unsummed(p) = {}
  /\ summed' = [summed EXCEPT ![p] = job.n]
  /\ UNCHANGED <<select, stored, rescaled, plan, solve, merge, progress, rebuilt, control, kills>>

\* Rows with a solution and without the cost convention.
LegacyRows(f) == {i \in 1 .. Len(samples[f]) :
                    LET row == samples[f][i] IN Valid(row) /\ row.ok /\ ~row.marked}

\* The counts of the parts' manifests show no legacy row.
RebuildComplete == \A p \in Tasks : \A f \in progress[p] : LegacyRows(f) = {}

RebuildFinalize ==
  /\ Running("rebuild", "files") /\ \A p \in Tasks : summed[p] # 0
  /\ rebuilt' = (IF RebuildComplete THEN job.n ELSE 0) /\ End
  /\ UNCHANGED <<select, stored, rescaled, plan, solve, merge, progress, summed, kills>>

-----------------------------------------------------------------------------
Task(p) ==
  \/ RescaleFile(p) \/ RescaledPart(p)
  \/ PreparePart(p)
  \/ IndexPart(p) \/ ApplySource(p) \/ AppliedPart(p) \/ FailPart(p)
  \/ RebuildShard(p) \/ RebuiltPart(p)

Work ==
  \/ \E p \in Parts : Task(p)
  \/ EndBackfill \/ FinalizePrepare \/ Deal
  \/ \E s \in Shards : Session(s)
  \/ Unreadable
  \/ BeginMerge \/ BeginApply \/ MergeFinalize
  \/ RebuildFinalize

RepairNext ==
  \/ Work \/ KillJob
  \/ \E p \in Parts : FailIndex(p)
  \/ \E kind \in {"backfill", "repair", "rebuild"}, n \in TaskCounts : Submit(kind, n)

RepairSpec == RepairInit /\ [][RepairNext]_repairVars

\* A job's tasks run on until it ends or is killed, and the repair job is
\* submitted again ("resubmit until all shards are done"), with any number of
\* tasks again and again.
FairRepair == RepairSpec /\ WF_repairVars(Work) /\ \A n \in TaskCounts : SF_repairVars(Submit("repair", n))

-----------------------------------------------------------------------------
\* The parts that were taken together were made by jobs with one number of tasks.
IndexUniform == \A p \in 0 .. index[0].n - 1 : index[p].n = index[0].n
SummedUniform == rebuilt # 0 /\ \A p \in 0 .. rebuilt - 1 : summed[p] = rebuilt

\* Types: a source keeps one row per line it had, parts and shards are numbered.
RepairTypes ==
  /\ \A f \in Sources : \A i \in 1 .. Len(samples[f]) : samples[f][i] \in Row
  /\ \A p \in Parts : {prepared[p], applied[p], index[p].n, summed[p]} \subseteq {0} \cup TaskCounts
  /\ dealt \in -1 .. Len(candidates) /\ lost \subseteq 1 .. dealt
  /\ broken \subseteq Shards /\ done \subseteq Shards
  /\ \A p \in Parts : progress[p] \subseteq Sources
  /\ job.n \in {0} \cup TaskCounts /\ kills \in 0 .. MaxKills

\* Whatever was killed and with however many tasks each part was prepared, the
\* list of candidates is every selected row once, in the order of the sources.
CandidatesComplete ==
  Running("repair", "deal") => candidates = Extracted(0, N)

\* The merge never finds that a source has taken some of the retries its index has
\* for it and could not take the others any more ("matched 1 of 2 converged retries"),
\* however often it was killed.  (An index of parts of different task counts may miss
\* retries: the source is then merged without them, and nothing raises.)
NeverMixed == \A f \in Sources : IndexWhole => ~Mismatch(f)

\* A complete merge over an index of one task count: each row still has its
\* place and its ids, none that was retried still waits for its repair, and a
\* repaired row has the last of its retries that count, files taken in the
\* order of the parts.  (merge-index leaves a part of another task count as it
\* is: nothing is said of an index made of such parts.)
MergedExactly ==
  merged /\ IndexUniform =>
    \A f \in Sources :
      /\ Len(samples[f]) = Len(Original[f])
      /\ \A i \in 1 .. Len(samples[f]) :
           LET row == samples[f][i]
               n == index[0].n
               E == {e \in Pointers : /\ retries[e[1]][e[2]].key = Key(f, row)
                                      /\ Counts(retries[e[1]][e[2]])}
               Newest == {e \in E : \A d \in E :
                          \/ d[1] = e[1] /\ d[2] <= e[2]
                          \/ d[1] # e[1] /\ (d[1] % n < e[1] % n \/ (d[1] % n = e[1] % n /\ d[1] < e[1]))}
           IN /\ row.cand = Original[f][i].cand /\ row.run = Original[f][i].run
              /\ E # {} => ~Selected(row)
              /\ Fixed(row) => \E e \in Newest : row.ok = Converged(retries[e[1]][e[2]].verdict)

\* Rows are selected, dealt and merged once each: see the parts.
RowsSound == RepairTypes /\ CandidatesComplete /\ NeverMixed /\ MergedExactly

Agrees(entry, row) == /\ entry.ok = row.ok /\ entry.unit = row.unit
                      /\ row.marked => entry.marked

\* The report never lags behind a repaired row: once the samples are swapped
\* the row is not selected any more and nothing would refresh its report.  (A
\* candidate sampled again has the same run id; a rebuilt report has its last
\* row instead.)
NotBehind(rows, solved) ==
  \A i \in 1 .. Len(rows) :
    LET k == <<rows[i].cand, rows[i].run>>
    IN Fixed(rows[i]) /\ k \in DOMAIN solved =>
         \E j \in i .. Len(rows) : k = <<rows[j].cand, rows[j].run>> /\ Agrees(solved[k], rows[j])
ReportNotBehind == \A f \in Sources : NotBehind(samples[f], reports[f].solved)

\* A marked row is never in the wrong costs, however often the backfill runs.
ScaledOnce ==
  \A f \in Sources : \A i \in 1 .. Len(samples[f]) :
    samples[f][i].marked /\ samples[f][i].ok => samples[f][i].unit = 1

\* A complete rebuild, its parts of one task count, leaves no converged
\* row without its cost convention, although the backfill may have been
\* forgotten, cut short or given up on a row.
NoLegacyLeft == SummedUniform => \A f \in Sources : LegacyRows(f) = {}

\* A complete rebuild, its parts of one task count, repairs every report, also
\* the ones a killed backfill left behind or a resumed session overwrote: each
\* sampled candidate once, with its last row, and the counts add up to the
\* candidates dealt.
Right(rows, r, cands) ==
  /\ {k[1] : k \in DOMAIN r.solved} = Sampled(rows)
  /\ Cardinality(DOMAIN r.solved) = Cardinality(Sampled(rows))
  /\ \A k \in DOMAIN r.solved : \E i \in 1 .. Len(rows) :
       /\ k = <<rows[i].cand, rows[i].run>> /\ r.solved[k] = Outcome(rows[i])
       /\ \A j \in i + 1 .. Len(rows) : rows[j].cand # rows[i].cand
  /\ Cardinality(cands) = Cardinality(Sampled(rows)) + Cardinality(r.failed)
                          + r.skipped + r.unsampled
ReportRight(f) == Right(samples[f], reports[f], Dealt[f])
ReportsRebuilt == SummedUniform => \A f \in Sources : ReportRight(f)

\* Reports and costs agree with the rows, through kills and reruns: see the parts.
ReportsSound == ReportNotBehind /\ ScaledOnce /\ NoLegacyLeft /\ ReportsRebuilt

\* A repaired row is final: no later job, resumed or resubmitted with another
\* number of tasks, replaces it again and loses what its provenance says of
\* the row that was there first.
RepairedOnce ==
  [][\A f \in Sources : \A i \in 1 .. Len(samples[f]) :
       Fixed(samples[f][i]) => samples'[f][i] = samples[f][i]]_repairVars

\* The repair is merged in the end, unless its split was cut to nothing or within a
\* line, the prepared parts fit no task count, or a retry ran the old code.
RepairEnds ==
  <>(\/ merged \/ broken # {} \/ (dealt # -1 /\ FilledShards = {} /\ job = NoJob)
     \/ \A n \in TaskCounts : \E p \in 0 .. n - 1 : prepared[p] \notin {0, n}
     \/ \E s \in Shards : \E i \in 1 .. Len(retries[s]) : retries[s][i].verdict = "unmarked")
=============================================================================
