---------------------------- MODULE SelectionData ----------------------------
(***************************************************************************)
(* The choice of what a campaign round runs: selection, screening, split,  *)
(* budgets and benchmark samples, called on small inputs.                  *)
(***************************************************************************)
EXTENDS Sharding, DataCall

CONSTANTS
  MaxCands,     \* candidates of a selection
  MaxScreened,  \* candidates of a screening
  MaxPool,      \* rows of a pool
  MaxDealt,     \* rows dealt to shards without a pool
  MaxTotal,     \* total budget of a campaign
  MaxLines,     \* lines of a candidate file
  MaxRecords    \* records of a case

\* Two candidates may share an id: the file holds one line twice.
Candidate(id, grid, score) ==
  [id |-> id, grid |-> grid, class |-> score, stratum |-> <<grid, score>>, draw |-> id,
   novelty |-> score, active |-> 1 - score, boundary |-> grid, credible |-> 1 - grid,
   severity |-> grid, unsure |-> score]

QueueNames == {"coverage", "active_set", "boundary", "credible_contingency",
               "severity_uncertainty", "audit"}

\* Six equal shares, or all for one queue and the audit.
Shares == {[q \in QueueNames |-> 1]} \cup
          {[q \in QueueNames |-> IF q \in {main, "audit"} THEN 3 ELSE 0] :
             main \in {"coverage", "severity_uncertainty", "audit"}}

Limits == {[grid |-> 0, class |-> 0], [grid |-> 1, class |-> 0], [grid |-> 3, class |-> 1]}

\* The file as it should be, with its first line once more at the end, or without
\* its last newline.
Files == {"plain", "repeated", "torn"}

CallSelect ==
  /\ Idle
  /\ \E grids, scores \in [1 .. MaxCands -> 0 .. 1], file \in Files, budget \in 0 .. MaxCands,
        share \in Shares, limits \in Limits :
       LET cands == [i \in 1 .. MaxCands |->
                       IF file = "repeated" /\ i = MaxCands THEN Candidate(1, grids[1], scores[1])
                       ELSE Candidate(i, grids[i], scores[i])]
       IN /\ grids[1] = 0
          /\ call' = [fn |-> "select", cands |-> cands, budget |-> budget, share |-> share,
                      limits |-> limits, file |-> file,
                      memory |-> SelectAC(cands, budget, share, 6, limits),
                      out |-> RoundSelection(cands, file # "torn", budget, share, 6, limits,
                                             0 .. 1)]

CallScreen ==
  /\ Idle
  /\ \E strata \in [1 .. MaxScreened -> 1 .. 2], wanted \in SUBSET (1 .. MaxScreened),
        step \in 1 .. 2, share \in 0 .. 2 :
       LET cands == [i \in 1 .. MaxScreened |->
                       [id |-> i, stratum |-> strata[i], draw |-> (i * step) % MaxScreened,
                        reasons |-> IF i \in wanted THEN {"high"} ELSE {}]]
       IN call' = [fn |-> "screen", cands |-> cands, share |-> share,
                   out |-> Screened(cands, share, 4)]

Modes == {"memory", "stream", "contiguous"}

\* What is selected is from the pool.
CallSplit ==
  /\ Idle
  /\ \E buckets \in [1 .. MaxPool -> {<<1, 1>>, <<1, 2>>, <<2, 2>>}],
        chosen \in SUBSET (1 .. MaxPool), least \in 1 .. 2, cap \in 0 .. 1,
        backfill, enforce \in BOOLEAN, mode \in Modes :
       LET pool == [i \in 1 .. MaxPool |->
                      [id |-> i, score |-> i % 2, a |-> buckets[i][1], b |-> buckets[i][2]]]
           rows == SelectSeq(pool, LAMBDA r : r.id \in chosen)
       IN /\ Cardinality(chosen) <= 2
          /\ ~backfill => cap = 0 /\ enforce
          /\ call' = [fn |-> "split", pool |-> pool, rows |-> rows, least |-> least, cap |-> cap,
                   backfill |-> backfill, enforce |-> enforce, mode |-> mode,
                   out |-> IF mode = "memory"
                           THEN SplitInMemory(rows, pool, {"a", "b"}, least, cap, backfill,
                                              enforce, 3)
                           ELSE SplitStreaming(rows, pool, {"a", "b"}, least, cap, backfill,
                                               enforce, 3, mode = "contiguous")]

CallDeal ==
  /\ Idle
  /\ \E n \in 0 .. MaxDealt, shards \in 1 .. MaxDealt :
       LET rows == [i \in 1 .. n |-> [id |-> i, score |-> 0, a |-> 1]]
       IN call' = [fn |-> "deal", rows |-> rows,
                   out |-> SplitStreaming(rows, <<>>, {"a"}, 1, 0, FALSE, FALSE, shards, TRUE)]

\* No metrics, reasons to stop, and a screening that is not reliable.
Metrics == {[known |-> cm[1], cluster |-> cm[2], active |-> 1, missed |-> cm[3],
             fewClusters |-> 1, fewActive |-> 1, tolerance |-> 1] :
              cm \in {<<FALSE, 1, 1>>, <<TRUE, 1, 1>>, <<TRUE, 1, 2>>}}

CallPlan ==
  /\ Idle
  /\ \E rounds \in 1 .. 3 : \E weights \in [1 .. rounds -> 1 .. 3], least \in 0 .. 1,
        total \in 0 .. MaxTotal, metrics \in [1 .. rounds -> Metrics] :
       /\ total >= least * rounds
       /\ LET budgets == RoundBudgets(total, weights, least)
          IN call' = [fn |-> "plan", weights |-> weights, least |-> least, total |-> total,
                      metrics |-> metrics, out |-> budgets, run |-> Executed(budgets, metrics)]

\* Line ids are the hashes; 0 stands for a line that does not parse.
CallBenchmark ==
  /\ Idle
  /\ \E lines \in [1 .. MaxLines -> 0 .. MaxLines], done \in SUBSET (1 .. MaxLines), room \in 1 .. 2 :
       LET read == [i \in 1 .. MaxLines |->
                      [id |-> lines[i], hash |-> lines[i], case |-> lines[i] \div 4,
                       parses |-> lines[i] > 0]]
       IN /\ \A i, j \in 1 .. MaxLines : lines[i] = lines[j] => i = j \/ lines[i] = 0
          /\ call' = [fn |-> "benchmark", lines |-> read, done |-> done, room |-> room,
                      out |-> SelectUnfinished(read, done, room)]

CallTier ==
  /\ Idle
  /\ \E status \in [1 .. MaxRecords -> {"ok", "timeout", "INVALID_MODEL"}], timed \in SUBSET (1 .. MaxRecords),
        slow \in SUBSET (1 .. MaxRecords), room \in {1, 3}, few \in {1, 4} :
       LET records == [i \in 1 .. MaxRecords |-> [status |-> status[i], timed |-> i \in timed, hash |-> i,
                                         wall |-> IF i \in slow THEN 121 ELSE 1]]
       IN call' = [fn |-> "tier", records |-> records, room |-> room,
                   out |-> Tier(records, room, few), back |-> Tier(Reverse(records), room, few)]

SelectionNext == \/ CallSelect \/ CallScreen \/ CallSplit \/ CallDeal \/ CallPlan
                 \/ CallBenchmark \/ CallTier

-----------------------------------------------------------------------------
Distinct(s) == Cardinality(Ids(s)) = Len(s)
With(s, field, value) == Cardinality({i \in DOMAIN s : s[i][field] = value})

\* A selection below the number of candidates spends its budget on distinct
\* candidates; the limits hold for all that the queues gave, and what fills up,
\* limits or not, is the most novel of the rest.
SelectionFills ==
  Calls("select") =>
    LET sel == call.memory
        queued == SelectSeq(sel, LAMBDA c : c.queue # "backfill")
    IN /\ Distinct(sel)
       /\ call.budget < Len(call.cands) => Len(sel) = Min({call.budget, Cardinality(Ids(call.cands))})
       /\ \A k \in DOMAIN call.limits, v \in 0 .. 1 :
            call.limits[k] = 0 \/ With(queued, k, v) <= call.limits[k]
       /\ \A i \in DOMAIN sel, c \in Range(call.cands) :
            sel[i].queue = "backfill" /\ c.id \notin Ids(sel) => c.novelty <= sel[i].novelty

\* Without limits, and when the rounded shares fit in the budget, each queue gets
\* its share whatever the queues before it took: the audit, which is last, is not
\* squeezed out.
QueuesGetTheirShare ==
  Calls("select") =>
    LET quota(q) == Rounded(call.budget * call.share[q], 6)
    IN /\ call.budget < Len(call.cands)
       /\ call.file # "repeated"
       /\ call.limits.grid = 0 /\ call.limits.class = 0
       /\ Sum([q \in QueueNames |-> quota(q)]) <= call.budget
       => \A q \in QueueNames : With(call.memory, "queue", q) = quota(q)

\* The streaming selection gives what the one in memory gives when no id is
\* repeated, and stays within the budget if the file ends with a newline.
StreamingAgrees ==
  Calls("select") =>
    /\ call.file = "plain" => call.out = call.memory
    /\ Len(call.out) <= call.budget + (IF call.file = "torn" THEN 1 ELSE 0)

\* Every candidate with a reason is run, once; of the rest, if any, some are
\* audited, and as evenly over the strata as their sizes allow.
ScreeningAudits ==
  Calls("screen") =>
    LET audited == {c \in Range(call.out) : c.reasons = {}}
        left == {c \in Range(call.cands) : c.reasons = {}} \ audited
        in(s, set) == Cardinality({c \in set : c.stratum = s})
    IN /\ Distinct(call.out)
       /\ \A c \in Range(call.cands) : c.reasons # {} => c \in Range(call.out)
       /\ left # {} => audited # {}
       /\ \A s, t \in 1 .. 2 : in(s, left) > 0 => in(t, audited) <= in(s, audited) + 1

Filed(out) == FlattenSeq([i \in 1 .. Cardinality(DOMAIN out.files) |-> out.files[i - 1]])

\* Every row that is input or added is in exactly one shard file, and the files
\* differ in size by at most one unless rows are added to contiguous ranges.
ShardsPartition ==
  Calls("split") \/ Calls("deal") =>
    LET size(s) == Len(call.out.files[s])
        files == DOMAIN call.out.files
    IN call.out.ok =>
         /\ Distinct(Filed(call.out))
         /\ Range(Filed(call.out)) = Range(call.out.rows)
         /\ Ids(call.rows) \subseteq Ids(call.out.rows)
         /\ Calls("deal") \/ call.mode # "contiguous" =>
              \A s, t \in files : size(s) <= size(t) + 1
         /\ Calls("deal") => \A s \in files : \A i \in DOMAIN call.out.files[s] :
              i > 1 => call.out.files[s][i].id = call.out.files[s][i - 1].id + 1

\* Backfilling without a cap covers every bucket that the pool can cover, in
\* memory and streaming alike; a cap is kept; every row added was needed.
CoverageMet ==
  Calls("split") =>
    LET universe == Universe(call.pool, {"a", "b"})
        added == SelectSeq(call.out.rows, LAMBDA r : r.id \notin Ids(call.rows))
        had == Missing(call.rows, universe, call.least)
    IN /\ call.backfill /\ call.cap = 0 =>
            call.out.missing = Missing(call.pool, universe, call.least)
       /\ call.cap > 0 => Len(added) <= call.cap
       /\ \A r \in Range(added) : Gain(r, had, {"a", "b"}) # {}
       /\ Cardinality(had) * call.least >= Len(added)
       /\ call.out.ok /\ call.enforce => call.out.missing = {}

\* The budgets add up to the total, no round is below its minimum, and a round of
\* more weight never gets less; a campaign that stops early has not overspent.
BudgetsAddUp ==
  Calls("plan") =>
    /\ Sum(call.out) = call.total
    /\ \A i, j \in DOMAIN call.out :
         /\ call.out[i] >= call.least
         /\ call.weights[i] > call.weights[j] => call.out[i] >= call.out[j]
         /\ call.weights[i] = call.weights[j] => call.out[i] - call.out[j] \in -1 .. 1
    /\ Len(call.run) < Len(call.out) => Stops(call.metrics[Len(call.run)])
    /\ \A i \in 1 .. Len(call.run) - 1 : ~Stops(call.metrics[i])

\* A benchmark takes, per case, the unfinished candidates with the smallest hashes,
\* in whatever order the file has them; the tier of a case does not depend on the
\* order of its records either.
OrderDoesNotMatter ==
  /\ Calls("benchmark") =>
       LET open == {l.id : l \in {m \in Range(call.lines) : m.parses}} \ call.done
           of(c) == {i \in open : i \div 4 = c}
       IN /\ DOMAIN call.out = {c \in 0 .. 1 : of(c) # {}}
          /\ \A c \in DOMAIN call.out :
               /\ Ids(call.out[c]) = {i \in of(c) : Cardinality({j \in of(c) : j < i}) < call.room}
               /\ Distinct(call.out[c])
               /\ \A i \in 2 .. Len(call.out[c]) : call.out[c][i - 1].id < call.out[c][i].id
  /\ Calls("tier") => call.out = call.back

\* The choice of a round's candidates and their way into its shards is right: see
\* the parts.
SelectionRight ==
  /\ SelectionFills /\ QueuesGetTheirShare /\ StreamingAgrees /\ ScreeningAudits
  /\ ShardsPartition /\ CoverageMet /\ BudgetsAddUp /\ OrderDoesNotMatter
=============================================================================
