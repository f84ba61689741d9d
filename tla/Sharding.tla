------------------------------ MODULE Sharding ------------------------------
(***************************************************************************)
(* How selected candidates are dealt to shards and topped up from the pool *)
(* so that every bucket is covered (campaigns/sharding.py and              *)
(* shard_selected_candidates.py), and which unfinished candidates a        *)
(* benchmark takes (benchmark_selection.py, partial_inventory.py).         *)
(*                                                                         *)
(* A row is [id, score] and one field per coverage key, its bucket there.  *)
(***************************************************************************)
EXTENDS Selection

\* The number of rows in a bucket, and the buckets that have too few of them.
InBucket(rows, k, b) == Cardinality({i \in DOMAIN rows : rows[i][k] = b})
Universe(rows, keys) == {<<k, rows[i][k]>> : k \in keys, i \in DOMAIN rows}
Missing(rows, universe, least) == {u \in universe : InBucket(rows, u[1], u[2]) < least}

\* The buckets a row would fill.
Gain(row, missing, keys) == {<<k, row[k]>> : k \in keys} \cap missing

(***************************************************************************)
(* backfill_coverage: the row that fills most buckets, then the best score *)
(* and the smallest id, is added until nothing is missing or can be added. *)
(* A cap of 0 is none.                                                     *)
(***************************************************************************)
AddBest(rows, pool, universe, keys, least) ==
  LET missing == Missing(rows, universe, least)
      fits == {i \in DOMAIN pool : pool[i].id \notin Ids(rows) /\ Gain(pool[i], missing, keys) # {}}
      fuller(i, j) ==
        LET gi == Cardinality(Gain(pool[i], missing, keys))
            gj == Cardinality(Gain(pool[j], missing, keys))
        IN \/ gi > gj
           \/ gi = gj /\ pool[i].score > pool[j].score
           \/ gi = gj /\ pool[i].score = pool[j].score /\ pool[i].id <= pool[j].id
  IN IF fits = {} THEN rows
     ELSE Append(rows, pool[CHOOSE i \in fits : \A j \in fits : fuller(i, j)])

BackfillCoverage(selected, pool, keys, least, cap) ==
  LET universe == Universe(IF pool = <<>> THEN selected ELSE pool, keys)
  IN FoldLeft(LAMBDA rows, n : IF cap > 0 /\ n > cap THEN rows
                               ELSE AddBest(rows, pool, universe, keys, least),
              selected, [n \in DOMAIN pool |-> n])

StillNeeded(needs, gain) ==
  [u \in {v \in DOMAIN needs : v \notin gain \/ needs[v] > 1} |->
     IF u \in gain THEN needs[u] - 1 ELSE needs[u]]

\* The same in one pass over the pool, in its order, with what is still needed.
StreamCoverage(selected, pool, keys, least, cap) ==
  LET missing == Missing(selected, Universe(pool, keys), least)
      full(s) == s.needs = <<>> \/ (cap > 0 /\ Len(s.rows) - Len(selected) >= cap)
  IN FoldLeft(LAMBDA s, r :
                LET gain == Gain(r, DOMAIN s.needs, keys)
                IN IF full(s) \/ r.id \in Ids(s.rows) \/ gain = {} THEN s
                   ELSE [rows |-> Append(s.rows, r), needs |-> StillNeeded(s.needs, gain)],
              [rows |-> selected,
               needs |-> [u \in missing |-> least - InBucket(selected, u[1], u[2])]],
              pool).rows

(***************************************************************************)
(* shard_selected_candidates: shards are numbered from 0.                  *)
(***************************************************************************)

ContiguousShard(idx, n, shards) == Min({shards - 1, (idx * shards) \div n})

\* Rows by shard: rows[i] goes where shardOf[i - 1] says.
Dealt(rows, shards, shardOf) ==
  [s \in 0 .. shards - 1 |->
     LET mine == SelectSeq([i \in DOMAIN rows |-> i], LAMBDA i : shardOf[i - 1] = s)
     IN [j \in DOMAIN mine |-> rows[mine[j]]]]

ById(rows) == Descending(rows, [i \in DOMAIN rows |-> - rows[i].id])

\* main: fill up, check the coverage, and only then sort, deal and write.
SplitInMemory(rows, pool, keys, least, cap, backfill, enforce, shards) ==
  LET full == IF backfill THEN BackfillCoverage(rows, pool, keys, least, cap) ELSE rows
      missing == Missing(full, Universe(IF pool = <<>> THEN rows ELSE pool, keys), least)
      bad == (backfill /\ pool = <<>>) \/ (enforce /\ missing # {})
  IN [ok |-> ~bad, missing |-> missing, rows |-> full,
      files |-> IF bad THEN <<>>
                ELSE Dealt(ById(full), shards, [i \in 0 .. Len(full) |-> i % shards])]

\* run_stream: deal while reading, append what is added, check the coverage last.
\* Contiguous ranges are those of the input, what is added goes round in turn.
SplitStreaming(rows, pool, keys, least, cap, backfill, enforce, shards, contiguous) ==
  LET full == IF backfill THEN StreamCoverage(rows, pool, keys, least, cap) ELSE rows
      missing == Missing(full, Universe(IF pool = <<>> THEN rows ELSE pool, keys), least)
  IN [ok |-> ~(enforce /\ missing # {}), missing |-> missing, rows |-> full,
      files |-> Dealt(full, shards,
                      [i \in 0 .. Len(full) |->
                         IF contiguous /\ i < Len(rows)
                         THEN ContiguousShard(i, Len(rows), shards) ELSE i % shards])]

(***************************************************************************)
(* select_unfinished_candidates, and BoundedTimingSample.add: of a stream  *)
(* the `room' items with the smallest hash are kept.                       *)
(***************************************************************************)

Kept(kept, item, room) ==
  LET worst == CHOOSE i \in DOMAIN kept : \A j \in DOMAIN kept : kept[i].hash >= kept[j].hash
  IN IF Len(kept) < room THEN Append(kept, item)
     ELSE IF item.hash < kept[worst].hash THEN [kept EXCEPT ![worst] = item] ELSE kept

\* Per case; lines that do not parse and candidates that are done are passed over.
SelectUnfinished(lines, done, room) ==
  LET open == SelectSeq(lines, LAMBDA l : l.parses /\ l.id \notin done)
      cases == {open[i].case : i \in DOMAIN open}
      mine(c) == FoldLeft(LAMBDA kept, l : IF l.case = c THEN Kept(kept, l, room) ELSE kept,
                          <<>>, open)
  IN [c \in cases |-> Descending(mine(c), [i \in DOMAIN mine(c) |-> - mine(c)[i].hash])]

\* recommend_tier of a case's records: [status, timed, hash, wall].
Tier(records, room, few) ==
  LET n == Len(records)
      count(status) == Cardinality({i \in DOMAIN records : records[i].status = status})
      timed == SelectSeq(records, LAMBDA r : r.timed)
      drawn == FoldLeft(LAMBDA kept, r : Kept(kept, r, room), <<>>, timed)
      sample == Descending(drawn, [i \in DOMAIN drawn |-> - drawn[i].wall])
  IN IF n < few THEN "benchmark_required"
     ELSE IF 4 * count("INVALID_MODEL") >= n THEN "quarantine_invalid_model"
     ELSE IF 4 * count("timeout") >= n THEN "quarantine_timeout"
     ELSE IF sample = <<>> THEN "benchmark_required"
     ELSE IF sample[1 + Rounded(95 * (Len(sample) - 1), 100)].wall > 120 THEN "slow_valid"
     ELSE "fast_valid"
=============================================================================
