--------------------------- MODULE MapReduceRound ---------------------------
(***************************************************************************)
(* One round of a campaign as a chain of Slurm jobs                        *)
(* (andes_powermodels_acopf_mapreduce_10n_36h.sbatch with RESUME=1): a job *)
(* splits the selection into shard files or reuses those it finds, builds  *)
(* the queue, runs workers that take shards under a lock made by mkdir,    *)
(* and reduces when every worker ended with status 0.  Jobs and workers    *)
(* are killed anywhere; the next job starts from the files left behind.    *)
(*                                                                         *)
(* The map task and the reduce stage appear by what ShardRunner and        *)
(* RoundMarker promise of them.                                            *)
(***************************************************************************)
EXTENDS Naturals, Sequences, FiniteSets

CONSTANTS M,               \* selected candidates are numbered 0 .. M - 1
          Disabled,        \* candidates the execution policy leaves out
          MaxNum, MaxDen,  \* --max-failure-fraction, a fraction
          Counts,          \* values of SHARD_COUNT that jobs of the chain have
          Workers,         \* srun tasks of a job
          PartialSharding, \* TRUE: a job may end while it writes shards
          MaxFaults        \* bound: kills, dead workers and failed map tasks

ASSUME SelectionAssumption == M \in Nat \ {0}
ASSUME CountsAssumption == Counts \subseteq Nat \ {0}
ASSUME WorkersAssumption == Workers # {}
ASSUME FaultsAssumption == MaxFaults \in Nat
ASSUME SplitAssumption == PartialSharding \in BOOLEAN

ASSUME FractionAssumption == MaxNum \in Nat /\ MaxDen \in Nat \ {0}

Cands == 0 .. M - 1
Slots == UNION {0 .. k - 1 : k \in Counts}

VARIABLES
  sharded,   \* shard files exist (the pattern selected_*.jsonl matches)
  files,     \* files[i]: candidates in the whole lines of shard file i
  broken,    \* shards whose file ends in part of a line
  manifest,  \* number of shards in the split's manifest, written last; 0: none
  queue,     \* shards.txt, and the ids file, which lists the same shards
  index,     \* next_index.txt
  lock,      \* the directory queue/lock exists
  done,      \* shards with a marker in queue/done
  shardReports, \* shardReports[i]: execution report of shard i
  solved,    \* candidates with a record that reached a sample file
  roundMarker, \* the round marker
  job,       \* where the running job is; "off": none runs
  count,     \* SHARD_COUNT of the running job
  resuming,  \* RESUMING of the running job
  place,     \* place[w]: where worker w is
  next,      \* next[w]: the variable next_idx of worker w
  todo,      \* todo[w]: candidates the map task of worker w takes up
  faults     \* faults so far

disk == <<sharded, files, broken, manifest, queue, index, lock, done, shardReports,
          solved, roundMarker>>
roundVars == <<disk, job, count, resuming, place, next, todo, faults>>

RoundInit == /\ sharded = FALSE /\ files = [i \in Slots |-> {}] /\ broken = {} /\ manifest = 0
             /\ queue = <<>> /\ index = 0 /\ lock = FALSE /\ done = {}
             /\ shardReports = [i \in Slots |-> "absent"]
             /\ solved = {} /\ roundMarker = "absent"
             /\ job = "off" /\ count = 0 /\ resuming = FALSE
             /\ place = [w \in Workers |-> "off"] /\ next = [w \in Workers |-> 0]
             /\ todo = [w \in Workers |-> {}] /\ faults = 0

(***************************************************************************)
(* The job script.                                                         *)
(***************************************************************************)

\* A job is submitted as long as the marker is not ok, and decides whether
\* it resumes by looking for shard files.
Submit(k) == /\ job = "off" /\ roundMarker # "ok"
             /\ count' = k /\ resuming' = sharded
             /\ job' = IF sharded THEN "queue" ELSE "open"
             /\ UNCHANGED <<disk, place, next, todo, faults>>

\* shard_selected_candidates.py opens, and so empties, all shard files ...
OpenShards == /\ job = "open"
              /\ sharded' = TRUE
              /\ files' = [i \in Slots |-> IF i < count THEN {} ELSE files[i]]
              /\ job' = "fill"
              /\ UNCHANGED <<broken, manifest, queue, index, lock, done, shardReports, solved,
                             roundMarker, count, resuming, place, next, todo, faults>>

\* ... and deals the candidates round-robin.
Share(i) == {c \in Cands : c % count = i}

Dealt == [i \in Slots |-> IF i < count THEN Share(i) ELSE files[i]]

FillShards == /\ job = "fill"
              /\ files' = Dealt /\ manifest' = count
              /\ job' = "queue"
              /\ UNCHANGED <<sharded, broken, queue, index, lock, done, shardReports, solved,
                             roundMarker, count, resuming, place, next, todo, faults>>

\* Coverage is enforced and not met: the script exits, its shard files stay.
RejectSplit == /\ PartialSharding /\ job = "fill" /\ faults < MaxFaults
               /\ faults' = faults + 1
               /\ files' = Dealt
               /\ job' = "off"
               /\ UNCHANGED <<sharded, broken, manifest, queue, index, lock, done,
                              shardReports, solved, roundMarker, count, resuming, place,
                              next, todo>>

\* A job killed meanwhile leaves a prefix of each file, and of the line that
\* follows in it maybe a part.
CutShards == /\ PartialSharding /\ job = "fill" /\ faults < MaxFaults
             /\ faults' = faults + 1
             /\ \E p \in [Slots -> 0 .. M] :
                  files' = [i \in Slots |-> IF i < count
                                              THEN {c \in Share(i) : c < p[i]}
                                              ELSE files[i]]
             /\ broken' \in SUBSET {i \in Slots : i < count /\ ~(Share(i) \subseteq files'[i])}
             /\ job' = "off"
             /\ UNCHANGED <<sharded, manifest, queue, index, lock, done, shardReports,
                            solved, roundMarker, count, resuming, place, next, todo>>

\* The sequences that list a set of numbers in increasing order: one.
Listings(S) == {q \in [1 .. Cardinality(S) -> S] :
                  \A a, b \in DOMAIN q : a < b => q[a] < q[b]}

\* Variant with a bug: the loop over the shard numbers ends one too early.
Nonempty_Short == {i \in Slots : i + 1 < count /\ (files[i] # {} \/ i \in broken)}

\* Shard files below the count that hold a byte.
Nonempty == {i \in Slots : i < count /\ (files[i] # {} \/ i \in broken)}

\* Variant with a bug: the lock of a killed job stays.
BuildQueue_KeepLock ==
  /\ job = "queue"
  /\ queue' \in Listings(Nonempty)
  /\ index' = 0
  /\ IF Nonempty = {} THEN job' = "off" /\ UNCHANGED <<place, next>>
     ELSE /\ job' = "map"
          /\ place' = [w \in Workers |-> "want"]
          /\ next' = [w \in Workers |-> 0]
  /\ UNCHANGED <<sharded, files, broken, manifest, lock, done, shardReports, solved,
                 roundMarker, count, resuming, todo, faults>>

\* The queue is rebuilt from the files there are, a stale lock removed and the
\* workers started; without any shard the job exits with status 2.
BuildQueue == /\ job = "queue"
              /\ queue' \in Listings(Nonempty)
              /\ lock' = FALSE /\ index' = 0
              /\ IF Nonempty = {} THEN job' = "off" /\ UNCHANGED <<place, next>>
                 ELSE /\ job' = "map"
                      /\ place' = [w \in Workers |-> "want"]
                      /\ next' = [w \in Workers |-> 0]
              /\ UNCHANGED <<sharded, files, broken, manifest, done, shardReports, solved,
                             roundMarker, count, resuming, todo, faults>>

(***************************************************************************)
(* The worker loop.                                                        *)
(***************************************************************************)

At(w, l) == job = "map" /\ place[w] = l
Goto(w, l) == place' = [place EXCEPT ![w] = l]
Local == <<sharded, files, broken, manifest, queue, roundMarker, job, count, resuming, faults>>

\* Variant with a bug: mkdir -p, which succeeds when the lock is there.
Lock_P(w) == /\ At(w, "want")
             /\ lock' = TRUE /\ Goto(w, "read")
             /\ UNCHANGED <<Local, index, done, shardReports, solved, next, todo>>

\* mkdir "$LOCK_DIR" succeeds for one worker at a time.
Lock(w) == /\ At(w, "want") /\ ~lock
           /\ lock' = TRUE /\ Goto(w, "read")
           /\ UNCHANGED <<Local, index, done, shardReports, solved, next, todo>>

\* cat "$INDEX_FILE", and the comparison with the number of shards.
Read(w) == /\ At(w, "read")
           /\ next' = [next EXCEPT ![w] = index]
           /\ Goto(w, IF index >= Len(queue) THEN "leave" ELSE "bump")
           /\ UNCHANGED <<Local, index, lock, done, shardReports, solved, todo>>

Bump(w) == /\ At(w, "bump")
           /\ index' = next[w] + 1 /\ Goto(w, "unlock")
           /\ UNCHANGED <<Local, lock, done, shardReports, solved, next, todo>>

\* rmdir "$LOCK_DIR", before the shard is run and before the loop is left.
Unlock(w) == /\ job = "map" /\ place[w] \in {"unlock", "leave"}
             /\ lock' = FALSE
             /\ Goto(w, IF place[w] = "leave" THEN "exit" ELSE "pick")
             /\ UNCHANGED <<Local, index, done, shardReports, solved, next, todo>>

Shard(w) == queue[next[w] + 1]

\* A resumed job skips the shards that are marked done.  The map task of
\* another one takes up what has no record yet and the policy allows.
Pick(w) == /\ At(w, "pick")
           /\ IF resuming /\ Shard(w) \in done THEN Goto(w, "want") /\ UNCHANGED todo
              ELSE /\ Goto(w, "run")
                   /\ todo' = [todo EXCEPT ![w] = files[Shard(w)] \ (solved \cup Disabled)]
           /\ UNCHANGED <<Local, index, lock, done, shardReports, solved, next>>

\* A line that is not JSON ends the task before its first candidate.
Unreadable(w) == /\ At(w, "run") /\ Shard(w) \in broken
                 /\ todo' = [todo EXCEPT ![w] = {}]
                 /\ Goto(w, "failed")
                 /\ UNCHANGED <<Local, index, lock, done, shardReports, solved, next>>

\* The map task solves one candidate after the other; a record counts here
\* once it is in the file, what a kill loses of the buffer never was.
Sample(w) == /\ At(w, "run") /\ Shard(w) \notin broken
             /\ \E c \in todo[w] \ solved : solved' = solved \cup {c}
             /\ UNCHANGED <<Local, place, index, lock, done, shardReports, next, todo>>

\* Failures F are few enough among the candidates T that were taken up.
Tolerated(F, T) == Cardinality(F) * MaxDen <= MaxNum * Cardinality(T)

\* The map task writes its report and ends.
EndTask(w, said, to) == /\ shardReports' = [shardReports EXCEPT ![Shard(w)] = said]
                        /\ todo' = [todo EXCEPT ![w] = {}]
                        /\ Goto(w, to)

\* Variant with a bug: the report is written while one record is buffered.
MapOk_Early(w) == /\ At(w, "run") /\ Shard(w) \notin broken
                  /\ \E c \in todo[w] : Tolerated(todo[w] \ (solved \cup {c}), todo[w])
                  /\ EndTask(w, "ok", "touch")
                  /\ UNCHANGED <<Local, index, lock, done, solved, next>>

\* It goes on after a candidate that fails, which has no record.  The sample
\* file is closed before the report, whose status is 0 if few failed.
MapOk(w) == /\ At(w, "run") /\ Shard(w) \notin broken
            /\ Tolerated(todo[w] \ solved, todo[w])
            /\ EndTask(w, "ok", "touch")
            /\ UNCHANGED <<Local, index, lock, done, solved, next>>

\* Too many failed: the report says so, and set -e ends the worker.  What is
\* done with a record after it was appended can fail too.
MapFails(w) == /\ At(w, "run") /\ Shard(w) \notin broken /\ faults < MaxFaults
               /\ faults' = faults + 1
               /\ \E F \in SUBSET todo[w] : todo[w] \ solved \subseteq F /\ ~Tolerated(F, todo[w])
               /\ EndTask(w, "failed", "failed")
               /\ UNCHANGED <<sharded, files, broken, manifest, queue, roundMarker, job, count,
                              resuming, index, lock, done, solved, next>>

\* touch "$DONE_DIR/$shard_number"
Touch(w) == /\ At(w, "touch")
            /\ done' = done \cup {Shard(w)} /\ Goto(w, "want")
            /\ UNCHANGED <<Local, index, lock, shardReports, solved, next, todo>>

Work(w) == \/ Lock(w) \/ Read(w) \/ Bump(w) \/ Unlock(w) \/ Pick(w)
           \/ Unreadable(w) \/ Sample(w) \/ MapOk(w) \/ Touch(w)

(***************************************************************************)
(* The end of a job.                                                       *)
(***************************************************************************)

Ended == {"exit", "failed", "dead"}

\* srun returns when all tasks ended; set -e stops the job unless all are well.
MapStageEnds == /\ job = "map" /\ \A w \in Workers : place[w] \in Ended
                /\ job' = IF \A w \in Workers : place[w] = "exit" THEN "reduce" ELSE "off"
                /\ UNCHANGED <<disk, count, resuming, place, next, todo, faults>>

Listed == {queue[n] : n \in DOMAIN queue}

\* The reduce stage publishes what RoundMarker says.
ReduceStage == /\ job = "reduce"
               /\ roundMarker' = IF \A i \in Listed : shardReports[i] = "ok" THEN "ok" ELSE "failed"
               /\ job' = "off"
               /\ UNCHANGED <<sharded, files, broken, manifest, queue, index, lock, done,
                              shardReports, solved, count, resuming, place, next, todo, faults>>

\* A job is cancelled or runs into its walltime; its files stay.
Kill == /\ job \in {"open", "queue", "map", "reduce"}
        /\ \/ faults < MaxFaults /\ faults' = faults + 1
           \/ /\ job = "map" /\ lock      \* nobody is left to remove the lock
              /\ \A w \in Workers : place[w] \in Ended \cup {"want"}
              /\ \E w \in Workers : place[w] = "want"
              /\ UNCHANGED faults
        /\ job' = "off" /\ todo' = [w \in Workers |-> {}]
        /\ UNCHANGED <<disk, count, resuming, place, next>>

\* A single task is killed (out of memory); the others go on.
Death(w) == /\ job = "map" /\ place[w] \notin Ended /\ faults < MaxFaults
            /\ faults' = faults + 1
            /\ Goto(w, "dead") /\ todo' = [todo EXCEPT ![w] = {}]
            /\ UNCHANGED <<disk, job, count, resuming, next>>

JobStep == OpenShards \/ FillShards \/ BuildQueue \/ MapStageEnds \/ ReduceStage

RoundNext == \/ \E k \in Counts : Submit(k)
             \/ JobStep \/ RejectSplit \/ CutShards \/ Kill
             \/ \E w \in Workers : Work(w) \/ MapFails(w) \/ Death(w)

RoundSpec == RoundInit /\ [][RoundNext]_roundVars

\* Slurm runs what is submitted, up to the walltime; the chain submits again.
Fairness == /\ WF_roundVars(\E k \in Counts : Submit(k))
            /\ WF_roundVars(JobStep) /\ WF_roundVars(Kill /\ UNCHANGED faults)
            /\ \A w \in Workers : WF_roundVars(Work(w))
FairSpec == RoundSpec /\ Fairness
-----------------------------------------------------------------------------
(***************************************************************************)
(* Properties.                                                             *)
(***************************************************************************)

Taking  == {"read", "bump", "unlock", "leave"}
InHand  == {"unlock", "pick", "run", "touch"}
Labels  == Taking \cup InHand \cup Ended \cup {"off", "want"}

FileTypes == /\ sharded \in BOOLEAN /\ lock \in BOOLEAN
             /\ files \in [Slots -> SUBSET Cands] /\ broken \subseteq Slots
             /\ manifest \in Counts \cup {0}
             /\ queue \in Seq(Slots)
             /\ index \in 0 .. Len(queue)
             /\ done \subseteq Slots
             /\ shardReports \in [Slots -> {"absent", "ok", "failed"}]
             /\ solved \subseteq Cands
             /\ roundMarker \in {"absent", "ok", "failed"}
JobTypes == /\ job \in {"off", "open", "fill", "queue", "map", "reduce"}
            /\ count \in Counts \cup {0} /\ resuming \in BOOLEAN
            /\ place \in [Workers -> Labels] /\ next \in [Workers -> Nat]
            /\ todo \in [Workers -> SUBSET Cands] /\ faults \in 0 .. MaxFaults
RoundTypes == FileTypes /\ JobTypes

\* No queue position is given to two workers, and none is given again later:
\* positions in hand are below the index, which the lock makes move alone.
TakenOnce ==
  job = "map" =>
    \A v, w \in Workers :
      /\ place[w] \in InHand => next[w] < index
      /\ v # w /\ place[v] \in InHand /\ place[w] \in InHand
           => next[v] # next[w] /\ Shard(v) # Shard(w)

\* The lock makes taking a shard one step: the queue implements the pool.
Pool == INSTANCE ShardPool WITH
          taken <- index, size <- Len(queue),
          hand <- [w \in Workers |->
                     IF job = "map" /\ place[w] \in InHand THEN next[w] + 1 ELSE 0]
ImplementsPool == Pool!Spec

\* A done marker comes only after the map task of that shard returned with
\* status 0, whatever was killed and resumed: each such shard has an ok report.
DoneMeansReported == \A i \in done : shardReports[i] = "ok"

\* The workers that leave with status 0 leave nothing undone: when the reduce
\* stage starts, all that is queued is done, although none of them waits for
\* the others and shards of killed jobs were taken before.
EndMeansDone == job = "reduce" => Listed \subseteq done

\* "A worker skips any shard that already has a queue/done marker".
NoDoneShardRuns == \A w \in Workers : At(w, "run") => Shard(w) \notin done

\* The candidates of shard i that the policy allows, and whether few of them
\* lack a record.
Due(i) == files[i] \ Disabled
FewMissing(i) == Tolerated(Due(i) \ solved, Due(i))

\* An ok round has read every shard it listed to its end and has the records of
\* all but the tolerated share of it, also when jobs of the chain cut the split
\* short or count shards differently, and whatever earlier tasks of the shard
\* recorded, failed or lost: the tolerance is not granted once per attempt.
OkMeansListedRun ==
  roundMarker = "ok" =>
    \A i \in Listed : shardReports[i] = "ok" /\ i \notin broken /\ FewMissing(i)

\* What the workers do together is right whichever jobs and workers are killed:
\* positions are taken once, markers are true, and nothing is left out.
RoundSound == /\ RoundTypes /\ TakenOnce /\ DoneMeansReported /\ EndMeansDone
              /\ NoDoneShardRuns /\ OkMeansListedRun

\* An ok round covers the selection, no candidate got lost between the split, the
\* queue, the workers and the jobs: if the split was written to its end and the
\* job that reduced listed all its shards, then each candidate is in a shard that
\* was reported ok with at most the tolerated share of it missing.
OkMeansCovered ==
  roundMarker = "ok" /\ manifest # 0 /\ manifest <= count =>
    \A c \in Cands :
      \E i \in Listed : c \in files[i] /\ shardReports[i] = "ok" /\ FewMissing(i)

\* "a round that times out is simply resumed by the next job instead of being
\* skipped": it is completed, unless a job ended inside the split.
RoundCompletes == <>(roundMarker = "ok" \/ (sharded /\ manifest = 0 /\ job = "off"))
=============================================================================
