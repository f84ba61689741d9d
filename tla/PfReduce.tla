------------------------------ MODULE PfReduce ------------------------------
(***************************************************************************)
(* The end of a power-flow round: shards that finish one by one, isolated  *)
(* replays of the shards with software errors (prepare_pf_shard_replay.py),*)
(* and the reducer (reduce_pf_campaign_shards.py), started by a round's    *)
(* job, by a finalizer or for a replay.                                    *)
(*                                                                         *)
(* The source shards are run by a chain of jobs: a map job, a finalizer    *)
(* that depends on it, a supervisor that depends on the finalizer and      *)
(* submits the next map job unless the round's summary is complete.  A     *)
(* replay and its reduction are jobs of their own that nothing follows.    *)
(*                                                                         *)
(* A shard campaign is <<c, i>>: shard i in the source campaign or in the  *)
(* replay campaign c.  Its report is "none" until the session ends.        *)
(***************************************************************************)
EXTENDS Naturals, Sequences, FiniteSets

CONSTANTS
  S,            \* shards of the round, numbered 1 .. S
  Replays,      \* replay campaigns that may be staged
  Verdicts(_),  \* Verdicts(id): how the session of id may end
  Requests,     \* sets of shards a replay may ask for; {}: those with errors
  MaxReduces    \* bound: reducers started besides the finalizer's

Shards == 1 .. S
Source == "source"

ASSUME ReduceBounds == S \in Nat /\ MaxReduces \in Nat
ASSUME RequestsAssumption == Requests \subseteq SUBSET Shards
\* A replay has a directory of its own; "none" stands for no replay.
ASSUME ReplayNames == {Source, "none", "unstaged"} \cap Replays = {}

Campaigns == {Source} \cup Replays
Ids == Campaigns \X Shards
SourceIds == [i \in Shards |-> <<Source, i>>]
ASSUME VerdictsAssumption == \A id \in Ids : Verdicts(id) \subseteq {"good", "errors"}

VARIABLES
  report,    \* report[id]: "none", "good" or "errors" (software errors)
  samples,   \* ids whose samples.jsonl exists
  done,      \* source ids marked done in their queue
  staged,    \* staged[r]: shards in the queue of replay r
  base,      \* base[r]: the replay whose merged list r extends, "none", or
             \* "unstaged" while r's directory is empty
  merged,    \* merged[r]: merged_shard_campaign_ids.txt, or <<>>
  preparing, \* the replay being prepared, or "none"
  marker,    \* round_<NNN>_pf_reduce_report.json
  ledgers,   \* ledgers[id]: times id's rows are in the campaign's ledgers
  chain,     \* the job of the chain that runs: "map", "finalize", "supervise";
             \* "stopped" at the end
  pc, job,   \* the reducer: where it is, what it was started with
  found,     \* found[i]: the report it read for position i of its list
  files,     \* the sample files it counted
  reduces    \* reducers started besides the finalizer's

shards == <<report, samples, done>>
replay == <<staged, base, merged, preparing>>
reducer == <<pc, job, found, files>>
vars == <<shards, replay, reducer, marker, ledgers, reduces, chain>>

Absent == [kind |-> "absent", by |-> "none", complete |-> FALSE]
Idle == [by |-> "none", ids |-> <<>>, roots |-> {}, force |-> FALSE]
Reset == pc' = "idle" /\ job' = Idle /\ found' = <<>> /\ files' = {}

Init == /\ report = [id \in Ids |-> "none"] /\ samples = {} /\ done = {}
        /\ staged = [r \in Replays |-> {}] /\ base = [r \in Replays |-> "unstaged"]
        /\ merged = [r \in Replays |-> <<>>] /\ preparing = "none"
        /\ marker = Absent /\ ledgers = [id \in Ids |-> 0]
        /\ pc = "idle" /\ job = Idle /\ found = <<>> /\ files = {} /\ reduces = 0
        /\ chain = "map"

Queued == {id \in Ids : id[1] = Source \/ id[2] \in staged[id[1]]}

-----------------------------------------------------------------------------
(* Shard sessions; PfShard has what happens inside.  Those of the source run
   in a map job of the chain, those of a replay in the replay's own job. *)
Runs(id) == id[1] = Source => chain = "map"

Begin(id) == /\ Runs(id) /\ id \in Queued \ (done \cup samples)
             /\ samples' = samples \cup {id}
             /\ UNCHANGED <<report, done, replay, reducer,
                            marker, ledgers, reduces, chain>>

End(id, verdict) == /\ Runs(id) /\ id \in samples \ done /\ report[id] = "none"
                    /\ report' = [report EXCEPT ![id] = verdict]
                    /\ UNCHANGED <<samples, done, replay, reducer,
                                   marker, ledgers, reduces, chain>>

\* Nothing reads the done markers of a replay.
MarkDone(id) == /\ id[1] = Source /\ Runs(id)
                /\ report[id] # "none" /\ id \notin done
                /\ done' = done \cup {id}
                /\ UNCHANGED <<report, samples, replay, reducer,
                               marker, ledgers, reduces, chain>>

\* The map job ends: its workers are through, its time is over or it is killed.
MapEnds == /\ chain = "map" /\ chain' = "finalize"
           /\ UNCHANGED <<shards, replay, reducer, marker, ledgers, reduces>>

-----------------------------------------------------------------------------
(* prepare_pf_shard_replay.py *)
Affected(requested) ==
  IF requested # {} THEN requested
  ELSE {i \in Shards : report[<<Source, i>>] = "errors"}

\* Every source report is there and the staging directory is empty; then the
\* queue, its ready file and the list of staged ids are written, empty ones when
\* no shard is affected.
Stage(r, requested, b) ==
  /\ preparing = "none" /\ base[r] = "unstaged" /\ b # r
  /\ b # "none" => merged[b] # <<>>
  /\ \A i \in Shards : report[<<Source, i>>] # "none"
  /\ staged' = [staged EXCEPT ![r] = Affected(requested)]
  /\ base' = [base EXCEPT ![r] = b]
  /\ preparing' = r
  /\ UNCHANGED <<shards, merged, reducer, marker, ledgers, reduces, chain>>

MergedIds(r) ==
  LET old == IF base[r] = "none" THEN SourceIds ELSE merged[base[r]]
  IN [i \in Shards |-> IF i \in staged[r] THEN <<r, i>> ELSE old[i]]

\* The base list must hold the source shard wherever one is replayed.
BaseFits(r) ==
  base[r] # "none" => \A i \in staged[r] : merged[base[r]][i] \in {<<Source, i>>, <<r, i>>}

\* The merged list, or the ValueError, which leaves the staged queue behind.
Merge(r) ==
  /\ preparing = r
  /\ merged' = IF BaseFits(r) THEN [merged EXCEPT ![r] = MergedIds(r)] ELSE merged
  /\ preparing' = "none"
  /\ UNCHANGED <<shards, staged, base, reducer, marker, ledgers, reduces, chain>>

\* The preparation dies before the merged list is written.
Abandon == /\ preparing # "none"
           /\ preparing' = "none"
           /\ UNCHANGED <<shards, staged, base, merged, reducer,
                          marker, ledgers, reduces, chain>>

-----------------------------------------------------------------------------
(* reduce_pf_campaign_shards.py *)
Start(j) == /\ pc = "idle" /\ pc' = "reports" /\ job' = j
            /\ UNCHANGED <<shards, replay, marker, ledgers, found, files>>

SourceDone == \A i \in Shards : <<Source, i>> \in done
SourceJob(force) == [by |-> Source, ids |-> SourceIds, roots |-> {}, force |-> force]

\* A round's job submitted by hand, outside the chain, when all its workers have
\* ended well; without --force.
ReduceRound == /\ SourceDone
               /\ reduces < MaxReduces /\ reduces' = reduces + 1
               /\ Start(SourceJob(FALSE)) /\ UNCHANGED chain

\* Variant with a bug: the finalizer forgets --force.
Finalize_NoForce ==
  /\ chain = "finalize" /\ chain' = "supervise"
  /\ IF marker.complete \/ ~SourceDone
       THEN UNCHANGED <<shards, replay, marker, ledgers, reducer>>
       ELSE Start(SourceJob(FALSE))
  /\ UNCHANGED reduces

\* riker_pf_finalize.sbatch: nothing to do when the marker is complete, too
\* early when a shard is not done.
Finalize ==
  /\ chain = "finalize" /\ chain' = "supervise"
  /\ IF marker.complete \/ ~SourceDone
       THEN UNCHANGED <<shards, replay, marker, ledgers, reducer>>
       ELSE Start(SourceJob(TRUE))
  /\ UNCHANGED reduces

\* riker_pf_campaign_supervisor.sbatch, after the finalizer: it drives the round
\* again unless the marker is complete.
Supervise ==
  /\ chain = "supervise" /\ (pc = "idle" \/ job.by # Source)
  /\ chain' = IF marker.complete THEN "stopped" ELSE "map"
  /\ UNCHANGED <<shards, replay, reducer, marker, ledgers, reduces>>

\* riker_pf_replay_reduce.sbatch: PRIOR_REPLAY_CAMPAIGN_ID names the replay whose
\* list was extended.  It looks for the merged list, not for the replay's end.
ReduceReplay(r) ==
  /\ reduces < MaxReduces /\ reduces' = reduces + 1
  /\ merged[r] # <<>>
  /\ Start([by |-> r, ids |-> merged[r], roots |-> {r} \cup ({base[r]} \ {"none"}),
            force |-> TRUE])
  /\ UNCHANGED chain

\* The marker is there already: exit; otherwise the reports are read.
ReadReports ==
  /\ pc = "reports"
  /\ IF marker.kind = "whole" /\ ~job.force
       THEN Reset
       ELSE /\ found' = [i \in Shards |-> report[job.ids[i]]]
            /\ pc' = "ledgers"
            /\ UNCHANGED <<job, files>>
  /\ UNCHANGED <<shards, replay, marker, ledgers, reduces, chain>>

HasRows(id) == report[id] # "none"
InList(ids) == {ids[i] : i \in DOMAIN ids}

\* Variant with a bug: retain_existing keeps the rows of earlier reductions.
WriteLedgers_Retain ==
  /\ pc = "ledgers"
  /\ ledgers' = [id \in Ids |-> ledgers[id] +
                   (IF id \in InList(job.ids) /\ HasRows(id) THEN 1 ELSE 0)]
  /\ pc' = "samples"
  /\ UNCHANGED <<shards, replay, job, found, files, marker, reduces, chain>>

\* The ledgers are replaced by the rows of the listed shards (iter_rows of each).
WriteLedgers ==
  /\ pc = "ledgers"
  /\ ledgers' = [id \in Ids |-> IF id \in InList(job.ids) /\ HasRows(id) THEN 1 ELSE 0]
  /\ pc' = "samples"
  /\ UNCHANGED <<shards, replay, job, found, files, marker, reduces, chain>>

\* sample_files_for_roots: a replayed shard's file stands for the original; a
\* shard in two of the additional roots is an error.
Replacements == {id \in samples : id[1] \in job.roots}
Duplicated == \E x, y \in Replacements : x # y /\ x[2] = y[2]
\* Variant with a bug: the replayed shards' original files are counted too.
FilesForRoots_Both == {id \in samples : id[1] = Source} \cup Replacements

FilesForRoots == {id \in samples : id[1] = Source
                                     /\ \A x \in Replacements : x[2] # id[2]}
                 \cup Replacements

CountSamples ==
  /\ pc = "samples"
  /\ IF Duplicated THEN pc' = "raised" /\ UNCHANGED files
                   ELSE pc' = "mark" /\ files' = FilesForRoots
  /\ UNCHANGED <<shards, replay, job, found, marker, ledgers, reduces, chain>>

\* The summary replaces the marker in one rename; status 1 when it is not ok.
WriteMarker ==
  /\ pc = "mark"
  /\ marker' = [kind |-> "whole", by |-> job.by, ids |-> job.ids, files |-> files,
                complete |-> \A i \in Shards : found[i] # "none",
                ok |-> \A i \in Shards : found[i] = "good"]
  /\ Reset
  /\ UNCHANGED <<shards, replay, ledgers, reduces, chain>>

\* The reducer is killed, or raised and is gone.
Die == /\ pc # "idle" /\ (pc = "raised" \/ reduces < MaxReduces)
       /\ reduces' = IF pc = "raised" THEN reduces ELSE reduces + 1
       /\ Reset
       /\ UNCHANGED <<shards, replay, marker, ledgers, chain>>

Reducing == ReadReports \/ WriteLedgers \/ CountSamples \/ WriteMarker
Running(id) == \/ Begin(id) \/ MarkDone(id)
               \/ \E v \in Verdicts(id) : End(id, v)
Mapping == \E id \in Ids : Running(id)
MappingSource == \E i \in Shards : Running(<<Source, i>>)
Preparing == \/ Abandon
             \/ \E r \in Replays : \/ Merge(r) \/ ReduceReplay(r)
                  \/ \E q \in Requests, b \in Replays \cup {"none"} : Stage(r, q, b)

Next == \/ Mapping \/ Preparing \/ Reducing \/ ReduceRound \/ Die
        \/ MapEnds \/ Finalize \/ Supervise

Spec == Init /\ [][Next]_vars

\* Each job of the chain is followed by the next; map jobs that are submitted
\* again and again get on with the source shards; a reducer that is not killed
\* goes on.  Nothing is asked of the replays.
FairSpec == /\ Spec
            /\ WF_vars(MapEnds) /\ WF_vars(Finalize) /\ WF_vars(Supervise)
            /\ SF_vars(MappingSource)
            /\ WF_vars(Reducing) /\ WF_vars(pc = "raised" /\ Die)

-----------------------------------------------------------------------------
(***************************************************************************)
(* Properties.                                                             *)
(***************************************************************************)
TypeOK == /\ report \in [Ids -> {"none", "good", "errors"}]
          /\ samples \subseteq Ids /\ done \subseteq Ids
          /\ staged \in [Replays -> SUBSET Shards]
          /\ base \in [Replays -> Replays \cup {"none", "unstaged"}]
          /\ chain \in {"map", "finalize", "supervise", "stopped"}
          /\ merged \in [Replays -> [Shards -> Ids] \cup {<<>>}]
          /\ preparing \in Replays \cup {"none"}
          /\ ledgers \in [Ids -> 0 .. 1]
          /\ pc \in {"idle", "reports", "ledgers", "samples", "mark", "raised"}
          /\ files \subseteq Ids /\ reduces \in 0 .. MaxReduces

\* A merged list names every shard of the round once, at its own position, as
\* the source shard or as a replay in whose queue it was put; replays of
\* replays included.
MergedInPlace ==
  \A r \in Replays : merged[r] # <<>> =>
    \A i \in Shards : LET id == merged[r][i]
                      IN id[2] = i /\ (id[1] # Source => i \in staged[id[1]])

\* No replay chain puts one shard in two of the roots a reduction is given, so
\* the reducer never meets two sample files for it.
NeverRaised == pc # "raised"

\* r is a replay of the source, or of such a replay.
Short(r) == base[r] = "none" \/ base[base[r]] = "none"

\* A complete summary counted its solver provenance in the very shards whose
\* reports and ledgers it summed, whatever replays ran meanwhile.  The job of a
\* replay has a place for one prior replay: after a longer chain the files of the
\* first one are left out and the originals counted.
SameShards ==
  marker.complete /\ (marker.by \in Replays => Short(marker.by)) =>
    marker.files = InList(marker.ids)

\* Replays and reductions work on one list of shards: see the parts.
ReplaysSound == TypeOK /\ MergedInPlace /\ NeverRaised /\ SameShards

\* Writing a complete summary finds the ledgers made of the listed shards, each
\* once, although other reductions wrote the same files before.
LedgersFit ==
  [][marker' # marker /\ marker'.complete =>
       \A id \in Ids : ledgers[id] = (IF id \in InList(marker'.ids) THEN 1 ELSE 0)]_vars

\* The chain of jobs comes to its end, which it only does at a complete summary,
\* although map jobs are cut short, reducers killed and partial summaries left by
\* reductions that came too early.  A partial summary that stays for good is that
\* of a replay reduced too early when the chain had stopped.
RoundGetsReduced ==
  <>[](chain = "stopped" /\ (marker.complete \/ marker.by \in Replays))
=============================================================================
