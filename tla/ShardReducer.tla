---------------------------- MODULE ShardReducer ----------------------------
(***************************************************************************)
(* The reduce stage of a round (scripts/reduce_campaign_shards.py): it     *)
(* walks the listed shards in order, accumulates their execution reports,  *)
(* checkpoints every CheckpointInterval shards and whenever a shard stops  *)
(* it, and publishes the round marker.  It may be killed anywhere and is   *)
(* started again, plainly or with --force; between two reduce runs the map *)
(* tasks write the reports that are still missing.                         *)
(*                                                                         *)
(* The four sums and the ledger fragments of the reducer's state are kept  *)
(* as what determines them: the sequence of reports they were taken from.  *)
(***************************************************************************)
EXTENDS Naturals, Sequences

CONSTANTS N,                   \* shards of the round are numbered 1 .. N
          Lengths,             \* shards an invocation may list: 1 .. n
          OkReports,           \* contents of a successful execution report
          CheckpointInterval,  \* 128 in the code
          ReRuns,              \* TRUE: a reported shard may be run again
          MaxCrashes           \* bound: reduce runs that are killed

ASSUME LengthsAssumption == N \in Nat /\ Lengths \subseteq 0 .. N
ASSUME ReportsAssumption == OkReports \cap {"absent", "torn", "failed"} = {}
ASSUME IntervalAssumption == CheckpointInterval \in Nat \ {0}
ASSUME CrashAssumption == MaxCrashes \in Nat /\ ReRuns \in BOOLEAN

VARIABLES
  reports,  \* reports[s]: execution report of shard s
  marker,   \* round_<NNN>_mapreduce_reduce_report.json
  saved,    \* round_<NNN>_reduce_state.json
  state,    \* the dictionary `state' of the running reducer
  length,   \* number of shard ids its ids file lists
  pc,       \* where the reducer is; "none": no reducer runs
  crashes   \* reduce runs killed so far

vars == <<reports, marker, saved, state, length, pc, crashes>>

Shards == 1 .. N
Reports == OkReports \cup {"absent", "torn", "failed"}
Absent == [kind |-> "absent", ok |-> FALSE]
Marker(ok, n, merged, blocker) == [kind |-> "marker", ok |-> ok, length |-> n,
                                   merged |-> merged, blocker |-> blocker]

\* The reducer's dictionary; `missing' and `invalid' are sets of shards.
Dict(n, next, merged, missing, invalid) ==
  [kind |-> "state", length |-> n, next |-> next, merged |-> merged,
   missing |-> missing, invalid |-> invalid]

\* _initial_state
InitialState(n) == Dict(n, 0, <<>>, {}, {})

Init == /\ reports = [s \in Shards |-> "absent"]
        /\ marker = Absent /\ saved = Absent /\ state = InitialState(0)
        /\ length = 0 /\ pc = "none" /\ crashes = 0

\* A map task writes a report, or dies while it does; no reducer is running.
Report(s, r) == /\ pc = "none"
                /\ reports[s] \notin OkReports \/ ReRuns
                /\ reports' = [reports EXCEPT ![s] = r]
                /\ UNCHANGED <<marker, saved, state, length, pc, crashes>>

\* --force drops the checkpoint and keeps the marker; otherwise a marker that
\* is ok ends the run, and another one is removed.
Start(n, force) ==
  /\ pc = "none"
  /\ \/ force /\ saved' = Absent /\ UNCHANGED marker
     \/ /\ ~force /\ ~marker.ok
        /\ marker' = Absent /\ UNCHANGED saved
  /\ length' = n /\ pc' = "load"
  /\ UNCHANGED <<reports, state, crashes>>

\* Variant with a bug: a checkpoint of another list is accepted.
Load_AnyList == /\ pc = "load"
                /\ state' = IF saved = Absent THEN InitialState(length) ELSE saved
                /\ pc' = "walk"
                /\ UNCHANGED <<reports, marker, saved, length, crashes>>

\* _load_or_initialize_state; a checkpoint of another list ends the run.
Load == /\ pc = "load"
        /\ \/ /\ saved = Absent
              /\ state' = InitialState(length) /\ pc' = "walk"
           \/ /\ saved # Absent /\ saved.length = length
              /\ state' = saved /\ pc' = "walk"
           \/ /\ saved # Absent /\ saved.length # length
              /\ pc' = "none" /\ UNCHANGED state
        /\ UNCHANGED <<reports, marker, saved, length, crashes>>

Current == state.next + 1

\* Variant with a bug: a shard that was on a list stays there.
Others_All(list) == list

\* The list without the current shard, which is judged anew.
Others(list) == list \ {Current}

\* A shard without a report, or with one that is not ok, stops the walk.
Stop == /\ pc = "walk" /\ state.next < length
        /\ \/ /\ reports[Current] = "absent"
              /\ state' = Dict(state.length, state.next, state.merged,
                               Others(state.missing) \cup {Current}, Others(state.invalid))
           \/ /\ reports[Current] = "failed"
              /\ state' = Dict(state.length, state.next, state.merged,
                               Others(state.missing), Others(state.invalid) \cup {Current})
        /\ saved' = state'
        /\ pc' = "publish"
        /\ UNCHANGED <<reports, marker, length, crashes>>

\* A report that does not parse ends the run (JSONDecodeError).
Choke == /\ pc = "walk" /\ state.next < length
         /\ reports[Current] = "torn"
         /\ pc' = "none"
         /\ UNCHANGED <<reports, marker, saved, state, length, crashes>>

\* Variant with a bug: the index is checkpointed before it moves on.
Merge_SaveBefore ==
  /\ pc = "walk" /\ state.next < length
  /\ reports[Current] \in OkReports
  /\ state' = Dict(state.length, Current, Append(state.merged, reports[Current]),
                   Others(state.missing), Others(state.invalid))
  /\ IF Current % CheckpointInterval = 0
       THEN saved' = [state' EXCEPT !.next = state.next] ELSE UNCHANGED saved
  /\ pc' = "walk"
  /\ UNCHANGED <<reports, marker, length, crashes>>

\* Its counts and ledgers join the state, which is saved now and then.
Merge == /\ pc = "walk" /\ state.next < length
         /\ reports[Current] \in OkReports
         /\ state' = Dict(state.length, Current, Append(state.merged, reports[Current]),
                          Others(state.missing), Others(state.invalid))
         /\ IF Current % CheckpointInterval = 0
              THEN saved' = state' ELSE UNCHANGED saved
         /\ pc' = "walk"
         /\ UNCHANGED <<reports, marker, length, crashes>>

Finished == pc = "publish" \/ (pc = "walk" /\ state.next >= length)

Unblocked == state.missing = {} /\ state.invalid = {}
Blamed == IF Unblocked THEN 0
          ELSE CHOOSE s \in state.missing \cup state.invalid : TRUE

\* The marker is replaced in one rename, whatever it said before.
Publish == /\ Finished
           /\ marker' = Marker(Unblocked, length, state.merged, Blamed)
           /\ pc' = IF Unblocked THEN "clean" ELSE "none"
           /\ UNCHANGED <<reports, saved, state, length, crashes>>

\* The checkpoint of a round that is ok is removed.
Clean == /\ pc = "clean"
         /\ saved' = Absent
         /\ pc' = "none"
         /\ UNCHANGED <<reports, marker, state, length, crashes>>

Crash == /\ pc # "none" /\ crashes < MaxCrashes
         /\ crashes' = crashes + 1
         /\ pc' = "none"
         /\ UNCHANGED <<reports, marker, saved, state, length>>

Reduce == Load \/ Stop \/ Choke \/ Merge \/ Publish \/ Clean

Next == \/ \E s \in Shards : \E r \in Reports \ {"absent"} : Report(s, r)
        \/ \E n \in Lengths, force \in BOOLEAN : Start(n, force)
        \/ Reduce \/ Crash

Spec == Init /\ [][Next]_vars

-----------------------------------------------------------------------------
(***************************************************************************)
(* Properties.                                                             *)
(***************************************************************************)

States == [kind : {"state"}, length : 0 .. N, next : 0 .. N,
           merged : Seq(OkReports), missing : SUBSET Shards, invalid : SUBSET Shards]

TypeOK == /\ reports \in [Shards -> Reports]
          /\ marker \in {Absent} \cup
               [kind : {"marker"}, ok : BOOLEAN, length : 0 .. N,
                merged : Seq(OkReports), blocker : 0 .. N]
          /\ saved \in {Absent} \cup States
          /\ state \in States
          /\ length \in 0 .. N
          /\ pc \in {"none", "load", "walk", "publish", "clean"}
          /\ crashes \in 0 .. MaxCrashes

\* Every shard is counted exactly once, in the order of the list, in memory
\* and in the checkpoint: what is accumulated stops where the index stands.
CountsOnce(st) == Len(st.merged) = st.next
CountedOnce == /\ pc \in {"walk", "publish", "clean"} => CountsOnce(state)
               /\ saved # Absent => CountsOnce(saved)

\* A marker that is ok counts each listed shard once; another one counts
\* those before the shard it blames, so an operator is sent to the right one.
MarkerHonest ==
  marker # Absent =>
    /\ marker.ok  => Len(marker.merged) = marker.length
    /\ ~marker.ok => Len(marker.merged) + 1 = marker.blocker

\* Nothing is counted twice or left out, in memory or on disk: see the parts.
ReduceSound == TypeOK /\ CountedOnce /\ MarkerHonest

\* An ok marker is never missing again: AUTO_ROUND jobs and archive sweeps
\* take a missing marker for an unfinished round, even while --force rebuilds.
KeepsOk == marker.ok => marker' # Absent
OkMarkerStays == [][KeepsOk]_vars

\* Re-reducing gives the marker the reports give, whatever was checkpointed,
\* killed or forced in between.
Promise == INSTANCE RoundMarker
MarkerFollowsReports == Promise!Spec

\* When every shard gets an ok report and the reducer is started again as long
\* as the marker is not ok, it becomes ok, provided that all its runs list the
\* same shards: a checkpoint of another list ends every later run but --force.
Retry == \E n \in Lengths : ~marker.ok /\ Start(n, FALSE)
LiveSpec == Spec /\ WF_vars(Reduce) /\ SF_vars(Retry)
              /\ \A s \in Shards : SF_vars(\E r \in OkReports : Report(s, r))
RoundIsReduced == [](pc # "none" => length = N) => <>marker.ok
=============================================================================
