---------------------------- MODULE ShardRunner ----------------------------
(***************************************************************************)
(* The map task of one shard: sessions of run_campaign_ac_opf_round.py     *)
(* over the shard's candidates, the worker that launches them and marks    *)
(* the shard done, and the signals and kills that end a session early.     *)
(*                                                                         *)
(* On disk: the sample file, the four shard ledgers, the execution report, *)
(* the shard manifest and the done marker.  In the process: the write      *)
(* buffer, the candidates loaded as done and the rows collected so far.    *)
(***************************************************************************)
EXTENDS SampleFile, FiniteSets

CONSTANTS
  N,                \* candidates of the shard, solved in the order 1 .. N
  FlushEvery,       \* flush_every of the sink
  MaxLaunches,      \* bound: sessions launched; the last one is not killed
  Tears,            \* how a kill may cut the file: within {Whole, Fragment, Bare}
  Outcomes,         \* Outcomes[c]: what an execution of candidate c may do
  Disabled,         \* candidates the execution policy disables
  ContinueOnError,  \* --continue-on-error
  MaxNum, MaxDen    \* --max-failure-fraction, as MaxNum / MaxDen

Cands == 1 .. N
Ledgers == <<"diversity", "active_constraint", "security_boundary", "contingency">>

ASSUME BoundsAssumption == /\ N \in Nat /\ FlushEvery \in Nat \ {0}
                           /\ MaxLaunches \in Nat
ASSUME FractionAssumption == MaxNum \in Nat /\ MaxDen \in Nat \ {0}
ASSUME OutcomesAssumption ==
  \A c \in Cands : Outcomes[c] \subseteq {"ok", "retry", "early", "late"}
\* "ok"     solved, the record is final;
\* "retry"  solved with a status of --retry-termination-statuses;
\* "early"  an exception before the record is written;
\* "late"   an exception after the record is written.

VARIABLES
  file,      \* samples.jsonl
  ledgers,   \* ledgers[k][c]: rows of ledger k about candidate c
  report,    \* round_<NNN>_ac_execution_report.json
  manifest,  \* sample_count of shard_manifest.json (0: no manifest)
  marked,    \* the file queue/done/<shard> exists
  launches,  \* sessions launched so far
  pc,        \* where the session is; "idle": no session runs
  at,        \* the candidate the loop has reached, the ledger afterwards
  buf,       \* records written by the sink and not flushed
  loaded,    \* done_ids
  solved, failed, skipped  \* the candidates of the rows collected

disk == <<file, ledgers, report, manifest, marked>>
rows == <<solved, failed, skipped>>
vars == <<disk, rows, launches, pc, at, buf, loaded>>

Absent == [kind |-> "absent"]
TornReport == [kind |-> "torn"]

Init == /\ file = Empty
        /\ ledgers = [k \in DOMAIN Ledgers |-> [c \in Cands |-> 0]]
        /\ report = Absent /\ manifest = 0 /\ marked = FALSE
        /\ launches = 0 /\ pc = "idle" /\ at = 1
        /\ buf = <<>> /\ loaded = {}
        /\ solved = {} /\ failed = {} /\ skipped = {}

Record(c, o) == [cand |-> c, again |-> o = "retry"]

\* Variant with a bug: the reader stops at the first line that is no record.
DoneIds_StopAtTorn ==
  {file.lines[i].cand : i \in {k \in DOMAIN file.lines :
     /\ ~file.lines[k].again
     /\ \A l \in 1 .. k : file.lines[l] # Junk}}

\* done_ids of --resume; the first session runs without it.
DoneIds == {r.cand : r \in {x \in Decoded(file) : ~x.again}}

Launch == /\ pc = "idle" /\ ~marked /\ launches < MaxLaunches
          /\ launches' = launches + 1
          /\ loaded' = IF launches = 0 THEN {} ELSE DoneIds
          /\ pc' = "loop" /\ at' = 1
          /\ solved' = {} /\ failed' = {} /\ skipped' = {}
          /\ UNCHANGED <<disk, buf>>

\* The process is gone, with its memory.
Exit == /\ pc' = "idle" /\ at' = 1 /\ loaded' = {}
        /\ solved' = {} /\ failed' = {} /\ skipped' = {}

\* Variant with a bug: `>' for `>='; the sink holds one record more.
Turn_OneMore == pc = "loop" /\ at <= N /\ Len(buf) <= FlushEvery

\* The loop goes on: append has flushed a full buffer.
Turn == pc = "loop" /\ at <= N /\ Len(buf) < FlushEvery

\* Recorded in an earlier session, or disabled by the execution policy.
Skip == /\ Turn /\ at \in loaded \cup Disabled
        /\ skipped' = skipped \cup {at}
        /\ at' = at + 1
        /\ UNCHANGED <<disk, solved, failed, launches, pc, buf, loaded>>

Execute(o) ==
  /\ Turn /\ at \notin loaded \cup Disabled /\ o \in Outcomes[at]
  /\ buf' = IF o = "early" THEN buf ELSE Append(buf, Record(at, o))
  /\ solved' = IF o \in {"ok", "retry"} THEN solved \cup {at} ELSE solved
  /\ failed' = IF o \in {"early", "late"} THEN failed \cup {at} ELSE failed
  /\ at' = at + 1
  /\ pc' = IF o \in {"early", "late"} /\ ~ContinueOnError THEN "close" ELSE "loop"
  /\ UNCHANGED <<disk, skipped, launches, loaded>>

FlushBuffer == /\ file' = Appended(file, buf)
               /\ buf' = <<>>

\* The flush of a full buffer, and that of SIGUSR1, the early warning.
Flush == /\ pc \in {"loop", "close"} /\ buf # <<>>
         /\ FlushBuffer
         /\ UNCHANGED <<ledgers, report, manifest, marked, rows,
                        launches, pc, at, loaded>>

\* solver.close() and sink.close(), after the last candidate or a break.
Close == /\ pc = "close" \/ (pc = "loop" /\ at > N)
         /\ FlushBuffer
         /\ pc' = "ledger" /\ at' = 1
         /\ UNCHANGED <<ledgers, report, manifest, marked, rows, launches, loaded>>

LedgerRows(k) == IF Ledgers[k] = "contingency" THEN Cands ELSE solved

\* append_parquet_rows, one ledger at a time, once all candidates are done.
AppendLedger ==
  /\ pc = "ledger"
  /\ ledgers' = [ledgers EXCEPT ![at] = [c \in Cands |->
                   @[c] + (IF c \in LedgerRows(at) THEN 1 ELSE 0)]]
  /\ IF at < Len(Ledgers) THEN at' = at + 1 /\ pc' = pc
                          ELSE at' = at /\ pc' = "truncate"
  /\ UNCHANGED <<file, report, manifest, marked, rows, launches, buf, loaded>>

\* write_text opens the report for writing, which empties it ...
TruncateReport == /\ pc = "truncate"
                  /\ report' = TornReport
                  /\ pc' = "report"
                  /\ UNCHANGED <<file, ledgers, manifest, marked, rows,
                                 launches, at, buf, loaded>>

\* Variant with a bug: nothing left to solve counts as failed.
RoundOk_NothingLeft == /\ Cardinality(skipped) < N
                       /\ Cardinality(failed) * MaxDen
                            <= MaxNum * (N - Cardinality(skipped))

\* failed / (total - skipped) <= max_failure_fraction, 0.0 when all skipped.
RoundOk == Cardinality(failed) * MaxDen <= MaxNum * (N - Cardinality(skipped))

\* ... and writes it.
WriteReport == /\ pc = "report"
               /\ report' = [kind |-> "whole", ok |-> RoundOk, solved |-> solved,
                             failed |-> failed, skipped |-> Cardinality(skipped)]
               /\ pc' = "manifest"
               /\ UNCHANGED <<file, ledgers, manifest, marked, rows,
                              launches, at, buf, loaded>>

\* _write_shard_manifest; then exit status 0, or 2 when the round is not ok.
WriteManifest == /\ pc = "manifest"
                 /\ manifest' = Len(file.lines)
                 /\ IF report.ok
                      THEN pc' = "mark" /\ UNCHANGED <<rows, at, loaded>>
                      ELSE Exit
                 /\ UNCHANGED <<file, ledgers, report, marked, launches, buf>>

\* The worker touches queue/done/<shard> after a status of 0.
Mark == /\ pc = "mark"
        /\ marked' = TRUE
        /\ Exit
        /\ UNCHANGED <<file, ledgers, report, manifest, launches, buf>>

\* SIGTERM: the handler drains the buffer and lets the process die.
Terminate == /\ pc \in {"loop", "close"} /\ launches < MaxLaunches
             /\ FlushBuffer /\ Exit
             /\ UNCHANGED <<ledgers, report, manifest, marked, launches>>

\* SIGKILL, at the walltime or with the node, session and worker together.
Kill == /\ pc # "idle" /\ launches < MaxLaunches
        /\ file' \in AfterKill(file, buf, Tears)
        /\ buf' = <<>> /\ Exit
        /\ UNCHANGED <<ledgers, report, manifest, marked, launches>>

Step == \/ Launch \/ Skip \/ (\E o \in {"ok", "retry", "early", "late"} : Execute(o))
        \/ Flush \/ Close \/ AppendLedger \/ TruncateReport \/ WriteReport
        \/ WriteManifest \/ Mark

Next == Step \/ Terminate \/ Kill

Spec == Init /\ [][Next]_vars

\* The scheduler launches the shard again and runs its session to the end.
FairSpec == Spec /\ WF_vars(Step)

-----------------------------------------------------------------------------
(***************************************************************************)
(* Properties.                                                             *)
(***************************************************************************)
Records == [cand : Cands, again : BOOLEAN]
Lines == Records \cup {Junk}

TypeOK == /\ file \in [lines : Seq(Lines), open : BOOLEAN]
          /\ ledgers \in [DOMAIN Ledgers -> [Cands -> Nat]]
          /\ report \in {Absent, TornReport} \cup
               [kind : {"whole"}, ok : BOOLEAN, solved : SUBSET Cands,
                failed : SUBSET Cands, skipped : 0 .. N]
          /\ manifest \in Nat /\ marked \in BOOLEAN
          /\ launches \in 0 .. MaxLaunches
          /\ pc \in {"idle", "loop", "close", "ledger", "truncate", "report",
                     "manifest", "mark"}
          /\ at \in 1 .. (IF pc = "ledger" THEN Len(Ledgers) ELSE N + 1 + Len(Ledgers))
          /\ buf \in Seq(Records)
          /\ loaded \subseteq Cands
          /\ \A s \in {solved, failed, skipped} : s \subseteq Cands

\* Nothing that is recorded is solved again: a candidate has a second record,
\* in the file or still in the buffer, only if the first asked for a retry.
\* It relates the file of every past session to the live one's buffer.
Recorded == file.lines \o buf
NoSecondRecord ==
  \A i, j \in DOMAIN Recorded :
    (i < j /\ Recorded[i] # Junk /\ Recorded[j] # Junk)
      => (Recorded[i].cand = Recorded[j].cand => Recorded[i].again)

\* What a session counts as recorded can be read back, and so can what a
\* shard marked done must contain, but for the two records that share a line
\* an earlier session left open: its last one, which was loaded as done, and
\* the first one written after it.
Readable == {r.cand : r \in (Decoded(file) \cup {buf[i] : i \in DOMAIN buf}) \ {Junk}}
Counted == IF marked THEN Cands \ (Disabled \cup report.failed)
                     ELSE loaded \cup solved
AtMostTwoLost == Cardinality(Counted \ Readable) <= 2

\* The report accounts for every candidate, as solved, failed or skipped,
\* however many sessions were killed before the one that wrote it.
ReportAccounts ==
  report.kind = "whole" =>
    /\ report.solved \cap report.failed = {}
    /\ Cardinality(report.solved) + Cardinality(report.failed) + report.skipped = N

\* No kill has cut a record: a torn line is for good, as the file is only appended to.
Untorn == ~file.open /\ Junk \notin Range(file.lines)

\* A shard marked done has a record of every candidate that is enabled and that
\* its last session did not report as failed, unless a kill has cut a record.
DoneMeansSampled ==
  marked /\ Untorn => Cands \ (Disabled \cup report.failed) \subseteq Readable

\* A candidate that asked for no retry has at most one row in each per-solve
\* ledger, whichever sessions wrote them and whenever those were killed, as long
\* as no record was cut.
LedgerRowsOnce ==
  Untorn => \A k \in DOMAIN Ledgers, c \in Cands :
    Ledgers[k] # "contingency" /\ "retry" \notin Outcomes[c] => ledgers[k][c] <= 1

\* What is recorded stays recorded, once, and reports and ledgers agree with it:
\* see the parts.
SamplesSound == /\ TypeOK /\ NoSecondRecord /\ AtMostTwoLost /\ ReportAccounts
                /\ DoneMeansSampled /\ LedgerRowsOnce

\* The end of a session, however it comes, takes at most flush_every records away
\* from those a reader would have found (comment of SampleSink), and one more only
\* where an earlier kill left the last line open.
LossBounded == [][pc # "idle" /\ pc' = "idle" =>
                    Cardinality(Readable \ Readable')
                      <= FlushEvery + (IF file.open THEN 1 ELSE 0)]_vars

\* The shard is marked done, whatever was killed, unless a session that ran to its
\* end says that candidates failed; with nothing left to solve it is marked.
ShardCompletes == <>(marked \/ (report.kind = "whole" /\ report.failed # {}))
=============================================================================
