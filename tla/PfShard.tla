------------------------------ MODULE PfShard ------------------------------
(***************************************************************************)
(* The map task of one power-flow shard: sessions of                       *)
(* run_campaign_pf_round.py over the shard's candidates.  The sink writes  *)
(* each record twice, to samples.jsonl and to the samples.jsonl of its     *)
(* outcome class, through buffers of their own, in two steps that a signal *)
(* may separate; the session's counts go to the manifest and to the        *)
(* report; the worker marks the shard done.                                *)
(***************************************************************************)
EXTENDS SampleFile, FiniteSets, Outcomes

CONSTANTS
  N,             \* candidates of the shard, solved in the order 1 .. N
  FlushEvery,    \* flush_every of the sink
  MaxLaunches,   \* bound: sessions launched; the last one is not killed
  Tears,         \* how a kill may cut a file: within {Whole, Fragment, Bare}
  Executions,    \* Executions[c]: pairs of a result and a fate candidate c may meet
  MaxNum, MaxDen \* --max-failure-fraction, as MaxNum / MaxDen

Cands == 1 .. N
\* Where the handling of a candidate ends: before anything is written, at the
\* open of its outcome file, after its record was counted, or normally.
Fates == {"early", "copy", "late", "done"}

ASSUME PfBounds == /\ N \in Nat /\ FlushEvery \in Nat \ {0} /\ MaxLaunches \in Nat
                   /\ MaxNum \in Nat /\ MaxDen \in Nat \ {0}
ASSUME ExecutionsAssumption ==
  /\ DOMAIN Executions = Cands
  /\ \A c \in Cands : Executions[c] \subseteq Results \X Fates

VARIABLES
  main, copies,  \* samples.jsonl; copies[o]: outcomes/<o>/samples.jsonl
  coverage,      \* coverage[c]: rows of pf_coverage_ledger about c
  manifest, shardReport, marked,
  args,          \* the options the shard is run with
  launches, stage, at, loaded,
  buf, bufs,     \* records the sink's handles have not flushed
  since,         \* _since_flush
  seen,          \* seen[c]: what became of c in this session
  cut,           \* history: candidates whose copy a SIGTERM cut off
  intact         \* history: no SIGKILL, no failed open of a copy and no close
                 \* of the copies broken off so far

disk == <<main, copies, coverage, manifest, shardReport, marked>>
shardVars == <<disk, args, launches, stage, at, loaded, buf, bufs, since, seen, cut,
              intact>>

None == [fate |-> "none", class |-> "none"]
Skipped == [fate |-> "skipped", class |-> "none"]
NoReport == [kind |-> "absent"]
Torn == [kind |-> "torn"]
Fresh == [c \in Cands |-> None]
NoCopies == [o \in Classes |-> <<>>]

ShardInit ==
        /\ main = Empty /\ copies = [o \in Classes |-> Empty]
        /\ coverage = [c \in Cands |-> 0]
        /\ manifest = 0 /\ shardReport = NoReport /\ marked = FALSE
        /\ args \in [strict : BOOLEAN, metric : {"failure", "software_error"}]
        /\ launches = 0 /\ stage = "idle" /\ at = 1 /\ loaded = {}
        /\ buf = <<>> /\ bufs = NoCopies /\ since = 0 /\ seen = Fresh
        /\ cut = {} /\ intact = TRUE

\* The first session runs without --resume, the others with it.
Launch == /\ stage = "idle" /\ ~marked /\ launches < MaxLaunches
          /\ launches' = launches + 1
          /\ loaded' = IF launches = 0 THEN {} ELSE {r.cand : r \in Decoded(main)}
          /\ stage' = "loop"
          /\ UNCHANGED <<disk, args, at, buf, bufs, since, seen, cut, intact>>

\* The process is gone, with its memory.
Exit == /\ stage' = "idle" /\ at' = 1 /\ loaded' = {} /\ since' = 0 /\ seen' = Fresh

\* The loop goes on: append has flushed when flush_every was reached.
Turn == stage = "loop" /\ at <= N /\ since < FlushEvery

Skip == /\ Turn /\ at \in loaded
        /\ seen' = [seen EXCEPT ![at] = Skipped]
        /\ at' = at + 1
        /\ UNCHANGED <<disk, args, launches, stage, loaded, buf, bufs, since, cut, intact>>

\* The record of the candidate before `at'.
Latest == [cand |-> at - 1, class |-> seen[at - 1].class]

\* Where the loop goes after a candidate that met this fate.
Onward(fate) == IF fate # "done" /\ args.strict THEN "raise" ELSE "loop"

\* Policy, solve and validation of one candidate, and the first half of append:
\* the record is written to the buffer of samples.jsonl.
Execute(result, fate) ==
  LET class == OutcomeClass(result)
  IN /\ Turn /\ at \notin loaded /\ <<result, fate>> \in Executions[at]
     /\ seen' = [seen EXCEPT ![at] = [fate |-> fate, class |-> class]]
     /\ at' = at + 1
     /\ IF fate = "early" THEN stage' = Onward(fate) /\ UNCHANGED buf
        ELSE stage' = "copy" /\ buf' = Append(buf, [cand |-> at, class |-> class])
     /\ UNCHANGED <<disk, args, launches, loaded, bufs, since, cut, intact>>

\* The second half of append, the counts and the rows.  An exception at the open
\* of the outcome file leaves the record in samples.jsonl and _since_flush as it
\* was; one after the append leaves the candidate counted as solved.
Copy ==
  LET fate == seen[at - 1].fate
  IN /\ stage = "copy"
     /\ IF fate = "copy" THEN intact' = FALSE /\ UNCHANGED <<bufs, since>>
        ELSE /\ bufs' = [bufs EXCEPT ![Latest.class] = Append(@, Latest)]
             /\ since' = since + 1 /\ UNCHANGED intact
     /\ stage' = Onward(fate)
     /\ UNCHANGED <<disk, args, launches, at, loaded, buf, seen, cut>>

\* append flushes samples.jsonl, and only it, every flush_every records.
FlushMain == /\ stage = "loop" /\ since >= FlushEvery
             /\ main' = Appended(main, buf)
             /\ buf' = <<>> /\ since' = 0
             /\ UNCHANGED <<copies, coverage, manifest, shardReport, marked, args, launches,
                            stage, at, loaded, bufs, seen, cut, intact>>

\* _safe_flush: the records that both buffers have, and those of one alone.
\* What SIGKILL leaves of it when it falls between two flushes is in Kill.
Drain == /\ main' = Appended(main, buf)
         /\ copies' = [o \in Classes |-> Appended(copies[o], bufs[o])]
         /\ buf' = <<>> /\ bufs' = NoCopies

\* SIGUSR1, the early warning: the session goes on.
Warn == /\ stage \in {"loop", "copy"} /\ launches < MaxLaunches /\ buf # <<>>
        /\ Drain /\ since' = 0
        /\ UNCHANGED <<coverage, manifest, shardReport, marked, args, launches, stage, at,
                       loaded, seen, cut, intact>>

\* The sink is left, after the last candidate or by the exception: samples.jsonl
\* is flushed and closed ...
CloseMain == /\ stage = "raise" \/ (stage = "loop" /\ at > N)
             /\ main' = Appended(main, buf) /\ buf' = <<>>
             /\ stage' = IF stage = "raise" THEN "abort" ELSE "close"
             /\ UNCHANGED <<copies, coverage, manifest, shardReport, marked, args, launches, at,
                            loaded, bufs, since, seen, cut, intact>>

\* ... then the outcome files, one after the other.
CloseCopy(o) == /\ stage \in {"abort", "close"} /\ bufs[o] # <<>>
                /\ copies' = [copies EXCEPT ![o] = Appended(@, bufs[o])]
                /\ bufs' = [bufs EXCEPT ![o] = <<>>]
                /\ UNCHANGED <<main, coverage, manifest, shardReport, marked, args, launches,
                               stage, at, loaded, buf, since, seen, cut, intact>>

\* The exception ends the process before any ledger or report.
Leave == /\ stage \in {"abort", "close"} /\ bufs = NoCopies
         /\ IF stage = "abort" THEN Exit
            ELSE stage' = "ledger" /\ UNCHANGED <<at, loaded, since, seen>>
         /\ UNCHANGED <<disk, args, launches, buf, bufs, cut, intact>>

\* append_parquet_rows of the five ledgers; the coverage ledger stands for all.
AppendLedgers ==
  /\ stage = "ledger"
  /\ coverage' = [c \in Cands |-> coverage[c] + (IF seen[c].fate = "done" THEN 1 ELSE 0)]
  /\ stage' = "manifest"
  /\ UNCHANGED <<main, copies, manifest, shardReport, marked, args, launches, at, loaded,
                 buf, bufs, since, seen, cut, intact>>

-----------------------------------------------------------------------------
(* The counts of the report. *)
With(fates) == {c \in Cands : seen[c].fate \in fates}
Solved     == With({"late", "done"})
OfClass(o) == {c \in Solved : seen[c].class = o}
Nonvalid   == Solved \ OfClass("converged_valid")
\* A candidate that raised after it was counted is in both.
Failed     == Cardinality(Nonvalid) + Cardinality(With({"early", "copy", "late"}))
Exceptions == Failed - Cardinality(Nonvalid)
Attempted  == Cardinality(Solved) + Exceptions

SoftwareErrors == Cardinality(OfClass("software_model_error")) + Exceptions

\* metric <= --max-failure-fraction, of max(1, attempted)
QualityOk ==
  LET bad == IF args.metric = "failure" THEN Failed ELSE SoftwareErrors
      base == IF Attempted = 0 THEN 1 ELSE Attempted
  IN bad * MaxDen <= MaxNum * base

\* _write_shard_manifest comes before the report, and counts the lines.
WriteManifest == /\ stage = "manifest"
                 /\ manifest' = Len(main.lines)
                 /\ stage' = "truncate"
                 /\ UNCHANGED <<main, copies, coverage, shardReport, marked, args, launches, at,
                                loaded, buf, bufs, since, seen, cut, intact>>

\* write_text empties the report and then writes it.
TruncateReport == /\ stage = "truncate"
                  /\ shardReport' = Torn /\ stage' = "report"
                  /\ UNCHANGED <<main, copies, coverage, manifest, marked, args, launches,
                                 at, loaded, buf, bufs, since, seen, cut, intact>>

WriteReport ==
  /\ stage = "report"
  /\ shardReport' = [kind |-> "whole", ok |-> QualityOk, solved |-> Cardinality(Solved),
                failed |-> Failed, skipped |-> Cardinality(With({"skipped"})),
                exceptions |-> Exceptions]
  /\ stage' = "exit"
  /\ UNCHANGED <<main, copies, coverage, manifest, marked, args, launches, at, loaded,
                 buf, bufs, since, seen, cut, intact>>

\* Variant with a bug: --record-quality-failure is not honoured.
Status_Always == IF shardReport.ok THEN 0 ELSE 1

\* The exit status; the job's options are the ones that are not strict.
Status == IF shardReport.ok \/ ~args.strict THEN 0 ELSE 1

\* The worker touches queue/done/<shard> after a status of 0.
Return == /\ stage = "exit"
          /\ marked' = (Status = 0)
          /\ Exit
          /\ UNCHANGED <<main, copies, coverage, manifest, shardReport, args, launches, buf,
                         bufs, cut, intact>>

\* Variant with a bug: the handler forgets the outcome files.
Terminate_MainOnly == /\ stage \in {"loop", "copy", "raise"} /\ launches < MaxLaunches
                      /\ cut' = IF stage = "copy" THEN cut \cup {at - 1} ELSE cut
                      /\ main' = Appended(main, buf) /\ buf' = <<>> /\ bufs' = NoCopies
                      /\ Exit
                      /\ UNCHANGED <<copies, coverage, manifest, shardReport, marked, args,
                                     launches, intact>>

\* SIGTERM: the handler drains both kinds of buffers and lets the process die.
\* Between the two halves of append it finds the record in one buffer only.
Terminate == /\ stage \in {"loop", "copy", "raise"} /\ launches < MaxLaunches
             /\ cut' = IF stage = "copy" THEN cut \cup {at - 1} ELSE cut
             /\ Drain /\ Exit
             /\ UNCHANGED <<coverage, manifest, shardReport, marked, args, launches, intact>>

\* SIGTERM while the sink is closed: once the first outcome file is closed the
\* handler fails at it and swallows the error, so the others lose their buffers.
TerminateClose ==
  /\ stage \in {"abort", "close"} /\ launches < MaxLaunches
  /\ \/ Drain /\ UNCHANGED intact
     \/ /\ bufs # NoCopies /\ bufs' = NoCopies /\ intact' = FALSE
        /\ UNCHANGED <<main, copies, buf>>
  /\ Exit
  /\ UNCHANGED <<coverage, manifest, shardReport, marked, args, launches, cut>>

\* SIGKILL: each file keeps a prefix of its own buffer.
Kill == /\ stage # "idle" /\ launches < MaxLaunches
        /\ main' \in AfterKill(main, buf, Tears)
        /\ \E kept \in [Classes -> {"none", "all"}] :
             copies' = [o \in Classes |->
                          IF kept[o] = "all" THEN Appended(copies[o], bufs[o]) ELSE copies[o]]
        /\ buf' = <<>> /\ bufs' = NoCopies /\ intact' = FALSE
        /\ Exit
        /\ UNCHANGED <<coverage, manifest, shardReport, marked, args, launches, cut>>

Step == \/ Launch \/ Skip
        \/ \E c \in Cands : \E x \in Executions[c] : Execute(x[1], x[2])
        \/ Copy \/ FlushMain
        \/ CloseMain \/ (\E o \in Classes : CloseCopy(o)) \/ Leave
        \/ AppendLedgers \/ WriteManifest \/ TruncateReport
        \/ WriteReport \/ Return

ShardNext == Step \/ Warn \/ Terminate \/ TerminateClose \/ Kill

ShardSpec == ShardInit /\ [][ShardNext]_shardVars

\* The scheduler launches the shard again and runs its session to the end.
FairShard == ShardSpec /\ WF_shardVars(Step)

-----------------------------------------------------------------------------
(***************************************************************************)
(* Properties.                                                             *)
(***************************************************************************)
Records == [cand : Cands, class : Classes]
Lines == Records \cup {Junk}

ShardTypes ==
          /\ main \in [lines : Seq(Lines), open : BOOLEAN]
          /\ copies \in [Classes -> [lines : Seq(Records), open : {FALSE}]]
          /\ coverage \in [Cands -> Nat] /\ manifest \in Nat /\ marked \in BOOLEAN
          /\ shardReport \in {NoReport, Torn} \cup
               [kind : {"whole"}, ok : BOOLEAN, solved : 0 .. N, failed : 0 .. 2 * N,
                skipped : 0 .. N, exceptions : 0 .. N]
          /\ args \in [strict : BOOLEAN, metric : {"failure", "software_error"}]
          /\ launches \in 0 .. MaxLaunches /\ at \in 1 .. N + 1
          /\ stage \in {"idle", "loop", "copy", "raise", "abort", "close", "ledger", "manifest",
                       "truncate", "report", "exit"}
          /\ loaded \subseteq Cands /\ since \in 0 .. FlushEvery
          /\ buf \in Seq(Records) /\ bufs \in [Classes -> Seq(Records)]
          /\ seen \in [Cands -> [fate : Fates \cup {"none", "skipped"},
                                 class : Classes \cup {"none"}]]
          /\ cut \subseteq Cands /\ intact \in BOOLEAN

\* samples.jsonl never holds a candidate twice, whichever sessions were killed
\* and whatever their copies kept: the main file alone decides what is done.
Recorded == main.lines \o buf
NoSecondRecord ==
  \A i, j \in DOMAIN Recorded :
    i < j /\ Recorded[i] # Junk => Recorded[i].cand # Recorded[j].cand

\* Unless a session was killed outright, an outcome file could not be opened or
\* a signal broke off their close, the outcome files split samples.jsonl by
\* class, in its order, but for one record per session at most: the one between
\* whose two writes SIGTERM came, which no resumed session writes again.  Early
\* warnings, even there, aborts and resumes cost nothing (docs/schema_contracts.md).
\* No record is there twice, so a copy with the records of its class in the order
\* of samples.jsonl is the subsequence of that class.
Copied(o) == copies[o].lines \o bufs[o]
Uncopied == cut \cup (IF stage = "copy" THEN {at - 1} ELSE {})
SameRecords(o) ==
  {Copied(o)[i] : i \in DOMAIN Copied(o)}
    = {Recorded[i] : i \in {j \in DOMAIN Recorded : /\ Recorded[j].class = o
                                                     /\ Recorded[j].cand \notin Uncopied}}
SameOrder(o) == \A i, j \in DOMAIN Copied(o) : i < j =>
  \E p, q \in DOMAIN Recorded : p < q /\ Recorded[p] = Copied(o)[i] /\ Recorded[q] = Copied(o)[j]
CopiesSplitMain == intact => /\ Cardinality(cut) <= launches
                             /\ \A o \in Classes : SameRecords(o) /\ SameOrder(o)

Clean == ~main.open /\ Junk \notin Range(main.lines)
InFile == {r.cand : r \in Decoded(main)}

\* A shard marked done lacks no more records than its last report has
\* exceptions, across every session that contributed to the file.
DoneMeansSampled ==
  marked /\ Clean => Cardinality(Cands \ InFile) <= shardReport.exceptions

\* The coverage ledger never counts a candidate twice and never one without a
\* record, although its rows are written long after the record.
CoverageSound ==
  Clean => \A c \in Cands : coverage[c] <= (IF c \in InFile THEN 1 ELSE 0)

\* The verdict of a session that had everything to do is about the files: it
\* is ok exactly if the candidates with no record or a bad one are few enough.
\* An exception after the record is counted twice, so such sessions are left out.
BadClasses == IF args.metric = "failure" THEN Classes \ {"converged_valid"}
                                         ELSE {"software_model_error"}
BadOnDisk == Cands \ {r.cand : r \in {x \in Decoded(main) : x.class \notin BadClasses}}
VerdictAboutFiles ==
  stage = "exit" /\ loaded = {} /\ Clean /\ With({"copy", "late"}) = {}
    => (shardReport.ok <=> Cardinality(BadOnDisk) * MaxDen <= MaxNum * N)

\* Files, reports and verdicts of all sessions agree: see the parts.
RecordsSound == /\ ShardTypes /\ NoSecondRecord /\ CopiesSplitMain /\ DoneMeansSampled
                /\ CoverageSound /\ VerdictAboutFiles

\* With the job's options every shard is marked done at last, whatever its
\* outcomes, its exceptions and the kills.
ShardCompletes == ~args.strict => <>marked
=============================================================================
