------------------------------ MODULE PfProofs ------------------------------
(***************************************************************************)
(* Proofs about a power-flow round.  First the map task of a shard         *)
(* (PfShard), for any number of candidates and sessions, any flush         *)
(* interval, any results and any tears; then the replays and reductions    *)
(* (PfReduce), for any number of shards, of replay campaigns and of        *)
(* reductions.                                                             *)
(***************************************************************************)
EXTENDS PfShard, PfReduce, SampleFileProofs, FiniteSetTheorems

(***************************************************************************)
(* The inductive invariant of a shard.                                     *)
(***************************************************************************)
InSession == {"loop", "copy", "raise"}
Closing == {"abort", "close"}
After == {"ledger", "manifest", "truncate", "report", "exit"}
Written == {"copy", "late", "done"}   \* fates that leave a record

\* Where the session is in its candidates, and what each of them has met.
Progress ==
  /\ main.open => main.lines # <<>>
  /\ stage = "idle" => seen = Fresh /\ loaded = {} /\ at = 1 /\ since = 0
  /\ stage \notin InSession => buf = <<>>
  /\ stage \notin InSession \cup Closing => bufs = NoCopies
  /\ stage \in After \cup {"close"} => at = N + 1
  /\ stage = "copy" => /\ at - 1 \in Cands \ loaded /\ seen[at - 1].fate \in Written
                       /\ since < FlushEvery
  /\ \A c \in Cands : /\ (seen[c].fate = "none") <=> (c >= at)
                      /\ (seen[c].fate = "skipped") <=> (c < at /\ c \in loaded)
                      /\ seen[c].fate \in Written => seen[c].class \in Classes
  /\ marked => stage = "idle"
  /\ launches = 0 => main = Empty /\ stage = "idle"

\* No second record; what is recorded is not to be solved in this session.
Once(s) == \A i, j \in DOMAIN s : i < j /\ s[i] # Junk => s[i].cand # s[j].cand
Known == stage # "idle" =>
  \A i \in DOMAIN Recorded : Recorded[i] # Junk =>
     Recorded[i].cand \in loaded \/ Recorded[i].cand < at

\* In a file that is whole there are the records of the earlier sessions and
\* those of this one, of the class this session has seen.
Kept == Clean /\ stage # "idle" =>
  /\ \A i \in DOMAIN Recorded :
       Recorded[i].cand \in loaded
         \/ (/\ seen[Recorded[i].cand].fate \in Written
             /\ seen[Recorded[i].cand].class = Recorded[i].class)
  /\ \A c \in loaded \cup With(Written) : \E i \in DOMAIN Recorded : Recorded[i].cand = c
IntactClean == intact => Clean

\* Between its two writes the record of a candidate is the last of those recorded.
HalfWritten == stage = "copy" /\ Clean =>
  Len(Recorded) \in DOMAIN Recorded /\ Recorded[Len(Recorded)] = Latest

\* A candidate whose copy was cut off is in the file, so the sessions that resume
\* load it and do not solve it again; and a session cuts off one copy at most.
CutLoaded == intact => cut \subseteq InFile /\ (stage # "idle" => cut \subseteq loaded)
CutCount == Cardinality(cut) + (IF stage = "idle" THEN 0 ELSE 1) <= launches

\* Coverage rows are about candidates with a record; a session that may still
\* write rows has the candidates of the earlier ones loaded.
Covered == Clean => \A c \in Cands :
  /\ coverage[c] <= 1
  /\ coverage[c] > 0 => c \in InFile
  /\ coverage[c] > 0 /\ stage \in InSession \cup Closing \cup {"ledger"} => c \in loaded

Account == [kind |-> "whole", ok |-> QualityOk, solved |-> Cardinality(Solved),
            failed |-> Failed, skipped |-> Cardinality(With({"skipped"})),
            exceptions |-> Exceptions]
Reported == stage = "exit" => shardReport = Account

ShardIInv == /\ ShardTypes /\ Progress /\ NoSecondRecord /\ Known /\ Kept /\ IntactClean
             /\ HalfWritten /\ CutLoaded /\ CutCount /\ CopiesSplitMain
             /\ Covered /\ Reported /\ DoneMeansSampled

(***************************************************************************)
(* Records, classes and counts.                                            *)
(***************************************************************************)
LEMMA ShardFacts ==
  /\ N \in Nat /\ FlushEvery \in Nat \ {0} /\ Cands = 1 .. N
  /\ Junk \notin Records /\ Lines = LinesOf(Records) /\ Junk.cand \notin Cands
  /\ \A r \in Records : r.cand \in Cands /\ r.class \in Classes /\ r # Junk
BY PfBounds DEF Records, Lines, LinesOf, Junk, Cands

LEMMA ClassOfResult ==
  ASSUME NEW result \in Results PROVE OutcomeClass(result) \in Classes
BY DEF Results, OutcomeClass, Classes

LEMMA CountFacts ==
  ASSUME NEW A, A \subseteq Cands
  PROVE  IsFiniteSet(A) /\ Cardinality(A) \in 0 .. N
<1>1. IsFiniteSet(Cands) /\ Cardinality(Cands) = N
  BY ShardFacts, FS_Interval DEF Cands
<1>2. IsFiniteSet(A) /\ Cardinality(A) <= Cardinality(Cands) /\ Cardinality(A) \in Nat
  BY <1>1, FS_Subset, FS_CardinalityType
<1> QED BY <1>1, <1>2, ShardFacts

LEMMA DisjointSum ==
  ASSUME NEW A, NEW B, A \subseteq Cands, B \subseteq Cands, A \cap B = {}
  PROVE  Cardinality(A \cup B) = Cardinality(A) + Cardinality(B)
<1>1. IsFiniteSet(A) /\ IsFiniteSet(B) /\ Cardinality(A) \in Nat /\ Cardinality(B) \in Nat
  BY CountFacts
<1>2. Cardinality(A \cup B) = Cardinality(A) + Cardinality(B) - Cardinality(A \cap B)
  BY <1>1, FS_Union
<1>3. Cardinality(A \cap B) = 0
  BY FS_EmptySet
<1> QED BY <1>1, <1>2, <1>3

LEMMA AccountType ==
  ASSUME TRUE
  PROVE  Account \in [kind : {"whole"}, ok : BOOLEAN, solved : 0 .. N, failed : 0 .. 2 * N,
                      skipped : 0 .. N, exceptions : 0 .. N]
<1> DEFINE n == Cardinality(Nonvalid)
           e == Cardinality(With({"early", "copy", "late"}))
<1>1. /\ n \in 0 .. N /\ e \in 0 .. N /\ Cardinality(Solved) \in 0 .. N
      /\ Cardinality(With({"skipped"})) \in 0 .. N
  <2>1. Nonvalid \subseteq Cands /\ Solved \subseteq Cands
    BY DEF Nonvalid, Solved, With
  <2>2. With({"early", "copy", "late"}) \subseteq Cands /\ With({"skipped"}) \subseteq Cands
    BY DEF With
  <2> QED BY <2>1, <2>2, CountFacts
<1>2. Failed = n + e /\ Exceptions = Failed - n
  BY DEF Failed, Exceptions
<1> HIDE DEF n, e
<1>3. Failed \in 0 .. 2 * N /\ Exceptions \in 0 .. N
  BY <1>1, <1>2, ShardFacts
<1>4. QualityOk \in BOOLEAN
  BY DEF QualityOk
<1> QED BY <1>1, <1>3, <1>4 DEF Account

(***************************************************************************)
(* What a step does to the files and the buffers.                          *)
(***************************************************************************)
Quiet == \/ Launch \/ Skip \/ Leave \/ AppendLedgers \/ WriteManifest \/ TruncateReport
         \/ WriteReport \/ Return \/ UNCHANGED shardVars
\* SIGTERM while the sink is closed: all is flushed, or the outcome files lose
\* their buffers.
Orderly == TerminateClose /\ Drain /\ UNCHANGED intact
Losing == /\ TerminateClose /\ bufs' = NoCopies /\ intact' = FALSE
          /\ UNCHANGED <<main, copies, buf>>
Draining == Warn \/ Terminate \/ Orderly
ToMain == FlushMain \/ CloseMain
ToCopies == Copy \/ Losing \/ \E o \in Classes : CloseCopy(o)
Flushed == Follows(main', main, buf, Records) /\ buf' = <<>>

LEMMA ShardSteps ==
  ASSUME [ShardNext]_shardVars
  PROVE  \/ Quiet \/ ToMain \/ ToCopies \/ Draining \/ Kill
         \/ \E result, fate : Execute(result, fate)
<1>1. TerminateClose => Orderly \/ Losing
  BY DEF TerminateClose, Orderly, Losing
<1> QED BY <1>1 DEF ShardNext, Step, Quiet, Draining, ToMain, ToCopies

LEMMA QuietFiles ==
  ASSUME Quiet PROVE UNCHANGED <<main, copies, buf, bufs, cut, intact>>
BY DEF Quiet, Launch, Skip, Leave, AppendLedgers, WriteManifest, TruncateReport, WriteReport,
       Return, shardVars, disk

\* The second half of append, and the closing of the outcome files, leave
\* samples.jsonl alone.
LEMMA CopiesLeaveMain ==
  ASSUME ToCopies
  PROVE  /\ UNCHANGED <<main, buf, coverage, manifest, shardReport, marked, args, launches, cut>>
         /\ Recorded' = Recorded
BY DEF ToCopies, Copy, Losing, TerminateClose, CloseCopy, disk, Recorded

LEMMA MainLeavesCopies ==
  ASSUME ToMain
  PROVE  UNCHANGED <<copies, bufs, coverage, manifest, shardReport, marked, args, launches, at,
                     loaded, seen, cut, intact>>
BY DEF ToMain, FlushMain, CloseMain

LEMMA ShardFiles ==
  ASSUME ShardTypes, Progress
  PROVE  /\ Proper(main, Records) /\ buf \in Seq(Records)
         /\ main.lines \in Seq(Lines) /\ main.open \in BOOLEAN
BY ShardFacts DEF ShardTypes, Progress, Proper, Files

LEMMA ExecuteFacts ==
  ASSUME ShardTypes, NEW result, NEW fate, Execute(result, fate)
  PROVE  /\ at \in Cands /\ at \notin loaded /\ stage = "loop"
         /\ fate \in Fates /\ OutcomeClass(result) \in Classes
         /\ [cand |-> at, class |-> OutcomeClass(result)] \in Records
<1>1. at \in Cands /\ at \notin loaded /\ stage = "loop"
  BY ShardFacts DEF Execute, Turn, ShardTypes
<1>2. <<result, fate>> \in Results \X Fates
  BY <1>1, ExecutionsAssumption DEF Execute
<1>3. result \in Results /\ fate \in Fates
  BY <1>2
<1> QED BY <1>1, <1>3, ClassOfResult DEF Records

LEMMA FlushedSteps ==
  ASSUME ShardTypes, Progress, ToMain \/ Draining \/ Kill
  PROVE  Flushed
<1>1. Proper(main, Records) /\ buf \in Seq(Records)
  BY ShardFiles
<1>2. CASE ToMain \/ Draining
  BY <1>1, <1>2, AppendedFollows DEF ToMain, FlushMain, CloseMain, Draining, Warn, Terminate,
                                     Orderly, Drain, Flushed
<1>3. CASE Kill
  BY <1>1, <1>3, KillFollows DEF Kill, Flushed
<1> QED BY <1>2, <1>3

LEMMA CopyAppended ==
  ASSUME NEW f \in [lines : Seq(Records), open : {FALSE}], NEW b \in Seq(Records)
  PROVE  /\ Appended(f, b) \in [lines : Seq(Records), open : {FALSE}]
         /\ Appended(f, b).lines = f.lines \o b
<1>1. f.lines \in Seq(Records) /\ f.open = FALSE
  OBVIOUS
<1>2. f.lines \o b \in Seq(Records) /\ f.lines \o <<>> = f.lines
  BY <1>1, ConcatProperties, ConcatEmptySeq
<1>3. CASE b = <<>>
  BY <1>1, <1>2, <1>3 DEF Appended
<1>4. CASE b # <<>>
  <2>1. Appended(f, b) = [lines |-> f.lines \o b, open |-> FALSE]
    BY <1>1, <1>4 DEF Appended
  <2> QED BY <1>2, <2>1
<1> QED BY <1>3, <1>4

\* A flush leaves every outcome file with its buffer at its end; a kill with it or
\* without it.
LEMMA CopySteps ==
  ASSUME ShardTypes, Draining \/ Kill
  PROVE  /\ copies' \in [Classes -> [lines : Seq(Records), open : {FALSE}]] /\ bufs' = NoCopies
         /\ Draining => \A o \in Classes : copies'[o].lines = copies[o].lines \o bufs[o]
<1>1. \A o \in Classes : /\ copies[o] \in [lines : Seq(Records), open : {FALSE}]
                         /\ bufs[o] \in Seq(Records)
  BY DEF ShardTypes
<1>2. \A o \in Classes : /\ Appended(copies[o], bufs[o]) \in [lines : Seq(Records), open : {FALSE}]
                         /\ Appended(copies[o], bufs[o]).lines = copies[o].lines \o bufs[o]
  BY <1>1, CopyAppended
<1>3. CASE Draining
  <2>1. copies' = [o \in Classes |-> Appended(copies[o], bufs[o])] /\ bufs' = NoCopies
    BY <1>3 DEF Draining, Warn, Terminate, Orderly, Drain
  <2> QED BY <1>2, <2>1
<1>4. ASSUME Kill
      PROVE  copies' \in [Classes -> [lines : Seq(Records), open : {FALSE}]] /\ bufs' = NoCopies
  <2>1. PICK kept \in [Classes -> {"none", "all"}] :
          copies' = [o \in Classes |->
                       IF kept[o] = "all" THEN Appended(copies[o], bufs[o]) ELSE copies[o]]
    BY <1>4 DEF Kill
  <2>2. bufs' = NoCopies
    BY <1>4 DEF Kill
  <2> QED BY <1>1, <1>2, <2>1, <2>2
<1> QED BY <1>3, <1>4

\* The second write of a record.
LEMMA CopyWrites ==
  ASSUME ShardTypes, Progress, Copy
  PROVE  LET class == Latest.class
             s == Append(bufs[class], Latest)
         IN  /\ at - 1 \in Cands /\ Latest.cand = at - 1
             /\ class \in Classes /\ Latest \in Records /\ s \in Seq(Records)
             /\ at \in Nat /\ at - 1 < at
             /\ \/ bufs' = bufs /\ intact' = FALSE
                \/ bufs' = [bufs EXCEPT ![class] = s] /\ intact' = intact
             /\ copies' = copies
<1> DEFINE class == Latest.class
           r == Latest
<1>1. at - 1 \in Cands /\ r = [cand |-> at - 1, class |-> class]
  BY DEF Progress, Copy, Latest
<1>1a. class \in Classes /\ at \in Nat /\ at - 1 < at
  <2>1. class \in Classes
    BY <1>1 DEF Progress, Copy, Latest
  <2> QED BY <2>1, ShardFacts DEF ShardTypes
<1>2. r \in Records /\ Append(bufs[class], r) \in Seq(Records)
  <2>1. r \in Records
    BY <1>1, <1>1a DEF Records
  <2>2. bufs[class] \in Seq(Records)
    BY <1>1a DEF ShardTypes
  <2> HIDE DEF r, class
  <2> QED BY <2>1, <2>2, AppendProperties
<1>3. \/ bufs' = bufs /\ intact' = FALSE
      \/ bufs' = [bufs EXCEPT ![class] = Append(bufs[class], r)] /\ intact' = intact
  BY DEF Copy
<1>4. copies' = copies
  BY DEF Copy, disk
<1> QED BY <1>1, <1>1a, <1>2, <1>3, <1>4

\* One outcome file is flushed and closed.
LEMMA CopyCloses ==
  ASSUME ShardTypes, NEW p \in Classes, CloseCopy(p)
  PROVE  /\ copies' \in [Classes -> [lines : Seq(Records), open : {FALSE}]]
         /\ bufs' \in [Classes -> Seq(Records)]
         /\ \A o \in Classes : Copied(o)' = Copied(o)
<1>1. /\ copies \in [Classes -> [lines : Seq(Records), open : {FALSE}]]
      /\ bufs \in [Classes -> Seq(Records)] /\ <<>> \in Seq(Records)
  BY EmptySeq DEF ShardTypes
<1>2. /\ copies' = [copies EXCEPT ![p] = Appended(copies[p], bufs[p])]
      /\ bufs' = [bufs EXCEPT ![p] = <<>>]
  BY DEF CloseCopy
<1> DEFINE f == Appended(copies[p], bufs[p])
<1>3. /\ f \in [lines : Seq(Records), open : {FALSE}]
      /\ f.lines = copies[p].lines \o bufs[p] /\ f.lines \o <<>> = f.lines
  <2>1. copies[p] \in [lines : Seq(Records), open : {FALSE}] /\ bufs[p] \in Seq(Records)
    BY <1>1
  <2>2. f \in [lines : Seq(Records), open : {FALSE}] /\ f.lines = copies[p].lines \o bufs[p]
    BY <2>1, CopyAppended
  <2> HIDE DEF f
  <2> QED BY <2>2, ConcatEmptySeq
<1> HIDE DEF f
<1>4. ASSUME NEW o \in Classes PROVE Copied(o)' = Copied(o)
  <2>1. CASE o = p
    BY <1>1, <1>2, <1>3, <2>1 DEF Copied, f
  <2>2. CASE o # p
    BY <1>1, <1>2, <2>2 DEF Copied
  <2> QED BY <2>1, <2>2
<1> QED BY <1>1, <1>2, <1>3, <1>4 DEF f

(***************************************************************************)
(* Every step keeps the types.                                             *)
(***************************************************************************)
LEMMA InFileCands ==
  ASSUME ShardTypes, Progress PROVE InFile \subseteq Cands
<1> SUFFICES ASSUME NEW r \in Decoded(main) PROVE r.cand \in Cands
  BY DEF InFile
<1>1. r \in Lines /\ r # Junk
  BY ShardFiles, FileTypes, ShardFacts DEF Decoded
<1> QED BY <1>1, ShardFacts DEF Lines

LEMMA FreshTypes == Fresh \in [Cands -> [fate : Fates \cup {"none", "skipped"},
                                         class : Classes \cup {"none"}]]
                    /\ NoCopies \in [Classes -> Seq(Records)] /\ <<>> \in Seq(Records)
BY EmptySeq DEF Fresh, None, NoCopies

LEMMA ShardTypesNext == ShardTypes /\ Progress /\ [ShardNext]_shardVars => ShardTypes'
<1> SUFFICES ASSUME ShardTypes, Progress, [ShardNext]_shardVars PROVE ShardTypes'
  OBVIOUS
<1>0. ASSUME main' \in [lines : Seq(Lines), open : BOOLEAN],
             copies' \in [Classes -> [lines : Seq(Records), open : {FALSE}]],
             buf' \in Seq(Records), bufs' \in [Classes -> Seq(Records)],
             coverage' \in [Cands -> Nat], manifest' \in Nat, marked' \in BOOLEAN,
             shardReport' \in {NoReport, Torn} \cup
               [kind : {"whole"}, ok : BOOLEAN, solved : 0 .. N, failed : 0 .. 2 * N,
                skipped : 0 .. N, exceptions : 0 .. N],
             args' = args, launches' \in 0 .. MaxLaunches, at' \in 1 .. N + 1,
             stage' \in {"idle", "loop", "copy", "raise", "abort", "close", "ledger", "manifest",
                         "truncate", "report", "exit"},
             loaded' \subseteq Cands, since' \in 0 .. FlushEvery,
             seen' \in [Cands -> [fate : Fates \cup {"none", "skipped"},
                                  class : Classes \cup {"none"}]],
             cut' \subseteq Cands, intact' \in BOOLEAN
      PROVE  ShardTypes'
  BY <1>0 DEF ShardTypes
<1>0a. 1 \in 1 .. N + 1 /\ 0 \in 0 .. FlushEvery
  BY PfBounds
<1>1. CASE Launch
  <2>1. loaded' \subseteq Cands
    BY <1>1, InFileCands DEF Launch, InFile
  <2>2. launches' \in 0 .. MaxLaunches
    BY <1>1, PfBounds DEF Launch, ShardTypes
  <2> QED BY <1>1, <2>1, <2>2 DEF Launch, disk, ShardTypes
<1>2. CASE Skip
  <2>1. at \in Cands /\ at' = at + 1 /\ at' \in 1 .. N + 1
    BY <1>2, ShardFacts DEF Skip, Turn, ShardTypes
  <2>2. seen' \in [Cands -> [fate : Fates \cup {"none", "skipped"},
                             class : Classes \cup {"none"}]]
    BY <1>2, <2>1 DEF Skip, Skipped, ShardTypes
  <2> QED BY <1>2, <2>1, <2>2, ZenonT(30) DEF Skip, disk, ShardTypes
<1>3. ASSUME NEW result, NEW fate, Execute(result, fate) PROVE ShardTypes'
  <2> DEFINE r == [cand |-> at, class |-> OutcomeClass(result)]
  <2>1. /\ at \in Cands /\ fate \in Fates /\ OutcomeClass(result) \in Classes /\ r \in Records
    BY <1>3, ExecuteFacts
  <2>2. at' = at + 1 /\ at' \in 1 .. N + 1
    BY <1>3, <2>1, ShardFacts DEF Execute, Turn, ShardTypes
  <2>4. seen' \in [Cands -> [fate : Fates \cup {"none", "skipped"},
                             class : Classes \cup {"none"}]]
    BY <1>3, <2>1 DEF Execute, ShardTypes
  <2>5. buf' \in Seq(Records)
    <3>1. buf' = buf \/ buf' = Append(buf, r)
      BY <1>3 DEF Execute
    <3> HIDE DEF r
    <3>2. buf \in Seq(Records)
      BY DEF ShardTypes
    <3>3. Append(buf, r) \in Seq(Records)
      BY <2>1, <3>2, AppendProperties
    <3> QED BY <3>1, <3>2, <3>3
  <2>6. stage' \in {"raise", "loop", "copy"}
    BY <1>3 DEF Execute, Onward
  <2>7. UNCHANGED <<main, copies, coverage, manifest, shardReport, marked, args, launches, loaded,
                    bufs, since, cut, intact>>
    BY <1>3 DEF Execute, disk
  <2> HIDE DEF r
  <2> QED BY <2>2, <2>4, <2>5, <2>6, <2>7 DEF ShardTypes
<1>3a. CASE Copy
  <2> DEFINE class == Latest.class
             s == Append(bufs[class], Latest)
  <2>1. class \in Classes /\ s \in Seq(Records) /\ copies' = copies
        /\ (bufs' = bufs \/ bufs' = [bufs EXCEPT ![class] = s])
    BY <1>3a, CopyWrites
  <2> HIDE DEF class, s
  <2>2. bufs' \in [Classes -> Seq(Records)]
    BY <2>1 DEF ShardTypes
  <2>3. /\ since' \in {since, since + 1} /\ stage' \in {"raise", "loop"}
        /\ intact' \in {intact, FALSE} /\ stage = "copy" /\ UNCHANGED <<at, loaded, seen>>
    BY <1>3a DEF Copy, Onward
  <2>4. since' \in 0 .. FlushEvery
    BY <2>3, PfBounds DEF ShardTypes, Progress
  <2> QED BY <1>3a, <2>1, <2>2, <2>3, <2>4, CopiesLeaveMain DEF ToCopies, ShardTypes
<1>3b. ASSUME NEW p \in Classes, CloseCopy(p) PROVE ShardTypes'
  BY <1>3b, CopyCloses DEF CloseCopy, ShardTypes
<1>3c. CASE Losing
  <2>1. /\ copies' = copies /\ bufs' \in [Classes -> Seq(Records)]
        /\ intact' \in BOOLEAN /\ Exit
    BY <1>3c, FreshTypes DEF Losing, TerminateClose
  <2> QED BY <1>0a, <1>3c, <2>1, CopiesLeaveMain, FreshTypes DEF ToCopies, Exit, ShardTypes
<1>3d. CASE ToCopies
  BY <1>3a, <1>3b, <1>3c, <1>3d DEF ToCopies
<1>4. ASSUME Flushed
      PROVE  main' \in [lines : Seq(Lines), open : BOOLEAN] /\ buf' \in Seq(Records)
  BY <1>4, ShardFacts, FreshTypes DEF Flushed, Follows, Proper, Files
<1>5. CASE ToMain
  <2>1. Flushed
    BY <1>5, FlushedSteps
  <2>2. since' \in 0 .. FlushEvery /\ stage' \in {stage, "abort", "close"}
    BY <1>5, PfBounds DEF ToMain, FlushMain, CloseMain, ShardTypes
  <2> QED BY <1>4, <1>5, <2>1, <2>2, MainLeavesCopies DEF ShardTypes
<1>6. CASE Draining \/ Kill
  <2>1. Flushed
    BY <1>6, FlushedSteps
  <2>2. /\ copies' \in [Classes -> [lines : Seq(Records), open : {FALSE}]]
        /\ bufs' \in [Classes -> Seq(Records)]
    BY <1>6, CopySteps, FreshTypes
  <2>3. UNCHANGED <<coverage, manifest, shardReport, marked, args, launches>>
    BY <1>6 DEF Draining, Warn, Terminate, Orderly, TerminateClose, Kill
  <2>4. /\ Exit \/ (UNCHANGED <<at, loaded, seen, stage>> /\ since' = 0)
        /\ intact' \in {intact, FALSE} /\ cut' \in {cut, cut \cup {at - 1}}
        /\ cut' # cut => stage = "copy"
    BY <1>6 DEF Draining, Warn, Terminate, Orderly, TerminateClose, Kill
  <2>5. /\ at' \in 1 .. N + 1 /\ loaded' \subseteq Cands /\ since' \in 0 .. FlushEvery
        /\ seen' \in [Cands -> [fate : Fates \cup {"none", "skipped"},
                                class : Classes \cup {"none"}]]
        /\ stage' \in {stage, "idle"}
    BY <2>4, <1>0a, FreshTypes DEF ShardTypes, Exit
  <2>6. cut' \subseteq Cands
    BY <2>4 DEF ShardTypes, Progress
  <2> QED BY <1>4, <2>1, <2>2, <2>3, <2>4, <2>5, <2>6, ZenonT(30) DEF ShardTypes
<1>7. CASE AppendLedgers
  <2>1. \A c \in Cands : coverage[c] + (IF seen[c].fate = "done" THEN 1 ELSE 0) \in Nat
    BY DEF ShardTypes
  <2>2. coverage' \in [Cands -> Nat]
    BY <1>7, <2>1 DEF AppendLedgers
  <2> QED BY <1>7, <2>2 DEF AppendLedgers, ShardTypes
<1>8. CASE WriteManifest
  <2>1. manifest' \in Nat
    BY <1>8, ShardFiles, LenProperties DEF WriteManifest
  <2> QED BY <1>8, <2>1 DEF WriteManifest, ShardTypes
<1>9. CASE TruncateReport
  BY <1>9 DEF TruncateReport, ShardTypes
<1>10. CASE WriteReport
  <2>1. shardReport' = Account
    BY <1>10 DEF WriteReport, Account
  <2> QED BY <1>10, <2>1, AccountType DEF WriteReport, ShardTypes
<1>11. CASE Return
  <2>1. /\ Exit /\ marked' \in BOOLEAN
        /\ UNCHANGED <<main, copies, coverage, manifest, shardReport, args, launches, buf,
                       bufs, cut, intact>>
    BY <1>11 DEF Return
  <2> QED BY <1>0a, <2>1, FreshTypes DEF Exit, ShardTypes
<1>11a. CASE Leave
  <2>1. /\ Exit \/ (stage' = "ledger" /\ UNCHANGED <<at, loaded, since, seen>>)
        /\ UNCHANGED <<disk, args, launches, buf, bufs, cut, intact>>
    BY <1>11a DEF Leave
  <2> QED BY <1>0a, <2>1, FreshTypes DEF Exit, disk, ShardTypes
<1>12. CASE UNCHANGED shardVars
  BY <1>12, ZenonT(30) DEF shardVars, disk, ShardTypes
<1> QED BY <1>1, <1>2, <1>3, <1>3d, <1>5, <1>6, <1>7, <1>8, <1>9, <1>10, <1>11, <1>11a, <1>12,
           ShardSteps DEF Quiet

(***************************************************************************)
(* Every step keeps the session's progress.                                *)
(***************************************************************************)
Met(s, n, from, c) == /\ (s[c].fate = "none") <=> (c >= n)
                      /\ (s[c].fate = "skipped") <=> (c < n /\ c \in from)
                      /\ s[c].fate \in Written => s[c].class \in Classes

LEMMA FreshMet == \A from : \A c \in Cands : Met(Fresh, 1, from, c)
BY ShardFacts DEF Met, Fresh, None, Written

LEMMA MetNext ==
  ASSUME ShardTypes, Progress, [ShardNext]_shardVars
  PROVE  \A c \in Cands : Met(seen', at', loaded', c)
<1> SUFFICES ASSUME NEW c \in Cands PROVE Met(seen', at', loaded', c)
  OBVIOUS
<1>0. Met(seen, at, loaded, c) /\ at \in Nat /\ c \in Nat
  BY ShardFacts DEF Progress, Met, ShardTypes
<1>1. CASE UNCHANGED <<seen, at, loaded>>
  BY <1>0, <1>1
<1>2. CASE Exit \/ Launch
  <2>1. seen' = Fresh /\ at' = 1
    BY <1>2 DEF Exit, Launch, Progress
  <2> QED BY <2>1, FreshMet
<1>3. CASE Skip
  <2>1. /\ at \in Cands /\ at \in loaded /\ at' = at + 1 /\ loaded' = loaded
        /\ seen' = [seen EXCEPT ![at] = Skipped]
    BY <1>3, ShardFacts DEF Skip, Turn, ShardTypes
  <2>2. seen'[c] = IF c = at THEN Skipped ELSE seen[c]
    BY <2>1 DEF ShardTypes
  <2> QED BY <1>0, <2>1, <2>2 DEF Met, Skipped, Written
<1>4. ASSUME NEW result, NEW fate, Execute(result, fate) PROVE Met(seen', at', loaded', c)
  <2>1. at \in Cands /\ at \notin loaded /\ fate \in Fates /\ OutcomeClass(result) \in Classes
    BY <1>4, ExecuteFacts
  <2>2. /\ at' = at + 1 /\ loaded' = loaded
        /\ seen' = [seen EXCEPT ![at] = [fate |-> fate, class |-> OutcomeClass(result)]]
    BY <1>4 DEF Execute
  <2>3. seen'[c] = IF c = at THEN [fate |-> fate, class |-> OutcomeClass(result)] ELSE seen[c]
    BY <2>1, <2>2 DEF ShardTypes
  <2>4. fate # "none" /\ fate # "skipped"
    BY <2>1 DEF Fates
  <2> QED BY <1>0, <2>1, <2>2, <2>3, <2>4 DEF Met, Written
<1>5. CASE Draining \/ Kill \/ ToCopies \/ Leave
  <2>1. Exit \/ UNCHANGED <<seen, at, loaded>>
    BY <1>5 DEF Draining, Warn, Terminate, Orderly, TerminateClose, Kill, ToCopies, Copy, Losing,
                CloseCopy, Leave
  <2> QED BY <1>1, <1>2, <2>1
<1>6. CASE AppendLedgers \/ WriteManifest \/ TruncateReport \/ WriteReport \/ ToMain
             \/ UNCHANGED shardVars
  <2>1. UNCHANGED <<seen, at, loaded>>
    BY <1>6, MainLeavesCopies DEF AppendLedgers, WriteManifest, TruncateReport, WriteReport, shardVars
  <2> QED BY <1>1, <2>1
<1>7. CASE Return
  BY <1>2, <1>7 DEF Return
<1> QED BY <1>2, <1>3, <1>4, <1>5, <1>6, <1>7, ShardSteps DEF Quiet

LEMMA ProgressNext == ShardTypes /\ Progress /\ [ShardNext]_shardVars => Progress'
<1> SUFFICES ASSUME ShardTypes, Progress, [ShardNext]_shardVars PROVE Progress'
  OBVIOUS
<1>1. \A c \in Cands : Met(seen', at', loaded', c)
  BY MetNext
<1>2. ASSUME main'.open => main'.lines # <<>>,
             stage' = "idle" => seen' = Fresh /\ loaded' = {} /\ at' = 1 /\ since' = 0,
             stage' \notin InSession => buf' = <<>>,
             stage' \notin InSession \cup Closing => bufs' = NoCopies,
             stage' \in After \cup {"close"} => at' = N + 1,
             stage' = "copy" => /\ at' - 1 \in Cands \ loaded'
                                /\ seen'[at' - 1].fate \in Written
                                /\ since' < FlushEvery,
             marked' => stage' = "idle",
             launches' = 0 => main' = Empty /\ stage' = "idle"
      PROVE  Progress'
  BY <1>1, <1>2 DEF Progress, Met
<1>3. CASE Launch
  <2>1. launches' # 0 /\ stage' = "loop" /\ ~marked' /\ main' = main
    BY <1>3, PfBounds DEF Launch, ShardTypes, disk
  <2> QED BY <1>2, <2>1 DEF Progress, InSession, Closing, After
<1>4. CASE Skip
  BY <1>2, <1>4 DEF Skip, Turn, disk, Progress, InSession, Closing, After
<1>5. ASSUME NEW result, NEW fate, Execute(result, fate) PROVE Progress'
  <2>1. /\ stage = "loop" /\ stage' \in InSession
        /\ UNCHANGED <<main, marked, launches, loaded>> /\ at' = at + 1
    BY <1>5 DEF Execute, Turn, disk, InSession, Onward
  <2>2. at' - 1 \in Cands \ loaded' /\ at' - 1 = at /\ since' < FlushEvery
    <3>1. at \in Cands /\ at \notin loaded
      BY <1>5, ExecuteFacts
    <3>2. since' < FlushEvery
      BY <1>5 DEF Execute, Turn
    <3> QED BY <2>1, <3>1, <3>2, ShardFacts
  <2>3. stage' = "copy" => seen'[at].fate \in Written
    <3>1. fate \in Fates /\ at \in Cands
      BY <1>5, ExecuteFacts
    <3> QED BY <1>5, <3>1 DEF Execute, Onward, Fates, Written, ShardTypes
  <2> QED BY <1>2, <2>1, <2>2, <2>3 DEF Progress, InSession, Closing, After
<1>6. CASE ToMain
  <2>1. (main'.open => main'.lines # <<>>) /\ buf' = <<>>
    BY <1>6, FlushedSteps DEF Flushed, Follows, Proper
  <2>2. \/ stage = "loop" /\ stage' = "loop"
        \/ stage \in InSession /\ stage' = "abort"
        \/ stage \in InSession /\ stage' = "close" /\ at > N
    BY <1>6 DEF ToMain, FlushMain, CloseMain, InSession
  <2>3. stage' = "close" => at = N + 1
    BY <2>2, ShardFacts DEF ShardTypes
  <2> QED BY <1>2, <1>6, <2>1, <2>2, <2>3, MainLeavesCopies DEF Progress, InSession, Closing, After
<1>7. CASE Draining \/ Kill
  <2>1. main'.open => main'.lines # <<>>
    BY <1>7, FlushedSteps DEF Flushed, Follows, Proper
  <2>2. buf' = <<>> /\ bufs' = NoCopies
    BY <1>7, FlushedSteps, CopySteps DEF Flushed
  <2>3. UNCHANGED <<marked, launches>> /\ stage # "idle"
    BY <1>7 DEF Draining, Warn, Terminate, Orderly, TerminateClose, Kill
  <2>4. \/ Exit
        \/ stage \in InSession /\ UNCHANGED <<stage, at, loaded, seen>> /\ since' = 0
    BY <1>7 DEF Draining, Warn, Terminate, Orderly, TerminateClose, Kill, InSession
  <2>5. CASE Exit
    BY <1>2, <2>1, <2>2, <2>3, <2>5 DEF Exit, Progress, InSession, Closing, After
  <2>6. CASE stage \in InSession /\ UNCHANGED <<stage, at, loaded, seen>> /\ since' = 0
    BY <1>2, <2>1, <2>2, <2>3, <2>6, PfBounds DEF Progress, InSession, Closing, After
  <2> QED BY <2>4, <2>5, <2>6
<1>7a. CASE ToCopies
  <2>1. UNCHANGED <<main, buf, marked, launches>>
    BY <1>7a, CopiesLeaveMain
  <2>2. CASE Copy
    BY <1>2, <2>1, <2>2 DEF Copy, Onward, Progress, InSession, Closing, After
  <2>3. CASE Losing
    BY <1>2, <2>1, <2>3 DEF Losing, TerminateClose, Exit, Progress, InSession, Closing, After
  <2>4. ASSUME NEW p \in Classes, CloseCopy(p) PROVE Progress'
    BY <1>2, <2>1, <2>4 DEF CloseCopy, Progress, InSession, Closing, After
  <2> QED BY <1>7a, <2>2, <2>3, <2>4 DEF ToCopies
<1>7b. CASE Leave
  <2>1. UNCHANGED <<main, buf, bufs, marked, launches>> /\ bufs = NoCopies /\ stage \in Closing
    BY <1>7b DEF Leave, disk, Closing
  <2>2. \/ Exit
        \/ stage = "close" /\ stage' = "ledger" /\ UNCHANGED <<at, loaded, seen, since>>
    BY <1>7b DEF Leave
  <2>3. CASE Exit
    BY <1>2, <2>1, <2>3 DEF Exit, Progress, InSession, Closing, After
  <2>4. CASE stage = "close" /\ stage' = "ledger" /\ UNCHANGED <<at, loaded, seen, since>>
    BY <1>2, <2>1, <2>4 DEF Progress, InSession, Closing, After
  <2> QED BY <2>2, <2>3, <2>4
<1>8. CASE AppendLedgers
  BY <1>2, <1>8 DEF AppendLedgers, Progress, InSession, Closing, After
<1>9. CASE WriteManifest
  BY <1>2, <1>9 DEF WriteManifest, Progress, InSession, Closing, After
<1>10. CASE TruncateReport
  BY <1>2, <1>10 DEF TruncateReport, Progress, InSession, Closing, After
<1>11. CASE WriteReport
  BY <1>2, <1>11 DEF WriteReport, Progress, InSession, Closing, After
<1>12. CASE Return
  BY <1>2, <1>12 DEF Return, Exit, Progress, InSession, Closing, After
<1>13. CASE UNCHANGED shardVars
  BY <1>2, <1>13 DEF shardVars, disk, Progress
<1> QED BY <1>3, <1>4, <1>5, <1>6, <1>7, <1>7a, <1>7b, <1>8, <1>9, <1>10, <1>11, <1>12, <1>13,
           ShardSteps DEF Quiet

(***************************************************************************)
(* No candidate is recorded twice.                                         *)
(***************************************************************************)
LEMMA FollowsOnce ==
  ASSUME NEW f, Proper(f, Records), NEW b \in Seq(Records), NEW g, Follows(g, f, b, Records)
  PROVE  /\ \A i \in DOMAIN g.lines : g.lines[i] # Junk =>
              \E j \in DOMAIN (f.lines \o b) : g.lines[i] = (f.lines \o b)[j]
         /\ Once(f.lines \o b) => Once(g.lines)
<1> DEFINE r == f.lines \o b
           n == Len(f.lines)
<1>1. PICK d \in {0, 1} : \A i \in 1 .. Len(g.lines) : g.lines[i] # Junk =>
           Place(i, n, d) \in 1 .. Len(r) /\ g.lines[i] = r[Place(i, n, d)]
  BY FollowsPlaces
<1>2. /\ Len(g.lines) \in Nat /\ DOMAIN g.lines = 1 .. Len(g.lines) /\ n \in Nat
  BY FileTypes DEF Follows
<1>3. DOMAIN r = 1 .. Len(r)
  BY RecordedAt, LenProperties
<1> HIDE DEF r, n
<1>4. \A i \in DOMAIN g.lines : g.lines[i] # Junk => \E j \in DOMAIN r : g.lines[i] = r[j]
  BY <1>1, <1>2, <1>3
<1>5. ASSUME Once(r), NEW i \in 1 .. Len(g.lines), NEW j \in 1 .. Len(g.lines), i < j,
             g.lines[i] # Junk, g.lines[j] # Junk
      PROVE  g.lines[i].cand # g.lines[j].cand
  <2>1. PICK k \in 1 .. Len(r) : g.lines[i] = r[k] /\ k = Place(i, n, d)
    BY <1>1, <1>5
  <2>2. PICK l \in 1 .. Len(r) : g.lines[j] = r[l] /\ l = Place(j, n, d)
    BY <1>1, <1>5
  <2>3. k < l
    BY <1>2, <1>5, <2>1, <2>2 DEF Place
  <2> QED BY <1>3, <1>5, <2>1, <2>2, <2>3 DEF Once
<1>6. ASSUME NEW i \in 1 .. Len(g.lines), g.lines[i] # Junk
      PROVE  g.lines[i].cand # Junk.cand
  <2>1. g.lines[i] \in LinesOf(Records)
    BY FileTypes DEF Follows
  <2> QED BY <1>6, <2>1, ShardFacts DEF LinesOf
<1>7. Once(r) => Once(g.lines)
  BY <1>2, <1>5, <1>6 DEF Once
<1> QED BY <1>4, <1>7 DEF r

LEMMA RecordedFacts ==
  ASSUME ShardTypes, Progress
  PROVE  /\ Recorded \in Seq(Lines) /\ Len(Recorded) \in Nat
         /\ DOMAIN Recorded = 1 .. Len(Recorded)
         /\ \A i \in DOMAIN Recorded : Recorded[i] \in Lines
<1>1. Recorded \in Seq(Lines)
  BY ShardFiles, ShardFacts, RecordedAt DEF Recorded
<1> QED BY <1>1, LenProperties, ElementOfSeq

LEMMA FlushedRecorded ==
  ASSUME ShardTypes, Progress, Flushed
  PROVE  /\ Recorded' = main'.lines /\ Proper(main', Records)
         /\ \A i \in DOMAIN Recorded' : Recorded'[i] # Junk =>
              \E j \in DOMAIN Recorded : Recorded'[i] = Recorded[j]
         /\ Once(Recorded) => Once(Recorded')
<1>1. Proper(main, Records) /\ buf \in Seq(Records)
  BY ShardFiles
<1>2. Follows(main', main, buf, Records) /\ Proper(main', Records)
  BY DEF Flushed, Follows
<1>3. Recorded' = main'.lines
  <2> DEFINE g == main'
  <2>1. g.lines \o <<>> = g.lines
    BY <1>2, NothingBuffered
  <2> QED BY <2>1 DEF Recorded, Flushed
<1> DEFINE g == main'
<1>4. Follows(g, main, buf, Records)
  BY <1>2
<1> HIDE DEF g
<1>5. /\ \A i \in DOMAIN g.lines : g.lines[i] # Junk =>
           \E j \in DOMAIN (main.lines \o buf) : g.lines[i] = (main.lines \o buf)[j]
      /\ Once(main.lines \o buf) => Once(g.lines)
  BY <1>1, <1>4, FollowsOnce
<1> QED BY <1>2, <1>3, <1>5 DEF g, Recorded

\* A record appended comes last.
LEMMA ExecuteRecorded ==
  ASSUME ShardTypes, Progress, NEW result, NEW fate, Execute(result, fate)
  PROVE  LET r == [cand |-> at, class |-> OutcomeClass(result)]
             n == Len(Recorded)
         IN  \/ fate = "early" /\ Recorded' = Recorded
             \/ /\ fate # "early" /\ Recorded' = Append(Recorded, r)
                /\ DOMAIN Recorded' = 1 .. n + 1 /\ Recorded'[n + 1] = r
                /\ \A i \in 1 .. n : Recorded'[i] = Recorded[i]
<1> DEFINE r == [cand |-> at, class |-> OutcomeClass(result)]
           n == Len(Recorded)
<1>1. main' = main /\ buf' = IF fate = "early" THEN buf ELSE Append(buf, r)
  BY DEF Execute, disk
<1>2. r \in Lines /\ buf \in Seq(Lines) /\ main.lines \in Seq(Lines)
  <2>1. r \in Records
    BY ExecuteFacts
  <2>2. Records \subseteq Lines
    BY DEF Lines
  <2> QED BY <2>1, <2>2, ShardFiles, SeqMonotonic
<1> HIDE DEF r
<1>3. CASE fate = "early"
  BY <1>1, <1>3 DEF Recorded
<1>4. CASE fate # "early"
  <2>1. Recorded' = Append(Recorded, r)
    <3> DEFINE a == main.lines
    <3>1. a \in Seq(Lines)
      BY <1>2
    <3> HIDE DEF a
    <3>2. a \o Append(buf, r) = Append(a \o buf, r)
      BY <1>2, <3>1, ConcatAppend
    <3> QED BY <1>1, <1>4, <3>2 DEF a, Recorded
  <2> DEFINE s == Recorded'
  <2>2. s = Append(Recorded, r) /\ Recorded \in Seq(Lines)
    BY <2>1, RecordedFacts
  <2> HIDE DEF s
  <2>3. /\ s \in Seq(Lines) /\ Len(s) = n + 1 /\ s[n + 1] = r
        /\ \A i \in 1 .. n : s[i] = Recorded[i]
    BY <1>2, <2>2, AppendProperties
  <2>4. DOMAIN s = 1 .. n + 1
    BY <2>3, LenProperties
  <2> QED BY <1>4, <2>1, <2>3, <2>4 DEF s, r
<1> QED BY <1>3, <1>4 DEF r

LEMMA NoSecondNext ==
  ASSUME ShardTypes, Progress, NoSecondRecord, Known, [ShardNext]_shardVars
  PROVE  NoSecondRecord'
<1>0. Once(Recorded)
  BY DEF NoSecondRecord, Once
<1>1. CASE Quiet \/ ToCopies
  <2>1. Recorded' = Recorded
    BY <1>1, QuietFiles, CopiesLeaveMain DEF Recorded
  <2> QED BY <2>1 DEF NoSecondRecord
<1>2. CASE ToMain \/ Draining \/ Kill
  <2>1. Once(Recorded')
    BY <1>0, <1>2, FlushedSteps, FlushedRecorded
  <2> QED BY <2>1 DEF Once, NoSecondRecord
<1>3. ASSUME NEW result, NEW fate, Execute(result, fate) PROVE NoSecondRecord'
  <2> DEFINE r == [cand |-> at, class |-> OutcomeClass(result)]
             n == Len(Recorded)
             s == Recorded'
  <2>1. CASE s = Recorded
    BY <2>1 DEF NoSecondRecord
  <2>2. CASE /\ DOMAIN s = 1 .. n + 1 /\ s[n + 1] = r
             /\ \A i \in 1 .. n : s[i] = Recorded[i]
    <3>1. \A i \in 1 .. n : Recorded[i].cand # at
      <4> SUFFICES ASSUME NEW i \in 1 .. n, Recorded[i].cand = at PROVE FALSE
        OBVIOUS
      <4>1. at \in Cands /\ at \notin loaded /\ stage = "loop" /\ at \in Nat
        <5>1. at \in Cands /\ at \notin loaded /\ stage = "loop"
          BY <1>3, ExecuteFacts
        <5> QED BY <5>1, ShardFacts
      <4>2. Recorded[i] # Junk /\ i \in DOMAIN Recorded
        BY <4>1, ShardFacts, RecordedFacts
      <4> QED BY <4>1, <4>2 DEF Known
    <3>2. r.cand = at /\ n \in Nat /\ DOMAIN Recorded = 1 .. n
      BY RecordedFacts
    <3> HIDE DEF r, n, s
    <3>3. ASSUME NEW i \in 1 .. n + 1, NEW j \in 1 .. n + 1, i < j, s[i] # Junk
          PROVE  s[i].cand # s[j].cand
      <4>1. i \in 1 .. n /\ s[i] = Recorded[i]
        BY <2>2, <3>2, <3>3
      <4>2. CASE j = n + 1
        BY <2>2, <3>1, <3>2, <4>1, <4>2
      <4>3. CASE j # n + 1
        <5>1. j \in 1 .. n /\ s[j] = Recorded[j]
          BY <2>2, <3>2, <3>3, <4>3
        <5> QED BY <3>2, <3>3, <4>1, <5>1 DEF NoSecondRecord
      <4> QED BY <4>2, <4>3
    <3>4. Once(s)
      BY <2>2, <3>3 DEF Once
    <3> QED BY <3>4 DEF Once, NoSecondRecord, s
  <2> HIDE DEF r, n, s
  <2> QED BY <1>3, <2>1, <2>2, ExecuteRecorded DEF r, n, s
<1> QED BY <1>1, <1>2, <1>3, ShardSteps

LEMMA KnownNext ==
  ASSUME ShardTypes, Progress, Known, [ShardNext]_shardVars
  PROVE  Known'
<1> SUFFICES ASSUME stage' # "idle", NEW i \in DOMAIN Recorded', Recorded'[i] # Junk
             PROVE  Recorded'[i].cand \in loaded' \/ Recorded'[i].cand < at'
  BY DEF Known
<1>1. ASSUME stage # "idle", NEW j \in DOMAIN Recorded, Recorded'[i] = Recorded[j],
             loaded' = loaded, at' = at \/ at' = at + 1
      PROVE  Recorded'[i].cand \in loaded' \/ Recorded'[i].cand < at'
  <2>1. Recorded[j] # Junk
    BY <1>1
  <2>2. Recorded[j].cand \in loaded \/ Recorded[j].cand < at
    BY <1>1, <2>1 DEF Known
  <2>3. Recorded[j].cand \in Nat /\ at \in Nat
    <3>1. Recorded[j] \in Lines
      BY <1>1, RecordedFacts
    <3> QED BY <2>1, <3>1, ShardFacts DEF Lines, ShardTypes
  <2> QED BY <1>1, <2>2, <2>3
<1>2. CASE Launch
  <2>1. Recorded' = Recorded /\ Recorded = main.lines
    <3>1. stage = "idle" /\ main' = main /\ buf' = buf
      BY <1>2 DEF Launch, disk
    <3>2. buf = <<>>
      BY <3>1 DEF Progress, InSession
    <3>3. Recorded = main.lines
      BY <3>2, ShardFiles, NothingBuffered DEF Recorded
    <3> QED BY <3>1, <3>3 DEF Recorded
  <2>2. CASE launches = 0
    <3>1. main.lines = <<>> /\ DOMAIN <<>> = {}
      BY <2>2 DEF Progress, Empty
    <3> QED BY <2>1, <3>1
  <2>3. CASE launches # 0
    <3>1. loaded' = {r.cand : r \in Decoded(main)}
      BY <1>2, <2>3 DEF Launch
    <3> QED BY <2>1, <3>1 DEF Decoded
  <2> QED BY <2>2, <2>3
<1>3. CASE ToMain \/ Draining \/ Kill
  <2>1. PICK j \in DOMAIN Recorded : Recorded'[i] = Recorded[j]
    BY <1>3, FlushedSteps, FlushedRecorded
  <2>2. stage # "idle" /\ UNCHANGED <<loaded, at>>
    BY <1>3 DEF ToMain, FlushMain, CloseMain, Draining, Warn, Terminate, Orderly, TerminateClose,
                Kill, Exit
  <2> QED BY <1>1, <2>1, <2>2
<1>4. CASE (Quiet /\ ~Launch) \/ ToCopies
  <2>1. Recorded' = Recorded
    BY <1>4, QuietFiles, CopiesLeaveMain DEF Recorded
  <2>2. stage # "idle" /\ loaded' = loaded /\ (at' = at \/ at' = at + 1)
    BY <1>4 DEF Quiet, Skip, Turn, Leave, AppendLedgers, WriteManifest, TruncateReport,
                WriteReport, Return, Exit, shardVars, ToCopies, Copy, Losing, TerminateClose,
                CloseCopy
  <2> QED BY <1>1, <2>1, <2>2
<1>5. ASSUME NEW result, NEW fate, Execute(result, fate)
      PROVE  Recorded'[i].cand \in loaded' \/ Recorded'[i].cand < at'
  <2> DEFINE r == [cand |-> at, class |-> OutcomeClass(result)]
             n == Len(Recorded)
  <2>1. stage # "idle" /\ loaded' = loaded /\ at' = at + 1
    BY <1>5 DEF Execute, Turn
  <2>2. n \in Nat /\ DOMAIN Recorded = 1 .. n /\ at \in Nat
    BY RecordedFacts, ShardFacts DEF ShardTypes
  <2>3. \/ Recorded' = Recorded
        \/ /\ DOMAIN Recorded' = 1 .. n + 1 /\ Recorded'[n + 1] = r
           /\ \A k \in 1 .. n : Recorded'[k] = Recorded[k]
    BY <1>5, ExecuteRecorded
  <2>4. CASE Recorded' = Recorded
    BY <1>1, <2>1, <2>4
  <2>5. CASE /\ DOMAIN Recorded' = 1 .. n + 1 /\ Recorded'[n + 1] = r
             /\ \A k \in 1 .. n : Recorded'[k] = Recorded[k]
    <3> HIDE DEF n
    <3>1. i = n + 1 \/ i \in 1 .. n
      BY <2>2, <2>5
    <3>2. CASE i = n + 1
      BY <2>1, <2>2, <2>5, <3>2
    <3>3. CASE i \in 1 .. n
      BY <1>1, <2>1, <2>2, <2>5, <3>3
    <3> QED BY <3>1, <3>2, <3>3
  <2> HIDE DEF r, n
  <2> QED BY <2>3, <2>4, <2>5
<1> QED BY <1>2, <1>3, <1>4, <1>5, ShardSteps

(***************************************************************************)
(* Files that are whole.                                                   *)
(***************************************************************************)
\* Once a file is torn it never reads as whole again.
LEMMA CleanStep ==
  ASSUME ShardTypes, Progress, [ShardNext]_shardVars, Clean'
  PROVE  /\ Clean
         /\ \A i \in DOMAIN main.lines : i \in DOMAIN main'.lines /\ main'.lines[i] = main.lines[i]
<1>1. CASE main' = main
  BY <1>1 DEF Clean
<1>2. CASE Flushed
  <2> DEFINE g == main'
  <2>1. Follows(g, main, buf, Records) /\ Proper(main, Records) /\ buf \in Seq(Records)
    BY <1>2, ShardFiles DEF Flushed
  <2>2. ~g.open /\ Junk \notin Range(g.lines)
    BY DEF Clean
  <2> HIDE DEF g
  <2>3. /\ ~main.open /\ Junk \notin Range(main.lines)
        /\ \A i \in 1 .. Len(main.lines) : i \in 1 .. Len(g.lines) /\ g.lines[i] = main.lines[i]
    BY <2>1, <2>2, UntornFollows
  <2>4. DOMAIN main.lines = 1 .. Len(main.lines) /\ DOMAIN g.lines = 1 .. Len(g.lines)
    BY <2>1, FileTypes DEF Follows
  <2> QED BY <2>3, <2>4 DEF Clean, g
<1>3. ASSUME NEW result, NEW fate, Execute(result, fate) PROVE main' = main
  BY <1>3 DEF Execute, disk
<1> QED BY <1>1, <1>2, <1>3, ShardSteps, QuietFiles, CopiesLeaveMain, FlushedSteps

\* All that is recorded with a whole file is records.
LEMMA RecordCand ==
  ASSUME ShardTypes, Progress, Clean
  PROVE  \A i \in DOMAIN Recorded : Recorded[i] \in Records /\ Recorded[i].cand \in Cands
<1> SUFFICES ASSUME NEW i \in DOMAIN Recorded PROVE Recorded[i] \in Records
  BY ShardFacts
<1>1. /\ DOMAIN Recorded = 1 .. Len(main.lines) + Len(buf)
      /\ Len(main.lines) \in Nat /\ Len(buf) \in Nat
      /\ \A j \in 1 .. Len(main.lines) : Recorded[j] = main.lines[j]
      /\ \A j \in Len(main.lines) + 1 .. Len(main.lines) + Len(buf) :
           Recorded[j] = buf[j - Len(main.lines)]
  BY ShardFiles, RecordedAt, RecordedFacts DEF Recorded
<1>2. CASE i \in 1 .. Len(main.lines)
  <2>1. i \in DOMAIN main.lines /\ main.lines[i] \in Lines
    BY <1>2, ShardFiles, FileTypes, ShardFacts
  <2> QED BY <1>1, <1>2, <2>1 DEF Clean, Range, Lines
<1>3. CASE i \in Len(main.lines) + 1 .. Len(main.lines) + Len(buf)
  <2>1. i - Len(main.lines) \in 1 .. Len(buf)
    BY <1>1, <1>3
  <2> QED BY <1>1, <1>3, <2>1, ShardFiles, ElementOfSeq
<1> QED BY <1>1, <1>2, <1>3

\* A flush of a whole file loses nothing.
LEMMA CleanFlush ==
  ASSUME ShardTypes, Progress, Clean, ToMain \/ Draining
  PROVE  Recorded' = Recorded /\ Clean'
<1>1. main' = Appended(main, buf)
  BY DEF ToMain, FlushMain, CloseMain, Draining, Warn, Terminate, Orderly, Drain
<1>2. main'.lines = Recorded /\ main'.open = FALSE
  BY <1>1, ShardFiles, WholeAppended DEF Clean, Recorded
<1>3. Recorded' = main'.lines
  BY FlushedSteps, FlushedRecorded
<1>4. Junk \notin Range(Recorded)
  BY RecordCand, ShardFacts DEF Range
<1> QED BY <1>2, <1>3, <1>4 DEF Clean

\* With nothing buffered, a whole file holds what is recorded.
LEMMA CleanRead ==
  ASSUME ShardTypes, Progress, Clean, buf = <<>>
  PROVE  /\ Recorded = main.lines /\ Decoded(main) = {Recorded[i] : i \in DOMAIN Recorded}
         /\ InFile = {Recorded[i].cand : i \in DOMAIN Recorded}
<1>1. Recorded = main.lines
  BY ShardFiles, NothingBuffered DEF Recorded
<1>2. Decoded(main) = {main.lines[i] : i \in DOMAIN main.lines}
  BY DEF Decoded, Clean, Range
<1> QED BY <1>1, <1>2 DEF InFile

LEMMA IntactCleanNext ==
  ASSUME ShardTypes, Progress, IntactClean, [ShardNext]_shardVars
  PROVE  IntactClean'
<1> SUFFICES ASSUME intact' PROVE Clean'
  BY DEF IntactClean
<1>1. CASE Quiet
  BY <1>1, QuietFiles DEF IntactClean, Clean
<1>1a. CASE ToCopies
  <2>1. intact
    BY <1>1a DEF ToCopies, Copy, Losing, CloseCopy
  <2> QED BY <1>1a, <2>1, CopiesLeaveMain DEF IntactClean, Clean
<1>2. CASE ToMain \/ Draining
  <2>1. intact
    BY <1>2, MainLeavesCopies DEF Draining, Warn, Terminate, Orderly
  <2> QED BY <1>2, <2>1, CleanFlush DEF IntactClean
<1>3. CASE Kill
  BY <1>3 DEF Kill
<1>4. ASSUME NEW result, NEW fate, Execute(result, fate) PROVE Clean'
  BY <1>4 DEF Execute, disk, IntactClean, Clean
<1> QED BY <1>1, <1>1a, <1>2, <1>3, <1>4, ShardSteps

LEMMA KeptNext ==
  ASSUME ShardTypes, Progress, Kept, [ShardNext]_shardVars
  PROVE  Kept'
<1> SUFFICES ASSUME Clean', stage' # "idle"
             PROVE  /\ \A i \in DOMAIN Recorded' : LET c == Recorded'[i].cand IN
                         c \in loaded' \/ (/\ seen'[c].fate \in Written
                                           /\ seen'[c].class = Recorded'[i].class)
                    /\ \A c \in Cands : c \in loaded' \/ seen'[c].fate \in Written =>
                         \E i \in DOMAIN Recorded' : Recorded'[i].cand = c
  BY ShardTypesNext DEF Kept, With, ShardTypes
<1>0. Clean
  BY CleanStep
<1>1. ASSUME stage # "idle"
      PROVE  /\ \A i \in DOMAIN Recorded : LET c == Recorded[i].cand IN
                  c \in loaded \/ (seen[c].fate \in Written /\ seen[c].class = Recorded[i].class)
             /\ \A c \in Cands : c \in loaded \/ seen[c].fate \in Written =>
                  \E i \in DOMAIN Recorded : Recorded[i].cand = c
  BY <1>0, <1>1 DEF Kept, With
<1>2. CASE Launch
  <2>1. stage = "idle" /\ main' = main /\ buf' = buf /\ seen' = Fresh
    BY <1>2 DEF Launch, disk, Progress
  <2>2. Recorded' = Recorded /\ buf = <<>>
    BY <2>1 DEF Recorded, Progress, InSession
  <2>3. InFile = {Recorded[i].cand : i \in DOMAIN Recorded} /\ Recorded = main.lines
    BY <1>0, <2>2, CleanRead
  <2>4. loaded' = InFile
    <3>1. CASE launches = 0
      <4>1. main.lines = <<>> /\ DOMAIN <<>> = {}
        BY <3>1 DEF Progress, Empty
      <4> QED BY <1>2, <2>3, <3>1, <4>1 DEF Launch
    <3>2. CASE launches # 0
      BY <1>2, <3>2 DEF Launch, InFile
    <3> QED BY <3>1, <3>2
  <2>5. \A c \in Cands : seen'[c].fate \notin Written
    BY <2>1 DEF Fresh, None, Written
  <2> QED BY <2>2, <2>3, <2>4, <2>5
<1>3. CASE stage # "idle" /\ UNCHANGED <<loaded, seen>> /\ Recorded' = Recorded
  BY <1>1, <1>3
<1>4. CASE Skip
  <2>1. /\ stage # "idle" /\ loaded' = loaded /\ at \in Cands /\ at \in loaded
        /\ seen' = [seen EXCEPT ![at] = Skipped] /\ Recorded' = Recorded
    BY <1>4, ShardFacts DEF Skip, Turn, disk, Recorded, ShardTypes
  <2>2. \A c \in Cands : c # at => seen'[c] = seen[c]
    BY <2>1 DEF ShardTypes
  <2>3. seen'[at].fate \notin Written
    BY <2>1 DEF ShardTypes, Skipped, Written
  <2>4. \A i \in DOMAIN Recorded : Recorded[i].cand \in Cands
    BY <1>0, <1>1, <2>1, RecordCand
  <2> QED BY <1>1, <2>1, <2>2, <2>3, <2>4
<1>5. ASSUME NEW result, NEW fate, Execute(result, fate)
      PROVE  /\ \A i \in DOMAIN Recorded' : LET c == Recorded'[i].cand IN
                  c \in loaded' \/ (/\ seen'[c].fate \in Written
                                    /\ seen'[c].class = Recorded'[i].class)
             /\ \A c \in Cands : c \in loaded' \/ seen'[c].fate \in Written =>
                  \E i \in DOMAIN Recorded' : Recorded'[i].cand = c
  <2> DEFINE r == [cand |-> at, class |-> OutcomeClass(result)]
             n == Len(Recorded)
  <2>1. stage # "idle" /\ loaded' = loaded /\ at \in Cands /\ fate \in Fates
    BY <1>5, ExecuteFacts DEF Execute
  <2>2. \A c \in Cands : seen'[c] = IF c = at THEN [fate |-> fate, class |-> OutcomeClass(result)]
                                    ELSE seen[c]
    BY <1>5, <2>1 DEF Execute, ShardTypes
  <2>3. seen[at].fate \notin Written
    BY <2>1, ShardFacts DEF Progress, ShardTypes, Written
  <2>4. \A i \in DOMAIN Recorded : Recorded[i].cand \in Cands
    BY <1>0, <2>1, RecordCand
  <2>5. n \in Nat /\ DOMAIN Recorded = 1 .. n
    BY RecordedFacts
  <2>6. CASE fate = "early" /\ Recorded' = Recorded
    <3>1. seen'[at].fate \notin Written
      BY <2>1, <2>2, <2>6 DEF Written
    <3> QED BY <1>1, <2>1, <2>2, <2>3, <2>4, <2>6, <3>1
  <2>7. CASE /\ fate # "early"
             /\ DOMAIN Recorded' = 1 .. n + 1 /\ Recorded'[n + 1] = r
             /\ \A i \in 1 .. n : Recorded'[i] = Recorded[i]
    <3>1. fate \in Written
      BY <2>1, <2>7 DEF Fates, Written
    <3> DEFINE s == Recorded'
    <3>2. r.cand = at /\ r.class = OutcomeClass(result) /\ n + 1 \in 1 .. n + 1
      BY <2>5
    <3> HIDE DEF r, n, s
    <3>3. ASSUME NEW i \in 1 .. n + 1
          PROVE  s[i].cand \in loaded \/ (/\ seen'[s[i].cand].fate \in Written
                                          /\ seen'[s[i].cand].class = s[i].class)
      <4>1. CASE i = n + 1
        BY <2>1, <2>2, <2>7, <3>1, <3>2, <4>1 DEF s
      <4>2. CASE i # n + 1
        <5>1. i \in 1 .. n /\ s[i] = Recorded[i]
          BY <2>5, <2>7, <4>2 DEF s
        <5>2. /\ Recorded[i].cand \in Cands
              /\ \/ Recorded[i].cand \in loaded
                 \/ /\ seen[Recorded[i].cand].fate \in Written
                    /\ seen[Recorded[i].cand].class = Recorded[i].class
          BY <1>1, <2>1, <2>4, <2>5, <5>1
        <5> QED BY <2>2, <2>3, <5>1, <5>2
      <4> QED BY <4>1, <4>2
    <3>4. ASSUME NEW c \in Cands, c \in loaded \/ seen'[c].fate \in Written
          PROVE  \E i \in 1 .. n + 1 : s[i].cand = c
      <4>1. CASE c = at
        BY <2>7, <3>2, <4>1 DEF s
      <4>2. CASE c # at
        <5>1. PICK i \in 1 .. n : Recorded[i].cand = c
          BY <1>1, <2>1, <2>2, <2>5, <3>4, <4>2
        <5>2. i \in 1 .. n + 1
          BY <2>5, <5>1
        <5> QED BY <2>7, <5>1, <5>2 DEF s
      <4> QED BY <4>1, <4>2
    <3> QED BY <2>1, <2>7, <3>3, <3>4 DEF s
  <2> HIDE DEF r, n
  <2> QED BY <1>5, <2>6, <2>7, ExecuteRecorded DEF r, n
<1>6. CASE ToMain \/ Draining
  <2>1. Recorded' = Recorded
    BY <1>0, <1>6, CleanFlush
  <2>2. stage # "idle" /\ UNCHANGED <<loaded, seen>>
    BY <1>6 DEF ToMain, FlushMain, CloseMain, Draining, Warn, Terminate, Orderly, TerminateClose,
                Exit
  <2> QED BY <1>3, <2>1, <2>2
<1>6a. CASE ToCopies \/ Leave
  <2>1. Recorded' = Recorded
    BY <1>6a, CopiesLeaveMain, QuietFiles DEF Quiet, Recorded
  <2>2. stage # "idle" /\ UNCHANGED <<loaded, seen>>
    BY <1>6a DEF ToCopies, Copy, Losing, TerminateClose, CloseCopy, Leave, Exit
  <2> QED BY <1>3, <2>1, <2>2
<1>7. CASE Kill \/ Return
  BY <1>7 DEF Kill, Return, Exit
<1>8. CASE AppendLedgers \/ WriteManifest \/ TruncateReport \/ WriteReport \/ UNCHANGED shardVars
  <2>1. stage # "idle" /\ UNCHANGED <<loaded, seen, main, buf>>
    BY <1>8 DEF AppendLedgers, WriteManifest, TruncateReport, WriteReport, shardVars, disk
  <2> QED BY <1>3, <2>1 DEF Recorded
<1> QED BY <1>2, <1>4, <1>5, <1>6, <1>6a, <1>7, <1>8, ShardSteps DEF Quiet

\* The record whose copy is still to be written stays the last one.
LEMMA HalfWrittenNext ==
  ASSUME ShardTypes, Progress, HalfWritten, [ShardNext]_shardVars
  PROVE  HalfWritten'
<1> SUFFICES ASSUME stage' = "copy", Clean'
             PROVE  (Len(Recorded) \in DOMAIN Recorded /\ Recorded[Len(Recorded)] = Latest)'
  BY DEF HalfWritten
<1>0. Clean
  BY CleanStep
<1>1. CASE stage = "copy" /\ UNCHANGED <<at, seen>> /\ Recorded' = Recorded
  BY <1>0, <1>1 DEF HalfWritten, Latest
<1>2. CASE UNCHANGED shardVars
  BY <1>1, <1>2 DEF shardVars, disk, Recorded
<1>3. CASE Draining
  <2>1. stage = "copy" /\ UNCHANGED <<at, seen>>
    BY <1>3 DEF Draining, Warn, Terminate, Orderly, TerminateClose, Exit
  <2> QED BY <1>0, <1>1, <1>3, <2>1, CleanFlush
<1>4. ASSUME NEW result, NEW fate, Execute(result, fate)
      PROVE  (Len(Recorded) \in DOMAIN Recorded /\ Recorded[Len(Recorded)] = Latest)'
  <2> DEFINE r == [cand |-> at, class |-> OutcomeClass(result)]
             n == Len(Recorded)
             s == Recorded'
  <2>1. fate # "early"
    BY <1>4 DEF Execute, Onward
  <2>2. DOMAIN s = 1 .. n + 1 /\ s[n + 1] = r /\ n \in Nat
    BY <1>4, <2>1, ExecuteRecorded, RecordedFacts
  <2>3. at \in Cands /\ at \in Nat
    <3>1. at \in Cands
      BY <1>4, ExecuteFacts
    <3> QED BY <3>1, ShardFacts
  <2>4. Latest' = r
    BY <1>4, <2>3 DEF Execute, Latest, ShardTypes
  <2>5. s \in Seq(Lines)
    <3>1. s = Append(Recorded, r) /\ Recorded \in Seq(Lines)
      BY <1>4, <2>1, ExecuteRecorded, RecordedFacts
    <3>2. r \in Lines
      BY <1>4, ExecuteFacts DEF Lines
    <3> HIDE DEF r, s
    <3> QED BY <3>1, <3>2, AppendProperties
  <2> HIDE DEF r, n, s
  <2>6. Len(s) = n + 1
    BY <2>2, <2>5, LenProperties
  <2> QED BY <2>2, <2>4, <2>6 DEF s
<1>5. CASE Kill
  BY <1>5 DEF Kill, Exit
<1>6. CASE ToMain \/ ToCopies
  BY <1>6 DEF ToMain, FlushMain, CloseMain, ToCopies, Copy, Onward, Losing, TerminateClose,
              CloseCopy, Exit
<1>7. CASE Quiet /\ ~UNCHANGED shardVars
  BY <1>7 DEF Quiet, Launch, Skip, Turn, Leave, AppendLedgers, WriteManifest, TruncateReport,
              WriteReport, Return, Exit
<1> QED BY <1>2, <1>3, <1>4, <1>5, <1>6, <1>7, ShardSteps

(***************************************************************************)
(* The outcome files split samples.jsonl.                                  *)
(***************************************************************************)
\* SameRecords and SameOrder, of any two sequences, but for the candidates x.
SplitRecords(s, c, o, x) ==
  {c[i] : i \in DOMAIN c}
    = {s[i] : i \in {j \in DOMAIN s : s[j].class = o /\ s[j].cand \notin x}}
SplitOrder(s, c) == \A i, j \in DOMAIN c : i < j =>
  \E p, q \in DOMAIN s : p < q /\ s[p] = c[i] /\ s[q] = c[j]
\* t is s with r at its end.
Longer(t, s, r) == \E n \in Nat : /\ DOMAIN s = 1 .. n /\ DOMAIN t = 1 .. n + 1 /\ t[n + 1] = r
                                  /\ \A i \in 1 .. n : t[i] = s[i]

LEMMA LongerAppend ==
  ASSUME NEW A, NEW s \in Seq(A), NEW r \in A PROVE Longer(Append(s, r), s, r)
<1> DEFINE t == Append(s, r)
<1>1. /\ t \in Seq(A) /\ Len(t) = Len(s) + 1 /\ t[Len(s) + 1] = r
      /\ \A i \in 1 .. Len(s) : t[i] = s[i]
  BY AppendProperties
<1> HIDE DEF t
<1>2. DOMAIN s = 1 .. Len(s) /\ DOMAIN t = 1 .. Len(s) + 1 /\ Len(s) \in Nat
  BY <1>1, LenProperties
<1> QED BY <1>1, <1>2 DEF Longer, t

LEMMA LongerFacts ==
  ASSUME NEW s, NEW t, NEW r, Longer(t, s, r)
  PROVE  /\ \A i \in DOMAIN s : i \in DOMAIN t /\ t[i] = s[i]
         /\ \E k \in DOMAIN t : /\ t[k] = r /\ k \notin DOMAIN s
                                /\ \A i \in DOMAIN t : i = k \/ i \in DOMAIN s
                                /\ \A i \in DOMAIN s : i < k
         /\ \A i \in DOMAIN t : i \in Nat
<1>1. PICK n \in Nat : /\ DOMAIN s = 1 .. n /\ DOMAIN t = 1 .. n + 1 /\ t[n + 1] = r
                       /\ \A i \in 1 .. n : t[i] = s[i]
  BY DEF Longer
<1>2. /\ n + 1 \in DOMAIN t /\ n + 1 \notin DOMAIN s
      /\ \A i \in DOMAIN t : i = n + 1 \/ i \in DOMAIN s
      /\ \A i \in DOMAIN s : i < n + 1 /\ i \in DOMAIN t
      /\ \A i \in DOMAIN t : i \in Nat
  BY <1>1
<1> QED BY <1>1, <1>2

\* s ends with r, the only one of its candidate.
EndsWith(s, r) == \E m \in DOMAIN s :
  s[m] = r /\ \A i \in DOMAIN s : i # m => i < m /\ s[i].cand # r.cand

\* The first write of a record: it is one without a copy.
LEMMA SplitMain ==
  ASSUME NEW s, NEW t, NEW c, NEW r, NEW o, NEW x, Longer(t, s, r),
         \A i \in DOMAIN s : s[i].cand # r.cand,
         SplitRecords(s, c, o, x), SplitOrder(s, c)
  PROVE  SplitRecords(t, c, o, x \cup {r.cand}) /\ SplitOrder(t, c)
<1>1. {t[i] : i \in {j \in DOMAIN t : t[j].class = o /\ t[j].cand \notin x \cup {r.cand}}}
        = {s[i] : i \in {j \in DOMAIN s : s[j].class = o /\ s[j].cand \notin x}}
  BY LongerFacts
<1>2. SplitOrder(t, c)
  BY LongerFacts DEF SplitOrder
<1> QED BY <1>1, <1>2 DEF SplitRecords

\* The second one: the outcome file of its class has it now, and no other file
\* lacks it.
LEMMA SplitCopy ==
  ASSUME NEW s, NEW c, NEW d, NEW r, NEW x, Longer(d, c, r), r.cand \notin x, EndsWith(s, r),
         SplitRecords(s, c, r.class, x \cup {r.cand}), SplitOrder(s, c)
  PROVE  SplitRecords(s, d, r.class, x) /\ SplitOrder(s, d)
<1>0. PICK m \in DOMAIN s : s[m] = r /\ \A i \in DOMAIN s : i # m => i < m /\ s[i].cand # r.cand
  BY DEF EndsWith
<1>1. {s[i] : i \in {j \in DOMAIN s : s[j].class = r.class /\ s[j].cand \notin x}}
        = {s[i] : i \in {j \in DOMAIN s : /\ s[j].class = r.class
                                         /\ s[j].cand \notin x \cup {r.cand}}} \cup {r}
  BY <1>0
<1>2. {d[i] : i \in DOMAIN d} = {c[i] : i \in DOMAIN c} \cup {r}
  BY LongerFacts
<1>3. ASSUME NEW i \in DOMAIN d, NEW j \in DOMAIN d, i < j
      PROVE  \E p, q \in DOMAIN s : p < q /\ s[p] = d[i] /\ s[q] = d[j]
  <2>1. PICK k \in DOMAIN d : /\ d[k] = r /\ \A l \in DOMAIN d : l = k \/ l \in DOMAIN c
                              /\ \A l \in DOMAIN c : l < k
    BY LongerFacts
  <2>2. i \in DOMAIN c /\ d[i] = c[i]
    <3>1. i \in Nat /\ j \in Nat /\ k \in Nat
      BY LongerFacts
    <3>2. i # k
      BY <1>3, <2>1, <3>1
    <3> QED BY <2>1, <3>2, LongerFacts
  <2>3. CASE j = k
    <3>1. PICK p \in DOMAIN s : s[p] = c[i] /\ s[p].cand # r.cand
      BY <2>2 DEF SplitRecords
    <3> QED BY <1>0, <2>1, <2>2, <2>3, <3>1
  <2>4. CASE j \in DOMAIN c
    <3>1. PICK p, q \in DOMAIN s : p < q /\ s[p] = c[i] /\ s[q] = c[j]
      BY <1>3, <2>2, <2>4 DEF SplitOrder
    <3>2. d[j] = c[j]
      BY <2>4, LongerFacts
    <3> QED BY <2>2, <3>1, <3>2
  <2> QED BY <2>1, <2>3, <2>4
<1> QED BY <1>1, <1>2, <1>3 DEF SplitRecords, SplitOrder

LEMMA SplitOther ==
  ASSUME NEW s, NEW c, NEW r, NEW o, NEW x, r.class # o,
         EndsWith(s, r), SplitRecords(s, c, o, x \cup {r.cand})
  PROVE  SplitRecords(s, c, o, x)
<1>1. \A i \in DOMAIN s : s[i] = r \/ s[i].cand # r.cand
  BY DEF EndsWith
<1> QED BY <1>1 DEF SplitRecords

\* In a file that is whole the record half written is the only one of its
\* candidate, and the last.
LEMMA HalfWrittenLast ==
  ASSUME ShardTypes, Progress, NoSecondRecord, HalfWritten, Clean, stage = "copy"
  PROVE  EndsWith(Recorded, Latest)
<1> DEFINE m == Len(Recorded)
<1>1. m \in DOMAIN Recorded /\ Recorded[m] = Latest
  BY DEF HalfWritten
<1>2. DOMAIN Recorded = 1 .. m /\ m \in Nat
  BY RecordedFacts
<1>3. ASSUME NEW i \in DOMAIN Recorded, i # m
      PROVE  i < m /\ Recorded[i].cand # Latest.cand
  <2>1. i < m
    BY <1>2, <1>3
  <2>2. Recorded[i] # Junk
    BY RecordCand, ShardFacts
  <2> QED BY <1>1, <2>1, <2>2 DEF NoSecondRecord
<1> QED BY <1>1, <1>3 DEF EndsWith

\* What SameRecords leaves out changes only with the two writes of a record.
LEMMA UncopiedNext ==
  ASSUME ShardTypes, Progress, Quiet \/ ToMain \/ Draining \/ Losing \/ \E p \in Classes : CloseCopy(p)
  PROVE  Uncopied' = Uncopied
<1>1. CASE Quiet /\ ~UNCHANGED shardVars
  <2>1. stage # "copy" /\ stage' # "copy"
    BY <1>1 DEF Quiet, Launch, Skip, Turn, Leave, AppendLedgers, WriteManifest, TruncateReport,
                WriteReport, Return, Exit
  <2> QED BY <1>1, <2>1, QuietFiles DEF Uncopied
<1>2. CASE UNCHANGED shardVars
  BY <1>2 DEF Uncopied, shardVars
<1>3. CASE ToMain
  BY <1>3, MainLeavesCopies DEF ToMain, FlushMain, CloseMain, Uncopied
<1>4. CASE Draining \/ Losing
  BY <1>4 DEF Draining, Warn, Terminate, Orderly, Losing, TerminateClose, Exit, Uncopied
<1>5. ASSUME NEW p \in Classes, CloseCopy(p) PROVE Uncopied' = Uncopied
  BY <1>5 DEF CloseCopy, Uncopied
<1> QED BY <1>1, <1>2, <1>3, <1>4, <1>5

LEMMA CopiesNext ==
  ASSUME ShardTypes, Progress, NoSecondRecord, Known, IntactClean, HalfWritten, CutLoaded,
         CopiesSplitMain, [ShardNext]_shardVars
  PROVE  intact' => \A o \in Classes : (SameRecords(o) /\ SameOrder(o))'
<1> SUFFICES ASSUME intact', NEW o \in Classes
             PROVE  /\ SplitRecords(Recorded', Copied(o)', o, Uncopied')
                    /\ SplitOrder(Recorded', Copied(o)')
  BY DEF SameRecords, SameOrder, SplitRecords, SplitOrder
<1>0. ASSUME intact
      PROVE  \A p \in Classes : /\ SplitRecords(Recorded, Copied(p), p, Uncopied)
                                /\ SplitOrder(Recorded, Copied(p))
  BY <1>0 DEF CopiesSplitMain, SameRecords, SameOrder, SplitRecords, SplitOrder
<1>1. CASE /\ intact /\ Recorded' = Recorded /\ Copied(o)' = Copied(o) /\ Uncopied' = Uncopied
  BY <1>0, <1>1
<1>2. CASE Quiet
  <2>1. UNCHANGED <<main, copies, buf, bufs, intact>>
    BY <1>2, QuietFiles
  <2> QED BY <1>1, <1>2, <2>1, UncopiedNext DEF Recorded, Copied
<1>3. CASE ToMain \/ Draining
  <2>1. intact
    BY <1>3, MainLeavesCopies DEF Draining, Warn, Terminate, Orderly
  <2>2. Recorded' = Recorded
    BY <1>3, <2>1, CleanFlush DEF IntactClean
  <2>3. Copied(o)' = Copied(o)
    <3>1. CASE ToMain
      BY <3>1, MainLeavesCopies DEF Copied
    <3>2. CASE Draining
      <4>1. copies'[o].lines = copies[o].lines \o bufs[o] /\ bufs'[o] = <<>>
        BY <3>2, CopySteps DEF NoCopies
      <4>2. copies[o].lines \o bufs[o] \in Seq(Records)
        <5>1. copies[o].lines \in Seq(Records) /\ bufs[o] \in Seq(Records)
          BY DEF ShardTypes
        <5> QED BY <5>1, ConcatProperties
      <4>3. (copies[o].lines \o bufs[o]) \o <<>> = copies[o].lines \o bufs[o]
        BY <4>2, ConcatEmptySeq
      <4> QED BY <4>1, <4>3 DEF Copied
    <3> QED BY <1>3, <3>1, <3>2
  <2> QED BY <1>1, <1>3, <2>1, <2>2, <2>3, UncopiedNext
<1>4. CASE Kill \/ Losing
  BY <1>4 DEF Kill, Losing
<1>5. ASSUME NEW result, NEW fate, Execute(result, fate)
      PROVE  /\ SplitRecords(Recorded', Copied(o)', o, Uncopied')
             /\ SplitOrder(Recorded', Copied(o)')
  <2> DEFINE r == [cand |-> at, class |-> OutcomeClass(result)]
  <2>1. intact /\ UNCHANGED <<copies, bufs, cut>> /\ stage = "loop" /\ at' = at + 1
    BY <1>5 DEF Execute, Turn, disk
  <2>2. r \in Records /\ r.cand = at /\ at \in Cands /\ at \notin loaded /\ at \in Nat
    BY <1>5, ExecuteFacts, ShardFacts
  <2>3. Copied(o)' = Copied(o) /\ Uncopied = cut
    BY <2>1 DEF Copied, Uncopied
  <2>4. \/ fate = "early" /\ Recorded' = Recorded
        \/ fate # "early" /\ Recorded' = Append(Recorded, r)
    BY <1>5, ExecuteRecorded
  <2>5. Uncopied' = IF fate = "early" THEN cut ELSE cut \cup {at}
    BY <1>5, <2>1, <2>2 DEF Execute, Onward, Uncopied
  <2>6. CASE fate = "early"
    BY <1>1, <2>1, <2>3, <2>4, <2>5, <2>6
  <2>7. CASE fate # "early"
    <3> DEFINE t == Recorded'
    <3>1. Longer(t, Recorded, r)
      <4>1. Recorded \in Seq(Lines) /\ r \in Lines
        BY <2>2, RecordedFacts DEF Lines
      <4> HIDE DEF r
      <4>2. Longer(Append(Recorded, r), Recorded, r)
        BY <4>1, LongerAppend
      <4> QED BY <2>4, <2>7, <4>2
    <3>2. \A i \in DOMAIN Recorded : Recorded[i].cand # r.cand
      <4> SUFFICES ASSUME NEW i \in DOMAIN Recorded, Recorded[i].cand = at PROVE FALSE
        BY <2>2
      <4>1. Recorded[i] # Junk
        BY <2>1, RecordCand, ShardFacts DEF IntactClean
      <4> QED BY <2>1, <2>2, <4>1 DEF Known
    <3>3. SplitRecords(Recorded, Copied(o), o, cut) /\ SplitOrder(Recorded, Copied(o))
      BY <1>0, <2>1, <2>3
    <3>4. r.cand = at
      OBVIOUS
    <3> HIDE DEF t, r
    <3>5. SplitRecords(t, Copied(o), o, cut \cup {r.cand}) /\ SplitOrder(t, Copied(o))
      BY <3>1, <3>2, <3>3, SplitMain
    <3> QED BY <2>3, <2>5, <2>7, <3>4, <3>5 DEF t
  <2> QED BY <2>6, <2>7
<1>6. CASE Copy
  <2> DEFINE r == Latest
             s == Recorded
  <2>1. intact /\ stage = "copy" /\ stage' # "copy" /\ Recorded' = s /\ cut' = cut
    <3>1. Recorded' = s /\ cut' = cut
      BY <1>6, CopiesLeaveMain DEF ToCopies
    <3> QED BY <1>6, <3>1 DEF Copy, Onward
  <2>2. /\ r \in Records /\ r.class \in Classes /\ copies' = copies
        /\ bufs' = [bufs EXCEPT ![r.class] = Append(bufs[r.class], r)]
        /\ r.cand = at - 1 /\ at - 1 \in Cands
    BY <1>6, CopyWrites
  <2>3. Uncopied = cut \cup {r.cand} /\ Uncopied' = cut
    BY <2>1, <2>2 DEF Uncopied
  <2>4. r.cand \notin cut
    BY <2>1, <2>2 DEF CutLoaded, Progress
  <2>5. EndsWith(s, r)
    BY <2>1, HalfWrittenLast DEF IntactClean
  <2>6. SplitRecords(s, Copied(o), o, cut \cup {r.cand}) /\ SplitOrder(s, Copied(o))
    BY <1>0, <2>1, <2>3
  <2>7. CASE o # r.class
    <3>1. Copied(o)' = Copied(o)
      BY <2>2, <2>7 DEF Copied, ShardTypes
    <3> HIDE DEF r, s
    <3>2. SplitRecords(s, Copied(o), o, cut)
      BY <2>5, <2>6, <2>7, SplitOther
    <3> QED BY <2>1, <2>3, <2>6, <3>1, <3>2
  <2>8. CASE o = r.class
    <3> DEFINE a == copies[o].lines
               b == bufs[o]
               d == Copied(o)'
    <3>1. a \in Seq(Records) /\ b \in Seq(Records)
      BY DEF ShardTypes
    <3>2. d = a \o Append(b, r) /\ Copied(o) = a \o b
      BY <2>2, <2>8 DEF Copied, ShardTypes
    <3> HIDE DEF a, b, d, r, s
    <3>3. a \o Append(b, r) = Append(a \o b, r) /\ a \o b \in Seq(Records)
      BY <2>2, <3>1, ConcatAppend, ConcatProperties
    <3>4. Longer(Append(a \o b, r), a \o b, r)
      BY <2>2, <3>3, LongerAppend
    <3>5. Longer(d, Copied(o), r)
      BY <3>2, <3>3, <3>4
    <3> DEFINE c == Copied(o)
    <3>6. Longer(d, c, r) /\ SplitRecords(s, c, r.class, cut \cup {r.cand}) /\ SplitOrder(s, c)
      BY <2>6, <2>8, <3>5
    <3> HIDE DEF c
    <3>7. SplitRecords(s, d, r.class, cut) /\ SplitOrder(s, d)
      BY <2>4, <2>5, <3>6, SplitCopy
    <3> QED BY <2>1, <2>3, <2>8, <3>7 DEF d, s
  <2> QED BY <2>7, <2>8
<1>7. ASSUME NEW p \in Classes, CloseCopy(p)
      PROVE  /\ SplitRecords(Recorded', Copied(o)', o, Uncopied')
             /\ SplitOrder(Recorded', Copied(o)')
  <2>1. intact /\ Copied(o)' = Copied(o) /\ Recorded' = Recorded
    <3>1. ToCopies /\ intact
      BY <1>7 DEF ToCopies, CloseCopy
    <3> QED BY <1>7, <3>1, CopyCloses, CopiesLeaveMain
  <2>2. Uncopied' = Uncopied
    BY <1>7, UncopiedNext
  <2> QED BY <1>1, <2>1, <2>2
<1> QED BY <1>2, <1>3, <1>4, <1>5, <1>6, <1>7, ShardSteps DEF ToCopies

\* A session cuts off the copy of one record at most, and ends with it.
LEMMA CutCountNext ==
  ASSUME ShardTypes, Progress, CutCount, [ShardNext]_shardVars
  PROVE  CutCount' /\ Cardinality(cut') <= launches'
<1> DEFINE n == Cardinality(cut)
<1>1. IsFiniteSet(cut) /\ n \in Nat /\ launches \in Nat
  <2>1. cut \subseteq Cands /\ launches \in Nat
    BY PfBounds DEF ShardTypes
  <2>2. IsFiniteSet(cut) /\ n \in 0 .. N
    BY <2>1, CountFacts
  <2> HIDE DEF n
  <2> QED BY <2>1, <2>2, ShardFacts
<1>2. n + (IF stage = "idle" THEN 0 ELSE 1) <= launches
  BY DEF CutCount
<1>3. CASE cut' = cut /\ launches' = launches /\ (stage = "idle" => stage' = "idle")
  <2> HIDE DEF n
  <2>1. n + (IF stage' = "idle" THEN 0 ELSE 1) <= launches' /\ n <= launches'
    BY <1>1, <1>2, <1>3
  <2> QED BY <1>3, <2>1 DEF CutCount, n
<1>4. CASE Launch
  <2>1. stage = "idle" /\ stage' = "loop" /\ launches' = launches + 1 /\ cut' = cut
    BY <1>4 DEF Launch
  <2> HIDE DEF n
  <2>2. n + (IF stage' = "idle" THEN 0 ELSE 1) <= launches' /\ n <= launches'
    BY <1>1, <1>2, <2>1
  <2> QED BY <2>1, <2>2 DEF CutCount, n
<1>5. CASE Terminate
  <2>1. /\ stage # "idle" /\ stage' = "idle" /\ launches' = launches
        /\ cut' = cut \/ cut' = cut \cup {at - 1}
    BY <1>5 DEF Terminate, Exit
  <2>2. Cardinality(cut \cup {at - 1}) \in {n, n + 1}
    BY <1>1, FS_AddElement
  <2>3. Cardinality(cut') \in {n, n + 1}
    BY <2>1, <2>2
  <2> HIDE DEF n
  <2>4. Cardinality(cut') <= launches'
    BY <1>1, <1>2, <2>1, <2>3
  <2>5. Cardinality(cut') \in Nat
    BY <1>1, <2>3
  <2> QED BY <2>1, <2>4, <2>5 DEF CutCount
<1>6. CASE Quiet /\ ~Launch
  BY <1>3, <1>6 DEF Quiet, Skip, Turn, Leave, AppendLedgers, WriteManifest, TruncateReport,
                    WriteReport, Return, Exit, shardVars
<1>7. CASE ToMain \/ ToCopies \/ Warn \/ Orderly \/ Kill
  BY <1>3, <1>7 DEF ToMain, FlushMain, CloseMain, ToCopies, Copy, Losing, TerminateClose,
                    CloseCopy, Warn, Orderly, Kill, Exit
<1>8. ASSUME NEW result, NEW fate, Execute(result, fate)
      PROVE  cut' = cut /\ launches' = launches /\ (stage = "idle" => stage' = "idle")
  BY <1>8 DEF Execute, Turn
<1> HIDE DEF n
<1> QED BY <1>3, <1>4, <1>5, <1>6, <1>7, <1>8, ShardSteps DEF Draining

(***************************************************************************)
(* The coverage ledger, the report and the marker.                         *)
(***************************************************************************)
LEMMA InFileGrows ==
  ASSUME ShardTypes, Progress, [ShardNext]_shardVars, Clean'
  PROVE  Clean /\ InFile \subseteq InFile'
<1>1. /\ Clean
      /\ \A i \in DOMAIN main.lines : i \in DOMAIN main'.lines /\ main'.lines[i] = main.lines[i]
  BY CleanStep
<1>2. Decoded(main) \subseteq Decoded(main)'
  BY <1>1 DEF Decoded
<1> QED BY <1>1, <1>2 DEF InFile

\* What a session has written or found written is in a whole file once its buffer is.
LEMMA KeptInFile ==
  ASSUME ShardTypes, Progress, Kept, Clean, stage \in After
  PROVE  /\ loaded \cup With(Written) \subseteq InFile
         /\ \A c \in Cands : c < at /\ seen[c].fate # "none"
<1>1. stage # "idle" /\ buf = <<>> /\ at = N + 1
  BY DEF Progress, After, InSession
<1>2. InFile = {Recorded[i].cand : i \in DOMAIN Recorded}
  BY <1>1, CleanRead
<1>3. \A c \in loaded \cup With(Written) : \E i \in DOMAIN Recorded : Recorded[i].cand = c
  BY <1>1 DEF Kept
<1>4. \A c \in Cands : c < at /\ seen[c].fate # "none"
  BY <1>1, ShardFacts DEF Progress
<1> QED BY <1>2, <1>3, <1>4

LEMMA CutLoadedNext ==
  ASSUME ShardTypes, Progress, IntactClean, HalfWritten, CutLoaded, [ShardNext]_shardVars
  PROVE  CutLoaded'
<1> SUFFICES ASSUME intact'
             PROVE  cut' \subseteq InFile' /\ (stage' # "idle" => cut' \subseteq loaded')
  BY DEF CutLoaded
<1>0. Clean' /\ Clean /\ InFile \subseteq InFile'
  BY IntactCleanNext, InFileGrows DEF IntactClean
<1>1. CASE intact /\ cut' = cut /\ (stage' # "idle" => stage # "idle" /\ loaded' = loaded)
  BY <1>0, <1>1 DEF CutLoaded
<1>2. CASE Launch
  <2>1. intact /\ cut' = cut /\ cut \subseteq InFile
    BY <1>2 DEF Launch, CutLoaded
  <2>2. CASE launches = 0
    <3>1. main.lines = <<>> /\ DOMAIN <<>> = {}
      BY <2>2 DEF Progress, Empty
    <3>2. InFile = {}
      BY <3>1 DEF InFile, Decoded
    <3> QED BY <1>0, <2>1, <3>2
  <2>3. CASE launches # 0
    <3>1. loaded' = InFile
      BY <1>2, <2>3 DEF Launch, InFile
    <3> QED BY <1>0, <2>1, <3>1
  <2> QED BY <2>2, <2>3
<1>3. CASE Terminate
  <2>1. intact /\ stage' = "idle" /\ cut' = IF stage = "copy" THEN cut \cup {at - 1} ELSE cut
    BY <1>3 DEF Terminate, Exit
  <2>2. ASSUME stage = "copy" PROVE at - 1 \in InFile'
    <3>1. Recorded' = Recorded /\ Recorded' = main'.lines
      BY <1>0, <1>3, CleanFlush, FlushedSteps, FlushedRecorded DEF Draining
    <3>2. PICK i \in DOMAIN Recorded : Recorded[i] = Latest
      BY <1>0, <2>2 DEF HalfWritten
    <3>3. i \in DOMAIN main'.lines /\ main'.lines[i] = Recorded[i]
      BY <3>1, <3>2
    <3>4. Recorded[i] # Junk /\ Recorded[i].cand = at - 1
      BY <1>0, <3>2, RecordCand, ShardFacts DEF Latest
    <3> QED BY <3>3, <3>4 DEF InFile, Decoded
  <2> QED BY <1>0, <2>1, <2>2 DEF CutLoaded
<1>4. CASE Quiet /\ ~Launch
  BY <1>1, <1>4 DEF Quiet, Skip, Turn, Leave, AppendLedgers, WriteManifest, TruncateReport,
                    WriteReport, Return, Exit, shardVars
<1>5. CASE ToMain \/ ToCopies \/ Warn \/ Orderly
  BY <1>1, <1>5 DEF ToMain, FlushMain, CloseMain, ToCopies, Copy, Losing, TerminateClose,
                    CloseCopy, Warn, Orderly, Exit
<1>6. CASE Kill
  BY <1>6 DEF Kill
<1>7. ASSUME NEW result, NEW fate, Execute(result, fate)
      PROVE  intact /\ cut' = cut /\ (stage' # "idle" => stage # "idle" /\ loaded' = loaded)
  BY <1>7 DEF Execute, Turn
<1> QED BY <1>1, <1>2, <1>3, <1>4, <1>5, <1>6, <1>7, ShardSteps DEF Draining

LEMMA CoveredNext ==
  ASSUME ShardTypes, Progress, Kept, Covered, [ShardNext]_shardVars
  PROVE  Covered'
<1> DEFINE Open(s) == s \in InSession \cup Closing \cup {"ledger"}
<1> SUFFICES ASSUME Clean', NEW c \in Cands
             PROVE  /\ coverage'[c] <= 1
                    /\ coverage'[c] > 0 => c \in InFile'
                    /\ coverage'[c] > 0 /\ Open(stage') => c \in loaded'
  BY DEF Covered
<1>0. /\ Clean /\ InFile \subseteq InFile'
      /\ coverage[c] <= 1 /\ coverage[c] \in Nat
      /\ coverage[c] > 0 => c \in InFile
      /\ coverage[c] > 0 /\ Open(stage) => c \in loaded
  BY InFileGrows DEF Covered, ShardTypes
<1>1. CASE coverage' = coverage /\ (Open(stage') => Open(stage) /\ loaded' = loaded)
  BY <1>0, <1>1
<1>2. CASE Launch
  <2>1. coverage' = coverage
    BY <1>2 DEF Launch, disk
  <2>2. CASE launches = 0
    <3>1. main.lines = <<>> /\ DOMAIN <<>> = {}
      BY <2>2 DEF Progress, Empty
    <3>2. InFile = {}
      BY <3>1 DEF InFile, Decoded
    <3> QED BY <1>0, <2>1, <3>2
  <2>3. CASE launches # 0
    <3>1. loaded' = InFile
      BY <1>2, <2>3 DEF Launch, InFile
    <3> QED BY <1>0, <2>1, <3>1
  <2> QED BY <2>2, <2>3
<1>3. CASE AppendLedgers
  <2>1. /\ stage = "ledger" /\ stage' = "manifest" /\ UNCHANGED <<main, loaded>>
        /\ coverage'[c] = coverage[c] + (IF seen[c].fate = "done" THEN 1 ELSE 0)
    BY <1>3 DEF AppendLedgers
  <2>2. ~Open(stage')
    BY <2>1 DEF InSession, Closing
  <2>3. CASE seen[c].fate = "done"
    <3>1. c \notin loaded
      BY <2>3, KeptInFile, <1>0, <2>1 DEF Progress, After
    <3>2. coverage[c] = 0
      BY <1>0, <2>1, <3>1
    <3>3. c \in InFile
      BY <1>0, <2>1, <2>3, KeptInFile DEF With, Written, After
    <3> QED BY <1>0, <2>1, <2>2, <2>3, <3>2, <3>3
  <2>4. CASE seen[c].fate # "done"
    BY <1>0, <2>1, <2>2, <2>4
  <2> QED BY <2>3, <2>4
<1>4. CASE Skip \/ ToMain \/ Warn
  BY <1>1, <1>4 DEF Skip, Turn, ToMain, FlushMain, CloseMain, Warn, disk, InSession, Closing
<1>5. ASSUME NEW result, NEW fate, Execute(result, fate)
      PROVE  coverage' = coverage /\ (Open(stage') => Open(stage) /\ loaded' = loaded)
  BY <1>5 DEF Execute, Turn, disk, InSession
<1>6. CASE Terminate \/ Orderly \/ Kill \/ Return \/ Leave \/ ToCopies
  <2>1. /\ coverage' = coverage
        /\ stage' = "idle" \/ (Open(stage) /\ loaded' = loaded)
    BY <1>6 DEF Terminate, Orderly, TerminateClose, Kill, Return, Leave, ToCopies, Copy, Losing,
                CloseCopy, Exit, disk, InSession, Closing
  <2> QED BY <1>1, <2>1 DEF InSession, Closing
<1>7. CASE WriteManifest \/ TruncateReport \/ WriteReport
  <2>1. coverage' = coverage /\ stage' \in {"truncate", "report", "exit"}
    BY <1>7 DEF WriteManifest, TruncateReport, WriteReport
  <2> QED BY <1>1, <2>1 DEF InSession, Closing
<1>8. CASE UNCHANGED shardVars
  BY <1>1, <1>8 DEF shardVars, disk
<1> HIDE DEF Open
<1> QED BY <1>1, <1>2, <1>3, <1>4, <1>5, <1>6, <1>7, <1>8, ShardSteps DEF Quiet, Draining

LEMMA ReportedNext ==
  ASSUME Reported, [ShardNext]_shardVars
  PROVE  Reported'
<1> SUFFICES ASSUME stage' = "exit" PROVE shardReport' = Account'
  BY DEF Reported
<1>1. ASSUME UNCHANGED <<seen, args>> PROVE Account' = Account
  <2>1. \A fates : With(fates)' = With(fates)
    BY <1>1 DEF With
  <2>2. Solved' = Solved /\ \A o : OfClass(o)' = OfClass(o)
    BY <1>1, <2>1 DEF Solved, OfClass
  <2>3. Nonvalid' = Nonvalid
    BY <2>2 DEF Nonvalid
  <2>4. Failed' = Failed /\ Exceptions' = Exceptions
    BY <2>1, <2>3 DEF Failed, Exceptions
  <2>5. QualityOk' = QualityOk
    BY <1>1, <2>2, <2>4 DEF QualityOk, SoftwareErrors, Attempted
  <2> QED BY <2>1, <2>2, <2>4, <2>5 DEF Account
<1>2. CASE WriteReport
  <2>1. shardReport' = Account /\ UNCHANGED <<seen, args>>
    BY <1>2 DEF WriteReport, Account
  <2> QED BY <1>1, <2>1
<1>3. CASE UNCHANGED shardVars
  <2>1. UNCHANGED <<seen, args, stage, shardReport>>
    BY <1>3 DEF shardVars, disk
  <2> QED BY <1>1, <2>1 DEF Reported
<1>4. CASE \/ Launch \/ Skip \/ AppendLedgers \/ WriteManifest \/ TruncateReport \/ Return
           \/ Leave \/ ToMain \/ ToCopies \/ Draining \/ Kill
  BY <1>4 DEF Launch, Skip, Turn, AppendLedgers, WriteManifest, TruncateReport, Return, Leave,
              ToMain, FlushMain, CloseMain, ToCopies, Copy, Onward, Losing, CloseCopy,
              Draining, Warn, Terminate, Orderly, TerminateClose, Kill, Exit
<1>5. ASSUME NEW result, NEW fate, Execute(result, fate) PROVE FALSE
  BY <1>5 DEF Execute, Onward
<1> QED BY <1>2, <1>3, <1>4, <1>5, ShardSteps DEF Quiet

LEMMA DoneNext ==
  ASSUME ShardTypes, Progress, Kept, Reported, DoneMeansSampled, [ShardNext]_shardVars
  PROVE  DoneMeansSampled'
<1> SUFFICES ASSUME marked', Clean'
             PROVE  Cardinality(Cands \ InFile') <= shardReport'.exceptions
  BY DEF DoneMeansSampled
<1>0. Clean
  BY CleanStep
<1>1. CASE UNCHANGED shardVars
  <2>1. UNCHANGED <<main, marked, shardReport>>
    BY <1>1 DEF shardVars, disk
  <2>2. InFile' = InFile
    BY <2>1 DEF InFile
  <2> QED BY <1>0, <2>1, <2>2 DEF DoneMeansSampled
<1>2. CASE Return
  <2>1. stage = "exit" /\ UNCHANGED <<main, shardReport>> /\ shardReport = Account
    BY <1>2 DEF Return, Reported
  <2>2. Cands \ InFile \subseteq With({"early", "copy", "late"})
    <3> SUFFICES ASSUME NEW c \in Cands, c \notin InFile PROVE seen[c].fate = "early"
      BY DEF With
    <3>1. c < at /\ seen[c].fate # "none" /\ c \notin loaded /\ c \notin With(Written)
      BY <1>0, <2>1, KeptInFile DEF After
    <3>2. seen[c].fate \notin Written /\ seen[c].fate # "skipped"
      BY <3>1 DEF With, Progress
    <3> QED BY <3>1, <3>2 DEF ShardTypes, Fates, Written
  <2>3. Cardinality(Cands \ InFile) <= Cardinality(With({"early", "copy", "late"}))
    <3>1. With({"early", "copy", "late"}) \subseteq Cands
      BY DEF With
    <3> QED BY <2>2, <3>1, CountFacts, FS_Subset
  <2>4. Exceptions = Cardinality(With({"early", "copy", "late"}))
    <3>1. Nonvalid \subseteq Cands /\ With({"early", "copy", "late"}) \subseteq Cands
      BY DEF Nonvalid, Solved, With
    <3>2. /\ Cardinality(Nonvalid) \in Nat
          /\ Cardinality(With({"early", "copy", "late"})) \in Nat
      BY <3>1, CountFacts
    <3> QED BY <3>2 DEF Failed, Exceptions
  <2>5. InFile' = InFile /\ shardReport'.exceptions = Exceptions
    BY <2>1 DEF InFile, Account
  <2> QED BY <2>3, <2>4, <2>5
<1>3. CASE marked /\ ~UNCHANGED shardVars
  <2>1. stage = "idle"
    BY <1>3 DEF Progress
  <2>2. \A result, fate : ~Execute(result, fate)
    BY <2>1 DEF Execute, Turn
  <2>3. ~(Skip \/ AppendLedgers \/ WriteManifest \/ TruncateReport \/ WriteReport \/ Return
            \/ Leave \/ ToMain \/ ToCopies \/ Draining \/ Kill)
    BY <2>1 DEF Skip, Turn, AppendLedgers, WriteManifest, TruncateReport, WriteReport, Return,
                Leave, ToMain, FlushMain, CloseMain, ToCopies, Copy, Losing, CloseCopy, Draining,
                Warn, Terminate, Orderly, TerminateClose, Kill
  <2> QED BY <1>3, <2>2, <2>3, ShardSteps DEF Quiet, Launch
<1>4. CASE ~marked /\ ~Return
  <2>1. ASSUME NEW result, NEW fate, Execute(result, fate) PROVE FALSE
    BY <1>4, <2>1 DEF Execute, disk
  <2> QED BY <1>1, <1>4, <2>1, ShardSteps, MainLeavesCopies, CopiesLeaveMain
          DEF Quiet, Launch, Skip, Leave, AppendLedgers, WriteManifest, TruncateReport, WriteReport,
              Draining, Warn, Terminate, Orderly, TerminateClose, Kill, disk
<1> QED BY <1>1, <1>2, <1>3, <1>4

(***************************************************************************)
(* The verdict of a session that had everything to do.                     *)
(***************************************************************************)
\* Its reports count what is on disk: its exceptions are the candidates with no
\* record, the others have the class it saw.
LEMMA WholeSession ==
  ASSUME ShardTypes, Progress, Kept, Clean, stage = "exit", loaded = {},
         With({"copy", "late"}) = {}
  PROVE  LET D == With({"done"})
             E == With({"early"})
         IN  /\ Solved = D /\ With({"early", "copy", "late"}) = E
             /\ D \cup E = Cands /\ D \cap E = {}
             /\ BadOnDisk = E \cup {c \in D : seen[c].class \in BadClasses}
             /\ \A c \in D : seen[c].class \in Classes
<1> DEFINE D == With({"done"})
           E == With({"early"})
<1>1. /\ D \subseteq Cands /\ E \subseteq Cands /\ D \cap E = {}
      /\ \A c \in Cands : seen[c].fate \notin {"copy", "late"}
  BY DEF With
<1>2. \A c \in Cands : seen[c].fate \in {"early", "done"}
  <2> SUFFICES ASSUME NEW c \in Cands PROVE seen[c].fate \in {"early", "done"}
    OBVIOUS
  <2>1. seen[c].fate # "none" /\ seen[c].fate # "skipped"
    BY KeptInFile DEF After, Progress
  <2> QED BY <1>1, <2>1 DEF ShardTypes, Fates
<1>3. Solved = D /\ With({"early", "copy", "late"}) = E /\ D \cup E = Cands
  BY <1>1, <1>2 DEF Solved, With
<1>4. \A c \in D : seen[c].class \in Classes
  BY DEF With, Progress, Written
<1>5. buf = <<>>
  BY DEF Progress, InSession
<1>6. Decoded(main) = {Recorded[i] : i \in DOMAIN Recorded}
  BY <1>5, CleanRead
<1>7. \A i \in DOMAIN Recorded : /\ Recorded[i].cand \in D
                                 /\ seen[Recorded[i].cand].class = Recorded[i].class
  <2> SUFFICES ASSUME NEW i \in DOMAIN Recorded
               PROVE  /\ Recorded[i].cand \in D
                      /\ seen[Recorded[i].cand].class = Recorded[i].class
    OBVIOUS
  <2>1. /\ Recorded[i].cand \in Cands /\ seen[Recorded[i].cand].fate \in Written
        /\ seen[Recorded[i].cand].class = Recorded[i].class
    BY RecordCand DEF Kept
  <2> QED BY <1>2, <2>1 DEF With, Written
<1>8. \A c \in D : \E i \in DOMAIN Recorded : Recorded[i].cand = c
  BY DEF Kept, With, Written
<1>9. ASSUME NEW B
      PROVE  {r.cand : r \in {x \in Decoded(main) : x.class \notin B}}
               = {c \in D : seen[c].class \notin B}
  <2>1. ASSUME NEW r \in Decoded(main), r.class \notin B
        PROVE  r.cand \in D /\ seen[r.cand].class \notin B
    BY <1>6, <1>7, <2>1
  <2>2. ASSUME NEW c \in D, seen[c].class \notin B
        PROVE  \E r \in Decoded(main) : r.class \notin B /\ r.cand = c
    BY <1>6, <1>7, <1>8, <2>2
  <2> HIDE DEF D
  <2> QED BY <2>1, <2>2
<1>10. BadOnDisk = Cands \ {c \in D : seen[c].class \notin BadClasses}
  BY <1>9 DEF BadOnDisk
<1> HIDE DEF D, E
<1>11. BadOnDisk = E \cup {c \in D : seen[c].class \in BadClasses}
  BY <1>1, <1>3, <1>10
<1> QED BY <1>1, <1>3, <1>4, <1>11 DEF D, E

LEMMA VerdictFollows == ShardIInv => VerdictAboutFiles
<1> SUFFICES ASSUME ShardIInv, stage = "exit", loaded = {}, Clean, With({"copy", "late"}) = {}
             PROVE  shardReport.ok <=> Cardinality(BadOnDisk) * MaxDen <= MaxNum * N
  BY DEF VerdictAboutFiles
<1> DEFINE D == With({"done"})
           E == With({"early"})
           B == {c \in D : seen[c].class \in BadClasses}
<1>1. /\ Solved = D /\ With({"early", "copy", "late"}) = E
      /\ D \cup E = Cands /\ D \cap E = {}
      /\ BadOnDisk = E \cup B
      /\ \A c \in D : seen[c].class \in Classes
  BY WholeSession DEF ShardIInv
<1>2. D \subseteq Cands /\ E \subseteq Cands /\ B \subseteq D
  BY DEF With
<1> HIDE DEF D, E
<1>3. /\ Cardinality(D) \in Nat /\ Cardinality(E) \in Nat
      /\ Cardinality(D) + Cardinality(E) = N
      /\ Cardinality(B) \in Nat /\ Cardinality(BadOnDisk) = Cardinality(E) + Cardinality(B)
  <2>1. Cardinality(D) \in Nat /\ Cardinality(E) \in Nat /\ Cardinality(B) \in Nat
    BY <1>2, CountFacts
  <2>2. Cardinality(Cands) = N
    BY FS_Interval, ShardFacts
  <2>3. Cardinality(D \cup E) = Cardinality(D) + Cardinality(E)
    BY <1>1, <1>2, DisjointSum
  <2>4. Cardinality(E \cup B) = Cardinality(E) + Cardinality(B)
    <3>1. E \cap B = {} /\ B \subseteq Cands
      BY <1>1, <1>2
    <3> HIDE DEF B
    <3> QED BY <1>2, <3>1, DisjointSum
  <2> QED BY <1>1, <2>1, <2>2, <2>3, <2>4
<1>4. \A o : OfClass(o) = {c \in D : seen[c].class = o}
  BY <1>1 DEF OfClass
<1>5. Nonvalid = {c \in D : seen[c].class # "converged_valid"}
  BY <1>1, <1>4 DEF Nonvalid
<1>6. /\ Cardinality(Nonvalid) \in Nat /\ Cardinality(OfClass("software_model_error")) \in Nat
      /\ Nonvalid \subseteq D
  <2>1. Nonvalid \subseteq Cands /\ OfClass("software_model_error") \subseteq Cands
    BY <1>2, <1>4, <1>5
  <2> QED BY <1>5, <2>1, CountFacts
<1>7. Failed = Cardinality(Nonvalid) + Cardinality(E) /\ Exceptions = Cardinality(E)
  BY <1>1, <1>3, <1>6 DEF Failed, Exceptions
<1>8. Attempted = N
  BY <1>1, <1>3, <1>7 DEF Attempted
<1>9. (IF args.metric = "failure" THEN Failed ELSE SoftwareErrors) = Cardinality(BadOnDisk)
  <2>1. CASE args.metric = "failure"
    <3>1. BadClasses = Classes \ {"converged_valid"}
      BY <2>1 DEF BadClasses
    <3>2. B = Nonvalid
      BY <1>1, <1>5, <3>1
    <3> HIDE DEF B
    <3> QED BY <1>3, <1>6, <1>7, <2>1, <3>2
  <2>2. CASE args.metric # "failure"
    <3>1. BadClasses = {"software_model_error"}
      BY <2>2 DEF BadClasses
    <3>2. B = OfClass("software_model_error")
      BY <1>4, <3>1
    <3>3. SoftwareErrors = Cardinality(OfClass("software_model_error")) + Cardinality(E)
      BY <1>7 DEF SoftwareErrors
    <3> HIDE DEF B
    <3> QED BY <1>3, <1>6, <2>2, <3>2, <3>3
  <2> QED BY <2>1, <2>2
<1>10. shardReport.ok = QualityOk
  BY DEF ShardIInv, Reported, Account
<1>11. QualityOk <=> Cardinality(BadOnDisk) * MaxDen <= MaxNum * (IF N = 0 THEN 1 ELSE N)
  BY <1>8, <1>9 DEF QualityOk
<1>12. N = 0 => Cardinality(BadOnDisk) = 0
  <2>1. Cands = {} /\ BadOnDisk = {} <=> N = 0
    BY <1>1, <1>2, PfBounds DEF Cands
  <2> QED BY <2>1, FS_EmptySet
<1>13. MaxNum \in Nat /\ MaxDen \in Nat
  BY PfBounds
<1>14. CASE N = 0
  <2>1. Cardinality(BadOnDisk) * MaxDen = 0 /\ MaxNum * N = 0 /\ MaxNum * 1 >= 0
    BY <1>12, <1>13, <1>14
  <2> QED BY <1>10, <1>11, <1>14, <2>1
<1>15. CASE N # 0
  BY <1>10, <1>11, <1>15
<1> QED BY <1>14, <1>15

(***************************************************************************)
(* The theorems about the map task of a shard.                             *)
(***************************************************************************)
LEMMA ShardIInvInit == ShardInit => ShardIInv
<1> SUFFICES ASSUME ShardInit PROVE ShardIInv
  OBVIOUS
<1>1. /\ main = Empty /\ copies = [o \in Classes |-> Empty] /\ coverage = [c \in Cands |-> 0]
      /\ manifest = 0 /\ shardReport = NoReport /\ marked = FALSE
      /\ args \in [strict : BOOLEAN, metric : {"failure", "software_error"}]
      /\ launches = 0 /\ stage = "idle" /\ at = 1 /\ loaded = {}
      /\ buf = <<>> /\ bufs = NoCopies /\ since = 0 /\ seen = Fresh /\ cut = {} /\ intact = TRUE
  BY DEF ShardInit
<1>2. <<>> \in Seq(Lines) /\ <<>> \in Seq(Records) /\ DOMAIN <<>> = {} /\ <<>> \o <<>> = <<>>
  BY EmptySeq, ConcatEmptySeq
<1>3. Recorded = <<>> /\ \A o \in Classes : Copied(o) = <<>>
  BY <1>1, <1>2 DEF Recorded, Copied, Empty, NoCopies
<1>4. ShardTypes
  <2>1. 1 \in 1 .. N + 1 /\ 0 \in 0 .. FlushEvery /\ 0 \in 0 .. MaxLaunches
    BY PfBounds
  <2> QED BY <1>1, <1>2, <2>1, FreshTypes DEF ShardTypes, Empty
<1>5. Progress
  <2>1. \A c \in Cands : Met(Fresh, 1, {}, c)
    BY FreshMet
  <2> QED BY <1>1, <2>1 DEF Progress, Met, Empty, After
<1>6. NoSecondRecord /\ Known /\ Kept
  BY <1>1, <1>2, <1>3 DEF NoSecondRecord, Known, Kept
<1>7. IntactClean
  BY <1>1, <1>2 DEF IntactClean, Clean, Empty, Range
<1>7a. HalfWritten /\ CutLoaded
  BY <1>1 DEF HalfWritten, CutLoaded
<1>7b. CutCount /\ Cardinality(cut) <= launches
  BY <1>1, FS_EmptySet DEF CutCount
<1>8. CopiesSplitMain
  BY <1>2, <1>3, <1>7b DEF CopiesSplitMain, SameRecords, SameOrder
<1>9. Covered /\ Reported /\ DoneMeansSampled
  BY <1>1 DEF Covered, Reported, DoneMeansSampled
<1> QED BY <1>4, <1>5, <1>6, <1>7, <1>7a, <1>7b, <1>8, <1>9 DEF ShardIInv

LEMMA ShardIInvNext == ShardIInv /\ [ShardNext]_shardVars => ShardIInv'
<1> SUFFICES ASSUME ShardIInv, [ShardNext]_shardVars PROVE ShardIInv'
  OBVIOUS
<1> USE DEF ShardIInv
<1>1. ShardTypes' /\ Progress'
  BY ShardTypesNext, ProgressNext
<1>2. NoSecondRecord' /\ Known'
  BY NoSecondNext, KnownNext
<1>3. Kept' /\ IntactClean' /\ HalfWritten' /\ CutLoaded'
  BY KeptNext, IntactCleanNext, HalfWrittenNext, CutLoadedNext
<1>3a. CutCount' /\ CopiesSplitMain'
  <2>1. CutCount' /\ Cardinality(cut') <= launches'
    BY CutCountNext
  <2>2. intact' => \A o \in Classes : (SameRecords(o) /\ SameOrder(o))'
    BY CopiesNext
  <2> QED BY <2>1, <2>2 DEF CopiesSplitMain
<1>4. Covered' /\ Reported' /\ DoneMeansSampled'
  BY CoveredNext, ReportedNext, DoneNext
<1> QED BY <1>1, <1>2, <1>3, <1>3a, <1>4

\* The inductive invariant of a shard's map task: how far the session is, what it
\* loaded and what it saw are in step with the file, with its copies but for the
\* records a signal or a failed open kept from them, and with the ledger.
THEOREM ShardIInvariant == ShardSpec => []ShardIInv
BY ShardIInvInit, ShardIInvNext, PTL DEF ShardSpec

\* Every variable of a shard's map task keeps its type.
THEOREM PfShardTypes == ShardSpec => []ShardTypes
<1>1. ShardIInv => ShardTypes
  BY DEF ShardIInv
<1> QED BY <1>1, ShardIInvariant, PTL

\* samples.jsonl with what is buffered for it never holds a candidate twice,
\* however many sessions were stopped, killed in the middle of a line and resumed.
THEOREM ShardRecordsOnce == ShardSpec => []NoSecondRecord
<1>1. ShardIInv => NoSecondRecord
  BY DEF ShardIInv
<1> QED BY <1>1, ShardIInvariant, PTL

\* As long as no session was killed outright, no outcome file failed to open and no
\* signal broke off their close, the outcome files hold the records of their class in
\* the order of samples.jsonl, but for those between whose two writes a signal came:
\* of these there is one per session at most, and no resumed session adds to them.
THEOREM CopiesFollow == ShardSpec => []CopiesSplitMain
<1>1. ShardIInv => CopiesSplitMain
  BY DEF ShardIInv
<1> QED BY <1>1, ShardIInvariant, PTL

\* The ledger has at most one row about a candidate, and only with its record;
\* a shard is marked done only if its last report accounts for what is missing;
\* the verdict of a session that had everything to do is about the files.
THEOREM ShardJudgedByFiles ==
  ShardSpec => [](CoverageSound /\ DoneMeansSampled /\ VerdictAboutFiles)
<1>1. ShardIInv => CoverageSound
  <2> SUFFICES ASSUME ShardIInv, Clean, NEW c \in Cands
               PROVE  coverage[c] <= (IF c \in InFile THEN 1 ELSE 0)
    BY DEF CoverageSound
  <2>1. coverage[c] \in Nat /\ coverage[c] <= 1 /\ (coverage[c] > 0 => c \in InFile)
    BY DEF ShardIInv, ShardTypes, Covered
  <2> QED BY <2>1
<1>2. ShardIInv => CoverageSound /\ DoneMeansSampled /\ VerdictAboutFiles
  BY <1>1, VerdictFollows DEF ShardIInv
<1> QED BY <1>2, ShardIInvariant, PTL

\* Files, copies (to the same exceptions), ledger, reports and verdicts of all sessions
\* of a shard agree, for any number of candidates and sessions, any results, exceptions
\* and kills.
THEOREM RecordsAreSound == ShardSpec => []RecordsSound
<1>1. ShardSpec => [](/\ ShardTypes /\ NoSecondRecord /\ CopiesSplitMain
                      /\ CoverageSound /\ DoneMeansSampled /\ VerdictAboutFiles)
  BY PfShardTypes, ShardRecordsOnce, CopiesFollow, ShardJudgedByFiles, PTL
<1>2. ShardTypes /\ NoSecondRecord /\ CopiesSplitMain
        /\ CoverageSound /\ DoneMeansSampled /\ VerdictAboutFiles => RecordsSound
  BY DEF RecordsSound
<1> QED BY <1>1, <1>2, PTL
-----------------------------------------------------------------------------
(***************************************************************************)
(* The inductive invariant of replays and reductions (PfReduce).           *)
(***************************************************************************)
\* A session runs only for a queued shard, and there is no report without samples.
SessionsListed == /\ samples \subseteq Queued
            /\ \A id \in Ids : report[id] # "none" => id \in samples

\* A merged list is made once, from a list that was there; nothing it is made of
\* changes afterwards.
Chained == \A r \in Replays :
  /\ base[r] \in Replays => base[r] # r /\ merged[base[r]] # <<>>
  /\ base[r] = "unstaged" => staged[r] = {}
  /\ preparing = r => base[r] # "unstaged" /\ merged[r] = <<>>
  /\ merged[r] # <<>> => base[r] # "unstaged" /\ BaseFits(r) /\ merged[r] = MergedIds(r)

\* What a reducer is started with.
Working == pc # "idle" =>
  \/ job.by = Source /\ job.ids = SourceIds /\ job.roots = {}
  \/ \E r \in Replays : /\ job.by = r /\ merged[r] # <<>> /\ job.ids = merged[r]
                        /\ job.roots = {r} \cup ({base[r]} \ {"none"})
\* A summary made for a replay is of one whose merged list is there.
Summarised == marker.by \in Replays => merged[marker.by] # <<>>

\* What it has read is still so; what it has written is there until it ends.
AllFound == \A i \in Shards : found[i] # "none"
Reading == pc \in {"ledgers", "samples", "mark"} =>
  \A i \in Shards : found[i] # "none" => report[job.ids[i]] # "none"
Writing == pc \in {"samples", "mark"} /\ AllFound =>
  \A id \in Ids : ledgers[id] = (IF id \in InList(job.ids) THEN 1 ELSE 0)
Counting == pc = "mark" /\ AllFound /\ (job.by \in Replays => Short(job.by)) =>
  files = InList(job.ids)

ReplayIInv == /\ TypeOK /\ SessionsListed /\ Chained /\ MergedInPlace /\ Working
        /\ Summarised /\ Reading /\ Writing /\ Counting /\ NeverRaised /\ SameShards

(***************************************************************************)
(* Every step keeps the types.                                             *)
(***************************************************************************)
LEMMA IdsFacts == /\ \A i \in Shards : <<Source, i>> \in Ids
                  /\ \A r \in Replays, i \in Shards : <<r, i>> \in Ids
                  /\ \A id \in Ids : /\ id[1] \in Campaigns /\ id[2] \in Shards
                                     /\ id = <<id[1], id[2]>>
                                     /\ (id[1] # Source => id[1] \in Replays)
                  /\ SourceIds \in [Shards -> Ids]
                  /\ Source \notin Replays /\ "none" \notin Replays /\ Source # "none"
                  /\ "unstaged" \notin Replays
BY ReplayNames DEF Ids, Campaigns, SourceIds, Source

\* A merged list is made of ids.
LEMMA MergedIdsType ==
  ASSUME TypeOK, NEW r \in Replays,
         base[r] = "none" \/ (base[r] \in Replays /\ merged[base[r]] # <<>>)
  PROVE  MergedIds(r) \in [Shards -> Ids]
<1> DEFINE old == IF base[r] = "none" THEN SourceIds ELSE merged[base[r]]
<1>1. old \in [Shards -> Ids]
  BY IdsFacts DEF TypeOK
<1>2. MergedIds(r) = [i \in Shards |-> IF i \in staged[r] THEN <<r, i>> ELSE old[i]]
  BY DEF MergedIds
<1> HIDE DEF old
<1> QED BY <1>1, <1>2, IdsFacts

LEMMA ReplayTypesNext == TypeOK /\ Chained /\ [Next]_vars => TypeOK'
<1> SUFFICES ASSUME TypeOK, Chained, [Next]_vars PROVE TypeOK'
  OBVIOUS
<1>1. CASE Mapping
  <2>1. ASSUME NEW id \in Ids, Begin(id) PROVE TypeOK'
    BY <2>1 DEF Begin, TypeOK, replay, reducer
  <2>2. ASSUME NEW id \in Ids, MarkDone(id) PROVE TypeOK'
    BY <2>2 DEF MarkDone, TypeOK, replay, reducer
  <2>3. ASSUME NEW id \in Ids, NEW v \in Verdicts(id), End(id, v) PROVE TypeOK'
    <3>1. v \in {"good", "errors"}
      BY VerdictsAssumption
    <3> QED BY <2>3, <3>1 DEF End, TypeOK, replay, reducer
  <2> QED BY <1>1, <2>1, <2>2, <2>3 DEF Mapping, Running
<1>2. CASE Abandon
  BY <1>2 DEF Abandon, TypeOK, shards, reducer
<1>3. ASSUME NEW r \in Replays, Merge(r) PROVE TypeOK'
  <2>1. MergedIds(r) \in [Shards -> Ids]
    BY <1>3, MergedIdsType DEF Merge, Chained, TypeOK
  <2>2. merged' \in [Replays -> [Shards -> Ids] \cup {<<>>}]
    BY <1>3, <2>1 DEF Merge, TypeOK
  <2> QED BY <1>3, <2>2 DEF Merge, TypeOK, shards, reducer
<1>4. ASSUME NEW r \in Replays, NEW q \in Requests, NEW b \in Replays \cup {"none"}, Stage(r, q, b)
      PROVE  TypeOK'
  <2>1. Affected(q) \subseteq Shards
    BY RequestsAssumption DEF Affected
  <2> QED BY <1>4, <2>1 DEF Stage, TypeOK, shards, reducer
<1>5. CASE ReduceRound
  <2>1. reduces' \in 0 .. MaxReduces
    BY <1>5, ReduceBounds DEF ReduceRound, TypeOK
  <2> QED BY <1>5, <2>1 DEF ReduceRound, Start, TypeOK, shards, replay
<1>6. CASE Finalize \/ MapEnds \/ Supervise
  BY <1>6 DEF Finalize, MapEnds, Supervise, Start, TypeOK, shards, replay, reducer
<1>7. ASSUME NEW r \in Replays, ReduceReplay(r) PROVE TypeOK'
  <2>1. reduces' \in 0 .. MaxReduces
    BY <1>7, ReduceBounds DEF ReduceReplay, TypeOK
  <2> QED BY <1>7, <2>1 DEF ReduceReplay, Start, TypeOK, shards, replay
<1>8. CASE ReadReports
  BY <1>8 DEF ReadReports, Reset, TypeOK, shards, replay
<1>9. CASE WriteLedgers
  BY <1>9 DEF WriteLedgers, TypeOK, shards, replay
<1>10. CASE CountSamples
  <2>1. FilesForRoots \subseteq Ids
    BY DEF FilesForRoots, Replacements, TypeOK
  <2> QED BY <1>10, <2>1 DEF CountSamples, TypeOK, shards, replay
<1>11. CASE WriteMarker
  BY <1>11 DEF WriteMarker, Reset, TypeOK, shards, replay
<1>12. CASE Die
  <2>1. reduces' \in 0 .. MaxReduces
    BY <1>12, ReduceBounds DEF Die, TypeOK
  <2> QED BY <1>12, <2>1 DEF Die, Reset, TypeOK, shards, replay
<1>13. CASE UNCHANGED vars
  BY <1>13 DEF vars, TypeOK, shards, replay, reducer
<1> QED
  BY <1>1, <1>2, <1>3, <1>4, <1>5, <1>6, <1>7, <1>8, <1>9, <1>10, <1>11, <1>12, <1>13
     DEF Next, Preparing, Reducing

(***************************************************************************)
(* Every step keeps what is said of sessions and of merged lists.          *)
(***************************************************************************)
\* A list that is there, and what it was made of, stay; shards stay in their queues.
LEMMA ListsStay ==
  ASSUME TypeOK, Chained, [Next]_vars
  PROVE  \A r \in Replays :
           /\ base[r] # "unstaged" => staged'[r] = staged[r] /\ base'[r] = base[r]
           /\ staged[r] \subseteq staged'[r]
           /\ merged[r] # <<>> => merged'[r] = merged[r]
<1>1. ASSUME NEW r \in Replays, NEW q \in Requests, NEW b \in Replays \cup {"none"}, Stage(r, q, b),
             NEW x \in Replays
      PROVE  /\ base[x] # "unstaged" => staged'[x] = staged[x] /\ base'[x] = base[x]
             /\ staged[x] \subseteq staged'[x] /\ merged' = merged
  BY <1>1 DEF Stage, TypeOK, Chained
<1>2. ASSUME NEW r \in Replays, Merge(r), NEW x \in Replays, merged[x] # <<>>
      PROVE  merged'[x] = merged[x]
  <2>1. x # r
    BY <1>2 DEF Merge, Chained
  <2> QED BY <1>2, <2>1 DEF Merge, TypeOK
<1>3. ASSUME NEW r \in Replays, Merge(r) PROVE staged' = staged /\ base' = base
  BY <1>3 DEF Merge
<1>4. CASE Mapping
  BY <1>4 DEF Mapping, Running, Begin, End, MarkDone, replay
<1>5. CASE Abandon \/ (\E r \in Replays : ReduceReplay(r)) \/ ReduceRound
           \/ Finalize \/ MapEnds \/ Supervise
  BY <1>5 DEF Abandon, ReduceReplay, ReduceRound, Finalize, MapEnds, Supervise, Start, replay
<1>6. CASE Reducing \/ Die
  BY <1>6 DEF Reducing, ReadReports, WriteLedgers, CountSamples, WriteMarker, Die, replay
<1>7. CASE UNCHANGED vars
  BY <1>7 DEF vars, replay
<1> QED BY <1>1, <1>2, <1>3, <1>4, <1>5, <1>6, <1>7 DEF Next, Preparing

\* Reports, once written, stay good or bad; samples stay.
LEMMA ReportsStay ==
  ASSUME TypeOK, [Next]_vars
  PROVE  /\ \A id \in Ids : report[id] # "none" => report'[id] # "none"
         /\ samples \subseteq samples'
<1>1. ASSUME NEW id \in Ids, NEW v \in Verdicts(id), End(id, v), NEW x \in Ids, report[x] # "none"
      PROVE  report'[x] # "none" /\ samples' = samples
  BY <1>1 DEF End, TypeOK
<1>2. ASSUME NEW id \in Ids, NEW v \in Verdicts(id), End(id, v) PROVE samples' = samples
  BY <1>2 DEF End
<1>3. ASSUME NEW id \in Ids, Begin(id) \/ MarkDone(id)
      PROVE  report' = report /\ samples \subseteq samples'
  BY <1>3 DEF Begin, MarkDone
<1>4. CASE Preparing \/ ReduceRound \/ Finalize \/ MapEnds \/ Supervise
  BY <1>4 DEF Preparing, Abandon, Merge, Stage, ReduceReplay, ReduceRound, Finalize, MapEnds,
              Supervise, Start, shards
<1>5. CASE Reducing \/ Die
  BY <1>5 DEF Reducing, ReadReports, WriteLedgers, CountSamples, WriteMarker, Die, shards
<1>6. CASE UNCHANGED vars
  BY <1>6 DEF vars, shards
<1> QED BY <1>1, <1>2, <1>3, <1>4, <1>5, <1>6 DEF Next, Mapping, Running

LEMMA SessionsNext == TypeOK /\ Chained /\ SessionsListed /\ [Next]_vars => SessionsListed'
<1> SUFFICES ASSUME TypeOK, Chained, SessionsListed, [Next]_vars PROVE SessionsListed'
  OBVIOUS
<1>1. Queued \subseteq Queued'
  BY ListsStay, IdsFacts DEF Queued
<1>2. ASSUME NEW id \in Ids, NEW v \in Verdicts(id), End(id, v) PROVE SessionsListed'
  BY <1>1, <1>2 DEF End, SessionsListed, TypeOK
<1>3. ASSUME NEW id \in Ids, Begin(id) \/ MarkDone(id) PROVE SessionsListed'
  BY <1>1, <1>3 DEF Begin, MarkDone, SessionsListed
<1>4. CASE Preparing \/ ReduceRound \/ Finalize \/ MapEnds \/ Supervise
  BY <1>1, <1>4 DEF SessionsListed, Preparing, Abandon, Merge, Stage, ReduceReplay, ReduceRound,
                    Finalize, MapEnds, Supervise, Start, shards
<1>5. CASE Reducing \/ Die
  BY <1>1, <1>5 DEF SessionsListed, Reducing, ReadReports, WriteLedgers, CountSamples, WriteMarker, Die,
                    shards
<1>6. CASE UNCHANGED vars
  BY <1>1, <1>6 DEF SessionsListed, vars, shards
<1> QED BY <1>2, <1>3, <1>4, <1>5, <1>6 DEF Next, Mapping, Running

LEMMA ChainedNext == TypeOK /\ Chained /\ [Next]_vars => Chained'
<1> SUFFICES ASSUME TypeOK, Chained, [Next]_vars PROVE Chained'
  OBVIOUS
<1>1. ASSUME NEW r \in Replays, NEW q \in Requests, NEW b \in Replays \cup {"none"}, Stage(r, q, b)
      PROVE  Chained'
  <2>1. base[r] = "unstaged" /\ merged[r] = <<>> /\ b # r /\ (b # "none" => merged[b] # <<>>)
    BY <1>1 DEF Stage, Chained
  <2>2. /\ merged' = merged /\ preparing' = r /\ base'[r] = b /\ b # "unstaged"
        /\ \A x \in Replays \ {r} : staged'[x] = staged[x] /\ base'[x] = base[x]
    BY <1>1, IdsFacts DEF Stage, TypeOK
  <2>3. ASSUME NEW x \in Replays \ {r}
        PROVE  BaseFits(x)' = BaseFits(x) /\ MergedIds(x)' = MergedIds(x)
    BY <2>2 DEF BaseFits, MergedIds
  <2> QED BY <2>1, <2>2, <2>3, IdsFacts DEF Chained, TypeOK
<1>2. ASSUME NEW r \in Replays, Merge(r) PROVE Chained'
  <2>1. /\ merged[r] = <<>> /\ base[r] # "unstaged" /\ base' = base /\ staged' = staged
        /\ preparing' = "none"
    BY <1>2 DEF Merge, Chained
  <2>2. \A x \in Replays : merged[x] # <<>> => merged'[x] = merged[x]
    BY ListsStay
  <2>3. ASSUME NEW x \in Replays, BaseFits(x), base[x] # "unstaged"
        PROVE  BaseFits(x)' /\ MergedIds(x)' = MergedIds(x)
    BY <2>1, <2>2, <2>3 DEF BaseFits, MergedIds, Chained, TypeOK
  <2>4. merged'[r] # <<>> => BaseFits(r) /\ merged'[r] = MergedIds(r)
    BY <1>2, <2>1 DEF Merge, TypeOK
  <2>5. \A x \in Replays \ {r} : merged'[x] = merged[x]
    BY <1>2 DEF Merge, TypeOK
  <2> QED BY <2>1, <2>2, <2>3, <2>4, <2>5, IdsFacts DEF Chained, TypeOK
<1>3. CASE Abandon
  BY <1>3, IdsFacts DEF Abandon, Chained, BaseFits, MergedIds
<1>4. CASE replay' = replay
  BY <1>4 DEF Chained, replay, BaseFits, MergedIds
<1>5. CASE \/ Mapping \/ ReduceRound \/ Finalize \/ MapEnds \/ Supervise
           \/ \E r \in Replays : ReduceReplay(r)
  BY <1>4, <1>5 DEF Mapping, Running, Begin, End, MarkDone, ReduceRound, Finalize, MapEnds, Supervise,
                    ReduceReplay, Start, replay
<1>6. CASE Reducing \/ Die
  BY <1>4, <1>6 DEF Reducing, ReadReports, WriteLedgers, CountSamples, WriteMarker, Die
<1>7. CASE UNCHANGED vars
  BY <1>4, <1>7 DEF vars
<1> QED BY <1>1, <1>2, <1>3, <1>5, <1>6, <1>7 DEF Next, Preparing

LEMMA InPlaceNext == TypeOK /\ Chained /\ MergedInPlace /\ [Next]_vars => MergedInPlace'
<1> SUFFICES ASSUME TypeOK, Chained, MergedInPlace, [Next]_vars PROVE MergedInPlace'
  OBVIOUS
<1>1. \A r \in Replays : staged[r] \subseteq staged'[r]
  BY ListsStay
\* A list that stays is in place, as the queues only grow.
<1>2. ASSUME NEW r \in Replays, merged'[r] = merged[r], merged'[r] # <<>>, NEW i \in Shards
      PROVE  merged'[r][i][2] = i
             /\ (merged'[r][i][1] # Source => i \in staged'[merged'[r][i][1]])
  <2>1. merged[r][i] \in Ids
    BY <1>2 DEF TypeOK
  <2>2. merged[r][i][1] # Source => merged[r][i][1] \in Replays
    BY <2>1, IdsFacts
  <2> QED BY <1>1, <1>2, <2>2 DEF MergedInPlace
<1>3. ASSUME NEW r \in Replays, Merge(r) PROVE MergedInPlace'
  <2>1. ASSUME merged'[r] # <<>>, merged[r] = <<>>, NEW i \in Shards
        PROVE  merged'[r][i][2] = i
               /\ (merged'[r][i][1] # Source => i \in staged'[merged'[r][i][1]])
    <3> DEFINE old == IF base[r] = "none" THEN SourceIds ELSE merged[base[r]]
    <3>1. merged'[r][i] = IF i \in staged[r] THEN <<r, i>> ELSE old[i]
      BY <1>3, <2>1 DEF Merge, MergedIds, TypeOK
    <3>2. staged' = staged
      BY <1>3 DEF Merge
    <3>3. old[i][2] = i /\ (old[i][1] # Source => i \in staged[old[i][1]])
      <4>1. CASE base[r] = "none"
        BY <4>1 DEF SourceIds
      <4>2. CASE base[r] # "none"
        BY <1>3, <4>2 DEF Merge, Chained, MergedInPlace, TypeOK
      <4> QED BY <4>1, <4>2
    <3> QED BY <3>1, <3>2, <3>3
  <2>2. \A x \in Replays \ {r} : merged'[x] = merged[x]
    BY <1>3 DEF Merge, TypeOK
  <2>3. merged[r] # <<>> => merged'[r] = merged[r]
    BY ListsStay
  <2> QED BY <1>2, <2>1, <2>2, <2>3 DEF MergedInPlace
<1>4. CASE merged' = merged
  BY <1>2, <1>4 DEF MergedInPlace
<1>5. CASE \/ Mapping \/ ReduceRound \/ Finalize \/ MapEnds \/ Supervise \/ Abandon
           \/ (\E r \in Replays : ReduceReplay(r))
           \/ (\E r \in Replays, q \in Requests, b \in Replays \cup {"none"} : Stage(r, q, b))
  BY <1>4, <1>5 DEF Mapping, Running, Begin, End, MarkDone, ReduceRound, Finalize, MapEnds, Supervise,
                    Abandon, ReduceReplay, Stage, Start, replay
<1>6. CASE Reducing \/ Die
  BY <1>4, <1>6 DEF Reducing, ReadReports, WriteLedgers, CountSamples, WriteMarker, Die, replay
<1>7. CASE UNCHANGED vars
  BY <1>4, <1>7 DEF vars, replay
<1> QED BY <1>3, <1>5, <1>6, <1>7 DEF Next, Preparing

(***************************************************************************)
(* Every step keeps what is said of the reducer.                           *)
(***************************************************************************)
ReducerStarts == \/ ReduceRound
                 \/ (Finalize /\ Start(SourceJob(TRUE)))
                 \/ \E r \in Replays : ReduceReplay(r)

\* Sessions, preparations and the other jobs of the chain leave the reducer and
\* what it writes alone.
LEMMA OthersDoNotReduce ==
  ASSUME [Next]_vars
  PROVE  \/ reducer' = reducer /\ marker' = marker /\ ledgers' = ledgers
         \/ ReducerStarts \/ Reducing \/ Die
BY DEF Next, Mapping, Running, Begin, End, MarkDone, MapEnds, Supervise, Finalize, Preparing,
       Abandon, Merge, Stage, ReducerStarts, vars, reducer

\* A reducer starts with the reports, when there is none; nothing is written.
LEMMA StartFacts ==
  ASSUME ReducerStarts
  PROVE  pc = "idle" /\ pc' = "reports" /\ UNCHANGED <<shards, replay, marker, ledgers, found, files>>
BY DEF ReducerStarts, ReduceRound, ReduceReplay, Start

LEMMA WorkingNext == TypeOK /\ Chained /\ Working /\ [Next]_vars => Working'
<1> SUFFICES ASSUME TypeOK, Chained, Working, [Next]_vars PROVE Working'
  OBVIOUS
<1>1. ASSUME NEW r \in Replays, merged[r] # <<>>
      PROVE  merged'[r] = merged[r] /\ base'[r] = base[r]
  BY <1>1, ListsStay DEF Chained
<1>2. CASE pc # "idle" /\ job' = job
  BY <1>1, <1>2 DEF Working
<1>3. CASE pc' = "idle"
  BY <1>3 DEF Working
<1>4. CASE ReduceRound \/ (Finalize /\ Start(SourceJob(TRUE)))
  BY <1>4 DEF ReduceRound, Start, SourceJob, Working
<1>5. ASSUME NEW r \in Replays, ReduceReplay(r) PROVE Working'
  BY <1>5, <1>1 DEF ReduceReplay, Start, Working, replay
<1>6. CASE reducer' = reducer
  BY <1>2, <1>3, <1>6 DEF reducer
<1>7. CASE Reducing \/ Die
  BY <1>2, <1>3, <1>7 DEF Reducing, ReadReports, WriteLedgers, CountSamples, WriteMarker, Die, Reset
<1> QED BY <1>4, <1>5, <1>6, <1>7, OthersDoNotReduce DEF ReducerStarts

\* A reducer's list is made of ids.
LEMMA JobList ==
  ASSUME TypeOK, Chained, MergedInPlace, Working, pc # "idle"
  PROVE  job.ids \in [Shards -> Ids]
<1>1. CASE job.ids = SourceIds
  BY <1>1, IdsFacts
<1>2. ASSUME NEW r \in Replays, merged[r] # <<>>, job.ids = merged[r] PROVE job.ids \in [Shards -> Ids]
  BY <1>2 DEF TypeOK
<1> QED BY <1>1, <1>2 DEF Working

LEMMA ReadingNext ==
  TypeOK /\ Chained /\ MergedInPlace /\ Working /\ Reading /\ [Next]_vars => Reading'
<1> SUFFICES ASSUME TypeOK, Chained, MergedInPlace, Working, Reading, [Next]_vars PROVE Reading'
  OBVIOUS
<1>1. CASE pc \in {"ledgers", "samples", "mark"} /\ job' = job /\ found' = found
  <2>1. job.ids \in [Shards -> Ids]
    BY <1>1, JobList
  <2> QED BY <1>1, <2>1, ReportsStay DEF Reading
<1>2. CASE pc' \notin {"ledgers", "samples", "mark"}
  BY <1>2 DEF Reading
<1>3. CASE ReadReports
  BY <1>2, <1>3 DEF ReadReports, Reset, Reading, shards
<1>4. CASE WriteLedgers \/ CountSamples \/ WriteMarker \/ Die
  BY <1>1, <1>2, <1>4 DEF WriteLedgers, CountSamples, WriteMarker, Die, Reset
<1>5. CASE ReducerStarts
  BY <1>2, <1>5, StartFacts
<1>6. CASE reducer' = reducer
  BY <1>1, <1>2, <1>6 DEF reducer
<1> QED BY <1>3, <1>4, <1>5, <1>6, OthersDoNotReduce DEF Reducing

LEMMA WritingNext ==
  TypeOK /\ Chained /\ MergedInPlace /\ Working /\ Reading /\ Writing /\ [Next]_vars => Writing'
<1> SUFFICES ASSUME TypeOK, Chained, MergedInPlace, Working, Reading, Writing, [Next]_vars
             PROVE  Writing'
  OBVIOUS
<1>1. CASE pc \in {"samples", "mark"} /\ job' = job /\ found' = found /\ ledgers' = ledgers
  BY <1>1 DEF Writing, AllFound
<1>2. CASE pc' \notin {"samples", "mark"}
  BY <1>2 DEF Writing
<1>3. CASE WriteLedgers
  <2>1. ASSUME AllFound', NEW id \in InList(job.ids) PROVE report[id] # "none"
    <3>1. pc = "ledgers" /\ found' = found
      BY <1>3 DEF WriteLedgers
    <3>2. job.ids \in [Shards -> Ids]
      BY <3>1, JobList
    <3> QED BY <2>1, <3>1, <3>2 DEF Reading, AllFound, InList
  <2> QED BY <1>3, <2>1 DEF WriteLedgers, Writing, HasRows
<1>4. CASE CountSamples \/ WriteMarker \/ ReadReports \/ Die
  BY <1>1, <1>2, <1>4 DEF CountSamples, WriteMarker, ReadReports, Die, Reset
<1>5. CASE ReducerStarts
  BY <1>2, <1>5, StartFacts
<1>6. CASE reducer' = reducer /\ ledgers' = ledgers
  BY <1>1, <1>2, <1>6 DEF reducer
<1> QED BY <1>3, <1>4, <1>5, <1>6, OthersDoNotReduce DEF Reducing

\* A shard replayed by a campaign stands in that campaign's merged list.
LEMMA ReplayedStands ==
  ASSUME TypeOK, Chained, NEW r \in Replays, merged[r] # <<>>, NEW i \in Shards
  PROVE  /\ i \in staged[r] => merged[r][i] = <<r, i>>
         /\ i \notin staged[r] => merged[r][i] = IF base[r] = "none" THEN <<Source, i>>
                                                ELSE merged[base[r]][i]
<1>1. merged[r] = MergedIds(r)
  BY DEF Chained
<1> QED BY <1>1 DEF MergedIds, SourceIds

\* The base of a replay holds no shard that the replay stages again.
LEMMA NotTwice ==
  ASSUME TypeOK, Chained, NEW r \in Replays, merged[r] # <<>>, base[r] # "none", NEW i \in staged[r]
  PROVE  base[r] \in Replays /\ base[r] # r /\ i \in Shards /\ i \notin staged[base[r]]
<1>1. base[r] \in Replays /\ base[r] # r /\ merged[base[r]] # <<>> /\ i \in Shards
  BY DEF Chained, TypeOK
<1>2. merged[base[r]][i] \in {<<Source, i>>, <<r, i>>}
  BY DEF Chained, BaseFits
<1>3. SUFFICES ASSUME i \in staged[base[r]] PROVE FALSE
  BY <1>1
<1>4. merged[base[r]][i] = <<base[r], i>>
  BY <1>1, <1>3, ReplayedStands
<1>5. base[r] # Source
  BY <1>1, IdsFacts
<1> QED BY <1>1, <1>2, <1>4, <1>5

\* A sample file of a root belongs to a shard of its queue.
LEMMA Staged ==
  ASSUME TypeOK, SessionsListed, NEW x \in Replacements, x[1] \in Replays
  PROVE  x \in Ids /\ x[1] \in job.roots /\ x[2] \in Shards /\ x[2] \in staged[x[1]]
         /\ x = <<x[1], x[2]>>
<1>1. x \in Ids /\ x \in Queued /\ x[1] \in job.roots
  BY DEF Replacements, SessionsListed, TypeOK, Queued
<1> QED BY <1>1, IdsFacts DEF Queued

LEMMA RootsAreReplays ==
  ASSUME TypeOK, Chained, Working, pc # "idle" PROVE job.roots \subseteq Replays
BY DEF Working, Chained, TypeOK

\* No shard has sample files in two of a reducer's roots.
LEMMA NoneDuplicated ==
  ASSUME TypeOK, SessionsListed, Chained, Working, pc # "idle" PROVE ~Duplicated
<1> SUFFICES ASSUME NEW x \in Replacements, NEW y \in Replacements, x # y, x[2] = y[2] PROVE FALSE
  BY DEF Duplicated
<1>1. /\ x[1] \in job.roots /\ x[2] \in staged[x[1]] /\ x = <<x[1], x[2]>>
      /\ y[1] \in job.roots /\ y[2] \in staged[y[1]] /\ y = <<y[1], y[2]>>
  BY Staged, RootsAreReplays DEF Replacements
<1>2. x[1] # y[1]
  BY <1>1
<1>3. PICK r \in Replays : merged[r] # <<>> /\ job.roots = {r} \cup ({base[r]} \ {"none"})
  BY <1>1 DEF Working
<1>4. base[r] # "none" /\ {x[1], y[1]} = {r, base[r]}
  BY <1>1, <1>2, <1>3
<1>5. x[2] \in staged[r] /\ x[2] \in staged[base[r]]
  BY <1>1, <1>4
<1> QED BY <1>3, <1>4, <1>5, NotTwice

\* A sample file of a root belongs to a shard of the list.
LEMMA RootsListed ==
  ASSUME TypeOK, SessionsListed, Chained, Working, pc # "idle", NEW x \in Replacements
  PROVE  x = job.ids[x[2]] /\ x[2] \in Shards
<1>1. x[1] \in job.roots /\ x[2] \in Shards /\ x[2] \in staged[x[1]] /\ x = <<x[1], x[2]>>
  BY Staged, RootsAreReplays DEF Replacements
<1>2. PICK r \in Replays : /\ merged[r] # <<>> /\ job.ids = merged[r]
                           /\ job.roots = {r} \cup ({base[r]} \ {"none"})
  BY <1>1 DEF Working
<1>3. CASE x[1] = r
  <2>1. merged[r][x[2]] = <<r, x[2]>>
    BY <1>1, <1>2, <1>3, ReplayedStands
  <2> QED BY <1>1, <1>2, <1>3, <2>1
<1>4. CASE x[1] # r
  <2>1. x[1] = base[r] /\ base[r] # "none"
    BY <1>1, <1>2, <1>4
  <2>2. x[2] \notin staged[r]
    BY <1>1, <1>2, <2>1, NotTwice
  <2>3. base[r] \in Replays /\ merged[base[r]] # <<>>
    BY <1>2, <2>1 DEF Chained, TypeOK
  <2>4. merged[r][x[2]] = merged[base[r]][x[2]]
    BY <1>1, <1>2, <2>1, <2>2, ReplayedStands
  <2>5. merged[base[r]][x[2]] = <<base[r], x[2]>>
    BY <1>1, <2>1, <2>3, ReplayedStands
  <2> QED BY <1>1, <1>2, <2>1, <2>4, <2>5
<1> QED BY <1>3, <1>4

\* When the replay extends the source's list, or that of a replay that does, the
\* roots hold all that its list names.
LEMMA ListAndRoots ==
  ASSUME TypeOK, Chained, MergedInPlace, Working, pc # "idle",
         job.by \in Replays => Short(job.by), NEW i \in Shards
  PROVE  job.ids[i][2] = i /\ job.ids[i][1] \in {Source} \cup job.roots
<1>1. CASE job.ids = SourceIds /\ job.roots = {}
  BY <1>1 DEF SourceIds
<1>2. ASSUME NEW r \in Replays, job.by = r, merged[r] # <<>>, job.ids = merged[r],
             job.roots = {r} \cup ({base[r]} \ {"none"})
      PROVE  job.ids[i][2] = i /\ job.ids[i][1] \in {Source} \cup job.roots
  <2>1. job.ids[i][2] = i
    BY <1>2 DEF MergedInPlace
  <2>2. CASE i \in staged[r]
    <3>1. merged[r][i] = <<r, i>>
      BY <1>2, <2>2, ReplayedStands
    <3> QED BY <1>2, <2>1, <3>1
  <2>3. CASE i \notin staged[r] /\ base[r] = "none"
    <3>1. merged[r][i] = <<Source, i>>
      BY <1>2, <2>3, ReplayedStands
    <3> QED BY <1>2, <2>1, <3>1
  <2>4. CASE i \notin staged[r] /\ base[r] # "none"
    <3>1. base[r] \in Replays /\ merged[base[r]] # <<>> /\ base[base[r]] = "none"
      BY <1>2, <2>4 DEF Chained, Short, TypeOK
    <3>2. merged[r][i] = merged[base[r]][i]
      BY <1>2, <2>4, ReplayedStands
    <3>3. merged[base[r]][i] \in {<<base[r], i>>, <<Source, i>>}
      BY <3>1, ReplayedStands
    <3> QED BY <1>2, <2>1, <2>4, <3>2, <3>3
  <2> QED BY <2>2, <2>3, <2>4
<1> QED BY <1>1, <1>2 DEF Working

\* When every listed shard has its samples, the files counted are the list's.
LEMMA FilesOfTheList ==
  ASSUME TypeOK, SessionsListed, Chained, MergedInPlace, Working, pc # "idle",
         job.by \in Replays => Short(job.by), \A i \in Shards : job.ids[i] \in samples
  PROVE  FilesForRoots = InList(job.ids)
<1>1. job.ids \in [Shards -> Ids]
  BY JobList
<1>2. Source \notin job.roots
  BY RootsAreReplays, IdsFacts
<1>3. ASSUME NEW id \in FilesForRoots PROVE id \in InList(job.ids)
  <2>1. CASE id \in Replacements
    <3>1. id \in Ids
      BY <2>1 DEF Replacements, TypeOK
    <3>2. id = job.ids[id[2]] /\ id[2] \in Shards
      BY <2>1, RootsListed
    <3> QED BY <1>1, <3>2 DEF InList
  <2>2. CASE id \in samples /\ id[1] = Source /\ \A x \in Replacements : x[2] # id[2]
    <3>1. id \in Ids /\ id[2] \in Shards /\ id = <<Source, id[2]>>
      BY <2>2, IdsFacts DEF TypeOK
    <3> DEFINE y == job.ids[id[2]]
    <3>2. y \in samples /\ y \in Ids /\ y[2] = id[2] /\ y[1] \in {Source} \cup job.roots
      BY <1>1, <3>1, ListAndRoots
    <3>3. y \notin Replacements
      BY <2>2, <3>2
    <3>4. y[1] = Source
      BY <3>2, <3>3 DEF Replacements
    <3>5. y = id
      BY <3>1, <3>2, <3>4, IdsFacts
    <3> QED BY <1>1, <3>1, <3>5 DEF InList
  <2> QED BY <1>3, <2>1, <2>2 DEF FilesForRoots
<1>4. ASSUME NEW i \in Shards PROVE job.ids[i] \in FilesForRoots
  <2>1. job.ids[i] \in samples /\ job.ids[i][2] = i /\ job.ids[i][1] \in {Source} \cup job.roots
    BY <1>4, ListAndRoots
  <2>2. CASE job.ids[i][1] \in job.roots
    BY <2>1, <2>2 DEF FilesForRoots, Replacements
  <2>3. CASE job.ids[i][1] = Source
    <3>1. ASSUME NEW x \in Replacements, x[2] = i PROVE FALSE
      <4>1. x = job.ids[i] /\ x[1] \in job.roots
        BY <3>1, RootsListed DEF Replacements
      <4> QED BY <1>2, <2>3, <4>1
    <3> QED BY <2>1, <2>3, <3>1 DEF FilesForRoots
  <2> QED BY <2>1, <2>2, <2>3
<1> QED BY <1>1, <1>3, <1>4 DEF InList

LEMMA NeverRaisedNext ==
  TypeOK /\ SessionsListed /\ Chained /\ Working /\ NeverRaised /\ [Next]_vars => NeverRaised'
<1> SUFFICES ASSUME TypeOK, SessionsListed, Chained, Working, NeverRaised, [Next]_vars PROVE pc' # "raised"
  BY DEF NeverRaised
<1>1. CASE CountSamples
  <2>1. ~Duplicated
    BY <1>1, NoneDuplicated DEF CountSamples
  <2> QED BY <1>1, <2>1 DEF CountSamples
<1>2. CASE ReadReports \/ WriteLedgers \/ WriteMarker \/ Die
  BY <1>2 DEF ReadReports, WriteLedgers, WriteMarker, Die, Reset, NeverRaised
<1>3. CASE ReducerStarts
  BY <1>3, StartFacts
<1>4. CASE reducer' = reducer
  BY <1>4 DEF reducer, NeverRaised
<1> QED BY <1>1, <1>2, <1>3, <1>4, OthersDoNotReduce DEF Reducing

\* A marker is new only when WriteMarker writes it.
LEMMA MarkerStays == [Next]_vars => marker' = marker \/ WriteMarker
<1> SUFFICES ASSUME [Next]_vars PROVE marker' = marker \/ WriteMarker
  OBVIOUS
<1>1. CASE ReducerStarts
  BY <1>1, StartFacts
<1>2. CASE ReadReports \/ WriteLedgers \/ CountSamples \/ Die
  BY <1>2 DEF ReadReports, WriteLedgers, CountSamples, Die
<1> QED BY <1>1, <1>2, OthersDoNotReduce DEF Reducing

\* The base of a replay whose list is there, and the base's base, stay.
LEMMA ShortStays ==
  ASSUME TypeOK, Chained, [Next]_vars, NEW r \in Replays, merged[r] # <<>>
  PROVE  Short(r)' => Short(r)
<1>1. base[r] # "unstaged" /\ base'[r] = base[r]
  BY ListsStay DEF Chained
<1>2. base[r] = "none" \/ (base[r] \in Replays /\ merged[base[r]] # <<>>)
  BY <1>1 DEF TypeOK, Chained
<1>3. base[r] \in Replays => base'[base[r]] = base[base[r]]
  BY <1>2, IdsFacts, ListsStay DEF Chained
<1> QED BY <1>1, <1>2, <1>3 DEF Short

LEMMA SummarisedNext == ReplayIInv /\ [Next]_vars => Summarised'
<1> SUFFICES ASSUME ReplayIInv, [Next]_vars, marker'.by \in Replays PROVE merged'[marker'.by] # <<>>
  BY DEF Summarised
<1>1. merged[marker'.by] # <<>>
  <2>1. CASE marker' = marker
    BY <2>1 DEF ReplayIInv, Summarised
  <2>2. CASE WriteMarker
    BY <2>2, IdsFacts DEF WriteMarker, ReplayIInv, Working
  <2> QED BY <2>1, <2>2, MarkerStays
<1> QED BY <1>1, ListsStay DEF ReplayIInv

LEMMA CountingNext == ReplayIInv /\ [Next]_vars => Counting'
<1> SUFFICES ASSUME ReplayIInv, [Next]_vars, pc' = "mark", AllFound', (job.by \in Replays => Short(job.by))'
             PROVE  files' = InList(job'.ids)
  BY DEF Counting, InList
<1> USE DEF ReplayIInv
<1>1. ASSUME pc # "idle", job' = job PROVE job.by \in Replays => Short(job.by)
  <2>1. SUFFICES ASSUME job.by \in Replays PROVE Short(job.by)
    OBVIOUS
  <2>2. merged[job.by] # <<>>
    BY <1>1, <2>1, IdsFacts DEF Working
  <2> QED BY <1>1, <2>1, <2>2, ShortStays DEF Short
<1>2. CASE pc = "mark" /\ UNCHANGED <<job, found, files>>
  BY <1>1, <1>2 DEF Counting, AllFound, InList
<1>3. CASE CountSamples
  <2>1. pc = "samples" /\ AllFound /\ job' = job /\ files' = FilesForRoots
    BY <1>3 DEF CountSamples, AllFound
  <2>2. \A i \in Shards : job.ids[i] \in samples
    <3>1. job.ids \in [Shards -> Ids]
      BY <2>1, JobList
    <3> QED BY <2>1, <3>1 DEF Reading, AllFound, SessionsListed
  <2> QED BY <1>1, <2>1, <2>2, FilesOfTheList
<1>4. CASE ReadReports \/ WriteLedgers \/ WriteMarker \/ Die
  BY <1>4 DEF ReadReports, WriteLedgers, WriteMarker, Die, Reset
<1>5. CASE ReducerStarts
  BY <1>5, StartFacts
<1>6. CASE reducer' = reducer
  BY <1>2, <1>6 DEF reducer
<1> QED BY <1>3, <1>4, <1>5, <1>6, OthersDoNotReduce DEF Reducing

LEMMA SameShardsNext == ReplayIInv /\ [Next]_vars => SameShards'
<1> SUFFICES ASSUME ReplayIInv, [Next]_vars, marker'.complete, (marker.by \in Replays => Short(marker.by))'
             PROVE  marker'.files = InList(marker'.ids)
  BY DEF SameShards, InList
<1> USE DEF ReplayIInv
<1>1. CASE marker' = marker
  <2>1. marker.by \in Replays => Short(marker.by)
    BY <1>1, ShortStays DEF Summarised, Short
  <2> QED BY <1>1, <2>1 DEF SameShards
<1>2. CASE WriteMarker
  <2>1. /\ AllFound /\ pc = "mark" /\ marker'.files = files /\ marker'.ids = job.ids
        /\ marker'.by = job.by
    BY <1>2 DEF WriteMarker, AllFound
  <2>2. job.by \in Replays => merged[job.by] # <<>>
    BY <2>1, IdsFacts DEF Working
  <2>3. job.by \in Replays => Short(job.by)
    BY <2>1, <2>2, ShortStays DEF Short
  <2> QED BY <2>1, <2>3 DEF Counting
<1> QED BY <1>1, <1>2, MarkerStays

(***************************************************************************)
(* The theorems.                                                           *)
(***************************************************************************)
\* The inductive invariant holds of every execution.
THEOREM ReduceInvariant == Spec => []ReplayIInv
<1>1. Init => ReplayIInv
  <2> SUFFICES ASSUME Init PROVE ReplayIInv
    OBVIOUS
  <2>1. TypeOK
    BY ReduceBounds DEF Init, TypeOK
  <2>2. SessionsListed /\ Chained /\ MergedInPlace
    BY IdsFacts DEF Init, SessionsListed, Chained, MergedInPlace
  <2>3. Working /\ Reading /\ Writing /\ Counting /\ NeverRaised
    BY DEF Init, Working, Reading, Writing, Counting, NeverRaised
  <2>4. SameShards /\ Summarised
    BY IdsFacts DEF Init, SameShards, Summarised, Absent
  <2> QED BY <2>1, <2>2, <2>3, <2>4 DEF ReplayIInv
<1>2. ReplayIInv /\ [Next]_vars => ReplayIInv'
  BY ReplayTypesNext, SessionsNext, ChainedNext, InPlaceNext, WorkingNext, ReadingNext, WritingNext,
     CountingNext, NeverRaisedNext, SummarisedNext, SameShardsNext DEF ReplayIInv
<1> QED BY <1>1, <1>2, PTL DEF Spec

\* The variables keep their types.
THEOREM PfReduceTypes == Spec => []TypeOK
<1>1. ReplayIInv => TypeOK
  BY DEF ReplayIInv
<1> QED BY <1>1, ReduceInvariant, PTL

\* prepare_pf_shard_replay.py: a merged list names every shard of the round at its
\* own position, however many replays extend one another.
THEOREM MergedListsInPlace == Spec => []MergedInPlace
<1>1. ReplayIInv => MergedInPlace
  BY DEF ReplayIInv
<1> QED BY <1>1, ReduceInvariant, PTL

\* sample_files_for_roots never meets one shard in two roots: the ValueError of
\* the preparation comes first.
THEOREM ReducerNeverRaises == Spec => []NeverRaised
<1>1. ReplayIInv => NeverRaised
  BY DEF ReplayIInv
<1> QED BY <1>1, ReduceInvariant, PTL

\* Types, merged lists, roots and counted files: everything the run checks in
\* every state.
THEOREM ReplaysAreSound == Spec => []ReplaysSound
<1>1. ReplayIInv => ReplaysSound
  BY DEF ReplayIInv, ReplaysSound
<1> QED BY <1>1, ReduceInvariant, PTL

\* A complete summary is written when the ledgers hold the listed shards once each.
THEOREM LedgersAreFit == Spec => LedgersFit
<1>1. ReplayIInv /\ [Next]_vars =>
        [marker' # marker /\ marker'.complete =>
           \A id \in Ids : ledgers[id] = (IF id \in InList(marker'.ids) THEN 1 ELSE 0)]_vars
  <2> SUFFICES ASSUME ReplayIInv, [Next]_vars, marker' # marker, marker'.complete, NEW id \in Ids
               PROVE  ledgers[id] = (IF id \in InList(marker'.ids) THEN 1 ELSE 0)
    OBVIOUS
  <2>1. WriteMarker
    BY MarkerStays
  <2>2. pc = "mark" /\ AllFound /\ marker'.ids = job.ids
    BY <2>1 DEF WriteMarker, AllFound
  <2> QED BY <2>2 DEF ReplayIInv, Writing
<1> QED BY <1>1, ReduceInvariant, PTL DEF Spec, LedgersFit
=============================================================================
