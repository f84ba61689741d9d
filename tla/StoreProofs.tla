----------------------------- MODULE StoreProofs -----------------------------
(***************************************************************************)
(* Programs that write over what earlier runs left, killed and run again:  *)
(* theorems about SourceDownload and CampaignRepair.                       *)
(*                                                                         *)
(* What a run of download_sources.py reports is true, for every list of    *)
(* archives, whatever is killed, cut or replaced.  An archive that is the  *)
(* expected one is never fetched again, so it stays it; a run that is      *)
(* still ok has made every archive it has passed the expected one, and     *)
(* extracted it when it was asked to.                                      *)
(*                                                                         *)
(* The backfill, the repair campaign and the rebuild keep rows, reports    *)
(* and costs sound, for all files, task counts and outcomes of retries.    *)
(* From the moment every index part is there nothing is retried any more,  *)
(* so what is to be replaced in a source is fixed; a source that was       *)
(* passed or swapped has nothing to replace, and no job writes it again.   *)
(* The other parts say what a report foretells between its own update and  *)
(* the swap of the rows, and what a summed source may still have.          *)
(***************************************************************************)
EXTENDS SourceDownload, CampaignRepair, SequenceTheorems, FiniteSetTheorems,
        WellFoundedInduction, TLAPS

-----------------------------------------------------------------------------
(* Source downloads *)

Versioned == Seq(Versions)

\* The archive is the expected one; its directory was filled from that.
Kept(a) == Expected[a] # 0 => raw[a] = Whole(Expected[a])
Filled(a) == Expected[a] # 0 => extracted[a] = Whole(Expected[a])

\* The places a run has gone past.
Behind == {i \in 1 .. Len(Order) : i < run.at \/ run.pc \in {"manifest", "report"}}

Progress ==
  /\ run.pc = "curl" => ~(Expected[Here] # 0 /\ raw[Here] = Whole(Expected[Here]))
  /\ run.pc # "idle" /\ run.ok /\ run.download =>
       /\ \A i \in Behind : Kept(Order[i])
       /\ run.pc = "extract" => Kept(Here)
       /\ run.extract => \A i \in Behind : Filled(Order[i])

IInv == TypeOK /\ Progress /\ ReportHonest /\ ExtractedExpected

-----------------------------------------------------------------------------
(* Contents *)

LEMMA PlacesHoldArchives == \A i \in 1 .. Len(Order) : Order[i] \in Archives
BY OrderAssumption

LEMMA OrderHasLength == Len(Order) \in Nat /\ Len(Order) >= 1
BY OrderAssumption

LEMMA ArchivesHavePlaces == \A a \in Archives : \E i \in 1 .. Len(Order) : a = Order[i]
BY OrderAssumption DEF Archives, Range

\* A file of versions is a content if it has no more chunks than the archive.
LEMMA ShortIsContent ==
  ASSUME NEW s \in Versioned, Len(s) <= Chunks
  PROVE  s \in Contents
BY BoundsAssumption DEF Versioned, Contents

LEMMA ContentIsShort ==
  ASSUME NEW s \in Contents
  PROVE  s \in Versioned /\ Len(s) \in 0 .. Chunks
<1>1. PICK n \in 0 .. Chunks : s \in [1 .. n -> Versions]
  BY DEF Contents
<1>2. n \in Nat
  BY <1>1, BoundsAssumption
<1>3. s \in Seq(Versions) /\ Len(s) = n
  BY <1>1, <1>2
<1> QED BY <1>1, <1>3 DEF Versioned

LEMMA WholeIsContent ==
  ASSUME NEW v \in Versions
  PROVE  /\ Whole(v) \in Contents /\ Whole(v) \in Versioned /\ Len(Whole(v)) = Chunks
         /\ Whole(v) # None
<1>1. Whole(v) \in [1 .. Chunks -> Versions] /\ Chunks \in Nat /\ Chunks >= 1
  BY BoundsAssumption DEF Whole
<1>2. Whole(v) \in Versioned /\ Len(Whole(v)) = Chunks
  BY <1>1 DEF Versioned
<1>3. Whole(v) \in Contents
  BY <1>1, <1>2, ShortIsContent
<1>4. Whole(v)[1] = v
  BY <1>1 DEF Whole
<1>5. Whole(v) # None
  BY <1>4, BoundsAssumption DEF None
<1> QED BY <1>2, <1>3, <1>5

LEMMA ContentExists ==
  ASSUME NEW s \in Contents
  PROVE  s # None
<1>1. s \in Seq(Versions)
  BY ContentIsShort DEF Versioned
<1>2. SUFFICES ASSUME s = None PROVE FALSE
  OBVIOUS
<1>3. Len(s) = 1 /\ s[1] = 0
  BY <1>2 DEF None
<1>4. s[1] \in Versions
  BY <1>1, <1>3
<1> QED BY <1>3, <1>4, BoundsAssumption

\* What curl leaves is a content of n chunks: what was there and what it appended.
LEMMA FetchedIsContent ==
  ASSUME TypeOK, NEW a \in Archives, NEW n \in Have(a) .. Chunks
  PROVE  Fetched(a, n) \in Contents /\ Have(a) \in 0 .. Chunks
<1> DEFINE have == IF Exists(raw[a]) THEN raw[a] ELSE <<>>
           tail == SubSeq(Whole(remote[a]), Len(have) + 1, n)
<1>1. remote[a] \in Versions /\ raw[a] \in Contents \cup {None}
  BY DEF TypeOK
<1>2. have \in Versioned /\ Len(have) \in 0 .. Chunks /\ Have(a) = Len(have)
  <2>1. CASE Exists(raw[a])
    BY <1>1, <2>1, ContentIsShort DEF Exists, Have
  <2>2. CASE ~Exists(raw[a])
    BY <2>2, BoundsAssumption DEF Have, Versioned
  <2> QED BY <2>1, <2>2
<1>3. Whole(remote[a]) \in Versioned /\ Len(Whole(remote[a])) = Chunks
  BY <1>1, WholeIsContent
<1>4. n \in Nat /\ n <= Chunks /\ Len(have) <= n /\ Len(have) \in Nat /\ Chunks \in Nat
  BY <1>2, BoundsAssumption
<1>5. tail \in Versioned /\ Len(tail) = n - Len(have)
  <2> DEFINE w == Whole(remote[a])
             k == Len(have) + 1
  <2>1. w \in Seq(Versions) /\ Len(w) = Chunks
    BY <1>3 DEF Versioned
  <2>2. k \in 1 .. Chunks + 1 /\ n \in k - 1 .. Chunks
    BY <1>4
  <2> HIDE DEF w, k
  <2>3. SubSeq(w, k, n) \in Seq(Versions)
            /\ Len(SubSeq(w, k, n)) = IF k <= n THEN n - k + 1 ELSE 0
    BY <2>1, <2>2, <1>4, SubSeqProperties
  <2>4. tail = SubSeq(w, k, n) /\ k = Len(have) + 1
    BY DEF tail, k, w
  <2>5. k <= n => n - k + 1 = n - Len(have)
    BY <2>4, <1>4
  <2>6. ~(k <= n) => n - Len(have) = 0
    BY <2>4, <1>4
  <2> QED BY <2>3, <2>4, <2>5, <2>6 DEF Versioned
<1> HIDE DEF tail
<1>6. have \o tail \in Versioned /\ Len(have \o tail) = n
  BY <1>2, <1>4, <1>5, ConcatProperties DEF Versioned
<1>7. Fetched(a, n) = have \o tail
  BY DEF Fetched, tail
<1> HIDE DEF have
<1> QED BY <1>2, <1>4, <1>6, <1>7, ShortIsContent

-----------------------------------------------------------------------------
(* Every variable keeps its type; a run, and the rest. *)

RunRecords ==
  [pc : {"idle", "check", "curl", "extract", "manifest", "report"}, at : 0 .. Len(Order),
   download : BOOLEAN, extract : BOOLEAN, ok : BOOLEAN, hashes : [Archives -> Contents \cup {None}]]
RunTyped == run \in RunRecords /\ (run.pc # "idle" => run.at \in 1 .. Len(Order))

FilesTyped ==
  /\ remote \in [Archives -> Versions]
  /\ raw \in [Archives -> Contents \cup {None}] /\ legacy \in [Archives -> Contents \cup {None}]
  /\ manifest \in [Archives -> Contents \cup {None}] \cup {TornManifest}
  /\ extracted \in [Archives -> Contents \cup {None, Partly}]
  /\ report \in [ok : BOOLEAN, download : BOOLEAN, extract : BOOLEAN]
  /\ faults \in 0 .. MaxFaults /\ news \in 0 .. MaxNews
  /\ killed \in BOOLEAN

LEMMA TypeParts == TypeOK <=> RunTyped /\ FilesTyped
BY DEF TypeOK, RunTyped, FilesTyped, RunRecords

LEMMA IdleTyped == Idle \in RunRecords /\ Idle.pc = "idle"
BY OrderHasLength DEF Idle, RunRecords

LEMMA InitTypes == Init => TypeOK
<1> SUFFICES ASSUME Init PROVE TypeOK
  OBVIOUS
<1>1. \A n \in 1 .. Chunks : SubSeq(Whole(1), 1, n) \in Contents
  <2> SUFFICES ASSUME NEW n \in 1 .. Chunks PROVE SubSeq(Whole(1), 1, n) \in Contents
    OBVIOUS
  <2> DEFINE w == Whole(1)
  <2>1. w \in Seq(Versions) /\ Len(w) = Chunks /\ Chunks \in Nat
    BY WholeIsContent, BoundsAssumption DEF Versioned
  <2>2. n \in Nat /\ 1 <= n /\ n <= Chunks
    BY <2>1
  <2> HIDE DEF w
  <2>3. \A i \in 1 .. n : w[i] \in Versions
    BY <2>1, <2>2
  <2>4. SubSeq(w, 1, n) \in Seq(Versions) /\ Len(SubSeq(w, 1, n)) = n
    BY <2>2, <2>3, SubSeqProperties
  <2> QED BY <2>2, <2>4, ShortIsContent DEF w, Versioned
<1>2. legacy \in [Archives -> Contents \cup {None}]
  <2> DEFINE Cut == {SubSeq(Whole(1), 1, n) : n \in 1 .. Chunks}
  <2>1. Cut \subseteq Contents
    BY <1>1
  <2>2. legacy \in [Archives -> {None} \cup Cut]
    BY DEF Init
  <2> HIDE DEF Cut
  <2> QED BY <2>1, <2>2
<1>3. 0 \in 0 .. MaxFaults /\ 0 \in 0 .. MaxNews
  BY BoundsAssumption
<1>4. FilesTyped
  BY <1>2, <1>3 DEF Init, FilesTyped, NoReport
<1>5. RunTyped
  BY IdleTyped DEF Init, RunTyped
<1> QED BY <1>4, <1>5, TypeParts

LEMMA HereIsArchive ==
  ASSUME TypeOK, run.pc # "idle"
  PROVE  Here \in Archives /\ run.at \in 1 .. Len(Order)
BY PlacesHoldArchives DEF TypeOK, Here

LEMMA StepTypes == TypeOK /\ [Next]_vars => TypeOK'
<1> SUFFICES ASSUME TypeOK, [Next]_vars PROVE RunTyped' /\ FilesTyped'
  BY DEF TypeOK, RunTyped, FilesTyped, RunRecords
<1>0. RunTyped /\ FilesTyped
  BY TypeParts
<1> USE OrderHasLength
<1>1. ASSUME NEW download \in BOOLEAN, NEW extract \in BOOLEAN, Start(download, extract)
      PROVE  RunTyped' /\ FilesTyped'
  <2>1. FilesTyped'
    BY <1>0, <1>1 DEF Start, FilesTyped, files
  <2>2. 1 \in 1 .. Len(Order) /\ 1 \in 0 .. Len(Order)
    OBVIOUS
  <2>3. run' = [pc |-> "check", at |-> 1, download |-> download, extract |-> extract,
                ok |-> TRUE, hashes |-> [a \in Archives |-> None]]
    BY <1>1 DEF Start, Idle
  <2>4. RunTyped'
    BY <2>2, <2>3 DEF RunTyped, RunRecords
  <2> QED BY <2>1, <2>4
<1>2. CASE Check
  <2>1. Here \in Archives /\ run.at \in 1 .. Len(Order)
    BY <1>2, HereIsArchive DEF Check
  <2>2. PICK content \in Contents \cup {None} :
          /\ raw' = [raw EXCEPT ![Here] = content]
          /\ run' = [run EXCEPT !.pc = IF run.download /\ ToFetch(Here, content) THEN "curl" ELSE "extract",
                                !.hashes[Here] = content]
    BY <1>0, <1>2, <2>1 DEF Check, FilesTyped
  <2>3. legacy' = legacy \/ legacy' = [legacy EXCEPT ![Here] = None]
    BY <1>2 DEF Check
  <2>4. RunTyped'
    <3>1. ASSUME NEW pc \in {"curl", "extract"},
                 run' = [run EXCEPT !.pc = pc, !.hashes[Here] = content]
          PROVE  RunTyped'
      BY <1>0, <2>1, <3>1 DEF RunTyped, RunRecords
    <3> QED BY <2>2, <3>1
  <2>5. FilesTyped'
    BY <1>0, <1>2, <2>1, <2>2, <2>3 DEF Check, FilesTyped
  <2> QED BY <2>4, <2>5
<1>3. ASSUME run.pc = "curl", NEW content \in Contents \cup {None}, NEW gaveUp \in BOOLEAN,
             run' = AfterFetch(Here, content, gaveUp)
      PROVE  RunTyped'
  <2>1. Here \in Archives /\ run.at \in 1 .. Len(Order)
    BY <1>3, HereIsArchive
  <2> QED BY <1>0, <1>3, <2>1 DEF AfterFetch, RunTyped, RunRecords
<1>4. CASE Fetch
  <2>1. Here \in Archives
    BY <1>4, HereIsArchive DEF Fetch
  <2>2. Chunks \in Have(Here) .. Chunks
    <3>1. Chunks \in Nat
      BY BoundsAssumption
    <3>2. Have(Here) \in 0 .. Chunks
      BY <1>0, <2>1, <3>1, ContentIsShort DEF FilesTyped, Have, Exists
    <3> QED BY <3>1, <3>2
  <2>3. Fetched(Here, Chunks) \in Contents
    BY <2>1, <2>2, FetchedIsContent
  <2>4. RunTyped'
    BY <1>3, <1>4, <2>3 DEF Fetch
  <2>5. FilesTyped'
    BY <1>0, <1>4, <2>1, <2>3 DEF Fetch, FilesTyped
  <2> QED BY <2>4, <2>5
<1>5. CASE FetchFails
  <2>1. Here \in Archives
    BY <1>5, HereIsArchive DEF FetchFails
  <2>2. PICK n \in Have(Here) .. Chunks :
          LET got == IF n = 0 THEN raw[Here] ELSE Fetched(Here, n)
          IN raw' = [raw EXCEPT ![Here] = got] /\ run' = AfterFetch(Here, got, TRUE)
    BY <1>5 DEF FetchFails
  <2>3. PICK got \in Contents \cup {None} :
          raw' = [raw EXCEPT ![Here] = got] /\ run' = AfterFetch(Here, got, TRUE)
    BY <1>0, <2>1, <2>2, FetchedIsContent DEF FilesTyped
  <2>4. faults' \in 0 .. MaxFaults
    BY <1>0, <1>5, BoundsAssumption DEF FetchFails, FilesTyped
  <2>5. RunTyped'
    BY <1>3, <1>5, <2>3 DEF FetchFails
  <2>6. FilesTyped'
    BY <1>0, <1>5, <2>1, <2>3, <2>4 DEF FetchFails, FilesTyped
  <2> QED BY <2>5, <2>6
<1>6. CASE Extract
  <2>1. Here \in Archives /\ run.at \in 1 .. Len(Order)
    BY <1>6, HereIsArchive DEF Extract
  <2>2. Exists(raw[Here]) => raw[Here] \in Contents
    BY <1>0, <2>1 DEF FilesTyped, Exists
  <2>3. extracted' \in [Archives -> Contents \cup {None, Partly}]
    BY <1>0, <1>6, <2>1, <2>2 DEF Extract, Extracting, FilesTyped
  <2>4. (IF run.at < Len(Order) THEN run.at + 1 ELSE run.at) \in 1 .. Len(Order)
    BY <2>1
  <2>5. RunTyped'
    <3>1. ASSUME NEW pc \in {"check", "manifest"}, NEW place \in 1 .. Len(Order), NEW ok \in BOOLEAN,
                 run' = [run EXCEPT !.ok = ok, !.at = place, !.pc = pc]
          PROVE  RunTyped'
      <4>1. run \in RunRecords /\ place \in 0 .. Len(Order)
        BY <1>0 DEF RunTyped
      <4>2. run' \in RunRecords
        <5> HIDE DEF RunTyped
        <5> QED BY <3>1, <4>1 DEF RunRecords
      <4>3. run'.at = place
        BY <3>1, <4>1 DEF RunRecords
      <4> QED BY <4>2, <4>3 DEF RunTyped
    <3>2. PICK ok \in BOOLEAN, place \in 1 .. Len(Order), pc \in {"check", "manifest"} :
            run' = [run EXCEPT !.ok = ok, !.at = place, !.pc = pc]
      <4>1. run.ok \in BOOLEAN
        BY <1>0 DEF RunTyped, RunRecords
      <4> QED BY <1>6, <2>4, <4>1 DEF Extract
    <3> QED BY <3>1, <3>2
  <2>6. FilesTyped'
    BY <1>0, <1>6, <2>3 DEF Extract, FilesTyped
  <2> QED BY <2>5, <2>6
<1>7. CASE WriteManifest
  <2>1. manifest' \in [Archives -> Contents \cup {None}] \cup {TornManifest}
    BY <1>0, <1>7 DEF WriteManifest, RunTyped, RunRecords
  <2>2. FilesTyped'
    BY <1>0, <1>7, <2>1 DEF WriteManifest, FilesTyped, files
  <2>3. RunTyped'
    BY <1>0, <1>7 DEF WriteManifest, RunTyped, RunRecords
  <2> QED BY <2>2, <2>3
<1>8. CASE Report
  <2>1. report' \in [ok : BOOLEAN, download : BOOLEAN, extract : BOOLEAN]
    BY <1>0, <1>8 DEF Report, RunTyped, RunRecords
  <2>2. FilesTyped'
    BY <1>0, <1>8, <2>1 DEF Report, FilesTyped, files
  <2>3. RunTyped'
    BY <1>8, IdleTyped DEF Report, RunTyped
  <2> QED BY <2>2, <2>3
<1>9. ASSUME Killed PROVE RunTyped' /\ faults' \in 0 .. MaxFaults /\ killed' \in BOOLEAN
  <2>1. faults' \in 0 .. MaxFaults
    BY <1>0, <1>9, BoundsAssumption DEF Killed, FilesTyped
  <2> QED BY <1>9, <2>1, IdleTyped DEF Killed, RunTyped
<1>10. CASE KillFetching
  <2>1. Here \in Archives
    BY <1>10, HereIsArchive DEF KillFetching
  <2>2. raw' \in [Archives -> Contents \cup {None}]
    BY <1>0, <1>10, <2>1, FetchedIsContent DEF KillFetching, FilesTyped
  <2> QED BY <1>0, <1>9, <1>10, <2>2 DEF KillFetching, FilesTyped
<1>11. CASE KillExtracting
  <2>1. extracted' \in [Archives -> Contents \cup {None, Partly}]
    BY <1>0, <1>11 DEF KillExtracting, FilesTyped
  <2> QED BY <1>0, <1>9, <1>11, <2>1 DEF KillExtracting, FilesTyped
<1>12. CASE KillWriting
  <2>1. run.hashes \in [Archives -> Contents \cup {None}]
    BY <1>0 DEF RunTyped, RunRecords
  <2>2. \A k \in 0 .. Len(Order) : WrittenTo(k) \in [Archives -> Contents \cup {None}]
    BY <2>1 DEF WrittenTo
  <2>3. manifest' \in [Archives -> Contents \cup {None}] \cup {TornManifest}
    BY <1>0, <1>12, <2>2 DEF KillWriting, FilesTyped
  <2> QED BY <1>0, <1>9, <1>12, <2>3 DEF KillWriting, FilesTyped, files
<1>13. ASSUME NEW a \in Archives, NEW v \in Versions, Publish(a, v)
       PROVE  RunTyped' /\ FilesTyped'
  <2>1. news' \in 0 .. MaxNews
    BY <1>0, <1>13, BoundsAssumption DEF Publish, FilesTyped
  <2>2. FilesTyped'
    BY <1>0, <1>13, <2>1 DEF Publish, FilesTyped, files
  <2>3. RunTyped'
    BY <1>0, <1>13 DEF Publish, RunTyped
  <2> QED BY <2>2, <2>3
<1>14. CASE UNCHANGED vars
  BY <1>0, <1>14 DEF vars, files, RunTyped, FilesTyped
<1> QED BY <1>1, <1>2, <1>4, <1>5, <1>6, <1>7, <1>8, <1>10, <1>11, <1>12, <1>13, <1>14
        DEF Next, Step, Kill

-----------------------------------------------------------------------------
(* An archive that is the expected one stays it. *)

\* curl is not asked for an archive that is the expected one.
LEMMA NotFetchedAgain ==
  ASSUME TypeOK, NEW a \in Archives, NEW content, Expected[a] # 0, content = Whole(Expected[a])
  PROVE  Exists(content) /\ Matches(a, content) /\ ~ToFetch(a, content) /\ Sound(content)
         /\ Full(content)
<1>1. Expected[a] \in Versions
  BY ExpectedAssumption
<1>2. Exists(content) /\ Len(content) = Chunks
  BY <1>1, WholeIsContent DEF Exists
<1>3. Sound(content)
  BY <1>1 DEF Sound
<1> QED BY <1>2, <1>3 DEF Matches, ToFetch, Verified, Full

LEMMA KeptStays ==
  ASSUME TypeOK, Progress, [Next]_vars, NEW a \in Archives, Kept(a)
  PROVE  Kept(a)'
<1> SUFFICES ASSUME Expected[a] # 0 PROVE raw'[a] = Whole(Expected[a])
  BY DEF Kept
<1>0. raw[a] = Whole(Expected[a]) /\ Exists(raw[a])
  BY NotFetchedAgain DEF Kept
<1>1. raw \in [Archives -> Contents \cup {None}]
  BY DEF TypeOK
<1>2. run.pc = "curl" => Here # a
  BY <1>0 DEF Progress
<1>3. CASE Check
  <2>1. Here = a => raw'[a] = raw[a]
    BY <1>0, <1>1, <1>3 DEF Check
  <2>2. Here # a => raw'[a] = raw[a]
    BY <1>1, <1>3 DEF Check
  <2> QED BY <1>0, <2>1, <2>2
<1>4. CASE Fetch
  BY <1>0, <1>1, <1>2, <1>4 DEF Fetch
<1>5. CASE FetchFails
  BY <1>0, <1>1, <1>2, <1>5 DEF FetchFails
<1>6. CASE KillFetching
  BY <1>0, <1>1, <1>2, <1>6 DEF KillFetching
<1>7. ASSUME raw' = raw PROVE raw'[a] = Whole(Expected[a])
  BY <1>0, <1>7
<1>8. Extract \/ WriteManifest \/ Report \/ KillExtracting \/ KillWriting \/ UNCHANGED vars
      \/ (\E download, extract \in BOOLEAN : Start(download, extract))
      \/ (\E b \in Archives, v \in Versions : Publish(b, v)) => raw' = raw
  BY DEF Extract, WriteManifest, Report, KillExtracting, KillWriting, vars, files, Start, Publish
<1> QED BY <1>3, <1>4, <1>5, <1>6, <1>7, <1>8 DEF Next, Step, Kill

\* What was extracted from it stays, unless a later extraction is killed.
LEMMA FilledStays ==
  ASSUME TypeOK, [Next]_vars, NEW a \in Archives, Kept(a), Filled(a),
         ~killed' \/ run'.pc # "idle"
  PROVE  Filled(a)'
<1> SUFFICES ASSUME Expected[a] # 0 PROVE extracted'[a] = Whole(Expected[a])
  BY DEF Filled
<1>0. extracted[a] = Whole(Expected[a]) /\ Sound(raw[a]) /\ raw[a] = Whole(Expected[a])
  BY NotFetchedAgain DEF Kept, Filled
<1>1. extracted \in [Archives -> Contents \cup {None, Partly}]
  BY DEF TypeOK
<1>2. CASE Extract
  <2>1. Here = a => extracted'[a] = Whole(Expected[a])
    BY <1>0, <1>1, <1>2 DEF Extract
  <2>2. Here # a => extracted'[a] = extracted[a]
    BY <1>1, <1>2 DEF Extract
  <2> QED BY <1>0, <2>1, <2>2
<1>3. ~Kill
  BY IdleTyped DEF Kill, KillFetching, KillExtracting, KillWriting, Killed
<1>4. Check \/ Fetch \/ FetchFails \/ WriteManifest \/ Report \/ UNCHANGED vars
      \/ (\E download, extract \in BOOLEAN : Start(download, extract))
      \/ (\E b \in Archives, v \in Versions : Publish(b, v)) => extracted' = extracted
  BY DEF Check, Fetch, FetchFails, WriteManifest, Report, vars, files, Start, Publish
<1> QED BY <1>0, <1>2, <1>3, <1>4 DEF Next, Step

-----------------------------------------------------------------------------
(* A run that is ok has made what it has passed the expected one. *)

LEMMA ProgressStays ==
  ASSUME TypeOK, Progress, [Next]_vars
  PROVE  Progress'
<1> USE OrderHasLength
<1> DEFINE Done(i) == Kept(Order[i]) /\ (run.extract => Filled(Order[i]))
           Fine == run.ok /\ run.download
<1>1. RunTyped
  BY TypeParts
<1>2. ASSUME run.pc # "idle", run'.pc # "idle", Fine' => Fine, run'.extract = run.extract
      PROVE  Fine' => \A i \in Behind : Done(i)'
  <2> SUFFICES ASSUME Fine', NEW i \in Behind PROVE Done(i)'
    OBVIOUS
  <2>1. Order[i] \in Archives
    BY PlacesHoldArchives DEF Behind
  <2>2. Kept(Order[i]) /\ (run.extract => Filled(Order[i]))
    BY <1>2 DEF Progress
  <2> QED BY <1>2, <2>1, <2>2, KeptStays, FilledStays
<1>3. ASSUME Fine' => \A i \in Behind' : Done(i)',
             run'.pc = "curl" => ~(Expected[Here'] # 0 /\ raw'[Here'] = Whole(Expected[Here'])),
             Fine' /\ run'.pc = "extract" => Kept(Here)'
      PROVE  Progress'
  BY <1>3 DEF Progress
<1>4. ASSUME NEW download \in BOOLEAN, NEW extract \in BOOLEAN, Start(download, extract)
      PROVE  Progress'
  <2>1. run'.pc = "check" /\ run'.at = 1
    BY <1>4 DEF Start, Idle
  <2>2. Behind' = {}
    BY <2>1 DEF Behind
  <2> QED BY <2>1, <2>2, <1>3
<1>5. CASE Check
  <2>1. Here \in Archives /\ run.at \in 1 .. Len(Order)
    BY <1>5, HereIsArchive DEF Check
  <2>2. PICK content \in Contents \cup {None} :
          /\ raw' = [raw EXCEPT ![Here] = content]
          /\ run' = [run EXCEPT !.pc = IF run.download /\ ToFetch(Here, content) THEN "curl" ELSE "extract",
                                !.hashes[Here] = content]
    BY <1>5, <2>1 DEF Check, TypeOK
  <2>3. raw'[Here] = content
    BY <2>1, <2>2 DEF TypeOK
  <2>4. /\ run'.pc = IF run.download /\ ToFetch(Here, content) THEN "curl" ELSE "extract"
        /\ run'.at = run.at /\ run'.ok = run.ok /\ run'.download = run.download
        /\ run'.extract = run.extract
    BY <1>1, <2>2 DEF RunTyped, RunRecords
  <2>5. Here' = Here /\ Behind' = Behind
    BY <1>5, <2>4 DEF Here, Behind, Check
  <2>6. run'.pc = "curl" => ~(Expected[Here] # 0 /\ raw'[Here] = Whole(Expected[Here]))
    BY <2>1, <2>3, <2>4, NotFetchedAgain
  <2>7. Fine' /\ run'.pc = "extract" => Kept(Here)'
    <3> SUFFICES ASSUME Fine', run'.pc = "extract", Expected[Here] # 0
                 PROVE  content = Whole(Expected[Here])
      BY <2>3, <2>5 DEF Kept
    <3>1. ~ToFetch(Here, content)
      BY <2>4
    <3> QED BY <3>1 DEF ToFetch, Verified, Matches
  <2>8. run.pc # "idle" /\ run'.pc # "idle"
    BY <1>5, <2>4 DEF Check
  <2> QED BY <1>2, <1>3, <2>4, <2>5, <2>6, <2>7, <2>8
<1>6. ASSUME run.pc = "curl", NEW content, content \in Contents, raw' = [raw EXCEPT ![Here] = content],
             run' = AfterFetch(Here, content, FALSE)
      PROVE  Progress'
  <2>1. Here \in Archives /\ run.at \in 1 .. Len(Order)
    BY <1>6, HereIsArchive
  <2>2. raw'[Here] = content
    BY <1>6, <2>1 DEF TypeOK
  <2>3. /\ run'.pc = "extract" /\ run'.at = run.at /\ run'.download = run.download
        /\ run'.extract = run.extract
    BY <1>1, <1>6 DEF AfterFetch, RunTyped, RunRecords
  <2>4. run'.ok => run.ok /\ (Expected[Here] # 0 /\ Exists(content) => Matches(Here, content))
    BY <1>1, <1>6 DEF AfterFetch, RunTyped, RunRecords
  <2>5. Here' = Here /\ Behind' = Behind
    BY <1>6, <2>3 DEF Here, Behind
  <2>6. Fine' => Kept(Here)'
    BY <1>6, <2>2, <2>4, <2>5, ContentExists DEF Exists, Matches, Kept
  <2> QED BY <1>2, <1>3, <1>6, <2>3, <2>4, <2>5, <2>6
<1>7. CASE Fetch
  <2>1. Fetched(Here, Chunks) \in Contents
    <3>1. Here \in Archives
      BY <1>7, HereIsArchive DEF Fetch
    <3>2. Chunks \in Have(Here) .. Chunks
      BY <3>1, BoundsAssumption, ContentIsShort DEF TypeOK, Have, Exists
    <3> QED BY <3>1, <3>2, FetchedIsContent
  <2> QED BY <1>6, <1>7, <2>1 DEF Fetch
<1>8. CASE FetchFails
  <2>1. PICK got : run' = AfterFetch(Here, got, TRUE)
    BY <1>8 DEF FetchFails
  <2>2. run'.pc = "extract" /\ ~run'.ok
    BY <1>1, <2>1 DEF AfterFetch, RunTyped, RunRecords
  <2> QED BY <1>3, <2>2
<1>9. CASE Extract
  <2>1. Here \in Archives /\ run.at \in 1 .. Len(Order)
    BY <1>9, HereIsArchive DEF Extract
  <2>2. /\ run'.pc \in {"check", "manifest"} /\ run'.download = run.download
        /\ run'.extract = run.extract /\ (run'.ok => run.ok)
        /\ run'.pc = "check" => run'.at = run.at + 1
        /\ run'.pc = "manifest" => run.at = Len(Order)
    BY <1>1, <1>9, <2>1 DEF Extract, RunTyped, RunRecords
  <2>3. \A i \in Behind' : i \in Behind \/ i = run.at
    BY <2>1, <2>2 DEF Behind
  <2>4. ASSUME NEW i, i = run.at PROVE Fine' => Done(i)'
    <3> SUFFICES ASSUME Fine', Expected[Here] # 0
                 PROVE  raw'[Here] = Whole(Expected[Here])
                        /\ (run.extract => extracted'[Here] = Whole(Expected[Here]))
      BY <2>2, <2>4 DEF Kept, Filled, Here
    <3>1. raw[Here] = Whole(Expected[Here]) /\ raw' = raw
      BY <1>9, <2>2 DEF Extract, Progress, Kept
    <3>2. Exists(raw[Here]) /\ Sound(raw[Here]) /\ Supported(Here, raw[Here])
      BY <2>1, <3>1, NotFetchedAgain DEF Supported
    <3>3. run.extract => extracted'[Here] = raw[Here]
      BY <1>9, <2>1, <3>2 DEF Extract, Extracting, TypeOK
    <3> QED BY <3>1, <3>3
  <2>5. run.pc # "idle" /\ run'.pc # "idle"
    BY <1>9, <2>2 DEF Extract
  <2> QED BY <1>2, <1>3, <2>2, <2>3, <2>4, <2>5
<1>10. CASE WriteManifest
  <2>1. /\ run'.pc = "report" /\ run'.ok = run.ok /\ run'.download = run.download
        /\ run'.extract = run.extract /\ run'.at = run.at
    BY <1>1, <1>10 DEF WriteManifest, RunTyped, RunRecords
  <2>2. Behind' = Behind
    BY <1>10, <2>1 DEF WriteManifest, Behind
  <2> QED BY <1>2, <1>3, <1>10, <2>1, <2>2 DEF WriteManifest
<1>11. CASE Report \/ Kill
  <2>1. run'.pc = "idle"
    BY <1>11, IdleTyped DEF Report, Kill, KillFetching, KillExtracting, KillWriting, Killed
  <2> QED BY <2>1 DEF Progress
<1>12. ASSUME NEW a \in Archives, NEW v \in Versions, Publish(a, v)
       PROVE  Progress'
  BY <1>12 DEF Publish, Progress
<1>13. CASE UNCHANGED vars
  BY <1>13 DEF vars, files, Progress, Behind, Here, Kept, Filled
<1> QED BY <1>4, <1>5, <1>7, <1>8, <1>9, <1>10, <1>11, <1>12, <1>13 DEF Next, Step

-----------------------------------------------------------------------------
(* The invariant, and what the runs check *)

LEMMA InitInvariant == Init => IInv
<1> SUFFICES ASSUME Init PROVE IInv
  OBVIOUS
<1>1. TypeOK
  BY InitTypes
<1>2. run.pc = "idle" /\ ~report.ok
  BY IdleTyped DEF Init, NoReport
<1> QED BY <1>1, <1>2 DEF IInv, Progress, ReportHonest, ExtractedExpected

\* When a run reports, all places are behind it.
LEMMA ReportIsTrue ==
  ASSUME TypeOK, Progress, Report
  PROVE  ReportHonest' /\ ExtractedExpected'
<1>1. report' = [ok |-> run.ok, download |-> run.download, extract |-> run.extract]
      /\ run.pc = "report" /\ raw' = raw /\ extracted' = extracted
  BY DEF Report, files
<1>2. run.ok /\ run.download =>
        \A i \in 1 .. Len(Order) : Kept(Order[i]) /\ (run.extract => Filled(Order[i]))
  BY <1>1 DEF Progress, Behind
<1>3. run.ok /\ run.download => \A a \in Archives : Kept(a) /\ (run.extract => Filled(a))
  BY <1>2, ArchivesHavePlaces
<1> QED BY <1>1, <1>3 DEF ReportHonest, ExtractedExpected, Kept, Filled

LEMMA StepInvariant == IInv /\ [Next]_vars => IInv'
<1> SUFFICES ASSUME IInv, [Next]_vars PROVE IInv'
  OBVIOUS
<1> USE DEF IInv
<1>1. TypeOK' /\ Progress'
  BY StepTypes, ProgressStays
<1>2. CASE Report
  BY <1>1, <1>2, ReportIsTrue
<1>3. CASE ~Report
  <2>1. report' = report
    BY <1>3 DEF Next, Step, Kill, Start, Check, Fetch, FetchFails, Extract, WriteManifest,
                KillFetching, KillExtracting, KillWriting, Publish, vars
  <2>2. ReportHonest'
    <3> SUFFICES ASSUME report.ok, report.download, NEW a \in Archives, Kept(a) PROVE Kept(a)'
      BY <2>1 DEF ReportHonest, Kept
    <3> QED BY KeptStays
  <2>3. ~killed' => ~killed
    BY <1>3 DEF Next, Step, Kill, Start, Check, Fetch, FetchFails, Extract, WriteManifest,
                KillFetching, KillExtracting, KillWriting, Killed, Publish, vars
  <2>4. ExtractedExpected'
    <3> SUFFICES ASSUME report.ok, report.download, report.extract, ~killed', NEW a \in Archives
                 PROVE  Filled(a)'
      BY <2>1 DEF ExtractedExpected, Filled
    <3>1. Kept(a) /\ Filled(a)
      BY <2>3 DEF ReportHonest, ExtractedExpected, Kept, Filled
    <3> QED BY <3>1, FilledStays
  <2> QED BY <1>1, <2>2, <2>4
<1> QED BY <1>2, <1>3

\* What the validator says of the archives follows from their content.
LEMMA HonestIsValid == TypeOK /\ ReportHonest => ValidatorAgrees
<1> SUFFICES ASSUME TypeOK, ReportHonest, report.ok, report.download, NEW a \in Archives
             PROVE  Status(a) = "VALIDATED" \/ (Expected[a] = 0 /\ ~Full(raw[a]))
  BY DEF ValidatorAgrees
<1>1. CASE Expected[a] # 0
  <2>1. raw[a] = Whole(Expected[a])
    BY <1>1 DEF ReportHonest
  <2> QED BY <1>1, <2>1, NotFetchedAgain DEF Status, Supported
<1>2. CASE Expected[a] = 0 /\ Full(raw[a])
  BY <1>2 DEF Status, Supported, Full
<1> QED BY <1>1, <1>2

LEMMA SpecInvariant == Spec => []IInv
BY InitInvariant, StepInvariant, PTL DEF Spec

\* A run reports that all is well only if every archive with a checksum is the expected
\* one, and it stays it.
THEOREM ReportsAreHonest == Spec => []ReportHonest
<1>1. IInv => ReportHonest
  BY DEF IInv
<1> QED BY <1>1, SpecInvariant, PTL

\* What was extracted then is the expected archive until another extraction is killed.
THEOREM ExtractedIsExpected == Spec => []ExtractedExpected
<1>1. IInv => ExtractedExpected
  BY DEF IInv
<1> QED BY <1>1, SpecInvariant, PTL

\* Report, directory and validator agree: the property the run checks.
THEOREM ArchivesAreSound == Spec => []ArchivesSound
<1>1. IInv => ArchivesSound
  BY HonestIsValid DEF IInv, ArchivesSound
<1> QED BY <1>1, SpecInvariant, PTL

-----------------------------------------------------------------------------
(* Numbers: a set of counterexamples has a least one, which is all the      *)
(* induction that the joins of sequences need.                              *)

LessThan == {ss \in Nat \X Nat : ss[1] < ss[2]}
\* A set of numbers that is not empty has a least element.
LEMMA Least ==
  ASSUME NEW T \in SUBSET Nat, T # {}
  PROVE  \E x \in T : \A y \in T : x <= y
<1>1. IsWellFoundedOn(LessThan, Nat)
  BY NatLessThanWellFounded DEF OpToRel, LessThan
<1>2. PICK x \in T : \A y \in T : <<y, x>> \notin LessThan
  BY <1>1, WFMin
<1>3. ASSUME NEW y \in T PROVE x <= y
  <2>1. <<y, x>> \notin LessThan BY <1>2
  <2>2. x \in Nat /\ y \in Nat OBVIOUS
  <2> QED BY <2>1, <2>2 DEF LessThan
<1> QED BY <1>3

\* A set that holds 0 and the successors of its elements holds every number up to n.
LEMMA UpTo ==
  ASSUME NEW n \in Nat, NEW T, 0 \in T, \A i \in 1 .. n : i - 1 \in T => i \in T
  PROVE  0 .. n \subseteq T
<1> DEFINE Out == {i \in 0 .. n : i \notin T}
<1>1. SUFFICES ASSUME Out # {} PROVE FALSE
  OBVIOUS
<1>2. PICK x \in Out : \A y \in Out : x <= y
  BY <1>1, Least, Out \in SUBSET Nat
<1>3. x \in 1 .. n /\ x - 1 \in 0 .. n /\ x - 1 \notin Out
  BY <1>2
<1> QED BY <1>2, <1>3

\* And a greatest one, if it is bounded.
LEMMA Greatest ==
  ASSUME NEW b \in Nat, NEW T \in SUBSET (0 .. b), T # {}
  PROVE  \E x \in T : \A y \in T : y <= x
<1> DEFINE U == {b - y : y \in T}
<1>1. U \in SUBSET Nat /\ U # {}
  <2>1. \A y \in T : y \in Nat /\ b - y \in Nat OBVIOUS
  <2> QED BY <2>1
<1>2. PICK u \in U : \A v \in U : u <= v
  BY <1>1, Least
<1>3. PICK x \in T : u = b - x
  OBVIOUS
<1>4. ASSUME NEW y \in T PROVE y <= x
  <2>1. b - x <= b - y BY <1>2, <1>3
  <2> QED BY <2>1, T \in SUBSET (0 .. b)
<1> QED BY <1>4

-----------------------------------------------------------------------------
(* FlattenSeq *)

Joins(g, ss) == g = [i \in 1 .. Len(ss) |-> IF i = 1 THEN ss[i] ELSE g[i - 1] \o ss[i]]
Joined(ss) == CHOOSE g : g = [i \in 1 .. Len(ss) |-> IF i = 1 THEN ss[i] ELSE g[i - 1] \o ss[i]]

\* FlattenSeq is the last of its partial joins.
LEMMA FlattenIs == \A ss : FlattenSeq(ss) = IF Len(ss) = 0 THEN ss ELSE Joined(ss)[Len(ss)]
BY DEF FlattenSeq, Joined

\* The partial joins exist: the longest that exists can be continued.
LEMMA JoinsExist ==
  ASSUME NEW S, NEW ss \in Seq(Seq(S)), NEW n \in Nat, n <= Len(ss)
  PROVE  \E g : g = [i \in 1 .. n |-> IF i = 1 THEN ss[i] ELSE g[i - 1] \o ss[i]]
<1> DEFINE Good(m) == \E g : g = [i \in 1 .. m |-> IF i = 1 THEN ss[i] ELSE g[i - 1] \o ss[i]]
           T == {m \in 0 .. n : Good(m)}
<1> HIDE DEF Good
<1>1. 0 \in T
  <2> DEFINE e == [i \in 1 .. 0 |-> ss[i]]
  <2>1. \A i \in 1 .. 0 : FALSE OBVIOUS
  <2>2. e = [i \in 1 .. 0 |-> IF i = 1 THEN ss[i] ELSE e[i - 1] \o ss[i]]
    BY <2>1
  <2> HIDE DEF e
  <2>3. Good(0) BY <2>2 DEF Good
  <2> QED BY <2>3
<1>2. ASSUME NEW m \in 1 .. n, m - 1 \in T PROVE m \in T
  <2>1. PICK g : g = [i \in 1 .. m - 1 |-> IF i = 1 THEN ss[i] ELSE g[i - 1] \o ss[i]]
    BY <1>2 DEF Good
  <2> DEFINE h == [i \in 1 .. m |-> IF i = m THEN (IF m = 1 THEN ss[m] ELSE g[m - 1] \o ss[m]) ELSE g[i]]
  <2>2. ASSUME NEW i \in 1 .. m PROVE h[i] = IF i = 1 THEN ss[i] ELSE h[i - 1] \o ss[i]
    <3>1. CASE i = m
      BY <3>1
    <3>2. CASE i # m
      <4>1. i \in 1 .. m - 1 BY <3>2
      <4>2. h[i] = g[i] BY <3>2
      <4>3. g[i] = IF i = 1 THEN ss[i] ELSE g[i - 1] \o ss[i] BY <2>1, <4>1
      <4>4. i # 1 => h[i - 1] = g[i - 1] BY <4>1
      <4> QED BY <4>2, <4>3, <4>4
    <3> QED BY <3>1, <3>2
  <2>3. h = [i \in 1 .. m |-> IF i = 1 THEN ss[i] ELSE h[i - 1] \o ss[i]]
    <3> HIDE DEF h
    <3>1. h = [i \in 1 .. m |-> h[i]] BY DEF h
    <3> QED BY <2>2, <3>1
  <2> HIDE DEF h
  <2>4. Good(m) BY <2>3 DEF Good
  <2> QED BY <2>4
<1>3. 0 .. n \subseteq T BY <1>1, <1>2, UpTo
<1>4. Good(n) BY <1>3
<1> QED BY <1>4 DEF Good

\* Hence the partial joins are what the definition says.
LEMMA JoinedIs ==
  ASSUME NEW S, NEW ss \in Seq(Seq(S))
  PROVE  Joins(Joined(ss), ss)
<1>0. Len(ss) \in Nat /\ Len(ss) <= Len(ss) BY LenProperties
<1>1. \E g : g = [i \in 1 .. Len(ss) |-> IF i = 1 THEN ss[i] ELSE g[i - 1] \o ss[i]]
  BY <1>0, JoinsExist
<1> QED BY <1>1 DEF Joins, Joined

\* What a partial join is at i depends on the sequences up to i only.
LEMMA JoinsAgree ==
  ASSUME NEW S, NEW ss \in Seq(Seq(S)), NEW tt \in Seq(Seq(S)), NEW n \in Nat,
         n <= Len(ss), n <= Len(tt), \A i \in 1 .. n : ss[i] = tt[i]
  PROVE  \A i \in 1 .. n : Joined(ss)[i] = Joined(tt)[i]
<1> DEFINE g == Joined(ss)  h == Joined(tt)
           T == {i \in 0 .. n : i = 0 \/ g[i] = h[i]}
<1>1. g = [i \in 1 .. Len(ss) |-> IF i = 1 THEN ss[i] ELSE g[i - 1] \o ss[i]]
  BY JoinedIs DEF Joins
<1>2. h = [i \in 1 .. Len(tt) |-> IF i = 1 THEN tt[i] ELSE h[i - 1] \o tt[i]]
  BY JoinedIs DEF Joins
<1> HIDE DEF g, h
<1>3. Len(ss) \in Nat /\ Len(tt) \in Nat BY LenProperties
<1>4. ASSUME NEW i \in 1 .. n, i - 1 \in T PROVE i \in T
  <2>0. i \in 1 .. Len(ss) /\ i \in 1 .. Len(tt) BY <1>3
  <2>1. g[i] = IF i = 1 THEN ss[i] ELSE g[i - 1] \o ss[i] BY <1>1, <2>0
  <2>2. h[i] = IF i = 1 THEN tt[i] ELSE h[i - 1] \o tt[i] BY <1>2, <2>0
  <2>3. ss[i] = tt[i] OBVIOUS
  <2>4. i = 1 \/ g[i - 1] = h[i - 1] BY <1>4
  <2> QED BY <2>1, <2>2, <2>3, <2>4
<1>5. 0 .. n \subseteq T
  <2>1. 0 \in T OBVIOUS
  <2> HIDE DEF T
  <2> QED BY <1>4, <2>1, UpTo
<1> QED BY <1>5 DEF g, h

\* A partial join is a sequence over the same set.
LEMMA JoinedType ==
  ASSUME NEW S, NEW ss \in Seq(Seq(S)), NEW i \in 1 .. Len(ss)
  PROVE  Joined(ss)[i] \in Seq(S)
<1> DEFINE g == Joined(ss)  T == {k \in 0 .. Len(ss) : k = 0 \/ g[k] \in Seq(S)}
<1>1. g = [k \in 1 .. Len(ss) |-> IF k = 1 THEN ss[k] ELSE g[k - 1] \o ss[k]]
  BY JoinedIs DEF Joins
<1>2. Len(ss) \in Nat /\ \A k \in 1 .. Len(ss) : ss[k] \in Seq(S) BY ElementOfSeq, LenProperties
<1> HIDE DEF g
<1>3. ASSUME NEW k \in 1 .. Len(ss), k - 1 \in T PROVE k \in T
  <2>1. g[k] = IF k = 1 THEN ss[k] ELSE g[k - 1] \o ss[k] BY <1>1
  <2>2. CASE k = 1 BY <2>1, <2>2, <1>2
  <2>3. CASE k # 1
    <3>1. g[k - 1] \in Seq(S) BY <1>3, <2>3
    <3>2. g[k - 1] \o ss[k] \in Seq(S) BY <3>1, <1>2, ConcatProperties
    <3>3. g[k] \in Seq(S) BY <2>1, <2>3, <3>2
    <3> QED BY <3>3
  <2> QED BY <2>2, <2>3
<1>4. 0 .. Len(ss) \subseteq T
  <2>1. 0 \in T BY <1>2
  <2> HIDE DEF T
  <2> QED BY <1>2, <1>3, <2>1, UpTo
<1>5. i \in T /\ i # 0
  <2>1. i \in 0 .. Len(ss) /\ i # 0 BY <1>2
  <2> HIDE DEF T
  <2> QED BY <2>1, <1>4
<1>6. g[i] \in Seq(S) BY <1>5
<1> QED BY <1>6 DEF g

\* FlattenSeq of nothing, of one sequence more, and its type.
LEMMA FlattenNone == FlattenSeq(<<>>) = <<>>
BY FlattenIs

\* So is the whole.
LEMMA FlattenType ==
  ASSUME NEW S, NEW ss \in Seq(Seq(S))
  PROVE  FlattenSeq(ss) \in Seq(S)
<1>1. CASE Len(ss) = 0
  <2>1. ss = <<>> BY <1>1, EmptySeq
  <2> QED BY <2>1, FlattenNone, EmptySeq
<1>2. CASE Len(ss) # 0
  <2>1. Len(ss) \in 1 .. Len(ss) BY <1>2, LenProperties
  <2>2. FlattenSeq(ss) = Joined(ss)[Len(ss)] BY <1>2, FlattenIs
  <2> QED BY <2>1, <2>2, JoinedType
<1> QED BY <1>1, <1>2

\* One sequence more at the end.
LEMMA FlattenAppend ==
  ASSUME NEW S, NEW ss \in Seq(Seq(S)), NEW t \in Seq(S)
  PROVE  FlattenSeq(Append(ss, t)) = FlattenSeq(ss) \o t
<1> DEFINE tt == Append(ss, t)  n == Len(ss)
<1>1. tt \in Seq(Seq(S)) /\ Len(tt) = n + 1 /\ n \in Nat /\ tt[n + 1] = t
      /\ \A i \in 1 .. n : tt[i] = ss[i]
  BY AppendProperties, LenProperties
<1> HIDE DEF tt
<1>2. Joined(tt) = [i \in 1 .. n + 1 |-> IF i = 1 THEN tt[i] ELSE Joined(tt)[i - 1] \o tt[i]]
  BY <1>1, JoinedIs DEF Joins
<1>3. FlattenSeq(tt) = Joined(tt)[n + 1]
  BY <1>1, FlattenIs
<1>4. CASE n = 0
  <2>1. ss = <<>> BY <1>4, EmptySeq
  <2>2. FlattenSeq(tt) = t BY <1>1, <1>2, <1>3, <1>4
  <2>3. FlattenSeq(ss) \o t = t BY <2>1, FlattenNone, ConcatEmptySeq
  <2> QED BY <2>2, <2>3 DEF tt
<1>5. CASE n # 0
  <2>1. Joined(tt)[n + 1] = Joined(tt)[n] \o t
    <3>1. n + 1 \in 1 .. n + 1 /\ n + 1 # 1 BY <1>1, <1>5
    <3>2. Joined(tt)[n + 1] = Joined(tt)[(n + 1) - 1] \o tt[n + 1] BY <1>2, <3>1
    <3>3. (n + 1) - 1 = n BY <1>1
    <3> QED BY <1>1, <3>2, <3>3
  <2>2. n \in 1 .. n /\ n <= n /\ n <= Len(tt) BY <1>1, <1>5
  <2>3. Joined(ss)[n] = Joined(tt)[n]
    BY <1>1, <2>2, JoinsAgree
  <2>4. FlattenSeq(ss) = Joined(ss)[n] BY <1>5, FlattenIs
  <2> QED BY <1>3, <2>1, <2>3, <2>4 DEF tt
<1> QED BY <1>4, <1>5

\* A list of sequences and the list without its last.
LEMMA FlattenMore ==
  ASSUME NEW S, NEW n \in Nat, NEW ss \in Seq(Seq(S)), Len(ss) = n + 1,
         NEW rest \in Seq(Seq(S)), Len(rest) = n, \A i \in 1 .. n : rest[i] = ss[i]
  PROVE  FlattenSeq(ss) = FlattenSeq(rest) \o ss[n + 1]
<1>1. ss[n + 1] \in Seq(S) BY ElementOfSeq
<1> DEFINE tt == Append(rest, ss[n + 1])
<1>2. tt \in Seq(Seq(S)) /\ Len(tt) = n + 1 /\ tt[n + 1] = ss[n + 1] /\ \A i \in 1 .. n : tt[i] = rest[i]
  BY <1>1, AppendProperties
<1>3. FlattenSeq(tt) = FlattenSeq(rest) \o ss[n + 1] BY <1>1, FlattenAppend
<1> HIDE DEF tt
<1>4. \A i \in 1 .. n + 1 : tt[i] = ss[i] BY <1>2
<1>5. tt = ss BY <1>2, <1>4, SeqEqual
<1> QED BY <1>3, <1>5

\* Each element comes from one of the sequences.
LEMMA FlattenElements ==
  ASSUME NEW S, NEW ss \in Seq(Seq(S)), NEW k \in 1 .. Len(FlattenSeq(ss))
  PROVE  \E i \in 1 .. Len(ss) : \E j \in 1 .. Len(ss[i]) : FlattenSeq(ss)[k] = ss[i][j]
<1> DEFINE g == Joined(ss)
           From(i) == \A x \in 1 .. Len(g[i]) : \E h \in 1 .. i : \E j \in 1 .. Len(ss[h]) : g[i][x] = ss[h][j]
           T == {i \in 0 .. Len(ss) : i = 0 \/ From(i)}
<1>1. g = [i \in 1 .. Len(ss) |-> IF i = 1 THEN ss[i] ELSE g[i - 1] \o ss[i]]
  BY JoinedIs DEF Joins
<1>2. Len(ss) \in Nat /\ \A i \in 1 .. Len(ss) : ss[i] \in Seq(S) /\ g[i] \in Seq(S)
  BY ElementOfSeq, LenProperties, JoinedType
<1> HIDE DEF g
<1>3. ASSUME NEW i \in 1 .. Len(ss), i - 1 \in T PROVE i \in T
  <2>1. g[i] = IF i = 1 THEN ss[i] ELSE g[i - 1] \o ss[i] BY <1>1
  <2>2. CASE i = 1
    <3>1. g[i] = ss[i] BY <2>1, <2>2
    <3>2. From(i) BY <3>1, <2>2
    <3> HIDE DEF From
    <3> QED BY <3>2
  <2>3. CASE i # 1
    <3>1. From(i - 1) /\ i - 1 \in 1 .. Len(ss)
      <4> HIDE DEF From
      <4> QED BY <1>2, <1>3, <2>3
    <3>2. ASSUME NEW x \in 1 .. Len(g[i])
          PROVE  \E h \in 1 .. i : \E j \in 1 .. Len(ss[h]) : g[i][x] = ss[h][j]
      <4> DEFINE l == Len(g[i - 1])
      <4>1. g[i - 1] \in Seq(S) /\ ss[i] \in Seq(S) /\ g[i] = g[i - 1] \o ss[i]
        BY <1>2, <2>1, <2>3, <3>1
      <4>2. Len(g[i]) = l + Len(ss[i]) /\ l \in Nat /\ Len(ss[i]) \in Nat
            /\ g[i][x] = IF x <= l THEN g[i - 1][x] ELSE ss[i][x - l]
        BY <4>1, ConcatProperties, LenProperties
      <4>3. CASE x <= l
        <5>1. x \in 1 .. Len(g[i - 1]) /\ g[i][x] = g[i - 1][x] BY <4>2, <4>3
        <5>2. PICK h \in 1 .. i - 1 : \E j \in 1 .. Len(ss[h]) : g[i - 1][x] = ss[h][j]
          BY <3>1, <5>1
        <5>3. h \in 1 .. i OBVIOUS
        <5> QED BY <5>1, <5>2, <5>3
      <4>4. CASE x > l
        <5> HIDE DEF l
        <5>1. x \in 1 .. l + Len(ss[i]) BY <4>2
        <5>2. x - l \in 1 .. Len(ss[i]) BY <4>2, <4>4, <5>1
        <5>3. g[i][x] = ss[i][x - l] BY <4>2, <4>4, <5>1
        <5>4. i \in 1 .. i OBVIOUS
        <5> QED BY <5>2, <5>3, <5>4
      <4> QED BY <4>2, <4>3, <4>4
    <3>3. From(i) BY <3>2
    <3> HIDE DEF From
    <3> QED BY <3>3
  <2> QED BY <2>2, <2>3
<1>4. 0 .. Len(ss) \subseteq T
  <2>1. 0 \in T BY <1>2
  <2> HIDE DEF T
  <2> QED BY <1>2, <1>3, <2>1, UpTo
<1>5. Len(ss) # 0
  <2>1. CASE Len(ss) = 0
    <3>1. ss = <<>> BY <2>1, EmptySeq
    <3>2. FlattenSeq(ss) = <<>> BY <3>1, FlattenNone
    <3> QED BY <3>2
  <2> QED BY <2>1
<1>6. FlattenSeq(ss) = g[Len(ss)] BY <1>5, FlattenIs DEF g
<1>7. From(Len(ss))
  <2> HIDE DEF From
  <2> QED BY <1>2, <1>4, <1>5, SMTT(20)
<1> QED BY <1>6, <1>7

-----------------------------------------------------------------------------
(* Campaign repair: the inductive invariant *)

Verdict == {"solved", "unmarked", "infeasible", "error"}
RetryRow == [key : Keys, verdict : Verdict]
NoneOr == {0} \cup TaskCounts
JobShapes == {NoJob} \cup [kind : {"backfill", "rebuild"}, n : TaskCounts, pc : {"files"}]
             \cup [kind : {"repair"}, n : TaskCounts, pc : {"prepare", "deal", "solve", "index", "apply"}]
Fresh == [p \in Parts |-> TaskStart]

\* The rows keep their places and their ids.
RowsKept == /\ samples \in [Sources -> Seq(Row)]
            /\ \A f \in Sources :
                 /\ Len(samples[f]) = Len(Original[f])
                 /\ \A i \in 1 .. Len(samples[f]) : /\ samples[f][i].cand = Original[f][i].cand
                                                    /\ samples[f][i].run = Original[f][i].run
ReportsKept == /\ reports = [f \in Sources |-> reports[f]]
               /\ \A f \in Sources : IsReport(reports[f]) /\ reports[f].failed \subseteq Dealt[f]
RepairShape ==
  /\ select \in {"failed", "legacy-quadratic"} /\ rescaled \subseteq Parts
  /\ prepared \in [Parts -> NoneOr] /\ candidates \in Seq(Keys) /\ dealt \in -1 .. Len(candidates)
  /\ lost \subseteq 1 .. dealt /\ broken \subseteq {(k - 1) % K : k \in lost}
  /\ retries \in [Shards -> Seq(RetryRow)] /\ done \subseteq Shards
  /\ index \in [Parts -> [n : NoneOr, rows : SUBSET (Nat \X Nat)]]
  /\ applied \in [Parts -> NoneOr] /\ merged \in BOOLEAN
  /\ progress \in [Parts -> SUBSET Sources] /\ summed \in [Parts -> NoneOr] /\ rebuilt \in NoneOr
  /\ job \in JobShapes /\ tried \subseteq Nat /\ kills \in 0 .. MaxKills
  /\ at \in [Parts -> [source : Nat, step : {"open", "swapped", "reported", "failed"},
                       rows : SUBSET Nat]]
TasksShape ==
  /\ job.pc \in {"idle", "prepare", "deal", "solve"} => at = Fresh
  /\ job.pc # "solve" => tried = {}
  /\ job.pc = "index" => \A p \in Parts : at[p].step \in {"open", "failed"}
  /\ job.pc = "apply" => \A p \in Parts : at[p].step \in {"open", "reported", "failed"}
  /\ job.kind = "backfill" => \A p \in Parts :
       /\ at[p].step \in {"open", "swapped"}
       /\ at[p].step = "swapped" => /\ at[p].source \in Slice(job.n, p)
                                    /\ at[p].rows \subseteq 1 .. Len(Original[at[p].source])
  /\ job.kind = "rebuild" => \A p \in Parts : at[p].step \in {"open", "reported"}

\* What was done before what: nothing is retried before the split, nothing
\* indexed before every retry is there, and the backfill comes before all.
Unprepared == \A p \in Parts : prepared[p] = 0
Unretried == (\A s \in Shards : retries[s] = <<>>) /\ done = {} /\ \A p \in Parts : index[p].n = 0
InOrder ==
  /\ job.kind = "backfill" => Unprepared
  /\ candidates # <<>> \/ job.pc \in {"deal", "solve", "index", "apply"} => ~Unprepared
  /\ job.pc = "prepare" => dealt = -1 /\ candidates = <<>>
  /\ dealt < 1 \/ job.pc = "deal" => Unretried
  /\ job.pc \in {"index", "apply"} => dealt >= 1
  /\ (\E p \in Parts : index[p].n # 0) \/ job.pc \in {"index", "apply"} => FilledShards \subseteq done
  /\ \A p \in Parts : IF index[p].n = 0 THEN index[p].rows = {}
                      ELSE p < index[p].n /\ index[p].rows = IndexedRows(index[p].n, p)

\* What was retried was on the list; a row on it is still there to be replaced,
\* or its source has been merged.
Unindexed == \A p \in Parts : index[p].n = 0
Waiting(f, key) == \E i \in 1 .. Len(samples[f]) :
                     Selected(samples[f][i]) /\ Key(f, samples[f][i]) = key
Settled(f) == IndexWhole /\ Replaced(f) = {}
ListKept ==
  /\ (job.pc = "deal" \/ candidates # <<>>) /\ Unindexed => candidates = Extracted(0, N)
  /\ \A s \in Shards : \A i \in 1 .. Len(retries[s]) :
       \E k \in 1 .. Len(candidates) : retries[s][i].key = candidates[k]
  /\ \A k \in 1 .. Len(candidates) :
       Settled(candidates[k][1]) \/ Waiting(candidates[k][1], candidates[k])

\* A source with a repaired row has no other to repair: it is swapped once.
FixedRight ==
  \A f \in Sources : \A i \in 1 .. Len(samples[f]) : Fixed(samples[f][i]) =>
    /\ Settled(f) /\ Key(f, samples[f][i]) \in RetriesOf(f)
    /\ samples[f][i].ok = Converged(Latest(Key(f, samples[f][i])))

\* What a task has passed, a part has applied or the manifest says is merged.
MergeKept ==
  /\ job.pc = "apply" => \A p \in Tasks : \A f \in Sources :
       f < at[p].source /\ f % job.n = p => Settled(f)
  /\ \A p \in Parts : applied[p] # 0 =>
       IndexWhole /\ \A f \in Sources : f % applied[p] = p => Settled(f)
  /\ merged => IndexWhole /\ \A f \in Sources : Settled(f)

\* Between the report and the samples of a source the report has the rows to come.
Foretold(f) ==
  LET S == Replaced(f) IN
  \A k \in IdsAt(samples[f], S) : k \in DOMAIN reports[f].solved =>
    Agrees(reports[f].solved[k], MergedRows(f)[LastWith(samples[f], S, k)])
Swapping ==
  job.pc = "apply" => \A p \in Tasks : at[p].step = "reported" =>
    /\ IndexWhole /\ at[p].source \in Bucket(p)
    /\ \A f \in Sources : f = at[p].source => Replaced(f) # {} /\ ~OldCode(f) /\ Foretold(f)

\* What is known of the sources a rebuild has passed.
RebuildKept ==
  /\ job.kind = "rebuild" \/ rebuilt # 0 => merged
  /\ \A p \in Parts : progress[p] # {} \/ summed[p] # 0 => merged
  /\ job.kind = "rebuild" => rebuilt = 0
  /\ \A p \in Parts : \A f \in progress[p] : ReportRight(f)
  /\ job.kind = "rebuild" => \A p \in Tasks :
       at[p].step = "reported" =>
         \A f \in Unsummed(p) : f = Min(Unsummed(p)) => ReportRight(f)
  /\ \A p \in Parts : summed[p] # 0 => \A f \in Sources : f % summed[p] = p => f \in progress[p]
  /\ \A p \in Parts : p < rebuilt => \A f \in progress[p] : LegacyRows(f) = {}

Shapes == RowsKept /\ ReportsKept /\ RepairShape /\ TasksShape /\ InOrder
RepairIInv == /\ Shapes /\ ListKept /\ FixedRight /\ MergeKept /\ Swapping
              /\ RebuildKept /\ ScaledOnce /\ ReportNotBehind

-----------------------------------------------------------------------------
(* Constants and helpers *)

LEMMA TaskFacts ==
  /\ MaxTasks \in TaskCounts /\ TaskCounts \subseteq Nat \ {0} /\ MaxTasks \in Nat \ {0}
  /\ Parts = 0 .. MaxTasks - 1 /\ 0 \in Parts /\ Parts \subseteq Nat
  /\ \A n \in TaskCounts : n <= MaxTasks /\ 0 .. n - 1 \subseteq Parts /\ 0 \in 0 .. n - 1
<1>1. MaxTasks \in TaskCounts /\ \A m \in TaskCounts : m <= MaxTasks
  BY RepairBounds DEF MaxTasks
<1>2. TaskCounts \subseteq Nat \ {0} BY RepairBounds
<1>3. \A n \in TaskCounts : n <= MaxTasks /\ 0 .. n - 1 \subseteq Parts /\ 0 \in 0 .. n - 1
  BY <1>1, <1>2 DEF Parts
<1> QED BY <1>1, <1>2, <1>3 DEF Parts

\* The tasks of a running job.
LEMMA TasksAreParts ==
  ASSUME RepairShape, job # NoJob
  PROVE  job.n \in TaskCounts /\ Tasks \subseteq Parts /\ 0 \in Tasks /\ job.n \in Nat \ {0}
<1>1. job.n \in TaskCounts BY DEF RepairShape, JobShapes
<1> QED BY <1>1, TaskFacts DEF Tasks

\* Min and Max of the community modules, and the next source of a task.
LEMMA MinIs ==
  ASSUME NEW S \in SUBSET Nat, S # {}
  PROVE  Min(S) \in S /\ \A x \in S : Min(S) <= x
<1>1. \E x \in S : \A y \in S : x <= y BY Least
<1> QED BY <1>1 DEF Min

LEMMA MaxIs ==
  ASSUME NEW b \in Nat, NEW S \in SUBSET (0 .. b), S # {}
  PROVE  Max(S) \in S /\ \A x \in S : x <= Max(S)
<1>1. \E x \in S : \A y \in S : y <= x BY Greatest
<1>2. PICK x \in S : \A y \in S : x >= y BY <1>1
<1> QED BY <1>2 DEF Max

LEMMA NextIs ==
  ASSUME NEW p, NEW S \in SUBSET Nat, Ahead(p, S) # {}
  PROVE  /\ Next1(p, S) \in S /\ at[p].source <= Next1(p, S)
         /\ \A f \in S : at[p].source <= f => Next1(p, S) <= f
<1>1. Next1(p, S) \in Ahead(p, S) /\ \A g \in Ahead(p, S) : Next1(p, S) <= g
  <2>1. Ahead(p, S) \in SUBSET Nat BY DEF Ahead
  <2> QED BY <2>1, MinIs DEF Next1
<1> QED BY <1>1 DEF Ahead

\* Sources are numbers, finitely many.
LEMMA SourceFacts == Sources \subseteq Nat /\ IsFiniteSet(Sources)
<1>1. Sources \subseteq Nat BY RepairBounds DEF Sources
<1>2. IsFiniteSet(Sources) BY RepairBounds, FS_Interval DEF Sources
<1> QED BY <1>1, <1>2

\* A row has the key it was stored with.
LEMMA KeysOfRows ==
  ASSUME RowsKept, NEW f \in Sources, NEW i \in 1 .. Len(samples[f])
  PROVE  Key(f, samples[f][i]) \in Keys /\ samples[f][i] \in Row /\ i \in Nat
<1>1. Key(f, samples[f][i]) = Key(f, Original[f][i]) /\ i \in 1 .. Len(Original[f])
  BY DEF RowsKept, Key
<1>2. samples[f] \in Seq(Row) BY DEF RowsKept
<1>3. samples[f][i] \in Row BY <1>2, ElementOfSeq
<1> QED BY <1>1, <1>3, <1>2, LenProperties DEF Keys

\* The source, candidate and run of a key.
LEMMA KeyParts ==
  ASSUME NEW key \in Keys
  PROVE  key[1] \in Sources /\ key[2] \in Nat /\ key[3] \in STRING /\ key = <<key[1], key[2], key[3]>>
<1>1. PICK f \in Sources : \E i \in 1 .. Len(Original[f]) : key = Key(f, Original[f][i])
  BY DEF Keys
<1>2. PICK i \in 1 .. Len(Original[f]) : key = Key(f, Original[f][i])
  BY <1>1
<1>3. Original[f] \in Seq(Row) BY StoredAssumption
<1>4. Original[f][i] \in Row BY <1>2, <1>3, ElementOfSeq
<1> QED BY <1>2, <1>4 DEF Key, Row

-----------------------------------------------------------------------------
(* Rows, reports and costs *)

\* Only the backfill, the merge and the rebuild write what is stored.
LEMMA WhoWrites ==
  ASSUME [RepairNext]_repairVars
  PROVE  \/ samples' = samples /\ reports' = reports
         \/ \E p \in Parts : RescaleFile(p) \/ ApplySource(p) \/ RebuildShard(p)
BY DEF RepairNext, Work, Task, KillJob, FailIndex, Submit, EndBackfill, FinalizePrepare, Deal,
       Session, MarkDone, Retry, Unreadable, BeginMerge, BeginApply, MergeFinalize, RebuildFinalize,
       RescaledPart, PreparePart, IndexPart, AppliedPart, FailPart, RebuiltPart,
       repairVars, stored, plan, solve, merge, rebuild, control, Goto, End

\* The backfill of one row keeps its ids, its provenance and its costs right.
LEMMA RescaledKeeps ==
  ASSUME NEW row \in Row
  PROVE  /\ Rescaled(row) \in Row /\ Rescaled(row).cand = row.cand /\ Rescaled(row).run = row.run
         /\ Rescaled(row).before = row.before
         /\ (row.marked /\ row.ok => row.unit = 1)
              => (Rescaled(row).marked /\ Rescaled(row).ok => Rescaled(row).unit = 1)
<1>1. CASE Rescaled(row) = row
  BY <1>1
<1>2. CASE Rescaled(row) = [row EXCEPT !.marked = TRUE] /\ row.quad /\ row.ok /\ row.unit = 1
  BY <1>2 DEF Row
<1>3. CASE Rescaled(row) = [row EXCEPT !.marked = TRUE, !.unit = 1]
  <2> DEFINE one == [row EXCEPT !.marked = TRUE]  new == [one EXCEPT !.unit = 1]
  <2>1. one \in Row /\ one.cand = row.cand /\ one.run = row.run /\ one.before = row.before
    BY DEF Row
  <2> HIDE DEF one
  <2>2. new \in Row /\ new.cand = one.cand /\ new.run = one.run /\ new.before = one.before
        /\ new.unit = 1
    BY <2>1 DEF Row
  <2>3. Rescaled(row) = new BY <1>3 DEF one
  <2> QED BY <2>1, <2>2, <2>3
<1>4. CASE Rescaled(row) = [row EXCEPT !.marked = TRUE] /\ ~row.ok
  BY <1>4 DEF Row
<1>5. row.quad \in BOOLEAN /\ row.ok \in BOOLEAN
  BY DEF Row
<1> QED BY <1>1, <1>2, <1>3, <1>4, <1>5 DEF Rescaled

\* A retry under the ids of the row it replaces.
LEMMA ReplacementKeeps ==
  ASSUME NEW row \in Row, NEW verdict
  PROVE  LET new == Replacement(row, verdict)
         IN /\ new \in Row /\ new.cand = row.cand /\ new.run = row.run /\ new.quad = row.quad
            /\ new.ok = Converged(verdict) /\ new.marked = (verdict # "unmarked")
            /\ new.unit = (IF verdict = "unmarked" THEN 0 ELSE 1) /\ Fixed(new)
            /\ (new.marked => new.unit = 1)
<1> DEFINE ok == Converged(verdict)
           marked == verdict # "unmarked"
           unit == IF verdict = "unmarked" THEN 0 ELSE 1
           before == IF row.ok THEN "solved" ELSE "failed"
<1>1. ok \in BOOLEAN /\ marked \in BOOLEAN /\ unit \in 0 .. 2 /\ before \in {"none", "failed", "solved"}
      /\ before # "none" /\ (marked => unit = 1)
  BY DEF Converged
<1>2. Replacement(row, verdict) = [row EXCEPT !.ok = ok, !.marked = marked, !.unit = unit, !.before = before]
  BY DEF Replacement
<1> HIDE DEF ok, marked, unit, before
<1> DEFINE new == [cand |-> row.cand, run |-> row.run, ok |-> ok, quad |-> row.quad,
                   marked |-> marked, unit |-> unit, before |-> before]
<1>3. row = [cand |-> row.cand, run |-> row.run, ok |-> row.ok, quad |-> row.quad,
             marked |-> row.marked, unit |-> row.unit, before |-> row.before]
  BY DEF Row
<1>4. Replacement(row, verdict) = new
  BY <1>2, <1>3
<1>5. row.cand \in Nat /\ row.run \in STRING /\ row.quad \in BOOLEAN
  BY DEF Row
<1>6. new \in Row /\ Fixed(new) /\ (new.marked => new.unit = 1)
  BY <1>1, <1>5 DEF Row, Fixed
<1>7. /\ new.cand = row.cand /\ new.run = row.run /\ new.quad = row.quad
      /\ new.ok = ok /\ new.marked = marked /\ new.unit = unit
  OBVIOUS
<1> QED BY <1>4, <1>6, <1>7 DEF ok, marked, unit

\* A list of rows made from another row by row.
LEMMA RowByRow ==
  ASSUME NEW rows \in Seq(Row), NEW new,
         new = [i \in 1 .. Len(rows) |-> new[i]], \A i \in 1 .. Len(rows) : new[i] \in Row
  PROVE  new \in Seq(Row) /\ Len(new) = Len(rows)
<1>1. Len(rows) \in Nat BY LenProperties
<1>2. new \in [1 .. Len(rows) -> Row] OBVIOUS
<1> QED BY <1>1, <1>2

\* All rows of a source, rescaled or merged.
LEMMA NewRowsKeep ==
  ASSUME RowsKept, ScaledOnce, NEW f \in Sources
  PROVE  /\ NewRows(f) \in Seq(Row) /\ Len(NewRows(f)) = Len(samples[f])
         /\ \A i \in 1 .. Len(samples[f]) :
              LET old == samples[f][i] new == NewRows(f)[i]
              IN /\ new.cand = old.cand /\ new.run = old.run /\ new.before = old.before
                 /\ (new.marked /\ new.ok => new.unit = 1)
<1> DEFINE new == NewRows(f)
<1>1. \A i \in 1 .. Len(samples[f]) : samples[f][i] \in Row BY KeysOfRows
<1>2. samples[f] \in Seq(Row) BY DEF RowsKept
<1>3. new = [i \in 1 .. Len(samples[f]) |-> new[i]]
      /\ \A i \in 1 .. Len(samples[f]) : new[i] = Rescaled(samples[f][i])
  BY DEF NewRows
<1> HIDE DEF new
<1>4. \A i \in 1 .. Len(samples[f]) : new[i] \in Row BY <1>1, <1>3, RescaledKeeps
<1>5. new \in Seq(Row) /\ Len(new) = Len(samples[f]) BY <1>2, <1>3, <1>4, RowByRow
<1>6. ASSUME NEW i \in 1 .. Len(samples[f])
      PROVE  /\ new[i].cand = samples[f][i].cand /\ new[i].run = samples[f][i].run
             /\ new[i].before = samples[f][i].before
             /\ (new[i].marked /\ new[i].ok => new[i].unit = 1)
  <2>1. samples[f][i].marked /\ samples[f][i].ok => samples[f][i].unit = 1 BY DEF ScaledOnce
  <2>2. samples[f][i] \in Row BY <1>1
  <2> QED BY <1>3, <2>1, <2>2, RescaledKeeps
<1> QED BY <1>5, <1>6 DEF new

LEMMA MergedRowsKeep ==
  ASSUME RowsKept, ScaledOnce, NEW f \in Sources
  PROVE  /\ MergedRows(f) \in Seq(Row) /\ Len(MergedRows(f)) = Len(samples[f])
         /\ \A i \in 1 .. Len(samples[f]) :
              LET old == samples[f][i] new == MergedRows(f)[i]
              IN /\ new.cand = old.cand /\ new.run = old.run
                 /\ (new.marked /\ new.ok => new.unit = 1)
                 /\ i \notin Replaced(f) => new = old
                 /\ i \in Replaced(f) => new = Replacement(old, Latest(Key(f, old)))
<1> DEFINE new == MergedRows(f)
<1>1. \A i \in 1 .. Len(samples[f]) : samples[f][i] \in Row BY KeysOfRows
<1>2. samples[f] \in Seq(Row) BY DEF RowsKept
<1>3. /\ new = [i \in 1 .. Len(samples[f]) |-> new[i]]
      /\ \A i \in 1 .. Len(samples[f]) :
           /\ i \notin Replaced(f) => new[i] = samples[f][i]
           /\ i \in Replaced(f) => new[i] = Replacement(samples[f][i], Latest(Key(f, samples[f][i])))
  BY DEF MergedRows
<1> HIDE DEF new
<1>4. \A i \in 1 .. Len(samples[f]) : new[i] \in Row BY <1>1, <1>3, ReplacementKeeps, SMTT(20)
<1>5. new \in Seq(Row) /\ Len(new) = Len(samples[f]) BY <1>2, <1>3, <1>4, RowByRow
<1>6. ASSUME NEW i \in 1 .. Len(samples[f])
      PROVE  /\ new[i].cand = samples[f][i].cand /\ new[i].run = samples[f][i].run
             /\ (new[i].marked /\ new[i].ok => new[i].unit = 1)
  <2>1. CASE i \notin Replaced(f)
    BY <1>3, <2>1 DEF ScaledOnce
  <2>2. CASE i \in Replaced(f)
    BY <1>1, <1>3, <2>2, ReplacementKeeps
  <2> QED BY <2>1, <2>2
<1> QED BY <1>3, <1>5, <1>6 DEF new

\* One list of rows takes the place of another.
LEMMA SwapKeeps ==
  ASSUME RowsKept, ScaledOnce, NEW f \in Sources, NEW new \in Seq(Row), Len(new) = Len(samples[f]),
         \A i \in 1 .. Len(samples[f]) : /\ new[i].cand = samples[f][i].cand
                                         /\ new[i].run = samples[f][i].run
                                         /\ (new[i].marked /\ new[i].ok => new[i].unit = 1),
         samples' = [samples EXCEPT ![f] = new]
  PROVE  RowsKept' /\ ScaledOnce'
<1>1. /\ samples' \in [Sources -> Seq(Row)]
      /\ \A g \in Sources : samples'[g] = IF g = f THEN new ELSE samples[g]
  BY DEF RowsKept
<1>2. ASSUME NEW g \in Sources
      PROVE  /\ Len(samples'[g]) = Len(Original[g])
             /\ \A i \in 1 .. Len(samples'[g]) :
                  /\ samples'[g][i].cand = Original[g][i].cand
                  /\ samples'[g][i].run = Original[g][i].run
                  /\ (samples'[g][i].marked /\ samples'[g][i].ok => samples'[g][i].unit = 1)
  <2>1. CASE g = f BY <1>1, <2>1 DEF RowsKept
  <2>2. CASE g # f BY <1>1, <2>2 DEF RowsKept, ScaledOnce
  <2> QED BY <2>1, <2>2
<1> QED BY <1>1, <1>2 DEF RowsKept, ScaledOnce

\* The source a task is at.
LEMMA RescaleSource ==
  ASSUME NEW p, RescaleFile(p)
  PROVE  Next1(p, Slice(job.n, p)) \in Sources
<1>1. Slice(job.n, p) \in SUBSET Nat BY SourceFacts DEF Slice
<1>2. Next1(p, Slice(job.n, p)) \in Slice(job.n, p)
  BY <1>1, NextIs DEF RescaleFile
<1> QED BY <1>2 DEF Slice

\* The source a merge task is at is one of its bucket.
LEMMA ApplyingSource ==
  ASSUME NEW p, Ahead(p, Bucket(p)) # {}
  PROVE  LET f == Next1(p, Bucket(p))
         IN /\ f \in Sources /\ f \in Nat /\ f % job.n = p /\ RetriesOf(f) # {} /\ f \in Bucket(p)
            /\ at[p].source <= f
            /\ \A g \in Bucket(p) : at[p].source <= g => f <= g
<1>1. Bucket(p) \in SUBSET Nat BY SourceFacts DEF Bucket
<1>2. /\ Next1(p, Bucket(p)) \in Bucket(p) /\ at[p].source <= Next1(p, Bucket(p))
      /\ \A g \in Bucket(p) : at[p].source <= g => Next1(p, Bucket(p)) <= g
  BY <1>1, NextIs
<1> QED BY <1>2, SourceFacts DEF Bucket

\* Rows keep their places and ids, and no marked row is in the wrong costs.
LEMMA RowsStay ==
  ASSUME RowsKept, ScaledOnce, [RepairNext]_repairVars
  PROVE  RowsKept' /\ ScaledOnce'
<1>1. CASE samples' = samples
  BY <1>1 DEF RowsKept, ScaledOnce
<1>2. ASSUME NEW p \in Parts, RescaleFile(p), samples' # samples PROVE RowsKept' /\ ScaledOnce'
  <2> DEFINE f == Next1(p, Slice(job.n, p))
  <2>1. f \in Sources BY <1>2, RescaleSource
  <2>2. samples' = [samples EXCEPT ![f] = NewRows(f)] BY <1>2 DEF RescaleFile, stored
  <2> HIDE DEF f
  <2> QED BY <2>1, <2>2, NewRowsKeep, SwapKeeps
<1>3. ASSUME NEW p \in Parts, ApplySource(p), samples' # samples PROVE RowsKept' /\ ScaledOnce'
  <2> DEFINE f == Next1(p, Bucket(p))
  <2>1. f \in Sources BY <1>3, ApplyingSource DEF ApplySource
  <2>2. samples' = [samples EXCEPT ![f] = MergedRows(f)] BY <1>3 DEF ApplySource, ApplyTo, stored
  <2> HIDE DEF f
  <2> QED BY <2>1, <2>2, MergedRowsKeep, SwapKeeps
<1>4. ASSUME NEW p \in Parts, RebuildShard(p) PROVE samples' = samples
  BY <1>4 DEF RebuildShard
<1> QED BY <1>1, <1>2, <1>3, <1>4, WhoWrites

-----------------------------------------------------------------------------
\* The row a key names, the last of those with it.
LEMMA LastWithIs ==
  ASSUME NEW rows \in Seq(Row), NEW S \in SUBSET (1 .. Len(rows)), NEW k \in IdsAt(rows, S)
  PROVE  LET i == LastWith(rows, S, k)
         IN /\ i \in S /\ k = <<rows[i].cand, rows[i].run>>
            /\ \A j \in S : k = <<rows[j].cand, rows[j].run>> => j <= i
<1> DEFINE T == {i \in S : <<rows[i].cand, rows[i].run>> = k}
<1>1. T # {} BY DEF IdsAt
<1>2. Len(rows) \in Nat BY LenProperties
<1>3. T \in SUBSET (0 .. Len(rows))
  <2>1. \A i \in T : i \in 1 .. Len(rows) OBVIOUS
  <2> HIDE DEF T
  <2> QED BY <1>2, <2>1
<1>4. PICK i \in T : \A j \in T : j <= i BY <1>1, <1>2, <1>3, Greatest
<1>5. i \in S /\ <<rows[i].cand, rows[i].run>> = k
      /\ \A j \in S : <<rows[j].cand, rows[j].run>> = k => j <= i
  BY <1>4
<1> QED BY <1>5 DEF LastWith

\* The last row of a sampled candidate.
LEMMA EntryOfIs ==
  ASSUME NEW rows \in Seq(Row), NEW c \in Sampled(rows)
  PROVE  LET i == EntryOf(rows, c)
         IN i \in 1 .. Len(rows) /\ rows[i].cand = c /\ \A j \in i + 1 .. Len(rows) : rows[j].cand # c
<1> DEFINE T == {i \in 1 .. Len(rows) : rows[i].cand = c}
<1>1. T # {} BY DEF Sampled
<1>2. Len(rows) \in Nat BY LenProperties
<1>3. T \in SUBSET (0 .. Len(rows))
  <2>1. \A i \in T : i \in 1 .. Len(rows) OBVIOUS
  <2> HIDE DEF T
  <2> QED BY <1>2, <2>1
<1>4. PICK i \in T : \A j \in T : j <= i BY <1>1, <1>2, <1>3, Greatest
<1>5. i \in 1 .. Len(rows) /\ rows[i].cand = c /\ \A j \in i + 1 .. Len(rows) : rows[j].cand # c
  BY <1>2, <1>4
<1> QED BY <1>5 DEF EntryOf

-----------------------------------------------------------------------------
(* Reports *)

\* A report is one if its solved rows have outcomes and the rest is unchanged.
LEMMA ReportIs ==
  ASSUME NEW solved, NEW failed, NEW skipped, NEW unsampled,
         solved = [k \in DOMAIN solved |-> solved[k]],
         \A k \in DOMAIN solved : k \in Nat \X STRING /\ solved[k] \in Entry
  PROVE  IsReport([solved |-> solved, failed |-> failed, skipped |-> skipped, unsampled |-> unsampled])
BY DEF IsReport

\* A report with other solved rows.
LEMMA SolvedReplaced ==
  ASSUME NEW r, IsReport(r), NEW solved, solved = [k \in DOMAIN r.solved |-> solved[k]],
         \A k \in DOMAIN r.solved : solved[k] \in Entry,
         NEW new, new = [r EXCEPT !.solved = solved]
  PROVE  IsReport(new) /\ new.solved = solved /\ new.failed = r.failed
<1>1. r = [solved |-> r.solved, failed |-> r.failed, skipped |-> r.skipped, unsampled |-> r.unsampled]
  BY DEF IsReport
<1>2. new = [solved |-> solved, failed |-> r.failed, skipped |-> r.skipped, unsampled |-> r.unsampled]
  BY <1>1
<1>3. DOMAIN solved = DOMAIN r.solved OBVIOUS
<1>4. \A k \in DOMAIN solved : k \in Nat \X STRING /\ solved[k] \in Entry
  BY <1>3 DEF IsReport
<1>5. solved = [k \in DOMAIN solved |-> solved[k]] BY <1>3
<1>6. new.solved = solved /\ new.failed = r.failed BY <1>2
<1>7. IsReport(new)
  BY <1>2, <1>4, <1>5 DEF IsReport
<1> QED BY <1>6, <1>7

\* The reports that the backfill, the merge and the rebuild write are reports.
LEMMA RescoredKeeps ==
  ASSUME NEW r, IsReport(r), NEW rows \in Seq(Row), NEW S \in SUBSET (1 .. Len(rows))
  PROVE  IsReport(Rescored(r, rows, S)) /\ Rescored(r, rows, S).failed = r.failed
<1> DEFINE solved == [k \in DOMAIN r.solved |->
     IF k \in IdsAt(rows, S)
     THEN [ok |-> r.solved[k].ok, marked |-> TRUE, unit |-> rows[LastWith(rows, S, k)].unit]
     ELSE r.solved[k]]
<1>1. ASSUME NEW k \in DOMAIN r.solved PROVE solved[k] \in Entry
  <2>1. r.solved[k] \in Entry BY DEF IsReport
  <2>2. CASE k \in IdsAt(rows, S)
    <3>1. LastWith(rows, S, k) \in 1 .. Len(rows) BY <2>2, LastWithIs
    <3>2. rows[LastWith(rows, S, k)] \in Row BY <3>1, ElementOfSeq
    <3>3. rows[LastWith(rows, S, k)].unit \in 0 .. 2 BY <3>2 DEF Row
    <3> QED BY <2>1, <2>2, <3>3 DEF Entry
  <2> QED BY <2>1, <2>2
<1>2. Rescored(r, rows, S) = [r EXCEPT !.solved = solved] BY DEF Rescored
<1>3. solved = [k \in DOMAIN r.solved |-> solved[k]] OBVIOUS
<1> HIDE DEF solved
<1> QED BY <1>1, <1>2, <1>3, SolvedReplaced

LEMMA RefreshedKeeps ==
  ASSUME NEW r, IsReport(r), NEW rows \in Seq(Row), NEW S \in SUBSET (1 .. Len(rows)),
         NEW new \in Seq(Row), Len(new) = Len(rows)
  PROVE  LET after == Refreshed(r, rows, new, S)
         IN /\ IsReport(after) /\ after.failed = r.failed
            /\ \A k \in DOMAIN after.solved :
                 k \in IdsAt(rows, S) => Agrees(after.solved[k], new[LastWith(rows, S, k)])
<1> DEFINE NewRow(k) == new[LastWith(rows, S, k)]
           solved == [k \in DOMAIN r.solved |->
             IF k \in IdsAt(rows, S)
             THEN [ok |-> NewRow(k).ok, marked |-> NewRow(k).marked \/ r.solved[k].marked, unit |-> NewRow(k).unit]
             ELSE r.solved[k]]
<1>1. ASSUME NEW k \in DOMAIN r.solved
      PROVE  /\ solved[k] \in Entry
             /\ k \in IdsAt(rows, S) => Agrees(solved[k], NewRow(k))
  <2>1. r.solved[k] \in Entry BY DEF IsReport
  <2>2. CASE k \in IdsAt(rows, S)
    <3>1. LastWith(rows, S, k) \in 1 .. Len(new) BY <2>2, LastWithIs
    <3>2. NewRow(k) \in Row BY <3>1, ElementOfSeq
    <3> HIDE DEF NewRow
    <3>3. NewRow(k).unit \in 0 .. 2 /\ NewRow(k).ok \in BOOLEAN /\ NewRow(k).marked \in BOOLEAN
      BY <3>2 DEF Row
    <3>4. solved[k] = [ok |-> NewRow(k).ok, marked |-> NewRow(k).marked \/ r.solved[k].marked, unit |-> NewRow(k).unit]
      BY <2>2
    <3>5. NewRow(k).marked \/ r.solved[k].marked \in BOOLEAN
      BY <3>3, <2>1 DEF Entry
    <3> HIDE DEF solved
    <3> QED BY <3>3, <3>4, <3>5 DEF Entry, Agrees
  <2> QED BY <2>1, <2>2
<1>2. Refreshed(r, rows, new, S) = [r EXCEPT !.solved = solved] BY DEF Refreshed
<1>3. solved = [k \in DOMAIN r.solved |-> solved[k]] OBVIOUS
<1> HIDE DEF solved
<1>4. /\ IsReport(Refreshed(r, rows, new, S)) /\ Refreshed(r, rows, new, S).failed = r.failed
      /\ Refreshed(r, rows, new, S).solved = solved
  <2>1. \A k \in DOMAIN r.solved : solved[k] \in Entry BY <1>1
  <2> QED BY <2>1, <1>2, <1>3, SolvedReplaced
<1> QED BY <1>1, <1>3, <1>4

\* A shard samples what it was dealt.
LEMMA SampledDealt ==
  ASSUME RowsKept, NEW f \in Sources
  PROVE  /\ Sampled(samples[f]) \subseteq Dealt[f] /\ IsFiniteSet(Sampled(samples[f]))
         /\ IsFiniteSet(Dealt[f]) /\ Dealt[f] \subseteq Nat
<1>1. Sampled(samples[f]) = Sampled(Original[f])
  BY DEF RowsKept, Sampled, Valid
<1>2. Sampled(Original[f]) \subseteq Dealt[f] /\ IsFiniteSet(Dealt[f]) /\ Dealt[f] \subseteq Nat
  BY StoredAssumption
<1> QED BY <1>1, <1>2, FS_Subset

\* Disjoint parts of a finite set leave what their sizes leave.
LEMMA PartsAndRest ==
  ASSUME NEW D, IsFiniteSet(D), NEW A \in SUBSET D, NEW B \in SUBSET (D \ A), NEW C \in SUBSET (D \ (A \cup B))
  PROVE  /\ Cardinality(A) \in Nat /\ Cardinality(B) \in Nat /\ Cardinality(C) \in Nat
         /\ Cardinality(D) \in Nat
         /\ Cardinality(A) + Cardinality(B) + Cardinality(C) <= Cardinality(D)
<1>1. IsFiniteSet(A) /\ IsFiniteSet(B) /\ IsFiniteSet(C) BY FS_Subset
<1>2. IsFiniteSet(A \cup B) /\ Cardinality(A \cup B) = Cardinality(A) + Cardinality(B)
  <2>1. Cardinality(A \cap B) = 0
    <3>1. A \cap B = {} OBVIOUS
    <3> QED BY <3>1, FS_EmptySet
  <2>2. IsFiniteSet(A \cup B) /\ Cardinality(A \cup B) = Cardinality(A) + Cardinality(B) - Cardinality(A \cap B)
    BY <1>1, FS_Union
  <2>3. Cardinality(A) \in Nat /\ Cardinality(B) \in Nat BY <1>1, FS_CardinalityType
  <2> QED BY <2>1, <2>2, <2>3
<1>3. Cardinality((A \cup B) \cup C) = Cardinality(A \cup B) + Cardinality(C)
  <2>1. Cardinality((A \cup B) \cap C) = 0
    <3>1. (A \cup B) \cap C = {} OBVIOUS
    <3> QED BY <3>1, FS_EmptySet
  <2>2. Cardinality((A \cup B) \cup C) = Cardinality(A \cup B) + Cardinality(C) - Cardinality((A \cup B) \cap C)
    BY <1>1, <1>2, FS_Union
  <2>3. Cardinality(A \cup B) \in Nat /\ Cardinality(C) \in Nat BY <1>1, <1>2, FS_CardinalityType
  <2> QED BY <2>1, <2>2, <2>3
<1>4. (A \cup B) \cup C \subseteq D OBVIOUS
<1>5. Cardinality((A \cup B) \cup C) <= Cardinality(D) BY <1>4, FS_Subset
<1> QED BY <1>1, <1>2, <1>3, <1>5, FS_CardinalityType

\* The report of the last row of every candidate.
LEMMA LastRows ==
  ASSUME NEW rows \in Seq(Row), IsFiniteSet(Sampled(rows))
  PROVE  LET kept == {EntryOf(rows, c) : c \in Sampled(rows)}
             D == IdsAt(rows, kept)
         IN /\ kept \in SUBSET (1 .. Len(rows))
            /\ {k[1] : k \in D} = Sampled(rows)
            /\ Cardinality(D) = Cardinality(Sampled(rows))
            /\ \A k \in D : LET i == LastWith(rows, kept, k)
                            IN /\ i \in 1 .. Len(rows) /\ k = <<rows[i].cand, rows[i].run>>
                               /\ \A j \in i + 1 .. Len(rows) : rows[j].cand # rows[i].cand
<1> DEFINE kept == {EntryOf(rows, c) : c \in Sampled(rows)}
           D == IdsAt(rows, kept)
           g == [c \in Sampled(rows) |-> <<c, rows[EntryOf(rows, c)].run>>]
<1>1. \A c \in Sampled(rows) : /\ EntryOf(rows, c) \in 1 .. Len(rows) /\ rows[EntryOf(rows, c)].cand = c
                               /\ \A j \in EntryOf(rows, c) + 1 .. Len(rows) : rows[j].cand # c
  BY EntryOfIs
<1>2. kept \in SUBSET (1 .. Len(rows)) BY <1>1
<1>3. D = {g[c] : c \in Sampled(rows)} BY <1>1 DEF IdsAt
<1>4. {k[1] : k \in D} = Sampled(rows)
  <2>1. \A c \in Sampled(rows) : g[c][1] = c OBVIOUS
  <2> HIDE DEF g, D
  <2> QED BY <1>3, <2>1
<1>5. Cardinality(D) = Cardinality(Sampled(rows))
  <2>1. g \in [Sampled(rows) -> D] BY <1>3
  <2>2. \A c, d \in Sampled(rows) : g[c] = g[d] => c = d OBVIOUS
  <2>3. \A k \in D : \E c \in Sampled(rows) : g[c] = k
    <3> HIDE DEF g, D
    <3> QED BY <1>3
  <2> HIDE DEF g, D
  <2>4. g \in Bijection(Sampled(rows), D)
    BY <2>1, <2>2, <2>3 DEF Bijection, Injection, Surjection, IsInjective
  <2> QED BY <2>4, FS_Bijection DEF ExistsBijection
<1>6. ASSUME NEW k \in D
      PROVE  LET i == LastWith(rows, kept, k)
             IN /\ i \in 1 .. Len(rows) /\ k = <<rows[i].cand, rows[i].run>>
                /\ \A j \in i + 1 .. Len(rows) : rows[j].cand # rows[i].cand
  <2> DEFINE i == LastWith(rows, kept, k)
  <2> HIDE DEF kept
  <2>1. i \in kept /\ k = <<rows[i].cand, rows[i].run>> BY <1>2, LastWithIs
  <2> HIDE DEF i
  <2>2. PICK c \in Sampled(rows) : i = EntryOf(rows, c) BY <2>1 DEF kept
  <2> QED BY <1>1, <2>1, <2>2 DEF i
<1> QED BY <1>2, <1>4, <1>5, <1>6

\* The summary that a rebuild writes of a source is right about its rows.
LEMMA SummaryRight ==
  ASSUME RowsKept, ReportsKept, NEW f \in Sources
  PROVE  /\ IsReport(Summary(f)) /\ Summary(f).failed \subseteq Dealt[f]
         /\ Right(samples[f], Summary(f), Dealt[f])
         /\ NotBehind(samples[f], Summary(f).solved)
<1> DEFINE rows == samples[f]
           S == Sampled(rows)
           kept == {EntryOf(rows, c) : c \in S}
           solved == [k \in IdsAt(rows, kept) |-> Outcome(rows[LastWith(rows, kept, k)])]
           failed == reports[f].failed \ S
           skipped == (Dealt[f] \ (S \cup failed)) \cap Disabled
           left == Cardinality(Dealt[f]) - Cardinality(S) - Cardinality(failed) - Cardinality(skipped)
           unsampled == IF left > 0 THEN left ELSE 0
<1>1. Summary(f) = [solved |-> solved, failed |-> failed, skipped |-> Cardinality(skipped),
                    unsampled |-> unsampled]
  BY DEF Summary
<1>2. rows \in Seq(Row) /\ S \subseteq Dealt[f] /\ IsFiniteSet(S) /\ IsFiniteSet(Dealt[f])
  BY SampledDealt DEF RowsKept
<1>3. failed \in SUBSET (Dealt[f] \ S) /\ skipped \in SUBSET (Dealt[f] \ (S \cup failed))
  BY DEF ReportsKept
<1> HIDE DEF failed, skipped
<1>4. Cardinality(Dealt[f]) = Cardinality(S) + Cardinality(failed) + Cardinality(skipped) + unsampled
  <2> HIDE DEF S
  <2>1. /\ Cardinality(S) \in Nat /\ Cardinality(failed) \in Nat /\ Cardinality(skipped) \in Nat
        /\ Cardinality(Dealt[f]) \in Nat
        /\ Cardinality(S) + Cardinality(failed) + Cardinality(skipped) <= Cardinality(Dealt[f])
    BY <1>2, <1>3, PartsAndRest
  <2> QED BY <2>1
<1>5. /\ kept \in SUBSET (1 .. Len(rows))
      /\ {k[1] : k \in IdsAt(rows, kept)} = S
      /\ Cardinality(IdsAt(rows, kept)) = Cardinality(S)
      /\ \A k \in IdsAt(rows, kept) :
           LET i == LastWith(rows, kept, k)
           IN /\ i \in 1 .. Len(rows) /\ k = <<rows[i].cand, rows[i].run>>
              /\ \A j \in i + 1 .. Len(rows) : rows[j].cand # rows[i].cand
  BY <1>2, LastRows
<1> HIDE DEF kept, S, rows
<1>6. /\ DOMAIN solved = IdsAt(rows, kept)
      /\ solved = [k \in DOMAIN solved |-> solved[k]]
      /\ \A k \in DOMAIN solved : \E i \in 1 .. Len(rows) :
           /\ k = <<rows[i].cand, rows[i].run>> /\ solved[k] = Outcome(rows[i])
           /\ \A j \in i + 1 .. Len(rows) : rows[j].cand # rows[i].cand
  BY <1>5
<1> HIDE DEF solved
<1>7. ASSUME NEW k \in DOMAIN solved PROVE k \in Nat \X STRING /\ solved[k] \in Entry
  <2>1. PICK i \in 1 .. Len(rows) : k = <<rows[i].cand, rows[i].run>> /\ solved[k] = Outcome(rows[i])
    BY <1>6
  <2>2. rows[i] \in Row BY <1>2, ElementOfSeq
  <2> QED BY <2>1, <2>2 DEF Row, Outcome, Entry
<1> DEFINE new == [solved |-> solved, failed |-> failed, skipped |-> Cardinality(skipped),
                   unsampled |-> unsampled]
<1>8. IsReport(new) BY <1>6, <1>7, ReportIs
<1>9. new.solved = solved /\ new.failed = failed /\ new.skipped = Cardinality(skipped)
      /\ new.unsampled = unsampled
  OBVIOUS
<1> HIDE DEF new, unsampled
<1>10. Right(rows, new, Dealt[f]) BY <1>4, <1>5, <1>6, <1>9 DEF Right, S
<1>11. NotBehind(rows, solved)
  <2> SUFFICES ASSUME NEW i \in 1 .. Len(rows), <<rows[i].cand, rows[i].run>> \in DOMAIN solved
               PROVE  \E j \in i .. Len(rows) :
                        LET k == <<rows[i].cand, rows[i].run>>
                        IN k = <<rows[j].cand, rows[j].run>> /\ Agrees(solved[k], rows[j])
    BY DEF NotBehind
  <2> DEFINE k == <<rows[i].cand, rows[i].run>>
  <2>1. PICK j \in 1 .. Len(rows) : /\ k = <<rows[j].cand, rows[j].run>> /\ solved[k] = Outcome(rows[j])
                                    /\ \A l \in j + 1 .. Len(rows) : rows[l].cand # rows[j].cand
    BY <1>6
  <2>2. rows[i].cand = rows[j].cand BY <2>1
  <2>3. j \in i .. Len(rows)
    <3>1. Len(rows) \in Nat BY <1>2, LenProperties
    <3> QED BY <2>1, <2>2, <3>1
  <2>4. Agrees(solved[k], rows[j]) BY <2>1 DEF Agrees, Outcome
  <2> QED BY <2>1, <2>3, <2>4
<1>12. failed \subseteq Dealt[f] BY <1>3
<1> QED BY <1>1, <1>8, <1>9, <1>10, <1>11, <1>12 DEF new, rows, unsampled

-----------------------------------------------------------------------------
(* Types and order *)

\* The source a task rescales is the one whose samples it has swapped.
LEMMA SwappedSource ==
  ASSUME TasksShape, NEW p \in Parts, RescaleFile(p), at[p].step = "swapped"
  PROVE  /\ Next1(p, Slice(job.n, p)) = at[p].source
         /\ at[p].rows \subseteq 1 .. Len(Original[at[p].source])
<1>1. Slice(job.n, p) \in SUBSET Nat BY SourceFacts DEF Slice
<1>2. at[p].source \in Slice(job.n, p) /\ at[p].rows \subseteq 1 .. Len(Original[at[p].source])
  BY DEF TasksShape, RescaleFile, Running
<1>3. /\ Next1(p, Slice(job.n, p)) \in Slice(job.n, p) /\ at[p].source <= Next1(p, Slice(job.n, p))
      /\ Next1(p, Slice(job.n, p)) <= at[p].source
  BY <1>1, <1>2, NextIs DEF RescaleFile
<1>4. at[p].source \in Nat /\ Next1(p, Slice(job.n, p)) \in Nat BY <1>1, <1>2, <1>3
<1> QED BY <1>2, <1>3, <1>4

\* One report takes the place of another.
LEMMA ReportSwap ==
  ASSUME ReportsKept, NEW f \in Sources, NEW new, IsReport(new), new.failed \subseteq Dealt[f],
         reports' = [reports EXCEPT ![f] = new]
  PROVE  ReportsKept'
<1>1. DOMAIN reports = Sources BY DEF ReportsKept
<1>2. DOMAIN reports' = Sources /\ reports' = [g \in Sources |-> reports'[g]] BY <1>1
<1>3. \A g \in Sources : reports'[g] = IF g = f THEN new ELSE reports[g] BY <1>1
<1>4. \A g \in Sources : IsReport(reports'[g]) /\ reports'[g].failed \subseteq Dealt[g]
  BY <1>3 DEF ReportsKept
<1> QED BY <1>2, <1>4 DEF ReportsKept, IsReport

\* Sources a rebuild part has still to sum up.
LEMMA UnsummedFacts ==
  ASSUME NEW p, Unsummed(p) # {}
  PROVE  Min(Unsummed(p)) \in Unsummed(p) /\ Min(Unsummed(p)) \in Sources
<1>1. Unsummed(p) \in SUBSET Nat /\ Unsummed(p) \subseteq Sources BY SourceFacts DEF Unsummed
<1> QED BY <1>1, MinIs

\* Every report stays a report of candidates its shard was dealt.
LEMMA ReportsStay ==
  ASSUME RowsKept, ReportsKept, TasksShape, ScaledOnce, [RepairNext]_repairVars
  PROVE  ReportsKept'
<1>1. CASE reports' = reports
  BY <1>1 DEF ReportsKept, IsReport
<1>2. ASSUME NEW p \in Parts, RescaleFile(p), reports' # reports PROVE ReportsKept'
  <2> DEFINE f == Next1(p, Slice(job.n, p))
             new == Rescored(reports[f], samples[f], at[p].rows)
  <2>1. f \in Sources BY <1>2, RescaleSource
  <2>2. at[p].step = "swapped" /\ reports' = [reports EXCEPT ![f] = new]
    BY <1>2 DEF RescaleFile, stored
  <2>3. at[p].rows \in SUBSET (1 .. Len(samples[f]))
    BY <1>2, <2>1, <2>2, SwappedSource DEF RowsKept
  <2>4. samples[f] \in Seq(Row) /\ IsReport(reports[f]) BY <2>1 DEF RowsKept, ReportsKept
  <2> HIDE DEF f
  <2>5. IsReport(new) /\ new.failed = reports[f].failed BY <2>3, <2>4, RescoredKeeps
  <2>6. new.failed \subseteq Dealt[f] BY <2>1, <2>5 DEF ReportsKept
  <2> HIDE DEF new
  <2> QED BY <2>1, <2>2, <2>5, <2>6, ReportSwap
<1>3. ASSUME NEW p \in Parts, ApplySource(p), reports' # reports PROVE ReportsKept'
  <2> DEFINE f == Next1(p, Bucket(p))
             new == Refreshed(reports[f], samples[f], MergedRows(f), Replaced(f))
  <2>1. f \in Sources BY <1>3, ApplyingSource DEF ApplySource
  <2>2. reports' = [reports EXCEPT ![f] = new]
    BY <1>3 DEF ApplySource, ApplyTo, stored
  <2>3. Replaced(f) \in SUBSET (1 .. Len(samples[f])) BY DEF Replaced
  <2>4. samples[f] \in Seq(Row) /\ IsReport(reports[f]) BY <2>1 DEF RowsKept, ReportsKept
  <2> HIDE DEF f
  <2>5. MergedRows(f) \in Seq(Row) /\ Len(MergedRows(f)) = Len(samples[f]) BY <2>1, MergedRowsKeep
  <2>6. IsReport(new) /\ new.failed = reports[f].failed BY <2>3, <2>4, <2>5, RefreshedKeeps
  <2>7. new.failed \subseteq Dealt[f] BY <2>1, <2>6 DEF ReportsKept
  <2> HIDE DEF new
  <2> QED BY <2>1, <2>2, <2>6, <2>7, ReportSwap
<1>4. ASSUME NEW p \in Parts, RebuildShard(p), reports' # reports PROVE ReportsKept'
  <2> DEFINE f == Min(Unsummed(p))
  <2>1. f \in Sources BY <1>4, UnsummedFacts DEF RebuildShard
  <2>2. reports' = [reports EXCEPT ![f] = Summary(f)] BY <1>4 DEF RebuildShard
  <2> HIDE DEF f
  <2> QED BY <2>1, <2>2, SummaryRight, ReportSwap
<1> QED BY <1>1, <1>2, <1>3, <1>4, WhoWrites

\* Tasks at their start; a list of keys; pointers into the retry files.
LEMMA StartTypes ==
  Fresh \in [Parts -> [source : Nat, step : {"open", "swapped", "reported", "failed"}, rows : SUBSET Nat]]
BY DEF Fresh, TaskStart

LEMMA ExtractedType ==
  ASSUME RowsKept, NEW first \in 0 .. N, NEW last \in 0 .. N
  PROVE  /\ \A f \in Sources : SelectedKeys(f) \in Seq(Keys)
         /\ Extracted(first, last) \in Seq(Keys)
<1>1. ASSUME NEW f \in Sources PROVE SelectedKeys(f) \in Seq(Keys)
  <2> DEFINE ss == [i \in 1 .. Len(samples[f]) |->
                     IF Selected(samples[f][i]) THEN <<Key(f, samples[f][i])>> ELSE <<>>]
  <2>1. Len(samples[f]) \in Nat BY LenProperties DEF RowsKept
  <2>2. \A i \in 1 .. Len(samples[f]) : ss[i] \in Seq(Keys)
    BY KeysOfRows
  <2>3. ss \in Seq(Seq(Keys))
    <3>1. ss \in [1 .. Len(samples[f]) -> Seq(Keys)] BY <2>2
    <3> HIDE DEF ss
    <3> QED BY <2>1, <3>1
  <2> HIDE DEF ss
  <2>4. FlattenSeq(ss) \in Seq(Keys) BY <2>3, FlattenType
  <2> QED BY <2>4 DEF SelectedKeys, ss
<1>2. Extracted(first, last) \in Seq(Keys)
  <2> DEFINE n == last - first
             ss == [i \in 1 .. n |-> SelectedKeys(first + i - 1)]
  <2>1. CASE n >= 0
    <3>1. n \in Nat BY <2>1, RepairBounds
    <3>2. \A i \in 1 .. n : first + i - 1 \in Sources BY <3>1, RepairBounds DEF Sources
    <3>3. \A i \in 1 .. n : ss[i] \in Seq(Keys) BY <1>1, <3>2
    <3>4. ss \in Seq(Seq(Keys)) BY <3>1, <3>3
    <3> HIDE DEF ss
    <3>5. FlattenSeq(ss) \in Seq(Keys) BY <3>4, FlattenType
    <3> QED BY <3>5 DEF Extracted, ss
  <2>2. CASE n < 0
    <3>1. 1 .. n = 1 .. 0 BY <2>2, RepairBounds
    <3>2. ss = <<>> BY <3>1
    <3> HIDE DEF ss
    <3>3. FlattenSeq(ss) = <<>> BY <3>2, FlattenNone
    <3>4. Extracted(first, last) = <<>> BY <3>3 DEF Extracted, ss
    <3> QED BY <3>4, EmptySeq
  <2> QED BY <2>1, <2>2, RepairBounds
<1> QED BY <1>1, <1>2

\* The cuts of n parts.
LEMMA CutFacts ==
  ASSUME NEW n \in Nat \ {0}, NEW i \in 0 .. n
  PROVE  /\ (N * i) \div n \in 0 .. N
         /\ i = n => (N * i) \div n = N
         /\ i = 0 => (N * i) \div n = 0
         /\ i # n => (N * i) \div n <= (N * (i + 1)) \div n
BY RepairBounds

LEMMA IndexedPointers ==
  ASSUME RepairShape, NEW n, NEW p
  PROVE  /\ IndexedRows(n, p) \in SUBSET (Nat \X Nat)
         /\ \A e \in Pointers : /\ e = <<e[1], e[2]>> /\ e[1] \in Shards /\ e[2] \in Nat
                                /\ e[2] \in 1 .. Len(retries[e[1]])
                                /\ retries[e[1]][e[2]] \in RetryRow
<1>1. ASSUME NEW s \in Shards, NEW i \in 1 .. Len(retries[s])
      PROVE  s \in Nat /\ i \in Nat /\ retries[s][i] \in RetryRow
  <2>1. retries[s] \in Seq(RetryRow) BY DEF RepairShape
  <2> QED BY <2>1, ElementOfSeq, LenProperties, RepairBounds DEF Shards
<1>2. \A e \in Pointers : \E s \in Shards : \E i \in 1 .. Len(retries[s]) : e = <<s, i>>
  BY DEF Pointers
<1>3. \A e \in Pointers : /\ e = <<e[1], e[2]>> /\ e[1] \in Shards /\ e[2] \in Nat
                          /\ e[2] \in 1 .. Len(retries[e[1]])
                          /\ retries[e[1]][e[2]] \in RetryRow
  BY <1>1, <1>2
<1>4. Shards \subseteq Nat BY RepairBounds DEF Shards
<1> QED BY <1>3, <1>4 DEF IndexedRows

\* A repair job goes from phase to phase.
LEMMA NextPhase ==
  ASSUME RepairShape, job.kind = "repair", NEW pc \in {"deal", "solve", "index", "apply"}
  PROVE  /\ [job EXCEPT !.pc = pc] \in JobShapes
         /\ [job EXCEPT !.pc = pc].kind = "repair" /\ [job EXCEPT !.pc = pc].pc = pc
<1>1. job # NoJob BY DEF NoJob
<1>2. job \in [kind : {"repair"}, n : TaskCounts, pc : {"prepare", "deal", "solve", "index", "apply"}]
  BY <1>1 DEF RepairShape, JobShapes
<1>3. [job EXCEPT !.pc = pc] \in [kind : {"repair"}, n : TaskCounts,
                                  pc : {"prepare", "deal", "solve", "index", "apply"}]
  BY <1>2
<1>4. [job EXCEPT !.pc = pc].kind = "repair" /\ [job EXCEPT !.pc = pc].pc = pc BY <1>2
<1> QED BY <1>3, <1>4 DEF JobShapes

\* The fields of the state that a step leaves alone keep their types.
LEMMA RepairShapeStays ==
  ASSUME RowsKept, RepairShape, TasksShape, InOrder, [RepairNext]_repairVars
  PROVE  RepairShape'
<1> USE DEF stored, split, plan, solve, merge, rebuild, control
<1>1. CASE UNCHANGED repairVars
  BY <1>1 DEF repairVars, RepairShape
<1>2. ASSUME NEW kind \in {"backfill", "repair", "rebuild"}, NEW n \in TaskCounts, Submit(kind, n)
      PROVE  RepairShape'
  <2>1. job' \in JobShapes BY <1>2 DEF Submit, FirstPhase, JobShapes
  <2> QED BY <1>2, <2>1 DEF Submit, RepairShape
<1>3. CASE KillJob
  <2>1. lost' \subseteq 1 .. dealt /\ broken' \subseteq {(k - 1) % K : k \in lost'}
    BY <1>3 DEF KillJob, CutSplit, RepairShape
  <2>2. UNCHANGED <<select, stored, rescaled, prepared, candidates, dealt, solve, merge, rebuild>>
    BY <1>3 DEF KillJob
  <2>3. kills' \in 0 .. MaxKills BY <1>3, RepairBounds DEF KillJob, RepairShape
  <2>4. job' \in JobShapes /\ tried' = {} /\ at' = Fresh
    BY <1>3 DEF KillJob, End, JobShapes, Fresh
  <2> QED BY <2>1, <2>2, <2>3, <2>4, StartTypes DEF RepairShape
<1>4. ASSUME NEW p \in Parts, FailIndex(p) PROVE RepairShape'
  <2>1. kills' \in 0 .. MaxKills BY <1>4, RepairBounds DEF FailIndex, RepairShape
  <2> QED BY <1>4, <2>1 DEF FailIndex, RepairShape
<1>5. ASSUME NEW p \in Parts, RescaleFile(p) PROVE RepairShape'
  <2> DEFINE f == Next1(p, Slice(job.n, p))
  <2>1. f \in Nat BY <1>5, RescaleSource, SourceFacts
  <2>2. at' \in [Parts -> [source : Nat, step : {"open", "swapped", "reported", "failed"}, rows : SUBSET Nat]]
    <3>1. CASE Pass(p, f) BY <2>1, <3>1 DEF Pass, RepairShape
    <3>2. CASE at' = [at EXCEPT ![p] = [source |-> f, step |-> "swapped",
                        rows |-> {i \in 1 .. Len(samples[f]) : NewRows(f)[i] # samples[f][i]}]]
      <4>1. {i \in 1 .. Len(samples[f]) : NewRows(f)[i] # samples[f][i]} \in SUBSET Nat
        OBVIOUS
      <4> HIDE DEF f
      <4> QED BY <2>1, <3>2, <4>1 DEF RepairShape
    <3> QED BY <1>5, <3>1, <3>2 DEF RescaleFile
  <2> QED BY <1>5, <2>2 DEF RescaleFile, RepairShape
<1>6. ASSUME NEW p \in Parts, RescaledPart(p) PROVE RepairShape'
  BY <1>6 DEF RescaledPart, RepairShape
<1>7. ASSUME NEW p \in Parts, PreparePart(p) PROVE RepairShape'
  <2>1. job.n \in NoneOr BY TasksAreParts, <1>7 DEF PreparePart, Running, NoJob, NoneOr
  <2> QED BY <1>7, <2>1 DEF PreparePart, RepairShape
<1>8. ASSUME NEW p \in Parts, IndexPart(p) PROVE RepairShape'
  <2>1. job.n \in NoneOr BY TasksAreParts, <1>8 DEF IndexPart, Running, NoJob, NoneOr
  <2>2. IndexedRows(job.n, p) \in SUBSET (Nat \X Nat) BY IndexedPointers
  <2> QED BY <1>8, <2>1, <2>2 DEF IndexPart, RepairShape
<1>9. ASSUME NEW p \in Parts, ApplySource(p) PROVE RepairShape'
  <2> DEFINE f == Next1(p, Bucket(p))
  <2>1. f \in Nat BY <1>9, ApplyingSource DEF ApplySource
  <2>2. at' \in [Parts -> [source : Nat, step : {"open", "swapped", "reported", "failed"}, rows : SUBSET Nat]]
    <3>1. CASE Pass(p, f) BY <2>1, <3>1 DEF Pass, RepairShape
    <3>2. CASE at' = [at EXCEPT ![p] = [source |-> f, step |-> "reported", rows |-> {}]]
      BY <2>1, <3>2 DEF RepairShape
    <3> QED BY <1>9, <3>1, <3>2 DEF ApplySource, ApplyTo
  <2> QED BY <1>9, <2>2 DEF ApplySource, RepairShape
<1>10. ASSUME NEW p \in Parts, AppliedPart(p) PROVE RepairShape'
  <2>1. job.n \in NoneOr BY TasksAreParts, <1>10 DEF AppliedPart, Applying, Running, NoJob, NoneOr
  <2> QED BY <1>10, <2>1 DEF AppliedPart, RepairShape
<1>11. ASSUME NEW p \in Parts, FailPart(p) PROVE RepairShape'
  BY <1>11 DEF FailPart, RepairShape
<1>12. ASSUME NEW p \in Parts, RebuildShard(p) PROVE RepairShape'
  <2>1. Min(Unsummed(p)) \in Sources BY <1>12, UnsummedFacts DEF RebuildShard
  <2>2. progress' \in [Parts -> SUBSET Sources]
    <3>1. progress \in [Parts -> SUBSET Sources] BY DEF RepairShape
    <3>2. progress' = progress \/ progress' = [progress EXCEPT ![p] = @ \cup {Min(Unsummed(p))}]
      BY <1>12 DEF RebuildShard
    <3>3. [progress EXCEPT ![p] = @ \cup {Min(Unsummed(p))}] \in [Parts -> SUBSET Sources]
      BY <2>1, <3>1
    <3> QED BY <3>1, <3>2, <3>3
  <2>3. at' \in [Parts -> [source : Nat, step : {"open", "swapped", "reported", "failed"}, rows : SUBSET Nat]]
    <3>1. at' = [at EXCEPT ![p].step = "reported"] \/ at' = [at EXCEPT ![p].step = "open"]
      BY <1>12 DEF RebuildShard
    <3>2. CASE at' = [at EXCEPT ![p].step = "reported"] BY <3>2 DEF RepairShape
    <3>3. CASE at' = [at EXCEPT ![p].step = "open"] BY <3>3 DEF RepairShape
    <3> QED BY <3>1, <3>2, <3>3
  <2> QED BY <1>12, <2>2, <2>3 DEF RebuildShard, RepairShape
<1>13. ASSUME NEW p \in Parts, RebuiltPart(p) PROVE RepairShape'
  <2>1. job.n \in NoneOr BY TasksAreParts, <1>13 DEF RebuiltPart, Running, NoJob, NoneOr
  <2> QED BY <1>13, <2>1 DEF RebuiltPart, RepairShape
<1>14. CASE EndBackfill
  BY <1>14, StartTypes DEF EndBackfill, End, RepairShape, JobShapes, Fresh
<1>15. CASE FinalizePrepare
  <2>1. job.n \in TaskCounts /\ job.n \in Nat \ {0} BY <1>15, TasksAreParts DEF FinalizePrepare, Running, NoJob
  <2>2. CASE ~PartsFit(job.n)
    BY <1>15, <2>2, StartTypes DEF FinalizePrepare, End, RepairShape, JobShapes, Fresh
  <2>3. CASE PartsFit(job.n)
    <3> DEFINE part(i) == Extracted((N * (i - 1)) \div prepared[i - 1], (N * i) \div prepared[i - 1])
               ss == [i \in 1 .. job.n |-> part(i)]
    <3>1. ASSUME NEW i \in 1 .. job.n PROVE part(i) \in Seq(Keys)
      <4>1. prepared[i - 1] = job.n BY <2>1, <2>3 DEF PartsFit
      <4>2. (N * (i - 1)) \div job.n \in 0 .. N /\ (N * i) \div job.n \in 0 .. N
        <5>1. i \in 0 .. job.n /\ i - 1 \in 0 .. job.n BY <2>1
        <5> QED BY <2>1, <5>1, CutFacts
      <4> QED BY <4>1, <4>2, ExtractedType
    <3> HIDE DEF part
    <3>2. ss \in Seq(Seq(Keys)) BY <2>1, <3>1
    <3> HIDE DEF ss
    <3>3. FlattenSeq(ss) \in Seq(Keys) BY <3>2, FlattenType
    <3>4. candidates' = FlattenSeq(ss)
      BY <1>15, <2>3 DEF FinalizePrepare, ss, part
    <3>5. Len(candidates') \in Nat BY <3>3, <3>4, LenProperties
    <3>6. dealt' = -1 BY <1>15 DEF FinalizePrepare, InOrder, Running
    <3>7. job' \in JobShapes
      BY <1>15, <2>3, NextPhase DEF FinalizePrepare, Goto, Running
    <3> QED BY <1>15, <2>3, <3>3, <3>4, <3>5, <3>6, <3>7, StartTypes
         DEF FinalizePrepare, Goto, RepairShape, Fresh
  <2> QED BY <2>2, <2>3
<1>16. CASE Deal
  <2>1. Len(candidates) \in Nat BY LenProperties DEF RepairShape
  <2>2. job' \in JobShapes BY <1>16, NextPhase DEF Deal, Goto, RepairShape, Running
  <2>3. dealt' \in -1 .. Len(candidates') /\ lost' \subseteq 1 .. dealt'
    BY <1>16, <2>1 DEF Deal, RepairShape
  <2>4. at' \in [Parts -> [source : Nat, step : {"open", "swapped", "reported", "failed"}, rows : SUBSET Nat]]
    BY <1>16, StartTypes DEF Deal, Goto, RepairShape, Fresh
  <2> QED BY <1>16, <2>2, <2>3, <2>4 DEF Deal, Goto, RepairShape
<1>17. ASSUME NEW s \in Shards, Session(s) PROVE RepairShape'
  <2>1. CASE MarkDone(s) BY <1>17, <2>1 DEF MarkDone, RepairShape
  <2>2. ASSUME NEW k \in Pending(s), NEW v \in Verdicts(select, candidates[k]), Retry(s, k, v)
        PROVE  RepairShape'
    <3>1. k \in 1 .. dealt /\ k \in Nat BY DEF Pending, Positions
    <3>2. Len(candidates) \in Nat /\ dealt <= Len(candidates) BY LenProperties DEF RepairShape
    <3>3. candidates[k] \in Keys
      <4>1. k \in 1 .. Len(candidates) BY <3>1, <3>2 DEF RepairShape
      <4> QED BY <4>1, ElementOfSeq DEF RepairShape
    <3>4. v \in Verdict BY <3>3, VerdictsAreKnown DEF RepairShape, Verdict
    <3>5. [key |-> candidates[k], verdict |-> v] \in RetryRow BY <3>3, <3>4 DEF RetryRow
    <3>6. retries' \in [Shards -> Seq(RetryRow)]
      BY <2>2, <3>5, AppendProperties DEF Retry, RepairShape
    <3> QED BY <2>2, <3>1, <3>6 DEF Retry, RepairShape
  <2> QED BY <1>17, <2>1, <2>2 DEF Session
<1>18. CASE BeginMerge
  <2>1. CASE End
    BY <1>18, <2>1, StartTypes DEF BeginMerge, End, RepairShape, JobShapes, Fresh
  <2>2. CASE Goto("index")
    <3>1. job' \in JobShapes BY <1>18, <2>2, NextPhase DEF BeginMerge, Mergeable, Goto, Running
    <3> QED BY <1>18, <2>2, <3>1, StartTypes DEF BeginMerge, Goto, RepairShape, Fresh
  <2> QED BY <1>18, <2>1, <2>2 DEF BeginMerge
<1>19. CASE BeginApply
  <2>1. job' \in JobShapes BY <1>19, NextPhase DEF BeginApply, Goto, Running
  <2> QED BY <1>19, <2>1, StartTypes DEF BeginApply, Goto, RepairShape, Fresh
<1>20. CASE MergeFinalize
  BY <1>20, StartTypes DEF MergeFinalize, End, RepairShape, JobShapes, Fresh
<1>21. CASE RebuildFinalize
  <2>1. job.n \in NoneOr BY TasksAreParts, <1>21 DEF RebuildFinalize, Running, NoJob, NoneOr
  <2> QED BY <1>21, <2>1, StartTypes DEF RebuildFinalize, End, RepairShape, JobShapes, Fresh, NoneOr
<1>22. CASE Unreadable
  BY <1>22, StartTypes DEF Unreadable, End, RepairShape, JobShapes, Fresh
<1> QED BY <1>1, <1>2, <1>3, <1>4, <1>5, <1>6, <1>7, <1>8, <1>9, <1>10, <1>11, <1>12, <1>13, <1>14,
           <1>15, <1>16, <1>17, <1>18, <1>19, <1>20, <1>21, <1>22
        DEF RepairNext, Work, Task

\* The tasks stand where their phase lets them.
LEMMA TasksStay ==
  ASSUME RowsKept, RepairShape, TasksShape, [RepairNext]_repairVars
  PROVE  TasksShape'
<1> USE DEF stored, split, plan, solve, merge, rebuild, control
<1>0. job = NoJob \/ /\ job.kind \in {"backfill", "rebuild"} => job.pc = "files"
                     /\ job.kind = "repair" => job.pc \in {"prepare", "deal", "solve", "index", "apply"}
                     /\ job.kind \in {"backfill", "rebuild", "repair"}
  BY DEF RepairShape, JobShapes
<1>1. CASE job' = job /\ at' = at /\ tried' = tried
  BY <1>1 DEF TasksShape, Slice
<1>2. CASE End
  BY <1>2, <1>0 DEF End, TasksShape, NoJob, Fresh, TaskStart
<1>3. ASSUME NEW pc \in {"deal", "solve", "index", "apply"}, Goto(pc), job.kind = "repair" PROVE TasksShape'
  <2>1. job'.kind = "repair" /\ job'.pc = pc BY <1>3 DEF Goto, RepairShape, JobShapes
  <2>2. tried' = {} /\ at' = Fresh BY <1>3 DEF Goto, Fresh
  <2> QED BY <2>1, <2>2 DEF TasksShape, Fresh, TaskStart
<1>4. ASSUME NEW kind \in {"backfill", "repair", "rebuild"}, NEW n \in TaskCounts, Submit(kind, n)
      PROVE  TasksShape'
  <2>1. at' = Fresh /\ tried' = {} BY <1>4 DEF Submit, TasksShape, NoJob
  <2>2. job'.pc # "index" /\ job'.pc # "apply" BY <1>4 DEF Submit, FirstPhase
  <2> QED BY <2>1, <2>2 DEF TasksShape, Fresh, TaskStart
<1>5. ASSUME NEW p \in Parts, FailIndex(p) PROVE TasksShape'
  BY <1>5 DEF FailIndex, TasksShape, Running, RepairShape
<1>6. ASSUME NEW p \in Parts, RescaleFile(p) PROVE TasksShape'
  <2> DEFINE f == Next1(p, Slice(job.n, p))
             R == {i \in 1 .. Len(samples[f]) : NewRows(f)[i] # samples[f][i]}
  <2>1. job.kind = "backfill" /\ job.pc = "files" /\ job' = job /\ tried' = tried
    BY <1>6 DEF RescaleFile, Running
  <2>2. f \in Slice(job.n, p) /\ f \in Sources
    <3>1. Slice(job.n, p) \in SUBSET Nat /\ Slice(job.n, p) \subseteq Sources BY SourceFacts DEF Slice
    <3>2. f \in Slice(job.n, p) BY <3>1, <1>6, NextIs DEF RescaleFile
    <3> QED BY <3>1, <3>2
  <2>3. R \subseteq 1 .. Len(Original[f]) BY <2>2 DEF RowsKept
  <2>4. at' = [at EXCEPT ![p] = [source |-> f + 1, step |-> "open", rows |-> {}]]
        \/ at' = [at EXCEPT ![p] = [source |-> f, step |-> "swapped", rows |-> R]]
    BY <1>6 DEF RescaleFile, Pass
  <2> HIDE DEF f, R
  <2>5. ASSUME NEW q \in Parts
        PROVE  /\ at'[q].step \in {"open", "swapped"}
               /\ at'[q].step = "swapped" => /\ at'[q].source \in Slice(job.n, q)
                                             /\ at'[q].rows \subseteq 1 .. Len(Original[at'[q].source])
    <3>1. /\ at[q].step \in {"open", "swapped"}
          /\ at[q].step = "swapped" => /\ at[q].source \in Slice(job.n, q)
                                       /\ at[q].rows \subseteq 1 .. Len(Original[at[q].source])
      BY <2>1 DEF TasksShape
    <3>2. CASE q # p
      <4>1. at'[q] = at[q] BY <2>4, <3>2 DEF RepairShape
      <4> QED BY <3>1, <4>1
    <3>3. CASE q = p
      <4>1. at'[q] = [source |-> f + 1, step |-> "open", rows |-> {}]
            \/ at'[q] = [source |-> f, step |-> "swapped", rows |-> R]
        BY <2>4, <3>3 DEF RepairShape
      <4> QED BY <2>2, <2>3, <3>3, <4>1
    <3> QED BY <3>2, <3>3
  <2>6. job'.n = job.n /\ Sources = Sources BY <2>1
  <2> QED BY <2>1, <2>5 DEF TasksShape, Slice
<1>7. ASSUME NEW p \in Parts, ApplySource(p) PROVE TasksShape'
  <2>1. job.kind = "repair" /\ job.pc = "apply" /\ job' = job /\ tried' = tried
    BY <1>7 DEF ApplySource, Applying, Running
  <2>2. PICK new : at' = [at EXCEPT ![p] = new] /\ new.step \in {"open", "reported"}
    BY <1>7 DEF ApplySource, ApplyTo, Pass
  <2> QED BY <2>1, <2>2 DEF TasksShape, RepairShape
<1>8. ASSUME NEW p \in Parts, FailPart(p) PROVE TasksShape'
  BY <1>8 DEF FailPart, Applying, TasksShape, Running, RepairShape
<1>9. ASSUME NEW p \in Parts, RebuildShard(p) PROVE TasksShape'
  <2>1. job.kind = "rebuild" /\ job.pc = "files" /\ job' = job /\ tried' = tried
    BY <1>9 DEF RebuildShard, Running
  <2>2. PICK step \in {"open", "reported"} : at' = [at EXCEPT ![p].step = step]
    BY <1>9 DEF RebuildShard
  <2> QED BY <2>1, <2>2 DEF TasksShape, RepairShape
<1>10. ASSUME NEW s \in Shards, Session(s) PROVE TasksShape'
  BY <1>10 DEF Session, MarkDone, Retry, Turn, Running, TasksShape, Slice
<1>11. CASE FinalizePrepare
  BY <1>11, <1>2, <1>3 DEF FinalizePrepare, Running
<1>12. CASE Deal
  BY <1>12, <1>1, <1>3 DEF Deal, Running
<1>13. CASE BeginMerge
  BY <1>13, <1>2, <1>3 DEF BeginMerge, Mergeable, Running
<1>14. CASE BeginApply
  BY <1>14, <1>3 DEF BeginApply, Running
<1>15. ASSUME NEW p \in Parts, RescaledPart(p) \/ PreparePart(p) \/ IndexPart(p) \/ AppliedPart(p) \/ RebuiltPart(p)
       PROVE  TasksShape'
  BY <1>15, <1>1 DEF RescaledPart, PreparePart, IndexPart, AppliedPart, RebuiltPart
<1>16. CASE KillJob \/ EndBackfill \/ Unreadable \/ MergeFinalize \/ RebuildFinalize
  BY <1>16, <1>2 DEF KillJob, EndBackfill, Unreadable, MergeFinalize, RebuildFinalize
<1>17. CASE UNCHANGED repairVars
  BY <1>17, <1>1 DEF repairVars
<1> QED BY <1>4, <1>5, <1>6, <1>7, <1>8, <1>9, <1>10, <1>11, <1>12, <1>13, <1>14, <1>15, <1>16, <1>17
        DEF RepairNext, Work, Task

\* No job changes what the campaign selects.
LEMMA SelectStays == [RepairNext]_repairVars => select' = select
BY DEF RepairNext, Work, Task, KillJob, FailIndex, Submit, EndBackfill, FinalizePrepare, Deal,
       Session, MarkDone, Retry, Unreadable, BeginMerge, BeginApply, MergeFinalize, RebuildFinalize,
       RescaleFile, RescaledPart, PreparePart, IndexPart, ApplySource, AppliedPart, FailPart,
       RebuildShard, RebuiltPart, repairVars

\* What an index part would hold depends on the retries only.
LEMMA IndexedSame ==
  ASSUME select' = select, retries' = retries
  PROVE  \A n, p : IndexedRows(n, p)' = IndexedRows(n, p)
BY DEF IndexedRows, Pointers, Counts

\* A split that was killed at once leaves nothing to retry.
LEMMA NothingDealt ==
  ASSUME RepairShape, dealt < 1
  PROVE  FilledShards = {}
<1>1. dealt \in Int BY LenProperties DEF RepairShape
<1>2. 1 .. dealt = {} BY <1>1
<1>3. broken = {} BY <1>2 DEF RepairShape
<1> QED BY <1>2, <1>3 DEF FilledShards, Positions

\* The order of the phases, through kills and submissions.
LEMMA InOrderStays ==
  ASSUME RepairShape, InOrder, [RepairNext]_repairVars
  PROVE  InOrder'
<1> USE DEF stored, split, plan, solve, merge, rebuild, control
<1>0. job = NoJob \/ /\ job.kind \in {"backfill", "rebuild"} => job.pc = "files"
                     /\ job.kind = "repair" => job.pc \in {"prepare", "deal", "solve", "index", "apply"}
                     /\ job.kind \in {"backfill", "rebuild", "repair"}
  BY DEF RepairShape, JobShapes
<1>1. select' = select BY SelectStays
<1>2. 0 \in Parts BY TaskFacts
<1>3. CASE UNCHANGED <<job, prepared, candidates, split, retries, done, index>>
  <2>1. \A n, p : IndexedRows(n, p)' = IndexedRows(n, p) BY <1>3, <1>1, IndexedSame
  <2> QED BY <1>3, <2>1 DEF InOrder, Unprepared, Unretried, FilledShards, Positions
<1>4. CASE job' = NoJob /\ UNCHANGED <<prepared, candidates, split, retries, done, index>>
  <2>1. \A n, p : IndexedRows(n, p)' = IndexedRows(n, p) BY <1>4, <1>1, IndexedSame
  <2> QED BY <1>4, <2>1 DEF InOrder, Unprepared, Unretried, FilledShards, Positions, NoJob
<1>5. ASSUME NEW kind \in {"backfill", "repair", "rebuild"}, NEW n \in TaskCounts, Submit(kind, n)
      PROVE  InOrder'
  <2>1. \A m, p : IndexedRows(m, p)' = IndexedRows(m, p) BY <1>5, <1>1, IndexedSame DEF Submit
  <2>2. UNCHANGED <<prepared, candidates, split, retries, done, index>> BY <1>5 DEF Submit
  <2>3. kind = "backfill" => Unprepared BY <1>5 DEF Submit, Unprepared
  <2>4. kind = "repair" => dealt # 0 BY <1>5 DEF Submit
  <2>5. job'.kind = kind /\ job'.pc = FirstPhase(kind) BY <1>5 DEF Submit
  <2>6. dealt \in -1 .. Len(candidates) /\ Len(candidates) \in Nat BY LenProperties DEF RepairShape
  <2>7. candidates = <<>> => Len(candidates) = 0 OBVIOUS
  <2>8. FirstPhase(kind) = "prepare" => dealt = -1 /\ candidates = <<>> BY <2>4, <2>6, <2>7 DEF FirstPhase
  <2>9. FirstPhase(kind) \in {"deal", "solve"} => candidates # <<>> BY DEF FirstPhase
  <2>10. FirstPhase(kind) = "deal" => Unretried BY <2>6 DEF FirstPhase, InOrder
  <2>11. FirstPhase(kind) \in {"files", "prepare", "deal", "solve"} BY DEF FirstPhase
  <2> QED BY <2>1, <2>2, <2>3, <2>5, <2>8, <2>9, <2>10, <2>11
          DEF InOrder, Unprepared, Unretried, FilledShards, Positions
<1>6. ASSUME NEW p \in Parts, PreparePart(p) PROVE InOrder'
  <2>1. \A m, q : IndexedRows(m, q)' = IndexedRows(m, q) BY <1>6, <1>1, IndexedSame DEF PreparePart
  <2>2. UNCHANGED <<job, candidates, split, retries, done, index>> /\ job.kind = "repair" /\ job.pc = "prepare"
    BY <1>6 DEF PreparePart, Running
  <2>3. candidates = <<>> BY <2>2 DEF InOrder
  <2> QED BY <2>1, <2>2, <2>3 DEF InOrder, Unretried, FilledShards, Positions
<1>7. CASE FinalizePrepare /\ job'.pc = "deal" /\ job'.kind = "repair"
  <2>1. \A m, p : IndexedRows(m, p)' = IndexedRows(m, p) BY <1>7, <1>1, IndexedSame DEF FinalizePrepare
  <2>2. UNCHANGED <<prepared, split, retries, done, index>> /\ dealt = -1 /\ Unretried
    BY <1>7 DEF FinalizePrepare, Running, InOrder
  <2>3. ~Unprepared
    <3>1. job.n \in TaskCounts /\ 0 \in Tasks BY <1>7, TasksAreParts DEF FinalizePrepare, Running, NoJob
    <3> QED BY <1>7, <1>2, <3>1 DEF FinalizePrepare, Unprepared
  <2> QED BY <1>7, <2>1, <2>2, <2>3 DEF InOrder, Unprepared, Unretried, FilledShards, Positions
<1>8. CASE Deal
  <2>1. \A m, p : IndexedRows(m, p)' = IndexedRows(m, p) BY <1>8, <1>1, IndexedSame DEF Deal
  <2>2. UNCHANGED <<prepared, candidates, retries, done, index>> /\ Unretried /\ ~Unprepared
    BY <1>8 DEF Deal, Running, InOrder
  <2>3. job'.kind = "repair" /\ job'.pc \in {"deal", "solve"}
    BY <1>8, NextPhase DEF Deal, Goto, Running
  <2> QED BY <2>1, <2>2, <2>3 DEF InOrder, Unprepared, Unretried
<1>9. ASSUME NEW s \in Shards, Session(s) PROVE InOrder'
  <2>1. /\ UNCHANGED <<job, prepared, candidates, split, index>> /\ s \in FilledShards \ done
        /\ job.kind = "repair" /\ job.pc = "solve" /\ done \subseteq done'
    BY <1>9 DEF Session, MarkDone, Retry, Turn, Running
  <2>2. \A p \in Parts : index[p].n = 0 BY <2>1 DEF InOrder
  <2>3. ~(dealt < 1) BY <2>1, NothingDealt
  <2> QED BY <2>1, <2>2, <2>3 DEF InOrder, Unprepared, FilledShards, Positions
<1>10. CASE BeginMerge /\ job'.pc = "index" /\ job'.kind = "repair" /\ FilledShards # {}
  <2>1. \A m, p : IndexedRows(m, p)' = IndexedRows(m, p) BY <1>10, <1>1, IndexedSame DEF BeginMerge
  <2>2. UNCHANGED <<prepared, candidates, split, retries, done, index>> /\ FilledShards \subseteq done
        /\ ~Unprepared
    BY <1>10 DEF BeginMerge, Mergeable, Running, InOrder
  <2>3. ~(dealt < 1) /\ dealt \in Int BY <1>10, NothingDealt, LenProperties DEF RepairShape
  <2> QED BY <1>10, <2>1, <2>2, <2>3 DEF InOrder, Unprepared, FilledShards, Positions
<1>11. ASSUME NEW p \in Parts, IndexPart(p) PROVE InOrder'
  <2>1. \A m, q : IndexedRows(m, q)' = IndexedRows(m, q) BY <1>11, <1>1, IndexedSame DEF IndexPart
  <2>2. UNCHANGED <<job, prepared, candidates, split, retries, done>> /\ job.kind = "repair" /\ job.pc = "index"
    BY <1>11 DEF IndexPart, Running
  <2>3. p < job.n /\ job.n # 0
    BY <1>11, TasksAreParts DEF IndexPart, Tasks, Running, NoJob
  <2>4. \A q \in Parts : index'[q] = IF q = p THEN [n |-> job.n, rows |-> IndexedRows(job.n, p)] ELSE index[q]
    BY <1>11 DEF IndexPart, RepairShape
  <2>5. \A q \in Parts : IF index'[q].n = 0 THEN index'[q].rows = {}
                         ELSE q < index'[q].n /\ index'[q].rows = IndexedRows(index[q].n, q)'
    BY <2>1, <2>3, <2>4 DEF InOrder
  <2>6. /\ ~Unprepared /\ dealt >= 1 /\ FilledShards \subseteq done
    BY <2>2 DEF InOrder
  <2>7. dealt \in Int BY LenProperties DEF RepairShape
  <2> QED BY <2>2, <2>5, <2>6, <2>7 DEF InOrder, Unprepared, FilledShards, Positions
<1>12. CASE BeginApply
  <2>1. \A m, p : IndexedRows(m, p)' = IndexedRows(m, p) BY <1>12, <1>1, IndexedSame DEF BeginApply
  <2>2. UNCHANGED <<prepared, candidates, split, retries, done, index>> /\ job.pc = "index"
        /\ job'.pc = "apply" /\ job'.kind = "repair"
    BY <1>12 DEF BeginApply, Running, Goto, RepairShape, JobShapes
  <2> QED BY <2>1, <2>2 DEF InOrder, Unprepared, Unretried, FilledShards, Positions
<1>13. ASSUME NEW p \in Parts, \/ RescaleFile(p) \/ RescaledPart(p) \/ ApplySource(p) \/ AppliedPart(p)
                               \/ FailPart(p) \/ FailIndex(p) \/ RebuildShard(p) \/ RebuiltPart(p)
       PROVE  InOrder'
  BY <1>13, <1>3 DEF RescaleFile, RescaledPart, ApplySource, AppliedPart, FailPart, FailIndex,
                     RebuildShard, RebuiltPart
<1>14. CASE EndBackfill \/ Unreadable \/ MergeFinalize \/ RebuildFinalize
  BY <1>14, <1>4 DEF EndBackfill, Unreadable, MergeFinalize, RebuildFinalize, End
<1>15. CASE FinalizePrepare
  <2>1. CASE ~PartsFit(job.n) BY <1>15, <2>1, <1>4 DEF FinalizePrepare, End
  <2>2. CASE PartsFit(job.n)
    <3>1. job'.pc = "deal" /\ job'.kind = "repair"
      BY <1>15, <2>2, NextPhase DEF FinalizePrepare, Goto, Running
    <3> QED BY <1>15, <3>1, <1>7
  <2> QED BY <2>1, <2>2
<1>16. CASE BeginMerge
  <2>1. CASE FilledShards = {} BY <1>16, <2>1, <1>4 DEF BeginMerge, End
  <2>2. CASE FilledShards # {}
    <3>1. job'.pc = "index" /\ job'.kind = "repair"
      BY <1>16, <2>2, NextPhase DEF BeginMerge, Mergeable, Goto, Running
    <3> QED BY <1>16, <2>2, <3>1, <1>10
  <2> QED BY <2>1, <2>2
<1>17. CASE UNCHANGED repairVars
  BY <1>17, <1>3 DEF repairVars
<1>18. CASE KillJob
  <2>1. CASE ~Running("repair", "deal") BY <1>18, <2>1, <1>4 DEF KillJob, End
  <2>2. CASE Running("repair", "deal")
    <3>1. Unretried /\ ~Unprepared BY <2>2 DEF Running, InOrder
    <3>2. UNCHANGED <<prepared, candidates, dealt, retries, done, index>> /\ job' = NoJob
      BY <1>18 DEF KillJob, End
    <3>3. Unretried' /\ ~Unprepared' BY <3>1, <3>2 DEF Unretried, Unprepared
    <3>4. \A n, p : IndexedRows(n, p)' = IndexedRows(n, p) BY <3>2, <1>1, IndexedSame
    <3> QED BY <3>2, <3>3, <3>4 DEF InOrder, Unretried, NoJob
  <2> QED BY <2>1, <2>2
<1> QED BY <1>5, <1>6, <1>8, <1>9, <1>11, <1>12, <1>13, <1>14, <1>15, <1>16, <1>17, <1>18
        DEF RepairNext, Work, Task

-----------------------------------------------------------------------------
(* The index and the last retry of a row *)

\* The last of places that are bounded exists, and is the last.
LEMMA LastPlaceIs ==
  ASSUME NEW P \in SUBSET (Nat \X Nat \X Nat), P # {}, NEW b \in Nat, NEW c \in Nat, NEW l,
         \A x \in P : x[1] <= b /\ x[2] <= c /\ l[x[2]] \in Nat /\ x[3] <= l[x[2]]
  PROVE  LastPlace(P) \in P /\ \A d \in P : ~Precedes(LastPlace(P), d)
<1>0. \A x \in P : x[1] \in Nat /\ x[2] \in Nat /\ x[3] \in Nat OBVIOUS
<1>1. PICK x1 \in {x[1] : x \in P} : \A y \in {x[1] : x \in P} : y <= x1
  <2>1. {x[1] : x \in P} \in SUBSET (0 .. b) /\ {x[1] : x \in P} # {} BY <1>0
  <2> QED BY <2>1, Greatest
<1> DEFINE P1 == {x \in P : x[1] = x1}
<1>2. PICK x2 \in {x[2] : x \in P1} : \A y \in {x[2] : x \in P1} : y <= x2
  <2>1. {x[2] : x \in P1} \in SUBSET (0 .. c) /\ {x[2] : x \in P1} # {} BY <1>0
  <2> QED BY <2>1, Greatest
<1> DEFINE P2 == {x \in P1 : x[2] = x2}
<1>3. PICK x3 \in {x[3] : x \in P2} : \A y \in {x[3] : x \in P2} : y <= x3
  <2>1. l[x2] \in Nat OBVIOUS
  <2>2. {x[3] : x \in P2} \in SUBSET (0 .. l[x2]) /\ {x[3] : x \in P2} # {} BY <1>0, <2>1
  <2> HIDE DEF P2
  <2> QED BY <2>1, <2>2, Greatest
<1>4. PICK e \in P : e[1] = x1 /\ e[2] = x2 /\ e[3] = x3 BY <1>3
<1>5. ASSUME NEW d \in P, Precedes(e, d) PROVE FALSE
  <2>1. d[1] <= e[1] BY <1>1, <1>4
  <2>2. d[1] = e[1] => d[2] <= e[2] BY <1>2, <1>4
  <2>3. d[1] = e[1] /\ d[2] = e[2] => d[3] <= e[3] BY <1>3, <1>4
  <2> QED BY <1>0, <1>5, <2>1, <2>2, <2>3 DEF Precedes
<1> QED BY <1>5 DEF LastPlace

\* The entries of a whole index.
LEMMA EntryFacts ==
  ASSUME RepairShape, InOrder, IndexWhole, NEW e \in Entries
  PROVE  /\ index[0].n \in TaskCounts /\ index[0].n \in Nat \ {0} /\ 0 .. index[0].n - 1 \subseteq Parts
         /\ e = <<e[1], e[2]>> /\ e[1] \in Shards /\ e[1] \in Nat /\ e[2] \in Nat
         /\ e[2] \in 1 .. Len(retries[e[1]]) /\ Len(retries[e[1]]) \in Nat
         /\ retries[e[1]][e[2]] \in RetryRow /\ Counts(retries[e[1]][e[2]])
<1>1. index[0].n \in TaskCounts /\ index[0].n \in Nat \ {0} /\ 0 .. index[0].n - 1 \subseteq Parts
  BY TaskFacts DEF RepairShape, IndexWhole, NoneOr
<1>2. PICK p \in 0 .. index[0].n - 1 : e \in index[p].rows BY DEF Entries
<1>3. e \in IndexedRows(index[p].n, p) BY <1>1, <1>2 DEF InOrder
<1>4. e \in Pointers /\ Counts(retries[e[1]][e[2]]) BY <1>3 DEF IndexedRows
<1>5. Shards \subseteq Nat BY RepairBounds DEF Shards
<1>6. /\ e = <<e[1], e[2]>> /\ e[1] \in Shards /\ e[2] \in Nat /\ e[2] \in 1 .. Len(retries[e[1]])
      /\ retries[e[1]][e[2]] \in RetryRow
  BY <1>4, IndexedPointers
<1>7. Len(retries[e[1]]) \in Nat BY <1>6, LenProperties DEF RepairShape
<1> QED BY <1>1, <1>4, <1>5, <1>6, <1>7

\* The place of an entry is where the merge reads it last.
LEMMA PlaceFacts ==
  ASSUME RepairShape, InOrder, IndexWhole, NEW e \in Entries
  PROVE  /\ Place(e) \in Nat \X Nat \X Nat /\ Place(e)[1] \in 0 .. index[0].n - 1
         /\ Place(e)[2] = e[1] /\ Place(e)[3] = e[2]
         /\ e \in index[Place(e)[1]].rows
<1> DEFINE S == {p \in 0 .. index[0].n - 1 : e \in index[p].rows}
<1>1. /\ index[0].n \in Nat \ {0} /\ e[1] \in Nat /\ e[2] \in Nat BY EntryFacts
<1>2. S # {} BY DEF Entries
<1>3. index[0].n - 1 \in Nat /\ S \in SUBSET (0 .. index[0].n - 1) BY <1>1
<1>4. Max(S) \in S BY <1>2, <1>3, MaxIs
<1>5. Max(S) \in Nat /\ Max(S) \in 0 .. index[0].n - 1 /\ e \in index[Max(S)].rows BY <1>1, <1>4
<1>6. Place(e) = <<Max(S), e[1], e[2]>> BY DEF Place
<1> HIDE DEF S
<1> QED BY <1>1, <1>5, <1>6

\* The retry that is taken is one of the row, and no other is read after it.
LEMMA LatestIs ==
  ASSUME RepairShape, InOrder, IndexWhole, NEW key, RetriesWith(key) # {}
  PROVE  \E e \in RetriesWith(key) :
           /\ Latest(key) = retries[e[1]][e[2]].verdict /\ Counts(retries[e[1]][e[2]])
           /\ \A d \in RetriesWith(key) : ~Precedes(Place(e), Place(d))
<1> DEFINE P == {Place(e) : e \in RetriesWith(key)}
           l == [s \in Shards |-> Len(retries[s])]
<1>1. RetriesWith(key) \subseteq Entries BY DEF RetriesWith
<1>2. \A e \in RetriesWith(key) :
        /\ Place(e) \in Nat \X Nat \X Nat /\ Place(e)[1] <= index[0].n
        /\ Place(e)[2] <= K /\ l[Place(e)[2]] \in Nat /\ Place(e)[3] <= l[Place(e)[2]]
  <2> SUFFICES ASSUME NEW e \in RetriesWith(key)
               PROVE  /\ Place(e) \in Nat \X Nat \X Nat /\ Place(e)[1] <= index[0].n
                      /\ Place(e)[2] <= K /\ l[Place(e)[2]] \in Nat /\ Place(e)[3] <= l[Place(e)[2]]
    OBVIOUS
  <2>1. e \in Entries BY <1>1
  <2>2. /\ Place(e) \in Nat \X Nat \X Nat /\ Place(e)[1] \in 0 .. index[0].n - 1
        /\ Place(e)[2] = e[1] /\ Place(e)[3] = e[2]
    BY <2>1, PlaceFacts
  <2>3. /\ index[0].n \in Nat \ {0} /\ e[1] \in Shards /\ e[2] \in 1 .. Len(retries[e[1]])
        /\ Len(retries[e[1]]) \in Nat
    BY <2>1, EntryFacts
  <2>4. e[1] <= K BY <2>3, RepairBounds DEF Shards
  <2> QED BY <2>2, <2>3, <2>4
<1>3. P \in SUBSET (Nat \X Nat \X Nat) /\ P # {} BY <1>2
<1>4. \A x \in P : x[1] <= index[0].n /\ x[2] <= K /\ l[x[2]] \in Nat /\ x[3] <= l[x[2]] BY <1>2
<1>5. index[0].n \in Nat /\ K \in Nat BY <1>1, EntryFacts, RepairBounds
<1> HIDE DEF P
<1>6. LastPlace(P) \in P /\ \A d \in P : ~Precedes(LastPlace(P), d)
  BY <1>3, <1>4, <1>5, LastPlaceIs
<1>7. PICK e \in RetriesWith(key) : LastPlace(P) = Place(e) BY <1>6 DEF P
<1>8. e \in Entries BY <1>1
<1>9. Place(e)[2] = e[1] /\ Place(e)[3] = e[2] BY <1>8, PlaceFacts
<1>10. Latest(key) = retries[e[1]][e[2]].verdict BY <1>7, <1>9 DEF Latest, P
<1>11. \A d \in RetriesWith(key) : Place(d) \in P BY DEF P
<1> QED BY <1>6, <1>7, <1>8, <1>10, <1>11, EntryFacts

-----------------------------------------------------------------------------
(* A whole index is not changed any more *)

\* A part that is there stays, and no retry is added any more.
LEMMA IndexStays ==
  ASSUME RepairShape, InOrder, [RepairNext]_repairVars, NEW p \in Parts, index[p].n # 0
  PROVE  index'[p] = index[p] /\ retries' = retries
<1> USE DEF stored, split, plan, solve, merge, rebuild, control
<1>1. ASSUME NEW s \in Shards, Session(s) PROVE FALSE
  BY <1>1 DEF Session, Turn, InOrder
<1>2. retries' = retries
  BY <1>1 DEF RepairNext, Work, Task, KillJob, FailIndex, Submit, EndBackfill, FinalizePrepare, Deal,
       Unreadable, BeginMerge, BeginApply, MergeFinalize, RebuildFinalize,
       RescaleFile, RescaledPart, PreparePart, IndexPart, ApplySource, AppliedPart, FailPart,
       RebuildShard, RebuiltPart, repairVars
<1>3. ASSUME NEW q \in Parts, IndexPart(q) PROVE index'[p] = index[p]
  <2>1. q # p /\ index' = [index EXCEPT ![q] = [n |-> job.n, rows |-> IndexedRows(job.n, q)]]
    BY <1>3 DEF IndexPart
  <2> QED BY <2>1 DEF RepairShape
<1>4. index' = index \/ \E q \in Parts : IndexPart(q)
  BY <1>1 DEF RepairNext, Work, Task, KillJob, FailIndex, Submit, EndBackfill, FinalizePrepare, Deal,
       Unreadable, BeginMerge, BeginApply, MergeFinalize, RebuildFinalize,
       RescaleFile, RescaledPart, PreparePart, ApplySource, AppliedPart, FailPart,
       RebuildShard, RebuiltPart, repairVars
<1> QED BY <1>2, <1>3, <1>4

\* A whole index stays one, and the retries it gives each row stay.
LEMMA WholeStays ==
  ASSUME RepairShape, InOrder, [RepairNext]_repairVars, IndexWhole
  PROVE  /\ IndexWhole' /\ Entries' = Entries /\ retries' = retries /\ select' = select
         /\ index'[0] = index[0]
         /\ \A p \in 0 .. index[0].n - 1 : p \in Parts /\ index'[p] = index[p]
<1>1. /\ index[0].n \in TaskCounts /\ index[0].n \in Nat \ {0} /\ 0 .. index[0].n - 1 \subseteq Parts
      /\ 0 \in 0 .. index[0].n - 1
  BY TaskFacts DEF RepairShape, IndexWhole, NoneOr
<1>2. \A p \in 0 .. index[0].n - 1 : index'[p] = index[p] /\ retries' = retries
  BY <1>1, IndexStays DEF IndexWhole
<1>3. index'[0] = index[0] /\ retries' = retries BY <1>1, <1>2
<1>4. IndexWhole' BY <1>1, <1>2, <1>3 DEF IndexWhole
<1>5. Entries' = Entries BY <1>2, <1>3 DEF Entries
<1> QED BY <1>1, <1>2, <1>3, <1>4, <1>5, SelectStays

LEMMA LatestStays ==
  ASSUME RepairShape, InOrder, [RepairNext]_repairVars, IndexWhole
  PROVE  /\ \A f : RetriesOf(f)' = RetriesOf(f)
         /\ \A key : RetriesWith(key)' = RetriesWith(key) /\ Latest(key)' = Latest(key)
<1>1. /\ Entries' = Entries /\ retries' = retries /\ index'[0] = index[0]
      /\ \A p \in 0 .. index[0].n - 1 : index'[p] = index[p]
  BY WholeStays
<1>2. \A e : KeyAt(e)' = KeyAt(e) BY <1>1 DEF KeyAt
<1>3. ASSUME NEW f PROVE RetriesOf(f)' = RetriesOf(f) BY <1>1, <1>2 DEF RetriesOf
<1>4. ASSUME NEW key PROVE RetriesWith(key)' = RetriesWith(key) BY <1>1, <1>2 DEF RetriesWith
<1>5. ASSUME NEW e PROVE Place(e)' = Place(e)
  <2>1. {p \in 0 .. index'[0].n - 1 : e \in index'[p].rows} = {p \in 0 .. index[0].n - 1 : e \in index[p].rows}
    BY <1>1
  <2> QED BY <2>1 DEF Place
<1>6. ASSUME NEW key PROVE Latest(key)' = Latest(key)
  <2>1. {Place(e) : e \in RetriesWith(key)}' = {Place(e) : e \in RetriesWith(key)}
    BY <1>4, <1>5
  <2> QED BY <1>1, <2>1 DEF Latest
<1> QED BY <1>3, <1>4, <1>6

-----------------------------------------------------------------------------
(* Swapping the samples of a source *)

\* The rows to replace depend on the rows of the source only.
LEMMA ReplacedStays ==
  ASSUME RepairShape, InOrder, [RepairNext]_repairVars, IndexWhole, NEW f, samples'[f] = samples[f]
  PROVE  Replaced(f)' = Replaced(f)
<1>1. RetriesOf(f)' = RetriesOf(f) BY LatestStays
<1>2. select' = select BY SelectStays
<1>3. ASSUME NEW i PROVE Selected(samples[f][i])' = Selected(samples[f][i]) /\ Key(f, samples[f][i])' = Key(f, samples[f][i])
  BY <1>2 DEF Selected, Valid, Key
<1> QED BY <1>1, <1>3 DEF Replaced

\* The backfill runs before anything is prepared.
LEMMA Backfilling ==
  ASSUME RepairShape, InOrder, job.kind = "backfill"
  PROVE  candidates = <<>> /\ Unindexed /\ ~IndexWhole /\ job.pc = "files"
<1>1. Unprepared /\ candidates = <<>> BY DEF InOrder
<1>2. dealt \in Int /\ dealt < 1 BY <1>1 DEF RepairShape
<1>3. Unindexed BY <1>2 DEF InOrder, Unretried, Unindexed
<1>4. 0 \in Parts BY TaskFacts
<1>5. job.pc = "files" BY DEF RepairShape, JobShapes, NoJob
<1> QED BY <1>1, <1>3, <1>4, <1>5 DEF Unindexed, IndexWhole

\* A task that has reported a source swaps the samples of that one.
LEMMA SwapIs ==
  ASSUME RepairShape, Swapping, NEW p \in Parts, ApplySource(p), at[p].step = "reported"
  PROVE  LET f == at[p].source
         IN /\ f \in Sources /\ f \in Nat /\ f \in Bucket(p) /\ f % job.n = p
            /\ Next1(p, Bucket(p)) = f /\ IndexWhole /\ Replaced(f) # {} /\ ~OldCode(f) /\ Foretold(f)
            /\ samples' = [samples EXCEPT ![f] = MergedRows(f)] /\ reports' = reports
            /\ job.kind = "repair" /\ job.pc = "apply" /\ Pass(p, f)
<1> DEFINE f == at[p].source
<1>1. job.kind = "repair" /\ job.pc = "apply" /\ p \in Tasks /\ Ahead(p, Bucket(p)) # {}
  BY DEF ApplySource, Applying, Running
<1>2. IndexWhole /\ f \in Bucket(p) /\ Replaced(f) # {} /\ ~OldCode(f) /\ Foretold(f)
  BY <1>1 DEF Swapping, Bucket
<1>3. f \in Sources /\ f \in Nat /\ f % job.n = p BY <1>2, SourceFacts DEF Bucket
<1>4. Next1(p, Bucket(p)) \in Nat /\ f <= Next1(p, Bucket(p)) /\ Next1(p, Bucket(p)) <= f
  BY <1>1, <1>2, <1>3, ApplyingSource
<1>5. Next1(p, Bucket(p)) = f BY <1>3, <1>4
<1>6. samples' = [samples EXCEPT ![f] = MergedRows(f)] /\ reports' = reports /\ Pass(p, f)
  BY <1>5 DEF ApplySource, ApplyTo
<1> QED BY <1>1, <1>2, <1>3, <1>5, <1>6

\* The rows of a source change in the backfill and in its own swap only.
LEMMA SamplesSteps ==
  ASSUME RowsKept, RepairShape, Swapping, TasksShape, [RepairNext]_repairVars, NEW f \in Sources
  PROVE  \/ samples'[f] = samples[f]
         \/ job.kind = "backfill"
         \/ \E p \in Parts : ApplySource(p) /\ at[p].step = "reported" /\ f = at[p].source
<1>1. ASSUME NEW p \in Parts, ApplySource(p), at[p].step = "reported", f # at[p].source
      PROVE  samples'[f] = samples[f]
  <2>1. samples' = [samples EXCEPT ![at[p].source] = MergedRows(at[p].source)]
    BY <1>1, SwapIs
  <2> QED BY <1>1, <2>1 DEF RowsKept
<1>2. ASSUME NEW p \in Parts, ApplySource(p), at[p].step # "reported" PROVE samples' = samples
  BY <1>2 DEF ApplySource, ApplyTo, stored
<1>3. ASSUME NEW p \in Parts, RebuildShard(p) PROVE samples' = samples
  BY <1>3 DEF RebuildShard
<1>4. ASSUME NEW p \in Parts, RescaleFile(p) PROVE job.kind = "backfill"
  BY <1>4 DEF RescaleFile, Running
<1> QED BY <1>1, <1>2, <1>3, <1>4, WhoWrites

\* A source without rows to replace is not written again.
LEMMA SettledStays ==
  ASSUME RowsKept, RepairShape, Swapping, TasksShape, InOrder, [RepairNext]_repairVars,
         NEW f \in Sources, Settled(f)
  PROVE  samples'[f] = samples[f] /\ Settled(f)'
<1>1. IndexWhole /\ Replaced(f) = {} BY DEF Settled
<1>2. job.kind # "backfill" BY <1>1, Backfilling
<1>3. samples'[f] = samples[f] BY <1>1, <1>2, SamplesSteps, SwapIs
<1>4. Replaced(f)' = {} BY <1>1, <1>3, ReplacedStays
<1>5. IndexWhole' BY <1>1, WholeStays
<1> QED BY <1>3, <1>4, <1>5 DEF Settled

\* Once swapped, no row of the source is to be replaced any more.
LEMMA ReplacedIs ==
  ASSUME RowsKept, RepairShape, InOrder, IndexWhole, NEW f \in Sources, ~OldCode(f), NEW i \in Replaced(f)
  PROVE  LET old == samples[f][i] new == Replacement(old, Latest(Key(f, old)))
         IN /\ i \in 1 .. Len(samples[f]) /\ old \in Row /\ ~Selected(new)
            /\ new.ok = Converged(Latest(Key(f, old)))
<1> DEFINE old == samples[f][i]
           key == Key(f, old)
           new == Replacement(old, Latest(key))
<1>1. i \in 1 .. Len(samples[f]) /\ Selected(old) /\ key \in RetriesOf(f) BY DEF Replaced
<1>2. old \in Row BY <1>1, KeysOfRows
<1>3. new.ok = Converged(Latest(key)) /\ new.marked = (Latest(key) # "unmarked")
  BY <1>2, ReplacementKeeps
<1>4. ~Selected(new)
  <2>1. CASE select = "failed"
    <3>1. RetriesWith(key) # {} BY <1>1 DEF RetriesOf, RetriesWith
    <3>2. PICK e \in RetriesWith(key) : Latest(key) = retries[e[1]][e[2]].verdict /\ Counts(retries[e[1]][e[2]])
      BY <3>1, LatestIs
    <3>3. Converged(Latest(key)) BY <2>1, <3>2 DEF Counts
    <3> HIDE DEF new, key
    <3> QED BY <1>3, <2>1, <3>3 DEF Selected
  <2>2. CASE select = "legacy-quadratic"
    <3>1. Latest(key) # "unmarked" BY <2>2 DEF OldCode
    <3> HIDE DEF new, key
    <3> QED BY <1>3, <2>2, <3>1 DEF Selected
  <2> QED BY <2>1, <2>2 DEF RepairShape
<1> QED BY <1>1, <1>2, <1>3, <1>4

\* A swap leaves no row to replace.
LEMMA SwapSettles ==
  ASSUME RowsKept, RepairShape, ScaledOnce, InOrder, Swapping, [RepairNext]_repairVars,
         NEW p \in Parts, ApplySource(p), at[p].step = "reported", NEW f, f = at[p].source
  PROVE  samples'[f] = MergedRows(f) /\ Settled(f)'
<1>1. /\ f \in Sources /\ IndexWhole /\ ~OldCode(f)
      /\ samples' = [samples EXCEPT ![f] = MergedRows(f)]
  BY SwapIs
<1>2. samples'[f] = MergedRows(f) BY <1>1 DEF RowsKept
<1>3. IndexWhole' /\ select' = select /\ RetriesOf(f)' = RetriesOf(f) BY <1>1, WholeStays, LatestStays
<1>4. ASSUME NEW i \in 1 .. Len(samples'[f]), Selected(samples[f][i])', Key(f, samples[f][i])' \in RetriesOf(f)
      PROVE  FALSE
  <2>1. i \in 1 .. Len(samples[f]) BY <1>1, <1>2, MergedRowsKeep
  <2>2. CASE i \in Replaced(f)
    <3>1. samples'[f][i] = Replacement(samples[f][i], Latest(Key(f, samples[f][i])))
      BY <1>1, <1>2, <2>1, <2>2, MergedRowsKeep
    <3>2. ~Selected(samples'[f][i]) BY <1>1, <2>2, <3>1, ReplacedIs
    <3> QED BY <1>3, <1>4, <3>2 DEF Selected
  <2>3. CASE i \notin Replaced(f)
    <3>1. samples'[f][i] = samples[f][i] BY <1>1, <1>2, <2>1, <2>3, MergedRowsKeep
    <3>2. Selected(samples[f][i]) BY <1>3, <1>4, <3>1 DEF Selected, Valid
    <3>3. Key(f, samples[f][i]) \in RetriesOf(f) BY <1>4, <3>1 DEF Key
    <3> QED BY <2>1, <2>3, <3>2, <3>3 DEF Replaced
  <2> QED BY <2>2, <2>3
<1>5. Replaced(f)' = {} BY <1>3, <1>4 DEF Replaced
<1> QED BY <1>2, <1>3, <1>5 DEF Settled

\* No row of a source that waits for its repair is repaired, nor any during the backfill.
LEMMA NoneFixed ==
  ASSUME RepairShape, InOrder, FixedRight, NEW f \in Sources, NEW i \in 1 .. Len(samples[f]),
         \/ job.kind = "backfill" \/ Replaced(f) # {}
  PROVE  ~Fixed(samples[f][i])
BY Backfilling DEF FixedRight, Settled

\* The backfill changes no provenance.
LEMMA RescaleRows ==
  ASSUME RowsKept, ScaledOnce, [RepairNext]_repairVars, job.kind = "backfill", NEW f \in Sources
  PROVE  /\ Len(samples'[f]) = Len(samples[f])
         /\ \A i \in 1 .. Len(samples[f]) : samples'[f][i].before = samples[f][i].before
<1>1. CASE samples' = samples BY <1>1
<1>2. ASSUME NEW p \in Parts, RescaleFile(p), samples' # samples
      PROVE  /\ Len(samples'[f]) = Len(samples[f])
             /\ \A i \in 1 .. Len(samples[f]) : samples'[f][i].before = samples[f][i].before
  <2> DEFINE g == Next1(p, Slice(job.n, p))
  <2>1. g \in Sources BY <1>2, RescaleSource
  <2>2. samples' = [samples EXCEPT ![g] = NewRows(g)] BY <1>2 DEF RescaleFile, stored
  <2> HIDE DEF g
  <2>3. CASE f = g
    <3>1. samples'[f] = NewRows(f) BY <2>2, <2>3 DEF RowsKept
    <3> QED BY <3>1, NewRowsKeep
  <2>4. CASE f # g
    BY <2>2, <2>4 DEF RowsKept
  <2> QED BY <2>3, <2>4
<1>3. ASSUME NEW p \in Parts, ApplySource(p) \/ RebuildShard(p) PROVE FALSE
  BY <1>3 DEF ApplySource, Applying, RebuildShard, Running
<1> QED BY <1>1, <1>2, <1>3, WhoWrites

\* A repaired row stays in a settled source, with the outcome of its last retry.
LEMMA FixedRightStays ==
  ASSUME Shapes, FixedRight, Swapping, ScaledOnce, [RepairNext]_repairVars
  PROVE  FixedRight'
<1> SUFFICES ASSUME NEW f \in Sources, NEW i \in 1 .. Len(samples'[f]), Fixed(samples[f][i])'
             PROVE  /\ Settled(f)' /\ Key(f, samples[f][i])' \in RetriesOf(f)'
                    /\ samples'[f][i].ok = Converged(Latest(Key(f, samples[f][i]))')
  BY DEF FixedRight, Converged
<1>0. RowsKept /\ ReportsKept /\ RepairShape /\ TasksShape /\ InOrder BY DEF Shapes
<1>1. CASE samples'[f] = samples[f]
  <2>1. /\ Settled(f) /\ Key(f, samples[f][i]) \in RetriesOf(f)
        /\ samples[f][i].ok = Converged(Latest(Key(f, samples[f][i])))
    BY <1>1 DEF FixedRight, Fixed
  <2>2. Settled(f)' /\ IndexWhole BY <1>0, <2>1, SettledStays DEF Settled
  <2>3. Key(f, samples[f][i])' = Key(f, samples[f][i]) BY <1>1 DEF Key
  <2> DEFINE key == Key(f, samples[f][i])
  <2>4. RetriesOf(f)' = RetriesOf(f) BY <1>0, <2>2, LatestStays
  <2>5. Latest(Key(f, samples[f][i]))' = Latest(Key(f, samples[f][i]))
    <3>1. \A k : Latest(k)' = Latest(k) BY <1>0, <2>2, LatestStays
    <3> QED BY <2>3, <3>1
  <2> QED BY <1>1, <2>1, <2>2, <2>3, <2>4, <2>5
<1>2. CASE job.kind = "backfill"
  <2>1. i \in 1 .. Len(samples[f]) /\ Fixed(samples[f][i])
    BY <1>0, <1>2, RescaleRows DEF Fixed
  <2> QED BY <1>0, <1>2, <2>1, NoneFixed
<1>3. ASSUME NEW p \in Parts, ApplySource(p), at[p].step = "reported", f = at[p].source
      PROVE  /\ Settled(f)' /\ Key(f, samples[f][i])' \in RetriesOf(f)'
             /\ samples'[f][i].ok = Converged(Latest(Key(f, samples[f][i]))')
  <2>1. samples'[f] = MergedRows(f) /\ Settled(f)' BY <1>0, <1>3, SwapSettles
  <2>2. IndexWhole /\ ~OldCode(f) /\ Replaced(f) # {} BY <1>0, <1>3, SwapIs
  <2>3. i \in 1 .. Len(samples[f]) BY <1>0, <2>1, MergedRowsKeep
  <2>4. i \in Replaced(f)
    <3>1. ~Fixed(samples[f][i]) BY <1>0, <2>2, <2>3, NoneFixed
    <3>2. i \notin Replaced(f) => samples'[f][i] = samples[f][i] BY <1>0, <2>1, <2>3, MergedRowsKeep
    <3> QED BY <3>1, <3>2 DEF Fixed
  <2>5. samples'[f][i] = Replacement(samples[f][i], Latest(Key(f, samples[f][i])))
    BY <1>0, <2>1, <2>3, <2>4, MergedRowsKeep
  <2>6. samples'[f][i].ok = Converged(Latest(Key(f, samples[f][i])))
    BY <1>0, <2>2, <2>4, <2>5, ReplacedIs
  <2>7. Key(f, samples[f][i])' = Key(f, samples[f][i])
    BY <1>0, <2>1, <2>3, MergedRowsKeep DEF Key
  <2>8. Latest(Key(f, samples[f][i]))' = Latest(Key(f, samples[f][i]))
    <3>1. \A k : Latest(k)' = Latest(k) BY <1>0, <2>2, LatestStays
    <3> QED BY <2>7, <3>1
  <2>9. RetriesOf(f)' = RetriesOf(f) BY <1>0, <2>2, LatestStays
  <2>10. Key(f, samples[f][i]) \in RetriesOf(f) BY <2>4 DEF Replaced
  <2> QED BY <2>1, <2>6, <2>7, <2>8, <2>9, <2>10
<1> QED BY <1>0, <1>1, <1>2, <1>3, SamplesSteps

-----------------------------------------------------------------------------
(* What is merged *)

\* A task passes a source when there is nothing to replace, or when it swapped it.
LEMMA NothingToMerge ==
  ASSUME IndexWhole, NEW f \in Sources, NEW p, f % job.n = p, f \notin Bucket(p)
  PROVE  Settled(f)
<1>1. RetriesOf(f) = {} BY DEF Bucket
<1> QED BY <1>1 DEF Settled, Replaced

\* A task that passes a source leaves it and those before it settled.
LEMMA PassSettles ==
  ASSUME Shapes, Swapping, ScaledOnce, MergeKept, [RepairNext]_repairVars,
         NEW p \in Parts, ApplySource(p), NEW f \in Sources, f % job.n = p, f < at'[p].source
  PROVE  Settled(f)'
<1>0. RowsKept /\ RepairShape /\ TasksShape /\ InOrder BY DEF Shapes
<1> DEFINE g == Next1(p, Bucket(p))
<1>1. /\ job.kind = "repair" /\ job.pc = "apply" /\ p \in Tasks /\ IndexWhole /\ Ahead(p, Bucket(p)) # {}
  BY DEF ApplySource, Applying, Running
<1>2. /\ g \in Nat /\ at[p].source <= g /\ \A h \in Bucket(p) : at[p].source <= h => g <= h
  BY <1>1, ApplyingSource
<1>3. at[p].source \in Nat /\ f \in Nat BY <1>0, SourceFacts DEF RepairShape
<1>4. at'[p].source \in {g, g + 1}
  BY <1>0 DEF ApplySource, ApplyTo, Pass, RepairShape
<1>5. CASE f < at[p].source
  BY <1>0, <1>1, <1>5, SettledStays DEF MergeKept
<1>6. CASE f >= at[p].source /\ f \notin Bucket(p)
  BY <1>0, <1>1, <1>6, NothingToMerge, SettledStays
<1>7. CASE f >= at[p].source /\ f \in Bucket(p)
  <2>1. f = g /\ at'[p].source = g + 1 BY <1>2, <1>3, <1>4, <1>7
  <2>2. CASE at[p].step = "reported"
    BY <1>0, <2>1, <2>2, SwapIs, SwapSettles
  <2>3. CASE at[p].step # "reported"
    <3>1. Replaced(f) = {}
      <4>1. at' = [at EXCEPT ![p] = [source |-> g, step |-> "reported", rows |-> {}]] => at'[p].source = g
        BY <1>0 DEF RepairShape
      <4> QED BY <1>2, <2>1, <2>3, <4>1 DEF ApplySource, ApplyTo
    <3> QED BY <1>0, <1>1, <3>1, SettledStays DEF Settled
  <2> QED BY <2>2, <2>3
<1> QED BY <1>3, <1>5, <1>6, <1>7

\* What was passed, applied or declared merged stays settled.
LEMMA MergeKeptStays ==
  ASSUME Shapes, Swapping, ScaledOnce, MergeKept, [RepairNext]_repairVars
  PROVE  MergeKept'
<1> USE DEF stored, split, plan, solve, merge, rebuild, control
<1>0. RowsKept /\ RepairShape /\ TasksShape /\ InOrder BY DEF Shapes
<1>1. \A f \in Sources : Settled(f) => Settled(f)' BY <1>0, SettledStays
<1>2. IndexWhole => IndexWhole' BY <1>0, WholeStays
<1>3. job'.pc = "apply" => \A p \in Tasks' : \A f \in Sources :
        f < at'[p].source /\ f % job'.n = p => Settled(f)'
  <2> SUFFICES ASSUME job'.pc = "apply", NEW p \in Tasks', NEW f \in Sources,
                      f < at'[p].source, f % job'.n = p
               PROVE  Settled(f)'
    OBVIOUS
  <2>1. CASE job' = job /\ at' = at
    <3>1. Tasks' = Tasks BY <2>1 DEF Tasks
    <3> QED BY <2>1, <3>1, <1>1 DEF MergeKept
  <2>2. CASE at' = Fresh
    <3>1. p \in Nat BY DEF Tasks
    <3>2. job' \in JobShapes BY <1>0, RepairShapeStays DEF RepairShape
    <3>3. p \in Parts
      <4>1. job'.n \in TaskCounts BY <3>2 DEF JobShapes, NoJob
      <4> QED BY <4>1, TaskFacts DEF Tasks
    <3>4. at'[p].source = 0 BY <2>2, <3>3 DEF Fresh, TaskStart
    <3> QED BY <3>4, SourceFacts
  <2>3. ASSUME NEW q \in Parts, ApplySource(q) PROVE Settled(f)'
    <3>1. job' = job /\ Tasks' = Tasks BY <2>3 DEF ApplySource, Tasks
    <3>2. CASE q = p BY <1>0, <2>3, <3>1, <3>2, PassSettles
    <3>3. CASE q # p
      <4>1. at'[p] = at[p]
        <5>1. PICK new : at' = [at EXCEPT ![q] = new] BY <2>3 DEF ApplySource, ApplyTo, Pass
        <5>2. job # NoJob BY <2>3 DEF ApplySource, Applying, Running, NoJob
        <5>3. p \in Parts BY <1>0, <3>1, <5>2, TasksAreParts
        <5> QED BY <1>0, <3>3, <5>1, <5>3 DEF RepairShape
      <4> QED BY <3>1, <4>1, <1>1 DEF MergeKept
    <3> QED BY <3>2, <3>3
  <2>4. ASSUME NEW q \in Parts, FailPart(q) PROVE Settled(f)'
    <3>1. job' = job /\ Tasks' = Tasks BY <2>4 DEF FailPart, Tasks
    <3>2. p \in Parts
      <4>1. job # NoJob BY <2>4 DEF FailPart, Applying, Running, NoJob
      <4> QED BY <1>0, <3>1, <4>1, TasksAreParts
    <3>3. at'[p].source = at[p].source BY <1>0, <2>4, <3>2 DEF FailPart, RepairShape
    <3> QED BY <3>1, <3>3, <1>1 DEF MergeKept
  <2>5. CASE BeginApply BY <2>2, <2>5 DEF BeginApply, Goto, Fresh
  <2>6. ASSUME NEW q \in Parts, \/ RescaleFile(q) \/ RebuildShard(q) \/ FailIndex(q)
        PROVE  job'.pc # "apply"
    BY <2>6, <1>0 DEF RescaleFile, RebuildShard, FailIndex, Running
  <2>7. ASSUME NEW q \in Parts, \/ RescaledPart(q) \/ PreparePart(q) \/ IndexPart(q) \/ AppliedPart(q)
                                \/ RebuiltPart(q)
        PROVE  job' = job /\ at' = at
    BY <2>7 DEF RescaledPart, PreparePart, IndexPart, AppliedPart, RebuiltPart
  <2>8. ASSUME NEW s \in Shards, Session(s) PROVE job' = job /\ at' = at
    BY <2>8 DEF Session, MarkDone, Retry
  <2>9. CASE EndBackfill \/ FinalizePrepare \/ Deal \/ BeginMerge \/ MergeFinalize \/ RebuildFinalize
             \/ KillJob \/ Unreadable
    BY <2>1, <2>2, <2>9 DEF EndBackfill, FinalizePrepare, Deal, BeginMerge, MergeFinalize, RebuildFinalize,
       KillJob, Unreadable, End, Goto, Fresh
  <2>10. ASSUME NEW kind \in {"backfill", "repair", "rebuild"}, NEW n \in TaskCounts, Submit(kind, n)
         PROVE  job'.pc # "apply"
    BY <2>10 DEF Submit, FirstPhase
  <2> QED BY <2>1, <2>3, <2>4, <2>5, <2>6, <2>7, <2>8, <2>9, <2>10 DEF RepairNext, Work, Task, repairVars
<1>4. \A p \in Parts : applied'[p] # 0 => IndexWhole' /\ \A f \in Sources : f % applied'[p] = p => Settled(f)'
  <2> SUFFICES ASSUME NEW p \in Parts, applied'[p] # 0
               PROVE  IndexWhole' /\ \A f \in Sources : f % applied'[p] = p => Settled(f)'
    OBVIOUS
  <2>1. CASE applied'[p] = applied[p] BY <2>1, <1>1, <1>2 DEF MergeKept
  <2>2. CASE AppliedPart(p)
    <3>1. /\ job.kind = "repair" /\ job.pc = "apply" /\ p \in Tasks /\ IndexWhole
          /\ Ahead(p, Bucket(p)) = {} /\ applied'[p] = job.n
      BY <1>0, <2>2 DEF AppliedPart, Applying, Running, RepairShape
    <3>2. ASSUME NEW f \in Sources, f % job.n = p PROVE Settled(f)
      <4>1. CASE f \in Bucket(p)
        <5>1. f < at[p].source
          BY <1>0, <3>1, <4>1, SourceFacts DEF Ahead, RepairShape
        <5> QED BY <3>1, <3>2, <5>1 DEF MergeKept
      <4>2. CASE f \notin Bucket(p) BY <3>1, <3>2, <4>2, NothingToMerge
      <4> QED BY <4>1, <4>2
    <3> QED BY <3>1, <3>2, <1>1, <1>2
  <2>3. ASSUME NEW q \in Parts, AppliedPart(q), q # p PROVE applied'[p] = applied[p]
    BY <1>0, <2>3 DEF AppliedPart, RepairShape
  <2>4. applied' = applied \/ \E q \in Parts : AppliedPart(q)
    BY DEF RepairNext, Work, Task, KillJob, FailIndex, Submit, EndBackfill, FinalizePrepare, Deal,
       Session, MarkDone, Retry, Unreadable, BeginMerge, BeginApply, MergeFinalize, RebuildFinalize,
       RescaleFile, RescaledPart, PreparePart, IndexPart, ApplySource, FailPart,
       RebuildShard, RebuiltPart, repairVars
  <2> QED BY <2>1, <2>2, <2>3, <2>4
<1>5. merged' => IndexWhole' /\ \A f \in Sources : Settled(f)'
  <2>1. CASE merged BY <2>1, <1>1, <1>2 DEF MergeKept
  <2>2. CASE MergeFinalize /\ \A p \in Tasks : applied[p] = job.n
    <3>1. job # NoJob BY <2>2 DEF MergeFinalize, Running, NoJob
    <3>2. job.n \in Nat \ {0} /\ Tasks \subseteq Parts /\ 0 \in Tasks BY <1>0, <3>1, TasksAreParts
    <3>3. IndexWhole BY <2>2, <3>2 DEF MergeKept
    <3>4. ASSUME NEW f \in Sources PROVE Settled(f)
      <4>1. f % job.n \in Tasks BY <3>2, SourceFacts DEF Tasks
      <4> QED BY <2>2, <3>2, <4>1 DEF MergeKept
    <3> QED BY <3>3, <3>4, <1>1, <1>2
  <2>3. merged' = merged \/ MergeFinalize
    BY DEF RepairNext, Work, Task, KillJob, FailIndex, Submit, EndBackfill, FinalizePrepare, Deal,
       Session, MarkDone, Retry, Unreadable, BeginMerge, BeginApply, RebuildFinalize,
       RescaleFile, RescaledPart, PreparePart, IndexPart, ApplySource, AppliedPart, FailPart,
       RebuildShard, RebuiltPart, repairVars
  <2> QED BY <2>1, <2>2, <2>3 DEF MergeFinalize
<1> QED BY <1>3, <1>4, <1>5 DEF MergeKept

-----------------------------------------------------------------------------
(* Between report and samples *)

\* What a source will be swapped for is the same until it is.
LEMMA MergedRowsStay ==
  ASSUME Shapes, [RepairNext]_repairVars, NEW f \in Sources, IndexWhole, samples'[f] = samples[f]
  PROVE  /\ Replaced(f)' = Replaced(f) /\ MergedRows(f)' = MergedRows(f)
         /\ OldCode(f)' <=> OldCode(f)
<1>1. Replaced(f)' = Replaced(f) /\ (\A key : Latest(key)' = Latest(key)) /\ select' = select
  BY ReplacedStays, LatestStays, SelectStays DEF Shapes
<1>2. \A i : Key(f, samples[f][i])' = Key(f, samples[f][i]) BY DEF Key
<1>3. ASSUME NEW i PROVE Latest(Key(f, samples[f][i]))' = Latest(Key(f, samples[f][i]))
  BY <1>1, <1>2
<1>4. MergedRows(f)' = MergedRows(f)
  <2>1. \A i : Replacement(samples[f][i], Latest(Key(f, samples[f][i])))'
               = Replacement(samples[f][i], Latest(Key(f, samples[f][i])))
    BY <1>3 DEF Replacement, Converged
  <2> QED BY <1>1, <2>1 DEF MergedRows
<1>5. OldCode(f)' <=> OldCode(f) BY <1>1, <1>3 DEF OldCode
<1> QED BY <1>1, <1>4, <1>5

\* A report says what the rows will be until they are swapped.
LEMMA SwappingStays ==
  ASSUME Shapes, Swapping, ScaledOnce, [RepairNext]_repairVars
  PROVE  Swapping'
<1> USE DEF stored, split, plan, solve, merge, rebuild, control
<1>0. RowsKept /\ ReportsKept /\ RepairShape /\ TasksShape /\ InOrder BY DEF Shapes
<1> DEFINE Good(p) == /\ IndexWhole /\ at[p].source \in Bucket(p)
                      /\ \A f \in Sources : f = at[p].source => Replaced(f) # {} /\ ~OldCode(f) /\ Foretold(f)
<1> SUFFICES ASSUME job'.pc = "apply", NEW p \in Tasks', at'[p].step = "reported" PROVE Good(p)'
  BY DEF Swapping
<1>1. p \in Parts
  <2>1. job' \in JobShapes BY <1>0, RepairShapeStays DEF RepairShape
  <2>2. job'.n \in TaskCounts BY <2>1 DEF JobShapes, NoJob
  <2> QED BY <2>2, TaskFacts DEF Tasks
<1>2. ASSUME job' = job, at'[p] = at[p],
             \A f \in Sources : f % job.n = p => samples'[f] = samples[f] /\ reports'[f] = reports[f]
      PROVE  Good(p)'
  <2>1. Tasks' = Tasks BY <1>2 DEF Tasks
  <2>2. Good(p) BY <1>2, <2>1 DEF Swapping
  <2>3. IndexWhole' /\ Bucket(p)' = Bucket(p)
    BY <1>0, <1>2, <2>2, WholeStays, LatestStays DEF Bucket
  <2>4. ASSUME NEW f \in Sources, f = at[p].source
        PROVE  Replaced(f)' # {} /\ ~OldCode(f)' /\ Foretold(f)'
    <3>1. f % job.n = p /\ Replaced(f) # {} /\ ~OldCode(f) /\ Foretold(f) BY <2>2, <2>4 DEF Bucket
    <3>2. /\ Replaced(f)' = Replaced(f) /\ MergedRows(f)' = MergedRows(f) /\ ~OldCode(f)'
      BY <1>2, <2>2, <3>1, MergedRowsStay
    <3> QED BY <1>2, <3>1, <3>2 DEF Foretold
  <2> QED BY <1>2, <2>2, <2>3, <2>4
<1>3. CASE at' = Fresh
  BY <1>3, <1>1 DEF Fresh, TaskStart
<1>4. ASSUME NEW q \in Parts, ApplySource(q), q # p PROVE Good(p)'
  <2> DEFINE g == Next1(q, Bucket(q))
  <2>1. g \in Sources /\ g % job.n = q BY <1>4, ApplyingSource DEF ApplySource
  <2>2. PICK new, rows, rewritten :
           /\ at' = [at EXCEPT ![q] = new]
           /\ samples' = samples \/ samples' = [samples EXCEPT ![g] = rows]
           /\ reports' = reports \/ reports' = [reports EXCEPT ![g] = rewritten]
    BY <1>4 DEF ApplySource, ApplyTo, Pass
  <2> HIDE DEF g
  <2>3. job' = job BY <1>4 DEF ApplySource
  <2>4. at'[p] = at[p]
    BY <1>0, <1>1, <1>4, <2>2 DEF RepairShape
  <2>5. ASSUME NEW f \in Sources, f % job.n = p PROVE samples'[f] = samples[f] /\ reports'[f] = reports[f]
    <3>1. f # g BY <1>4, <2>1, <2>5
    <3>2. samples = [h \in Sources |-> samples[h]] /\ reports = [h \in Sources |-> reports[h]]
      BY <1>0 DEF RowsKept, ReportsKept
    <3> QED BY <2>2, <3>1, <3>2
  <2> QED BY <1>2, <2>3, <2>4, <2>5
<1>5. CASE ApplySource(p)
  <2> DEFINE g == Next1(p, Bucket(p))
  <2>1. /\ g \in Sources /\ g \in Bucket(p) /\ IndexWhole /\ job' = job
    BY <1>5, ApplyingSource DEF ApplySource
  <2>2. /\ Replaced(g) # {} /\ ~OldCode(g) /\ samples' = samples
        /\ reports' = [reports EXCEPT ![g] = Refreshed(@, samples[g], MergedRows(g), Replaced(g))]
        /\ at' = [at EXCEPT ![p] = [source |-> g, step |-> "reported", rows |-> {}]]
    <3>1. at' = [at EXCEPT ![p] = [source |-> g + 1, step |-> "open", rows |-> {}]] => at'[p].step = "open"
      BY <1>0, <1>1 DEF RepairShape
    <3> QED BY <1>5, <3>1 DEF ApplySource, ApplyTo, Pass
  <2> HIDE DEF g
  <2>3. PICK f \in Sources : f = g BY <2>1
  <2>4. at'[p].source = f BY <1>0, <1>1, <2>2, <2>3 DEF RepairShape
  <2>5. IndexWhole' /\ Bucket(p)' = Bucket(p)
    BY <1>0, <2>1, WholeStays, LatestStays DEF Bucket
  <2>6. samples[f] \in Seq(Row) /\ IsReport(reports[f]) /\ Replaced(f) \in SUBSET (1 .. Len(samples[f]))
    BY <1>0 DEF RowsKept, ReportsKept, Replaced
  <2>7. MergedRows(f) \in Seq(Row) /\ Len(MergedRows(f)) = Len(samples[f]) BY <1>0, MergedRowsKeep
  <2> DEFINE after == Refreshed(reports[f], samples[f], MergedRows(f), Replaced(f))
  <2>8. \A k \in DOMAIN after.solved : k \in IdsAt(samples[f], Replaced(f)) =>
          Agrees(after.solved[k], MergedRows(f)[LastWith(samples[f], Replaced(f), k)])
    BY <2>6, <2>7, RefreshedKeeps
  <2>9. reports'[f] = after BY <1>0, <2>2, <2>3 DEF ReportsKept
  <2> HIDE DEF after
  <2>10. samples'[f] = samples[f] BY <2>2
  <2>11. Replaced(f)' = Replaced(f) /\ MergedRows(f)' = MergedRows(f) /\ ~OldCode(f)'
    BY <2>1, <2>2, <2>3, <2>10, MergedRowsStay
  <2>12. Foretold(f)' BY <2>8, <2>9, <2>10, <2>11 DEF Foretold
  <2>13. Replaced(f)' # {} BY <2>2, <2>3, <2>11
  <2> QED BY <2>1, <2>3, <2>4, <2>5, <2>11, <2>12, <2>13
<1>6. ASSUME NEW q \in Parts, FailPart(q) PROVE Good(p)'
  <2>1. q # p BY <1>0, <1>6, <1>1 DEF FailPart, RepairShape
  <2>2. job' = job /\ at'[p] = at[p] /\ samples' = samples /\ reports' = reports
    BY <1>0, <1>6, <1>1, <2>1 DEF FailPart, RepairShape
  <2> QED BY <1>2, <2>2
<1>7. ASSUME NEW q \in Parts, \/ RescaleFile(q) \/ RebuildShard(q) \/ FailIndex(q)
      PROVE  FALSE
  BY <1>7, <1>0 DEF RescaleFile, RebuildShard, FailIndex, Running
<1>8. ASSUME NEW q \in Parts, \/ RescaledPart(q) \/ PreparePart(q) \/ IndexPart(q) \/ AppliedPart(q)
                              \/ RebuiltPart(q)
      PROVE  Good(p)'
  <2>1. job' = job /\ at' = at /\ samples' = samples /\ reports' = reports
    BY <1>8 DEF RescaledPart, PreparePart, IndexPart, AppliedPart, RebuiltPart
  <2> QED BY <1>2, <2>1
<1>9. ASSUME NEW s \in Shards, Session(s) PROVE Good(p)'
  <2>1. job' = job /\ at' = at /\ samples' = samples /\ reports' = reports
    BY <1>9 DEF Session, MarkDone, Retry
  <2> QED BY <1>2, <2>1
<1>10. CASE EndBackfill \/ FinalizePrepare \/ BeginMerge \/ BeginApply \/ MergeFinalize \/ RebuildFinalize
           \/ KillJob \/ Unreadable
  BY <1>3, <1>10 DEF EndBackfill, FinalizePrepare, BeginMerge, BeginApply, MergeFinalize, RebuildFinalize,
     KillJob, Unreadable, End, Goto, Fresh
<1>11. CASE Deal
  BY <1>3, <1>11 DEF Deal, Goto, Fresh, Running
<1>12. ASSUME NEW kind \in {"backfill", "repair", "rebuild"}, NEW n \in TaskCounts, Submit(kind, n)
       PROVE  FALSE
  BY <1>12 DEF Submit, FirstPhase
<1>13. CASE UNCHANGED repairVars
  <2>1. job' = job /\ at' = at /\ samples' = samples /\ reports' = reports BY <1>13 DEF repairVars
  <2> QED BY <1>2, <2>1
<1> QED BY <1>4, <1>5, <1>6, <1>7, <1>8, <1>9, <1>10, <1>11, <1>12, <1>13 DEF RepairNext, Work, Task

\* No report falls behind a repaired row.
LEMMA NotBehindStays ==
  ASSUME Shapes, FixedRight, Swapping, ScaledOnce, ReportNotBehind, [RepairNext]_repairVars
  PROVE  ReportNotBehind'
<1> SUFFICES ASSUME NEW f \in Sources PROVE NotBehind(samples'[f], reports'[f].solved)
  BY DEF ReportNotBehind, NotBehind, Fixed, Agrees
<1>0. RowsKept /\ ReportsKept /\ RepairShape /\ TasksShape /\ InOrder BY DEF Shapes
<1>1. CASE samples'[f] = samples[f] /\ reports'[f] = reports[f]
  BY <1>1 DEF ReportNotBehind
<1>2. CASE job.kind = "backfill"
  <2>1. \A i \in 1 .. Len(samples'[f]) : ~Fixed(samples'[f][i])
    BY <1>0, <1>2, RescaleRows, NoneFixed DEF Fixed
  <2> QED BY <2>1 DEF NotBehind
<1>3. ASSUME NEW p \in Parts, ApplySource(p) PROVE NotBehind(samples'[f], reports'[f].solved)
  <2>1. CASE at[p].step = "reported" /\ f = at[p].source
    <3> DEFINE old == samples[f]  S == Replaced(f)  new == MergedRows(f)
    <3>1. samples'[f] = new /\ reports'[f] = reports[f] /\ Foretold(f) /\ Replaced(f) # {}
      BY <1>0, <1>3, <2>1, SwapIs DEF RowsKept
    <3>2. /\ Len(new) = Len(old)
          /\ \A i \in 1 .. Len(old) : /\ new[i].cand = old[i].cand /\ new[i].run = old[i].run
                                      /\ i \notin S => new[i] = old[i]
      BY <1>0, MergedRowsKeep
    <3>3. old \in Seq(Row) /\ S \in SUBSET (1 .. Len(old)) /\ Len(old) \in Nat
      BY <1>0, LenProperties DEF RowsKept, Replaced
    <3>4. \A i \in 1 .. Len(old) : ~Fixed(old[i]) BY <1>0, <3>1, NoneFixed
    <3>5. \A k \in IdsAt(old, S) : k \in DOMAIN reports[f].solved =>
            Agrees(reports[f].solved[k], new[LastWith(old, S, k)])
      BY <3>1 DEF Foretold
    <3> HIDE DEF new, old, S
    <3>6. ASSUME NEW i \in 1 .. Len(new), Fixed(new[i]), NEW k, k = <<new[i].cand, new[i].run>>,
                 k \in DOMAIN reports[f].solved
          PROVE  \E j \in i .. Len(new) : /\ k = <<new[j].cand, new[j].run>>
                                          /\ Agrees(reports[f].solved[k], new[j])
      <4>1. i \in S BY <3>2, <3>4, <3>6
      <4>2. k = <<old[i].cand, old[i].run>> /\ k \in IdsAt(old, S) BY <3>2, <3>6, <4>1 DEF IdsAt
      <4> DEFINE j == LastWith(old, S, k)
      <4>3. j \in S /\ k = <<old[j].cand, old[j].run>> /\ i <= j BY <3>3, <4>1, <4>2, LastWithIs
      <4>4. Agrees(reports[f].solved[k], new[j]) BY <3>5, <3>6, <4>2
      <4> HIDE DEF j
      <4>5. j \in i .. Len(new) /\ k = <<new[j].cand, new[j].run>> BY <3>2, <3>3, <4>3
      <4> QED BY <4>4, <4>5
    <3> QED BY <3>1, <3>6 DEF NotBehind
  <2>2. CASE at[p].step = "reported" /\ f # at[p].source
    <3>1. samples'[f] = samples[f] /\ reports'[f] = reports[f]
      BY <1>0, <1>3, <2>2, SwapIs DEF RowsKept
    <3> QED BY <3>1, <1>1
  <2>3. CASE at[p].step # "reported"
    <3> DEFINE g == Next1(p, Bucket(p))
    <3>1. samples' = samples /\ (reports' = reports \/ Replaced(g) # {})
          /\ (reports' = reports \/ reports' = [reports EXCEPT ![g] =
                                       Refreshed(@, samples[g], MergedRows(g), Replaced(g))])
      BY <1>3, <2>3 DEF ApplySource, ApplyTo, stored
    <3> HIDE DEF g
    <3>2. CASE reports'[f] = reports[f] BY <3>1, <3>2, <1>1
    <3>3. CASE reports'[f] # reports[f]
      <4>1. f = g /\ Replaced(f) # {} BY <1>0, <3>1, <3>3 DEF ReportsKept
      <4>2. \A i \in 1 .. Len(samples'[f]) : ~Fixed(samples'[f][i]) BY <1>0, <3>1, <4>1, NoneFixed
      <4> QED BY <4>2 DEF NotBehind
    <3> QED BY <3>2, <3>3
  <2> QED BY <2>1, <2>2, <2>3
<1>4. ASSUME NEW p \in Parts, RebuildShard(p) PROVE NotBehind(samples'[f], reports'[f].solved)
  <2> DEFINE g == Min(Unsummed(p))
  <2>1. g \in Sources BY <1>4, UnsummedFacts DEF RebuildShard
  <2>2. samples' = samples /\ (reports' = reports \/ reports' = [reports EXCEPT ![g] = Summary(g)])
    BY <1>4 DEF RebuildShard
  <2> HIDE DEF g
  <2>3. CASE reports'[f] = reports[f] BY <2>2, <2>3, <1>1
  <2>4. CASE reports'[f] # reports[f]
    <3>1. reports'[f] = Summary(f) BY <1>0, <2>2, <2>4 DEF ReportsKept
    <3> QED BY <1>0, <2>2, <3>1, SummaryRight
  <2> QED BY <2>3, <2>4
<1>5. ASSUME NEW p \in Parts, RescaleFile(p) PROVE job.kind = "backfill"
  BY <1>5 DEF RescaleFile, Running
<1> QED BY <1>1, <1>2, <1>3, <1>4, <1>5, WhoWrites

-----------------------------------------------------------------------------
(* The rebuild *)

\* After the merge only the rebuild writes, and it writes right reports.
LEMMA AfterMerge ==
  ASSUME Shapes, Swapping, MergeKept, merged, [RepairNext]_repairVars, NEW f \in Sources
  PROVE  /\ samples'[f] = samples[f]
         /\ \/ reports'[f] = reports[f]
            \/ Right(samples'[f], reports'[f], Dealt[f])
         /\ ReportRight(f) => ReportRight(f)'
         /\ LegacyRows(f)' = LegacyRows(f)
<1>0. RowsKept /\ ReportsKept /\ RepairShape /\ TasksShape /\ InOrder BY DEF Shapes
<1>1. IndexWhole /\ \A g \in Sources : Settled(g) BY DEF MergeKept
<1>2. samples'[f] = samples[f] BY <1>0, <1>1, SettledStays
<1>3. ASSUME NEW p \in Parts, RescaleFile(p) PROVE FALSE
  BY <1>0, <1>1, <1>3, Backfilling DEF RescaleFile, Running
<1>4. ASSUME NEW p \in Parts, ApplySource(p) PROVE reports' = reports
  <2>1. Replaced(Next1(p, Bucket(p))) = {}
    BY <1>1, <1>4, ApplyingSource DEF ApplySource, Settled
  <2> QED BY <1>4, <2>1 DEF ApplySource, ApplyTo, stored
<1>5. ASSUME NEW p \in Parts, RebuildShard(p)
      PROVE  reports'[f] = reports[f] \/ Right(samples'[f], reports'[f], Dealt[f])
  <2> DEFINE g == Min(Unsummed(p))
  <2>1. g \in Sources BY <1>5, UnsummedFacts DEF RebuildShard
  <2>2. reports' = reports \/ reports' = [reports EXCEPT ![g] = Summary(g)]
    BY <1>5 DEF RebuildShard
  <2> HIDE DEF g
  <2>3. reports'[f] = reports[f] \/ reports'[f] = Summary(f) BY <1>0, <2>2 DEF ReportsKept
  <2> QED BY <1>0, <1>2, <2>3, SummaryRight
<1>6. reports'[f] = reports[f] \/ Right(samples'[f], reports'[f], Dealt[f])
  BY <1>3, <1>4, <1>5, WhoWrites
<1>7. ReportRight(f) => ReportRight(f)'
  <2>1. ReportRight(f)' <=> Right(samples'[f], reports'[f], Dealt[f])
    BY DEF ReportRight, Right, Sampled, Valid, Outcome
  <2> QED BY <1>2, <1>6, <2>1 DEF ReportRight
<1>8. LegacyRows(f)' = LegacyRows(f) BY <1>2 DEF LegacyRows, Valid
<1> QED BY <1>2, <1>6, <1>7, <1>8

\* Who changes what a rebuild keeps.
LEMMA RebuildSteps ==
  ASSUME [RepairNext]_repairVars
  PROVE  /\ merged => merged'
         /\ \/ UNCHANGED rebuild
            \/ RebuildFinalize
            \/ \E p \in Parts : RebuildShard(p) \/ RebuiltPart(p)
<1> USE DEF stored, split, plan, solve, merge, rebuild, control
<1>1. merged => merged'
  BY DEF RepairNext, Work, Task, KillJob, FailIndex, Submit, EndBackfill, FinalizePrepare, Deal,
       Session, MarkDone, Retry, Unreadable, BeginMerge, BeginApply, MergeFinalize, RebuildFinalize,
       RescaleFile, RescaledPart, PreparePart, IndexPart, ApplySource, AppliedPart, FailPart,
       RebuildShard, RebuiltPart, repairVars
<1>2. \/ UNCHANGED rebuild
      \/ RebuildFinalize
      \/ \E p \in Parts : RebuildShard(p) \/ RebuiltPart(p)
  BY DEF RepairNext, Work, Task, KillJob, FailIndex, Submit, EndBackfill, FinalizePrepare, Deal,
       Session, MarkDone, Retry, Unreadable, BeginMerge, BeginApply, MergeFinalize,
       RescaleFile, RescaledPart, PreparePart, IndexPart, ApplySource, AppliedPart, FailPart,
       repairVars
<1> QED BY <1>1, <1>2

\* What job follows a job.
LEMMA JobSteps ==
  ASSUME RepairShape, [RepairNext]_repairVars
  PROVE  \/ job' = job
         \/ job' = NoJob
         \/ job'.kind = "repair" /\ job.kind = "repair"
         \/ \E kind \in {"backfill", "repair", "rebuild"}, n \in TaskCounts : Submit(kind, n)
<1> USE DEF stored, split, plan, solve, merge, rebuild, control
<1>1. ASSUME NEW pc \in {"deal", "solve", "index", "apply"}, Goto(pc), job.kind = "repair"
      PROVE  job'.kind = "repair"
  BY <1>1, NextPhase DEF Goto
<1>2. CASE FinalizePrepare \/ Deal \/ BeginMerge \/ BeginApply
  BY <1>1, <1>2 DEF FinalizePrepare, Deal, BeginMerge, Mergeable, BeginApply, Running, End
<1>3. CASE ~(FinalizePrepare \/ Deal \/ BeginMerge \/ BeginApply)
  BY <1>3 DEF RepairNext, Work, Task, KillJob, FailIndex, EndBackfill,
       Session, MarkDone, Retry, Unreadable, MergeFinalize, RebuildFinalize,
       RescaleFile, RescaledPart, PreparePart, IndexPart, ApplySource, AppliedPart, FailPart,
       RebuildShard, RebuiltPart, repairVars, End
<1> QED BY <1>2, <1>3

\* Summed sources have right reports and, once rebuilt, no legacy row.
LEMMA RebuildKeptStays ==
  ASSUME Shapes, Swapping, MergeKept, RebuildKept, [RepairNext]_repairVars
  PROVE  RebuildKept'
<1> USE DEF stored, split, plan, solve, merge, rebuild, control
<1>0. RowsKept /\ ReportsKept /\ RepairShape /\ TasksShape /\ InOrder BY DEF Shapes
<1>1. merged => merged' BY RebuildSteps
<1>2. \/ job' = job \/ job'.kind # "rebuild"
      \/ \E n \in TaskCounts : Submit("rebuild", n)
  BY <1>0, JobSteps DEF Submit, NoJob
<1>3. job'.kind = "rebuild" \/ rebuilt' # 0 => merged'
  <2>1. job'.kind = "rebuild" => merged' BY <1>1, <1>2 DEF RebuildKept, Submit
  <2>2. rebuilt' # rebuilt => job.kind = "rebuild"
    BY RebuildSteps DEF RebuildFinalize, RebuildShard, RebuiltPart, Running
  <2> QED BY <1>1, <2>1, <2>2 DEF RebuildKept
<1>4. \A p \in Parts : progress'[p] # {} \/ summed'[p] # 0 => merged'
  <2>1. progress' # progress \/ summed' # summed => job.kind = "rebuild"
    BY RebuildSteps DEF RebuildFinalize, RebuildShard, RebuiltPart, Running
  <2> QED BY <1>1, <2>1 DEF RebuildKept
<1>5. job'.kind = "rebuild" => rebuilt' = 0
  <2>1. ASSUME NEW n \in TaskCounts, Submit("rebuild", n) PROVE rebuilt' = 0 BY <2>1 DEF Submit
  <2>2. CASE RebuildFinalize BY <2>2 DEF RebuildFinalize, End, NoJob
  <2>3. ASSUME NEW p \in Parts, RebuildShard(p) \/ RebuiltPart(p) PROVE rebuilt' = rebuilt
    BY <2>3 DEF RebuildShard, RebuiltPart
  <2> QED BY <1>2, <2>1, <2>2, <2>3, RebuildSteps DEF RebuildKept
<1>6. ASSUME NEW p \in Parts, NEW f \in progress'[p] PROVE ReportRight(f)'
  <2>1. progress[p] \subseteq Sources BY <1>0 DEF RepairShape
  <2>2. CASE f \in progress[p]
    <3>1. merged /\ ReportRight(f) BY <2>2 DEF RebuildKept
    <3> QED BY <2>1, <2>2, <3>1, AfterMerge
  <2>3. CASE f \notin progress[p]
    <3>1. PICK q \in Parts : RebuildShard(q)
      BY <2>3, RebuildSteps DEF RebuildFinalize, RebuiltPart
    <3>2. progress' = [progress EXCEPT ![q] = @ \cup {Min(Unsummed(q))}] /\ at[q].step = "reported"
      BY <2>3, <3>1 DEF RebuildShard
    <3>3. p = q /\ f = Min(Unsummed(q)) BY <1>0, <2>3, <3>2 DEF RepairShape
    <3>4. job.kind = "rebuild" /\ q \in Tasks /\ f \in Unsummed(q) /\ f \in Sources
      BY <3>1, <3>3, UnsummedFacts DEF RebuildShard, Running
    <3>5. merged /\ ReportRight(f) BY <3>2, <3>3, <3>4 DEF RebuildKept
    <3> QED BY <3>4, <3>5, AfterMerge
  <2> QED BY <2>2, <2>3
<1>7. ASSUME job'.kind = "rebuild", NEW p \in Tasks', at'[p].step = "reported",
             NEW f \in Unsummed(p)', f = Min(Unsummed(p))'
      PROVE  ReportRight(f)'
  <2>1. job' = job /\ job.kind = "rebuild" /\ merged
    <3>1. ASSUME NEW n \in TaskCounts, Submit("rebuild", n) PROVE FALSE
      <4>1. at' = Fresh BY <1>0, <3>1 DEF Submit, TasksShape, NoJob
      <4>2. p \in Parts BY <3>1, TaskFacts DEF Tasks, Submit
      <4> QED BY <1>7, <4>1, <4>2 DEF Fresh, TaskStart
    <3> QED BY <1>7, <1>2, <3>1 DEF RebuildKept
  <2>2. Tasks' = Tasks /\ p \in Parts
    <3>1. job # NoJob BY <2>1 DEF NoJob
    <3> QED BY <1>0, <2>1, <3>1, TasksAreParts DEF Tasks
  <2>3. f \in Sources BY DEF Unsummed
  <2>4. CASE at'[p] = at[p] /\ progress'[p] = progress[p]
    <3>1. Unsummed(p)' = Unsummed(p) BY <2>1, <2>4 DEF Unsummed
    <3>2. ReportRight(f) BY <1>7, <2>1, <2>2, <2>4, <3>1 DEF RebuildKept
    <3> QED BY <2>1, <2>3, <3>2, AfterMerge
  <2>5. ASSUME NEW q \in Parts, RebuildShard(q), ~(at'[p] = at[p] /\ progress'[p] = progress[p])
        PROVE  ReportRight(f)'
    <3>1. q = p BY <1>0, <2>2, <2>5 DEF RebuildShard, RepairShape
    <3>2. at[p].step = "open"
      BY <1>0, <1>7, <2>2, <2>5, <3>1 DEF RebuildShard, RepairShape
    <3>3. progress' = progress /\ reports' = [reports EXCEPT ![Min(Unsummed(p))] = Summary(Min(Unsummed(p)))]
          /\ samples' = samples
      BY <2>5, <3>1, <3>2 DEF RebuildShard
    <3>4. Unsummed(p)' = Unsummed(p) BY <2>1, <3>3 DEF Unsummed
    <3>5. reports'[f] = Summary(f) BY <1>0, <1>7, <2>3, <3>3, <3>4 DEF ReportsKept
    <3>6. Right(samples[f], Summary(f), Dealt[f]) BY <1>0, <2>3, SummaryRight
    <3>7. ReportRight(f)' <=> Right(samples'[f], reports'[f], Dealt[f])
      BY DEF ReportRight, Right, Sampled, Valid, Outcome
    <3> QED BY <3>3, <3>5, <3>6, <3>7
  <2>6. ASSUME NEW q \in Parts, RebuiltPart(q) PROVE at' = at /\ progress' = progress
    BY <2>6 DEF RebuiltPart
  <2>7. CASE RebuildFinalize
    BY <1>7, <2>7 DEF RebuildFinalize, End, NoJob
  <2>8. at' = at \/ (\E q \in Parts : RebuildShard(q)) \/ RebuildFinalize
    BY <2>1, <1>7 DEF RepairNext, Work, Task, KillJob, FailIndex, Submit, EndBackfill, FinalizePrepare, Deal,
       Session, MarkDone, Retry, Unreadable, BeginMerge, Mergeable, BeginApply, MergeFinalize, Turn, Applying, Running, End, NoJob,
       RescaleFile, RescaledPart, PreparePart, IndexPart, ApplySource, AppliedPart, FailPart,
       RebuiltPart, repairVars
  <2> QED BY <2>4, <2>5, <2>6, <2>7, <2>8, RebuildSteps
<1>8. ASSUME NEW p \in Parts, summed'[p] # 0, NEW f \in Sources, f % summed'[p] = p PROVE f \in progress'[p]
  <2>1. progress[p] \subseteq progress'[p]
    <3>1. ASSUME NEW q \in Parts, RebuildShard(q) PROVE progress[p] \subseteq progress'[p]
      BY <1>0, <3>1, ZenonT(30) DEF RebuildShard, RepairShape
    <3>2. ASSUME NEW q \in Parts, RebuiltPart(q) PROVE progress' = progress BY <3>2 DEF RebuiltPart
    <3>3. CASE RebuildFinalize BY <3>3 DEF RebuildFinalize
    <3> QED BY <3>1, <3>2, <3>3, RebuildSteps
  <2>2. CASE summed'[p] = summed[p] BY <1>8, <2>1, <2>2 DEF RebuildKept
  <2>3. CASE RebuiltPart(p)
    <3>1. summed'[p] = job.n /\ Unsummed(p) = {} BY <1>0, <2>3 DEF RebuiltPart, RepairShape
    <3>2. f \in progress[p] BY <1>8, <3>1 DEF Unsummed
    <3> QED BY <2>1, <3>2
  <2>4. ASSUME NEW q \in Parts, RebuiltPart(q), q # p PROVE summed'[p] = summed[p]
    BY <1>0, <2>4 DEF RebuiltPart, RepairShape
  <2>5. ASSUME NEW q \in Parts, RebuildShard(q) PROVE summed' = summed BY <2>5 DEF RebuildShard
  <2>6. CASE RebuildFinalize BY <2>6, <2>2 DEF RebuildFinalize
  <2> QED BY <2>2, <2>3, <2>4, <2>5, <2>6, RebuildSteps
<1>9. ASSUME NEW p \in Parts, p < rebuilt', NEW f \in progress'[p] PROVE LegacyRows(f)' = {}
  <2>0. progress[p] \subseteq Sources BY <1>0 DEF RepairShape
  <2>1. CASE RebuildFinalize
    <3>1. job.kind = "rebuild" /\ progress' = progress /\ rebuilt' = (IF RebuildComplete THEN job.n ELSE 0)
      BY <2>1 DEF RebuildFinalize, Running
    <3>2. p \in Nat /\ job.n \in Nat BY <1>0, <3>1, TasksAreParts, TaskFacts DEF NoJob
    <3>3. RebuildComplete /\ p \in Tasks BY <1>9, <3>1, <3>2 DEF Tasks
    <3>4. LegacyRows(f) = {} /\ merged /\ f \in Sources
      BY <1>9, <2>0, <3>1, <3>3 DEF RebuildComplete, RebuildKept
    <3> QED BY <3>4, AfterMerge
  <2>2. CASE rebuilt' = rebuilt /\ progress' = progress
    <3>1. LegacyRows(f) = {} /\ merged /\ f \in Sources BY <1>9, <2>0, <2>2 DEF RebuildKept
    <3> QED BY <3>1, AfterMerge
  <2>3. ASSUME NEW q \in Parts, RebuildShard(q) \/ RebuiltPart(q) PROVE FALSE
    <3>1. job.kind = "rebuild" /\ rebuilt' = rebuilt BY <2>3 DEF RebuildShard, RebuiltPart, Running
    <3>2. rebuilt' = 0 BY <3>1 DEF RebuildKept
    <3> QED BY <1>9, <3>2, TaskFacts
  <2> QED BY <2>1, <2>2, <2>3, RebuildSteps
<1> QED BY <1>3, <1>4, <1>5, <1>6, <1>7, <1>8, <1>9 DEF RebuildKept

-----------------------------------------------------------------------------
(* The list of candidates *)

\* One source more.
LEMMA ExtractedMore ==
  ASSUME RowsKept, NEW first \in 0 .. N, NEW last \in first .. N - 1
  PROVE  Extracted(first, last + 1) = Extracted(first, last) \o SelectedKeys(last)
<1> DEFINE n == last - first
           ss == [i \in 1 .. n + 1 |-> SelectedKeys(first + i - 1)]
           rest == [i \in 1 .. n |-> SelectedKeys(first + i - 1)]
<1>1. n \in Nat /\ (last + 1) - first = n + 1 /\ last - first = n /\ first + (n + 1) - 1 = last
  BY RepairBounds
<1>2. \A i \in 1 .. n + 1 : first + i - 1 \in Sources BY <1>1, RepairBounds DEF Sources
<1>3. \A i \in 1 .. n + 1 : SelectedKeys(first + i - 1) \in Seq(Keys)
  BY <1>2, ExtractedType, RepairBounds
<1>4. ss \in Seq(Seq(Keys)) /\ Len(ss) = n + 1 BY <1>1, <1>3
<1>5. rest \in Seq(Seq(Keys)) /\ Len(rest) = n
  <2>1. \A i \in 1 .. n : i \in 1 .. n + 1 BY <1>1
  <2>2. \A i \in 1 .. n : rest[i] \in Seq(Keys) BY <1>3, <2>1
  <2>3. rest = [i \in 1 .. n |-> rest[i]] OBVIOUS
  <2>4. n \in Nat BY <1>1
  <2> HIDE DEF rest, n
  <2>5. rest \in [1 .. n -> Seq(Keys)] BY <2>2, <2>3
  <2> QED BY <2>4, <2>5
<1>6. \A i \in 1 .. n : rest[i] = ss[i] BY <1>1
<1>7. ss[n + 1] = SelectedKeys(last) BY <1>1
<1>8. Extracted(first, last + 1) = FlattenSeq(ss) /\ Extracted(first, last) = FlattenSeq(rest)
  BY <1>1 DEF Extracted
<1> HIDE DEF ss, rest, n
<1>9. FlattenSeq(ss) = FlattenSeq(rest) \o ss[n + 1] BY <1>1, <1>4, <1>5, <1>6, FlattenMore
<1> QED BY <1>7, <1>8, <1>9

\* No sources, no candidates.
LEMMA ExtractedNone ==
  ASSUME NEW first \in 0 .. N
  PROVE  Extracted(first, first) = <<>>
<1> DEFINE ss == [i \in 1 .. 0 |-> SelectedKeys(first + i - 1)]
<1>1. first - first = 0 BY RepairBounds
<1>2. Extracted(first, first) = FlattenSeq(ss) BY <1>1 DEF Extracted
<1>3. ss = <<>> OBVIOUS
<1> HIDE DEF ss
<1> QED BY <1>2, <1>3, FlattenNone

\* Two ranges that meet.
LEMMA ExtractedJoin ==
  ASSUME RowsKept, NEW a \in 0 .. N, NEW b \in a .. N, NEW c \in b .. N
  PROVE  Extracted(a, b) \o Extracted(b, c) = Extracted(a, c)
<1> DEFINE Meets(d) == Extracted(a, b) \o Extracted(b, b + d) = Extracted(a, b + d)
           T == {d \in 0 .. c - b : Meets(d)}
<1>0. a \in Nat /\ b \in Nat /\ c \in Nat /\ N \in Nat /\ c - b \in Nat /\ b + (c - b) = c /\ b + 0 = b
  BY RepairBounds
<1>1. 0 \in T
  <2>1. Extracted(b, b) = <<>> BY <1>0, ExtractedNone
  <2>2. Extracted(a, b) \in Seq(Keys) BY <1>0, ExtractedType
  <2>3. Extracted(a, b) \o <<>> = Extracted(a, b) BY <2>2, ConcatEmptySeq
  <2>4. Meets(0) BY <1>0, <2>1, <2>3
  <2> HIDE DEF Meets
  <2> QED BY <1>0, <2>4
<1>2. ASSUME NEW d \in 1 .. c - b, d - 1 \in T PROVE d \in T
  <2> DEFINE x == b + (d - 1)
  <2>1. x \in b .. N - 1 /\ x \in a .. N - 1 /\ x + 1 = b + d /\ x \in Sources /\ x \in 0 .. N
    BY <1>0 DEF Sources
  <2>2. Extracted(a, b) \o Extracted(b, x) = Extracted(a, x) BY <1>2
  <2> HIDE DEF x
  <2>3. Extracted(b, x + 1) = Extracted(b, x) \o SelectedKeys(x) BY <1>0, <2>1, ExtractedMore
  <2>4. Extracted(a, x + 1) = Extracted(a, x) \o SelectedKeys(x) BY <1>0, <2>1, ExtractedMore
  <2>5. Extracted(a, b) \in Seq(Keys) /\ Extracted(b, x) \in Seq(Keys) /\ SelectedKeys(x) \in Seq(Keys)
    BY <1>0, <2>1, ExtractedType
  <2>6. (Extracted(a, b) \o Extracted(b, x)) \o SelectedKeys(x) = Extracted(a, b) \o (Extracted(b, x) \o SelectedKeys(x))
    BY <2>5, ConcatAssociative, SMTT(20)
  <2>7. Meets(d) BY <2>1, <2>2, <2>3, <2>4, <2>6
  <2> HIDE DEF Meets
  <2> QED BY <1>0, <2>7
<1>3. 0 .. c - b \subseteq T
  <2> HIDE DEF T
  <2> QED BY <1>0, <1>1, <1>2, UpTo
<1>4. Meets(c - b)
  <2> HIDE DEF Meets
  <2> QED BY <1>0, <1>3
<1> QED BY <1>0, <1>4

\* The parts of one task count, one after the other, are the whole list.
LEMMA PartsJoin ==
  ASSUME RowsKept, NEW n \in Nat \ {0}
  PROVE  FlattenSeq([i \in 1 .. n |-> Extracted((N * (i - 1)) \div n, (N * i) \div n)]) = Extracted(0, N)
<1> DEFINE Cut(i) == (N * i) \div n
           Part(m) == [i \in 1 .. m |-> Extracted(Cut(i - 1), Cut(i))]
           Meets(m) == FlattenSeq(Part(m)) = Extracted(0, Cut(m))
           T == {m \in 0 .. n : Meets(m)}
<1>1. \A i \in 1 .. n : Cut(i - 1) \in 0 .. N /\ Cut(i) \in 0 .. N /\ Cut(i - 1) <= Cut(i)
  BY CutFacts
<1>2. Cut(0) = 0 /\ Cut(n) = N BY CutFacts
<1>3. 0 \in 0 .. N /\ N \in Nat BY RepairBounds
<1> HIDE DEF Cut
<1>4. \A i \in 1 .. n : Extracted(Cut(i - 1), Cut(i)) \in Seq(Keys)
  BY <1>1, ExtractedType
<1>5. 0 \in T
  <2>1. Part(0) = <<>> OBVIOUS
  <2>2. FlattenSeq(Part(0)) = <<>> BY <2>1, FlattenNone
  <2> QED BY <1>2, <1>3, <2>2, ExtractedNone
<1>6. ASSUME NEW m \in 1 .. n, m - 1 \in T PROVE m \in T
  <2>1. FlattenSeq(Part(m - 1)) = Extracted(0, Cut(m - 1)) BY <1>6
  <2>2. Part(m) \in Seq(Seq(Keys)) /\ Len(Part(m)) = (m - 1) + 1 BY <1>4
  <2>3. Part(m - 1) \in Seq(Seq(Keys)) /\ Len(Part(m - 1)) = m - 1 BY <1>4
  <2>4. \A i \in 1 .. m - 1 : Part(m - 1)[i] = Part(m)[i] OBVIOUS
  <2>5. Part(m)[(m - 1) + 1] = Extracted(Cut(m - 1), Cut(m)) OBVIOUS
  <2> HIDE DEF Part
  <2>6. FlattenSeq(Part(m)) = FlattenSeq(Part(m - 1)) \o Part(m)[(m - 1) + 1]
    BY <2>2, <2>3, <2>4, FlattenMore, m - 1 \in Nat
  <2>7. Extracted(0, Cut(m - 1)) \o Extracted(Cut(m - 1), Cut(m)) = Extracted(0, Cut(m))
    <3>1. Cut(m - 1) \in 0 .. N /\ Cut(m) \in Cut(m - 1) .. N BY <1>1, <1>3
    <3> QED BY <1>3, <3>1, ExtractedJoin
  <2>8. Meets(m) BY <2>1, <2>5, <2>6, <2>7
  <2> HIDE DEF Meets
  <2> QED BY <2>8
<1>7. 0 .. n \subseteq T
  <2> HIDE DEF T
  <2> QED BY <1>5, <1>6, UpTo
<1>8. n \in T BY <1>7
<1> QED BY <1>2, <1>8 DEF Cut

\* What is on the list is the key of a selected row.
LEMMA ListedIsSelected ==
  ASSUME RowsKept, NEW k \in 1 .. Len(Extracted(0, N))
  PROVE  LET key == Extracted(0, N)[k] IN key[1] \in Sources /\ Waiting(key[1], key)
<1> DEFINE ss == [i \in 1 .. N |-> SelectedKeys(i - 1)]
<1>1. Extracted(0, N) = FlattenSeq(ss)
  <2>1. N - 0 = N /\ \A i \in 1 .. N : 0 + i - 1 = i - 1 BY RepairBounds
  <2> QED BY <2>1 DEF Extracted
<1>2. ss \in Seq(Seq(Keys)) /\ Len(ss) = N
  <2>1. \A i \in 1 .. N : i - 1 \in Sources BY RepairBounds DEF Sources
  <2>2. \A i \in 1 .. N : SelectedKeys(i - 1) \in Seq(Keys) BY <2>1, ExtractedType, RepairBounds
  <2> QED BY <2>2, RepairBounds
<1>3. \A i \in 1 .. N : ss[i] = SelectedKeys(i - 1) OBVIOUS
<1> HIDE DEF ss
<1>4. PICK i \in 1 .. N : \E j \in 1 .. Len(SelectedKeys(i - 1)) : Extracted(0, N)[k] = SelectedKeys(i - 1)[j]
  BY <1>1, <1>2, <1>3, FlattenElements
<1> DEFINE f == i - 1
<1>5. f \in Sources BY RepairBounds DEF Sources
<1> HIDE DEF f
<1>6. PICK j \in 1 .. Len(SelectedKeys(f)) : Extracted(0, N)[k] = SelectedKeys(f)[j] BY <1>4 DEF f
<1> DEFINE rr == [x \in 1 .. Len(samples[f]) |->
                    IF Selected(samples[f][x]) THEN <<Key(f, samples[f][x])>> ELSE <<>>]
<1>7. Len(samples[f]) \in Nat BY <1>5, LenProperties DEF RowsKept
<1>8. rr \in Seq(Seq(Keys)) /\ Len(rr) = Len(samples[f])
  <2>1. \A x \in 1 .. Len(samples[f]) : rr[x] \in Seq(Keys) BY <1>5, KeysOfRows
  <2>2. rr = [x \in 1 .. Len(samples[f]) |-> rr[x]] OBVIOUS
  <2> HIDE DEF rr
  <2> QED BY <1>7, <2>1, <2>2
<1>9. \A x \in 1 .. Len(samples[f]) : \A y \in 1 .. Len(rr[x]) :
        Selected(samples[f][x]) /\ rr[x][y] = Key(f, samples[f][x])
  OBVIOUS
<1> HIDE DEF rr
<1>10. PICK x \in 1 .. Len(samples[f]) : \E y \in 1 .. Len(rr[x]) : SelectedKeys(f)[j] = rr[x][y]
  BY <1>8, FlattenElements DEF SelectedKeys, rr
<1>11. Selected(samples[f][x]) /\ Extracted(0, N)[k] = Key(f, samples[f][x]) BY <1>6, <1>9, <1>10
<1>12. Key(f, samples[f][x])[1] = f BY DEF Key
<1> QED BY <1>5, <1>11, <1>12 DEF Waiting

\* The list is written once, and then only the rows of its sources change.
LEMMA ListedSteps ==
  ASSUME RowsKept, RepairShape, TasksShape, InOrder, [RepairNext]_repairVars
  PROVE  \/ candidates' = candidates /\ ~(FinalizePrepare /\ PartsFit(job.n))
         \/ /\ FinalizePrepare /\ PartsFit(job.n) /\ candidates' = Extracted(0, N)
            /\ samples' = samples /\ retries' = retries /\ Unretried
<1> USE DEF stored, split, plan, solve, merge, rebuild, control
<1>1. ASSUME FinalizePrepare, PartsFit(job.n)
      PROVE  /\ candidates' = Extracted(0, N) /\ samples' = samples /\ retries' = retries /\ Unretried
  <2>1. job.kind = "repair" /\ job.pc = "prepare" /\ job # NoJob
    BY <1>1 DEF FinalizePrepare, Running, NoJob
  <2>2. job.n \in Nat \ {0} BY <2>1, TasksAreParts
  <2> DEFINE n == job.n
  <2>3. candidates' = FlattenSeq([i \in 1 .. n |-> LET m == prepared[i - 1]
                                                   IN Extracted((N * (i - 1)) \div m, (N * i) \div m)])
    BY <1>1 DEF FinalizePrepare
  <2>4. \A i \in 1 .. n : prepared[i - 1] = n
    <3>1. \A i \in 1 .. n : i - 1 \in 0 .. n - 1 BY <2>2
    <3> QED BY <1>1, <3>1 DEF PartsFit
  <2> HIDE DEF n
  <2>5. candidates' = FlattenSeq([i \in 1 .. n |-> Extracted((N * (i - 1)) \div n, (N * i) \div n)])
    BY <2>3, <2>4
  <2>6. candidates' = Extracted(0, N) BY <2>2, <2>5, PartsJoin DEF n
  <2>7. Unretried BY <2>1 DEF InOrder
  <2> QED BY <1>1, <2>6, <2>7 DEF FinalizePrepare
<1>2. ASSUME FinalizePrepare, ~PartsFit(job.n) PROVE candidates' = candidates
  BY <1>2 DEF FinalizePrepare
<1>3. ASSUME ~FinalizePrepare PROVE candidates' = candidates
  BY <1>3 DEF RepairNext, Work, Task, KillJob, FailIndex, Submit, EndBackfill, Deal,
       Session, MarkDone, Retry, Unreadable, BeginMerge, BeginApply, MergeFinalize, RebuildFinalize,
       RescaleFile, RescaledPart, PreparePart, IndexPart, ApplySource, AppliedPart, FailPart,
       RebuildShard, RebuiltPart, repairVars
<1> QED BY <1>1, <1>2, <1>3

\* The list is made of the rows only.
LEMMA ExtractedSame ==
  ASSUME select' = select, samples' = samples
  PROVE  /\ \A first, last : Extracted(first, last)' = Extracted(first, last)
         /\ \A f, key : Waiting(f, key)' = Waiting(f, key)
BY DEF Extracted, SelectedKeys, Selected, Valid, Key, Waiting

\* While the index is empty no row of the list changes.
LEMMA ListedRowsStay ==
  ASSUME RowsKept, RepairShape, TasksShape, Swapping, InOrder, [RepairNext]_repairVars,
         Unindexed, job.pc = "deal" \/ candidates # <<>>
  PROVE  samples' = samples
<1>1. job.kind # "backfill" BY Backfilling
<1>2. ~IndexWhole BY TaskFacts DEF Unindexed, IndexWhole
<1>3. \A f \in Sources : samples'[f] = samples[f] BY <1>1, <1>2, SamplesSteps, SwapIs
<1>4. ASSUME NEW p \in Parts, ApplySource(p) PROVE FALSE BY <1>2, <1>4 DEF ApplySource
<1>5. ASSUME NEW p \in Parts, RescaleFile(p) PROVE FALSE BY <1>1, <1>5 DEF RescaleFile, Running
<1>6. ASSUME NEW p \in Parts, RebuildShard(p) PROVE samples' = samples BY <1>6 DEF RebuildShard
<1> QED BY <1>4, <1>5, <1>6, WhoWrites

\* The list of candidates is complete, and each row on it waits or is merged.
LEMMA ListKeptStays ==
  ASSUME Shapes, ScaledOnce, Swapping, ListKept, [RepairNext]_repairVars
  PROVE  ListKept'
<1> USE DEF stored, split, plan, solve, merge, rebuild, control
<1>0. RowsKept /\ ReportsKept /\ RepairShape /\ TasksShape /\ InOrder BY DEF Shapes
<1>1. select' = select BY SelectStays
<1>2. ASSUME job'.pc = "deal" \/ candidates' # <<>>, Unindexed' PROVE candidates' = Extracted(0, N)'
  <2>1. Unindexed BY <1>0, <1>2, IndexStays DEF Unindexed
  <2>2. CASE candidates' = candidates /\ (job.pc = "deal" \/ candidates # <<>>)
    <3>1. samples' = samples BY <1>0, <2>1, <2>2, ListedRowsStay
    <3>2. Extracted(0, N)' = Extracted(0, N) BY <1>1, <3>1, ExtractedSame
    <3> QED BY <2>1, <2>2, <3>2 DEF ListKept
  <2>3. CASE /\ candidates' = candidates /\ candidates = <<>> /\ job.pc # "deal"
             /\ ~(FinalizePrepare /\ PartsFit(job.n))
    <3>1. job'.pc = "deal" BY <1>2, <2>3
    <3>2. job' # job /\ job' # NoJob BY <2>3, <3>1 DEF NoJob
    <3>3. ASSUME NEW pc \in {"solve", "index", "apply"}, Goto(pc), job.kind = "repair" PROVE FALSE
      BY <1>0, <3>1, <3>3, NextPhase DEF Goto
    <3>4. ASSUME NEW kind, NEW n, Submit(kind, n) PROVE FALSE
      BY <2>3, <3>1, <3>4 DEF Submit, FirstPhase
    <3>5. CASE FinalizePrepare
      BY <2>3, <3>2, <3>5 DEF FinalizePrepare, End
    <3>6. CASE Deal \/ BeginMerge \/ BeginApply
      BY <3>2, <3>3, <3>6 DEF Deal, BeginMerge, Mergeable, BeginApply, Running, End
    <3> QED
      BY <3>2, <3>4, <3>5, <3>6 DEF RepairNext, Work, Task, KillJob, FailIndex, EndBackfill,
           Session, MarkDone, Retry, Unreadable, MergeFinalize, RebuildFinalize,
           RescaleFile, RescaledPart, PreparePart, IndexPart, ApplySource, AppliedPart, FailPart,
           RebuildShard, RebuiltPart, repairVars, End
  <2>4. CASE candidates' = Extracted(0, N) /\ samples' = samples
    <3>1. Extracted(0, N)' = Extracted(0, N) BY <1>1, <2>4, ExtractedSame
    <3> QED BY <2>4, <3>1
  <2> QED BY <1>0, <2>2, <2>3, <2>4, ListedSteps
<1>3. ASSUME NEW s \in Shards, NEW i \in 1 .. Len(retries'[s])
      PROVE  \E k \in 1 .. Len(candidates') : retries'[s][i].key = candidates'[k]
  <2>1. CASE retries' = retries /\ candidates' = candidates BY <1>3, <2>1 DEF ListKept
  <2>2. CASE retries' = retries /\ Unretried
    <3>1. Len(retries'[s]) = 0 BY <2>2 DEF Unretried
    <3> QED BY <3>1
  <2>3. ASSUME NEW r \in Shards, NEW k \in Pending(r), NEW v, Retry(r, k, v)
        PROVE  \E x \in 1 .. Len(candidates') : retries'[s][i].key = candidates'[x]
    <3>1. candidates' = candidates /\ k \in 1 .. Len(candidates)
      <4>1. k \in 1 .. dealt /\ dealt \in -1 .. Len(candidates) /\ Len(candidates) \in Nat
        BY <1>0, LenProperties DEF Pending, Positions, RepairShape
      <4> QED BY <2>3, <4>1 DEF Retry
    <3> DEFINE new == [key |-> candidates[k], verdict |-> v]
    <3>2. retries' = [retries EXCEPT ![r] = Append(retries[r], new)] BY <2>3 DEF Retry
    <3>3. retries'[s] = retries[s] \/ (r = s /\ retries'[s] = Append(retries[s], new))
      BY <1>0, <3>2 DEF RepairShape
    <3>4. CASE retries'[s] = retries[s] BY <1>3, <3>1, <3>4 DEF ListKept
    <3>5. CASE retries'[s] = Append(retries[s], new)
      <4>1. retries[s] \in Seq(RetryRow) /\ Len(retries[s]) \in Nat BY <1>0, LenProperties DEF RepairShape
      <4> HIDE DEF new
      <4>2. /\ Len(retries'[s]) = Len(retries[s]) + 1
            /\ retries'[s][i] = IF i <= Len(retries[s]) THEN retries[s][i] ELSE new
        BY <3>5, <4>1
      <4>3. CASE i <= Len(retries[s])
        <5>1. i \in 1 .. Len(retries[s]) BY <4>1, <4>2, <4>3
        <5> QED BY <3>1, <4>2, <4>3, <5>1 DEF ListKept
      <4>4. CASE ~(i <= Len(retries[s]))
        <5>1. retries'[s][i].key = candidates'[k] BY <3>1, <4>2, <4>4 DEF new
        <5> QED BY <3>1, <5>1
      <4> QED BY <4>3, <4>4
    <3> QED BY <3>3, <3>4, <3>5
  <2>4. retries' = retries \/ \E r \in Shards : \E k \in Pending(r) : \E v : Retry(r, k, v)
    BY DEF RepairNext, Work, Task, KillJob, FailIndex, Submit, EndBackfill, FinalizePrepare, Deal,
         Session, MarkDone, Unreadable, BeginMerge, BeginApply, MergeFinalize, RebuildFinalize,
         RescaleFile, RescaledPart, PreparePart, IndexPart, ApplySource, AppliedPart, FailPart,
         RebuildShard, RebuiltPart, repairVars
  <2> QED BY <1>0, <2>1, <2>2, <2>3, <2>4, ListedSteps
<1>4. ASSUME NEW k \in 1 .. Len(candidates')
      PROVE  Settled(candidates[k][1])' \/ Waiting(candidates[k][1], candidates[k])'
  <2>1. CASE candidates' = Extracted(0, N) /\ samples' = samples
    <3>1. Waiting(Extracted(0, N)[k][1], Extracted(0, N)[k]) BY <1>0, <1>4, <2>1, ListedIsSelected
    <3>2. Waiting(candidates'[k][1], candidates'[k]) BY <2>1, <3>1
    <3> QED BY <1>1, <2>1, <3>2 DEF Waiting, Selected, Valid, Key
  <2>2. CASE candidates' = candidates
    <3>1. candidates[k] \in Keys /\ candidates # <<>> /\ k \in 1 .. Len(candidates)
      <4>1. candidates[k] \in Keys BY <1>0, <1>4, <2>2, ElementOfSeq DEF RepairShape
      <4> QED BY <1>4, <2>2, <4>1
    <3>2. PICK key \in Keys : key = candidates[k] BY <3>1
    <3>3. PICK f \in Sources : f = key[1] BY KeyParts
    <3>4. Settled(f) \/ Waiting(f, key) BY <3>1, <3>2, <3>3 DEF ListKept
    <3>5. job.kind # "backfill" BY <1>0, <3>1, Backfilling
    <3>6. CASE Settled(f)
      <4>1. Settled(f)' BY <1>0, <3>6, SettledStays
      <4> QED BY <2>2, <3>2, <3>3, <4>1
    <3>7. CASE Waiting(f, key) /\ samples'[f] = samples[f]
      <4>1. Waiting(f, key)' BY <1>1, <3>7 DEF Waiting, Selected, Valid, Key
      <4> QED BY <2>2, <3>2, <3>3, <4>1
    <3>8. ASSUME NEW p \in Parts, ApplySource(p), at[p].step = "reported", f = at[p].source
          PROVE  Settled(candidates[k][1])'
      <4>1. Settled(f)' BY <1>0, <3>8, SwapSettles
      <4> QED BY <2>2, <3>2, <3>3, <4>1
    <3> QED BY <1>0, <3>4, <3>5, <3>6, <3>7, <3>8, SamplesSteps
  <2> QED BY <1>0, <2>1, <2>2, ListedSteps
<1> QED BY <1>2, <1>3, <1>4 DEF ListKept

-----------------------------------------------------------------------------
(* The invariant holds at the start and in every step. *)

\* The invariant at the start, in every step, and always.
LEMMA RepairStarts == RepairInit => RepairIInv
<1> SUFFICES ASSUME RepairInit PROVE RepairIInv
  OBVIOUS
<1>1. samples = Original /\ reports = FirstReport /\ retries = [s \in Shards |-> <<>>]
      /\ index = [p \in Parts |-> [n |-> 0, rows |-> {}]] /\ candidates = <<>> /\ dealt = -1
      /\ lost = {} /\ broken = {}
      /\ job = NoJob /\ at = Fresh /\ tried = {} /\ done = {} /\ merged = FALSE /\ rebuilt = 0
  BY DEF RepairInit, Fresh
<1>2. RowsKept BY <1>1, StoredAssumption DEF RowsKept
<1>3. ReportsKept BY <1>1, StoredAssumption DEF ReportsKept, IsReport
<1>4. RepairShape
  <2>1. \A s \in Shards : <<>> \in Seq(RetryRow) BY EmptySeq
  <2>2. candidates \in Seq(Keys) /\ Len(candidates) = 0 BY <1>1, EmptySeq
  <2>3. /\ select \in {"failed", "legacy-quadratic"} /\ rescaled \subseteq Parts
        /\ prepared \in [Parts -> NoneOr] /\ candidates \in Seq(Keys) /\ dealt \in -1 .. Len(candidates)
        /\ applied \in [Parts -> NoneOr] /\ summed \in [Parts -> NoneOr] /\ rebuilt \in NoneOr
    BY <1>1, <2>2 DEF RepairInit, NoneOr
  <2>4. /\ retries \in [Shards -> Seq(RetryRow)] /\ done \subseteq Shards
        /\ index \in [Parts -> [n : NoneOr, rows : SUBSET (Nat \X Nat)]]
    BY <1>1, <2>1 DEF NoneOr
  <2>5. merged \in BOOLEAN /\ job \in JobShapes /\ tried \subseteq Nat BY <1>1 DEF JobShapes
  <2>6. progress \in [Parts -> SUBSET Sources] BY DEF RepairInit
  <2>7. kills \in 0 .. MaxKills BY RepairBounds DEF RepairInit
  <2> QED BY <1>1, <2>3, <2>4, <2>5, <2>6, <2>7, StartTypes DEF RepairShape
<1>5. TasksShape BY <1>1 DEF TasksShape, NoJob, Fresh
<1>6. InOrder
  <2>1. FilledShards = {} BY <1>1, <1>4, NothingDealt
  <2>2. Unprepared BY DEF RepairInit, Unprepared
  <2>3. Unretried BY <1>1 DEF Unretried
  <2> QED BY <1>1, <2>1, <2>2, <2>3 DEF InOrder, NoJob
<1>7. ListKept BY <1>1 DEF ListKept, NoJob
<1>8. \A f \in Sources : \A i \in 1 .. Len(samples[f]) :
        ~Fixed(samples[f][i]) /\ (samples[f][i].marked /\ samples[f][i].ok => samples[f][i].unit = 1)
  BY <1>1, StoredAssumption
<1>9. FixedRight /\ ScaledOnce /\ ReportNotBehind
  BY <1>8 DEF FixedRight, ScaledOnce, ReportNotBehind, NotBehind
<1>10. MergeKept BY <1>1 DEF MergeKept, RepairInit, NoJob
<1>11. Swapping BY <1>1 DEF Swapping, NoJob
<1>12. RebuildKept BY <1>1 DEF RebuildKept, RepairInit, NoJob
<1> QED BY <1>2, <1>3, <1>4, <1>5, <1>6, <1>7, <1>9, <1>10, <1>11, <1>12 DEF RepairIInv, Shapes

LEMMA RepairSteps == RepairIInv /\ [RepairNext]_repairVars => RepairIInv'
<1> SUFFICES ASSUME RepairIInv, [RepairNext]_repairVars PROVE RepairIInv'
  OBVIOUS
<1>1. /\ Shapes /\ ListKept /\ FixedRight /\ MergeKept /\ Swapping /\ RebuildKept /\ ScaledOnce /\ ReportNotBehind
      /\ RowsKept /\ ReportsKept /\ RepairShape /\ TasksShape /\ InOrder
  BY DEF RepairIInv, Shapes
<1>2. RowsKept' /\ ScaledOnce' BY <1>1, RowsStay
<1>3. ReportsKept' BY <1>1, ReportsStay
<1>4. RepairShape' BY <1>1, RepairShapeStays
<1>5. TasksShape' BY <1>1, TasksStay
<1>6. InOrder' BY <1>1, InOrderStays
<1>7. ListKept' BY <1>1, ListKeptStays
<1>8. FixedRight' BY <1>1, FixedRightStays
<1>9. MergeKept' BY <1>1, MergeKeptStays
<1>10. Swapping' BY <1>1, SwappingStays
<1>11. RebuildKept' BY <1>1, RebuildKeptStays
<1>12. ReportNotBehind' BY <1>1, NotBehindStays
<1> QED BY <1>2, <1>3, <1>4, <1>5, <1>6, <1>7, <1>8, <1>9, <1>10, <1>11, <1>12 DEF RepairIInv, Shapes

\* Every reachable state has the invariant, for all files, reports, task counts
\* and verdicts and however many jobs are killed.
THEOREM RepairInvariant == RepairSpec => []RepairIInv
<1>1. RepairInit => RepairIInv BY RepairStarts
<1>2. RepairIInv /\ [RepairNext]_repairVars => RepairIInv' BY RepairSteps
<1> QED BY <1>1, <1>2, PTL DEF RepairSpec

\* The jobs keep every row a row, and number parts and candidates as the types
\* say (the stores of the backfill, the repair and the rebuild).
THEOREM RepairKeepsTypes == RepairSpec => []RepairTypes
<1>1. RepairIInv => RepairTypes
  <2> SUFFICES ASSUME RepairIInv PROVE RepairTypes
    OBVIOUS
  <2>0. RowsKept /\ RepairShape BY DEF RepairIInv, Shapes
  <2>1. \A f \in Sources : \A i \in 1 .. Len(samples[f]) : samples[f][i] \in Row BY <2>0, KeysOfRows
  <2>2. \A p \in Parts : {prepared[p], applied[p], index[p].n, summed[p]} \subseteq {0} \cup TaskCounts
    BY <2>0 DEF RepairShape, NoneOr
  <2>3. \A p \in Parts : progress[p] \subseteq Sources BY <2>0 DEF RepairShape
  <2>4. job.n \in {0} \cup TaskCounts BY <2>0 DEF RepairShape, JobShapes, NoJob
  <2>5. broken \subseteq Shards
    <3>1. \A k \in lost : k \in Nat \ {0} BY <2>0 DEF RepairShape
    <3>2. \A k \in Nat \ {0} : (k - 1) % K \in 0 .. K - 1 BY RepairBounds
    <3>3. \A k \in lost : (k - 1) % K \in Shards BY <3>1, <3>2 DEF Shards
    <3>4. broken \subseteq {(k - 1) % K : k \in lost} BY <2>0 DEF RepairShape
    <3> QED BY <3>3, <3>4
  <2> QED BY <2>0, <2>1, <2>2, <2>3, <2>4, <2>5 DEF RepairTypes, RepairShape
<1> QED BY <1>1, RepairInvariant, PTL

\* A complete rebuild over parts of one task count.
LEMMA RebuildIsSound ==
  ASSUME RepairIInv PROVE NoLegacyLeft /\ ReportsRebuilt
<1>0. RepairShape /\ RebuildKept BY DEF RepairIInv, Shapes
<1> SUFFICES ASSUME SummedUniform, NEW f \in Sources PROVE LegacyRows(f) = {} /\ ReportRight(f)
  BY DEF NoLegacyLeft, ReportsRebuilt
<1> DEFINE p == f % rebuilt
<1>1. rebuilt \in TaskCounts /\ rebuilt \in Nat \ {0} BY <1>0, TaskFacts DEF SummedUniform, RepairShape, NoneOr
<1>2. p \in 0 .. rebuilt - 1 /\ p < rebuilt
  <2>1. f \in Nat BY SourceFacts
  <2> QED BY <1>1, <2>1
<1>3. p \in Parts /\ summed[p] = rebuilt BY <1>1, <1>2, TaskFacts DEF SummedUniform
<1>4. f \in progress[p] BY <1>0, <1>1, <1>3 DEF RebuildKept
<1> HIDE DEF p
<1> QED BY <1>0, <1>2, <1>3, <1>4 DEF RebuildKept

\* The reports agree with the rows: none lags behind a repaired row, no marked
\* row is in the wrong costs, and a complete rebuild over parts of one task count
\* leaves no legacy row and makes every report right (backfill_cost_scaling,
\* _apply_retries and rebuild_round_shard_summaries, through kills and reruns).
THEOREM ReportsAreSound == RepairSpec => []ReportsSound
<1>1. RepairIInv => ReportsSound
  BY RebuildIsSound DEF ReportsSound, RepairIInv
<1> QED BY <1>1, RepairInvariant, PTL

\* The candidates, the retries and the merge.
LEMMA ListIsComplete ==
  ASSUME RepairIInv PROVE CandidatesComplete
<1>1. ASSUME Running("repair", "deal") PROVE candidates = Extracted(0, N)
  <2>1. Unindexed BY <1>1 DEF RepairIInv, Shapes, InOrder, Unretried, Unindexed, Running
  <2> QED BY <1>1, <2>1 DEF RepairIInv, ListKept, Running
<1> QED BY <1>1 DEF CandidatesComplete

\* A source that is merged has a row for each of its retries.
LEMMA NoneMixed ==
  ASSUME RepairIInv PROVE NeverMixed
<1> SUFFICES ASSUME NEW f \in Sources, IndexWhole, Replaced(f) # {}
             PROVE  {Key(f, samples[f][i]) : i \in Replaced(f)} = RetriesOf(f)
  BY DEF NeverMixed, Mismatch
<1>0. RowsKept /\ RepairShape /\ InOrder /\ ListKept BY DEF RepairIInv, Shapes
<1>1. ASSUME NEW key \in RetriesOf(f) PROVE \E i \in Replaced(f) : Key(f, samples[f][i]) = key
  <2>1. PICK e \in Entries : key = KeyAt(e) /\ key[1] = f BY DEF RetriesOf
  <2>2. e[1] \in Shards /\ e[2] \in 1 .. Len(retries[e[1]]) BY <1>0, EntryFacts
  <2>3. PICK k \in 1 .. Len(candidates) : key = candidates[k] BY <1>0, <2>1, <2>2 DEF ListKept, KeyAt
  <2>4. Waiting(f, key) BY <1>0, <2>1, <2>3 DEF ListKept, Settled
  <2> QED BY <2>4 DEF Waiting, Replaced
<1>2. \A i \in Replaced(f) : Key(f, samples[f][i]) \in RetriesOf(f) BY DEF Replaced
<1> QED BY <1>1, <1>2

\* A complete merge has given each row the last of its retries.
LEMMA MergeIsExact ==
  ASSUME RepairIInv PROVE MergedExactly
<1>0. RowsKept /\ RepairShape /\ InOrder /\ FixedRight /\ MergeKept BY DEF RepairIInv, Shapes
<1> SUFFICES ASSUME merged, IndexUniform, NEW f \in Sources, NEW i \in 1 .. Len(samples[f])
             PROVE  LET row == samples[f][i]
                        n == index[0].n
                        E == {e \in Pointers : /\ retries[e[1]][e[2]].key = Key(f, row)
                                               /\ Counts(retries[e[1]][e[2]])}
                        Newest == {e \in E : \A d \in E :
                                   \/ d[1] = e[1] /\ d[2] <= e[2]
                                   \/ d[1] # e[1] /\ (d[1] % n < e[1] % n \/ (d[1] % n = e[1] % n /\ d[1] < e[1]))}
                    IN /\ row.cand = Original[f][i].cand /\ row.run = Original[f][i].run
                       /\ E # {} => ~Selected(row)
                       /\ Fixed(row) => \E e \in Newest : row.ok = Converged(retries[e[1]][e[2]].verdict)
  BY <1>0 DEF MergedExactly, RowsKept
<1> DEFINE row == samples[f][i]
           n == index[0].n
           key == Key(f, row)
           E == {e \in Pointers : retries[e[1]][e[2]].key = key /\ Counts(retries[e[1]][e[2]])}
           Newest == {e \in E : \A d \in E :
                       \/ d[1] = e[1] /\ d[2] <= e[2]
                       \/ d[1] # e[1] /\ (d[1] % n < e[1] % n \/ (d[1] % n = e[1] % n /\ d[1] < e[1]))}
<1>1. row.cand = Original[f][i].cand /\ row.run = Original[f][i].run BY <1>0 DEF RowsKept
<1>2. IndexWhole /\ Settled(f) BY <1>0 DEF MergeKept
<1>3. n \in TaskCounts /\ n \in Nat \ {0} /\ 0 .. n - 1 \subseteq Parts
  BY <1>0, <1>2, TaskFacts DEF IndexWhole, RepairShape, NoneOr
<1>4. \A p \in 0 .. n - 1 : index[p].rows = IndexedRows(n, p)
  BY <1>0, <1>3 DEF InOrder, IndexUniform
<1>5. ASSUME NEW e \in Pointers
      PROVE  e[1] \in Nat /\ e[2] \in Nat /\ e[1] % n \in 0 .. n - 1
             /\ e = <<e[1], e[2]>>
  <2>1. e = <<e[1], e[2]>> /\ e[1] \in Shards /\ e[2] \in Nat BY <1>0, IndexedPointers
  <2>2. e[1] \in Nat BY <2>1, RepairBounds DEF Shards
  <2>3. n \in Nat \ {0} BY <1>3
  <2> HIDE DEF n
  <2>4. e[1] % n \in 0 .. n - 1 BY <2>2, <2>3
  <2> QED BY <2>1, <2>2, <2>4
<1>6. E = RetriesWith(key)
  <2>1. ASSUME NEW e \in E PROVE e \in RetriesWith(key)
    <3>1. e[1] % n \in 0 .. n - 1 BY <1>5
    <3>2. e \in index[e[1] % n].rows BY <1>4, <3>1 DEF IndexedRows
    <3> QED BY <3>1, <3>2 DEF RetriesWith, Entries, KeyAt
  <2>2. ASSUME NEW e \in RetriesWith(key) PROVE e \in E
    <3>1. PICK p \in 0 .. n - 1 : e \in index[p].rows BY DEF RetriesWith, Entries
    <3>2. e \in IndexedRows(n, p) BY <1>4, <3>1
    <3> QED BY <3>2 DEF RetriesWith, KeyAt, IndexedRows
  <2> QED BY <2>1, <2>2
<1>7. ASSUME NEW e \in E PROVE Place(e) = <<e[1] % n, e[1], e[2]>>
  <2>1. e \in Entries BY <1>6 DEF RetriesWith
  <2>2. Place(e)[1] \in 0 .. n - 1 /\ e \in index[Place(e)[1]].rows
    BY <1>0, <1>2, <2>1, PlaceFacts
  <2>3. Place(e)[1] = e[1] % n BY <1>4, <2>2 DEF IndexedRows
  <2>4. Place(e) \in Nat \X Nat \X Nat /\ Place(e)[2] = e[1] /\ Place(e)[3] = e[2]
    BY <1>0, <1>2, <2>1, PlaceFacts
  <2> QED BY <2>3, <2>4
<1>8. E # {} => ~Selected(row)
  <2>1. ASSUME NEW e \in E PROVE key \in RetriesOf(f)
    <3>1. e \in Entries /\ KeyAt(e) = key BY <1>6 DEF RetriesWith
    <3> QED BY <3>1 DEF RetriesOf, Key
  <2> QED BY <1>2, <2>1 DEF Settled, Replaced
<1>9. ASSUME Fixed(row) PROVE \E e \in Newest : row.ok = Converged(retries[e[1]][e[2]].verdict)
  <2>1. key \in RetriesOf(f) /\ row.ok = Converged(Latest(key)) BY <1>0, <1>9 DEF FixedRight
  <2>2. RetriesWith(key) # {} BY <2>1 DEF RetriesOf, RetriesWith
  <2>3. PICK e \in RetriesWith(key) : /\ Latest(key) = retries[e[1]][e[2]].verdict
                                      /\ \A d \in RetriesWith(key) : ~Precedes(Place(e), Place(d))
    BY <1>0, <1>2, <2>2, LatestIs
  <2>4. e \in E BY <1>6
  <2>5. ASSUME NEW d \in E
        PROVE  \/ d[1] = e[1] /\ d[2] <= e[2]
               \/ d[1] # e[1] /\ (d[1] % n < e[1] % n \/ (d[1] % n = e[1] % n /\ d[1] < e[1]))
    <3>1. ~Precedes(<<e[1] % n, e[1], e[2]>>, <<d[1] % n, d[1], d[2]>>) BY <1>6, <1>7, <2>3, <2>4
    <3>2. /\ e[1] \in Nat /\ e[2] \in Nat /\ e[1] % n \in Nat
          /\ d[1] \in Nat /\ d[2] \in Nat /\ d[1] % n \in Nat
      <4>1. e \in Pointers /\ d \in Pointers BY <2>4
      <4> QED BY <1>3, <1>5, <4>1
    <3> HIDE DEF n
    <3> QED BY <3>1, <3>2 DEF Precedes
  <2>6. e \in Newest BY <2>4, <2>5
  <2> QED BY <2>1, <2>3, <2>6
<1> QED BY <1>1, <1>8, <1>9

\* The repair campaign lists every selected row once, never merges a source with
\* some of its retries only, and a complete merge over an index of one task count
\* gives each row the last of its retries (prepare, build_merge_index,
\* _apply_retries and merge-finalize of repair_failed_campaign_cases).
THEOREM RowsAreSound == RepairSpec => []RowsSound
<1>1. RepairIInv => CandidatesComplete /\ NeverMixed /\ MergedExactly
  BY ListIsComplete, NoneMixed, MergeIsExact
<1> QED BY <1>1, RepairInvariant, RepairKeepsTypes, PTL DEF RowsSound

\* A repaired row is never written again (the selection in _apply_retries and the
\* order of backfill and repair).
THEOREM RepairsAreFinal == RepairSpec => RepairedOnce
<1>1. RepairIInv /\ [RepairNext]_repairVars =>
        [\A f \in Sources : \A i \in 1 .. Len(samples[f]) :
           Fixed(samples[f][i]) => samples'[f][i] = samples[f][i]]_repairVars
  <2> SUFFICES ASSUME RepairIInv, [RepairNext]_repairVars, NEW f \in Sources, NEW i \in 1 .. Len(samples[f]),
                      Fixed(samples[f][i])
               PROVE  samples'[f][i] = samples[f][i]
    OBVIOUS
  <2>1. Settled(f) BY DEF RepairIInv, FixedRight
  <2>2. samples'[f] = samples[f] BY <2>1, SettledStays DEF RepairIInv, Shapes
  <2> QED BY <2>2
<1> QED BY <1>1, RepairInvariant, PTL DEF RepairSpec, RepairedOnce
=============================================================================
