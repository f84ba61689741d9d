--------------------------- MODULE SourceDownload ---------------------------
(***************************************************************************)
(* Fetching the archives of a source (scripts/download_sources.py with     *)
(* sources/download.py) and judging what is there (sources/validation.py). *)
(*                                                                         *)
(* A run goes over the archives one after the other: it hashes what is on  *)
(* disk, lets curl fetch or resume what is missing, extracts it, and at    *)
(* the end writes the manifest the next run starts from, and its report.   *)
(* It may be killed at any step, curl may give up, and the publisher may   *)
(* replace an archive between two runs.                                    *)
(*                                                                         *)
(* The content of a file is the sequence of its chunks, each named by the  *)
(* version of the archive it comes from; its SHA-256 is the content.       *)
(***************************************************************************)
EXTENDS Integers, Sequences, SequencesExt

CONSTANTS
  Order,      \* the archives of the source in the order of the configuration
  Kind,       \* Kind[a]: "zip", whose index is at its end, or "tar"
  Expected,   \* Expected[a]: the version of expected_sha256, 0 if it is null
  Chunks,     \* chunks of an archive
  Versions,   \* versions the publisher may offer
  MaxFaults,  \* bound: runs killed and curls that gave up
  MaxNews     \* bound: archives replaced by the publisher

Archives == Range(Order)

ASSUME OrderAssumption == Order \in Seq(Archives) /\ Order # <<>>
ASSUME ExpectedAssumption == Expected \in [Archives -> Versions \cup {0}]
ASSUME BoundsAssumption ==
  /\ Chunks \in Nat \ {0} /\ Versions \subseteq Nat \ {0} /\ 1 \in Versions
  /\ MaxFaults \in Nat /\ MaxNews \in Nat

Whole(v) == [i \in 1 .. Chunks |-> v]
None == <<0>>       \* there is no such file
Partly == <<-1>>    \* a directory of an extraction that did not end
Contents == UNION {[1 .. n -> Versions] : n \in 0 .. Chunks}

VARIABLES
  remote,     \* remote[a]: the version that is offered
  raw,        \* raw[a]: raw/<filename>
  legacy,     \* legacy[a]: <filename> beside raw/, where it used to be
  manifest,   \* manifest[a]: the hash in source_manifest.yaml, None without one;
              \* TornManifest when the file cannot be parsed
  extracted,  \* extracted[a]: what extracted/<stem>/ was extracted from
  run,        \* the run in progress
  report,     \* the last report: its options and whether it is ok
  faults, news,
  killed      \* a run has been killed since the last report (history)

files == <<raw, legacy, extracted>>
vars == <<remote, files, manifest, run, report, faults, news, killed>>

\* A manifest that was cut where YAML does not end: the content of no archive.
TornManifest == [a \in Archives |-> <<-2>>]

Idle == [pc |-> "idle", at |-> 0, download |-> FALSE, extract |-> FALSE, ok |-> TRUE,
         hashes |-> [a \in Archives |-> None]]
NoReport == [ok |-> FALSE, download |-> FALSE, extract |-> FALSE]
Here == Order[run.at]
Exists(content) == content # None
Full(content) == Exists(content) /\ Len(content) = Chunks
Matches(a, content) == Expected[a] # 0 /\ content = Whole(Expected[a])

\* Archives of an earlier layout lie beside raw/, whole or as far as they came.
Init == /\ remote \in [Archives -> Versions]
        /\ legacy \in [Archives -> {None} \cup {SubSeq(Whole(1), 1, n) : n \in 1 .. Chunks}]
        /\ raw = [a \in Archives |-> None]
        /\ manifest = [a \in Archives |-> None] /\ extracted = [a \in Archives |-> None]
        /\ run = Idle /\ report = NoReport /\ faults = 0 /\ news = 0 /\ killed = FALSE

-----------------------------------------------------------------------------
(* A run *)

\* load_existing_manifest raises on a manifest that is torn, before anything is looked
\* at, and so does every later run: nothing but a run that ends writes it again.
Start(download, extract) ==
  /\ run.pc = "idle" /\ manifest # TornManifest
  /\ run' = [Idle EXCEPT !.pc = "check", !.at = 1, !.download = download, !.extract = extract]
  /\ UNCHANGED <<remote, files, manifest, report, faults, news, killed>>

\* Variant with a bug: the hash of the last manifest is taken for the expected one.
Verified_ByManifest(a, content) ==
  Exists(content) /\ (manifest[a] = content \/ Matches(a, content))

\* already_verified: the hash is the expected one or, where none is known, that
\* of the last manifest.
Verified(a, content) ==
  /\ Exists(content)
  /\ IF Expected[a] # 0 THEN Matches(a, content) ELSE manifest[a] = content

\* Variant with a bug: what is there is not fetched again.
ToFetch_Missing(a, content) == ~Verified(a, content) /\ ~Exists(content)

ToFetch(a, content) ==
  ~Verified(a, content) /\ (~Exists(content) \/ (Expected[a] # 0 /\ ~Matches(a, content)))

\* normalize_legacy_archive_location, then the hash of what is there.
Check ==
  /\ run.pc = "check"
  /\ LET a == Here
         moved == ~Exists(raw[a]) /\ Exists(legacy[a])
         content == IF moved THEN legacy[a] ELSE raw[a]
     IN /\ raw' = [raw EXCEPT ![a] = content]
        /\ legacy' = IF moved THEN [legacy EXCEPT ![a] = None] ELSE legacy
        /\ run' = [run EXCEPT !.pc = IF run.download /\ ToFetch(a, content) THEN "curl" ELSE "extract",
                              !.hashes[a] = content]
  /\ UNCHANGED <<remote, manifest, extracted, report, faults, news, killed>>

\* curl --continue-at -: what is offered is appended behind what is there, up to
\* chunk n; a file that has all its chunks stays as it is.
Fetched(a, n) ==
  LET have == IF Exists(raw[a]) THEN raw[a] ELSE <<>>
  IN have \o SubSeq(Whole(remote[a]), Len(have) + 1, n)
Have(a) == IF Exists(raw[a]) THEN Len(raw[a]) ELSE 0

AfterFetch(a, content, gaveUp) ==
  [run EXCEPT !.pc = "extract", !.hashes[a] = content,
              !.ok = @ /\ ~gaveUp /\ (Expected[a] # 0 /\ Exists(content) => Matches(a, content))]

Fetch ==
  /\ run.pc = "curl"
  /\ raw' = [raw EXCEPT ![Here] = Fetched(Here, Chunks)]
  /\ run' = AfterFetch(Here, Fetched(Here, Chunks), FALSE)
  /\ UNCHANGED <<remote, legacy, manifest, extracted, report, faults, news, killed>>

\* curl gives up after its retries; without any byte there is no file.  A file that
\* has all its bytes and is asked for once more may be an error to the server.
FetchFails ==
  /\ run.pc = "curl" /\ faults < MaxFaults
  /\ \E n \in Have(Here) .. Chunks :
       LET got == IF n = 0 THEN raw[Here] ELSE Fetched(Here, n)
       IN raw' = [raw EXCEPT ![Here] = got] /\ run' = AfterFetch(Here, got, TRUE)
  /\ faults' = faults + 1
  /\ UNCHANGED <<remote, legacy, manifest, extracted, report, news, killed>>

\* What becomes of the extraction: a zip without its index is no archive, which is
\* not an error; one that is damaged, and a tar that is cut, raises on the way.
Supported(a, content) == Full(content) \/ (Kind[a] = "tar" /\ content # <<>>)
Sound(content) == \E v \in Versions : content = Whole(v)

Extracting(a) == run.extract /\ Exists(raw[a]) /\ Supported(a, raw[a])

Extract ==
  /\ run.pc = "extract"
  /\ extracted' = IF ~Extracting(Here) THEN extracted
                  ELSE [extracted EXCEPT ![Here] = IF Sound(raw[Here]) THEN raw[Here] ELSE Partly]
  /\ run' = [run EXCEPT !.ok = IF Extracting(Here) /\ ~Sound(raw[Here]) THEN FALSE ELSE @,
                        !.at = IF @ < Len(Order) THEN @ + 1 ELSE @,
                        !.pc = IF run.at < Len(Order) THEN "check" ELSE "manifest"]
  /\ UNCHANGED <<remote, raw, legacy, manifest, report, faults, news, killed>>

WriteManifest ==
  /\ run.pc = "manifest"
  /\ manifest' = run.hashes
  /\ run' = [run EXCEPT !.pc = "report"]
  /\ UNCHANGED <<remote, files, report, faults, news, killed>>

Report ==
  /\ run.pc = "report"
  /\ report' = [ok |-> run.ok, download |-> run.download, extract |-> run.extract]
  /\ run' = Idle /\ killed' = FALSE
  /\ UNCHANGED <<remote, files, manifest, faults, news>>

\* The manifest cut behind the k-th archive, where it can be parsed.
WrittenTo(k) ==
  [a \in Archives |-> IF \E i \in 1 .. k : Order[i] = a THEN run.hashes[a] ELSE None]

\* A kill while curl runs leaves what it has fetched, one during an extraction a
\* directory with some files, one while the manifest is written (in place) an empty
\* manifest, some of its archives, or one that is torn.
Killed == faults < MaxFaults /\ faults' = faults + 1 /\ run' = Idle /\ killed' = TRUE

KillFetching ==
  /\ run.pc = "curl" /\ Killed
  /\ \E n \in Have(Here) .. Chunks : raw' = [raw EXCEPT ![Here] = Fetched(Here, n)]
  /\ UNCHANGED <<remote, legacy, extracted, manifest, report, news>>

KillExtracting ==
  /\ run.pc = "extract" /\ Extracting(Here) /\ Killed
  /\ extracted' = [extracted EXCEPT ![Here] = Partly]
  /\ UNCHANGED <<remote, raw, legacy, manifest, report, news>>

KillWriting ==
  /\ run.pc \in {"manifest", "report"} /\ Killed
  /\ manifest' \in IF run.pc = "report" THEN {manifest}
                   ELSE {TornManifest} \cup {WrittenTo(k) : k \in 0 .. Len(Order)}
  /\ UNCHANGED <<remote, files, report, news>>

\* The publisher replaces an archive.
Publish(a, v) ==
  /\ run.pc = "idle" /\ news < MaxNews /\ v # remote[a]
  /\ remote' = [remote EXCEPT ![a] = v] /\ news' = news + 1
  /\ UNCHANGED <<files, manifest, run, report, faults, killed>>

Step == Check \/ Fetch \/ Extract \/ WriteManifest \/ Report
Kill == KillFetching \/ KillExtracting \/ KillWriting
Next ==
  \/ \E download, extract \in BOOLEAN : Start(download, extract)
  \/ Step \/ FetchFails \/ Kill
  \/ \E a \in Archives, v \in Versions : Publish(a, v)

Spec == Init /\ [][Next]_vars
\* A run goes on, and as long as the report is not ok the download is run again, now
\* and then if other runs come between.
FairSpec == Spec /\ WF_vars(Step)
                 /\ SF_vars(~(report.ok /\ report.download) /\ Start(TRUE, TRUE))

-----------------------------------------------------------------------------
(* validate_sources, for an archive collection *)
Status(a) ==
  LET content == IF Exists(raw[a]) THEN raw[a] ELSE legacy[a]
  IN CASE ~Exists(content) -> "MISSING"
       [] Exists(content) /\ ~Supported(a, content) -> "UNSUPPORTED_FORMAT"
       [] Exists(content) /\ Supported(a, content) /\ Expected[a] # 0 /\ ~Matches(a, content)
            -> "CHECKSUM_MISMATCH"
       [] OTHER -> "VALIDATED"

-----------------------------------------------------------------------------
TypeOK ==
  /\ remote \in [Archives -> Versions]
  /\ raw \in [Archives -> Contents \cup {None}] /\ legacy \in [Archives -> Contents \cup {None}]
  /\ manifest \in [Archives -> Contents \cup {None}] \cup {TornManifest}
  /\ extracted \in [Archives -> Contents \cup {None, Partly}]
  /\ run \in [pc : {"idle", "check", "curl", "extract", "manifest", "report"}, at : 0 .. Len(Order),
              download : BOOLEAN, extract : BOOLEAN, ok : BOOLEAN,
              hashes : [Archives -> Contents \cup {None}]]
  /\ run.pc \notin {"idle"} => run.at \in 1 .. Len(Order)
  /\ report \in [ok : BOOLEAN, download : BOOLEAN, extract : BOOLEAN]
  /\ faults \in 0 .. MaxFaults /\ news \in 0 .. MaxNews
  /\ killed \in BOOLEAN

\* Once a run that downloads has reported that all is well, every archive with an
\* expected checksum is the expected one and stays it, whatever is published, cut or
\* killed afterwards.
ReportHonest ==
  report.ok /\ report.download => \A a \in Archives : Expected[a] # 0 => raw[a] = Whole(Expected[a])

\* What is extracted when a run reports that all is well is the whole of the expected
\* archive, though kills left directories half filled before; it stays it until
\* another extraction is killed.
ExtractedExpected ==
  report.ok /\ report.download /\ report.extract /\ ~killed =>
    \A a \in Archives : Expected[a] # 0 => extracted[a] = Whole(Expected[a])

\* The validator agrees with the report of a run that downloads, except on a zip that
\* is cut and that nothing but its end can tell.
ValidatorAgrees ==
  report.ok /\ report.download =>
    \A a \in Archives : Status(a) = "VALIDATED" \/ (Expected[a] = 0 /\ ~Full(raw[a]))

\* What a run reports, extracts and the validator sees is the same: see the parts.
ArchivesSound == TypeOK /\ ReportHonest /\ ExtractedExpected /\ ValidatorAgrees

\* A download that was cut is resumed until the archive is the expected one, as long
\* as what is there and what is offered are of that version and no kill has torn the
\* manifest.
Resumable(a) ==
  /\ Expected[a] # 0 /\ remote[a] = Expected[a] /\ ~Exists(legacy[a])
  /\ Exists(raw[a]) => IsPrefix(raw[a], Whole(Expected[a]))
ResumeCompletes ==
  \A a \in Archives : <>[](Resumable(a) /\ manifest # TornManifest) => <>(raw[a] = Whole(Expected[a]))
=============================================================================
