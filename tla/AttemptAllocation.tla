------------------------- MODULE AttemptAllocation -------------------------
(***************************************************************************)
(* Allocation, filling and finalization of attempt directories by jobs     *)
(* that share one solver directory (storage/layout.py and the writers that *)
(* call it: round_runner._write_attempt, run_scopf._run_one_case, ...).    *)
(*                                                                         *)
(* The file system is the shared state.  Attempt number i is present under *)
(* two possible names: `.attempt_i.in_progress' (i \in marker) and         *)
(* `attempt_i' (i \in final).  Every system call is one step, so the       *)
(* existence checks, the mkdir, the re-check and the rename of different   *)
(* jobs interleave freely, and a job may be killed between any two.        *)
(***************************************************************************)
EXTENDS Naturals, FiniteSets

CONSTANTS Jobs,         \* executions of a solver script for one configuration
          Files,        \* the artifacts a job writes into its directory
          OldIndices,   \* attempt numbers earlier runs may have left behind
          MaxTries      \* max_attempts of create_next_attempt_directory

ASSUME OldIndicesAssumption == OldIndices \subseteq Nat \ {0}
ASSUME MaxTriesAssumption == MaxTries \in Nat \ {0}
ASSUME FilesAssumption == Files \cap {"checksums", "terminal"} = {}

Index == Nat \ {0}
Names == Files \cup {"checksums", "terminal"}

VARIABLES
  marker,   \* numbers i whose in-progress directory exists
  final,    \* numbers i whose finalized directory exists
  tmp,      \* <<i, name, j>>: file `name' in progress directory i, by job j
  kept,     \* the same for finalized directories
  sums,     \* sums[j]: the <<name, writer>> pairs job j's checksum file lists
  idx,      \* idx[j]: the local variable `index' of job j
  tries,    \* tries[j]: iterations of the claim loop made so far
  known,    \* known[j]: numbers finalized before job j began to list
  pc        \* pc[j]: where job j is

dirs == <<marker, final, tmp, kept, sums>>
vars == <<marker, final, tmp, kept, sums, idx, tries, known, pc>>

Owning  == {"write", "seal", "mark", "finalize"}
Holding == Owning \cup {"recheck", "drop"}
Granted == Owning \cup {"verify", "done", "failed", "lost"}
Stopped == {"done", "failed", "lost", "exhausted", "dead"}
Labels  == Holding \cup Stopped \cup
           {"start", "scan", "lookFinal", "lookMarker", "create", "verify"}

Init == /\ final \in SUBSET OldIndices
        /\ marker \in SUBSET (OldIndices \ final)
        /\ tmp = {} /\ kept = {}
        /\ sums = [j \in Jobs |-> {}]
        /\ idx = [j \in Jobs |-> 0]
        /\ tries = [j \in Jobs |-> 0]
        /\ known = [j \in Jobs |-> {}]
        /\ pc = [j \in Jobs |-> "start"]

Goto(j, l) == pc' = [pc EXCEPT ![j] = l]

(***************************************************************************)
(* scan_max_attempt_index.  The listing is not atomic: an entry that is    *)
(* renamed while it runs may be missed, so the result is any number in use *)
(* (or 0) that is at least every number finalized before the scan began.   *)
(***************************************************************************)
ScanBegin(j) == /\ pc[j] = "start"
                /\ known' = [known EXCEPT ![j] = final]
                /\ Goto(j, "scan")
                /\ UNCHANGED <<dirs, idx, tries>>

ScanEnd(j) == /\ pc[j] = "scan"
              /\ \E n \in marker \cup final \cup {0} :
                    /\ \A i \in known[j] : i <= n
                    /\ idx' = [idx EXCEPT ![j] = n + 1]
              /\ known' = [known EXCEPT ![j] = {}]
              /\ Goto(j, "lookFinal")
              /\ UNCHANGED <<dirs, tries>>

\* Variant with a bug: the loop retries without `index += 1'.
Advance_SameIndex(j) ==
  /\ idx' = idx
  /\ tries' = [tries EXCEPT ![j] = @ + 1]
  /\ Goto(j, IF tries[j] + 1 = MaxTries THEN "exhausted" ELSE "lookFinal")

\* `index += 1; continue', or RuntimeError when the loop is exhausted.
Advance(j) == /\ idx' = [idx EXCEPT ![j] = @ + 1]
              /\ tries' = [tries EXCEPT ![j] = @ + 1]
              /\ Goto(j, IF tries[j] + 1 = MaxTries THEN "exhausted" ELSE "lookFinal")

\* final_dir.exists()
LookFinal(j) == /\ pc[j] = "lookFinal"
                /\ \/ /\ idx[j] \in final
                      /\ Advance(j)
                   \/ /\ idx[j] \notin final
                      /\ Goto(j, "lookMarker")
                      /\ UNCHANGED <<idx, tries>>
                /\ UNCHANGED <<dirs, known>>

\* (attempts / f".{attempt_id}.in_progress").exists()
LookMarker(j) == /\ pc[j] = "lookMarker"
                 /\ \/ /\ idx[j] \in marker
                       /\ Advance(j)
                    \/ /\ idx[j] \notin marker
                       /\ Goto(j, "create")
                       /\ UNCHANGED <<idx, tries>>
                 /\ UNCHANGED <<dirs, known>>

\* Variant with a bug: mkdir(exist_ok=True), which breaks no tie.
Create_ExistOk(j) == /\ pc[j] = "create"
                     /\ marker' = marker \cup {idx[j]}
                     /\ Goto(j, "recheck")
                     /\ UNCHANGED <<final, tmp, kept, sums, idx, tries, known>>

\* create_attempt_directory: the exclusive mkdir of the marker.
Create(j) == /\ pc[j] = "create"
             /\ \/ /\ idx[j] \in marker          \* FileExistsError
                   /\ Advance(j)
                   /\ UNCHANGED marker
                \/ /\ idx[j] \notin marker
                   /\ marker' = marker \cup {idx[j]}
                   /\ Goto(j, "recheck")
                   /\ UNCHANGED <<idx, tries>>
             /\ UNCHANGED <<final, tmp, kept, sums, known>>

\* The finalized name is looked up again once the marker is held.
Recheck(j) == /\ pc[j] = "recheck"
              /\ Goto(j, IF idx[j] \in final THEN "drop" ELSE "write")
              /\ UNCHANGED <<dirs, idx, tries, known>>

\* Variant with a bug: the clean-up removes the finalized directory.
Drop_Final(j) == /\ pc[j] = "drop"
                 /\ final' = final \ {idx[j]}
                 /\ kept' = {t \in kept : t[1] # idx[j]}
                 /\ Advance(j)
                 /\ UNCHANGED <<marker, tmp, sums, known>>

\* shutil.rmtree(in_progress, ignore_errors=True): it may leave the marker.
Drop(j) == /\ pc[j] = "drop"
           /\ \/ marker' = marker \ {idx[j]}
              \/ UNCHANGED marker
           /\ tmp' = {t \in tmp : t[1] # idx[j]}
           /\ Advance(j)
           /\ UNCHANGED <<final, kept, sums, known>>

(***************************************************************************)
(* The job fills the directory it was given, by path: the write fails when *)
(* the in-progress directory is gone.                                      *)
(***************************************************************************)
Put(j, n) == tmp' = {t \in tmp : t[1] # idx[j] \/ t[2] # n}
                      \cup {<<idx[j], n, j>>}

WriteFile(j) == /\ pc[j] = "write"
                /\ \/ /\ idx[j] \in marker
                      /\ \E f \in Files :
                            /\ <<idx[j], f, j>> \notin tmp
                            /\ Put(j, f)
                      /\ UNCHANGED pc
                   \/ /\ idx[j] \in marker
                      /\ \A f \in Files : <<idx[j], f, j>> \in tmp
                      /\ Goto(j, "seal")
                      /\ UNCHANGED tmp
                   \/ /\ idx[j] \notin marker    \* FileNotFoundError
                      /\ Goto(j, "failed")
                      /\ UNCHANGED tmp
                /\ UNCHANGED <<marker, final, kept, sums, idx, tries, known>>

\* The <<name, writer>> pairs of directory i in the tree `t'.
Listing(t, i) == {<<e[2], e[3]>> : e \in {x \in t : x[1] = i}}

\* build_artifacts_manifest and write_checksums: the file names its inputs.
Seal(j) == /\ pc[j] = "seal"
           /\ sums' = [sums EXCEPT ![j] = Listing(tmp, idx[j])]
           /\ Put(j, "checksums")
           /\ Goto(j, "mark")
           /\ UNCHANGED <<marker, final, kept, idx, tries, known>>

\* The terminal marker, SUCCESS or NONCONVERGENT, comes after the checksums.
Mark(j) == /\ pc[j] = "mark"
           /\ Put(j, "terminal")
           /\ Goto(j, "finalize")
           /\ UNCHANGED <<marker, final, kept, sums, idx, tries, known>>

(***************************************************************************)
(* finalize_attempt_directory: rename(2).  It fails when the source is     *)
(* gone or the target is there (a finalized directory is never empty).     *)
(***************************************************************************)
Finalize(j) == /\ pc[j] = "finalize"
               /\ \/ /\ idx[j] \in marker /\ idx[j] \notin final
                     /\ marker' = marker \ {idx[j]}
                     /\ final' = final \cup {idx[j]}
                     /\ kept' = kept \cup {t \in tmp : t[1] = idx[j]}
                     /\ tmp' = {t \in tmp : t[1] # idx[j]}
                     /\ Goto(j, "verify")
                  \/ /\ idx[j] \notin marker \/ idx[j] \in final
                     /\ Goto(j, "failed")
                     /\ UNCHANGED <<marker, final, tmp, kept>>
               /\ UNCHANGED <<sums, idx, tries, known>>

\* The writer of the checksum file that directory i of `kept' carries.
Signers(i) == {t[3] : t \in {x \in kept : x[1] = i /\ x[2] = "checksums"}}

\* verify_checksums: every file listed is there with the listed content.
Intact(i) == /\ Signers(i) # {}
             /\ \A k \in Signers(i) : sums[k] \subseteq Listing(kept, i)

Verify(j) == /\ pc[j] = "verify"
             /\ Goto(j, IF Intact(idx[j]) THEN "done" ELSE "failed")
             /\ UNCHANGED <<dirs, idx, tries, known>>

\* A job is killed (walltime, node failure); what it left on disk stays.
Crash(j) == /\ pc[j] \notin Stopped
            /\ Goto(j, IF pc[j] \in Granted THEN "lost" ELSE "dead")
            /\ UNCHANGED <<dirs, idx, tries, known>>

Step(j) == \/ ScanBegin(j) \/ ScanEnd(j) \/ LookFinal(j) \/ LookMarker(j)
           \/ Create(j) \/ Recheck(j) \/ Drop(j)
           \/ WriteFile(j) \/ Seal(j) \/ Mark(j) \/ Finalize(j) \/ Verify(j)

Next == \E j \in Jobs : Step(j) \/ Crash(j)

\* The operating system keeps scheduling every job that is alive.
Fairness == \A j \in Jobs : WF_vars(Step(j))

Spec == Init /\ [][Next]_vars
FairSpec == Spec /\ Fairness

-----------------------------------------------------------------------------
(***************************************************************************)
(* Properties.                                                             *)
(***************************************************************************)

\* Types of the shared tree and of the jobs' local variables.
TreeTypes == /\ marker \subseteq Index /\ final \subseteq Index
             /\ tmp \subseteq Index \X Names \X Jobs
             /\ kept \subseteq Index \X Names \X Jobs
             /\ sums \in [Jobs -> SUBSET (Names \X Jobs)]
LocalTypes == /\ idx \in [Jobs -> Nat]
              /\ tries \in [Jobs -> Nat]
              /\ known \in [Jobs -> SUBSET Index]
              /\ pc \in [Jobs -> Labels]
              /\ \A j \in Jobs : pc[j] \notin {"start", "scan", "dead"}
                                   => idx[j] \in Index
TypeOK == TreeTypes /\ LocalTypes

\* No two jobs ever work under the same attempt number: the number a job got
\* from create_next_attempt_directory is exclusively its own from then on,
\* whoever is killed, finalized or still scanning meanwhile.
ExclusiveOwner ==
  \A j, k \in Jobs : j # k /\ pc[j] \in Granted /\ pc[k] \in Granted
                        => idx[j] # idx[k]

\* The directory a job fills is there and its finalized name is free, up to
\* and including the rename: no solver result is lost to a failed rename.
RenameReady ==
  \A j \in Jobs : pc[j] \in Owning => idx[j] \in marker /\ idx[j] \notin final

\* A job that found its attempt published finds all it wrote, and nothing
\* else, under the finalized name, with a checksum list it satisfies; so does
\* every later reader, crashes of other jobs included.
PublishedWhole ==
  \A j \in Jobs : pc[j] \in {"verify", "done"} =>
      /\ Listing(kept, idx[j]) = Names \X {j}
      /\ Intact(idx[j])

\* What the jobs own, fill and publish is theirs alone: see the parts.
AttemptsSound == TypeOK /\ ExclusiveOwner /\ RenameReady /\ PublishedWhole

\* "Never overwrite attempts": what a finalized directory holds never changes.
KeepsFinal == \A i \in final : /\ i \in final'
                                /\ Listing(kept, i)' = Listing(kept, i)
FinalizedImmutable == [][KeepsFinal]_vars

\* Every job that is not killed ends with its attempt published and verified: it
\* gives up neither for want of a free number nor after it was granted one.
EveryJobPublishes ==
  \A j \in Jobs : <>(pc[j] \in {"done", "lost", "dead"})

\* The allocator implements the ledger of exclusive attempt slots.
Ledger == INSTANCE AttemptLedger WITH
            slot <- [j \in Jobs |-> IF pc[j] \in Granted THEN idx[j] ELSE 0],
            published <- final
ImplementsLedger == Ledger!Spec
=============================================================================
