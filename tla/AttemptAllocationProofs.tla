---------------------- MODULE AttemptAllocationProofs ----------------------
(***************************************************************************)
(* Proofs about AttemptAllocation: typing, exclusive ownership of attempt  *)
(* numbers, a rename that never fails, and immutable finalized attempts,   *)
(* for any set of jobs, files and left-over attempts.                      *)
(***************************************************************************)
EXTENDS AttemptAllocation, TLAPS

(***************************************************************************)
(* The inductive invariant.  A job occupies a number while the in-progress *)
(* directory of that number is there because of it: from the mkdir to the  *)
(* rename, and for ever if it is killed in between.                        *)
(***************************************************************************)
Occupies(j) == \/ pc[j] \in Holding
               \/ pc[j] = "lost" /\ idx[j] \notin final

OccupiedIsMarked == \A j \in Jobs : Occupies(j) => idx[j] \in marker
OccupierIsAlone == \A j, k \in Jobs :
                      j # k /\ Occupies(j) /\ Occupies(k) => idx[j] # idx[k]
OwnedIsUnpublished == \A j \in Jobs : pc[j] \in Owning => idx[j] \notin final
PublisherIsPublished ==
  \A j \in Jobs : pc[j] \in {"verify", "done", "failed"} => idx[j] \in final

OwnershipInv == /\ TypeOK
                /\ OccupiedIsMarked
                /\ OccupierIsAlone
                /\ OwnedIsUnpublished
                /\ PublisherIsPublished
                /\ ExclusiveOwner

\* Pc labels are plain strings: membership in the label sets is decided here.
LEMMA StateSets ==
  /\ Owning \subseteq Granted /\ Owning \subseteq Holding
  /\ Granted \subseteq Labels /\ Holding \subseteq Labels
  /\ Granted = Owning \cup {"verify", "done", "failed", "lost"}
BY DEF Owning, Holding, Granted, Stopped, Labels

\* Going on to the next number keeps the locals typed.
LEMMA AdvanceTypes ==
  ASSUME NEW j \in Jobs, LocalTypes, Advance(j), known' = known,
         pc[j] \notin {"start", "scan", "dead"}
  PROVE  LocalTypes'
<1>1. /\ pc' \in [Jobs -> Labels]
      /\ \A k \in Jobs : k # j => pc'[k] = pc[k]
  BY DEF LocalTypes, Advance, Goto, Labels, Stopped
<1>2. /\ idx' \in [Jobs -> Nat] /\ tries' \in [Jobs -> Nat]
      /\ idx'[j] \in Index
      /\ \A k \in Jobs : k # j => idx'[k] = idx[k]
  BY DEF LocalTypes, Advance, Index
<1> QED BY <1>1, <1>2 DEF LocalTypes

LEMMA InitTypes == Init => TypeOK
BY OldIndicesAssumption DEF Init, TypeOK, TreeTypes, LocalTypes, Index, Labels

LEMMA StepTypes == TypeOK /\ [Next]_vars => TypeOK'
<1> SUFFICES ASSUME TypeOK, [Next]_vars PROVE TypeOK'
  OBVIOUS
<1> USE DEF TypeOK, dirs
<1>1. ASSUME NEW j \in Jobs, ScanBegin(j) PROVE TypeOK'
  <2>1. TreeTypes'
    BY <1>1 DEF TreeTypes, ScanBegin
  <2>2. LocalTypes'
    BY <1>1 DEF TreeTypes, LocalTypes, ScanBegin, Goto, Labels, Holding, Owning, Granted, Stopped, Index
  <2> QED BY <2>1, <2>2
<1>2. ASSUME NEW j \in Jobs, ScanEnd(j) PROVE TypeOK'
  <2>1. TreeTypes'
    BY <1>2 DEF TreeTypes, ScanEnd
  <2>2. LocalTypes'
    BY <1>2 DEF TreeTypes, LocalTypes, ScanEnd, Goto, Labels, Holding, Owning, Granted, Stopped, Index
  <2> QED BY <2>1, <2>2
<1>3. ASSUME NEW j \in Jobs, LookFinal(j) PROVE TypeOK'
  <2>1. TreeTypes'
    BY <1>3 DEF TreeTypes, LookFinal
  <2>2. CASE Advance(j)
    BY <1>3, <2>1, <2>2, AdvanceTypes DEF LookFinal
  <2>3. CASE Goto(j, "lookMarker") /\ UNCHANGED <<idx, tries>>
    BY <1>3, <2>1, <2>3 DEF LocalTypes, LookFinal, Goto, Labels, Holding, Owning
  <2> QED BY <1>3, <2>2, <2>3 DEF LookFinal
<1>4. ASSUME NEW j \in Jobs, LookMarker(j) PROVE TypeOK'
  <2>1. TreeTypes'
    BY <1>4 DEF TreeTypes, LookMarker
  <2>2. CASE Advance(j)
    BY <1>4, <2>1, <2>2, AdvanceTypes DEF LookMarker
  <2>3. CASE Goto(j, "create") /\ UNCHANGED <<idx, tries>>
    BY <1>4, <2>1, <2>3 DEF LocalTypes, LookMarker, Goto, Labels, Holding, Owning
  <2> QED BY <1>4, <2>2, <2>3 DEF LookMarker
<1>5. ASSUME NEW j \in Jobs, Create(j) PROVE TypeOK'
  <2>1. TreeTypes'
    BY <1>5 DEF TreeTypes, Create, LocalTypes
  <2>2. CASE Advance(j)
    BY <1>5, <2>1, <2>2, AdvanceTypes DEF Create
  <2>3. CASE Goto(j, "recheck") /\ UNCHANGED <<idx, tries>>
    BY <1>5, <2>1, <2>3 DEF LocalTypes, Create, Goto, Labels, Holding, Owning
  <2> QED BY <1>5, <2>2, <2>3 DEF Create
<1>6. ASSUME NEW j \in Jobs, Recheck(j) PROVE TypeOK'
  <2>1. TreeTypes'
    BY <1>6 DEF TreeTypes, Recheck
  <2>2. LocalTypes'
    BY <1>6 DEF TreeTypes, LocalTypes, Recheck, Goto, Labels, Holding, Owning, Granted, Stopped, Index
  <2> QED BY <2>1, <2>2
<1>7. ASSUME NEW j \in Jobs, Drop(j) PROVE TypeOK'
  <2>1. TreeTypes'
    BY <1>7 DEF TreeTypes, Drop
  <2>2. LocalTypes'
    BY <1>7, AdvanceTypes DEF Drop
  <2> QED BY <2>1, <2>2
<1>8. ASSUME NEW j \in Jobs, WriteFile(j) PROVE TypeOK'
  <2>1. TreeTypes'
    <3>1. \A f \in Files : Put(j, f) => tmp' \subseteq Index \X Names \X Jobs
      <4> SUFFICES ASSUME NEW f \in Files, Put(j, f)
                   PROVE  tmp' \subseteq Index \X Names \X Jobs
        OBVIOUS
      <4>1. <<idx[j], f, j>> \in Index \X Names \X Jobs
        BY <1>8 DEF LocalTypes, WriteFile, Names
      <4> QED BY <4>1 DEF Put, TreeTypes
    <3> QED BY <1>8, <3>1 DEF TreeTypes, WriteFile
  <2>2. LocalTypes'
    BY <1>8 DEF TreeTypes, LocalTypes, WriteFile, Goto, Labels, Holding, Owning, Granted, Stopped, Index
  <2> QED BY <2>1, <2>2
<1>9. ASSUME NEW j \in Jobs, Seal(j) PROVE TypeOK'
  <2>0. Listing(tmp, idx[j]) \subseteq Names \X Jobs
    BY DEF Listing, TreeTypes
  <2>1. TreeTypes'
    <3>1. tmp' \subseteq Index \X Names \X Jobs
      BY <1>9 DEF TreeTypes, LocalTypes, Seal, Put, Names
    <3> QED BY <1>9, <2>0, <3>1 DEF TreeTypes, Seal
  <2>2. LocalTypes'
    BY <1>9 DEF TreeTypes, LocalTypes, Seal, Goto, Labels, Holding, Owning, Granted, Stopped, Index
  <2> QED BY <2>1, <2>2
<1>10. ASSUME NEW j \in Jobs, Mark(j) PROVE TypeOK'
  <2>1. TreeTypes'
    BY <1>10 DEF TreeTypes, LocalTypes, Mark, Put, Names
  <2>2. LocalTypes'
    BY <1>10 DEF TreeTypes, LocalTypes, Mark, Goto, Labels, Holding, Owning, Granted, Stopped, Index
  <2> QED BY <2>1, <2>2
<1>11. ASSUME NEW j \in Jobs, Finalize(j) PROVE TypeOK'
  <2>1. TreeTypes'
    BY <1>11 DEF TreeTypes, LocalTypes, Finalize
  <2>2. LocalTypes'
    BY <1>11 DEF TreeTypes, LocalTypes, Finalize, Goto, Labels, Holding, Owning, Granted, Stopped, Index
  <2> QED BY <2>1, <2>2
<1>12. ASSUME NEW j \in Jobs, Verify(j) PROVE TypeOK'
  <2>1. TreeTypes'
    BY <1>12 DEF TreeTypes, Verify
  <2>2. LocalTypes'
    BY <1>12 DEF TreeTypes, LocalTypes, Verify, Goto, Labels, Holding, Owning, Granted, Stopped, Index
  <2> QED BY <2>1, <2>2
<1>13. ASSUME NEW j \in Jobs, Crash(j) PROVE TypeOK'
  <2>1. TreeTypes'
    BY <1>13 DEF TreeTypes, Crash
  <2>2. LocalTypes'
    BY <1>13 DEF TreeTypes, LocalTypes, Crash, Goto, Labels, Holding, Owning, Granted, Stopped, Index
  <2> QED BY <2>1, <2>2
<1>14. CASE UNCHANGED vars
  BY <1>14 DEF vars, TreeTypes, LocalTypes
<1> QED BY <1>1, <1>2, <1>3, <1>4, <1>5, <1>6, <1>7, <1>8, <1>9, <1>10,
           <1>11, <1>12, <1>13, <1>14 DEF Next, Step

\* Every variable of the allocator keeps its type.
THEOREM TypeCorrect == Spec => []TypeOK
<1>1. Init => TypeOK
  BY InitTypes
<1>2. TypeOK /\ [Next]_vars => TypeOK'
  BY StepTypes
<1> QED BY <1>1, <1>2, PTL DEF Spec

-----------------------------------------------------------------------------
(* Ownership of attempt numbers. *)

LEMMA InitOwnership == Init => OwnershipInv
BY InitTypes DEF Init, OwnershipInv, OccupiedIsMarked, OccupierIsAlone,
   OwnedIsUnpublished, PublisherIsPublished, ExclusiveOwner, Occupies,
   Holding, Owning, Granted

LEMMA StepOwnership == OwnershipInv /\ [Next]_vars => OwnershipInv'
<1> SUFFICES ASSUME OwnershipInv, [Next]_vars PROVE OwnershipInv'
  OBVIOUS
<1>0. TypeOK /\ TypeOK'
  BY StepTypes DEF OwnershipInv
<1> USE <1>0 DEF OwnershipInv, OccupiedIsMarked, OccupierIsAlone,
        OwnedIsUnpublished, PublisherIsPublished, ExclusiveOwner, Occupies,
        Holding, Owning, Granted, TypeOK, LocalTypes, TreeTypes, dirs, Goto
<1>1. ASSUME NEW j \in Jobs, ScanBegin(j) PROVE OwnershipInv'
  BY <1>1 DEF ScanBegin
<1>2. ASSUME NEW j \in Jobs, ScanEnd(j) PROVE OwnershipInv'
  BY <1>2 DEF ScanEnd
<1>3. ASSUME NEW j \in Jobs, LookFinal(j) PROVE OwnershipInv'
  BY <1>3 DEF LookFinal, Advance
<1>4. ASSUME NEW j \in Jobs, LookMarker(j) PROVE OwnershipInv'
  BY <1>4 DEF LookMarker, Advance
<1>5. ASSUME NEW j \in Jobs, Create(j) PROVE OwnershipInv'
  BY <1>5 DEF Create, Advance
<1>6. ASSUME NEW j \in Jobs, Recheck(j) PROVE OwnershipInv'
  BY <1>6 DEF Recheck
<1>7. ASSUME NEW j \in Jobs, Drop(j) PROVE OwnershipInv'
  BY <1>7 DEF Drop, Advance
<1>8. ASSUME NEW j \in Jobs, WriteFile(j) PROVE OwnershipInv'
  BY <1>8 DEF WriteFile
<1>9. ASSUME NEW j \in Jobs, Seal(j) PROVE OwnershipInv'
  BY <1>9 DEF Seal
<1>10. ASSUME NEW j \in Jobs, Mark(j) PROVE OwnershipInv'
  BY <1>10 DEF Mark
<1>11. ASSUME NEW j \in Jobs, Finalize(j) PROVE OwnershipInv'
  BY <1>11 DEF Finalize
<1>12. ASSUME NEW j \in Jobs, Verify(j) PROVE OwnershipInv'
  BY <1>12 DEF Verify
<1>13. ASSUME NEW j \in Jobs, Crash(j) PROVE OwnershipInv'
  BY <1>13 DEF Crash
<1>14. CASE UNCHANGED vars
  BY <1>14 DEF vars
<1> QED BY <1>1, <1>2, <1>3, <1>4, <1>5, <1>6, <1>7, <1>8, <1>9, <1>10,
           <1>11, <1>12, <1>13, <1>14 DEF Next, Step

\* Two jobs never work under the same attempt number.
THEOREM Exclusive == Spec => []ExclusiveOwner
<1>1. OwnershipInv => ExclusiveOwner
  BY DEF OwnershipInv
<1> QED BY InitOwnership, StepOwnership, <1>1, PTL DEF Spec

\* A job that fills a directory can always rename it.
THEOREM RenameNeverFails == Spec => []RenameReady
<1>1. OwnershipInv => RenameReady
  BY DEF OwnershipInv, OccupiedIsMarked, OwnedIsUnpublished, RenameReady,
         Occupies, Holding
<1> QED BY InitOwnership, StepOwnership, <1>1, PTL DEF Spec

-----------------------------------------------------------------------------
(* What the directories hold. *)

TmpIsMarked == \A t \in tmp : t[1] \in marker
KeptIsFinal == \A t \in kept : t[1] \in final
OccupierWroteAll ==
  \A j \in Jobs : Occupies(j) => \A t \in tmp : t[1] = idx[j] => t[3] = j
FreshIsEmpty ==
  \A j \in Jobs : pc[j] \in {"recheck", "drop"} => \A t \in tmp : t[1] # idx[j]
Filled ==
  \A j \in Jobs : pc[j] \in {"seal", "mark", "finalize"} =>
      \A f \in Files : <<idx[j], f, j>> \in tmp
Sealed ==
  \A j \in Jobs : pc[j] \in {"mark", "finalize"} =>
      <<idx[j], "checksums", j>> \in tmp
Marked ==
  \A j \in Jobs : pc[j] = "finalize" => <<idx[j], "terminal", j>> \in tmp
OwnSums == \A j \in Jobs : sums[j] \subseteq Names \X {j}

ListedWhole ==
  \A j \in Jobs : pc[j] \in {"verify", "done"} =>
      Listing(kept, idx[j]) = Names \X {j}

ContentInv == /\ OwnershipInv
              /\ TmpIsMarked /\ KeptIsFinal
              /\ OccupierWroteAll /\ FreshIsEmpty
              /\ Filled /\ Sealed /\ Marked /\ OwnSums
              /\ ListedWhole

LEMMA InitContent == Init => ContentInv
BY InitOwnership DEF Init, ContentInv, TmpIsMarked, KeptIsFinal,
   OccupierWroteAll, FreshIsEmpty, Filled, Sealed, Marked, OwnSums,
   ListedWhole, Occupies, Holding, Owning

\* A finalized directory loses nothing and gains nothing in any step.
LEMMA StepKeeps ==
  ASSUME ContentInv, [Next]_vars, NEW i \in final
  PROVE  i \in final' /\ Listing(kept, i)' = Listing(kept, i)
<1>1. ASSUME NEW j \in Jobs, Finalize(j)
      PROVE  i \in final' /\ Listing(kept, i)' = Listing(kept, i)
  BY <1>1 DEF Finalize, Listing
<1>2. CASE UNCHANGED <<final, kept>>
  BY <1>2 DEF Listing
<1> QED BY <1>1, <1>2 DEF Next, Step, ScanBegin, ScanEnd, LookFinal,
        LookMarker, Create, Recheck, Drop, WriteFile, Seal, Mark, Verify,
        Crash, dirs, vars

\* The directories under construction.
TreeInv == /\ TmpIsMarked /\ KeptIsFinal
           /\ OccupierWroteAll /\ FreshIsEmpty
           /\ Filled /\ Sealed /\ Marked /\ OwnSums

LEMMA StepTree == ContentInv /\ [Next]_vars => TreeInv'
<1> SUFFICES ASSUME ContentInv, [Next]_vars PROVE TreeInv'
  OBVIOUS
<1>0. OwnershipInv /\ OwnershipInv'
  BY StepOwnership DEF ContentInv
<1> USE DEF TmpIsMarked, KeptIsFinal, OccupierWroteAll, FreshIsEmpty, Filled,
        Sealed, Marked, OwnSums, TreeInv, ContentInv
<1> USE <1>0 DEF OwnershipInv, OccupiedIsMarked, OccupierIsAlone,
        OwnedIsUnpublished, Occupies, Holding, Owning, Granted,
        TypeOK, LocalTypes, TreeTypes, dirs, Goto
<1>1. ASSUME NEW j \in Jobs, ScanBegin(j) PROVE TreeInv'
  BY <1>1 DEF ScanBegin
<1>2. ASSUME NEW j \in Jobs, ScanEnd(j) PROVE TreeInv'
  BY <1>2 DEF ScanEnd
<1>3. ASSUME NEW j \in Jobs, LookFinal(j) PROVE TreeInv'
  BY <1>3 DEF LookFinal, Advance
<1>4. ASSUME NEW j \in Jobs, LookMarker(j) PROVE TreeInv'
  BY <1>4 DEF LookMarker, Advance
<1>5. ASSUME NEW j \in Jobs, Create(j) PROVE TreeInv'
  BY <1>5 DEF Create, Advance
<1>6. ASSUME NEW j \in Jobs, Recheck(j) PROVE TreeInv'
  BY <1>6 DEF Recheck
<1>7. ASSUME NEW j \in Jobs, Drop(j) PROVE TreeInv'
  BY <1>7 DEF Drop, Advance
<1>8. ASSUME NEW j \in Jobs, WriteFile(j) PROVE TreeInv'
  <2>1. ASSUME NEW f \in Files, Put(j, f), UNCHANGED pc PROVE TreeInv'
    BY <1>8, <2>1 DEF WriteFile, Put, Names
  <2>2. CASE UNCHANGED tmp
    BY <1>8, <2>2 DEF WriteFile
  <2> QED BY <1>8, <2>1, <2>2 DEF WriteFile
<1>9. ASSUME NEW j \in Jobs, Seal(j) PROVE TreeInv'
  BY <1>9 DEF Seal, Put, Listing, Names
<1>10. ASSUME NEW j \in Jobs, Mark(j) PROVE TreeInv'
  BY <1>10 DEF Mark, Put, Names
<1>11. ASSUME NEW j \in Jobs, Finalize(j) PROVE TreeInv'
  BY <1>11 DEF Finalize
<1>12. ASSUME NEW j \in Jobs, Verify(j) PROVE TreeInv'
  BY <1>12 DEF Verify
<1>13. ASSUME NEW j \in Jobs, Crash(j) PROVE TreeInv'
  BY <1>13 DEF Crash, PublisherIsPublished
<1>14. CASE UNCHANGED vars
  BY <1>14 DEF vars
<1> QED BY <1>1, <1>2, <1>3, <1>4, <1>5, <1>6, <1>7, <1>8, <1>9, <1>10,
           <1>11, <1>12, <1>13, <1>14 DEF Next, Step

\* A directory that holds exactly one job's files is signed by that job, and
\* its checksum list names only files that are there.
LEMMA SignedByOwner == OwnSums /\ ListedWhole => PublishedWhole
<1> SUFFICES ASSUME OwnSums, ListedWhole,
                    NEW j \in Jobs, pc[j] \in {"verify", "done"}
             PROVE  Intact(idx[j])
  BY DEF PublishedWhole, ListedWhole
<1>0. Listing(kept, idx[j]) = Names \X {j}
  BY DEF ListedWhole
<1>1. <<"checksums", j>> \in Listing(kept, idx[j])
  BY <1>0 DEF Names
<1>2. PICK e \in kept : e[1] = idx[j] /\ e[2] = "checksums" /\ e[3] = j
  BY <1>1 DEF Listing
<1>3. \A x \in kept : x[1] = idx[j] => x[3] = j
  <2> SUFFICES ASSUME NEW x \in kept, x[1] = idx[j] PROVE x[3] = j
    OBVIOUS
  <2>1. <<x[2], x[3]>> \in Listing(kept, idx[j])
    BY DEF Listing
  <2> QED BY <1>0, <2>1
<1>4. Signers(idx[j]) = {j}
  BY <1>2, <1>3 DEF Signers
<1> QED BY <1>0, <1>4 DEF Intact, OwnSums

\* Once published, an attempt keeps its contents; a job that publishes moves
\* all it wrote, and nothing else.
LEMMA StepListed == ContentInv /\ [Next]_vars => ListedWhole'
<1> SUFFICES ASSUME ContentInv, [Next]_vars,
                    NEW j \in Jobs, pc'[j] \in {"verify", "done"}
             PROVE  Listing(kept', idx'[j]) = Names \X {j}
  BY DEF ListedWhole, Listing
<1>0. TypeOK /\ OwnershipInv
  BY DEF ContentInv, OwnershipInv
<1> USE DEF TypeOK, LocalTypes
<1>1. CASE pc[j] \in {"verify", "done"}
  <2>1. idx'[j] = idx[j]
    BY <1>0, <1>1 DEF Next, Step, ScanBegin, ScanEnd, LookFinal, LookMarker,
       Create, Recheck, Drop, WriteFile, Seal, Mark, Finalize, Verify, Crash,
       Advance, vars
  <2>2. idx[j] \in final
    BY <1>0, <1>1, SignedByOwner DEF OwnershipInv, PublisherIsPublished
  <2>3. Listing(kept', idx[j]) = Listing(kept, idx[j])
    BY <2>2, StepKeeps DEF Listing
  <2> QED BY <1>1, <2>1, <2>3 DEF ContentInv, ListedWhole
<1>2. CASE pc[j] = "finalize" /\ Finalize(j)
  <2>2. /\ idx'[j] = idx[j]
        /\ kept' = kept \cup {t \in tmp : t[1] = idx[j]}
    BY <1>0, <1>2 DEF Finalize, Goto
  <2>3. \A t \in kept : t[1] # idx[j]
    BY <1>0, <1>2 DEF ContentInv, KeptIsFinal, OwnershipInv,
       OwnedIsUnpublished, Owning
  <2>4. \A t \in tmp : t[1] = idx[j] => t[3] = j
    BY <1>2 DEF ContentInv, OccupierWroteAll, Occupies, Holding, Owning
  <2>5. \A n \in Names : <<idx[j], n, j>> \in tmp
    BY <1>2 DEF ContentInv, Filled, Sealed, Marked, Names
  <2>6. Listing(kept', idx[j]) = {<<e[2], e[3]>> : e \in {t \in tmp : t[1] = idx[j]}}
    BY <2>2, <2>3 DEF Listing
  <2>7. ASSUME NEW e \in tmp, e[1] = idx[j]
        PROVE  <<e[2], e[3]>> \in Names \X {j}
    BY <1>0, <2>4, <2>7 DEF TreeTypes
  <2>8. ASSUME NEW n \in Names
        PROVE  \E e \in tmp : e[1] = idx[j] /\ <<e[2], e[3]>> = <<n, j>>
    BY <2>5
  <2> QED BY <2>2, <2>6, <2>7, <2>8
<1> QED BY <1>0, <1>1, <1>2 DEF Next, Step, ScanBegin, ScanEnd, LookFinal,
        LookMarker, Create, Recheck, Drop, WriteFile, Seal, Mark, Finalize,
        Verify, Crash, Advance, Goto, vars

LEMMA StepContent == ContentInv /\ [Next]_vars => ContentInv'
BY StepOwnership, StepTree, StepListed DEF ContentInv, TreeInv

\* A published attempt holds exactly what its job wrote and verifies.
THEOREM PublishedIsWhole == Spec => []PublishedWhole
<1>1. ContentInv => PublishedWhole
  BY SignedByOwner DEF ContentInv
<1> QED BY InitContent, StepContent, <1>1, PTL DEF Spec

\* Numbers are exclusive, renames succeed and publications are whole, for any
\* number of jobs, at any interleaving.
THEOREM AttemptsAreSound == Spec => []AttemptsSound
BY TypeCorrect, Exclusive, RenameNeverFails, PublishedIsWhole, PTL DEF AttemptsSound

\* "Never overwrite attempts": finalized directories never change.
THEOREM FinalizedNeverChanges == Spec => FinalizedImmutable
<1>1. ContentInv /\ [Next]_vars => [KeepsFinal]_vars
  BY StepKeeps DEF KeepsFinal
<1> QED BY InitContent, StepContent, <1>1, PTL DEF Spec, FinalizedImmutable

-----------------------------------------------------------------------------
(* The refinement: a grant is the re-check that finds no finalized name, a *)
(* publication is the rename, and every other step stutters.               *)

Slot == [j \in Jobs |-> IF pc[j] \in Granted THEN idx[j] ELSE 0]

LEMMA InitLedger == Init => Ledger!Init
BY OldIndicesAssumption DEF Init, Ledger!Init, Granted, Owning

LEMMA StepLedger ==
  OwnershipInv /\ OwnershipInv' /\ [Next]_vars => [Ledger!Next]_(Ledger!ledger)
<1> SUFFICES ASSUME OwnershipInv, OwnershipInv', [Next]_vars
             PROVE  [Ledger!Next]_(Ledger!ledger)
  OBVIOUS
<1> USE DEF OwnershipInv, TypeOK, LocalTypes, Ledger!ledger, Ledger!Next,
        Granted, Owning, Goto
<1>1. ASSUME NEW j \in Jobs, Recheck(j), idx[j] \notin final
      PROVE  Ledger!Grant(j)
  <2>1. /\ pc' = [pc EXCEPT ![j] = "write"] /\ idx' = idx /\ final' = final
        /\ pc[j] = "recheck"
    BY <1>1 DEF Recheck, dirs
  <2>2. /\ Slot[j] = 0 /\ Slot'[j] = idx[j]
        /\ idx[j] \in Nat \ (final \cup {0})
    BY <1>1, <2>1 DEF Slot, Index
  <2>3. ASSUME NEW k \in Jobs PROVE Slot[k] # idx[j]
    BY <2>1, <2>2 DEF Slot, ExclusiveOwner
  <2>4. Slot' = [Slot EXCEPT ![j] = idx[j]]
    BY <2>1 DEF Slot
  <2> QED BY <2>1, <2>2, <2>3, <2>4 DEF Ledger!Grant, Slot
<1>2. ASSUME NEW j \in Jobs, Finalize(j), final' # final
      PROVE  Ledger!Publish(j)
  <2>1. /\ pc[j] = "finalize" /\ pc' = [pc EXCEPT ![j] = "verify"]
        /\ idx' = idx /\ final' = final \cup {idx[j]} /\ idx[j] \notin final
    BY <1>2 DEF Finalize
  <2>2. Slot[j] = idx[j] /\ idx[j] # 0 /\ Slot' = Slot
    BY <2>1 DEF Slot, Index
  <2> QED BY <2>1, <2>2 DEF Ledger!Publish, Slot
<1>3. ASSUME Slot' = Slot, final' = final
      PROVE  UNCHANGED Ledger!ledger
  BY <1>3 DEF Slot
<1>4. ASSUME NEW j \in Jobs, Step(j) \/ Crash(j),
             ~(Recheck(j) /\ idx[j] \notin final),
             ~(Finalize(j) /\ final' # final)
      PROVE  Slot' = Slot /\ final' = final
  <2> USE DEF Slot, dirs, Advance, Stopped
  <2>1. CASE ScanBegin(j) \/ ScanEnd(j)
    BY <2>1 DEF ScanBegin, ScanEnd
  <2>2. CASE LookFinal(j) \/ LookMarker(j) \/ Create(j) \/ Drop(j)
    BY <2>2 DEF LookFinal, LookMarker, Create, Drop
  <2>3. CASE Recheck(j)
    BY <1>4, <2>3 DEF Recheck
  <2>4. CASE WriteFile(j) \/ Seal(j) \/ Mark(j) \/ Verify(j)
    BY <2>4 DEF WriteFile, Seal, Mark, Verify
  <2>5. CASE Finalize(j)
    BY <1>4, <2>5 DEF Finalize
  <2>6. CASE Crash(j)
    BY <2>6 DEF Crash
  <2> QED BY <1>4, <2>1, <2>2, <2>3, <2>4, <2>5, <2>6 DEF Step
<1>5. CASE UNCHANGED vars
  BY <1>5, <1>3 DEF vars, Slot
<1> QED BY <1>1, <1>2, <1>3, <1>4, <1>5 DEF Next

\* The allocator implements the ledger of exclusive attempt slots.
THEOREM AllocatorImplementsLedger == Spec => ImplementsLedger
BY InitOwnership, StepOwnership, InitLedger, StepLedger, PTL
   DEF Spec, ImplementsLedger, Ledger!Spec
=============================================================================
