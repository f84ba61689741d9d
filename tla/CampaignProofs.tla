--------------------------- MODULE CampaignProofs ---------------------------
(***************************************************************************)
(* Proofs about the two chains of jobs: the supervisor and the workers of  *)
(* ScopfCampaign, and the jobs that submit jobs of CampaignDriver.         *)
(***************************************************************************)
EXTENDS ScopfCampaign, CampaignDriver, FiniteSetTheorems, SequenceTheorems,
        WellFoundedInduction, TLAPS

(***************************************************************************)
(* ScopfCampaign, for any number of tasks, workers, attempts, kills and    *)
(* unreadable reports, torn files included.                                *)
(***************************************************************************)
\* Who runs in which mode, and what the supervisor knows: nobody works while
\* it clears, its list is exactly the claims that are left, and there is none
\* when it looks at the status.
Phases ==
  /\ mode # "work" => \A w \in Workers : pc[w] = "ended"
  /\ mode = "clearing" => stale = claims
  /\ mode # "clearing" => stale = {} /\ noted = 0
  /\ mode \in {"status", "complete"} => claims = {}

IInv == TypeOK /\ Phases /\ RunsAlone /\ JobLeavesNoClaim /\ CompleteMeansFinal

DiskTypes == /\ done \in [Tasks -> {"absent", "torn", "written"}]
             /\ failed \in [Tasks -> Nat]
             /\ claims \subseteq Tasks
             /\ owner \in [Tasks -> {"absent", "torn", "written"}]
RunTypes == /\ mode \in {"clear", "clearing", "status", "work", "complete"}
            /\ stale \subseteq claims /\ noted \in stale \cup {0}
            /\ pc \in [Workers -> Labels] /\ pos \in [Workers -> 1 .. N + 1]
            /\ kills \in 0 .. MaxKills /\ raises \in 0 .. MaxRaises

\* To the next task of the manifest, or behind the last one.
LEMMA NextTaskTypes ==
  ASSUME RunTypes, NEW w \in Workers, pos[w] \in Tasks, NextTask(w)
  PROVE  pc' \in [Workers -> Labels] /\ pos' \in [Workers -> 1 .. N + 1]
<1>1. pos[w] + 1 \in 1 .. N + 1
  BY TasksAssumption DEF Tasks
<1> QED BY <1>1 DEF RunTypes, NextTask, Labels

\* Every step keeps the types.
LEMMA TypesKept == ASSUME IInv, Next PROVE (DiskTypes /\ RunTypes)'
<1> USE TasksAssumption, BoundsAssumption
<1> DiskTypes /\ RunTypes /\ Phases
  BY DEF IInv, TypeOK, DiskTypes, RunTypes
<1> USE DEF DiskTypes, RunTypes, Phases, Labels, Holding, Frame, disk, Local, At, Goto
<1>1. ASSUME NEW w \in Workers, Work(w) \/ Raise(w) PROVE (DiskTypes /\ RunTypes)'
  <2>1. CASE Look(w)
    BY NextTaskTypes, <2>1 DEF Look
  <2>2. CASE Count(w)
    BY NextTaskTypes, <2>2 DEF Count
  <2>3. CASE Claim(w)
    BY NextTaskTypes, <2>3 DEF Claim
  <2>4. CASE Own(w)
    BY <2>4 DEF Own
  <2>5. CASE RunTask(w)
    BY <2>5 DEF RunTask
  <2>6. CASE RecordDone(w)
    BY <2>6 DEF RecordDone
  <2>7. CASE RecordFailed(w)
    BY <2>7 DEF RecordFailed
  <2>8. CASE Release(w)
    <3>1. pos[w] \in Tasks
      BY <2>8 DEF Release, IInv, RunsAlone
    <3>2. pc[w] = "release" => pc' \in [Workers -> Labels] /\ pos' \in [Workers -> 1 .. N + 1]
      BY <2>8, <3>1, NextTaskTypes DEF Release
    <3>3. pc[w] # "release" => pc' \in [Workers -> Labels] /\ pos' \in [Workers -> 1 .. N + 1]
      BY <2>8 DEF Release
    <3> QED BY <2>8, <3>2, <3>3 DEF Release
  <2>9. CASE EndOfManifest(w)
    BY <2>9 DEF EndOfManifest
  <2>10. CASE Raise(w)
    BY <2>10 DEF Raise
  <2> QED BY <1>1, <2>1, <2>2, <2>3, <2>4, <2>5, <2>6, <2>7, <2>8, <2>9, <2>10 DEF Work
<1>2. CASE StartClear
  BY <1>2 DEF StartClear
<1>3. CASE NoteStale
  BY <1>3 DEF NoteStale
<1>4. CASE ClearStale
  BY <1>4 DEF ClearStale
<1>5. CASE Choke
  BY <1>5 DEF Choke
<1>6. CASE Cleared
  BY <1>6 DEF Cleared
<1>7. CASE Status
  BY <1>7 DEF Status
<1>8. CASE JobEnds
  BY <1>8 DEF JobEnds
<1>9. CASE Kill
  BY <1>9 DEF Kill
<1> QED BY <1>1, <1>2, <1>3, <1>4, <1>5, <1>6, <1>7, <1>8, <1>9 DEF Next, Supervise

LEMMA InitInv == Init => IInv
<1> USE TasksAssumption, AttemptsAssumption, BoundsAssumption
<1> SUFFICES ASSUME Init PROVE IInv
  OBVIOUS
<1>1. DiskTypes
  BY DEF Init, DiskTypes
<1>2. RunTypes
  <2>1. pc \in [Workers -> Labels] /\ pos \in [Workers -> 1 .. N + 1]
    BY DEF Init, Labels
  <2> QED BY <2>1 DEF Init, RunTypes
<1>3. Phases /\ RunsAlone /\ JobLeavesNoClaim /\ CompleteMeansFinal
  BY DEF Init, Phases, RunsAlone, JobLeavesNoClaim, CompleteMeansFinal
<1> QED BY <1>1, <1>2, <1>3 DEF IInv, TypeOK, DiskTypes, RunTypes

\* Where the workers are, for the steps that touch no claim: w holds what it
\* held before, at the same place, or holds nothing before and after.
Still(w) == /\ mode' = mode /\ claims' = claims
            /\ \A v \in Workers \ {w} : pc'[v] = pc[v] /\ pos'[v] = pos[v]
            /\ \/ pos'[w] = pos[w] /\ pc[w] \in Holding /\ pc'[w] \in Holding
               \/ pc[w] \notin Holding /\ pc'[w] \notin Holding

LEMMA StillKeeps ==
  ASSUME RunsAlone, JobLeavesNoClaim, NEW w \in Workers, Still(w)
  PROVE  (RunsAlone /\ JobLeavesNoClaim)'
<1>1. \A v \in Workers : pc'[v] \in Holding <=> pc[v] \in Holding
  BY DEF Still
<1>2. \A v \in Workers : pc[v] \in Holding => pos'[v] = pos[v]
  BY DEF Still
<1>3. RunsAlone'
  BY <1>1, <1>2 DEF RunsAlone, Still
<1>4. JobLeavesNoClaim'
  BY <1>1, <1>2 DEF JobLeavesNoClaim, Still
<1> QED BY <1>3, <1>4

\* A worker's step keeps claims and their holders together.
LEMMA WorkKeeps ==
  ASSUME IInv, NEW w \in Workers, Work(w) \/ Raise(w)
  PROVE  (RunsAlone /\ JobLeavesNoClaim)'
<1> pc \in [Workers -> Labels] /\ pos \in [Workers -> 1 .. N + 1] /\ claims \subseteq Tasks
  BY DEF IInv, TypeOK
<1> RunsAlone /\ JobLeavesNoClaim
  BY DEF IInv
<1>1. CASE Claim(w) /\ pos[w] \notin claims
  <2>1. /\ mode' = mode /\ claims' = claims \cup {pos[w]} /\ pos' = pos
        /\ pc' = [pc EXCEPT ![w] = "owner"] /\ pc[w] = "mkdir"
    BY <1>1 DEF Claim, Frame, At, Goto
  <2>2. \A v \in Workers \ {w} : pc'[v] = pc[v]
    BY <2>1
  <2>3. pc'[w] = "owner" /\ pc'[w] \in Holding /\ pc[w] \notin Holding
    BY <2>1 DEF Holding
  <2>4. RunsAlone'
    BY <1>1, <2>1, <2>2, <2>3 DEF RunsAlone
  <2>5. JobLeavesNoClaim'
    BY <2>1, <2>2, <2>3 DEF JobLeavesNoClaim
  <2> QED BY <2>4, <2>5
<1>2. CASE Release(w)
  <2>1. /\ mode = "work" /\ mode' = mode /\ claims' = claims \ {pos[w]}
        /\ \A v \in Workers \ {w} : pc'[v] = pc[v] /\ pos'[v] = pos[v]
        /\ pc'[w] \in {"look", "ended"} /\ pc[w] \in {"release", "bail"}
    BY <1>2 DEF Release, Frame, Goto, NextTask
  <2>2. pc[w] \in Holding /\ pc'[w] \notin Holding
    BY <2>1 DEF Holding
  <2>3. RunsAlone'
    BY <2>1, <2>2 DEF RunsAlone
  <2>4. JobLeavesNoClaim'
    BY <2>1, <2>2 DEF JobLeavesNoClaim
  <2> QED BY <2>3, <2>4
<1>3. ASSUME ~ Release(w), ~ (Claim(w) /\ pos[w] \notin claims) PROVE Still(w)
  <2> USE DEF Still, Holding, Frame, disk, At, Goto, NextTask
  <2>1. CASE Look(w)
    BY <2>1 DEF Look
  <2>2. CASE Count(w)
    BY <2>2 DEF Count
  <2>3. CASE Claim(w)
    BY <1>3, <2>3 DEF Claim
  <2>4. CASE Own(w)
    BY <2>4 DEF Own
  <2>5. CASE RunTask(w)
    BY <2>5 DEF RunTask
  <2>6. CASE RecordDone(w)
    BY <2>6 DEF RecordDone
  <2>7. CASE RecordFailed(w)
    BY <2>7 DEF RecordFailed
  <2>8. CASE EndOfManifest(w)
    BY <2>8 DEF EndOfManifest
  <2>9. CASE Raise(w)
    BY <2>9 DEF Raise
  <2> QED BY <1>3, <2>1, <2>2, <2>3, <2>4, <2>5, <2>6, <2>7, <2>8, <2>9 DEF Work
<1> QED BY <1>1, <1>2, <1>3, StillKeeps

\* A step outside the job keeps them too: nobody holds a claim there, and a
\* job starts when none is left.
LEMMA SuperviseKeeps ==
  ASSUME IInv, Supervise \/ Kill PROVE (RunsAlone /\ JobLeavesNoClaim)'
<1>1. CASE mode' = "work"
  <2>1. mode = "status" /\ claims' = claims /\ pc' = [w \in Workers |-> "look"]
    BY <1>1 DEF Supervise, StartClear, NoteStale, ClearStale, Choke, Cleared, Status,
                JobEnds, Kill, disk
  <2>2. claims' = {} /\ \A w \in Workers : pc'[w] \notin Holding
    BY <2>1 DEF IInv, Phases, Holding
  <2> QED BY <2>2 DEF RunsAlone, JobLeavesNoClaim
<1> QED BY <1>1 DEF RunsAlone, JobLeavesNoClaim

\* Every step keeps what the phases promise.
LEMMA PhasesKept == ASSUME IInv, Next PROVE Phases'
<1> Phases /\ stale \subseteq claims /\ noted \in stale \cup {0}
  BY DEF IInv, TypeOK
<1> USE DEF Phases, disk, Local
<1>1. ASSUME NEW w \in Workers, Work(w) \/ Raise(w) PROVE Phases'
  <2>1. mode = "work" /\ mode' = mode /\ stale' = stale /\ noted' = noted
    BY <1>1 DEF Work, Look, Count, Claim, Own, RunTask, RecordDone, RecordFailed, Release,
                EndOfManifest, Raise, Frame, At
  <2> QED BY <2>1
<1>2. CASE StartClear
  BY <1>2 DEF StartClear
<1>3. CASE NoteStale
  BY <1>3 DEF NoteStale
<1>4. CASE ClearStale
  BY <1>4 DEF ClearStale
<1>5. CASE Choke
  BY <1>5 DEF Choke
<1>6. CASE Cleared
  BY <1>6 DEF Cleared
<1>7. CASE Status
  BY <1>7 DEF Status
<1>8. CASE JobEnds
  BY <1>8 DEF JobEnds
<1>9. CASE Kill
  BY <1>9 DEF Kill
<1> QED BY <1>1, <1>2, <1>3, <1>4, <1>5, <1>6, <1>7, <1>8, <1>9 DEF Next, Supervise

\* The campaign is declared complete only in a status without pending tasks,
\* and no step leaves that state.
LEMMA CompleteKept == ASSUME IInv, Next PROVE CompleteMeansFinal'
<1> SUFFICES ASSUME mode' = "complete" PROVE CompleteMeansFinal'
  BY DEF CompleteMeansFinal
<1>1. mode = "status" /\ Pending = {} /\ done' = done /\ failed' = failed
      /\ \A t \in Tasks : done[t] # "torn"
  BY DEF Next, Supervise, StartClear, NoteStale, ClearStale, Choke, Cleared, Status, JobEnds,
         Kill, Work, Look, Count, Claim, Own, RunTask, RecordDone, RecordFailed, Release,
         EndOfManifest, Raise, Frame, At, disk
<1>2. claims = {}
  BY <1>1 DEF IInv, Phases
<1>3. \A t \in Tasks : done[t] = "absent" => failed[t] >= MaxAttempts
  <2>1. \A t \in Tasks : failed[t] \in Nat
    BY DEF IInv, TypeOK
  <2> QED BY <1>1, <1>2, <2>1, AttemptsAssumption DEF Pending
<1>4. \A t \in Tasks : done[t] \in {"absent", "torn", "written"}
  BY DEF IInv, TypeOK
<1> QED BY <1>1, <1>3, <1>4 DEF CompleteMeansFinal

LEMMA Induction == Spec => []IInv
<1>1. IInv /\ [Next]_vars => IInv'
  <2> SUFFICES ASSUME IInv, [Next]_vars PROVE IInv'
    OBVIOUS
  <2>1. CASE Next
    <3>1. TypeOK'
      BY <2>1, TypesKept DEF TypeOK, DiskTypes, RunTypes
    <3>2. (RunsAlone /\ JobLeavesNoClaim)'
      BY <2>1, WorkKeeps, SuperviseKeeps DEF Next
    <3> QED BY <2>1, <3>1, <3>2, PhasesKept, CompleteKept DEF IInv
  <2>2. CASE UNCHANGED vars
    BY <2>2 DEF vars, disk, IInv, TypeOK, Phases, RunsAlone, JobLeavesNoClaim,
                CompleteMeansFinal
  <2> QED BY <2>1, <2>2
<1> QED BY <1>1, InitInv, PTL DEF Spec

\* Every variable of the campaign keeps its type; the supervisor's list never
\* holds a claim that is gone.
THEOREM CampaignTypes == Spec => []TypeOK
<1>1. IInv => TypeOK
  BY DEF IInv
<1> QED BY <1>1, Induction, PTL

\* No two workers run a task at the same time, whatever is killed: the mkdir
\* of _claim is exclusive and nothing removes a live claim.
THEOREM TasksRunAlone == Spec => []RunsAlone
<1>1. IInv => RunsAlone
  BY DEF IInv
<1> QED BY <1>1, Induction, PTL

\* While a job runs each claim belongs to one of its workers; what is left
\* when it has ended by itself is nothing.
THEOREM ClaimsAreReleased == Spec => []JobLeavesNoClaim
<1>1. IInv => JobLeavesNoClaim
  BY DEF IInv
<1> QED BY <1>1, Induction, PTL

\* The supervisor stops the chain only when each task is done or exhausted.
THEOREM CompleteIsFinal == Spec => []CompleteMeansFinal
<1>1. IInv => CompleteMeansFinal
  BY DEF IInv
<1> QED BY <1>1, Induction, PTL

\* Claims and final tasks are what workers and supervisor take them for, for any
\* number of tasks, workers and kills.
THEOREM CampaignIsSound == Spec => []CampaignSound
BY CampaignTypes, TasksRunAlone, ClaimsAreReleased, CompleteIsFinal, PTL DEF CampaignSound

(***************************************************************************)
(* How many attempts a task can get.                                       *)
(***************************************************************************)
\* The workers that have looked at task t and may still record a failure of it.
Armed(t) == {w \in Workers : pc[w] \in {"mkdir", "owner", "run", "crashed"} /\ pos[w] = t}

\* A failure that is still to be recorded is counted with those that are: by the
\* workers while a job runs, by the supervisor for the claims that job left.
ToCome(t) == IF mode = "work" THEN Cardinality(Armed(t))
             ELSE IF t \in claims /\ noted # t THEN 1 ELSE 0

Limit == MaxAttempts - 1 + Cardinality(Workers) + kills

AttemptsCounted == \A t \in Tasks : failed[t] + ToCome(t) <= Limit

LEMMA ArmedTypes ==
  /\ Cardinality(Workers) \in Nat
  /\ \A t \in Tasks : /\ IsFiniteSet(Armed(t)) /\ Cardinality(Armed(t)) \in Nat
                      /\ Cardinality(Armed(t)) <= Cardinality(Workers)
<1>1. \A t \in Tasks : Armed(t) \subseteq Workers
  BY DEF Armed
<1> QED BY <1>1, WorkersAssumption, FS_Subset, FS_CardinalityType

\* The same of the next state, whose workers are the same.
LEMMA ArmedTypesNext ==
  \A t \in Tasks : /\ IsFiniteSet(Armed(t)') /\ Cardinality(Armed(t)') \in Nat
                   /\ Cardinality(Armed(t)') <= Cardinality(Workers)
<1>1. \A t \in Tasks : Armed(t)' \subseteq Workers
  BY DEF Armed
<1> QED BY <1>1, WorkersAssumption, FS_Subset, FS_CardinalityType

\* While a job runs: a worker that arms itself has just seen a free attempt, one
\* that records a failure is armed no more.
LEMMA WorkCounts ==
  ASSUME IInv, AttemptsCounted, NEW w \in Workers, Work(w) \/ Raise(w)
  PROVE  AttemptsCounted'
<1> /\ pc \in [Workers -> Labels] /\ pos \in [Workers -> 1 .. N + 1]
    /\ failed \in [Tasks -> Nat] /\ kills \in Nat
  BY BoundsAssumption DEF IInv, TypeOK
<1> USE AttemptsAssumption
<1>1. mode = "work" /\ mode' = "work" /\ kills' = kills
  BY DEF Work, Look, Count, Claim, Own, RunTask, RecordDone, RecordFailed, Release,
         EndOfManifest, Raise, Frame, At
<1> SUFFICES ASSUME NEW t \in Tasks
             PROVE  failed'[t] + Cardinality(Armed(t)') <= Limit
  BY <1>1 DEF AttemptsCounted, ToCome, Limit
<1> DEFINE a == Armed(t)
           b == Armed(t)'
<1>2. /\ IsFiniteSet(a) /\ Cardinality(a) \in Nat /\ Cardinality(Workers) \in Nat
      /\ IsFiniteSet(b) /\ Cardinality(b) \in Nat /\ Cardinality(b) <= Cardinality(Workers)
  BY ArmedTypes, ArmedTypesNext
<1>3. failed[t] + Cardinality(a) <= Limit
  BY <1>1 DEF AttemptsCounted, ToCome
<1>4. Limit \in Int
  BY <1>2 DEF Limit
<1>5. ASSUME failed' = failed, b \subseteq a
      PROVE  failed'[t] + Cardinality(b) <= Limit
  <2>1. Cardinality(b) <= Cardinality(a)
    BY <1>2, <1>5, FS_Subset
  <2> HIDE DEF a, b
  <2> QED BY <2>1, <1>2, <1>3, <1>4, <1>5
<1>6. CASE Count(w)
  <2>1. CASE failed[pos[w]] >= MaxAttempts \/ pos[w] # t
    <3>1. failed' = failed /\ b \subseteq a
      BY <1>6, <2>1 DEF Count, disk, At, Goto, NextTask, Armed
    <3> QED BY <3>1, <1>5
  <2>2. CASE ~ (failed[pos[w]] >= MaxAttempts) /\ pos[w] = t
    <3>1. failed' = failed /\ failed[t] <= MaxAttempts - 1
      BY <1>6, <2>2 DEF Count, disk
    <3> HIDE DEF a, b
    <3> QED BY <3>1, <1>2 DEF Limit, b
  <2> QED BY <2>1, <2>2
<1>7. CASE RecordFailed(w)
  <2>1. CASE pos[w] # t
    <3>1. failed'[t] = failed[t] /\ b \subseteq a
      BY <1>7, <2>1 DEF RecordFailed, Goto, At, Armed
    <3>2. Cardinality(b) <= Cardinality(a)
      BY <1>2, <3>1, FS_Subset
    <3> HIDE DEF a, b
    <3> QED BY <3>1, <3>2, <1>2, <1>3, <1>4 DEF b
  <2>2. CASE pos[w] = t
    <3>1. failed'[t] = failed[t] + 1 /\ w \in a /\ b \subseteq a \ {w}
      BY <1>7, <2>2 DEF RecordFailed, Goto, At, Armed
    <3>2. Cardinality(a \ {w}) = Cardinality(a) - 1 /\ IsFiniteSet(a \ {w})
      BY <1>2, <3>1, FS_RemoveElement
    <3>3. Cardinality(b) <= Cardinality(a \ {w})
      BY <3>1, <3>2, FS_Subset
    <3> HIDE DEF a, b
    <3> QED BY <3>1, <3>2, <3>3, <1>2, <1>3, <1>4 DEF b
  <2> QED BY <2>1, <2>2
<1>8. ASSUME ~ Count(w), ~ RecordFailed(w) PROVE failed' = failed /\ b \subseteq a
  <2> USE DEF disk, At, Goto, NextTask, Armed
  <2>1. CASE Look(w)
    BY <2>1 DEF Look
  <2>2. CASE Claim(w)
    BY <2>2 DEF Claim
  <2>3. CASE Own(w)
    BY <2>3 DEF Own
  <2>4. CASE RunTask(w)
    BY <2>4 DEF RunTask
  <2>5. CASE RecordDone(w)
    BY <2>5 DEF RecordDone
  <2>6. CASE Release(w)
    BY <2>6 DEF Release
  <2>7. CASE EndOfManifest(w)
    BY <2>7 DEF EndOfManifest
  <2>8. CASE Raise(w)
    BY <2>8 DEF Raise
  <2> QED BY <1>8, <2>1, <2>2, <2>3, <2>4, <2>5, <2>6, <2>7, <2>8 DEF Work
<1> QED BY <1>5, <1>6, <1>7, <1>8

\* Outside the job: a claim that was left counts for the kill that left it, and
\* is counted as a failure when the supervisor has recorded it.
LEMMA SuperviseCounts ==
  ASSUME IInv, AttemptsCounted, Supervise \/ Kill PROVE AttemptsCounted'
<1> /\ failed \in [Tasks -> Nat] /\ kills \in Nat /\ stale \subseteq claims
    /\ claims \subseteq Tasks /\ Cardinality(Workers) \in Nat /\ 0 \notin Tasks
  BY BoundsAssumption, ArmedTypes DEF IInv, TypeOK, Tasks
<1> USE AttemptsAssumption
<1>1. Limit \in Int
  BY DEF Limit
<1>2. \A t \in Tasks : ToCome(t) \in Nat /\ failed[t] + ToCome(t) <= Limit
  BY ArmedTypes DEF AttemptsCounted, ToCome
<1> SUFFICES ASSUME NEW t \in Tasks PROVE failed'[t] + ToCome(t)' <= Limit'
  BY DEF AttemptsCounted
<1>3. CASE Kill
  <2>1. failed' = failed /\ kills' = kills + 1 /\ mode' # "work"
    BY <1>3 DEF Kill
  <2>2. ToCome(t)' \in {0, 1}
    BY <2>1 DEF ToCome
  <2>3. Limit' = Limit + 1
    BY <2>1 DEF Limit
  <2> QED BY <2>1, <2>2, <2>3, <1>1, <1>2
<1>4. CASE Status
  <2>1. claims = {} /\ claims' = claims /\ failed' = failed /\ kills' = kills
    BY <1>4 DEF Status, disk, IInv, Phases
  <2>2. ToCome(t)' = 0
    <3>1. CASE mode' = "work"
      <4>1. \A w \in Workers : pc'[w] = "look"
        BY <1>4, <3>1 DEF Status
      <4>2. Armed(t)' = {}
        BY <4>1 DEF Armed
      <4> QED BY <3>1, <4>2, FS_EmptySet DEF ToCome
    <3>2. CASE mode' # "work"
      BY <2>1, <3>2 DEF ToCome
    <3> QED BY <3>1, <3>2
  <2> QED BY <2>1, <2>2, <1>1, <1>2 DEF Limit
<1>5. CASE JobEnds
  <2>1. claims = {}
    BY <1>5 DEF JobEnds, IInv, JobLeavesNoClaim, Holding
  <2>2. ToCome(t)' = 0 /\ failed' = failed /\ kills' = kills
    BY <1>5, <2>1 DEF JobEnds, disk, Local, ToCome
  <2> QED BY <2>2, <1>1, <1>2 DEF Limit
<1>6. CASE NoteStale
  <2>1. PICK s \in stale : failed' = [failed EXCEPT ![s] = @ + 1] /\ noted' = s
    BY <1>6 DEF NoteStale
  <2>2. /\ mode = "clearing" /\ mode' = mode /\ claims' = claims /\ kills' = kills
        /\ noted = 0 /\ s \in claims
    BY <1>6, <2>1 DEF NoteStale, Local
  <2>3. failed'[t] + ToCome(t)' = failed[t] + ToCome(t)
    BY <2>1, <2>2 DEF ToCome
  <2> QED BY <2>2, <2>3, <1>2 DEF Limit
<1>7. CASE StartClear \/ ClearStale \/ Choke \/ Cleared
  <2>1. failed' = failed /\ kills' = kills /\ mode # "work" /\ mode' # "work"
    BY <1>7 DEF StartClear, ClearStale, Choke, Cleared, disk, Local
  <2>2. t \in claims' /\ noted' # t => t \in claims /\ noted # t
    BY <1>7 DEF StartClear, ClearStale, Choke, Cleared, disk, Local, IInv, Phases
  <2>3. ToCome(t)' <= ToCome(t) /\ ToCome(t)' \in Nat
    BY <2>1, <2>2 DEF ToCome
  <2>4. Limit' = Limit
    BY <2>1 DEF Limit
  <2> QED BY <2>1, <2>3, <2>4, <1>1, <1>2
<1> QED BY <1>3, <1>4, <1>5, <1>6, <1>7 DEF Supervise

LEMMA CountInduction == Spec => []AttemptsCounted
<1>1. Init => AttemptsCounted
  <2> SUFFICES ASSUME Init PROVE AttemptsCounted
    OBVIOUS
  <2>1. \A t \in Tasks : failed[t] = 0 /\ ToCome(t) = 0
    BY DEF Init, ToCome
  <2>2. Limit \in Nat
    BY ArmedTypes, AttemptsAssumption DEF Init, Limit
  <2> QED BY <2>1, <2>2 DEF AttemptsCounted
<1>2. IInv /\ AttemptsCounted /\ [Next]_vars => AttemptsCounted'
  <2>1. IInv /\ AttemptsCounted /\ UNCHANGED vars => AttemptsCounted'
    BY DEF vars, disk, AttemptsCounted, ToCome, Armed, Limit
  <2> QED BY <2>1, WorkCounts, SuperviseCounts DEF Next
<1> QED BY <1>1, <1>2, Induction, PTL DEF Spec

\* A task gets at most MaxAttempts - 1 attempts, one more from each worker that
\* looked before the last of them failed, and one more from each kill: for any
\* number of workers and kills.
THEOREM AttemptsAreBounded == Spec => []AttemptsNearlyBounded
<1>1. IInv /\ AttemptsCounted => AttemptsNearlyBounded
  <2> SUFFICES ASSUME IInv, AttemptsCounted, NEW t \in Tasks
               PROVE  failed[t] <= MaxAttempts - 1 + Cardinality(Workers) + kills
    BY DEF AttemptsNearlyBounded
  <2>1. failed[t] \in Nat /\ ToCome(t) \in Nat /\ Limit \in Int
    BY ArmedTypes, AttemptsAssumption, BoundsAssumption DEF IInv, TypeOK, ToCome, Limit
  <2>2. failed[t] + ToCome(t) <= Limit
    BY DEF AttemptsCounted
  <2> QED BY <2>1, <2>2 DEF Limit
<1> QED BY <1>1, Induction, CountInduction, PTL

(***************************************************************************)
(* CampaignDriver: for any number of rounds, shards, cycles and launches   *)
(* and any budget of faults for each launcher, as long as no job is put    *)
(* back into the queue between the submission of its successor and its     *)
(* note of it.                                                             *)
(***************************************************************************)
Last == Len(jobs)
Stops == [sup |-> {"drive", "follow", "end"},
          prep |-> {"generate", "deal", "queue", "submit", "note", "end"},
          map |-> {"submit", "note", "check", "work", "end"},
          fin |-> {"submit", "note", "check", "reduce", "end"},
          round |-> {"select", "bootstrap", "deal", "work", "reduce", "end"}]
JobKinds == DOMAIN FirstStep
AllStops == {"drive", "follow", "generate", "deal", "queue", "submit", "note", "check", "work",
             "reduce", "select", "bootstrap", "end"}
Plans == {0} \cup {Budgets[i] : i \in 1 .. R}
JobType == [kind : JobKinds, round : Rounds, budget : Plans, cycle : Nat, after : Nat,
            dep : {"afterany", "afterok"}, state : {"pending", "running", "ok", "failed"},
            pc : AllStops, sub : Nat, noted : BOOLEAN]

\* Each launcher's kinds of jobs; each waits for nothing or for the one before.
KindsOf == CASE way.launcher = "pf" -> {"sup", "prep", "map", "fin"}
             [] way.launcher = "exago" -> {"sup", "round"}
             [] OTHER -> {"round"}
Alive(job) == job.state \in {"pending", "running"}
JobKnown(j) ==
  /\ jobs[j].kind \in KindsOf /\ jobs[j].pc \in Stops[jobs[j].kind]
  /\ jobs[j].pc = "end" => jobs[j].kind = "prep" \/ ~Alive(jobs[j])
  /\ jobs[j].after \in {0, j - 1}
  /\ jobs[j].state = "pending" => jobs[j].pc = FirstStep[jobs[j].kind]
  /\ jobs[j].cycle <= MaxCycles + 1
  /\ jobs[j].kind # "sup" \/ jobs[j].pc = "follow" => jobs[j].cycle <= MaxCycles
  /\ jobs[j].kind = "round" => jobs[j].dep = way.dep
  /\ jobs[j].kind = "prep" \/ (jobs[j].kind = "round" /\ Supervised) => jobs[j].after = 0
  /\ jobs[j].kind \in {"prep", "round"} /\ way.launcher # "auto" =>
       jobs[j].budget = BudgetOf(jobs[j].round)

DriverShape ==
  /\ way \in Mode /\ round \in [Rounds -> FilesType] /\ jobs \in Seq(JobType)
  /\ shell \in [todo : Seq(Rounds), prev : 0 .. Last]
  /\ launches \in 0 .. MaxLaunches /\ faults \in 0 .. MaxFaults[way.launcher]
  /\ whole \in BOOLEAN /\ exposed \in BOOLEAN
  /\ \A j \in 1 .. Last : JobKnown(j)

\* Only the last job may still have a successor to submit.
Line == \A j \in Live :
  /\ jobs[j].kind = "sup" /\ jobs[j].pc # "follow" => j = Last
  /\ jobs[j].kind = "sup" /\ jobs[j].pc = "follow" =>
       IF way.launcher = "pf" THEN j < Last
       ELSE j = Last - 1 /\ jobs[j].sub = Last /\ jobs[Last].kind = "round"
  /\ jobs[j].kind \in {"prep", "map", "fin"} =>
       /\ jobs[j].noted \/ jobs[j].pc = "note" <=> j < Last
       /\ jobs[j].pc \in {"check", "work", "reduce", "end"} => jobs[j].noted

\* A job that waits for none, or that was started, has no worker before it.
Worker(j) == jobs[j].kind \in {"map", "fin", "round"}
Begun(k) == jobs[k].after = 0 \/ jobs[k].state # "pending"
Ordered == \A k \in 1 .. Last : Begun(k) => \A j \in 1 .. k - 1 : Worker(j) => j \notin Live

\* A prepare job that has a successor finds its files if it runs again.
Prepared == \A j \in 1 .. Last : jobs[j].kind = "prep" /\ j < Last =>
  /\ round[jobs[j].round].cands /\ round[jobs[j].round].queue # {}
  /\ jobs[j].pc # "deal"

\* The rounds before r are complete.
Behind(r) == \A q \in Rounds : q < r => Complete(q)
InTurn == way.launcher = "drive" => way.dep = "afterok"

\* The files of round r, w telling that no split was cut off.
RoundGood(files, r, w) ==
  /\ files \in FilesType /\ files.marker # "partial"
  /\ files.queue \subseteq files.dealt /\ files.done \subseteq files.dealt
  /\ files.dealt # {} => files.cands
  /\ w => files.dealt \in {{}, Shards} /\ files.queue \in {{}, Shards}
  /\ w /\ files.marker = "complete" => files.dealt = Shards /\ files.done = Shards
  /\ InTurn /\ w /\ files.cands => 0 .. r - 1 \subseteq files.prior
  /\ way.launcher # "auto" /\ files.cands => files.budget = BudgetOf(r)
FilesGood == \A r \in Rounds : RoundGood(round[r], r, whole)

\* What a running job has found or made.
Found(j) ==
  /\ AtStep(j, "bootstrap") => Files(j).dealt = {} /\ (InTurn => Behind(jobs[j].round))
  /\ AtStep(j, "deal") => Files(j).dealt = {} /\ Files(j).cands
  /\ AtStep(j, "queue") => Files(j).cands
  /\ AtStep(j, "submit") /\ jobs[j].kind = "prep" => Files(j).cands /\ Files(j).queue # {}
  /\ AtStep(j, "work") /\ jobs[j].kind = "round" => Files(j).dealt # {}
  /\ AtStep(j, "reduce") => Listed(j) # {} /\ Listed(j) \subseteq Files(j).done
AllFound == \A j \in 1 .. Last : Found(j)

\* Rounds are taken in order.
Planned == \A j \in 1 .. Last :
  InTurn /\ way.launcher # "auto" /\ jobs[j].kind \in {"prep", "round"} /\ Begun(j) =>
    Behind(jobs[j].round)
Chained == way.launcher = "drive" => \A j \in 1 .. Last :
  /\ j > 1 => jobs[j].round = jobs[j - 1].round + 1
  /\ jobs[j].state = "ok" => Complete(jobs[j].round)

\* The shell queues one job behind the other.
Queueing ==
  /\ Supervised => shell = AtEase
  /\ shell.todo # <<>> =>
       /\ shell.prev = Last
       /\ way.launcher = "drive" =>
            /\ \A i \in 1 .. Len(shell.todo) - 1 : shell.todo[i + 1] = shell.todo[i] + 1
            /\ IF Last = 0 THEN Behind(shell.todo[1])
               ELSE shell.todo[1] = jobs[Last].round + 1

\* The job the chain hangs on.
Holder == Last > 0 /\ IF jobs[Last].kind = "round"
                      THEN Last - 1 \in Live /\ jobs[Last - 1].kind = "sup"
                      ELSE Last \in Live
Held == Supervised /\ launches > 0 /\ ~exposed =>
  Holder \/ AllComplete \/ \E j \in 1 .. Last : jobs[j].cycle > MaxCycles

DriverIInv == /\ DriverShape /\ Line /\ Ordered /\ Prepared /\ FilesGood /\ AllFound
              /\ Planned /\ Chained /\ Queueing /\ Held

-----------------------------------------------------------------------------
(* What the definitions say. *)

\* The jobs are a sequence of known jobs.
LEMMA DriverFacts ==
  ASSUME DriverShape
  PROVE  /\ jobs \in Seq(JobType) /\ Last \in Nat /\ DOMAIN jobs = 1 .. Last
         /\ \A j \in 1 .. Last : jobs[j] \in JobType /\ JobKnown(j)
         /\ Live \subseteq 1 .. Last
<1>1. jobs \in Seq(JobType)
  BY DEF DriverShape
<1>2. Last \in Nat /\ DOMAIN jobs = 1 .. Last /\ \A j \in 1 .. Last : jobs[j] \in JobType
  BY <1>1, LenProperties, ElementOfSeq DEF Last
<1> QED BY <1>1, <1>2 DEF DriverShape, Live

\* A job is live while it waits or runs.
LEMMA LiveIs ==
  ASSUME DriverShape, NEW j \in 1 .. Last
  PROVE  j \in Live <=> jobs[j].state \in {"pending", "running"}
BY DriverFacts DEF Live

\* One job is changed.
LEMMA JobChanged ==
  ASSUME DriverShape, NEW j \in 1 .. Last, NEW new \in JobType,
         jobs' = [jobs EXCEPT ![j] = new]
  PROVE  /\ jobs' \in Seq(JobType) /\ Last' = Last /\ DOMAIN jobs' = 1 .. Last
         /\ jobs'[j] = new /\ \A k \in 1 .. Last : k # j => jobs'[k] = jobs[k]
         /\ \A k \in 1 .. Last : k \in Live' <=> jobs'[k].state \in {"pending", "running"}
         /\ Live' \subseteq 1 .. Last
<1>1. jobs \in Seq(JobType) /\ j \in 1 .. Len(jobs)
  BY DriverFacts DEF Last
<1>2. /\ jobs' \in Seq(JobType) /\ Len(jobs') = Len(jobs)
      /\ \A k \in 1 .. Len(jobs) : jobs'[k] = IF k = j THEN new ELSE jobs[k]
  <2>1. /\ [jobs EXCEPT ![j] = new] \in Seq(JobType)
        /\ Len([jobs EXCEPT ![j] = new]) = Len(jobs)
        /\ \A k \in 1 .. Len(jobs) : [jobs EXCEPT ![j] = new][k] = IF k = j THEN new ELSE jobs[k]
    BY <1>1, ExceptSeq
  <2> QED BY <2>1
<1>3. DOMAIN jobs' = 1 .. Len(jobs')
  BY <1>2, LenProperties
<1> QED BY <1>1, <1>2, <1>3 DEF Last, Live

\* One job is added behind.
LEMMA JobAdded ==
  ASSUME DriverShape, NEW old \in Seq(JobType), Len(old) = Last, NEW job \in JobType,
         jobs' = Append(old, job)
  PROVE  /\ jobs' \in Seq(JobType) /\ Last' = Last + 1 /\ DOMAIN jobs' = 1 .. Last + 1
         /\ jobs'[Last + 1] = job /\ \A k \in 1 .. Last : jobs'[k] = old[k]
         /\ \A k \in 1 .. Last + 1 : k \in Live' <=> jobs'[k].state \in {"pending", "running"}
         /\ Live' \subseteq 1 .. Last + 1
<1>1. jobs' \in Seq(JobType) /\ Len(jobs') = Len(old) + 1
  BY AppendProperties
<1>2. DOMAIN jobs' = 1 .. Last + 1 /\ jobs'[Last + 1] = job
  BY <1>1, LenProperties, DriverFacts
<1>3. \A k \in 1 .. Last : jobs'[k] = old[k]
  BY DriverFacts
<1> QED BY <1>1, <1>2, <1>3 DEF Last, Live

\* A job that ends keeps all but its state, its place and its note.
LEMMA EndedIs ==
  ASSUME DriverShape, NEW j \in 1 .. Last, NEW st \in {"ok", "failed"}
  PROVE  LET new == [jobs[j] EXCEPT !.state = st, !.pc = "end", !.noted = FALSE]
         IN new \in JobType /\ Ended(j, st) = [jobs EXCEPT ![j] = new]
<1> DEFINE new == [jobs[j] EXCEPT !.state = st, !.pc = "end", !.noted = FALSE]
<1>1. jobs[j] \in JobType /\ DOMAIN jobs = 1 .. Last
  BY DriverFacts
<1>2. new \in JobType
  BY <1>1 DEF JobType, AllStops
<1>3. Ended(j, st) = [jobs EXCEPT ![j] = new]
  BY <1>1 DEF Ended
<1> QED BY <1>2, <1>3

-----------------------------------------------------------------------------
(* Rounds. *)

\* A campaign that is not complete has a first incomplete round.
LEMMA FirstIncompleteIs ==
  ASSUME ~AllComplete
  PROVE  FirstIncomplete \in Rounds /\ ~Complete(FirstIncomplete) /\ Behind(FirstIncomplete)
<1> DEFINE T == {r \in Rounds : ~Complete(r)}
           LessThan == {ss \in Nat \X Nat : ss[1] < ss[2]}
<1>1. T \in SUBSET Nat /\ T # {}
  BY DriverSizes DEF AllComplete, Rounds
<1>2. IsWellFoundedOn(LessThan, Nat)
  BY NatLessThanWellFounded DEF OpToRel
<1>3. PICK r \in T : \A q \in T : <<q, r>> \notin LessThan
  <2> HIDE DEF T, LessThan
  <2> QED BY <1>1, <1>2, WFMin
<1>4. \A q \in Rounds : q < r => Complete(q)
  <2> SUFFICES ASSUME NEW q \in Rounds, q < r, ~Complete(q) PROVE FALSE
    OBVIOUS
  <2> QED BY <1>1, <1>3
<1>5. r \in Rounds /\ ~Complete(r)
  BY <1>3
<1> QED BY <1>4, <1>5 DEF FirstIncomplete, Behind

\* Each round has a planned budget.
LEMMA BudgetIsPlanned ==
  ASSUME NEW r \in Rounds
  PROVE  BudgetOf(r) \in Plans /\ BudgetOf(r) \in Nat
BY DriverSizes DEF BudgetOf, Plans, Rounds

\* One writer at a time.
LEMMA OnlyOneWrites ==
  ASSUME DriverIInv, NEW j \in Live, NEW k \in Live, Writing(j), Writing(k)
  PROVE  j = k
<1> DriverShape /\ Ordered /\ Prepared
  BY DEF DriverIInv
<1> USE DriverFacts
<1>1. ASSUME NEW i \in Live, NEW l \in Live, i < l, Writing(i), Writing(l) PROVE FALSE
  <2>1. jobs[l].state = "running" /\ Begun(l) /\ i \in 1 .. l - 1 /\ i < Last
    BY <1>1 DEF Writing, AtStep, Begun
  <2>2. ~Worker(i)
    BY <1>1, <2>1 DEF Ordered
  <2>3. jobs[i].kind \in {"sup", "prep"} /\ jobs[i].pc \in Stops[jobs[i].kind]
    <3>1. jobs[i].kind \in JobKinds /\ jobs[i].pc \in Stops[jobs[i].kind]
      BY DEF JobType, JobKnown
    <3> QED BY <2>2, <3>1 DEF Worker, JobKinds, FirstStep
  <2>4. jobs[i].kind = "prep"
    BY <1>1, <2>3 DEF Writing, AtStep, Stops
  <2>5. Files(i).cands /\ Files(i).queue # {} /\ jobs[i].pc # "deal"
    BY <2>1, <2>4 DEF Prepared, Files
  <2> QED BY <1>1, <2>3, <2>4, <2>5 DEF Writing, AtStep, Stops
<1> QED BY <1>1

-----------------------------------------------------------------------------
(* The files of the rounds. *)

\* What there is stays, and only a writer changes the files of its round.
Better(f, g) == /\ f.cands => g.cands
                /\ f.queue # {} => g.queue # {}
                /\ f.marker = "complete" => g.marker = "complete"
                /\ f.done # {} => g.budget = f.budget /\ g.prior = f.prior
Touch(j) == \/ round' = round
            \/ /\ Writing(j)
               /\ \E g \in FilesType : Better(Files(j), g) /\ Sets(j, g)

\* A step that leaves good files in the round of a job leaves all files good.
LEMMA FilesSet ==
  ASSUME DriverIInv, NEW j \in Live, NEW g, Sets(j, g), way' = way,
         whole' \in BOOLEAN, whole' => whole, RoundGood(g, jobs[j].round, whole')
  PROVE  FilesGood' /\ round' \in [Rounds -> FilesType] /\ g \in FilesType
<1> DriverShape /\ FilesGood
  BY DEF DriverIInv
<1>1. jobs[j].round \in Rounds /\ round \in [Rounds -> FilesType]
  BY DriverFacts DEF JobType, DriverShape
<1>2. g \in FilesType
  BY DEF RoundGood
<1>3. round' \in [Rounds -> FilesType] /\ \A q \in Rounds : round'[q] = IF q = jobs[j].round THEN g ELSE round[q]
  BY <1>1, <1>2 DEF Sets
<1>4. ASSUME NEW q \in Rounds PROVE RoundGood(round[q], q, whole)'
  <2>1. CASE q = jobs[j].round
    BY <1>3, <2>1 DEF RoundGood, InTurn
  <2>2. CASE q # jobs[j].round
    <3>1. round'[q] = round[q] /\ RoundGood(round[q], q, whole)
      BY <1>3, <2>2 DEF FilesGood
    <3> QED BY <3>1 DEF RoundGood, InTurn
  <2> QED BY <2>1, <2>2
<1> QED BY <1>2, <1>3, <1>4 DEF FilesGood

\* So does a step that touches no files.
LEMMA FilesLeft ==
  ASSUME DriverIInv, round' = round, way' = way, whole' = whole
  PROVE  FilesGood' /\ round' \in [Rounds -> FilesType]
<1> DriverShape /\ FilesGood
  BY DEF DriverIInv
<1>1. round \in [Rounds -> FilesType]
  BY DEF DriverShape
<1> QED BY <1>1 DEF FilesGood, RoundGood, InTurn

\* A whole campaign has sampled what is behind a round.
LEMMA PriorIsSampled ==
  ASSUME DriverIInv, NEW r \in Rounds, Behind(r), whole
  PROVE  0 .. r - 1 \subseteq {q \in Rounds : Sampled(q)}
<1> SUFFICES ASSUME NEW q \in 0 .. r - 1 PROVE q \in Rounds /\ Sampled(q)
  OBVIOUS
<1>1. q \in Rounds /\ q < r
  BY DriverSizes DEF Rounds
<1>2. RoundGood(round[q], q, whole) /\ round[q].marker = "complete"
  BY <1>1 DEF DriverIInv, FilesGood, Behind, Complete
<1> QED BY <1>1, <1>2 DEF RoundGood, Sampled

\* A selection for a round that has none, or none that was dealt.
LEMMA SelectedGood ==
  ASSUME DriverIInv, NEW j \in Live, Files(j).dealt = {}, jobs[j].kind \in {"prep", "round"},
         InTurn => Behind(jobs[j].round)
  PROVE  RoundGood(Selected(j), jobs[j].round, whole) /\ Better(Files(j), Selected(j))
<1> DriverShape /\ FilesGood
  BY DEF DriverIInv
<1> DEFINE r == jobs[j].round
<1>1. r \in Rounds /\ jobs[j].budget \in Plans /\ round \in [Rounds -> FilesType] /\ JobKnown(j)
  BY DriverFacts DEF JobType, DriverShape
<1>2. Files(j) = round[r] /\ RoundGood(round[r], r, whole) /\ round[r] \in FilesType
  BY <1>1 DEF Files, FilesGood
<1>3. Selected(j) \in FilesType
  BY <1>1, <1>2 DEF Selected, FilesType, Plans
<1>4. /\ Selected(j).cands /\ Selected(j).dealt = {} /\ Selected(j).queue = round[r].queue
      /\ Selected(j).done = round[r].done /\ Selected(j).marker = round[r].marker
      /\ Selected(j).budget = jobs[j].budget /\ Selected(j).prior = {q \in Rounds : Sampled(q)}
  BY <1>1, <1>2 DEF Selected, FilesType
<1>5. InTurn /\ whole => 0 .. r - 1 \subseteq Selected(j).prior
  BY <1>1, <1>4, PriorIsSampled
<1>6. way.launcher # "auto" => Selected(j).budget = BudgetOf(r)
  BY <1>1, <1>4 DEF JobKnown
<1>7. round[r].queue = {} /\ round[r].done = {} /\ ~(whole /\ round[r].marker = "complete")
  <2>1. 1 \in Shards /\ round[r].dealt = {}
    BY <1>2, DriverSizes DEF Shards
  <2> QED BY <1>2, <2>1 DEF RoundGood
<1>8. Selected(j).marker # "partial"
  BY <1>2, <1>4 DEF RoundGood
<1> HIDE DEF r
<1>9. RoundGood(Selected(j), r, whole)
  BY <1>2, <1>3, <1>4, <1>5, <1>6, <1>7, <1>8 DEF RoundGood
<1>10. Better(Files(j), Selected(j))
  BY <1>2, <1>4, <1>7 DEF Better
<1> QED BY <1>9, <1>10 DEF r

\* A split to its end, or the first part of one.
LEMMA DealtGood ==
  ASSUME DriverIInv, NEW j \in Live, AtStep(j, "deal"), NEW D \in SUBSET Shards,
         NEW w \in BOOLEAN, w => whole /\ D = Shards
  PROVE  LET g == [Files(j) EXCEPT !.dealt = D]
         IN RoundGood(g, jobs[j].round, w) /\ Better(Files(j), g)
<1> DriverShape /\ FilesGood /\ AllFound
  BY DEF DriverIInv
<1> DEFINE r == jobs[j].round
           g == [Files(j) EXCEPT !.dealt = D]
<1>1. r \in Rounds /\ round \in [Rounds -> FilesType] /\ j \in 1 .. Last
  BY DriverFacts DEF JobType, DriverShape
<1>2. Files(j) = round[r] /\ RoundGood(round[r], r, whole) /\ round[r] \in FilesType
  BY <1>1 DEF Files, FilesGood
<1>3. round[r].dealt = {} /\ round[r].cands
  BY <1>1, <1>2 DEF AllFound, Found
<1>4. g \in FilesType
  BY <1>1, <1>2 DEF FilesType
<1>5. /\ g.cands = round[r].cands /\ g.dealt = D /\ g.queue = round[r].queue
      /\ g.done = round[r].done /\ g.marker = round[r].marker
      /\ g.budget = round[r].budget /\ g.prior = round[r].prior
  BY <1>1, <1>2 DEF FilesType
<1>6. round[r].queue = {} /\ round[r].done = {} /\ ~(whole /\ round[r].marker = "complete")
  <2>1. 1 \in Shards
    BY DriverSizes DEF Shards
  <2> QED BY <1>2, <1>3, <2>1 DEF RoundGood
<1> HIDE DEF r, g
<1>7. RoundGood(g, r, w)
  BY <1>2, <1>3, <1>4, <1>5, <1>6 DEF RoundGood
<1>8. Better(Files(j), g)
  BY <1>2, <1>5 DEF Better
<1> QED BY <1>7, <1>8 DEF r, g

\* What is known of a live job and its files.
LEMMA JobFacts ==
  ASSUME DriverIInv, NEW j \in Live
  PROVE  /\ j \in 1 .. Last /\ jobs[j] \in JobType /\ JobKnown(j) /\ Found(j)
         /\ jobs[j].round \in Rounds /\ Files(j) = round[jobs[j].round]
         /\ Files(j) \in FilesType /\ RoundGood(Files(j), jobs[j].round, whole)
         /\ round \in [Rounds -> FilesType] /\ whole \in BOOLEAN
<1> DriverShape /\ FilesGood /\ AllFound
  BY DEF DriverIInv
<1>1. j \in 1 .. Last /\ jobs[j] \in JobType /\ JobKnown(j) /\ Found(j)
  BY DriverFacts DEF AllFound
<1>2. jobs[j].round \in Rounds /\ round \in [Rounds -> FilesType] /\ whole \in BOOLEAN
  BY <1>1 DEF JobType, DriverShape
<1> QED BY <1>1, <1>2 DEF Files, FilesGood

\* The queue of the shard files that were dealt.
LEMMA QueueGood ==
  ASSUME DriverIInv, NEW j \in Live, AtStep(j, "queue"), Files(j).queue = {}
  PROVE  LET g == [Files(j) EXCEPT !.queue = NotEmpty(j)]
         IN RoundGood(g, jobs[j].round, whole) /\ Better(Files(j), g)
<1> DEFINE f == Files(j)
           g == [f EXCEPT !.queue = NotEmpty(j)]
<1>1. f \in FilesType /\ RoundGood(f, jobs[j].round, whole) /\ NotEmpty(j) = f.dealt
  BY JobFacts DEF NotEmpty
<1>2. g \in FilesType /\ g.queue = f.dealt /\ g.cands = f.cands /\ g.dealt = f.dealt /\ g.done = f.done
      /\ g.marker = f.marker /\ g.budget = f.budget /\ g.prior = f.prior
  BY <1>1 DEF FilesType
<1> f.queue = {} OBVIOUS
<1> HIDE DEF f, g
<1>3. RoundGood(g, jobs[j].round, whole) /\ Better(f, g)
  BY <1>1, <1>2 DEF RoundGood, Better
<1> QED BY <1>3 DEF f, g

\* A shard of the list marked done.
LEMMA WorkGood ==
  ASSUME DriverIInv, NEW j \in Live, NEW i \in Listed(j)
  PROVE  LET g == [Files(j) EXCEPT !.done = @ \cup {i}]
         IN RoundGood(g, jobs[j].round, whole) /\ Better(Files(j), g)
<1> DEFINE f == Files(j)
           g == [f EXCEPT !.done = @ \cup {i}]
<1>1. f \in FilesType /\ RoundGood(f, jobs[j].round, whole)
  BY JobFacts
<1>2. i \in f.dealt /\ i \in Shards
  BY <1>1 DEF Listed, RoundGood, FilesType
<1>3. g \in FilesType /\ g.queue = f.queue /\ g.cands = f.cands /\ g.dealt = f.dealt
      /\ g.done = f.done \cup {i}
      /\ g.marker = f.marker /\ g.budget = f.budget /\ g.prior = f.prior
  BY <1>1, <1>2 DEF FilesType
<1> HIDE DEF f, g
<1>4. RoundGood(g, jobs[j].round, whole) /\ Better(f, g)
  BY <1>1, <1>2, <1>3 DEF RoundGood, Better
<1> QED BY <1>4 DEF f, g

\* A marker: the job that reduces has found every listed shard done.
LEMMA ReduceGood ==
  ASSUME DriverIInv, NEW j \in Live, AtStep(j, "reduce")
  PROVE  LET g == [Files(j) EXCEPT !.marker = "complete"]
         IN Listed(j) \subseteq Files(j).done /\ RoundGood(g, jobs[j].round, whole) /\ Better(Files(j), g)
<1> DEFINE f == Files(j)
           g == [f EXCEPT !.marker = "complete"]
<1>1. f \in FilesType /\ RoundGood(f, jobs[j].round, whole)
      /\ Listed(j) # {} /\ Listed(j) \subseteq f.done
  BY JobFacts DEF Found
<1>2. whole => f.dealt = Shards /\ f.done = Shards
  <2>1. Listed(j) \in {f.dealt, f.queue} /\ f.done \subseteq f.dealt /\ f.queue \subseteq f.dealt
    BY <1>1 DEF Listed, RoundGood
  <2>2. whole => f.dealt \in {{}, Shards} /\ f.queue \in {{}, Shards}
    BY <1>1 DEF RoundGood
  <2> HIDE DEF f
  <2> QED BY <1>1, <2>1, <2>2
<1>3. g \in FilesType /\ g.queue = f.queue /\ g.cands = f.cands /\ g.dealt = f.dealt
      /\ g.done = f.done /\ g.marker = "complete" /\ g.budget = f.budget /\ g.prior = f.prior
  BY <1>1 DEF FilesType
<1> HIDE DEF f, g
<1>4. RoundGood(g, jobs[j].round, whole) /\ Better(f, g)
  BY <1>1, <1>2, <1>3 DEF RoundGood, Better
<1> QED BY <1>1, <1>4 DEF f, g

\* sbatch fails in a job.
Refused(j) == /\ jobs[j].state = "running" /\ End(j, "failed")
              /\ faults < MaxFaults[way.launcher] /\ faults' = faults + 1 /\ exposed' = TRUE
              /\ UNCHANGED <<way, round, shell, launches, whole>>
JobStep(j) == Start(j) \/ Step(j) \/ KillJob(j) \/ Requeue(j) \/ Refused(j)

\* Whatever a job does: the files it leaves are good, and only a writer writes.
LEMMA FilesStep ==
  ASSUME DriverIInv, NEW j \in Live, JobStep(j)
  PROVE  /\ Touch(j) /\ FilesGood' /\ round' \in [Rounds -> FilesType] /\ whole' \in BOOLEAN
         /\ UNCHANGED <<way, shell, launches>>
<1> DEFINE Goal == /\ Touch(j) /\ FilesGood' /\ round' \in [Rounds -> FilesType] /\ whole' \in BOOLEAN
                   /\ UNCHANGED <<way, shell, launches>>
<1>r. jobs[j].round \in Rounds /\ Files(j) = round[jobs[j].round] /\ round \in [Rounds -> FilesType]
      /\ whole \in BOOLEAN /\ JobKnown(j) /\ RoundGood(Files(j), jobs[j].round, whole) /\ Found(j)
  BY JobFacts
<1>a. ASSUME UNCHANGED <<way, round, shell, launches, whole>> PROVE Goal
  BY <1>a, <1>r, FilesLeft DEF Touch
<1>b. ASSUME NEW g, Sets(j, g), RoundGood(g, jobs[j].round, whole'), Better(Files(j), g), Writing(j),
             whole' \in BOOLEAN, whole' => whole, UNCHANGED <<way, shell, launches>>
      PROVE  Goal
  BY <1>b, FilesSet DEF Touch
<1> SUFFICES Goal
  OBVIOUS
<1> HIDE DEF Goal
<1>1. CASE \/ Start(j) \/ SupStops(j) \/ SupDrives(j) \/ SupFollows(j) \/ Submit(j) \/ Note(j)
           \/ EndPrep(j) \/ CheckMap(j) \/ CheckFin(j) \/ Select(j) \/ EndWork(j) \/ Refused(j)
  BY <1>1, <1>a DEF Start, SupStops, SupDrives, SupFollows, Submit, Note, EndPrep, CheckMap,
                    CheckFin, Select, EndWork, Refused, hist
<1>2. CASE Generate(j)
  <2>1. CASE Files(j).cands
    BY <1>2, <2>1, <1>a DEF Generate, hist
  <2>2. CASE ~Files(j).cands
    <3>1. jobs[j].kind = "prep" /\ Begun(j) /\ way.launcher = "pf" /\ j \in 1 .. Last
      <4>1. jobs[j].kind \in KindsOf /\ "generate" \in Stops[jobs[j].kind] /\ jobs[j].state = "running"
        BY <1>2, <1>r DEF Generate, AtStep, JobKnown
      <4>2. jobs[j].kind = "prep" /\ way.launcher = "pf"
        BY <4>1 DEF KindsOf, Stops
      <4> QED BY <4>1, <4>2, JobFacts DEF Begun
    <3>2. InTurn => Behind(jobs[j].round)
      BY <3>1 DEF DriverIInv, Planned
    <3>3. Files(j).dealt = {}
      BY <2>2, <1>r DEF RoundGood
    <3>4. Sets(j, Selected(j)) /\ UNCHANGED <<way, shell, launches, whole>> /\ Writing(j)
      BY <1>2, <2>2 DEF Generate, hist, Writing
    <3> QED BY <3>1, <3>2, <3>3, <3>4, <1>b, <1>r, SelectedGood
  <2> QED BY <2>1, <2>2
<1>3. CASE Bootstrap(j)
  <2>1. jobs[j].kind = "round"
    <3>1. jobs[j].kind \in KindsOf /\ "bootstrap" \in Stops[jobs[j].kind]
      BY <1>3, <1>r DEF Bootstrap, AtStep, JobKnown
    <3> QED BY <3>1 DEF KindsOf, Stops
  <2>2. Files(j).dealt = {} /\ (InTurn => Behind(jobs[j].round))
    BY <1>3, <1>r DEF Bootstrap, Found
  <2>3. Sets(j, Selected(j)) /\ UNCHANGED <<way, shell, launches, whole>> /\ Writing(j)
    BY <1>3 DEF Bootstrap, hist, Writing
  <2> QED BY <2>1, <2>2, <2>3, <1>b, <1>r, SelectedGood
<1>4. CASE Deal(j)
  <2> DEFINE g == [Files(j) EXCEPT !.dealt = Shards]
  <2>1. Sets(j, g) /\ UNCHANGED <<way, shell, launches, whole>> /\ Writing(j) /\ AtStep(j, "deal")
    BY <1>4 DEF Deal, hist, Writing
  <2>2. RoundGood(g, jobs[j].round, whole) /\ Better(Files(j), g)
    BY <2>1, <1>r, DealtGood
  <2> QED BY <2>1, <2>2, <1>b, <1>r
<1>5. CASE QueueUp(j)
  <2>1. CASE Files(j).queue = {}
    <3>1. Sets(j, [Files(j) EXCEPT !.queue = NotEmpty(j)]) /\ AtStep(j, "queue")
          /\ UNCHANGED <<way, shell, launches, whole>> /\ Writing(j)
      BY <1>5, <2>1 DEF QueueUp, Writing
    <3> QED BY <3>1, <2>1, <1>b, <1>r, QueueGood
  <2>2. CASE Files(j).queue # {}
    <3>1. Sets(j, [Files(j) EXCEPT !.queue = Files(j).queue]) /\ UNCHANGED <<way, shell, launches, whole>>
      BY <1>5, <2>2 DEF QueueUp
    <3>2. round' = round
      BY <3>1, <1>r DEF Sets, FilesType
    <3> QED BY <3>1, <3>2, <1>a
  <2> QED BY <2>1, <2>2
<1>6. ASSUME NEW i \in Shards, WorkOn(j, i) PROVE Goal
  <2> DEFINE g == [Files(j) EXCEPT !.done = @ \cup {i}]
  <2>1. Sets(j, g) /\ UNCHANGED <<way, shell, launches, whole>> /\ Writing(j) /\ i \in Listed(j)
    BY <1>6 DEF WorkOn, hist, Writing
  <2>2. RoundGood(g, jobs[j].round, whole) /\ Better(Files(j), g)
    BY <2>1, WorkGood
  <2> QED BY <2>1, <2>2, <1>b, <1>r
<1>7. ASSUME NEW state \in {"ok", "failed"}, Reduce(j, state) PROVE Goal
  <2>0. UNCHANGED <<way, shell, launches, whole>> /\ Writing(j) /\ AtStep(j, "reduce")
    BY <1>7 DEF Reduce, hist, Writing
  <2>1. CASE round' = round
    BY <2>0, <2>1, <1>a
  <2>2. CASE round' # round
    <3> DEFINE g == [Files(j) EXCEPT !.marker = "complete"]
    <3>1. Listed(j) \subseteq Files(j).done /\ RoundGood(g, jobs[j].round, whole) /\ Better(Files(j), g)
      BY <2>0, ReduceGood
    <3>2. Sets(j, g)
      BY <1>7, <2>2, <3>1 DEF Reduce
    <3> QED BY <2>0, <3>1, <3>2, <1>b, <1>r
  <2> QED BY <2>1, <2>2
<1>8. CASE KillJob(j) \/ Requeue(j)
  <2>0. UNCHANGED <<way, shell, launches>> /\ Cut(j) /\ jobs[j].state = "running"
    BY <1>8 DEF KillJob, Requeue
  <2>1. CASE jobs[j].pc # "deal"
    BY <2>0, <2>1, <1>a DEF Cut
  <2>2. CASE jobs[j].pc = "deal"
    <3>1. PICK n \in 0 .. S - 1 : Sets(j, [Files(j) EXCEPT !.dealt = 1 .. n])
      BY <2>0, <2>2 DEF Cut
    <3>2. 1 .. n \in SUBSET Shards /\ whole' = FALSE
      BY <2>0, <2>2, DriverSizes DEF Cut, Shards
    <3>3. AtStep(j, "deal") /\ Writing(j)
      BY <2>0, <2>2 DEF AtStep, Writing
    <3> DEFINE g == [Files(j) EXCEPT !.dealt = 1 .. n]
    <3>4. RoundGood(g, jobs[j].round, FALSE) /\ Better(Files(j), g)
      BY <3>2, <3>3, DealtGood
    <3> QED BY <2>0, <3>1, <3>2, <3>3, <3>4, <1>b
  <2> QED BY <2>1, <2>2
<1> QED BY <1>1, <1>2, <1>3, <1>4, <1>5, <1>6, <1>7, <1>8 DEF JobStep, Step

\* What there is stays, and a writer's round is changed by none but the writer.
LEMMA Touched ==
  ASSUME DriverIInv, NEW j \in Live, JobStep(j)
  PROVE  /\ \A r \in Rounds : Better(round[r], round'[r]) /\ (Complete(r) => Complete(r)')
                              /\ (Behind(r) => Behind(r)')
         /\ AllComplete => AllComplete'
         /\ \A k \in Live : k # j /\ Writing(k) => round' = round
<1>1. Touch(j) /\ round' \in [Rounds -> FilesType]
  BY FilesStep
<1>2. jobs[j].round \in Rounds /\ Files(j) = round[jobs[j].round] /\ round \in [Rounds -> FilesType]
  BY JobFacts
<1>3. ASSUME NEW r \in Rounds PROVE Better(round[r], round'[r])
  <2>1. CASE round' = round
    BY <2>1 DEF Better
  <2>2. CASE round' # round
    <3>1. PICK g \in FilesType : Better(Files(j), g) /\ Sets(j, g)
      BY <1>1, <2>2 DEF Touch
    <3>2. round'[r] = IF r = jobs[j].round THEN g ELSE round[r]
      BY <1>2, <3>1 DEF Sets
    <3> QED BY <1>2, <3>1, <3>2 DEF Better
  <2> QED BY <2>1, <2>2
<1>4. \A r \in Rounds : Complete(r) => Complete(r)'
  BY <1>3 DEF Better, Complete
<1>5. \A r \in Rounds : Behind(r) => Behind(r)'
  BY <1>4 DEF Behind
<1>6. AllComplete => AllComplete'
  BY <1>4 DEF AllComplete
<1>7. \A k \in Live : k # j /\ Writing(k) => round' = round
  BY <1>1, OnlyOneWrites DEF Touch
<1> QED BY <1>3, <1>4, <1>5, <1>6, <1>7

\* What another job has found is not taken away.
LEMMA FoundKept ==
  ASSUME DriverIInv, NEW j \in Live, JobStep(j), NEW k \in 1 .. Last, k # j,
         jobs'[k] = jobs[k], k \in Live' <=> k \in Live
  PROVE  Found(k)'
<1>1. CASE k \notin Live
  BY <1>1 DEF Found, AtStep
<1>2. CASE k \in Live
  <2>1. \A p \in AllStops : AtStep(k, p)' <=> AtStep(k, p)
    BY DEF AtStep
  <2>2. /\ jobs[k].round \in Rounds /\ Files(k) = round[jobs[k].round] /\ Found(k)
        /\ Files(k)' = round'[jobs[k].round]
    BY <1>2, JobFacts DEF Files
  <2>3. Better(Files(k), Files(k)') /\ (Behind(jobs[k].round) => Behind(jobs[k].round)')
    <3>1. Better(round[jobs[k].round], round'[jobs[k].round])
          /\ (Behind(jobs[k].round) => Behind(jobs[k].round)')
      BY <2>2, Touched
    <3> QED BY <2>2, <3>1
  <2>4. InTurn' = InTurn
    BY FilesStep DEF InTurn
  <2>5. CASE ~Writing(k)
    <3>1. \A p \in {"bootstrap", "deal", "work", "reduce"} : ~AtStep(k, p)'
      BY <2>1, <2>5 DEF Writing, AllStops
    <3>2. AtStep(k, "queue")' => (Files(k).cands)'
      BY <2>1, <2>2, <2>3 DEF Found, AllStops, Better
    <3>3. AtStep(k, "submit")' /\ jobs'[k].kind = "prep" => (Files(k).cands)' /\ (Files(k).queue)' # {}
      BY <2>1, <2>2, <2>3 DEF Found, AllStops, Better
    <3> QED BY <3>1, <3>2, <3>3 DEF Found
  <2>6. CASE Writing(k)
    <3>1. round' = round
      BY <1>2, <2>6, Touched
    <3>2. Files(k)' = Files(k) /\ Listed(k)' = Listed(k)
      BY <3>1, <2>2 DEF Listed, Files
    <3> QED BY <2>1, <2>2, <2>3, <2>4, <3>2 DEF Found, AllStops
  <2> QED BY <2>5, <2>6
<1> QED BY <1>1, <1>2

-----------------------------------------------------------------------------
(* A step that changes one job and adds none. *)

Moved(j, new) ==
  /\ new \in JobType /\ new.kind = jobs[j].kind /\ new.after = jobs[j].after
  /\ new.budget = jobs[j].budget /\ new.dep = jobs[j].dep /\ new.cycle = jobs[j].cycle
  /\ way.launcher # "auto" => new.round = jobs[j].round
  /\ new.pc \in Stops[new.kind] /\ new.pc # "follow"
  /\ new.state = "pending" => new.pc = FirstStep[new.kind]
  /\ new.pc = "end" => new.kind = "prep" \/ ~Alive(new)
  /\ new.pc = "deal" => j = Last \/ new.kind # "prep"
  /\ Alive(new) => /\ new.kind = "sup" => jobs[j].pc # "follow"
                   /\ new.kind \in {"prep", "map", "fin"} =>
                        /\ new.noted \/ new.pc = "note" <=> jobs[j].noted \/ jobs[j].pc = "note"
                        /\ new.pc \in {"check", "work", "reduce", "end"} => new.noted

\* A step that moves one job keeps the invariant, if the job moves as it may, has found what
\* its new place needs, and leaves the chain to another job when it ends.
LEMMA JobMoves ==
  ASSUME DriverIInv, NEW j \in Live, JobStep(j), NEW new, Moved(j, new),
         jobs' = [jobs EXCEPT ![j] = new],
         faults' \in 0 .. MaxFaults[way.launcher], exposed' \in BOOLEAN, exposed => exposed',
         Begun(j)' => /\ \A i \in 1 .. j - 1 : Worker(i) => i \notin Live
                      /\ InTurn /\ way.launcher # "auto" /\ jobs[j].kind \in {"prep", "round"} =>
                           Behind(jobs[j].round),
         way.launcher = "drive" /\ new.state = "ok" => Complete(jobs[j].round)',
         Found(j)',
         \/ Alive(new) \/ exposed' \/ AllComplete' \/ jobs[j].cycle > MaxCycles
         \/ jobs[j].kind = "round" 
         \/ (j # Last /\ (jobs[j].kind # "sup" \/ jobs[Last].kind # "round"))
  PROVE  DriverIInv'
<1>0. /\ DriverShape /\ Line /\ Ordered /\ Prepared /\ FilesGood /\ AllFound
      /\ Planned /\ Chained /\ Queueing /\ Held
  BY DEF DriverIInv
<1>1. /\ FilesGood' /\ round' \in [Rounds -> FilesType] /\ whole' \in BOOLEAN
      /\ UNCHANGED <<way, shell, launches>>
  BY FilesStep
<1>j. j \in 1 .. Last /\ jobs[j] \in JobType /\ new \in JobType /\ Last \in Nat
  BY JobFacts, <1>0, DriverFacts DEF Moved
<1>2. /\ jobs' \in Seq(JobType) /\ Last' = Last
      /\ jobs'[j] = new /\ \A k \in 1 .. Last : k # j => jobs'[k] = jobs[k]
      /\ \A k \in 1 .. Last : k \in Live' <=> Alive(jobs'[k])
      /\ Live' \subseteq 1 .. Last
  BY <1>0, <1>j, JobChanged DEF Alive
<1>3. \A k \in 1 .. Last : k \in Live <=> Alive(jobs[k])
  BY <1>0, LiveIs DEF Alive
<1>4. \A k \in 1 .. Last : /\ jobs'[k].kind = jobs[k].kind /\ jobs'[k].cycle = jobs[k].cycle
                           /\ way.launcher # "auto" => jobs'[k].round = jobs[k].round
                           /\ k \in Live' => k \in Live
  BY <1>2, <1>3, <1>j DEF Moved
<1>5. KindsOf' = KindsOf /\ Supervised' = Supervised /\ InTurn' = InTurn
  BY <1>1 DEF KindsOf, Supervised, InTurn
<1>6. \A k \in 1 .. Last : Worker(k)' = Worker(k)
  BY <1>4 DEF Worker
<1>a. DriverShape'
  <2>1. ASSUME NEW k \in 1 .. Last PROVE JobKnown(k)'
    <3>1. CASE k = j
      <4>1. JobKnown(j)
        BY JobFacts
      <4>2. way.launcher # "auto" => BudgetOf(new.round) = BudgetOf(jobs[j].round)
        BY DEF Moved
      <4> QED BY <3>1, <4>1, <4>2, <1>2, <1>5, <1>1, <1>j DEF JobKnown, Moved, BudgetOf
    <3>2. CASE k # j
      BY <3>2, <1>0, <1>2, <1>5, <1>1, DriverFacts DEF JobKnown, BudgetOf
    <3> QED BY <3>1, <3>2
  <2> QED BY <2>1, <1>0, <1>1, <1>2 DEF DriverShape
<1>b. Line'
  <2> SUFFICES ASSUME NEW k \in Live' PROVE
        /\ jobs'[k].kind = "sup" /\ jobs'[k].pc # "follow" => k = Last
        /\ jobs'[k].kind = "sup" /\ jobs'[k].pc = "follow" =>
             IF way.launcher = "pf" THEN k < Last
             ELSE k = Last - 1 /\ jobs'[k].sub = Last /\ jobs'[Last].kind = "round"
        /\ jobs'[k].kind \in {"prep", "map", "fin"} =>
             /\ jobs'[k].noted \/ jobs'[k].pc = "note" <=> k < Last
             /\ jobs'[k].pc \in {"check", "work", "reduce", "end"} => jobs'[k].noted
    BY <1>1, <1>2 DEF Line
  <2>1. k \in 1 .. Last /\ k \in Live
    BY <1>2, <1>4
  <2>2. CASE k = j
    BY <2>1, <2>2, <1>0, <1>2, <1>3 DEF Line, Moved
  <2>3. CASE k # j
    <3>1. jobs'[k] = jobs[k] /\ (Last \in 1 .. Last => jobs'[Last].kind = jobs[Last].kind)
      BY <2>1, <2>3, <1>2, <1>4
    <3> QED BY <2>1, <3>1, <1>0, <1>j DEF Line
  <2> QED BY <2>2, <2>3
<1>c. Ordered'
  <2> SUFFICES ASSUME NEW k \in 1 .. Last, Begun(k)', NEW i \in 1 .. k - 1, Worker(i)'
               PROVE  i \notin Live'
    BY <1>2 DEF Ordered
  <2>1. i \in 1 .. Last /\ Worker(i)
    BY <1>6, <1>j
  <2>2. i \notin Live
    <3>1. CASE k = j
      BY <2>1, <3>1
    <3>2. CASE k # j
      BY <2>1, <3>2, <1>0, <1>2 DEF Ordered, Begun
    <3> QED BY <3>1, <3>2
  <2> QED BY <2>1, <2>2, <1>4
<1>d. Prepared'
  <2> SUFFICES ASSUME NEW k \in 1 .. Last, jobs'[k].kind = "prep", k < Last
               PROVE  /\ round'[jobs'[k].round].cands /\ round'[jobs'[k].round].queue # {}
                      /\ jobs'[k].pc # "deal"
    BY <1>2 DEF Prepared
  <2>1. jobs[k].kind = "prep" /\ round[jobs[k].round].cands /\ round[jobs[k].round].queue # {}
        /\ jobs[k].pc # "deal"
    BY <1>0, <1>4 DEF Prepared
  <2>2. jobs[k].round \in Rounds /\ jobs'[k].round = jobs[k].round
    <3>1. jobs[k].kind \in KindsOf
      BY <1>0, DriverFacts DEF JobKnown
    <3>2. way.launcher # "auto"
      BY <2>1, <3>1 DEF KindsOf
    <3> QED BY <3>2, <1>0, <1>4, DriverFacts DEF JobType
  <2>3. jobs'[k].pc # "deal"
    BY <2>1, <1>2 DEF Moved
  <2>4. Better(round[jobs[k].round], round'[jobs[k].round])
    BY <2>2, Touched
  <2> QED BY <2>1, <2>2, <2>3, <2>4 DEF Better
<1>e. AllFound'
  <2> SUFFICES ASSUME NEW k \in 1 .. Last PROVE Found(k)'
    BY <1>2 DEF AllFound
  <2>1. CASE k = j
    BY <2>1
  <2>2. CASE k # j
    BY <2>2, <1>2, <1>3, FoundKept
  <2> QED BY <2>1, <2>2
<1>f. Planned'
  <2> SUFFICES ASSUME NEW k \in 1 .. Last, InTurn, way.launcher # "auto",
                      jobs'[k].kind \in {"prep", "round"}, Begun(k)'
               PROVE  Behind(jobs[k].round)'
    BY <1>1, <1>2, <1>5 DEF Planned
  <2>1. jobs'[k].round = jobs[k].round /\ jobs[k].round \in Rounds /\ jobs[k].kind \in {"prep", "round"}
    BY <1>0, <1>4, DriverFacts DEF JobType
  <2>2. Behind(jobs[k].round)
    <3>1. CASE k = j
      BY <2>1, <3>1
    <3>2. CASE k # j
      BY <2>1, <3>2, <1>0, <1>2 DEF Planned, Begun
    <3> QED BY <3>1, <3>2
  <2>3. DEFINE r == jobs[k].round
  <2>4. round' = round' /\ (Behind(r) => \A q \in Rounds : q < r => Complete(q)')
    BY <2>1, Touched DEF Behind
  <2> QED BY <2>1, <2>2, <2>4 DEF Behind
<1>g. Chained'
  <2> SUFFICES ASSUME way.launcher = "drive", NEW k \in 1 .. Last
               PROVE  /\ k > 1 => jobs'[k].round = jobs'[k - 1].round + 1
                      /\ jobs'[k].state = "ok" => Complete(jobs[k].round)'
    BY <1>1, <1>2 DEF Chained
  <2>1. jobs'[k].round = jobs[k].round /\ jobs[k].round \in Rounds
    BY <1>0, <1>4, DriverFacts DEF JobType
  <2>2. ASSUME k > 1 PROVE jobs'[k].round = jobs'[k - 1].round + 1
    <3>1. k - 1 \in 1 .. Last
      BY <2>2, <1>j
    <3> QED BY <2>1, <2>2, <3>1, <1>0, <1>4 DEF Chained
  <2>3. ASSUME jobs'[k].state = "ok" PROVE Complete(jobs[k].round)'
    <3>1. CASE k = j
      BY <2>3, <3>1, <1>2
    <3>2. CASE k # j
      <4>1. round[jobs[k].round].marker = "complete"
        BY <2>3, <3>2, <1>0, <1>2 DEF Chained, Complete
      <4>2. Better(round[jobs[k].round], round'[jobs[k].round])
        BY <2>1, Touched
      <4> QED BY <4>1, <4>2, <2>1 DEF Better, Complete
    <3> QED BY <3>1, <3>2
  <2> QED BY <2>2, <2>3
<1>h. Queueing'
  <2>1. way.launcher = "drive" => jobs'[Last].round = jobs[Last].round
    BY <1>4, <1>j
  <2>2. Last # 0
    BY <1>j
  <2> QED BY <2>1, <2>2, <1>0, <1>1, <1>2, <1>5 DEF Queueing
<1>i. Held'
  <2> SUFFICES ASSUME Supervised, launches > 0, ~exposed',
                      ~AllComplete', \A k \in 1 .. Last : jobs'[k].cycle <= MaxCycles
               PROVE  Holder'
    <3>1. \A k \in 1 .. Last : jobs'[k].cycle <= MaxCycles \/ jobs'[k].cycle > MaxCycles
      <4> SUFFICES ASSUME NEW k \in 1 .. Last
                   PROVE  jobs'[k].cycle <= MaxCycles \/ jobs'[k].cycle > MaxCycles
        OBVIOUS
      <4>1. jobs'[k].cycle = jobs[k].cycle /\ jobs[k] \in JobType
        BY <1>0, <1>4, DriverFacts
      <4> QED BY <4>1, DriverBounds DEF JobType
    <3> QED BY <3>1, <1>1, <1>2, <1>5 DEF Held
  <2>1. Holder
    <3>1. ~AllComplete
      BY Touched
    <3>2. \A k \in 1 .. Last : ~(jobs[k].cycle > MaxCycles)
      <4> SUFFICES ASSUME NEW k \in 1 .. Last PROVE ~(jobs[k].cycle > MaxCycles)
        OBVIOUS
      <4>1. jobs'[k].cycle = jobs[k].cycle /\ jobs[k] \in JobType
        BY <1>0, <1>4, DriverFacts
      <4> QED BY <4>1, DriverBounds DEF JobType
    <3> QED BY <3>1, <3>2, <1>0 DEF Held
  <2>2. Last > 0 /\ Last \in 1 .. Last /\ jobs'[Last].kind = jobs[Last].kind
    BY <1>j, <1>4
  <2>3. ASSUME NEW k \in 1 .. Last, k \in Live, k # j \/ Alive(new) PROVE k \in Live'
    BY <2>3, <1>2, <1>3
  <2>4. ~(jobs[j].cycle > MaxCycles)
    BY <1>4, <1>j, DriverBounds DEF JobType
  <2>5. CASE jobs[Last].kind = "round"
    <3>1. Last - 1 \in Live /\ jobs[Last - 1].kind = "sup" /\ Last - 1 \in 1 .. Last
      BY <2>1, <2>5, <1>0, DriverFacts DEF Holder
    <3>2. Last - 1 # j \/ Alive(new)
      BY <3>1, <2>4, <2>5
    <3> QED BY <3>1, <3>2, <2>2, <2>3, <2>5, <1>2, <1>4 DEF Holder
  <2>6. CASE jobs[Last].kind # "round"
    <3>1. Last \in Live
      BY <2>1, <2>6 DEF Holder
    <3>2. Last # j \/ Alive(new)
      BY <2>4, <2>6
    <3> QED BY <3>1, <3>2, <2>2, <2>3, <2>6, <1>2 DEF Holder
  <2> QED BY <2>5, <2>6
<1> QED BY <1>1, <1>a, <1>b, <1>c, <1>d, <1>e, <1>f, <1>g, <1>h, <1>i DEF DriverIInv

-----------------------------------------------------------------------------
(* A step that changes one job and adds one behind: only under supervisors. *)

Added(job) ==
  /\ job \in JobType /\ job.kind \in KindsOf /\ job.pc = FirstStep[job.kind]
  /\ job.state = "pending" /\ ~job.noted /\ job.after \in {0, Last}
  /\ job.kind \in {"prep", "round"} => job.after = 0 /\ job.dep = way.dep
                                        /\ job.budget = BudgetOf(job.round) /\ Behind(job.round)
  /\ job.cycle <= MaxCycles + 1
  /\ job.kind # "sup" => job.cycle <= MaxCycles

\* A step that adds a job keeps the invariant, if the added job is the last of the chain.
LEMMA JobSubmits ==
  ASSUME DriverIInv, Supervised, NEW j \in Live, JobStep(j), jobs[j].state = "running",
         UNCHANGED <<round, faults, hist>>,
         NEW new, new \in JobType, NEW job, Added(job),
         jobs' = Append([jobs EXCEPT ![j] = new], job),
         new.kind = jobs[j].kind, new.after = jobs[j].after, new.dep = jobs[j].dep,
         new.budget = jobs[j].budget, new.cycle = jobs[j].cycle, new.round = jobs[j].round,
         new.pc \in Stops[new.kind], new.pc \in {"follow", "note", "end"}, new.state # "pending",
         new.pc = "follow" => new.cycle <= MaxCycles, jobs[j].kind # "round",
         \/ j = Last
         \/ j = Last - 1 /\ jobs[j].kind = "sup" /\ jobs[Last].kind = "round" /\ job.after # 0,
         job.after = 0 => ~Worker(j),
         Alive(new) => /\ new.kind # "sup" => new.pc = "note"
                       /\ new.kind = "sup" => new.pc = "follow"
                       /\ new.kind = "sup" /\ way.launcher # "pf" =>
                            j = Last /\ new.sub = Last + 1 /\ job.kind = "round",
         jobs[j].kind = "prep" => Files(j).cands /\ Files(j).queue # {},
         job.kind = "round" => j = Last /\ new.kind = "sup" /\ Alive(new)
  PROVE  DriverIInv'
<1>0. /\ DriverShape /\ Line /\ Ordered /\ Prepared /\ FilesGood /\ AllFound
      /\ Planned /\ Chained /\ Queueing /\ Held
  BY DEF DriverIInv
<1>1. /\ FilesGood' /\ round' = round
      /\ UNCHANGED <<way, shell, launches, whole, exposed, faults>>
  BY FilesStep DEF hist
<1>j. j \in 1 .. Last /\ jobs[j] \in JobType /\ Last \in Nat /\ job \in JobType
  BY JobFacts, <1>0, DriverFacts DEF Added
<1>o. /\ [jobs EXCEPT ![j] = new] \in Seq(JobType) /\ Len([jobs EXCEPT ![j] = new]) = Last
      /\ \A k \in 1 .. Last : [jobs EXCEPT ![j] = new][k] = IF k = j THEN new ELSE jobs[k]
  BY <1>0, <1>j, DriverFacts, ExceptSeq DEF Last
<1>2. /\ jobs' \in Seq(JobType) /\ Last' = Last + 1 /\ jobs'[Last + 1] = job
      /\ jobs'[j] = new /\ \A k \in 1 .. Last : k # j => jobs'[k] = jobs[k]
      /\ \A k \in 1 .. Last + 1 : k \in Live' <=> Alive(jobs'[k])
      /\ Live' \subseteq 1 .. Last + 1
  <2> DEFINE old == [jobs EXCEPT ![j] = new]
  <2>1. old \in Seq(JobType) /\ Len(old) = Last /\ jobs' = Append(old, job)
    BY <1>o
  <2>2. \A k \in 1 .. Last : old[k] = IF k = j THEN new ELSE jobs[k]
    BY <1>o
  <2> HIDE DEF old
  <2>3. /\ jobs' \in Seq(JobType) /\ Last' = Last + 1 /\ jobs'[Last + 1] = job
        /\ \A k \in 1 .. Last : jobs'[k] = old[k]
        /\ \A k \in 1 .. Last + 1 : k \in Live' <=> jobs'[k].state \in {"pending", "running"}
        /\ Live' \subseteq 1 .. Last + 1
    BY <2>1, <1>0, <1>j, JobAdded
  <2> QED BY <2>2, <2>3, <1>j DEF Alive
<1>3. \A k \in 1 .. Last : k \in Live <=> Alive(jobs[k])
  BY <1>0, LiveIs DEF Alive
<1>4. \A k \in 1 .. Last : /\ jobs'[k].kind = jobs[k].kind /\ jobs'[k].cycle = jobs[k].cycle
                           /\ jobs'[k].round = jobs[k].round
                           /\ k \in Live' => k \in Live
  BY <1>2, <1>3, <1>j
<1>5. KindsOf' = KindsOf /\ Supervised' = Supervised /\ InTurn' = InTurn
  BY <1>1 DEF KindsOf, Supervised, InTurn
<1>6. \A k \in 1 .. Last : Worker(k)' = Worker(k)
  BY <1>4 DEF Worker
<1>7. \A r \in Rounds : Behind(r)' = Behind(r)
  BY <1>1 DEF Behind, Complete
<1>8. \A k \in 1 .. Last + 1 : k \in 1 .. Last \/ k = Last + 1
  BY <1>j
<1>9. Last + 1 \in Live'
  BY <1>2, <1>j DEF Added, Alive
<1>a. DriverShape'
  <2>1. ASSUME NEW k \in 1 .. Last + 1 PROVE JobKnown(k)'
    <3>1. CASE k = j
      <4>1. JobKnown(j)
        BY JobFacts
      <4> QED BY <3>1, <4>1, <1>2, <1>5, <1>1, <1>j DEF JobKnown, BudgetOf
    <3>2. CASE k = Last + 1
      <4>1. job.pc \in Stops[job.kind] /\ job.pc # "end" /\ job.pc # "follow"
        BY DEF Added, JobType, JobKinds, FirstStep, Stops
      <4> QED BY <3>2, <4>1, <1>2, <1>5, <1>1, <1>j DEF JobKnown, BudgetOf, Added
    <3>3. CASE k \in 1 .. Last /\ k # j
      BY <3>3, <1>0, <1>2, <1>5, <1>1, DriverFacts DEF JobKnown, BudgetOf
    <3> QED BY <3>1, <3>2, <3>3, <1>8
  <2>2. shell' \in [todo : Seq(Rounds), prev : 0 .. Last + 1]
    BY <1>0, <1>1, <1>j DEF DriverShape
  <2> QED BY <2>1, <2>2, <1>0, <1>1, <1>2 DEF DriverShape
<1>b. Line'
  <2> SUFFICES ASSUME NEW k \in Live' PROVE
        /\ jobs'[k].kind = "sup" /\ jobs'[k].pc # "follow" => k = Last + 1
        /\ jobs'[k].kind = "sup" /\ jobs'[k].pc = "follow" =>
             IF way.launcher = "pf" THEN k < Last + 1
             ELSE k = Last + 1 - 1 /\ jobs'[k].sub = Last + 1 /\ jobs'[Last + 1].kind = "round"
        /\ jobs'[k].kind \in {"prep", "map", "fin"} =>
             /\ (jobs'[k].noted \/ jobs'[k].pc = "note") <=> k < Last + 1
             /\ jobs'[k].pc \in {"check", "work", "reduce", "end"} => jobs'[k].noted
    BY <1>1, <1>2, <1>j DEF Line
  <2>1. CASE k = j
    BY <2>1, <1>2, <1>j
  <2>2. CASE k = Last + 1
    BY <2>2, <1>2, <1>j DEF Added, FirstStep
  <2>3. CASE k \in 1 .. Last /\ k # j
    <3>1. jobs'[k] = jobs[k] /\ k \in Live
      BY <2>3, <1>2, <1>4
    <3>2. k = Last => jobs[k].kind = "round"
      BY <2>3
    <3>3. ~(way.launcher # "pf" /\ jobs[k].kind = "sup" /\ jobs[k].pc = "follow")
      BY <3>1, <2>3, <1>0, <1>j DEF Line
    <3>4. jobs[k].kind # "round" => k < Last
      BY <3>2, <2>3, <1>j
    <3>5. jobs[k].kind # "sup" \/ jobs[k].pc = "follow"
      BY <3>1, <3>4, <1>0, <1>j DEF Line
    <3>6. jobs[k].kind \in {"prep", "map", "fin"} =>
            /\ jobs[k].noted \/ jobs[k].pc = "note"
            /\ jobs[k].pc \in {"check", "work", "reduce", "end"} => jobs[k].noted
      BY <3>1, <3>4, <1>0 DEF Line
    <3>7. k < Last + 1
      BY <2>3, <1>j
    <3> QED BY <3>1, <3>3, <3>5, <3>6, <3>7
  <2> QED BY <2>1, <2>2, <2>3, <1>2, <1>8
<1>c. Ordered'
  <2> SUFFICES ASSUME NEW k \in 1 .. Last + 1, Begun(k)', NEW i \in 1 .. k - 1, Worker(i)'
               PROVE  i \notin Live'
    BY <1>2 DEF Ordered
  <2>1. i \in 1 .. Last /\ Worker(i)
    BY <1>6, <1>j
  <2>2. i \notin Live
    <3>1. CASE k = j
      BY <2>1, <3>1, <1>0, <1>j DEF Ordered, Begun
    <3>2. CASE k \in 1 .. Last /\ k # j
      BY <2>1, <3>2, <1>0, <1>2 DEF Ordered, Begun
    <3>3. CASE k = Last + 1
      <4>1. job.after = 0
        BY <3>3, <1>2 DEF Begun, Added
      <4>2. j = Last /\ ~Worker(j) /\ Begun(j)
        BY <4>1 DEF Begun
      <4>3. i # j /\ i \in 1 .. j - 1
        BY <2>1, <4>2, <1>j
      <4> QED BY <4>2, <4>3, <2>1, <1>0, <1>j DEF Ordered
    <3> QED BY <3>1, <3>2, <3>3, <1>8
  <2> QED BY <2>1, <2>2, <1>4
<1>d. Prepared'
  <2> SUFFICES ASSUME NEW k \in 1 .. Last + 1, jobs'[k].kind = "prep", k < Last + 1
               PROVE  /\ round[jobs'[k].round].cands /\ round[jobs'[k].round].queue # {}
                      /\ jobs'[k].pc # "deal"
    BY <1>1, <1>2 DEF Prepared
  <2>1. k \in 1 .. Last /\ jobs[k].kind = "prep" /\ jobs'[k].round = jobs[k].round
    <3>1. k \in 1 .. Last
      BY <1>8, <1>j
    <3> QED BY <3>1, <1>4
  <2>2. CASE k = j
    BY <2>1, <2>2, <1>2 DEF Files
  <2>3. CASE k # j
    <3>1. k < Last
      BY <2>1, <2>3, <1>j
    <3> QED BY <2>1, <2>3, <3>1, <1>0, <1>2 DEF Prepared
  <2> QED BY <2>2, <2>3
<1>e. AllFound'
  <2> SUFFICES ASSUME NEW k \in 1 .. Last + 1 PROVE Found(k)'
    BY <1>2 DEF AllFound
  <2>1. CASE k = j
    BY <2>1, <1>2 DEF Found, AtStep
  <2>2. CASE k \in 1 .. Last /\ k # j
    BY <2>2, <1>2, <1>3, FoundKept
  <2>3. CASE k = Last + 1
    BY <2>3, <1>2 DEF Found, AtStep, Added
  <2> QED BY <2>1, <2>2, <2>3, <1>8
<1>f. Planned'
  <2> SUFFICES ASSUME NEW k \in 1 .. Last + 1, InTurn, way.launcher # "auto",
                      jobs'[k].kind \in {"prep", "round"}, Begun(k)'
               PROVE  Behind(jobs[k].round)'
    BY <1>1, <1>2, <1>5 DEF Planned
  <2>1. CASE k = Last + 1
    BY <2>1, <1>1, <1>2 DEF Added, Behind, Complete
  <2>2. CASE k \in 1 .. Last
    <3>1. Begun(k)
      BY <2>2, <1>2 DEF Begun
    <3>2. Behind(jobs[k].round) /\ jobs'[k].round = jobs[k].round
      BY <3>1, <2>2, <1>0, <1>4 DEF Planned
    <3> QED BY <3>2, <1>1 DEF Behind, Complete
  <2> QED BY <2>1, <2>2, <1>8
<1>g. Chained'
  BY <1>1 DEF Chained, Supervised
<1>h. Queueing'
  BY <1>0, <1>1 DEF Queueing, AtEase, Supervised
<1>i. Held'
  <2>1. Holder'
    <3>1. CASE job.kind # "round"
      BY <3>1, <1>2, <1>9, <1>j DEF Holder
    <3>2. CASE job.kind = "round"
      <4>1. j = Last /\ new.kind = "sup" /\ Last \in Live'
        BY <3>2, <1>2, <1>j
      <4> QED BY <3>2, <4>1, <1>2, <1>j DEF Holder
    <3> QED BY <3>1, <3>2
  <2> QED BY <2>1 DEF Held
<1> QED BY <1>1, <1>a, <1>b, <1>c, <1>d, <1>e, <1>f, <1>g, <1>h, <1>i DEF DriverIInv

-----------------------------------------------------------------------------
(* What the steps of a job do to it. *)

\* A running job has its turn already.
LEMMA JobGoes ==
  ASSUME DriverIInv, NEW j \in Live, JobStep(j), jobs[j].state = "running",
         NEW new, Moved(j, new), jobs' = [jobs EXCEPT ![j] = new],
         faults' \in 0 .. MaxFaults[way.launcher], exposed' \in BOOLEAN, exposed => exposed',
         way.launcher = "drive" /\ new.state = "ok" => Complete(jobs[j].round)',
         Found(j)',
         \/ Alive(new) \/ exposed' \/ AllComplete' \/ jobs[j].cycle > MaxCycles
         \/ jobs[j].kind = "round"
         \/ (j # Last /\ (jobs[j].kind # "sup" \/ jobs[Last].kind # "round"))
  PROVE  DriverIInv'
<1>1. j \in 1 .. Last /\ Begun(j) /\ Ordered /\ Planned
  BY JobFacts DEF Begun, DriverIInv
<1>2. \A i \in 1 .. j - 1 : Worker(i) => i \notin Live
  BY <1>1 DEF Ordered
<1>3. InTurn /\ way.launcher # "auto" /\ jobs[j].kind \in {"prep", "round"} => Behind(jobs[j].round)
  BY <1>1 DEF Planned
<1> QED BY <1>2, <1>3, JobMoves

\* A job that ends.
LEMMA JobIsEnded ==
  ASSUME DriverIInv, NEW j \in Live, JobStep(j), jobs[j].state = "running",
         NEW st \in {"ok", "failed"}, End(j, st),
         faults' \in 0 .. MaxFaults[way.launcher], exposed' \in BOOLEAN, exposed => exposed',
         way.launcher = "drive" /\ st = "ok" => Complete(jobs[j].round)',
         \/ exposed' \/ AllComplete' \/ jobs[j].cycle > MaxCycles \/ jobs[j].kind = "round"
         \/ (j # Last /\ (jobs[j].kind # "sup" \/ jobs[Last].kind # "round"))
  PROVE  DriverIInv'
<1> DEFINE new == [jobs[j] EXCEPT !.state = st, !.pc = "end", !.noted = FALSE]
<1>1. jobs[j] \in JobType /\ j \in 1 .. Last /\ jobs[j].kind \in JobKinds /\ DriverShape
  BY JobFacts DEF JobType, DriverIInv
<1>2. new \in JobType /\ jobs' = [jobs EXCEPT ![j] = new]
  BY <1>1, EndedIs DEF End
<1>3. /\ new.state = st /\ new.pc = "end" /\ new.kind = jobs[j].kind /\ new.round = jobs[j].round
      /\ new.after = jobs[j].after /\ new.budget = jobs[j].budget /\ new.dep = jobs[j].dep
      /\ new.cycle = jobs[j].cycle
  BY <1>1 DEF JobType
<1> HIDE DEF new
<1>4. "end" \in Stops[new.kind]
  BY <1>1, <1>3 DEF Stops, JobKinds, FirstStep
<1>5. ~Alive(new)
  BY <1>3 DEF Alive
<1>6. Moved(j, new)
  BY <1>2, <1>3, <1>4, <1>5 DEF Moved
<1>7. Found(j)'
  <2>1. jobs'[j] = new
    BY <1>1, <1>2, JobChanged
  <2> QED BY <2>1, <1>3 DEF Found, AtStep
<1> QED BY <1>2, <1>3, <1>5, <1>6, <1>7, JobGoes

\* A job that goes on to another place.
LEMMA JobGoesOn ==
  ASSUME DriverIInv, NEW j \in Live, JobStep(j), jobs[j].state = "running",
         UNCHANGED <<faults, exposed>>, jobs[j].kind # "sup", jobs[j].pc # "note",
         NEW p \in Stops[jobs[j].kind], GoOn(j, p), p \notin {"follow", "note"},
         p = "end" => jobs[j].kind = "prep",
         p = "deal" => j = Last \/ jobs[j].kind # "prep",
         p \in {"check", "work", "reduce", "end"} => jobs[j].kind = "round" \/ jobs[j].noted,
         Found(j)'
  PROVE  DriverIInv'
<1> DEFINE new == [jobs[j] EXCEPT !.pc = p]
<1>1. jobs[j] \in JobType /\ j \in 1 .. Last /\ jobs[j].kind \in JobKinds /\ DriverShape
  BY JobFacts DEF JobType, DriverIInv
<1>2. new \in JobType /\ jobs' = [jobs EXCEPT ![j] = new]
  <2>1. p \in AllStops
    BY <1>1 DEF AllStops, JobKinds, FirstStep, Stops
  <2> QED BY <1>1, <2>1, DriverFacts DEF JobType, GoOn
<1>3. /\ new.state = "running" /\ new.pc = p /\ new.kind = jobs[j].kind /\ new.round = jobs[j].round
      /\ new.after = jobs[j].after /\ new.budget = jobs[j].budget /\ new.dep = jobs[j].dep
      /\ new.cycle = jobs[j].cycle /\ new.noted = jobs[j].noted
  BY <1>1 DEF JobType
<1> HIDE DEF new
<1>4. Moved(j, new)
  BY <1>2, <1>3 DEF Moved
<1>5. faults' \in 0 .. MaxFaults[way.launcher] /\ exposed' \in BOOLEAN
  BY <1>1 DEF DriverShape
<1> QED BY <1>2, <1>3, <1>4, <1>5, JobGoes DEF Alive

\* A running job, its kind and its files.
LEMMA JobAt ==
  ASSUME DriverIInv, NEW j \in Live, NEW p, AtStep(j, p)
  PROVE  /\ jobs[j].state = "running" /\ jobs[j].pc = p /\ p \in Stops[jobs[j].kind]
         /\ jobs[j].kind \in KindsOf /\ jobs[j].kind \in {"sup", "prep", "map", "fin", "round"}
         /\ faults \in 0 .. MaxFaults[way.launcher] /\ exposed \in BOOLEAN
         /\ p = "end" => jobs[j].kind = "prep"
         /\ jobs[j].kind \in {"prep", "map", "fin"} =>
              /\ jobs[j].noted \/ p = "note" <=> j < Last
              /\ p \in {"check", "work", "reduce", "end"} => jobs[j].noted
BY JobFacts DEF AtStep, JobKnown, Alive, JobType, JobKinds, FirstStep, DriverIInv, DriverShape, Line

\* The files of a job that stays with its round.
LEMMA FilesOf ==
  ASSUME DriverIInv, NEW j \in Live, NEW new \in JobType, jobs' = [jobs EXCEPT ![j] = new],
         new.round = jobs[j].round
  PROVE  /\ jobs'[j] = new
         /\ round' = round => Files(j)' = Files(j)
         /\ \A g : Sets(j, g) => Files(j)' = g
<1>1. jobs'[j] = new
  BY JobFacts, JobChanged DEF DriverIInv
<1>2. round' = round => Files(j)' = Files(j)
  BY <1>1, JobFacts DEF Files
<1>3. ASSUME NEW g, Sets(j, g) PROVE Files(j)' = g
  BY <1>1, <1>3, JobFacts DEF Files, Sets
<1> QED BY <1>1, <1>2, <1>3

\* What a job that goes on sees of its files.
LEMMA WentOn ==
  ASSUME DriverIInv, NEW j \in Live, NEW p \in AllStops, GoOn(j, p)
  PROVE  /\ \A q : AtStep(j, q)' => q = p
         /\ jobs'[j].kind = jobs[j].kind /\ jobs'[j].round = jobs[j].round
         /\ round' = round => Files(j)' = Files(j)
         /\ \A g : Sets(j, g) => Files(j)' = g
<1> DEFINE new == [jobs[j] EXCEPT !.pc = p]
<1>1. jobs[j] \in JobType /\ j \in 1 .. Last /\ DOMAIN jobs = 1 .. Last
  BY JobFacts, DriverFacts DEF DriverIInv
<1>2. new \in JobType /\ jobs' = [jobs EXCEPT ![j] = new]
      /\ new.round = jobs[j].round /\ new.kind = jobs[j].kind /\ new.pc = p
  BY <1>1 DEF JobType, GoOn
<1> HIDE DEF new
<1>3. /\ jobs'[j] = new
      /\ round' = round => Files(j)' = Files(j)
      /\ \A g : Sets(j, g) => Files(j)' = g
  BY <1>2, FilesOf
<1> QED BY <1>2, <1>3 DEF AtStep

-----------------------------------------------------------------------------
(* The steps of a job, one by one. *)

\* Slurm starts a job: all before it have ended, and under afterok the round of
\* the one before is complete.
LEMMA StartKeeps ==
  ASSUME DriverIInv, NEW j \in Live, Start(j)
  PROVE  DriverIInv'
<1> DEFINE new == [jobs[j] EXCEPT !.state = "running"]
<1>0. /\ DriverShape /\ Ordered /\ Planned /\ Chained
      /\ UNCHANGED <<way, round, shell, launches, faults, whole, exposed>> /\ JobStep(j)
  BY DEF DriverIInv, Start, hist, JobStep
<1>1. /\ jobs[j] \in JobType /\ j \in 1 .. Last /\ jobs[j].kind \in JobKinds /\ JobKnown(j)
      /\ jobs[j].state = "pending" /\ Released(j) /\ jobs[j].round \in Rounds
  BY JobFacts DEF JobType, Start
<1>2. new \in JobType /\ jobs' = [jobs EXCEPT ![j] = new]
  BY <1>0, <1>1, DriverFacts DEF JobType, Start
<1>3. /\ new.state = "running" /\ new.pc = FirstStep[new.kind] /\ new.kind = jobs[j].kind
      /\ new.pc = jobs[j].pc
      /\ new.round = jobs[j].round
      /\ new.after = jobs[j].after /\ new.budget = jobs[j].budget /\ new.dep = jobs[j].dep
      /\ new.cycle = jobs[j].cycle /\ new.noted = jobs[j].noted
  BY <1>1 DEF JobType, JobKnown
<1> HIDE DEF new
<1>4. /\ new.pc \in Stops[new.kind] /\ new.pc \notin {"follow", "deal", "end", "check", "work", "reduce"}
      /\ new.kind = "sup" => jobs[j].pc # "follow"
  BY <1>1, <1>3 DEF JobKinds, FirstStep, Stops
<1>5. Moved(j, new)
  BY <1>2, <1>3, <1>4 DEF Moved
<1>6. Found(j)'
  <2>1. jobs'[j] = new
    BY <1>0, <1>1, <1>2, JobChanged
  <2>2. new.pc \in {"drive", "generate", "submit", "select"} /\ (new.pc = "submit" => new.kind # "prep")
    BY <1>1, <1>3 DEF JobKinds, FirstStep
  <2> QED BY <2>1, <2>2 DEF Found, AtStep
<1>7. CASE jobs[j].after = 0
  <2>1. Begun(j)
    BY <1>7 DEF Begun
  <2> QED BY <2>1, <1>0, <1>1, <1>2, <1>3, <1>5, <1>6, JobMoves DEF Ordered, Planned, Alive, DriverShape
<1>8. CASE jobs[j].after # 0
  <2>1. /\ jobs[j].after = j - 1 /\ j - 1 \in 1 .. Last /\ j - 1 # j
        /\ jobs[j - 1].state \in IF jobs[j].dep = "afterok" THEN {"ok"} ELSE {"ok", "failed"}
    <3>1. jobs[j].after = j - 1 /\ j - 1 \in 1 .. Last /\ j - 1 # j
      BY <1>0, <1>1, <1>8, DriverFacts DEF JobKnown
    <3> QED BY <3>1, <1>1, <1>8 DEF Released
  <2>2. jobs[j - 1] \in JobType /\ JobKnown(j - 1) /\ j - 1 \notin Live /\ Begun(j - 1)
    BY <2>1, <1>0, DriverFacts, LiveIs DEF Begun
  <2>3. \A i \in 1 .. j - 1 : Worker(i) => i \notin Live
    <3> SUFFICES ASSUME NEW i \in 1 .. j - 1, Worker(i) PROVE i \notin Live
      OBVIOUS
    <3>1. CASE i = j - 1
      BY <2>2, <3>1
    <3>2. CASE i # j - 1
      <4>1. i \in 1 .. (j - 1) - 1
        BY <3>2, <2>1
      <4> QED BY <4>1, <2>1, <2>2, <1>0 DEF Ordered
    <3> QED BY <3>1, <3>2
  <2>4. ASSUME InTurn, way.launcher # "auto", jobs[j].kind \in {"prep", "round"}
        PROVE  Behind(jobs[j].round)
    <3>1. way.launcher = "drive" /\ jobs[j].kind = "round" /\ jobs[j].dep = "afterok"
      <4>1. jobs[j].kind = "round" /\ ~Supervised
        BY <2>4, <1>1, <1>8 DEF JobKnown
      <4>2. way.launcher \in Launchers
        BY <1>0 DEF DriverShape, Mode
      <4> QED BY <4>1, <4>2, <2>4, <1>1 DEF JobKnown, InTurn, Supervised, Launchers
    <3>2. jobs[j - 1].kind = "round" /\ jobs[j - 1].state = "ok" /\ jobs[j - 1].round \in Rounds
      BY <3>1, <2>1, <2>2 DEF JobKnown, KindsOf, JobType
    <3>3. Behind(jobs[j - 1].round) /\ Complete(jobs[j - 1].round)
      BY <3>1, <3>2, <2>1, <2>2, <2>4, <1>0 DEF Planned, Chained
    <3>4. jobs[j].round = jobs[j - 1].round + 1
      BY <3>1, <2>1, <1>0, <1>1 DEF Chained
    <3> QED BY <3>2, <3>3, <3>4 DEF Behind, Rounds
  <2> QED BY <2>3, <2>4, <1>0, <1>1, <1>2, <1>3, <1>5, <1>6, JobMoves DEF Alive, DriverShape
<1> QED BY <1>7, <1>8

\* A supervisor stops with nothing left to do, or too many cycles.
LEMMA SupStopsKeeps ==
  ASSUME DriverIInv, NEW j \in Live, SupStops(j)
  PROVE  DriverIInv'
<1>1. AtStep(j, "drive") /\ UNCHANGED <<round, faults, exposed>> /\ JobStep(j)
  BY DEF SupStops, hist, JobStep, Step
<1>2. jobs[j].kind = "sup" /\ way.launcher # "drive"
  BY <1>1, JobAt DEF Stops, KindsOf
<1>3. CASE TooMany(j) /\ End(j, "failed")
  BY <1>1, <1>3, JobAt, JobIsEnded DEF TooMany
<1>4. CASE AllComplete /\ End(j, "ok")
  BY <1>1, <1>2, <1>4, JobAt, JobIsEnded, Touched
<1> QED BY <1>3, <1>4 DEF SupStops

\* A prepare job generates candidates, or finds the files.
LEMMA GenerateKeeps ==
  ASSUME DriverIInv, NEW j \in Live, Generate(j)
  PROVE  DriverIInv'
<1>1. AtStep(j, "generate") /\ UNCHANGED <<faults, exposed>> /\ JobStep(j)
  BY DEF Generate, hist, JobStep, Step
<1>2. jobs[j].kind = "prep" /\ jobs[j].state = "running" /\ jobs[j].pc = "generate"
  BY <1>1, JobAt DEF Stops
<1>3. j \in 1 .. Last /\ jobs[j] \in JobType /\ DOMAIN jobs = 1 .. Last
      /\ Files(j) \in FilesType /\ RoundGood(Files(j), jobs[j].round, whole)
  BY JobFacts, DriverFacts DEF DriverIInv
<1>4. CASE Files(j).cands
  <2>1. GoOn(j, "queue") /\ round' = round
    BY <1>4 DEF Generate
  <2>3. Found(j)'
    BY <2>1, <1>4, WentOn DEF Found, AllStops
  <2> QED BY <1>1, <1>2, <2>1, <2>3, JobGoesOn DEF Stops
<1>5. CASE ~Files(j).cands
  <2>1. GoOn(j, "deal") /\ Sets(j, Selected(j))
    BY <1>5 DEF Generate
  <2>3. Selected(j).dealt = {} /\ Selected(j).cands
    BY <1>3, <1>5 DEF Selected, FilesType, RoundGood
  <2>4. Found(j)'
    BY <2>1, <2>3, WentOn DEF Found, AllStops
  <2>5. j = Last
    <3>1. ~(j < Last)
      BY <1>2, <1>3, <1>5 DEF DriverIInv, Prepared, Files
    <3> QED BY <3>1, <1>3, DriverFacts DEF DriverIInv
  <2> QED BY <1>1, <1>2, <2>1, <2>4, <2>5, JobGoesOn DEF Stops
<1> QED BY <1>4, <1>5

\* The selection is split into shards.
LEMMA DealKeeps ==
  ASSUME DriverIInv, NEW j \in Live, Deal(j)
  PROVE  DriverIInv'
<1> DEFINE p == IF jobs[j].kind = "prep" THEN "queue" ELSE "work"
           g == [Files(j) EXCEPT !.dealt = Shards]
<1>1. AtStep(j, "deal") /\ UNCHANGED <<faults, exposed>> /\ JobStep(j) /\ GoOn(j, p) /\ Sets(j, g)
  BY DEF Deal, hist, JobStep, Step
<1>2. jobs[j].kind \in {"prep", "round"} /\ jobs[j].state = "running" /\ jobs[j].pc = "deal"
  BY <1>1, JobAt DEF Stops
<1>3. Files(j) \in FilesType /\ Files(j).cands
  BY <1>1, JobFacts DEF Found
<1>4. g.dealt = Shards /\ g.cands /\ Shards # {}
  BY <1>3, DriverSizes DEF FilesType, Shards
<1> HIDE DEF g
<1>5. Found(j)'
  BY <1>1, <1>2, <1>4, WentOn DEF Found, AllStops
<1> QED BY <1>1, <1>2, <1>5, JobGoesOn DEF Stops

\* The queue is made, or is empty and ends the chain.
LEMMA QueueUpKeeps ==
  ASSUME DriverIInv, NEW j \in Live, QueueUp(j)
  PROVE  DriverIInv'
<1> DEFINE queue == IF Files(j).queue = {} THEN NotEmpty(j) ELSE Files(j).queue
           g == [Files(j) EXCEPT !.queue = queue]
<1>1. /\ AtStep(j, "queue") /\ UNCHANGED faults /\ JobStep(j) /\ Sets(j, g)
      /\ IF queue = {} THEN End(j, "failed") ELSE GoOn(j, "submit")
      /\ exposed' = (exposed \/ queue = {})
  BY DEF QueueUp, JobStep, Step
<1>2. jobs[j].kind = "prep" /\ jobs[j].state = "running" /\ jobs[j].pc = "queue"
      /\ faults \in 0 .. MaxFaults[way.launcher] /\ exposed \in BOOLEAN
  BY <1>1, JobAt DEF Stops
<1>3. Files(j) \in FilesType /\ Files(j).cands /\ UNCHANGED way
  BY <1>1, JobFacts, FilesStep DEF Found
<1>4. g.queue = queue /\ g.cands
  BY <1>3 DEF FilesType
<1> HIDE DEF g, queue
<1>5. CASE queue = {}
  BY <1>1, <1>2, <1>5, JobIsEnded
<1>6. CASE queue # {}
  <2>1. Found(j)'
    BY <1>1, <1>2, <1>4, <1>6, WentOn DEF Found, AllStops
  <2> QED BY <1>1, <1>2, <1>6, <2>1, JobGoesOn DEF Stops
<1> QED BY <1>5, <1>6

\* The submission of the successor is noted.
LEMMA NoteKeeps ==
  ASSUME DriverIInv, NEW j \in Live, Note(j)
  PROVE  DriverIInv'
<1> DEFINE new == [jobs[j] EXCEPT !.noted = TRUE, !.pc = After(j)]
<1>1. AtStep(j, "note") /\ UNCHANGED <<faults, exposed>> /\ JobStep(j)
  BY DEF Note, hist, JobStep, Step
<1>2. /\ jobs[j].kind \in {"prep", "map", "fin"} /\ jobs[j].state = "running" /\ jobs[j].pc = "note"
      /\ faults \in 0 .. MaxFaults[way.launcher] /\ exposed \in BOOLEAN
  BY <1>1, JobAt DEF Stops
<1>3. jobs[j] \in JobType /\ j \in 1 .. Last /\ DOMAIN jobs = 1 .. Last /\ DriverShape
  BY JobFacts, DriverFacts DEF DriverIInv
<1>4. After(j) \in AllStops /\ After(j) \in Stops[jobs[j].kind] /\ After(j) \in {"end", "check"}
      /\ (After(j) = "end" => jobs[j].kind = "prep")
  BY <1>2 DEF After, AllStops, Stops
<1>5. new \in JobType /\ jobs' = [jobs EXCEPT ![j] = new]
  BY <1>1, <1>3, <1>4 DEF JobType, Note
<1>6. /\ new.state = "running" /\ new.pc = After(j) /\ new.kind = jobs[j].kind /\ new.noted
      /\ new.round = jobs[j].round /\ new.after = jobs[j].after /\ new.budget = jobs[j].budget
      /\ new.dep = jobs[j].dep /\ new.cycle = jobs[j].cycle
  BY <1>2, <1>3, <1>4 DEF JobType
<1> HIDE DEF new
<1>7. Moved(j, new)
  BY <1>2, <1>4, <1>5, <1>6 DEF Moved
<1>8. Found(j)'
  <2>1. jobs'[j] = new
    BY <1>3, <1>5, JobChanged
  <2> QED BY <2>1, <1>4, <1>6 DEF Found, AtStep
<1> QED BY <1>1, <1>2, <1>5, <1>6, <1>7, <1>8, JobGoes DEF Alive

\* A prepare job ends behind its successor.
LEMMA EndPrepKeeps ==
  ASSUME DriverIInv, NEW j \in Live, EndPrep(j)
  PROVE  DriverIInv'
<1>1. AtStep(j, "end") /\ UNCHANGED <<faults, exposed>> /\ JobStep(j) /\ End(j, "ok")
  BY DEF EndPrep, hist, JobStep, Step
<1>2. jobs[j].kind = "prep" /\ jobs[j].state = "running" /\ j < Last /\ way.launcher # "drive"
      /\ faults \in 0 .. MaxFaults[way.launcher] /\ exposed \in BOOLEAN /\ Last \in Nat
  BY <1>1, JobAt, DriverFacts DEF KindsOf, DriverIInv
<1>3. j # Last
  BY <1>2, JobFacts
<1> QED BY <1>1, <1>2, <1>3, JobIsEnded

\* A map job or a finalizer looks at its round.
LEMMA CheckKeeps ==
  ASSUME DriverIInv, NEW j \in Live, CheckMap(j) \/ CheckFin(j)
  PROVE  DriverIInv'
<1>1. AtStep(j, "check") /\ UNCHANGED <<faults, exposed, round>> /\ JobStep(j)
      /\ jobs[j].kind \in {"map", "fin"}
  BY DEF CheckMap, CheckFin, hist, JobStep, Step
<1>2. jobs[j].state = "running" /\ jobs[j].pc = "check" /\ j < Last /\ way.launcher # "drive"
      /\ jobs[j].noted
      /\ faults \in 0 .. MaxFaults[way.launcher] /\ exposed \in BOOLEAN /\ Last \in Nat
  BY <1>1, JobAt, DriverFacts DEF KindsOf, DriverIInv
<1>3. j # Last
  BY <1>2, JobFacts
<1>4. ASSUME NEW st \in {"ok", "failed"}, End(j, st) PROVE DriverIInv'
  BY <1>1, <1>2, <1>3, <1>4, JobIsEnded
<1>5. CASE CheckMap(j) /\ GoOn(j, "work")
  <2>1. jobs[j].kind = "map"
    BY <1>5 DEF CheckMap
  <2>2. Found(j)'
    BY <1>5, <2>1, WentOn DEF Found, AllStops
  <2> QED BY <1>1, <1>2, <1>5, <2>1, <2>2, JobGoesOn DEF Stops
<1>6. CASE CheckFin(j) /\ ~End(j, "ok")
  <2>1. jobs[j].kind = "fin" /\ GoOn(j, "reduce") /\ Files(j).queue # {} /\ Missing(j) = {}
    BY <1>6 DEF CheckFin
  <2>2. Listed(j)' = (Files(j).queue)'
    BY <2>1, WentOn DEF Listed, AllStops
  <2>3. Found(j)'
    BY <1>1, <2>1, <2>2, WentOn DEF Found, AllStops, Missing
  <2> QED BY <1>1, <1>2, <2>1, <2>3, JobGoesOn DEF Stops
<1> QED BY <1>4, <1>5, <1>6 DEF CheckMap

\* A round job selects.
LEMMA BootstrapKeeps ==
  ASSUME DriverIInv, NEW j \in Live, Bootstrap(j)
  PROVE  DriverIInv'
<1>1. AtStep(j, "bootstrap") /\ UNCHANGED <<faults, exposed>> /\ JobStep(j)
      /\ GoOn(j, "deal") /\ Sets(j, Selected(j))
  BY DEF Bootstrap, hist, JobStep, Step
<1>2. jobs[j].kind = "round" /\ jobs[j].state = "running" /\ jobs[j].pc = "bootstrap"
  BY <1>1, JobAt DEF Stops
<1>3. Files(j) \in FilesType /\ Files(j).dealt = {}
  BY <1>1, JobFacts DEF Found
<1>4. Selected(j).dealt = {} /\ Selected(j).cands
  BY <1>3 DEF Selected, FilesType
<1>5. Found(j)'
  BY <1>1, <1>4, WentOn DEF Found, AllStops
<1> QED BY <1>1, <1>2, <1>5, JobGoesOn DEF Stops

\* A shard is run to its end.
LEMMA WorkOnKeeps ==
  ASSUME DriverIInv, NEW j \in Live, NEW i \in Shards, WorkOn(j, i)
  PROVE  DriverIInv'
<1> DEFINE g == [Files(j) EXCEPT !.done = @ \cup {i}]
<1>1. AtStep(j, "work") /\ UNCHANGED <<faults, exposed, jobs>> /\ JobStep(j) /\ Sets(j, g)
  BY DEF WorkOn, hist, JobStep, Step
<1>2. jobs[j].kind \in {"map", "round"} /\ jobs[j].state = "running" /\ jobs[j].pc = "work"
  BY <1>1, JobAt DEF Stops
<1>3. Files(j) \in FilesType /\ Found(j) /\ jobs[j] \in JobType /\ j \in 1 .. Last
      /\ DOMAIN jobs = 1 .. Last /\ jobs \in Seq(JobType)
  BY JobFacts, DriverFacts DEF DriverIInv
<1>4. g.dealt = Files(j).dealt
  BY <1>3 DEF FilesType
<1> HIDE DEF g
<1>5. jobs' = [jobs EXCEPT ![j] = jobs[j]]
  BY <1>1, <1>3
<1>6. Files(j)' = g /\ jobs'[j] = jobs[j]
  BY <1>1, <1>3, <1>5, FilesOf
<1>7. GoOn(j, "work")
  BY <1>1, <1>2, <1>3 DEF GoOn, JobType
<1>8. Found(j)'
  BY <1>1, <1>2, <1>3, <1>4, <1>6, <1>7, WentOn DEF Found, AllStops
<1>9. jobs[j].kind = "map" => jobs[j].noted
  BY <1>1, JobAt
<1> QED BY <1>1, <1>2, <1>7, <1>8, <1>9, JobGoesOn DEF Stops

\* A map job ends, a round job goes on to reduce.
LEMMA EndWorkKeeps ==
  ASSUME DriverIInv, NEW j \in Live, EndWork(j)
  PROVE  DriverIInv'
<1>1. AtStep(j, "work") /\ UNCHANGED <<faults, exposed, round>> /\ JobStep(j)
      /\ Listed(j) \subseteq Files(j).done
  BY DEF EndWork, hist, JobStep, Step
<1>2. jobs[j].kind \in {"map", "round"} /\ jobs[j].state = "running" /\ jobs[j].pc = "work"
      /\ (jobs[j].kind = "map" => j < Last /\ way.launcher # "drive")
      /\ faults \in 0 .. MaxFaults[way.launcher] /\ exposed \in BOOLEAN /\ Last \in Nat
  BY <1>1, JobAt, DriverFacts DEF Stops, KindsOf, DriverIInv
<1>3. CASE jobs[j].kind = "map"
  <2>1. End(j, "ok") /\ j # Last
    BY <1>2, <1>3, JobFacts DEF EndWork
  <2> QED BY <2>1, <1>1, <1>2, <1>3, JobIsEnded
<1>4. CASE jobs[j].kind = "round"
  <2>1. GoOn(j, "reduce") /\ Files(j).dealt # {}
    BY <1>1, <1>4, JobFacts DEF EndWork, Found
  <2>2. Listed(j)' = Listed(j) /\ Files(j)' = Files(j) /\ Listed(j) = Files(j).dealt
    BY <2>1, <1>1, <1>4, WentOn DEF Listed, AllStops
  <2>3. Found(j)'
    BY <1>1, <2>1, <2>2, WentOn DEF Found, AllStops
  <2> QED BY <1>1, <1>2, <1>4, <2>1, <2>3, JobGoesOn DEF Stops
<1> QED BY <1>2, <1>3, <1>4

\* A reduction marks the round complete.
LEMMA ReduceKeeps ==
  ASSUME DriverIInv, NEW j \in Live, NEW st \in {"ok", "failed"}, Reduce(j, st)
  PROVE  DriverIInv'
<1>1. AtStep(j, "reduce") /\ UNCHANGED <<faults, exposed>> /\ JobStep(j) /\ End(j, st)
  BY DEF Reduce, hist, JobStep, Step
<1>2. /\ jobs[j].kind \in {"fin", "round"} /\ jobs[j].state = "running"
      /\ jobs[j].kind = "fin" => j < Last /\ way.launcher # "drive"
      /\ faults \in 0 .. MaxFaults[way.launcher] /\ exposed \in BOOLEAN /\ Last \in Nat
  BY <1>1, JobAt, DriverFacts DEF Stops, KindsOf, DriverIInv
<1>3. jobs[j].kind = "round" \/ j # Last
  BY <1>2, JobFacts
<1>4. ASSUME way.launcher = "drive", st = "ok" PROVE Complete(jobs[j].round)'
  <2> DEFINE g == [Files(j) EXCEPT !.marker = "complete"]
             new == [jobs[j] EXCEPT !.state = st, !.pc = "end", !.noted = FALSE]
  <2>1. Listed(j) \subseteq Files(j).done
    BY <1>1, ReduceGood
  <2>2. Sets(j, g)
    BY <1>4, <2>1 DEF Reduce
  <2>3. g.marker = "complete" /\ jobs[j].round \in Rounds /\ round \in [Rounds -> FilesType]
        /\ jobs[j] \in JobType /\ j \in 1 .. Last /\ DriverShape
    BY JobFacts DEF FilesType, DriverIInv
  <2>4. new \in JobType /\ jobs' = [jobs EXCEPT ![j] = new]
    BY <1>1, <2>3, EndedIs DEF End
  <2>5. new.round = jobs[j].round
    BY <2>3 DEF JobType
  <2> HIDE DEF new, g
  <2>6. jobs'[j].round = jobs[j].round
    BY <2>3, <2>4, <2>5, JobChanged
  <2> QED BY <2>2, <2>3, <2>6 DEF Complete, Sets
<1> QED BY <1>1, <1>2, <1>3, <1>4, JobIsEnded

\* A round job takes its round, an AUTO_ROUND job the first incomplete one.
LEMMA SelectKeeps ==
  ASSUME DriverIInv, NEW j \in Live, Select(j)
  PROVE  DriverIInv'
<1>1. AtStep(j, "select") /\ UNCHANGED <<way, faults, exposed, round>> /\ JobStep(j)
  BY DEF Select, hist, JobStep, Step
<1>2. /\ jobs[j].kind = "round" /\ jobs[j].state = "running"
      /\ faults \in 0 .. MaxFaults[way.launcher] /\ exposed \in BOOLEAN
  BY <1>1, JobAt DEF Stops
<1>3. CASE way.launcher = "auto" /\ AllComplete
  <2>1. End(j, "ok") /\ way.launcher # "drive"
    BY <1>3 DEF Select
  <2> QED BY <2>1, <1>1, <1>2, JobIsEnded
<1>4. CASE ~(way.launcher = "auto" /\ AllComplete)
  <2> DEFINE r == IF way.launcher = "auto" THEN FirstIncomplete ELSE jobs[j].round
             p == IF round[r].dealt = {} THEN "bootstrap" ELSE "work"
             new == [jobs[j] EXCEPT !.round = r, !.pc = p]
  <2>1. jobs[j] \in JobType /\ j \in 1 .. Last /\ DOMAIN jobs = 1 .. Last /\ DriverShape
        /\ jobs[j].round \in Rounds
    BY JobFacts, DriverFacts DEF DriverIInv
  <2>2. r \in Rounds /\ (InTurn => Behind(r))
    <3>1. CASE way.launcher = "auto"
      BY <1>4, <3>1, FirstIncompleteIs
    <3>2. CASE way.launcher # "auto"
      BY <1>2, <2>1, <3>2 DEF DriverIInv, Planned, Begun
    <3> QED BY <3>1, <3>2
  <2>3. jobs' = [jobs EXCEPT ![j].round = r, ![j].pc = p]
    BY <1>4 DEF Select
  <2>4. new \in JobType /\ jobs' = [jobs EXCEPT ![j] = new]
    BY <2>1, <2>2, <2>3 DEF JobType, AllStops
  <2>5. /\ new.state = "running" /\ new.pc = p /\ new.kind = "round" /\ new.round = r
        /\ new.after = jobs[j].after /\ new.budget = jobs[j].budget /\ new.dep = jobs[j].dep
        /\ new.cycle = jobs[j].cycle
    BY <1>2, <2>1 DEF JobType
  <2>6. p \in {"bootstrap", "work"} /\ (way.launcher # "auto" => r = jobs[j].round)
        /\ (p = "bootstrap" <=> round[r].dealt = {})
    OBVIOUS
  <2> HIDE DEF r, p, new
  <2>7. Moved(j, new)
    BY <1>2, <2>4, <2>5, <2>6 DEF Moved, Stops
  <2>8. Found(j)'
    <3>1. jobs'[j] = new
      BY <2>1, <2>4, JobChanged
    <3>2. Files(j)' = round[r]
      BY <1>1, <3>1, <2>5 DEF Files
    <3>3. InTurn' = InTurn
      BY <1>1 DEF InTurn
    <3>4. Behind(jobs[j].round)' = Behind(r)
      BY <1>1, <3>1, <2>5 DEF Behind, Complete
    <3> QED BY <2>2, <2>5, <2>6, <3>1, <3>2, <3>3, <3>4 DEF Found, AtStep
  <2> QED BY <1>1, <1>2, <2>4, <2>5, <2>7, <2>8, JobGoes DEF Alive
<1> QED BY <1>3, <1>4

\* A fault within the budget.
LEMMA FaultTyped ==
  ASSUME DriverIInv, faults < MaxFaults[way.launcher], faults' = faults + 1
  PROVE  faults' \in 0 .. MaxFaults[way.launcher]
<1>1. way \in Mode /\ faults \in 0 .. MaxFaults[way.launcher]
  BY DEF DriverIInv, DriverShape
<1>2. MaxFaults[way.launcher] \in Nat
  BY <1>1, DriverBounds DEF Mode
<1> QED BY <1>1, <1>2

\* A job is stopped: only a holder of the chain breaks it, and that is recorded.
LEMMA KillKeeps ==
  ASSUME DriverIInv, NEW j \in Live, KillJob(j)
  PROVE  DriverIInv'
<1>1. /\ jobs[j].state = "running" /\ JobStep(j) /\ End(j, "failed")
      /\ faults < MaxFaults[way.launcher] /\ faults' = faults + 1
      /\ exposed' = (exposed \/ HoldsChain(j)) /\ AtStep(j, jobs[j].pc)
  BY DEF KillJob, JobStep, AtStep
<1>2. faults' \in 0 .. MaxFaults[way.launcher] /\ exposed' \in BOOLEAN
  BY <1>1, FaultTyped DEF HoldsChain, DriverIInv, DriverShape
<1>3. \/ exposed' \/ jobs[j].kind = "round"
      \/ (j # Last /\ (jobs[j].kind # "sup" \/ jobs[Last].kind # "round"))
  <2>1. SUFFICES ASSUME jobs[j].kind \notin {"sup", "prep", "round"}, jobs[j].pc # "submit"
                 PROVE  j # Last /\ jobs[j].kind # "sup"
    BY <1>1 DEF HoldsChain
  <2>2. jobs[j].kind \in {"map", "fin"} /\ jobs[j].pc \in {"note", "check", "work", "reduce", "end"}
    BY <1>1, <2>1, JobAt DEF Stops
  <2>3. j < Last /\ j \in 1 .. Last
    BY <1>1, <2>2, JobAt, JobFacts
  <2> QED BY <2>2, <2>3, DriverFacts DEF DriverIInv
<1> QED BY <1>1, <1>2, <1>3, JobIsEnded

\* A job is put back: its successor is noted, or not yet submitted.
LEMMA RequeueKeeps ==
  ASSUME Doubling = FALSE, DriverIInv, NEW j \in Live, Requeue(j)
  PROVE  DriverIInv'
<1> DEFINE new == [jobs[j] EXCEPT !.state = "pending", !.pc = FirstStep[jobs[j].kind]]
<1>1. /\ jobs[j].state = "running" /\ JobStep(j) /\ jobs[j].pc \notin {"follow", "note"}
      /\ faults < MaxFaults[way.launcher] /\ faults' = faults + 1 /\ exposed' = exposed
      /\ jobs' = [jobs EXCEPT ![j].state = "pending", ![j].pc = FirstStep[jobs[j].kind]]
  BY DEF Requeue, JobStep
<1>2. faults' \in 0 .. MaxFaults[way.launcher] /\ exposed' \in BOOLEAN
  BY <1>1, FaultTyped DEF DriverIInv, DriverShape
<1>3. jobs[j] \in JobType /\ j \in 1 .. Last /\ DOMAIN jobs = 1 .. Last /\ DriverShape
      /\ jobs[j].kind \in JobKinds
  BY JobFacts, DriverFacts DEF DriverIInv, JobType
<1>4. FirstStep[jobs[j].kind] \in {"drive", "generate", "submit", "select"} \cap Stops[jobs[j].kind]
  BY <1>3 DEF JobKinds, FirstStep, Stops
<1>5. new \in JobType /\ jobs' = [jobs EXCEPT ![j] = new]
  BY <1>1, <1>3, <1>4 DEF JobType, AllStops
<1>6. /\ new.state = "pending" /\ new.pc = FirstStep[jobs[j].kind] /\ new.kind = jobs[j].kind
      /\ new.round = jobs[j].round /\ new.after = jobs[j].after /\ new.budget = jobs[j].budget
      /\ new.dep = jobs[j].dep /\ new.cycle = jobs[j].cycle /\ new.noted = jobs[j].noted
  BY <1>3 DEF JobType
<1> HIDE DEF new
<1>7. Moved(j, new)
  BY <1>1, <1>4, <1>5, <1>6 DEF Moved
<1>8. Found(j)'
  <2>1. jobs'[j] = new
    BY <1>3, <1>5, JobChanged
  <2> QED BY <2>1, <1>6 DEF Found, AtStep
<1> QED BY <1>1, <1>2, <1>5, <1>6, <1>7, <1>8, JobGoes DEF Alive

\* A supervisor submits the first incomplete round.
LEMMA SupDrivesKeeps ==
  ASSUME DriverIInv, NEW j \in Live, SupDrives(j)
  PROVE  DriverIInv'
<1>1. /\ AtStep(j, "drive") /\ UNCHANGED <<round, faults, hist>> /\ JobStep(j)
      /\ ~TooMany(j) /\ ~AllComplete
  BY DEF SupDrives, JobStep, Step
<1>2. /\ jobs[j].kind = "sup" /\ jobs[j].state = "running" /\ jobs[j].pc = "drive"
      /\ way.launcher \in {"pf", "exago"}
  <2>1. jobs[j].kind = "sup" /\ jobs[j].state = "running" /\ jobs[j].pc = "drive"
    BY <1>1, JobAt DEF Stops
  <2> QED BY <1>1, <2>1, JobAt DEF KindsOf
<1> DEFINE new == [jobs[j] EXCEPT !.pc = "follow", !.sub = Submitted]
           job == Job(RoundKind, FirstIncomplete, BudgetOf(FirstIncomplete), jobs[j].cycle, 0, way.dep)
<1>3. /\ jobs[j] \in JobType /\ j \in 1 .. Last /\ DOMAIN jobs = 1 .. Last /\ DriverShape
      /\ Last \in Nat /\ way \in Mode /\ JobKnown(j) /\ Submitted = Last + 1
  BY JobFacts, DriverFacts DEF DriverIInv, DriverShape, Submitted, Last
<1>4. jobs[j].cycle <= MaxCycles /\ jobs[j].cycle \in Nat /\ j = Last
  BY <1>1, <1>2, <1>3, DriverBounds DEF TooMany, JobType, DriverIInv, Line
<1>5. new \in JobType /\ jobs' = Append([jobs EXCEPT ![j] = new], job)
  <2>1. Submitted \in Nat /\ "follow" \in AllStops
    BY <1>3 DEF AllStops
  <2>2. new \in JobType
    BY <1>3, <2>1 DEF JobType
  <2>3. [jobs EXCEPT ![j].pc = "follow", ![j].sub = Submitted] = [jobs EXCEPT ![j] = new]
    BY <1>3
  <2>4. jobs' = Append([jobs EXCEPT ![j].pc = "follow", ![j].sub = Submitted], job)
    BY DEF SupDrives
  <2> HIDE DEF job
  <2> QED BY <2>2, <2>3, <2>4
<1>6. /\ new.state = "running" /\ new.pc = "follow" /\ new.kind = "sup" /\ new.sub = Last + 1
      /\ new.round = jobs[j].round /\ new.after = jobs[j].after /\ new.budget = jobs[j].budget
      /\ new.dep = jobs[j].dep /\ new.cycle = jobs[j].cycle
  BY <1>2, <1>3 DEF JobType
<1>7. /\ job.kind = RoundKind /\ job.round = FirstIncomplete /\ job.cycle = jobs[j].cycle
      /\ job.budget = BudgetOf(FirstIncomplete) /\ job.after = 0 /\ job.dep = way.dep
      /\ job.state = "pending" /\ job.pc = FirstStep[RoundKind] /\ ~job.noted
  BY DEF Job
<1>8. RoundKind \in {"prep", "round"} \cap KindsOf /\ (RoundKind = "round" <=> way.launcher # "pf")
  BY <1>2 DEF RoundKind, KindsOf
<1>9. FirstIncomplete \in Rounds /\ Behind(FirstIncomplete)
  BY <1>1, FirstIncompleteIs
<1>10. job \in JobType
  <2>1. BudgetOf(FirstIncomplete) \in Plans
    BY <1>9, BudgetIsPlanned
  <2>2. RoundKind \in JobKinds /\ FirstStep[RoundKind] \in AllStops
    BY <1>8 DEF JobKinds, FirstStep, AllStops
  <2> QED BY <2>1, <2>2, <1>3, <1>4, <1>9 DEF Job, JobType, Mode
<1> HIDE DEF new, job
<1>11. Added(job)
  BY <1>3, <1>4, <1>7, <1>8, <1>9, <1>10, DriverBounds DEF Added
<1>12. Supervised /\ ~Worker(j) /\ Alive(new) /\ "follow" \in Stops[new.kind]
  BY <1>2, <1>6 DEF Supervised, Worker, Alive, Stops
<1>13. new.pc = "follow" => new.cycle <= MaxCycles
  BY <1>4, <1>6
<1>14. way.launcher # "pf" => job.kind = "round"
  BY <1>7, <1>8
<1> QED BY <1>1, <1>2, <1>4, <1>5, <1>6, <1>11, <1>12, <1>13, <1>14, JobSubmits

\* A supervisor submits the next one behind the round, and ends.
LEMMA SupFollowsKeeps ==
  ASSUME DriverIInv, NEW j \in Live, SupFollows(j)
  PROVE  DriverIInv'
<1>1. AtStep(j, "follow") /\ UNCHANGED <<round, faults, hist, exposed>> /\ JobStep(j)
  BY DEF SupFollows, JobStep, Step, hist
<1>2. /\ jobs[j].kind = "sup" /\ jobs[j].state = "running" /\ jobs[j].pc = "follow"
      /\ way.launcher \in {"pf", "exago"}
      /\ faults \in 0 .. MaxFaults[way.launcher] /\ exposed \in BOOLEAN
  BY <1>1, JobAt DEF Stops, KindsOf
<1>3. /\ jobs[j] \in JobType /\ j \in 1 .. Last /\ DOMAIN jobs = 1 .. Last /\ DriverShape
      /\ Last \in Nat /\ Last \in 1 .. Last /\ JobKnown(j) /\ JobKnown(Last) /\ jobs[j].kind \in JobKinds
  BY JobFacts, DriverFacts DEF DriverIInv, JobType
<1>4. CASE way.launcher = "pf"
  <2>1. End(j, "ok") /\ j # Last
    BY <1>2, <1>3, <1>4 DEF SupFollows, End, DriverIInv, Line
  <2>2. jobs[Last].kind # "round"
    BY <1>3, <1>4 DEF JobKnown, KindsOf
  <2> QED BY <1>1, <1>2, <1>4, <2>1, <2>2, JobIsEnded
<1>5. CASE way.launcher # "pf"
  <2> DEFINE new == [jobs[j] EXCEPT !.state = "ok", !.pc = "end", !.noted = FALSE]
             job == Supervisor(jobs[j].cycle + 1, jobs[j].sub)
  <2>1. j = Last - 1 /\ jobs[j].sub = Last /\ jobs[Last].kind = "round"
    BY <1>2, <1>5 DEF DriverIInv, Line
  <2>2. new \in JobType /\ jobs' = Append([jobs EXCEPT ![j] = new], job)
    BY <1>2, <1>3, <1>5, EndedIs DEF SupFollows
  <2>3. /\ new.state = "ok" /\ new.pc = "end" /\ new.kind = "sup"
        /\ new.round = jobs[j].round /\ new.after = jobs[j].after /\ new.budget = jobs[j].budget
        /\ new.dep = jobs[j].dep /\ new.cycle = jobs[j].cycle
    BY <1>2, <1>3 DEF JobType
  <2>4. jobs[j].cycle \in Nat /\ jobs[j].cycle <= MaxCycles
    BY <1>2, <1>3 DEF JobType, JobKnown
  <2>5. /\ job.kind = "sup" /\ job.round = 0 /\ job.cycle = jobs[j].cycle + 1 /\ job.budget = 0
        /\ job.after = Last /\ job.dep = "afterany" /\ job.state = "pending" /\ job.pc = "drive"
        /\ job.noted = FALSE /\ job.sub = 0
    BY <2>1 DEF Job, Supervisor, FirstStep
  <2>6. job \in JobType
    <3>1. 0 \in Rounds /\ 0 \in Plans /\ "sup" \in JobKinds /\ "drive" \in AllStops
      BY DriverSizes DEF Rounds, Plans, JobKinds, FirstStep, AllStops
    <3> QED BY <3>1, <2>1, <2>4, <1>3 DEF Job, Supervisor, FirstStep, JobType
  <2> HIDE DEF new, job
  <2>7. Added(job)
    BY <2>4, <2>5, <2>6, <1>2, <1>3, DriverBounds DEF Added, KindsOf, FirstStep
  <2>8. Supervised /\ ~Alive(new) /\ "end" \in Stops[new.kind] /\ job.after # 0
        /\ new.pc \in Stops[new.kind] /\ job.kind # "round" /\ jobs[j].kind \notin {"round", "prep"}
    BY <1>2, <1>3, <2>3, <2>5 DEF Supervised, Alive, Stops
  <2> QED BY <1>1, <1>2, <2>1, <2>2, <2>3, <2>7, <2>8, JobSubmits
<1> QED BY <1>4, <1>5

\* A job of the power-flow chain submits the next.
LEMMA SubmitKeeps ==
  ASSUME DriverIInv, NEW j \in Live, Submit(j)
  PROVE  DriverIInv'
<1>1. AtStep(j, "submit") /\ UNCHANGED <<round, faults, hist, exposed>> /\ JobStep(j)
  BY DEF Submit, JobStep, Step, hist
<1>2. /\ jobs[j].kind \in {"prep", "map", "fin"} /\ jobs[j].state = "running" /\ jobs[j].pc = "submit"
      /\ way.launcher = "pf" /\ (jobs[j].noted <=> j < Last)
  BY <1>1, JobAt DEF Stops, KindsOf
<1>3. /\ jobs[j] \in JobType /\ j \in 1 .. Last /\ DOMAIN jobs = 1 .. Last /\ DriverShape
      /\ Last \in Nat /\ JobKnown(j) /\ jobs[j].round \in Rounds /\ Found(j)
  BY JobFacts, DriverFacts DEF DriverIInv, JobType
<1>4. CASE ~Wanted(j)
  <2>1. GoOn(j, After(j)) /\ jobs[j].noted
    BY <1>4 DEF Submit, Wanted
  <2>2. After(j) \in Stops[jobs[j].kind] /\ After(j) \in {"end", "check"} /\ After(j) \in AllStops
        /\ (After(j) = "end" => jobs[j].kind = "prep")
    BY <1>2 DEF After, Stops, AllStops
  <2>3. Found(j)'
    BY <2>1, <2>2, WentOn DEF Found, AllStops
  <2> QED BY <1>1, <1>2, <2>1, <2>2, <2>3, JobGoesOn
<1>5. CASE Wanted(j)
  <2> DEFINE new == [jobs[j] EXCEPT !.pc = "note"]
             job == Successor(j)
  <2>1. j = Last
    BY <1>2, <1>3, <1>5 DEF Wanted
  <2>2. new \in JobType /\ jobs' = Append([jobs EXCEPT ![j] = new], job)
    BY <1>3, <1>5 DEF Submit, JobType, AllStops
  <2>3. /\ new.state = "running" /\ new.pc = "note" /\ new.kind = jobs[j].kind
        /\ new.round = jobs[j].round /\ new.after = jobs[j].after /\ new.budget = jobs[j].budget
        /\ new.dep = jobs[j].dep /\ new.cycle = jobs[j].cycle
    BY <1>2, <1>3 DEF JobType
  <2>4. jobs[j].cycle \in Nat /\ jobs[j].cycle <= MaxCycles
    BY <1>2, <1>3 DEF JobType, JobKnown
  <2>5. /\ job.kind \in {"sup", "map", "fin"} /\ (job.kind = "sup" => job.cycle = jobs[j].cycle + 1)
        /\ job.kind # "sup" => job.cycle = jobs[j].cycle
        /\ job.after \in {0, Last} /\ (job.after = 0 => jobs[j].kind = "prep")
        /\ job.state = "pending" /\ job.pc = FirstStep[job.kind] /\ job.noted = FALSE
    BY <1>2, <2>1, <1>3 DEF Job, Supervisor, Successor
  <2>6. job \in JobType
    <3>1. 0 \in Rounds /\ 0 \in Plans /\ {"sup", "map", "fin"} \subseteq JobKinds
          /\ FirstStep["sup"] \in AllStops /\ FirstStep["map"] \in AllStops /\ FirstStep["fin"] \in AllStops
      BY DriverSizes DEF Rounds, Plans, JobKinds, FirstStep, AllStops
    <3>2. jobs[j].cycle + 1 \in Nat /\ j \in Nat
      BY <2>4, <1>3
    <3> QED BY <3>1, <3>2, <2>4, <1>2, <1>3 DEF Job, Supervisor, Successor, JobType
  <2> HIDE DEF new, job
  <2>7. Added(job)
    BY <2>4, <2>5, <2>6, <1>2, DriverBounds DEF Added, KindsOf
  <2>8. jobs[j].kind = "prep" => Files(j).cands /\ Files(j).queue # {}
    BY <1>1, <1>3 DEF Found
  <2>9. job.after = 0 => ~Worker(j)
    BY <2>5 DEF Worker
  <2>10. "note" \in Stops[jobs[j].kind] /\ Supervised
    BY <1>2 DEF Stops, Supervised
  <2>11. new.pc \in {"follow", "note", "end"} /\ new.pc # "follow" /\ new.state # "pending"
         /\ new.kind \notin {"sup", "round"} /\ job.kind # "round" /\ jobs[j].kind # "round"
         /\ new.pc \in Stops[new.kind]
    BY <1>2, <2>3, <2>5, <2>10
  <2> QED BY <1>1, <1>2, <2>1, <2>2, <2>3, <2>7, <2>8, <2>9, <2>10, <2>11, JobSubmits
<1> QED BY <1>4, <1>5

\* A job that is refused its successor ends.
LEMMA RefusedKeeps ==
  ASSUME DriverIInv, NEW j \in Live, Refused(j)
  PROVE  DriverIInv'
<1>1. faults' \in 0 .. MaxFaults[way.launcher]
  BY FaultTyped DEF Refused
<1> QED BY <1>1, JobIsEnded DEF Refused, JobStep

\* Whatever a job does.
LEMMA JobStepKeeps ==
  ASSUME Doubling = FALSE, DriverIInv, NEW j \in Live, JobStep(j)
  PROVE  DriverIInv'
BY StartKeeps, SupStopsKeeps, SupDrivesKeeps, SupFollowsKeeps, GenerateKeeps, DealKeeps,
   QueueUpKeeps, SubmitKeeps, NoteKeeps, EndPrepKeeps, CheckKeeps, SelectKeeps, BootstrapKeeps,
   WorkOnKeeps, EndWorkKeeps, ReduceKeeps, KillKeeps, RequeueKeeps, RefusedKeeps DEF JobStep, Step

-----------------------------------------------------------------------------
(* The operator and the shell. *)

\* What is said of the jobs and the files alone.
LEMMA JobsLeft ==
  ASSUME DriverIInv, UNCHANGED <<way, round, jobs, whole>>
  PROVE  /\ FilesGood' /\ Line' /\ Ordered' /\ Prepared' /\ AllFound' /\ Planned' /\ Chained'
         /\ Last' = Last /\ Holder' = Holder
         /\ (\A j \in 1 .. Last : JobKnown(j))'
<1>0. /\ DriverShape /\ Line /\ Ordered /\ Prepared /\ FilesGood /\ AllFound /\ Planned /\ Chained
  BY DEF DriverIInv
<1>1. /\ Last' = Last /\ Live' = Live /\ KindsOf' = KindsOf /\ Supervised' = Supervised
      /\ InTurn' = InTurn
  BY DEF Last, Live, KindsOf, Supervised, InTurn
<1>2. \A r \in Rounds : Complete(r)' = Complete(r) /\ Behind(r)' = Behind(r)
  BY DEF Complete, Behind
<1>3. FilesGood' /\ Line' /\ Prepared' /\ Holder' = Holder
  BY <1>0, <1>1, FilesLeft DEF Line, Prepared, Holder
<1>4. Ordered'
  BY <1>0, <1>1 DEF Ordered, Begun, Worker
<1>5. AllFound'
  <2> SUFFICES ASSUME NEW k \in 1 .. Last PROVE Found(k)'
    BY <1>1 DEF AllFound
  <2>1. Found(k)
    BY <1>0 DEF AllFound
  <2>2. Files(k)' = Files(k) /\ Listed(k)' = Listed(k) /\ \A p \in AllStops : AtStep(k, p)' = AtStep(k, p)
    BY <1>1 DEF Files, Listed, AtStep
  <2>3. Behind(jobs[k].round)' = Behind(jobs[k].round)
    BY DEF Behind, Complete
  <2> QED BY <1>1, <2>1, <2>2, <2>3 DEF Found, AllStops
<1>6. Planned'
  BY <1>0, <1>1 DEF Planned, Begun, Behind, Complete
<1>7. Chained'
  BY <1>0, <1>1 DEF Chained, Complete
<1>8. (\A j \in 1 .. Last : JobKnown(j))'
  BY <1>0, <1>1, DriverFacts DEF JobKnown, BudgetOf
<1> QED BY <1>1, <1>3, <1>4, <1>5, <1>6, <1>7, <1>8

\* Nothing changes.
LEMMA DriverStutters ==
  ASSUME DriverIInv, UNCHANGED driverVars
  PROVE  DriverIInv'
<1>1. UNCHANGED <<way, round, jobs, shell, launches, faults, whole, exposed>>
  BY DEF driverVars, hist
<1>2. DriverShape /\ Queueing /\ Held
  BY DEF DriverIInv
<1>3. DriverShape'
  BY <1>1, <1>2, JobsLeft DEF DriverShape
<1>4. Queueing'
  BY <1>1, <1>2, JobsLeft DEF Queueing, Supervised, Behind, Complete
<1>5. Held'
  BY <1>1, <1>2, JobsLeft DEF Held, Supervised, AllComplete, Complete
<1> QED BY <1>1, <1>3, <1>4, <1>5, JobsLeft DEF DriverIInv

\* sbatch fails in a job or in the launching script.
LEMMA RefuseKeeps ==
  ASSUME DriverIInv, Refuse
  PROVE  DriverIInv'
<1>1. CASE \E j \in Live : AtStep(j, jobs[j].pc) /\ End(j, "failed") /\ UNCHANGED shell
  <2>1. PICK j \in Live : AtStep(j, jobs[j].pc) /\ End(j, "failed") /\ UNCHANGED shell
    BY <1>1
  <2>2. Refused(j)
    BY <2>1 DEF Refuse, Refused, AtStep
  <2> QED BY <2>2, RefusedKeeps
<1>2. CASE shell' = AtEase /\ UNCHANGED jobs
  <2>1. UNCHANGED <<way, round, jobs, launches, whole>> /\ exposed' = TRUE
        /\ faults' \in 0 .. MaxFaults[way.launcher] /\ shell' = AtEase
    BY <1>2, FaultTyped DEF Refuse
  <2>2. DriverShape /\ Last \in Nat
    BY DriverFacts DEF DriverIInv
  <2>3. shell' \in [todo : Seq(Rounds), prev : 0 .. Last]
    BY <2>1, <2>2 DEF AtEase
  <2>4. DriverShape'
    BY <2>1, <2>2, <2>3, JobsLeft DEF DriverShape
  <2>5. Queueing' /\ Held'
    BY <2>1 DEF Queueing, Held, AtEase
  <2> QED BY <2>1, <2>4, <2>5, JobsLeft DEF DriverIInv
<1> QED BY <1>1, <1>2 DEF Refuse, AtStep

\* The operator launches the campaign.
LEMMA LaunchKeeps ==
  ASSUME DriverIInv, Launch
  PROVE  DriverIInv'
<1>1. /\ launches < MaxLaunches /\ launches' = launches + 1 /\ ~AllComplete /\ exposed' = FALSE
      /\ UNCHANGED <<way, round, faults, whole>>
  BY DEF Launch
<1>2. DriverShape /\ Queueing /\ FilesGood' /\ launches' \in 0 .. MaxLaunches
  <2>1. DriverShape /\ Queueing
    BY DEF DriverIInv
  <2> QED BY <1>1, <2>1, FilesLeft, DriverBounds DEF DriverShape
<1>3. CASE Supervised
  <2> DEFINE job == Supervisor(1, 0)
  <2>1. jobs' = <<job>> /\ shell' = AtEase
    BY <1>2, <1>3 DEF Launch, Supervised, Queueing
  <2>2. /\ job.kind = "sup" /\ job.after = 0 /\ job.state = "pending" /\ job.pc = "drive" /\ job.cycle = 1
        /\ job.noted = FALSE
    BY DEF Supervisor, Job, FirstStep
  <2>3. job \in JobType
    <3>1. 0 \in Rounds /\ 0 \in Plans /\ "sup" \in JobKinds /\ "drive" \in AllStops
      BY DriverSizes DEF Rounds, Plans, JobKinds, FirstStep, AllStops
    <3> QED BY <3>1 DEF Job, Supervisor, FirstStep, JobType
  <2> HIDE DEF job
  <2>4. /\ jobs' \in Seq(JobType) /\ Last' = 1 /\ DOMAIN jobs' = {1} /\ jobs'[1] = job
        /\ \A k \in 1 .. Last' : k = 1
    BY <2>1, <2>3 DEF Last
  <2>5. Live' = {1}
    BY <2>2, <2>4 DEF Live
  <2>6. DriverShape'
    <3>1. JobKnown(1)'
      BY <1>1, <1>3, <2>2, <2>4, DriverBounds DEF JobKnown, KindsOf, Supervised, Stops, FirstStep
    <3>2. shell' \in [todo : Seq(Rounds), prev : 0 .. Last']
      BY <2>1, <2>4 DEF AtEase
    <3> QED BY <3>1, <3>2, <1>1, <1>2, <2>4 DEF DriverShape
  <2>7. Line'
    BY <2>2, <2>4, <2>5 DEF Line
  <2>8. Ordered' /\ Prepared'
    BY <2>2, <2>4 DEF Ordered, Prepared
  <2>9. AllFound'
    BY <2>2, <2>4 DEF AllFound, Found, AtStep
  <2>10. Planned' /\ Chained'
    BY <1>1, <1>3, <2>2, <2>4 DEF Planned, Chained, Supervised
  <2>11. Queueing'
    BY <2>1 DEF Queueing, AtEase
  <2>12. Held'
    BY <2>2, <2>4, <2>5 DEF Held, Holder
  <2> QED BY <1>2, <2>6, <2>7, <2>8, <2>9, <2>10, <2>11, <2>12 DEF DriverIInv
<1>4. CASE ~Supervised
  <2>1. PICK first \in Rounds : /\ shell' = [todo |-> Targets(first), prev |-> 0]
                                /\ way.launcher = "drive" => Behind(first)
    <3>1. CASE way.launcher = "auto"
      <4>1. 0 \in Rounds
        BY DriverSizes DEF Rounds
      <4> QED BY <1>4, <3>1, <4>1 DEF Launch, Supervised
    <3>2. CASE way.launcher # "auto"
      BY <1>1, <1>4, <3>2, FirstIncompleteIs DEF Launch, Supervised
    <3> QED BY <3>1, <3>2
  <2>2. jobs' = <<>> /\ first \in Rounds /\ (way.launcher = "drive" => Behind(first))
    BY <1>4, <2>1 DEF Launch, Supervised
  <2> DEFINE todo == Targets(first)
  <2>3. todo \in Seq(Rounds) /\ \A i \in 1 .. Len(todo) : todo[i] = first + i - 1
    <3>1. R - first \in Nat /\ \A i \in 1 .. R - first : first + i - 1 \in Rounds
      BY <2>2, DriverSizes DEF Rounds
    <3>2. todo = [i \in 1 .. R - first |-> first + i - 1]
      BY DEF Targets
    <3> HIDE DEF todo
    <3>3. todo \in [1 .. R - first -> Rounds]
      BY <3>1, <3>2
    <3>4. todo \in Seq(Rounds) /\ Len(todo) = R - first
      BY <3>1, <3>3, SeqDef, LenProperties
    <3> QED BY <3>1, <3>2, <3>4
  <2> HIDE DEF todo
  <2>4. /\ jobs' \in Seq(JobType) /\ Last' = 0 /\ DOMAIN jobs' = {} /\ Live' = {}
        /\ \A k \in 1 .. Last' : FALSE
    BY <2>2 DEF Last, Live
  <2>5. shell' = [todo |-> todo, prev |-> 0]
    BY <2>1 DEF todo
  <2>6. DriverShape'
    <3>1. shell' \in [todo : Seq(Rounds), prev : 0 .. Last']
      BY <2>3, <2>4, <2>5
    <3> QED BY <3>1, <1>1, <1>2, <2>4 DEF DriverShape
  <2>7. Line' /\ Ordered' /\ Prepared' /\ AllFound' /\ Planned' /\ Chained'
    BY <2>4 DEF Line, Ordered, Prepared, AllFound, Planned, Chained
  <2>8. Queueing'
    <3>1. ASSUME todo # <<>> PROVE Len(todo) > 0 /\ todo[1] = first
      <4>1. Len(todo) > 0 /\ Len(todo) \in Nat
        BY <3>1, <2>3, EmptySeq, LenProperties
      <4>2. 1 \in 1 .. Len(todo)
        BY <4>1
      <4> QED BY <4>1, <4>2, <2>2, <2>3 DEF Rounds
    <3>2. \A i \in 1 .. Len(todo) - 1 : todo[i + 1] = todo[i] + 1
      <4> SUFFICES ASSUME NEW i \in 1 .. Len(todo) - 1 PROVE todo[i + 1] = todo[i] + 1
        OBVIOUS
      <4>1. i \in 1 .. Len(todo) /\ i + 1 \in 1 .. Len(todo)
        BY <2>3, LenProperties
      <4> QED BY <4>1, <2>2, <2>3 DEF Rounds
    <3>3. way.launcher = "drive" => Behind(first)'
      BY <1>1, <2>2 DEF Behind, Complete
    <3>4. ~Supervised'
      BY <1>1, <1>4 DEF Supervised
    <3> QED BY <1>1, <2>4, <2>5, <3>1, <3>2, <3>3, <3>4 DEF Queueing
  <2>9. Held'
    BY <1>1, <1>4 DEF Held, Supervised
  <2> QED BY <1>2, <2>6, <2>7, <2>8, <2>9 DEF DriverIInv
<1> QED BY <1>3, <1>4

\* The script queues one job behind the other.
LEMMA ShellSubmitKeeps ==
  ASSUME DriverIInv, ShellSubmit
  PROVE  DriverIInv'
<1> DEFINE todo == shell.todo
           job == ChainJob(Head(shell.todo), BudgetOf(Head(shell.todo)), shell.prev)
<1>0. /\ DriverShape /\ Line /\ Ordered /\ Prepared /\ AllFound /\ Planned /\ Chained /\ Queueing
  BY DEF DriverIInv
<1>1. /\ todo # <<>> /\ jobs' = Append(jobs, job) /\ shell' = [todo |-> Tail(todo), prev |-> Submitted]
      /\ UNCHANGED <<way, round, launches, faults, whole, exposed>>
  BY DEF ShellSubmit, hist
<1>2. ~Supervised /\ shell.prev = Last
  BY <1>0, <1>1 DEF Queueing, AtEase
<1>3. /\ Last \in Nat /\ jobs \in Seq(JobType) /\ todo \in Seq(Rounds) /\ way \in Mode
      /\ \A k \in 1 .. Last : jobs[k] \in JobType /\ JobKnown(k) /\ jobs[k].kind = "round"
      /\ Submitted = Last + 1
  <2>1. DriverShape /\ KindsOf = {"round"}
    BY <1>0, <1>2 DEF KindsOf, Supervised
  <2> QED BY <2>1, DriverFacts DEF DriverShape, JobKnown, Submitted, Last
<1>4. /\ Head(todo) \in Rounds /\ Head(todo) = todo[1] /\ Tail(todo) \in Seq(Rounds)
      /\ Len(todo) \in Nat \ {0} /\ Len(Tail(todo)) = Len(todo) - 1
      /\ \A i \in 1 .. Len(Tail(todo)) : Tail(todo)[i] = todo[i + 1]
  <2>1. Head(todo) \in Rounds /\ Tail(todo) \in Seq(Rounds) /\ Len(Tail(todo)) = Len(todo) - 1
        /\ \A i \in 1 .. Len(Tail(todo)) : Tail(todo)[i] = todo[i + 1]
    BY <1>1, <1>3, HeadTailProperties
  <2>2. Len(todo) \in Nat \ {0}
    BY <1>1, <1>3, EmptySeq, LenProperties
  <2> QED BY <2>1, <2>2, <1>3
<1>5. /\ job.kind = "round" /\ job.round = todo[1] /\ job.budget = BudgetOf(todo[1]) /\ job.cycle = 0
      /\ job.after = Last /\ job.dep = way.dep /\ job.state = "pending" /\ job.pc = "select"
      /\ job.noted = FALSE /\ job.sub = 0
  BY <1>2, <1>4 DEF ChainJob, Job, FirstStep
<1>6. job \in JobType
  <2>1. BudgetOf(todo[1]) \in Plans /\ "round" \in JobKinds /\ "select" \in AllStops
    BY <1>4, BudgetIsPlanned DEF JobKinds, FirstStep, AllStops
  <2> QED BY <2>1, <1>2, <1>3, <1>4 DEF ChainJob, Job, FirstStep, JobType, Mode
<1> HIDE DEF job, todo
<1>7. /\ jobs' \in Seq(JobType) /\ Last' = Last + 1 /\ jobs'[Last + 1] = job
      /\ \A k \in 1 .. Last : jobs'[k] = jobs[k]
      /\ \A k \in 1 .. Last + 1 : k \in Live' <=> Alive(jobs'[k])
      /\ Live' \subseteq 1 .. Last + 1
  BY <1>0, <1>1, <1>3, <1>6, JobAdded DEF Last, Alive
<1>8. \A k \in 1 .. Last + 1 : k \in 1 .. Last \/ k = Last + 1
  BY <1>3
<1>9. /\ KindsOf' = KindsOf /\ Supervised' = Supervised /\ InTurn' = InTurn /\ KindsOf = {"round"}
  BY <1>1, <1>2 DEF KindsOf, Supervised, InTurn
<1>10. \A k \in 1 .. Last : k \in Live <=> Alive(jobs[k])
  BY <1>0, LiveIs DEF Alive
<1>11. FilesGood'
  BY <1>1, FilesLeft
<1>a. DriverShape'
  <2>1. ASSUME NEW k \in 1 .. Last + 1 PROVE JobKnown(k)'
    <3>1. CASE k = Last + 1
      <4>1. "select" \in Stops["round"] /\ FirstStep["round"] = "select"
        BY DEF Stops, FirstStep
      <4>2. 0 <= MaxCycles + 1 /\ 0 <= MaxCycles
        BY DriverBounds
      <4>3. BudgetOf(job.round) = job.budget /\ job.after = k - 1
        BY <1>3, <1>5, <3>1
      <4>4. jobs'[k] = job /\ way' = way /\ KindsOf' = {"round"} /\ ~Supervised'
        BY <3>1, <1>1, <1>2, <1>7, <1>9
      <4>5. job.pc # "end" /\ job.pc # "follow"
        BY <1>5
      <4> HIDE DEF Stops, FirstStep
      <4> QED BY <4>1, <4>2, <4>3, <4>4, <4>5, <1>5 DEF JobKnown, BudgetOf
    <3>2. CASE k \in 1 .. Last
      <4>1. JobKnown(k) /\ jobs'[k] = jobs[k] /\ way' = way
        BY <3>2, <1>1, <1>3, <1>7
      <4> QED BY <4>1, <1>9 DEF JobKnown, BudgetOf
    <3> QED BY <3>1, <3>2, <1>8
  <2>2. shell' \in [todo : Seq(Rounds), prev : 0 .. Last + 1]
    BY <1>1, <1>3, <1>4
  <2> QED BY <2>1, <2>2, <1>0, <1>1, <1>7 DEF DriverShape
<1>r. \A k \in 1 .. Last + 1 : jobs'[k].kind = "round"
  BY <1>3, <1>5, <1>7, <1>8
<1>b. Line' /\ Prepared'
  BY <1>r, <1>7 DEF Line, Prepared
<1>c. Ordered'
  <2> SUFFICES ASSUME NEW k \in 1 .. Last + 1, Begun(k)', NEW i \in 1 .. k - 1
               PROVE  i \notin Live'
    BY <1>7 DEF Ordered
  <2>1. CASE k = Last + 1
    <3>1. Last = 0
      BY <2>1, <1>5, <1>7 DEF Begun
    <3> QED BY <2>1, <3>1
  <2>2. CASE k \in 1 .. Last
    <3>1. Begun(k) /\ i \in 1 .. Last /\ Worker(i)
      BY <2>2, <1>3, <1>7 DEF Begun, Worker
    <3> QED BY <2>2, <3>1, <1>0, <1>7, <1>10 DEF Ordered
  <2> QED BY <2>1, <2>2, <1>8
<1>d. AllFound'
  <2> SUFFICES ASSUME NEW k \in 1 .. Last + 1 PROVE Found(k)'
    BY <1>7 DEF AllFound
  <2>1. CASE k = Last + 1
    BY <2>1, <1>5, <1>7 DEF Found, AtStep
  <2>2. CASE k \in 1 .. Last
    <3>1. Found(k) /\ jobs'[k] = jobs[k]
      BY <2>2, <1>0, <1>7 DEF AllFound
    <3>2. /\ Files(k)' = Files(k) /\ Listed(k)' = Listed(k)
          /\ \A p \in AllStops : AtStep(k, p)' = AtStep(k, p)
      BY <2>2, <3>1, <1>1, <1>7, <1>10 DEF Files, Listed, AtStep
    <3>3. Behind(jobs[k].round)' = Behind(jobs[k].round)
      BY <3>1, <1>1 DEF Behind, Complete
    <3> QED BY <1>9, <3>1, <3>2, <3>3 DEF Found, AllStops
  <2> QED BY <2>1, <2>2, <1>8
<1>e. Planned'
  <2> SUFFICES ASSUME NEW k \in 1 .. Last + 1, InTurn, way.launcher # "auto", Begun(k)'
               PROVE  Behind(jobs[k].round)'
    BY <1>1, <1>7, <1>9 DEF Planned
  <2>1. CASE k = Last + 1
    <3>1. Last = 0 /\ way.launcher = "drive"
      <4>1. way.launcher \in Launchers
        BY <1>3 DEF Mode
      <4> QED BY <2>1, <4>1, <1>2, <1>5, <1>7 DEF Begun, Supervised, Launchers
    <3>2. Behind(todo[1])
      BY <3>1, <1>0, <1>1 DEF Queueing, todo
    <3> QED BY <2>1, <3>2, <1>1, <1>5, <1>7 DEF Behind, Complete
  <2>2. CASE k \in 1 .. Last
    <3>1. Begun(k) /\ jobs'[k] = jobs[k] /\ jobs[k].kind = "round"
      BY <2>2, <1>3, <1>7 DEF Begun
    <3>2. Behind(jobs[k].round)
      BY <2>2, <3>1, <1>0 DEF Planned
    <3> QED BY <3>1, <3>2, <1>1 DEF Behind, Complete
  <2> QED BY <2>1, <2>2, <1>8
<1>f. Chained'
  <2> SUFFICES ASSUME way.launcher = "drive", NEW k \in 1 .. Last + 1
               PROVE  /\ k > 1 => jobs'[k].round = jobs'[k - 1].round + 1
                      /\ jobs'[k].state = "ok" => Complete(jobs[k].round)'
    BY <1>1, <1>7 DEF Chained
  <2>1. CASE k = Last + 1
    <3>1. k > 1 => Last # 0 /\ k - 1 = Last /\ Last \in 1 .. Last /\ jobs'[Last] = jobs[Last]
      BY <2>1, <1>3, <1>7
    <3>2. Last # 0 => todo[1] = jobs[Last].round + 1
      BY <1>0, <1>1 DEF Queueing, todo
    <3> QED BY <2>1, <3>1, <3>2, <1>5, <1>7
  <2>2. CASE k \in 1 .. Last
    <3>1. jobs'[k] = jobs[k] /\ (k > 1 => k - 1 \in 1 .. Last /\ jobs'[k - 1] = jobs[k - 1])
      BY <2>2, <1>3, <1>7
    <3> QED BY <2>2, <3>1, <1>0, <1>1 DEF Chained, Complete
  <2> QED BY <2>1, <2>2, <1>8
<1>g. Queueing'
  <2>1. ASSUME Tail(todo) # <<>>, way.launcher = "drive"
        PROVE  /\ \A i \in 1 .. Len(Tail(todo)) - 1 : Tail(todo)[i + 1] = Tail(todo)[i] + 1
               /\ Tail(todo)[1] = todo[1] + 1
    <3>1. \A i \in 1 .. Len(todo) - 1 : todo[i + 1] = todo[i] + 1
      BY <2>1, <1>0, <1>1 DEF Queueing, todo
    <3>2. Len(Tail(todo)) \in Nat /\ Len(Tail(todo)) > 0
      BY <2>1, <1>4, EmptySeq, LenProperties
    <3>3. Tail(todo)[1] = todo[1] + 1
      BY <3>1, <3>2, <1>4
    <3>4. ASSUME NEW i \in 1 .. Len(Tail(todo)) - 1 PROVE Tail(todo)[i + 1] = Tail(todo)[i] + 1
      <4>1. /\ i \in 1 .. Len(Tail(todo)) /\ i + 1 \in 1 .. Len(Tail(todo))
            /\ i + 1 \in 1 .. Len(todo) - 1
        BY <3>2, <1>4
      <4> QED BY <4>1, <3>1, <1>4
    <3> QED BY <3>3, <3>4
  <2>2. shell'.todo = Tail(todo) /\ shell'.prev = Last'
    BY <1>1, <1>3, <1>7
  <2>3. jobs'[Last'].round = todo[1] /\ Last' # 0
    BY <1>3, <1>5, <1>7
  <2> QED BY <2>1, <2>2, <2>3, <1>1, <1>2, <1>9 DEF Queueing
<1>h. Held'
  BY <1>2, <1>9 DEF Held
<1> QED BY <1>11, <1>a, <1>b, <1>c, <1>d, <1>e, <1>f, <1>g, <1>h DEF DriverIInv

\* Nothing is there at first.
LEMMA DriverStarts ==
  ASSUME DriverInit
  PROVE  DriverIInv
<1>1. /\ jobs = <<>> /\ Last = 0 /\ Live = {} /\ jobs \in Seq(JobType) /\ \A k \in 1 .. Last : FALSE
  BY DEF DriverInit, Last, Live
<1>2. /\ way \in Mode /\ shell = AtEase /\ launches = 0 /\ faults = 0 /\ whole = TRUE /\ exposed = FALSE
      /\ round = [r \in Rounds |-> NoFiles]
  BY DriverBounds DEF DriverInit
<1>3. NoFiles \in FilesType
  BY DEF NoFiles, FilesType
<1>4. faults \in 0 .. MaxFaults[way.launcher] /\ launches \in 0 .. MaxLaunches
  BY <1>2, DriverBounds DEF Mode
<1>5. shell \in [todo : Seq(Rounds), prev : 0 .. Last]
  BY <1>1, <1>2 DEF AtEase
<1>6. DriverShape
  BY <1>1, <1>2, <1>3, <1>4, <1>5 DEF DriverShape
<1>7. FilesGood
  <2> SUFFICES ASSUME NEW r \in Rounds PROVE RoundGood(NoFiles, r, whole)
    BY <1>2 DEF FilesGood
  <2> QED BY <1>3 DEF RoundGood, NoFiles
<1>8. Line /\ Ordered /\ Prepared /\ AllFound /\ Planned /\ Chained
  BY <1>1 DEF Line, Ordered, Prepared, AllFound, Planned, Chained
<1>9. Queueing /\ Held
  BY <1>2 DEF Queueing, Held, AtEase
<1> QED BY <1>6, <1>7, <1>8, <1>9 DEF DriverIInv

-----------------------------------------------------------------------------
(* The theorems. *)

\* Every step keeps the invariant.
LEMMA DriverSteps ==
  ASSUME Doubling = FALSE, DriverIInv, [DriverNext]_driverVars
  PROVE  DriverIInv'
<1>1. CASE DriverNext
  BY <1>1, LaunchKeeps, ShellSubmitKeeps, RefuseKeeps, JobStepKeeps DEF DriverNext, JobStep
<1>2. CASE UNCHANGED driverVars
  BY <1>2, DriverStutters
<1> QED BY <1>1, <1>2

\* DriverIInv holds whatever is killed, requeued or refused: the jobs form a line
\* in which only the last may submit, and each round's files are those of whole
\* selections.
THEOREM DriverInvariant ==
  ASSUME Doubling = FALSE
  PROVE  DriverSpec => []DriverIInv
<1>1. DriverInit => DriverIInv
  BY DriverStarts
<1>2. DriverIInv /\ [DriverNext]_driverVars => DriverIInv'
  BY DriverSteps
<1> QED BY <1>1, <1>2, PTL DEF DriverSpec

\* The parts of RoundsSound follow.
LEMMA DriverIsSound ==
  ASSUME DriverIInv
  PROVE  RoundsSound
<1>1. /\ DriverShape /\ FilesGood /\ Held /\ DOMAIN jobs = 1 .. Last /\ Last \in Nat /\ Last = Len(jobs)
      /\ \A j \in 1 .. Last : jobs[j] \in JobType /\ JobKnown(j)
  BY DriverFacts DEF DriverIInv, Last
<1>2. DriverTypes
  <2>1. ASSUME NEW j \in 1 .. Last
        PROVE  /\ jobs[j].kind \in DOMAIN FirstStep /\ jobs[j].round \in Rounds
               /\ jobs[j].after \in 0 .. Len(jobs) \ {j} /\ jobs[j].cycle \in 0 .. MaxCycles + 1
               /\ jobs[j].state \in {"pending", "running", "ok", "failed"}
    <3>1. jobs[j].after \in 0 .. Len(jobs) \ {j}
      BY <1>1 DEF JobKnown
    <3>2. jobs[j].cycle \in 0 .. MaxCycles + 1
      BY <1>1, DriverBounds DEF JobKnown, JobType
    <3> QED BY <3>1, <3>2, <1>1 DEF JobType, JobKinds
  <2> QED BY <2>1, <1>1 DEF DriverTypes, DriverShape, hist
<1>3. OneWriter
  BY OnlyOneWrites DEF OneWriter
<1>4. NotStranded
  <2>1. ASSUME Live = {} PROVE ~Holder
    BY <2>1 DEF Holder
  <2> QED BY <2>1, <1>1 DEF NotStranded, Held
<1>5. CompleteMeansSampled /\ NoPartialReduce
  BY <1>1 DEF CompleteMeansSampled, NoPartialReduce, FilesGood, RoundGood, Complete, Sampled
<1>6. PriorKnown
  BY <1>1 DEF PriorKnown, FilesGood, RoundGood, InTurn
<1>7. BudgetPlanned
  BY <1>1 DEF BudgetPlanned, FilesGood, RoundGood
<1> QED BY <1>2, <1>3, <1>4, <1>5, <1>6, <1>7 DEF RoundsSound

\* RoundsSound: one job works on a round at a time, the chain never ends before
\* the campaign does unless its holder was stopped, and a round that is marked
\* complete has run every shard of one whole selection, under the budget planned
\* for it and with the rounds before it sampled.
THEOREM DriverRoundsSound ==
  ASSUME Doubling = FALSE
  PROVE  DriverSpec => []RoundsSound
<1>1. DriverIInv => RoundsSound
  BY DriverIsSound
<1> QED BY <1>1, DriverInvariant, PTL

\* A step of the driver keeps the selection of a round that has work done.
LEMMA SelectionStays ==
  ASSUME DriverIInv, [DriverNext]_driverVars, NEW r \in Rounds, round[r].done # {}
  PROVE  round'[r].budget = round[r].budget /\ round'[r].prior = round[r].prior
<1>1. CASE UNCHANGED round
  BY <1>1
<1>2. CASE \E j \in Live : JobStep(j)
  <2>1. Better(round[r], round'[r])
    BY <1>2, Touched
  <2> QED BY <2>1 DEF Better
<1>3. UNCHANGED round \/ \E j \in Live : JobStep(j)
  BY DEF DriverNext, driverVars, Launch, ShellSubmit, Refuse, JobStep
<1> QED BY <1>1, <1>2, <1>3

\* SelectionKept: a selection whose shards were begun is never replaced.
THEOREM DriverSelectionKept ==
  ASSUME Doubling = FALSE
  PROVE  DriverSpec => SelectionKept
<1>1. DriverIInv /\ [DriverNext]_driverVars =>
        [\A r \in Rounds : round[r].done # {} =>
           round'[r].budget = round[r].budget /\ round'[r].prior = round[r].prior]_driverVars
  BY SelectionStays
<1> QED BY <1>1, DriverInvariant, PTL DEF DriverSpec, SelectionKept
=============================================================================
