---------------------------- MODULE RoundProofs ----------------------------
(***************************************************************************)
(* Proofs about a map-reduce round.  First its jobs, queue and workers     *)
(* (MapReduceRound), for any selection, shard counts, workers and number   *)
(* of faults, splits that are cut short included; then its reduce stage    *)
(* (ShardReducer), for any number of shards, any lists, any checkpoint     *)
(* interval and any number of crashes.                                     *)
(***************************************************************************)
EXTENDS MapReduceRound, ShardReducer, SequenceTheorems, FiniteSetTheorems, TLAPS

\* The queue lists shards in increasing order, hence each of them once.
QueueSorted == \A a, b \in 1 .. Len(queue) : a < b => queue[a] < queue[b]

\* Who is between mkdir and rmdir is alone there and holds the lock; who saw
\* the end of the queue saw it for good.
LockInv ==
  job = "map" =>
    \A w \in Workers :
      /\ place[w] \in Taking => /\ lock
                             /\ \A v \in Workers \ {w} : place[v] \notin Taking
      /\ place[w] = "bump" => next[w] = index /\ index < Len(queue)
      /\ place[w] \in {"leave", "exit"} => index = Len(queue)

HandInv ==
  job = "map" =>
    \A v, w \in Workers :
      /\ place[w] \in InHand => next[w] < index
      /\ v # w /\ place[v] \in InHand /\ place[w] \in InHand => next[v] # next[w]

Base == RoundTypes /\ QueueSorted /\ LockInv /\ HandInv

LEMMA SlotsAreNumbers == Slots \subseteq Nat
BY CountsAssumption DEF Slots

\* What a listing of a finite set of shards is.
LEMMA ListingFacts ==
  ASSUME NEW S \in SUBSET Slots, IsFiniteSet(S), NEW q \in Listings(S)
  PROVE  /\ q \in Seq(Slots) /\ Len(q) \in Nat
         /\ \A a, b \in 1 .. Len(q) : a < b => q[a] < q[b]
<1>1. Cardinality(S) \in Nat
  BY FS_CardinalityType
<1>2. q \in [1 .. Cardinality(S) -> Slots]
  BY DEF Listings
<1>3. q \in Seq(Slots) /\ Len(q) = Cardinality(S)
  BY <1>1, <1>2
<1> QED BY <1>1, <1>2, <1>3 DEF Listings

\* A listing leaves nothing out.
LEMMA ListingCovers ==
  ASSUME NEW S \in SUBSET Slots, IsFiniteSet(S), NEW q \in Listings(S)
  PROVE  \A i \in S : \E n \in 1 .. Len(q) : q[n] = i
<1> DEFINE D == 1 .. Cardinality(S)
<1>1. Cardinality(S) \in Nat
  BY FS_CardinalityType
<1>2. q \in [D -> S] /\ Len(q) = Cardinality(S)
  BY <1>1 DEF Listings
<1>3. Cardinality(D) = Cardinality(S)
  BY <1>1, FS_Interval
<1>4. \A a, b \in D : q[a] = q[b] => a = b
  <2> SUFFICES ASSUME NEW a \in D, NEW b \in D, q[a] = q[b], a # b PROVE FALSE
    OBVIOUS
  <2>1. q[a] \in Nat /\ q[b] \in Nat
    BY <1>2, SlotsAreNumbers
  <2>2. a < b \/ b < a
    OBVIOUS
  <2> QED BY <1>2, <2>1, <2>2 DEF Listings
<1>5. q \in Injection(D, S)
  BY <1>2, <1>4 DEF Injection, IsInjective
<1>6. q \in Surjection(D, S)
  BY <1>3, <1>5, FS_Injection
<1> QED BY <1>2, <1>6 DEF Surjection

LEMMA NonemptyFinite ==
  ASSUME count \in Nat PROVE Nonempty \in SUBSET Slots /\ IsFiniteSet(Nonempty)
<1>1. IsFiniteSet(0 .. count - 1)
  BY FS_Interval
<1>2. Nonempty \subseteq 0 .. count - 1
  <2> SUFFICES ASSUME NEW i \in Nonempty PROVE i \in 0 .. count - 1
    OBVIOUS
  <2>1. i \in Slots /\ i < count
    BY DEF Nonempty
  <2>2. i \in Nat
    BY <2>1, SlotsAreNumbers
  <2> QED BY <2>1, <2>2
<1> QED BY <1>1, <1>2, FS_Subset DEF Nonempty

LEMMA BaseInduction == RoundSpec => []Base
<1> USE SelectionAssumption, CountsAssumption, FaultsAssumption
<1>1. RoundInit => Base
  <2> SUFFICES ASSUME RoundInit PROVE Base
    OBVIOUS
  <2>1. queue \in Seq(Slots) /\ Len(queue) = 0 /\ index \in 0 .. Len(queue)
    BY DEF RoundInit
  <2>2. files \in [Slots -> SUBSET Cands] /\ shardReports \in [Slots -> {"absent", "ok", "failed"}]
    BY DEF RoundInit
  <2>3. FileTypes
    <3>1. sharded \in BOOLEAN /\ lock \in BOOLEAN /\ done \subseteq Slots
          /\ solved \subseteq Cands /\ roundMarker \in {"absent", "ok", "failed"}
          /\ manifest \in Counts \cup {0} /\ broken \subseteq Slots
      BY DEF RoundInit
    <3> QED BY <2>1, <2>2, <3>1 DEF FileTypes
  <2>4. /\ place \in [Workers -> Labels] /\ next \in [Workers -> Nat]
        /\ todo \in [Workers -> SUBSET Cands]
    BY DEF RoundInit, Labels
  <2>5. JobTypes
    <3>1. job \in {"off", "open", "fill", "queue", "map", "reduce"}
          /\ count \in Counts \cup {0}
      BY DEF RoundInit
    <3>2. resuming \in BOOLEAN
      BY DEF RoundInit
    <3>3. faults \in 0 .. MaxFaults
      BY DEF RoundInit
    <3> QED BY <2>4, <3>1, <3>2, <3>3 DEF JobTypes
  <2>6. QueueSorted
    BY <2>1 DEF QueueSorted
  <2>7. LockInv /\ HandInv
    BY DEF RoundInit, LockInv, HandInv
  <2> QED BY <2>3, <2>5, <2>6, <2>7 DEF Base, RoundTypes
<1>2. Base /\ [RoundNext]_roundVars => Base'
  <2> SUFFICES ASSUME Base, [RoundNext]_roundVars PROVE Base'
    OBVIOUS
  <2> USE DEF Base, RoundTypes, FileTypes, JobTypes, QueueSorted, LockInv, HandInv,
              Labels, Taking, InHand, Ended, Local, Goto, At, disk
  <2>1. ASSUME NEW k \in Counts, Submit(k) PROVE Base'
    BY <2>1 DEF Submit
  <2>2. ASSUME OpenShards PROVE Base'
    BY <2>2 DEF OpenShards
  <2>3. ASSUME FillShards PROVE Base'
    BY <2>3 DEF FillShards, Dealt, Share
  <2>4. ASSUME CutShards PROVE Base'
    BY <2>4 DEF CutShards, Share
  <2>4r. ASSUME RejectSplit PROVE Base'
    BY <2>4r DEF RejectSplit, Dealt, Share
  <2>5. ASSUME BuildQueue PROVE Base'
    <3>1. /\ queue' \in Seq(Slots) /\ Len(queue') \in Nat
          /\ \A a, b \in 1 .. Len(queue') : a < b => queue'[a] < queue'[b]
      <4>1. Nonempty \in SUBSET Slots /\ IsFiniteSet(Nonempty)
        BY NonemptyFinite
      <4> QED BY <2>5, <4>1, ListingFacts DEF BuildQueue
    <3>2. index' \in 0 .. Len(queue')
      <4>1. index' = 0
        BY <2>5 DEF BuildQueue
      <4> QED BY <3>1, <4>1
    <3>5. lock' \in BOOLEAN
      BY <2>5 DEF BuildQueue
    <3>3. FileTypes' /\ QueueSorted'
      <4>1. FileTypes'
        BY <2>5, <3>1, <3>2, <3>5 DEF BuildQueue
      <4>2. QueueSorted'
        BY <3>1
      <4> QED BY <4>1, <4>2
    <3>4. JobTypes' /\ LockInv' /\ HandInv'
      BY <2>5 DEF BuildQueue
    <3> QED BY <3>3, <3>4
  <2>6. ASSUME NEW w \in Workers, Lock(w) PROVE Base'
    BY <2>6 DEF Lock
  <2>7. ASSUME NEW w \in Workers, Read(w) PROVE Base'
    BY <2>7 DEF Read
  <2>8. ASSUME NEW w \in Workers, Bump(w) PROVE Base'
    BY <2>8 DEF Bump
  <2>9. ASSUME NEW w \in Workers, Unlock(w) PROVE Base'
    <3>1. CASE place[w] = "leave"
      BY <2>9, <3>1 DEF Unlock
    <3>2. CASE place[w] = "unlock"
      <4>1. RoundTypes' /\ QueueSorted'
        BY <2>9, <3>2 DEF Unlock
      <4>2. LockInv'
        BY <2>9, <3>2 DEF Unlock
      <4>3. HandInv'
        BY <2>9, <3>2 DEF Unlock
      <4> QED BY <4>1, <4>2, <4>3
    <3> QED BY <2>9, <3>1, <3>2 DEF Unlock
  <2>10. ASSUME NEW w \in Workers, Pick(w) PROVE Base'
    <3>1. next[w] + 1 \in 1 .. Len(queue)
      BY <2>10 DEF Pick
    <3>2. files[Shard(w)] \in SUBSET Cands
      BY <3>1 DEF Shard
    <3>3. todo' \in [Workers -> SUBSET Cands]
      <4>1. todo \in [Workers -> SUBSET Cands]
        OBVIOUS
      <4>2. \/ todo' = todo
            \/ todo' = [todo EXCEPT ![w] = files[Shard(w)] \ (solved \cup Disabled)]
        BY <2>10 DEF Pick
      <4>3. files[Shard(w)] \ (solved \cup Disabled) \in SUBSET Cands
        BY <3>2
      <4> HIDE DEF Base, RoundTypes, FileTypes, JobTypes
      <4> QED BY <4>1, <4>2, <4>3
    <3>4. RoundTypes' /\ QueueSorted'
      BY <2>10, <3>3 DEF Pick
    <3>5. LockInv'
      BY <2>10 DEF Pick
    <3>6. HandInv'
      BY <2>10 DEF Pick
    <3> QED BY <3>4, <3>5, <3>6
  <2>11. ASSUME NEW w \in Workers, Sample(w) PROVE Base'
    BY <2>11 DEF Sample, Shard
  <2>10u. ASSUME NEW w \in Workers, Unreadable(w) PROVE Base'
    BY <2>10u DEF Unreadable
  <2>12. ASSUME NEW w \in Workers, MapOk(w) PROVE Base'
    BY <2>12, ZenonT(30) DEF MapOk, EndTask
  <2>13. ASSUME NEW w \in Workers, MapFails(w) PROVE Base'
    <3>1. FileTypes' /\ QueueSorted'
      BY <2>13 DEF MapFails, EndTask
    <3>4. JobTypes'
      BY <2>13 DEF MapFails, EndTask
    <3>2. LockInv'
      BY <2>13 DEF MapFails, EndTask
    <3>3. HandInv'
      BY <2>13 DEF MapFails, EndTask
    <3> QED BY <3>1, <3>2, <3>3, <3>4
  <2>14. ASSUME NEW w \in Workers, Touch(w) PROVE Base'
    BY <2>14 DEF Touch, Shard
  <2>15. ASSUME MapStageEnds PROVE Base'
    BY <2>15 DEF MapStageEnds
  <2>16. ASSUME ReduceStage PROVE Base'
    BY <2>16 DEF ReduceStage
  <2>17. ASSUME Kill PROVE Base'
    BY <2>17 DEF Kill
  <2>18. ASSUME NEW w \in Workers, Death(w) PROVE Base'
    BY <2>18 DEF Death
  <2>19. CASE UNCHANGED roundVars
    BY <2>19 DEF roundVars
  <2> QED
    BY <2>1, <2>2, <2>3, <2>4, <2>4r, <2>5, <2>6, <2>7, <2>8, <2>9, <2>10, <2>10u,
       <2>11, <2>12, <2>13, <2>14, <2>15, <2>16, <2>17, <2>18, <2>19
    DEF RoundNext, JobStep, Work
<1> QED BY <1>1, <1>2, PTL DEF RoundSpec

\* Distinct positions of the queue hold distinct shards.
LEMMA PositionsDiffer ==
  ASSUME Base, NEW a \in 1 .. Len(queue), NEW b \in 1 .. Len(queue), a # b
  PROVE  queue[a] # queue[b]
<1>1. a < b \/ b < a
  OBVIOUS
<1>2. queue[a] \in Nat /\ queue[b] \in Nat
  <2>1. queue[a] \in Slots /\ queue[b] \in Slots
    BY DEF Base, RoundTypes, FileTypes
  <2> QED BY <2>1, SlotsAreNumbers
<1> QED BY <1>1, <1>2 DEF Base, QueueSorted

LEMMA HandsDiffer == Base => TakenOnce
<1> SUFFICES ASSUME Base, job = "map", NEW v \in Workers, NEW w \in Workers,
                    v # w, place[v] \in InHand, place[w] \in InHand
             PROVE  Shard(v) # Shard(w)
  BY DEF Base, HandInv, TakenOnce
<1>1. next[v] + 1 \in 1 .. Len(queue) /\ next[w] + 1 \in 1 .. Len(queue)
  BY DEF Base, HandInv, RoundTypes, FileTypes, JobTypes
<1>2. next[v] + 1 # next[w] + 1
  BY DEF Base, HandInv, RoundTypes, JobTypes
<1> QED BY <1>1, <1>2, PositionsDiffer DEF Shard

\* Only a resumed job finds done markers, and a first job has only those of
\* the shards it handed out.
Fresh ==
  /\ ~sharded => done = {}
  /\ job \in {"fill", "queue", "map", "reduce"} => sharded
  /\ job = "open" => ~sharded /\ ~resuming
  /\ job = "fill" => done = {} /\ ~resuming
  /\ job = "queue" /\ ~resuming => done = {}
  /\ job = "map" /\ ~resuming => \A i \in done : \E p \in 1 .. index : queue[p] = i

\* A marked shard has an ok report and is in no worker's hands.
Honest ==
  /\ DoneMeansReported
  /\ job = "map" =>
       \A w \in Workers :
         /\ place[w] = "touch" => shardReports[Shard(w)] = "ok"
         /\ place[w] \in {"run", "touch"} => Shard(w) \notin done
         /\ place[w] \in InHand /\ ~resuming => Shard(w) \notin done

\* What was handed out is done or in hand, unless a worker failed.
Covered ==
  /\ job = "map" =>
       \A p \in 1 .. index :
         \/ queue[p] \in done
         \/ \E w \in Workers : place[w] \in InHand /\ next[w] + 1 = p
         \/ \E w \in Workers : place[w] \in {"failed", "dead"}
  /\ EndMeansDone

LEMMA FreshInduction == RoundSpec => []Fresh
<1>1. RoundInit => Fresh
  BY DEF RoundInit, Fresh
<1>2. Base /\ Fresh /\ [RoundNext]_roundVars => Fresh'
  <2> SUFFICES ASSUME Base, Fresh, [RoundNext]_roundVars PROVE Fresh'
    OBVIOUS
  <2> USE DEF Fresh, Local, Goto, At, disk
  <2>1. ASSUME NEW k \in Counts, Submit(k) PROVE Fresh'
    BY <2>1 DEF Submit
  <2>2. ASSUME OpenShards PROVE Fresh'
    BY <2>2 DEF OpenShards
  <2>3. ASSUME FillShards PROVE Fresh'
    BY <2>3 DEF FillShards, Dealt
  <2>4. ASSUME CutShards PROVE Fresh'
    BY <2>4 DEF CutShards
  <2>4r. ASSUME RejectSplit PROVE Fresh'
    BY <2>4r DEF RejectSplit, Dealt
  <2>5. ASSUME BuildQueue PROVE Fresh'
    BY <2>5 DEF BuildQueue
  <2>6. ASSUME NEW w \in Workers, Lock(w) PROVE Fresh'
    BY <2>6 DEF Lock
  <2>7. ASSUME NEW w \in Workers, Read(w) PROVE Fresh'
    BY <2>7 DEF Read
  <2>8. ASSUME NEW w \in Workers, Bump(w) PROVE Fresh'
    BY <2>8 DEF Bump, Base, LockInv, RoundTypes, FileTypes
  <2>9. ASSUME NEW w \in Workers, Unlock(w) PROVE Fresh'
    BY <2>9 DEF Unlock
  <2>10. ASSUME NEW w \in Workers, Pick(w) PROVE Fresh'
    BY <2>10 DEF Pick
  <2>10u. ASSUME NEW w \in Workers, Unreadable(w) PROVE Fresh'
    BY <2>10u DEF Unreadable
  <2>11. ASSUME NEW w \in Workers, Sample(w) PROVE Fresh'
    BY <2>11 DEF Sample
  <2>12. ASSUME NEW w \in Workers, MapOk(w) PROVE Fresh'
    BY <2>12 DEF MapOk, EndTask
  <2>13. ASSUME NEW w \in Workers, MapFails(w) PROVE Fresh'
    BY <2>13 DEF MapFails, EndTask
  <2>14. ASSUME NEW w \in Workers, Touch(w) PROVE Fresh'
    <3>1. next[w] + 1 \in 1 .. index
      BY <2>14 DEF Touch, Base, HandInv, InHand, RoundTypes, FileTypes, JobTypes
    <3>2. done' = done \cup {queue[next[w] + 1]}
      BY <2>14 DEF Touch, Shard
    <3>3. UNCHANGED <<sharded, job, resuming, queue, index>> /\ job = "map"
      BY <2>14 DEF Touch
    <3>4. ~sharded => done' = {}
      BY <2>14 DEF Touch
    <3> QED BY <3>1, <3>2, <3>3, <3>4
  <2>15. ASSUME MapStageEnds PROVE Fresh'
    BY <2>15 DEF MapStageEnds
  <2>16. ASSUME ReduceStage PROVE Fresh'
    BY <2>16 DEF ReduceStage
  <2>17. ASSUME Kill PROVE Fresh'
    BY <2>17 DEF Kill
  <2>18. ASSUME NEW w \in Workers, Death(w) PROVE Fresh'
    BY <2>18 DEF Death
  <2>19. CASE UNCHANGED roundVars
    BY <2>19 DEF roundVars
  <2> QED
    BY <2>1, <2>2, <2>3, <2>4, <2>4r, <2>5, <2>6, <2>7, <2>8, <2>9, <2>10, <2>10u,
       <2>11, <2>12, <2>13, <2>14, <2>15, <2>16, <2>17, <2>18, <2>19
    DEF RoundNext, JobStep, Work
<1> QED BY <1>1, <1>2, BaseInduction, PTL DEF RoundSpec

LEMMA HonestInduction == RoundSpec => []Honest
<1>1. RoundInit => Honest
  BY DEF RoundInit, Honest, DoneMeansReported
<1>2. Base /\ Fresh /\ Honest /\ [RoundNext]_roundVars => Honest'
  <2> SUFFICES ASSUME Base, Fresh, Honest, [RoundNext]_roundVars PROVE Honest'
    OBVIOUS
  <2> USE DEF Honest, DoneMeansReported, Local, Goto, At, disk, InHand, Shard
  <2>1. ASSUME NEW k \in Counts, Submit(k) PROVE Honest'
    BY <2>1 DEF Submit
  <2>2. ASSUME OpenShards PROVE Honest'
    BY <2>2 DEF OpenShards
  <2>3. ASSUME FillShards PROVE Honest'
    BY <2>3 DEF FillShards, Dealt
  <2>4. ASSUME CutShards PROVE Honest'
    BY <2>4 DEF CutShards
  <2>4r. ASSUME RejectSplit PROVE Honest'
    BY <2>4r DEF RejectSplit, Dealt
  <2>5. ASSUME BuildQueue PROVE Honest'
    BY <2>5 DEF BuildQueue
  <2>6. ASSUME NEW w \in Workers, Lock(w) PROVE Honest'
    BY <2>6 DEF Lock, Base, RoundTypes, JobTypes
  <2>7. ASSUME NEW w \in Workers, Read(w) PROVE Honest'
    BY <2>7 DEF Read, Base, RoundTypes, JobTypes
  <2>8. ASSUME NEW w \in Workers, Bump(w) PROVE Honest'
    <3>1. ~resuming => Shard(w) \notin done
      <4> SUFFICES ASSUME ~resuming, Shard(w) \in done PROVE FALSE
        OBVIOUS
      <4>1. PICK p \in 1 .. index : queue[p] = queue[next[w] + 1]
        BY <2>8 DEF Bump, Fresh
      <4>2. p \in 1 .. Len(queue) /\ next[w] + 1 \in 1 .. Len(queue) /\ p # next[w] + 1
        BY <2>8, <4>1 DEF Bump, Base, LockInv, RoundTypes, FileTypes
      <4> QED BY <4>1, <4>2, PositionsDiffer
    <3> QED BY <2>8, <3>1 DEF Bump, Base, RoundTypes, JobTypes
  <2>9. ASSUME NEW w \in Workers, Unlock(w) PROVE Honest'
    BY <2>9 DEF Unlock, Base, RoundTypes, JobTypes
  <2>10. ASSUME NEW w \in Workers, Pick(w) PROVE Honest'
    BY <2>10 DEF Pick, Base, RoundTypes, JobTypes
  <2>10u. ASSUME NEW w \in Workers, Unreadable(w) PROVE Honest'
    BY <2>10u DEF Unreadable, Base, RoundTypes, JobTypes
  <2>11. ASSUME NEW w \in Workers, Sample(w) PROVE Honest'
    BY <2>11 DEF Sample
  <2>12. ASSUME NEW w \in Workers, MapOk(w) PROVE Honest'
    <3>1. next[w] + 1 \in 1 .. Len(queue)
      BY <2>12 DEF MapOk, EndTask, Base, HandInv, RoundTypes, JobTypes, FileTypes
    <3>2. Shard(w) \in Slots
      BY <3>1 DEF Base, RoundTypes, FileTypes
    <3>3. \A i \in Slots : shardReports[i] = "ok" => shardReports'[i] = "ok"
      BY <2>12 DEF MapOk, EndTask, Base, RoundTypes, FileTypes
    <3>4. shardReports'[Shard(w)] = "ok"
      BY <2>12, <3>2 DEF MapOk, EndTask, Base, RoundTypes, FileTypes
    <3>5. \A v \in Workers : v # w => place'[v] = place[v]
      BY <2>12 DEF MapOk, EndTask, Base, RoundTypes, JobTypes
    <3>6. place'[w] = "touch" /\ place[w] = "run" /\ job = "map"
      BY <2>12 DEF MapOk, EndTask, Base, RoundTypes, JobTypes
    <3>7. \A v \in Workers : place[v] = "touch" => Shard(v) \in Slots
      BY <3>6 DEF Base, HandInv, RoundTypes, JobTypes, FileTypes
    <3>8. UNCHANGED <<queue, next, done, job, resuming>>
      BY <2>12 DEF MapOk, EndTask
    <3>9. DoneMeansReported'
      BY <3>3, <3>8 DEF Base, RoundTypes, FileTypes
    <3>10. \A v \in Workers : place'[v] = "touch" => shardReports'[Shard(v)] = "ok"
      BY <3>3, <3>4, <3>5, <3>6, <3>7
    <3> QED BY <3>5, <3>6, <3>8, <3>9, <3>10
  <2>13. ASSUME NEW w \in Workers, MapFails(w) PROVE Honest'
    <3>1. \A v \in Workers \ {w} : place[v] \in InHand => Shard(v) # Shard(w)
      BY <2>13, HandsDiffer DEF MapFails, EndTask, TakenOnce
    <3>2. Shard(w) \notin done
      BY <2>13 DEF MapFails, EndTask
    <3> QED BY <2>13, <3>1, <3>2 DEF MapFails, EndTask, Base, RoundTypes, JobTypes, FileTypes
  <2>14. ASSUME NEW w \in Workers, Touch(w) PROVE Honest'
    <3>1. \A v \in Workers \ {w} : place[v] \in InHand => Shard(v) # Shard(w)
      BY <2>14, HandsDiffer DEF Touch, TakenOnce
    <3> QED BY <2>14, <3>1 DEF Touch, Base, RoundTypes, JobTypes
  <2>15. ASSUME MapStageEnds PROVE Honest'
    BY <2>15 DEF MapStageEnds
  <2>16. ASSUME ReduceStage PROVE Honest'
    BY <2>16 DEF ReduceStage
  <2>17. ASSUME Kill PROVE Honest'
    BY <2>17 DEF Kill
  <2>18. ASSUME NEW w \in Workers, Death(w) PROVE Honest'
    BY <2>18 DEF Death, Base, RoundTypes, JobTypes
  <2>19. CASE UNCHANGED roundVars
    BY <2>19 DEF roundVars
  <2> QED
    BY <2>1, <2>2, <2>3, <2>4, <2>4r, <2>5, <2>6, <2>7, <2>8, <2>9, <2>10, <2>10u,
       <2>11, <2>12, <2>13, <2>14, <2>15, <2>16, <2>17, <2>18, <2>19
    DEF RoundNext, JobStep, Work
<1> QED BY <1>1, <1>2, BaseInduction, FreshInduction, PTL DEF RoundSpec

LEMMA CoveredInduction == RoundSpec => []Covered
<1>1. RoundInit => Covered
  BY DEF RoundInit, Covered, EndMeansDone
<1>2. Base /\ Covered /\ [RoundNext]_roundVars => Covered'
  <2> SUFFICES ASSUME Base, Covered, [RoundNext]_roundVars PROVE Covered'
    OBVIOUS
  <2> USE DEF Covered, EndMeansDone, Listed, Local, Goto, At, disk, InHand
  <2>1. ASSUME NEW k \in Counts, Submit(k) PROVE Covered'
    BY <2>1 DEF Submit
  <2>2. ASSUME OpenShards PROVE Covered'
    BY <2>2 DEF OpenShards
  <2>3. ASSUME FillShards PROVE Covered'
    BY <2>3 DEF FillShards, Dealt
  <2>4. ASSUME CutShards PROVE Covered'
    BY <2>4 DEF CutShards
  <2>4r. ASSUME RejectSplit PROVE Covered'
    BY <2>4r DEF RejectSplit, Dealt
  <2>5. ASSUME BuildQueue PROVE Covered'
    BY <2>5 DEF BuildQueue
  <2>6. ASSUME NEW w \in Workers, Lock(w) PROVE Covered'
    BY <2>6 DEF Lock, Base, RoundTypes, JobTypes
  <2>7. ASSUME NEW w \in Workers, Read(w) PROVE Covered'
    BY <2>7 DEF Read, Base, RoundTypes, JobTypes
  <2>8. ASSUME NEW w \in Workers, Bump(w) PROVE Covered'
    <3>1. /\ index' = index + 1 /\ next[w] = index /\ index \in Nat
          /\ place[w] = "bump" /\ place'[w] = "unlock" /\ job = "map"
          /\ \A v \in Workers : v # w => place'[v] = place[v]
          /\ UNCHANGED <<queue, next, done, job>>
      BY <2>8 DEF Bump, Base, LockInv, RoundTypes, JobTypes, FileTypes
    <3>2. ASSUME NEW p \in 1 .. index'
          PROVE  \/ queue[p] \in done
                 \/ \E v \in Workers : place'[v] \in InHand /\ next[v] + 1 = p
                 \/ \E v \in Workers : place'[v] \in {"failed", "dead"}
      <4>1. CASE p = index + 1
        BY <3>1, <4>1
      <4>2. CASE p # index + 1
        <5>1. p \in 1 .. index
          BY <3>1, <4>2
        <5>2. CASE \E v \in Workers : place[v] \in InHand /\ next[v] + 1 = p
          BY <3>1, <5>2
        <5>3. CASE \E v \in Workers : place[v] \in {"failed", "dead"}
          BY <3>1, <5>3
        <5> QED BY <3>1, <5>1, <5>2, <5>3
      <4> QED BY <4>1, <4>2
    <3> QED BY <3>1, <3>2
  <2>9. ASSUME NEW w \in Workers, Unlock(w) PROVE Covered'
    BY <2>9 DEF Unlock, Base, RoundTypes, JobTypes
  <2>10. ASSUME NEW w \in Workers, Pick(w) PROVE Covered'
    BY <2>10 DEF Pick, Shard, Base, RoundTypes, JobTypes
  <2>10u. ASSUME NEW w \in Workers, Unreadable(w) PROVE Covered'
    BY <2>10u DEF Unreadable, Base, RoundTypes, JobTypes
  <2>11. ASSUME NEW w \in Workers, Sample(w) PROVE Covered'
    BY <2>11 DEF Sample
  <2>12. ASSUME NEW w \in Workers, MapOk(w) PROVE Covered'
    BY <2>12 DEF MapOk, EndTask, Base, RoundTypes, JobTypes
  <2>13. ASSUME NEW w \in Workers, MapFails(w) PROVE Covered'
    BY <2>13 DEF MapFails, EndTask, Base, RoundTypes, JobTypes
  <2>14. ASSUME NEW w \in Workers, Touch(w) PROVE Covered'
    BY <2>14 DEF Touch, Shard, Base, RoundTypes, JobTypes
  <2>15. ASSUME MapStageEnds PROVE Covered'
    <3>1. CASE \A w \in Workers : place[w] = "exit"
      <4>1. index = Len(queue)
        BY <2>15, <3>1, WorkersAssumption DEF MapStageEnds, Base, LockInv
      <4>2. \A p \in 1 .. Len(queue) : queue[p] \in done
        BY <2>15, <3>1, <4>1 DEF MapStageEnds
      <4>3. DOMAIN queue = 1 .. Len(queue)
        BY DEF Base, RoundTypes, FileTypes
      <4> QED BY <2>15, <3>1, <4>2, <4>3 DEF MapStageEnds
    <3> QED BY <2>15, <3>1 DEF MapStageEnds
  <2>16. ASSUME ReduceStage PROVE Covered'
    BY <2>16 DEF ReduceStage
  <2>17. ASSUME Kill PROVE Covered'
    BY <2>17 DEF Kill
  <2>18. ASSUME NEW w \in Workers, Death(w) PROVE Covered'
    BY <2>18 DEF Death, Base, RoundTypes, JobTypes
  <2>19. CASE UNCHANGED roundVars
    BY <2>19 DEF roundVars
  <2> QED
    BY <2>1, <2>2, <2>3, <2>4, <2>4r, <2>5, <2>6, <2>7, <2>8, <2>9, <2>10, <2>10u,
       <2>11, <2>12, <2>13, <2>14, <2>15, <2>16, <2>17, <2>18, <2>19
    DEF RoundNext, JobStep, Work
<1> QED BY <1>1, <1>2, BaseInduction, PTL DEF RoundSpec

\* Fewer failures among more candidates are tolerated as well.
LEMMA ProductsGrow ==
  ASSUME NEW a \in Nat, NEW b \in Nat, NEW k \in Nat, a <= b
  PROVE  a * k <= b * k /\ k * a <= k * b
<1>1. PICK d \in Nat : b = a + d
  <2>1. b - a \in Nat /\ b = a + (b - a)
    OBVIOUS
  <2> QED BY <2>1
<1>2. b * k = a * k + d * k /\ k * b = k * a + k * d
  BY <1>1
<1>3. d * k \in Nat /\ k * d \in Nat /\ a * k \in Nat /\ k * a \in Nat
  OBVIOUS
<1> QED BY <1>2, <1>3

LEMMA TolerationMonotone ==
  ASSUME NEW F \in SUBSET Cands, NEW G \in SUBSET Cands, NEW T \in SUBSET Cands,
         NEW U \in SUBSET Cands, F \subseteq G, T \subseteq U, Tolerated(G, T)
  PROVE  Tolerated(F, U)
<1>1. IsFiniteSet(Cands)
  BY SelectionAssumption, FS_Interval DEF Cands
<1>2. IsFiniteSet(G) /\ IsFiniteSet(U) /\ IsFiniteSet(F) /\ IsFiniteSet(T)
  BY <1>1, FS_Subset
<1>3. /\ Cardinality(F) \in Nat /\ Cardinality(G) \in Nat /\ Cardinality(T) \in Nat
      /\ Cardinality(U) \in Nat
  BY <1>2, FS_CardinalityType
<1>4. Cardinality(F) <= Cardinality(G) /\ Cardinality(T) <= Cardinality(U)
  BY <1>2, FS_Subset
<1>5. /\ Cardinality(F) * MaxDen <= Cardinality(G) * MaxDen
      /\ MaxNum * Cardinality(T) <= MaxNum * Cardinality(U)
  BY <1>3, <1>4, ProductsGrow, FractionAssumption
<1>6. Cardinality(G) * MaxDen <= MaxNum * Cardinality(T)
  BY DEF Tolerated
<1>7. /\ Cardinality(F) * MaxDen \in Nat /\ Cardinality(G) * MaxDen \in Nat
      /\ MaxNum * Cardinality(T) \in Nat /\ MaxNum * Cardinality(U) \in Nat
  BY <1>3, FractionAssumption
<1> QED BY <1>5, <1>6, <1>7 DEF Tolerated

\* What a map task took up is due, and all that is due and not taken up has a
\* record.
TookUp == job = "map" =>
            \A w \in Workers :
              place[w] = "run" => /\ todo[w] \subseteq Due(Shard(w))
                                  /\ Due(Shard(w)) \ solved \subseteq todo[w]

\* Shard files are written before there are reports, and an ok report says
\* that its shard file was read and misses few records; the round is left alone
\* once it is ok.
Settled ==
  /\ ~sharded \/ job = "fill" => \A i \in Slots : shardReports[i] = "absent"
  /\ job \in {"fill", "queue", "map", "reduce"} => sharded
  /\ job = "open" => ~sharded
  /\ \A i \in Slots : shardReports[i] = "ok" => i \notin broken /\ FewMissing(i)
  /\ roundMarker = "ok" => job = "off"
  /\ OkMeansListedRun

LEMMA TookUpInduction == RoundSpec => []TookUp
<1>1. RoundInit => TookUp
  BY DEF RoundInit, TookUp
<1>2. Base /\ TookUp /\ [RoundNext]_roundVars => TookUp'
  <2> SUFFICES ASSUME Base, TookUp, [RoundNext]_roundVars PROVE TookUp'
    OBVIOUS
  <2> USE DEF TookUp, Due, Shard, Local, Goto, At, disk
  <2>0. place \in [Workers -> Labels] /\ todo \in [Workers -> SUBSET Cands]
    BY DEF Base, RoundTypes, JobTypes
  <2>1. ASSUME NEW k \in Counts, Submit(k) PROVE TookUp'
    BY <2>1 DEF Submit
  <2>2. ASSUME OpenShards \/ FillShards \/ RejectSplit \/ CutShards \/ MapStageEnds
                 \/ ReduceStage \/ Kill
        PROVE  TookUp'
    BY <2>2 DEF OpenShards, FillShards, RejectSplit, CutShards, MapStageEnds, ReduceStage, Kill
  <2>3. ASSUME BuildQueue PROVE TookUp'
    BY <2>3 DEF BuildQueue
  <2>4. ASSUME NEW w \in Workers, Lock(w) \/ Read(w) \/ Bump(w) \/ Unlock(w) \/ Touch(w)
        PROVE  TookUp'
    <3>1. UNCHANGED <<queue, files, solved, todo, job>> /\ place'[w] # "run"
      BY <2>0, <2>4 DEF Lock, Read, Bump, Unlock, Touch
    <3>2. \A v \in Workers \ {w} : place'[v] = place[v] /\ next'[v] = next[v]
      BY <2>0, <2>4 DEF Lock, Read, Bump, Unlock, Touch, Base, RoundTypes, JobTypes
    <3> QED BY <3>1, <3>2
  <2>5. ASSUME NEW w \in Workers, Pick(w) PROVE TookUp'
    BY <2>0, <2>5 DEF Pick
  <2>6. ASSUME NEW w \in Workers, Sample(w) PROVE TookUp'
    BY <2>6 DEF Sample
  <2>7. ASSUME NEW w \in Workers,
               Unreadable(w) \/ MapOk(w) \/ MapFails(w) \/ Death(w)
        PROVE  TookUp'
    <3>1. UNCHANGED <<queue, files, solved, next, job>> /\ place'[w] # "run"
      BY <2>0, <2>7 DEF Unreadable, MapOk, MapFails, Death, EndTask
    <3>2. \A v \in Workers \ {w} : place'[v] = place[v] /\ todo'[v] = todo[v]
      BY <2>0, <2>7 DEF Unreadable, MapOk, MapFails, Death, EndTask
    <3> QED BY <3>1, <3>2
  <2>8. CASE UNCHANGED roundVars
    BY <2>8 DEF roundVars
  <2> QED
    BY <2>1, <2>2, <2>3, <2>4, <2>5, <2>6, <2>7, <2>8 DEF RoundNext, JobStep, Work
<1> QED BY <1>1, <1>2, BaseInduction, PTL DEF RoundSpec

LEMMA SettledInduction == RoundSpec => []Settled
<1>1. RoundInit => Settled
  BY DEF RoundInit, Settled, OkMeansListedRun
<1>2. Base /\ TookUp /\ Settled /\ [RoundNext]_roundVars => Settled'
  <2> SUFFICES ASSUME Base, TookUp, Settled, [RoundNext]_roundVars PROVE Settled'
    OBVIOUS
  <2> USE DEF Settled, OkMeansListedRun, FewMissing, Due, Listed, Local, Goto, At, disk
  <2>1. ASSUME NEW k \in Counts, Submit(k) PROVE Settled'
    BY <2>1 DEF Submit
  <2>2. ASSUME OpenShards PROVE Settled'
    BY <2>2 DEF OpenShards
  <2>3. ASSUME FillShards PROVE Settled'
    BY <2>3 DEF FillShards, Dealt
  <2>4. ASSUME CutShards PROVE Settled'
    BY <2>4 DEF CutShards
  <2>4r. ASSUME RejectSplit PROVE Settled'
    BY <2>4r DEF RejectSplit, Dealt
  <2>5. ASSUME BuildQueue PROVE Settled'
    BY <2>5 DEF BuildQueue
  <2>6. ASSUME NEW w \in Workers, Lock(w) \/ Read(w) \/ Bump(w) \/ Unlock(w) \/ Pick(w)
                                     \/ Unreadable(w)
        PROVE  Settled'
    BY <2>6 DEF Lock, Read, Bump, Unlock, Pick, Unreadable
  <2>7. ASSUME NEW w \in Workers, Sample(w) PROVE Settled'
    <3>1. ASSUME NEW i \in Slots, FewMissing(i) PROVE FewMissing(i)'
      <4>1. /\ files[i] \in SUBSET Cands /\ UNCHANGED files /\ solved \subseteq solved'
            /\ Due(i)' = Due(i)
        BY <2>7 DEF Sample, Base, RoundTypes, FileTypes
      <4>2. Due(i) \in SUBSET Cands /\ Due(i) \ solved' \subseteq Due(i) \ solved
        BY <4>1
      <4> HIDE DEF Due
      <4>3. Tolerated(Due(i) \ solved', Due(i))
        BY <3>1, <4>2, TolerationMonotone
      <4> QED BY <4>1, <4>3 DEF Tolerated
    <3>2. UNCHANGED <<sharded, job, shardReports, broken, roundMarker, queue>> /\ job = "map"
      BY <2>7 DEF Sample
    <3> QED BY <3>1, <3>2
  <2>8. ASSUME NEW w \in Workers, MapOk(w) PROVE Settled'
    <3>1. next[w] + 1 \in 1 .. Len(queue)
      BY <2>8 DEF MapOk, Base, HandInv, InHand, RoundTypes, JobTypes, FileTypes
    <3>2. Shard(w) \in Slots
      BY <3>1 DEF Shard, Base, RoundTypes, FileTypes
    <3>3. todo[w] \subseteq Due(Shard(w)) /\ Due(Shard(w)) \ solved \subseteq todo[w] \ solved
      BY <2>8 DEF MapOk, TookUp
    <3>4. Due(Shard(w)) \in SUBSET Cands
      BY <3>2 DEF Base, RoundTypes, FileTypes
    <3>5. FewMissing(Shard(w))
      <4> HIDE DEF Due
      <4>1. Tolerated(todo[w] \ solved, todo[w])
        BY <2>8 DEF MapOk
      <4>2. todo[w] \ solved \in SUBSET Cands /\ todo[w] \in SUBSET Cands
        BY <3>3, <3>4
      <4>3. Due(Shard(w)) \ solved \in SUBSET Cands
        BY <3>4
      <4> QED BY <3>3, <3>4, <4>1, <4>2, <4>3, TolerationMonotone
    <3>6. /\ UNCHANGED <<sharded, job, files, solved, broken, roundMarker, queue>>
          /\ job = "map" /\ Shard(w) \notin broken
          /\ shardReports' = [shardReports EXCEPT ![Shard(w)] = "ok"]
      BY <2>8 DEF MapOk, EndTask
    <3>7. \A i \in Slots : FewMissing(i)' <=> FewMissing(i)
      BY <3>6 DEF Tolerated
    <3> HIDE DEF FewMissing, Due, OkMeansListedRun
    <3>8. \A i \in Slots : shardReports'[i] = "ok" => i \notin broken' /\ FewMissing(i)'
      <4> SUFFICES ASSUME NEW i \in Slots, shardReports'[i] = "ok"
                   PROVE  i \notin broken' /\ FewMissing(i)'
        OBVIOUS
      <4>1. i = Shard(w) \/ shardReports[i] = "ok"
        BY <3>6 DEF Base, RoundTypes, FileTypes
      <4> QED BY <3>5, <3>6, <3>7, <4>1
    <3>9. roundMarker' # "ok" /\ OkMeansListedRun'
      BY <3>6 DEF OkMeansListedRun
    <3> QED BY <3>6, <3>8, <3>9
  <2>9. ASSUME NEW w \in Workers, MapFails(w) PROVE Settled'
    <3>1. /\ UNCHANGED <<sharded, job, files, solved, broken, roundMarker, queue>>
          /\ job = "map"
          /\ shardReports' = [shardReports EXCEPT ![Shard(w)] = "failed"]
      BY <2>9 DEF MapFails, EndTask
    <3>2. \A i \in Slots : FewMissing(i)' <=> FewMissing(i)
      BY <3>1 DEF Tolerated
    <3>3. \A i \in Slots : shardReports'[i] = "ok" => shardReports[i] = "ok"
      BY <3>1 DEF Base, RoundTypes, FileTypes
    <3> QED BY <3>1, <3>2, <3>3
  <2>10. ASSUME NEW w \in Workers, Touch(w) PROVE Settled'
    BY <2>10 DEF Touch
  <2>11. ASSUME MapStageEnds \/ Kill PROVE Settled'
    BY <2>11 DEF MapStageEnds, Kill
  <2>12. ASSUME ReduceStage PROVE Settled'
    <3>1. \A i \in Listed : i \in Slots
      BY DEF Base, RoundTypes, FileTypes
    <3> QED BY <2>12, <3>1 DEF ReduceStage
  <2>13. ASSUME NEW w \in Workers, Death(w) PROVE Settled'
    BY <2>13 DEF Death
  <2>14. CASE UNCHANGED roundVars
    BY <2>14 DEF roundVars
  <2> QED
    BY <2>1, <2>2, <2>3, <2>4, <2>4r, <2>5, <2>6, <2>7, <2>8, <2>9, <2>10, <2>11,
       <2>12, <2>13, <2>14
    DEF RoundNext, JobStep, Work
<1> QED BY <1>1, <1>2, BaseInduction, TookUpInduction, PTL DEF RoundSpec

\* Every variable keeps its type, for any selection, counts and workers.
THEOREM RoundKeepsTypes == RoundSpec => []RoundTypes
<1>1. Base => RoundTypes
  BY DEF Base
<1> QED BY <1>1, BaseInduction, PTL

\* The lock and the index file give no shard to two workers, wherever jobs
\* and workers are killed.
THEOREM ShardsTakenOnce == RoundSpec => []TakenOnce
BY HandsDiffer, BaseInduction, PTL

\* The done markers are true: each marked shard has an ok report.
THEOREM DoneMarkersTrue == RoundSpec => []DoneMeansReported
<1>1. Honest => DoneMeansReported
  BY DEF Honest
<1> QED BY <1>1, HonestInduction, PTL

\* No worker runs a shard that is marked done.
THEOREM DoneShardsRest == RoundSpec => []NoDoneShardRuns
<1>1. Honest => NoDoneShardRuns
  BY DEF Honest, NoDoneShardRuns, At
<1> QED BY <1>1, HonestInduction, PTL

\* The reduce stage starts only when all that is queued is done.
THEOREM ReduceAfterAll == RoundSpec => []EndMeansDone
<1>1. Covered => EndMeansDone
  BY DEF Covered
<1> QED BY <1>1, CoveredInduction, PTL

\* An ok round has read every shard it listed and misses at most the tolerated
\* share of its records, whatever tasks, jobs and splits ended early before.
THEOREM OkRoundRun == RoundSpec => []OkMeansListedRun
<1>1. Settled => OkMeansListedRun
  BY DEF Settled
<1> QED BY <1>1, SettledInduction, PTL

\* All that the workers do together, as the run checks it.
THEOREM RoundIsSound == RoundSpec => []RoundSound
BY RoundKeepsTypes, ShardsTakenOnce, DoneMarkersTrue, ReduceAfterAll, DoneShardsRest,
   OkRoundRun, PTL DEF RoundSound

\* A split that reached its manifest holds the selection, and while a job is
\* mapping or reducing, its queue lists the shards it counts.
Split ==
  /\ manifest # 0 => /\ sharded /\ job \notin {"open", "fill"}
                     /\ \A c \in Cands : \E i \in Slots : i < manifest /\ c \in files[i]
  /\ job \in {"map", "reduce"} => Nonempty \subseteq Listed
  /\ job # "off" => count \in Counts
  /\ OkMeansCovered

\* Dealing round-robin leaves no candidate out.
LEMMA DealtOut ==
  ASSUME NEW c \in Cands, count \in Counts
  PROVE  \E i \in Slots : i < count /\ c \in Share(i)
<1>1. count \in Nat /\ count > 0 /\ c \in Nat
  BY CountsAssumption, SelectionAssumption DEF Cands
<1>2. c % count \in 0 .. count - 1
  BY <1>1
<1>3. c % count \in Slots
  BY <1>2 DEF Slots
<1>4. c % count < count /\ c \in Share(c % count)
  BY <1>1, <1>2 DEF Share
<1> QED BY <1>3, <1>4

LEMMA SplitInduction == RoundSpec => []Split
<1>1. RoundInit => Split
  BY DEF RoundInit, Split, OkMeansCovered
<1>2. Base /\ Settled /\ Split /\ [RoundNext]_roundVars => Split'
  <2> SUFFICES ASSUME Base, Settled, Split, [RoundNext]_roundVars PROVE Split'
    OBVIOUS
  <2> USE DEF Split, OkMeansCovered, FewMissing, Due, Listed, Nonempty, Local, Goto, At, disk
  <2>1. ASSUME NEW k \in Counts, Submit(k) PROVE Split'
    BY <2>1 DEF Submit, Settled
  <2>2. ASSUME OpenShards PROVE Split'
    BY <2>2 DEF OpenShards, Settled
  <2>3. ASSUME FillShards PROVE Split'
    <3>1. \A c \in Cands : \E i \in Slots : i < manifest' /\ c \in files'[i]
      BY <2>3, DealtOut DEF FillShards, Dealt, Base, RoundTypes, FileTypes
    <3> QED BY <2>3, <3>1 DEF FillShards, Settled
  <2>4. ASSUME RejectSplit \/ CutShards PROVE Split'
    BY <2>4 DEF RejectSplit, CutShards, Settled
  <2>5. ASSUME BuildQueue PROVE Split'
    <3>1. Nonempty \subseteq Listed'
      <4>1. Nonempty \in SUBSET Slots /\ IsFiniteSet(Nonempty)
        BY NonemptyFinite, CountsAssumption, <2>5 DEF BuildQueue, Split
      <4>2. queue' \in Listings(Nonempty)
        BY <2>5 DEF BuildQueue
      <4>3. \A i \in Nonempty : \E n \in 1 .. Len(queue') : queue'[n] = i
        BY <4>1, <4>2, ListingCovers
      <4>4. DOMAIN queue' = 1 .. Len(queue')
        BY <4>1, <4>2, ListingFacts
      <4> QED BY <4>3, <4>4
    <3> QED BY <2>5, <3>1 DEF BuildQueue, Settled
  <2>6. ASSUME NEW w \in Workers,
               Lock(w) \/ Read(w) \/ Bump(w) \/ Unlock(w) \/ Pick(w) \/ MapOk(w)
                 \/ MapFails(w) \/ Touch(w) \/ Unreadable(w)
        PROVE  Split'
    BY <2>6 DEF Lock, Read, Bump, Unlock, Pick, MapOk, MapFails, EndTask, Touch, Unreadable,
                Settled
  <2>7. ASSUME NEW w \in Workers, Sample(w) PROVE Split'
    BY <2>7 DEF Sample, Settled
  <2>8. ASSUME MapStageEnds \/ Kill PROVE Split'
    BY <2>8 DEF MapStageEnds, Kill, Settled
  <2>9. ASSUME ReduceStage PROVE Split'
    <3>1. ASSUME roundMarker' = "ok", manifest # 0, manifest <= count, NEW c \in Cands
          PROVE  \E i \in Listed : c \in files[i] /\ shardReports[i] = "ok" /\ FewMissing(i)
      <4>0. \A d \in Cands : \E i \in Slots : i < manifest /\ d \in files[i]
        BY <3>1
      <4>1. PICK i \in Slots : i < manifest /\ c \in files[i]
        BY <4>0
      <4>n. manifest \in Nat /\ count \in Nat
        BY CountsAssumption DEF Base, RoundTypes, FileTypes, JobTypes
      <4>i. i \in Nat
        BY SlotsAreNumbers
      <4>2. i < count
        BY <3>1, <4>1, <4>n, <4>i
      <4>3. i \in Listed
        BY <2>9, <4>1, <4>2 DEF ReduceStage
      <4>4. shardReports[i] = "ok"
        BY <2>9, <3>1, <4>3 DEF ReduceStage
      <4> QED BY <4>1, <4>3, <4>4 DEF Settled
    <3>2. OkMeansCovered'
      <4>1. UNCHANGED <<manifest, count, solved, files, shardReports, queue>>
        BY <2>9 DEF ReduceStage
      <4> QED BY <3>1, <4>1 DEF Tolerated
    <3> QED BY <2>9, <3>2 DEF ReduceStage
  <2>10. ASSUME NEW w \in Workers, Death(w) PROVE Split'
    BY <2>10 DEF Death, Settled
  <2>11. CASE UNCHANGED roundVars
    BY <2>11 DEF roundVars
  <2> QED
    BY <2>1, <2>2, <2>3, <2>4, <2>5, <2>6, <2>7, <2>8, <2>9, <2>10, <2>11
    DEF RoundNext, JobStep, Work
<1> QED BY <1>1, <1>2, BaseInduction, SettledInduction, PTL DEF RoundSpec

\* An ok round has taken up the whole selection, each shard with at most the
\* tolerated share of records missing, if the split was written to its end and
\* the job that reduced counted all its shards.
THEOREM OkRoundCovers == RoundSpec => []OkMeansCovered
<1>1. Split => OkMeansCovered
  BY DEF Split
<1> QED BY <1>1, SplitInduction, PTL

\* The state of the pool the queue stands for.
Hands == [w \in Workers |->
            IF job = "map" /\ place[w] \in InHand THEN next[w] + 1 ELSE 0]

\* The queue implements the pool: taking a shard is atomic.
THEOREM QueueImplementsPool == RoundSpec => ImplementsPool
<1>1. RoundInit => Pool!Init
  BY DEF RoundInit, Pool!Init, Pool!Free
<1>2. Base /\ Base' /\ [RoundNext]_roundVars => [Pool!Next]_<<index, Len(queue), Hands>>
  <2> SUFFICES ASSUME Base, Base', [RoundNext]_roundVars
               PROVE  [Pool!Next]_<<index, Len(queue), Hands>>
    OBVIOUS
  <2> USE DEF Hands, Local, Goto, At, disk, InHand
  <2>0. /\ Len(queue) \in Nat /\ index \in 0 .. Len(queue)
        /\ place \in [Workers -> Labels] /\ next \in [Workers -> Nat]
    BY DEF Base, RoundTypes, FileTypes, JobTypes
  <2>1. ASSUME NEW k \in Counts, Submit(k)
        PROVE  UNCHANGED <<index, Len(queue), Hands>>
    BY <2>1 DEF Submit
  <2>2. ASSUME OpenShards \/ FillShards \/ RejectSplit \/ CutShards \/ ReduceStage
        PROVE  UNCHANGED <<index, Len(queue), Hands>>
    BY <2>2 DEF OpenShards, FillShards, RejectSplit, CutShards, ReduceStage
  <2>3. ASSUME BuildQueue, Base' PROVE Pool!Start
    <3>1. Len(queue') \in Nat /\ index' = 0
      BY <2>3 DEF BuildQueue, Base, RoundTypes, FileTypes
    <3>2. Hands' = Pool!Free
      BY <2>3 DEF BuildQueue, Pool!Free
    <3> QED BY <3>1, <3>2 DEF Pool!Start, Hands
  <2>4. ASSUME NEW w \in Workers,
               Lock(w) \/ Read(w) \/ Unlock(w) \/ Sample(w) \/ MapOk(w)
        PROVE  UNCHANGED <<index, Len(queue), Hands>>
    BY <2>0, <2>4 DEF Lock, Read, Unlock, Sample, MapOk, EndTask
  <2>5. ASSUME NEW w \in Workers, Bump(w) PROVE Pool!Take(w)
    BY <2>0, <2>5 DEF Bump, Pool!Take, Base, LockInv
  <2>6. ASSUME NEW w \in Workers, Pick(w)
        PROVE  Pool!Return(w) \/ UNCHANGED <<index, Len(queue), Hands>>
    BY <2>0, <2>6 DEF Pick, Pool!Return
  <2>7. ASSUME NEW w \in Workers, MapFails(w) \/ Unreadable(w) \/ Touch(w)
        PROVE  Pool!Return(w)
    <3>1. place[w] \in {"run", "touch"} /\ place'[w] \in {"failed", "want"} /\ job = "map"
      BY <2>0, <2>7 DEF MapFails, Unreadable, EndTask, Touch
    <3>2. \A v \in Workers : v # w => place'[v] = place[v]
      BY <2>0, <2>7 DEF MapFails, Unreadable, EndTask, Touch
    <3>3. UNCHANGED <<job, next, index, queue>>
      BY <2>7 DEF MapFails, Unreadable, EndTask, Touch
    <3>4. Hands[w] # 0
      BY <2>0, <3>1
    <3>5. Hands' = [Hands EXCEPT ![w] = 0]
      BY <2>0, <3>1, <3>2, <3>3
    <3> QED BY <3>3, <3>4, <3>5 DEF Pool!Return
  <2>8. ASSUME MapStageEnds PROVE UNCHANGED <<index, Len(queue), Hands>>
    BY <2>8 DEF MapStageEnds, Ended
  <2>9. ASSUME Kill PROVE Pool!Stop
    BY <2>9 DEF Kill, Pool!Stop, Pool!Free
  <2>10. ASSUME NEW w \in Workers, Death(w)
         PROVE  Pool!Return(w) \/ UNCHANGED <<index, Len(queue), Hands>>
    BY <2>0, <2>10 DEF Death, Pool!Return
  <2>11. CASE UNCHANGED roundVars
    BY <2>11 DEF roundVars
  <2> QED
    BY <2>1, <2>2, <2>3, <2>4, <2>5, <2>6, <2>7, <2>8, <2>9, <2>10, <2>11
    DEF RoundNext, JobStep, Work, Pool!Next
<1> QED BY <1>1, <1>2, BaseInduction, PTL DEF RoundSpec, ImplementsPool, Pool!Spec, Hands
-----------------------------------------------------------------------------
(***************************************************************************)
(* The reduce stage.                                                       *)
(***************************************************************************)
\* What a state dictionary satisfies, in memory and in the checkpoint: the
\* index counts what was merged, and at most the next shard is to blame.
Coherent(st) == /\ CountsOnce(st)
                /\ st.next <= st.length
                /\ st.missing \cup st.invalid \subseteq {st.next + 1}
                /\ st.missing \cup st.invalid # {} => st.next < st.length

Running == pc \in {"walk", "publish", "clean"} =>
             Coherent(state) /\ state.length = length
Blocked == pc = "publish" => state.missing \cup state.invalid # {}
Saved == saved # Absent => Coherent(saved)
Inv == TypeOK /\ Running /\ Blocked /\ Saved /\ MarkerHonest

\* The initial dictionary is coherent.
LEMMA InitialCoherent ==
  ASSUME NEW n \in 0 .. N
  PROVE  InitialState(n) \in States /\ Coherent(InitialState(n))
BY LengthsAssumption DEF InitialState, Dict, States, Coherent, CountsOnce

\* Blaming the current shard keeps the dictionary coherent.
LEMMA BlameCoherent ==
  ASSUME NEW st \in States, Coherent(st), st.next < st.length,
         NEW a \in SUBSET {st.next + 1}, NEW b \in SUBSET {st.next + 1}
  PROVE  LET new == Dict(st.length, st.next, st.merged, a, b)
         IN  new \in States /\ Coherent(new) /\ new.length = st.length
BY LengthsAssumption DEF States, Coherent, CountsOnce, Shards, Dict

\* Merging a report keeps the dictionary coherent.
LEMMA MergeCoherent ==
  ASSUME NEW st \in States, Coherent(st), st.next < st.length, NEW r \in OkReports
  PROVE  LET new == Dict(st.length, st.next + 1, Append(st.merged, r), {}, {})
         IN  new \in States /\ Coherent(new) /\ new.length = st.length
<1>1. Append(st.merged, r) \in Seq(OkReports) /\ Len(Append(st.merged, r)) = Len(st.merged) + 1
  BY DEF States
<1> QED BY <1>1, LengthsAssumption DEF States, Coherent, CountsOnce, Shards, Dict

THEOREM Induction == Spec => []Inv
<1> USE LengthsAssumption
<1>1. Init => Inv
  BY InitialCoherent, CrashAssumption
  DEF Init, Inv, TypeOK, Running, Blocked, Saved, MarkerHonest, Reports, Absent
<1>2. Inv /\ [Next]_vars => Inv'
  <2> SUFFICES ASSUME Inv, [Next]_vars PROVE Inv'
    OBVIOUS
  <2> USE DEF Inv
  <2>1. ASSUME NEW s \in Shards, NEW r \in Reports \ {"absent"}, Report(s, r)
        PROVE  Inv'
    BY <2>1 DEF Report, TypeOK, Running, Blocked, Saved, MarkerHonest
  <2>2. ASSUME NEW n \in Lengths, NEW force \in BOOLEAN, Start(n, force)
        PROVE  Inv'
    BY <2>2 DEF Start, TypeOK, Running, Blocked, Saved, MarkerHonest, Absent
  <2>3. ASSUME Load PROVE Inv'
    <3>1. CASE saved = Absent
      <4>1. state' = InitialState(length) /\ InitialState(length) \in States
            /\ Coherent(InitialState(length)) /\ InitialState(length).length = length
        BY <2>3, <3>1, InitialCoherent DEF Load, TypeOK, InitialState, Dict
      <4> QED BY <2>3, <3>1, <4>1 DEF Load, TypeOK, Running, Blocked, Saved, MarkerHonest
    <3>2. CASE saved # Absent
      BY <2>3, <3>2 DEF Load, TypeOK, Running, Blocked, Saved, MarkerHonest
    <3> QED BY <3>1, <3>2
  <2>4. ASSUME Stop PROVE Inv'
    <3>1. state \in States /\ Coherent(state) /\ state.next < state.length
      BY <2>4 DEF Stop, Running, TypeOK
    <3>2. Others(state.missing) = {} /\ Others(state.invalid) = {}
      BY <3>1 DEF Coherent, Current, Others
    <3>3. PICK a \in SUBSET {state.next + 1}, b \in SUBSET {state.next + 1} :
            /\ state' = Dict(state.length, state.next, state.merged, a, b)
            /\ a \cup b # {}
      <4>1. \/ state' = Dict(state.length, state.next, state.merged, {Current}, {})
            \/ state' = Dict(state.length, state.next, state.merged, {}, {Current})
        BY <2>4, <3>2 DEF Stop
      <4> QED BY <4>1 DEF Current
    <3>4. state' \in States /\ Coherent(state') /\ state'.length = state.length
      BY <3>1, <3>3, BlameCoherent
    <3>5. state'.missing \cup state'.invalid # {}
      BY <3>3 DEF Dict
    <3> QED BY <2>4, <3>4, <3>5 DEF Stop, TypeOK, Running, Blocked, Saved, MarkerHonest
  <2>5. ASSUME Choke PROVE Inv'
    BY <2>5 DEF Choke, TypeOK, Running, Blocked, Saved, MarkerHonest
  <2>6. ASSUME Merge PROVE Inv'
    <3>1. state \in States /\ Coherent(state) /\ state.next < state.length
      BY <2>6 DEF Merge, Running, TypeOK
    <3>2. reports[Current] \in OkReports
      BY <2>6 DEF Merge
    <3>3. Others(state.missing) = {} /\ Others(state.invalid) = {}
      BY <3>1 DEF Coherent, Current, Others
    <3>4. state' = Dict(state.length, state.next + 1,
                        Append(state.merged, reports[Current]), {}, {})
      BY <2>6, <3>3 DEF Merge, Current
    <3>5. state' \in States /\ Coherent(state') /\ state'.length = state.length
      BY <3>1, <3>2, <3>4, MergeCoherent
    <3> QED BY <2>6, <3>5 DEF Merge, TypeOK, Running, Blocked, Saved, MarkerHonest
  <2>7. ASSUME Publish PROVE Inv'
    <3>1. state \in States /\ Coherent(state) /\ state.length = length
      BY <2>7 DEF Publish, Finished, Running, TypeOK
    <3>2. CASE Unblocked
      <4>1. state.next = length
        BY <2>7, <3>1, <3>2 DEF Publish, Finished, Unblocked, Blocked, Coherent, States
      <4>2. marker' = Marker(TRUE, length, state.merged, 0)
        BY <2>7, <3>2 DEF Publish, Blamed
      <4> QED BY <2>7, <3>1, <3>2, <4>1, <4>2
              DEF Publish, TypeOK, Running, Blocked, Saved, MarkerHonest, Marker,
                  States, Coherent, CountsOnce
    <3>3. CASE ~Unblocked
      <4>1. state.missing \cup state.invalid = {state.next + 1} /\ state.next + 1 \in 1 .. N
        BY <3>1, <3>3 DEF Unblocked, Coherent, States
      <4>2. Blamed = state.next + 1
        <5>1. Blamed = CHOOSE s \in {state.next + 1} : TRUE
          BY <3>3, <4>1 DEF Blamed
        <5>2. (CHOOSE s \in {state.next + 1} : TRUE) \in {state.next + 1}
          BY Zenon
        <5> QED BY <5>1, <5>2
      <4>3. marker' = Marker(FALSE, length, state.merged, state.next + 1)
        <5>1. Unblocked = FALSE
          BY <3>3 DEF Unblocked
        <5> QED BY <2>7, <4>2, <5>1 DEF Publish
      <4>4. marker' \in [kind : {"marker"}, ok : BOOLEAN, length : 0 .. N,
                         merged : Seq(OkReports), blocker : 0 .. N]
        BY <2>7, <3>1, <4>1, <4>3 DEF TypeOK, States, Marker
      <4>5. MarkerHonest'
        BY <3>1, <4>1, <4>3 DEF MarkerHonest, Marker, Coherent, CountsOnce, States
      <4>6. TypeOK'
        BY <2>7, <4>4 DEF Publish, TypeOK
      <4> QED BY <2>7, <3>3, <4>5, <4>6 DEF Publish, Running, Blocked, Saved
    <3> QED BY <3>2, <3>3
  <2>8. ASSUME Clean PROVE Inv'
    BY <2>8 DEF Clean, TypeOK, Running, Blocked, Saved, MarkerHonest
  <2>9. ASSUME Crash PROVE Inv'
    BY <2>9, CrashAssumption DEF Crash, TypeOK, Running, Blocked, Saved, MarkerHonest
  <2>10. CASE UNCHANGED vars
    BY <2>10 DEF vars, TypeOK, Running, Blocked, Saved, MarkerHonest
  <2> QED BY <2>1, <2>2, <2>3, <2>4, <2>5, <2>6, <2>7, <2>8, <2>9, <2>10 DEF Next, Reduce
<1> QED BY <1>1, <1>2, PTL DEF Spec

\* Every variable of the reducer keeps its type.
THEOREM ReducerTypes == Spec => []TypeOK
<1>1. Inv => TypeOK
  BY DEF Inv
<1> QED BY <1>1, Induction, PTL

\* No shard is counted twice or left out before the index, in memory or in
\* the checkpoint, wherever reduce runs are killed.
THEOREM ShardsCountedOnce == Spec => []CountedOnce
<1>1. Inv => CountedOnce
  BY DEF Inv, Running, Saved, Coherent, CountedOnce
<1> QED BY <1>1, Induction, PTL

\* An ok marker counts all the shards listed; another one blames the first
\* shard that was not counted.
THEOREM MarkersAreHonest == Spec => []MarkerHonest
<1>1. Inv => MarkerHonest
  BY DEF Inv
<1> QED BY <1>1, Induction, PTL

\* What the reducer counts and publishes is right, for any number of shards, lists,
\* crashes and re-runs.
THEOREM ReducerIsSound == Spec => []ReduceSound
BY ReducerTypes, ShardsCountedOnce, MarkersAreHonest, PTL DEF ReduceSound

\* A round that was ok is never without its marker, --force included.
THEOREM OkMarkerNeverLeaves == Spec => OkMarkerStays
<1>1. ASSUME TypeOK, [Next]_vars PROVE KeepsOk
  <2> SUFFICES ASSUME marker.ok PROVE marker' # Absent
    BY DEF KeepsOk
  <2>1. marker # Absent
    BY DEF Absent
  <2>2. CASE Publish
    BY <2>2 DEF Publish, Marker, Absent
  <2>3. CASE ~Publish
    BY <1>1, <2>1, <2>3 DEF Next, Reduce, Report, Start, Load, Stop, Choke,
       Merge, Clean, Crash, vars, Absent
  <2> QED BY <2>2, <2>3
<1>2. TypeOK /\ [Next]_vars => [KeepsOk]_vars
  BY <1>1
<1> QED BY <1>2, ReducerTypes, PTL DEF Spec, OkMarkerStays
-----------------------------------------------------------------------------
(***************************************************************************)
(* The reducer implements RoundMarker when reported shards are not run     *)
(* again: everything merged then stays what the reports say.               *)
(***************************************************************************)

\* What was merged is what the reports of the first shards say, all ok.
Faithful(st) == /\ st.merged = Promise!Prefix(st.next)
                /\ \A s \in 1 .. st.next : reports[s] \in OkReports
Merged == /\ pc \in {"walk", "publish", "clean"} => Faithful(state)
          /\ saved # Absent => Faithful(saved)
          /\ pc = "publish" => reports[Current] \in {"absent", "failed"}
          /\ pc # "none" => length \in Lengths

\* One more report extends the sequence of the first reports by one.
LEMMA PrefixAppend ==
  ASSUME NEW k \in Nat
  PROVE  Append(Promise!Prefix(k), reports[k + 1]) = Promise!Prefix(k + 1)
BY DEF Promise!Prefix

\* Without re-runs, merged reports stay what they were.
LEMMA MergedInvariant == ASSUME ReRuns = FALSE PROVE Spec => []Merged
<1> USE LengthsAssumption, ReportsAssumption
<1>1. Init => Merged
  BY DEF Init, Merged, Absent
<1>2. Inv /\ Inv' /\ Merged /\ [Next]_vars => Merged'
  <2> SUFFICES ASSUME Inv, Inv', Merged, [Next]_vars PROVE Merged'
    OBVIOUS
  <2>1. ASSUME NEW s \in Shards, NEW r \in Reports \ {"absent"}, Report(s, r)
        PROVE  Merged'
    <3>1. \A k \in 1 .. N : reports[k] \in OkReports => reports'[k] = reports[k]
      BY <2>1 DEF Report, Inv, TypeOK, Shards
    <3>2. ASSUME NEW st \in States, Faithful(st)
          PROVE  /\ st.merged = Promise!Prefix(st.next)'
                 /\ \A k \in 1 .. st.next : reports'[k] \in OkReports
      BY <3>1, <3>2 DEF Faithful, Promise!Prefix, States
    <3> QED BY <2>1, <3>2 DEF Report, Merged, Faithful, Inv, TypeOK
  <2>2. ASSUME NEW n \in Lengths, NEW force \in BOOLEAN, Start(n, force)
        PROVE  Merged'
    BY <2>2 DEF Start, Merged, Faithful, Promise!Prefix, Absent
  <2>3. ASSUME Load PROVE Merged'
    <3>1. Faithful(InitialState(length))
      BY DEF Faithful, InitialState, Dict, Promise!Prefix
    <3> QED BY <2>3, <3>1 DEF Load, Merged, Faithful, Promise!Prefix
  <2>4. ASSUME Stop PROVE Merged'
    <3>1. state'.next = state.next /\ state'.merged = state.merged
      BY <2>4 DEF Stop, Dict
    <3>2. Current' = Current
      BY <3>1 DEF Current
    <3> QED BY <2>4, <3>1, <3>2 DEF Stop, Merged, Faithful, Promise!Prefix
  <2>5. ASSUME Choke PROVE Merged'
    BY <2>5 DEF Choke, Merged, Faithful, Promise!Prefix
  <2>6. ASSUME Merge PROVE Merged'
    <3>1. state.next \in Nat /\ Faithful(state) /\ reports[state.next + 1] \in OkReports
      BY <2>6 DEF Merge, Merged, Inv, TypeOK, States, Current
    <3>2. /\ state'.next = state.next + 1
          /\ state'.merged = Append(state.merged, reports[state.next + 1])
      BY <2>6 DEF Merge, Dict, Current
    <3>3. state'.merged = Promise!Prefix(state'.next)
      BY <3>1, <3>2, PrefixAppend DEF Faithful
    <3>4. \A s \in 1 .. state'.next : reports[s] \in OkReports
      BY <3>1, <3>2 DEF Faithful
    <3> QED BY <2>6, <3>3, <3>4 DEF Merge, Merged, Faithful, Promise!Prefix
  <2>7. ASSUME Publish PROVE Merged'
    BY <2>7 DEF Publish, Finished, Merged, Faithful, Promise!Prefix
  <2>8. ASSUME Clean PROVE Merged'
    BY <2>8 DEF Clean, Merged, Faithful, Promise!Prefix
  <2>9. ASSUME Crash PROVE Merged'
    BY <2>9 DEF Crash, Merged, Faithful, Promise!Prefix
  <2>10. CASE UNCHANGED vars
    BY <2>10 DEF vars, Merged, Faithful, Promise!Prefix, Current
  <2> QED BY <2>1, <2>2, <2>3, <2>4, <2>5, <2>6, <2>7, <2>8, <2>9, <2>10 DEF Next, Reduce
<1> QED BY <1>1, <1>2, Induction, PTL DEF Spec

\* Whatever was checkpointed, killed or forced, each marker the reducer
\* publishes is the one the reports give at that moment.
THEOREM ReducerImplementsRoundMarker ==
  ASSUME ReRuns = FALSE PROVE Spec => MarkerFollowsReports
<1> USE LengthsAssumption, ReportsAssumption
<1>1. Init => Promise!Init
  BY DEF Init, Promise!Init, Promise!Shards, Shards, Promise!Absent, Absent
<1>2. Inv /\ Merged /\ [Next]_vars => [Promise!Next]_<<reports, marker>>
  <2> SUFFICES ASSUME Inv, Merged, [Next]_vars
               PROVE  Promise!Next \/ UNCHANGED <<reports, marker>>
    OBVIOUS
  <2>1. ASSUME NEW s \in Shards, NEW r \in Reports \ {"absent"}, Report(s, r)
        PROVE  Promise!Next
    BY <2>1 DEF Report, Promise!Report, Promise!Next, Promise!Shards, Shards,
                Promise!Reports, Reports
  <2>2. ASSUME NEW n \in Lengths, NEW force \in BOOLEAN, Start(n, force)
        PROVE  Promise!Next \/ UNCHANGED <<reports, marker>>
    BY <2>2 DEF Start, Promise!Withdraw, Promise!Next, Promise!Absent, Absent
  <2>3. ASSUME Publish PROVE Promise!Next
    <3>1. /\ state \in States /\ Coherent(state) /\ state.length = length
          /\ Faithful(state)
      BY <2>3 DEF Publish, Finished, Inv, Running, TypeOK, Merged
    <3>2. length \in Lengths
      BY <2>3 DEF Publish, Finished, Merged
    <3>3. UNCHANGED reports /\ marker' = Promise!Marker(Unblocked, length, state.merged, Blamed)
      BY <2>3 DEF Publish, Marker, Promise!Marker
    <3>4. CASE Unblocked
      <4>1. state.next = length
        BY <2>3, <3>1, <3>4 DEF Publish, Finished, Unblocked, Inv, Blocked, Coherent, States
      <4>2. Blamed = 0 /\ Unblocked = TRUE
        BY <3>4 DEF Blamed, Unblocked
      <4>3. \A s \in 1 .. length : reports[s] \in OkReports
        BY <3>1, <4>1 DEF Faithful
      <4>4. marker' = Promise!Marker(TRUE, length, Promise!Prefix(length), 0)
        BY <3>1, <3>3, <4>1, <4>2 DEF Faithful
      <4> QED BY <3>2, <3>3, <4>3, <4>4 DEF Promise!Publish, Promise!Next
    <3>5. CASE ~Unblocked
      <4>1. /\ state.next \in Nat /\ state.next < length /\ length \in Nat
            /\ state.missing \cup state.invalid = {state.next + 1}
        BY <3>1, <3>5 DEF Unblocked, Coherent, States
      <4>2. pc = "publish"
        BY <2>3, <3>1, <4>1 DEF Publish, Finished
      <4>3. Blamed = state.next + 1
        <5>1. Blamed = CHOOSE s \in {state.next + 1} : TRUE
          BY <3>5, <4>1 DEF Blamed
        <5>2. (CHOOSE s \in {state.next + 1} : TRUE) \in {state.next + 1}
          BY Zenon
        <5> QED BY <5>1, <5>2
      <4>4. reports[state.next + 1] \in {"absent", "failed"}
        BY <4>2 DEF Merged, Current
      <4>5. Unblocked = FALSE
        BY <3>5 DEF Unblocked
      <4>6. marker' = Promise!Marker(FALSE, length, Promise!Prefix(state.next), state.next + 1)
        BY <3>1, <3>3, <4>3, <4>5 DEF Faithful
      <4>7. (state.next + 1) - 1 = state.next /\ state.next + 1 \in 1 .. length
        BY <4>1
      <4>8. \A s \in 1 .. (state.next + 1) - 1 : reports[s] \in OkReports
        BY <3>1, <4>7 DEF Faithful
      <4> QED
        <5>1. PICK b \in 1 .. length : b = state.next + 1
          BY <4>7
        <5>2. b - 1 = state.next
          BY <4>1, <5>1
        <5>3. /\ \A s \in 1 .. b - 1 : reports[s] \in OkReports
              /\ reports[b] \in {"absent", "failed"}
              /\ marker' = Promise!Marker(FALSE, length, Promise!Prefix(b - 1), b)
          BY <4>4, <4>6, <4>7, <4>8, <5>1, <5>2
        <5> QED BY <3>2, <3>3, <5>3 DEF Promise!Publish, Promise!Next
    <3> QED BY <3>4, <3>5
  <2> QED BY <2>1, <2>2, <2>3 DEF Next, Reduce, Load, Stop, Choke, Merge, Clean,
                                 Crash, vars
<1> QED BY <1>1, <1>2, Induction, MergedInvariant, PTL DEF Spec, MarkerFollowsReports, Promise!Spec
=============================================================================
