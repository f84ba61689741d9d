------------------------- MODULE ShardRunnerProofs -------------------------
(***************************************************************************)
(* Proofs about ShardRunner, for any number of candidates and sessions,    *)
(* any flush interval, any outcomes and any tears.                         *)
(***************************************************************************)
EXTENDS ShardRunner, SampleFileProofs, FiniteSetTheorems

(***************************************************************************)
(* The inductive invariant.                                                *)
(***************************************************************************)
\* Where the session is in its candidates; a session that goes on after errors
\* has come to each of them when its loop ends.
After == {"ledger", "truncate", "report", "manifest", "mark"}
Session ==
  /\ pc = "idle" => loaded = {} /\ solved = {} /\ failed = {} /\ skipped = {}
  /\ pc \in {"loop", "close"} => at <= N + 1
  /\ buf # <<>> => pc \in {"loop", "close"}
  /\ Len(buf) <= FlushEvery
  /\ file.open => file.lines # <<>>
  /\ skipped \subseteq loaded \cup Disabled
  /\ pc = "loop" => solved \cup failed \cup skipped = 1 .. at - 1
  /\ solved \cap failed = {} /\ (solved \cup failed) \cap skipped = {}
  /\ pc \in {"manifest", "mark"} => report.kind = "whole" /\ report.failed = failed
  /\ marked => pc = "idle" /\ report.kind = "whole"
  /\ launches = 0 => /\ file = Empty /\ pc = "idle"
                     /\ \A k \in DOMAIN Ledgers, c \in Cands : ledgers[k][c] = 0

WholeLoop == ContinueOnError =>
  pc # "close" /\ (pc \in After => solved \cup failed \cup skipped = Cands)

\* No second record; what is recorded as final is not to be solved in this
\* session; a record asks for a retry only when its candidate may.
Final(c) == \E i \in 1 .. Len(file.lines) : file.lines[i] # Junk /\ file.lines[i].cand = c
                                              /\ ~file.lines[i].again
NoSecond(s) == \A i, j \in 1 .. Len(s) :
                 i < j /\ s[i] # Junk /\ s[j] # Junk /\ s[i].cand = s[j].cand => s[i].again
Recording ==
  /\ NoSecond(Recorded)
  /\ pc = "loop" => \A i \in 1 .. Len(Recorded) :
       Recorded[i] # Junk /\ ~Recorded[i].again => Recorded[i].cand \in loaded \cup 1 .. at - 1
  /\ \A i \in 1 .. Len(Recorded) :
       Recorded[i] # Junk /\ Recorded[i].again => "retry" \in Outcomes[Recorded[i].cand]

\* What is lost: nothing before the first line of a session is written, then at
\* most the two records that share it, of which a line that is no record is left.
Lost(S) == S \ Readable
InSession == loaded \cup solved
Enabled == Cands \ (Disabled \cup report.failed)
Losing ==
  /\ file.open => Lost(InSession) = {}
  /\ \E a, b \in 0 .. N : Lost(InSession) \subseteq {a, b}
  /\ Lost(InSession) # {} => Junk \in Range(file.lines)
MarkedLosing == ContinueOnError /\ marked =>
  /\ \E a, b \in 0 .. N : Lost(Enabled) \subseteq {a, b}
  /\ Untorn => Lost(Enabled) = {}

\* A row of a candidate that needs no retry means that its record is in the file,
\* so that no later session appends another.
Rows(k, c) == Ledgers[k] # "contingency" /\ "retry" \notin Outcomes[c]
OneRow == Untorn =>
  \A k \in DOMAIN Ledgers, c \in Cands : Rows(k, c) =>
    /\ ledgers[k][c] <= 1
    /\ ledgers[k][c] > 0 => Final(c)
    /\ c \in solved /\ (pc \in {"loop", "close"} \/ (pc = "ledger" /\ at <= k))
         => ledgers[k][c] = 0

Accounted == ContinueOnError => ReportAccounts

IInv == /\ TypeOK /\ Session /\ WholeLoop /\ Recording
        /\ Losing /\ MarkedLosing /\ OneRow /\ Accounted

(***************************************************************************)
(* Sample files of the records of this shard (SampleFileProofs).           *)
(***************************************************************************)
LEMMA RecordFacts == /\ Junk \in Lines /\ Junk \notin Records /\ Records \subseteq Lines
                     /\ \A r \in Records : r \in Lines /\ r # Junk
                     /\ LinesOf(Records) = Lines
BY BoundsAssumption DEF Lines, Records, Junk, Cands, LinesOf

LEMMA FollowsRecords ==
  ASSUME NEW f, Proper(f, Records), NEW b \in Seq(Records), NEW g, Follows(g, f, b, Records)
  PROVE  /\ \A i \in 1 .. Len(g.lines) : g.lines[i] # Junk =>
              \E j \in 1 .. Len(f.lines \o b) : g.lines[i] = (f.lines \o b)[j]
         /\ NoSecond(f.lines \o b) => NoSecond(g.lines)
<1> DEFINE r == f.lines \o b
           n == Len(f.lines)
<1>1. PICK d \in {0, 1} : \A i \in 1 .. Len(g.lines) : g.lines[i] # Junk =>
           Place(i, n, d) \in 1 .. Len(r) /\ g.lines[i] = r[Place(i, n, d)]
  BY FollowsPlaces
<1>2. Len(g.lines) \in Nat /\ n \in Nat
  BY FileTypes DEF Follows
<1> HIDE DEF r, n
<1>3. \A i \in 1 .. Len(g.lines) : g.lines[i] # Junk =>
        \E j \in 1 .. Len(r) : g.lines[i] = r[j]
  BY <1>1
<1>4. ASSUME NoSecond(r), NEW i \in 1 .. Len(g.lines), NEW j \in 1 .. Len(g.lines), i < j,
             g.lines[i] # Junk, g.lines[j] # Junk, g.lines[i].cand = g.lines[j].cand
      PROVE  g.lines[i].again
  <2>1. PICK k \in 1 .. Len(r) : g.lines[i] = r[k] /\ k = Place(i, n, d)
    BY <1>1, <1>4
  <2>2. PICK l \in 1 .. Len(r) : g.lines[j] = r[l] /\ l = Place(j, n, d)
    BY <1>1, <1>4
  <2>3. k < l
    BY <1>2, <1>4, <2>1, <2>2 DEF Place
  <2> QED BY <1>4, <2>1, <2>2, <2>3 DEF NoSecond
<1>5. NoSecond(r) => NoSecond(g.lines)
  BY <1>4 DEF NoSecond
<1> QED BY <1>3, <1>5 DEF r

\* The candidates a reader would find, from the sequence of all that is recorded.
ReadableOf(r) == {c \in Cands : \E i \in 1 .. Len(r) : r[i] # Junk /\ r[i].cand = c}

LEMMA ReadableRecords ==
  ASSUME NEW f, Proper(f, Records), NEW b \in Seq(Records)
  PROVE  {r.cand : r \in (Decoded(f) \cup {b[i] : i \in DOMAIN b}) \ {Junk}}
            = ReadableOf(f.lines \o b)
<1> DEFINE r == f.lines \o b
           n == Len(f.lines)
           S == {x.cand : x \in (Decoded(f) \cup {b[i] : i \in DOMAIN b}) \ {Junk}}
<1>1. /\ r \in Seq(Lines) /\ Len(r) = n + Len(b) /\ n \in Nat /\ Len(b) \in Nat
      /\ \A i \in 1 .. n : r[i] = f.lines[i]
      /\ \A i \in n + 1 .. n + Len(b) : r[i] = b[i - n]
  BY RecordedAt, RecordFacts
<1>2. DOMAIN b = 1 .. Len(b) /\ DOMAIN f.lines = 1 .. n
  BY LenProperties, FileTypes
<1>3. \A i \in 1 .. Len(r) : r[i] \in Lines
  BY <1>1, ElementOfSeq
<1> HIDE DEF r, n
<1>4. ASSUME NEW c, c \in S PROVE c \in ReadableOf(r)
  <2>1. PICK x \in Decoded(f) \cup {b[i] : i \in 1 .. Len(b)} : x # Junk /\ x.cand = c
    BY <1>2, <1>4
  <2>2. \E i \in 1 .. Len(r) : r[i] = x
    <3>1. CASE x \in Decoded(f)
      <4>1. PICK i \in 1 .. n : f.lines[i] = x
        BY <1>2, <3>1 DEF Decoded
      <4>2. i \in 1 .. Len(r) /\ r[i] = x
        BY <1>1, <4>1
      <4> QED BY <4>2
    <3>2. CASE x \in {b[i] : i \in 1 .. Len(b)}
      <4>1. PICK i \in 1 .. Len(b) : b[i] = x
        BY <3>2
      <4>2. n + i \in 1 .. Len(r) /\ n + i \in n + 1 .. n + Len(b) /\ (n + i) - n = i
        BY <1>1
      <4>3. r[n + i] = x
        BY <1>1, <4>1, <4>2
      <4> QED BY <4>2, <4>3
    <3> QED BY <2>1, <3>1, <3>2
  <2>3. x \in Lines /\ x # Junk
    BY <1>3, <2>1, <2>2
  <2>4. c \in Cands
    BY <2>1, <2>3 DEF Lines, Records
  <2> QED BY <2>1, <2>2, <2>4 DEF ReadableOf
<1>5. ASSUME NEW c \in ReadableOf(r) PROVE c \in S
  <2>1. PICK i \in 1 .. Len(r) : r[i] # Junk /\ r[i].cand = c
    BY DEF ReadableOf
  <2>2. CASE i \in 1 .. n
    <3>1. r[i] \in Decoded(f)
      BY <1>1, <1>2, <2>1, <2>2 DEF Decoded
    <3> QED BY <2>1, <3>1
  <2>3. CASE ~(i \in 1 .. n)
    <3>1. i \in n + 1 .. n + Len(b) /\ i - n \in 1 .. Len(b)
      BY <1>1, <2>3
    <3>2. r[i] \in {b[j] : j \in DOMAIN b}
      BY <1>1, <1>2, <3>1
    <3> QED BY <2>1, <3>2
  <2> QED BY <2>2, <2>3
<1>6. S = ReadableOf(r)
  BY <1>4, <1>5 DEF ReadableOf
<1> QED BY <1>6 DEF r

\* What a flush takes away: nothing, or the two records that share a line.
LEMMA FlushReadable ==
  ASSUME NEW f, Proper(f, Records), NEW b \in Seq(Records)
  PROVE  \A c \in ReadableOf(f.lines \o b) :
           \/ c \in ReadableOf(Appended(f, b).lines)
           \/ f.open /\ b # <<>> /\ c \in {f.lines[Len(f.lines)].cand, b[1].cand}
<1> DEFINE r == f.lines \o b
           n == Len(f.lines)
           g == Appended(f, b)
           d == IF f.open /\ b # <<>> THEN 1 ELSE 0
<1>1. /\ Len(r) = n + Len(b) /\ n \in Nat /\ Len(b) \in Nat
      /\ \A i \in 1 .. n : r[i] = f.lines[i]
      /\ \A i \in n + 1 .. n + Len(b) : r[i] = b[i - n]
  BY RecordedAt
<1>2. /\ Len(g.lines) = n + Len(b) - d
      /\ \A i \in 1 .. n : g.lines[i] = IF d = 1 /\ i = n THEN Junk ELSE f.lines[i]
      /\ \A i \in n + 1 .. Len(g.lines) : i - n + d \in 1 .. Len(b) /\ g.lines[i] = b[i - n + d]
  <2>1. AppendShape(Appended(f, b), f, Len(f.lines), b, Joined(f, b))
    BY AppendedShape
  <2> QED BY <2>1 DEF AppendShape, Joined
<1>3. d \in {0, 1} /\ (d = 1 => f.open /\ b # <<>> /\ n > 0 /\ Len(b) > 0)
  BY FileTypes, EmptySeq
<1> HIDE DEF r, n, g, d
<1> SUFFICES ASSUME NEW c \in ReadableOf(r)
             PROVE  \/ c \in ReadableOf(g.lines)
                    \/ d = 1 /\ c \in {f.lines[n].cand, b[1].cand}
  BY <1>3 DEF r, n, g
<1>4. PICK j \in 1 .. Len(r) : r[j] # Junk /\ r[j].cand = c
  BY DEF ReadableOf
<1>5. CASE j \in 1 .. n /\ ~(d = 1 /\ j = n)
  <2>1. g.lines[j] = r[j] /\ j \in 1 .. Len(g.lines)
    BY <1>1, <1>2, <1>3, <1>5
  <2> QED BY <1>4, <2>1 DEF ReadableOf
<1>6. CASE d = 1 /\ j = n
  <2>1. r[j] = f.lines[n]
    BY <1>1, <1>3, <1>6
  <2> QED BY <1>4, <1>6, <2>1
<1>7. CASE d = 1 /\ j = n + 1
  <2>1. r[j] = b[1]
    BY <1>1, <1>3, <1>7
  <2> QED BY <1>4, <1>7, <2>1
<1>8. CASE j \in n + 1 .. n + Len(b) /\ ~(d = 1 /\ j = n + 1)
  <2>1. /\ j - d \in n + 1 .. Len(g.lines) /\ j - d \in 1 .. Len(g.lines)
        /\ (j - d) - n + d = j - n
    BY <1>1, <1>2, <1>3, <1>8
  <2>2. g.lines[j - d] = b[j - n]
    BY <1>2, <2>1
  <2>3. g.lines[j - d] = r[j]
    BY <1>1, <1>8, <2>2
  <2> QED BY <1>4, <2>1, <2>3 DEF ReadableOf
<1> QED BY <1>1, <1>5, <1>6, <1>7, <1>8

\* What the end of a session takes away: the records of the buffer, and that of a
\* line left open.
LEMMA FollowsReadable ==
  ASSUME NEW f, Proper(f, Records), NEW b \in Seq(Records), NEW g, Follows(g, f, b, Records)
  PROVE  \A c \in ReadableOf(f.lines \o b) :
           \/ c \in ReadableOf(g.lines)
           \/ \E i \in 1 .. Len(b) : c = b[i].cand
           \/ f.open /\ c = f.lines[Len(f.lines)].cand
<1> DEFINE r == f.lines \o b
           n == Len(f.lines)
<1>1. /\ Len(r) = n + Len(b) /\ n \in Nat /\ Len(b) \in Nat
      /\ \A i \in 1 .. n : r[i] = f.lines[i]
      /\ \A i \in n + 1 .. n + Len(b) : r[i] = b[i - n]
  BY RecordedAt
<1>2. Len(g.lines) \in Nat /\ n <= Len(g.lines)
  BY FileTypes DEF Follows
<1>3. \A i \in 1 .. n : g.lines[i] = f.lines[i] \/ (f.open /\ i = n)
  BY DEF Follows
<1> HIDE DEF r, n
<1> SUFFICES ASSUME NEW c \in ReadableOf(r)
             PROVE  \/ c \in ReadableOf(g.lines)
                    \/ \E i \in 1 .. Len(b) : c = b[i].cand
                    \/ f.open /\ c = f.lines[n].cand
  BY DEF r, n
<1>4. PICK j \in 1 .. Len(r) : r[j] # Junk /\ r[j].cand = c
  BY DEF ReadableOf
<1>5. CASE j \in 1 .. n
  <2>1. r[j] = f.lines[j] /\ j \in 1 .. Len(g.lines)
    BY <1>1, <1>2, <1>5
  <2> QED BY <1>3, <1>4, <1>5, <2>1 DEF ReadableOf
<1>6. CASE ~(j \in 1 .. n)
  <2>1. j - n \in 1 .. Len(b) /\ r[j] = b[j - n]
    BY <1>1, <1>6
  <2> QED BY <1>4, <2>1
<1> QED BY <1>5, <1>6

\* At most two.
LEMMA PairBound ==
  ASSUME NEW S, NEW a, NEW b, S \subseteq {a, b}
  PROVE  IsFiniteSet(S) /\ Cardinality(S) <= 2
<1>1. IsFiniteSet({a}) /\ Cardinality({a}) = 1
  BY FS_Singleton
<1>2. IsFiniteSet({a} \cup {b}) /\ Cardinality({a} \cup {b}) <= 2
        /\ Cardinality({a} \cup {b}) \in Nat
  <2>1. /\ IsFiniteSet({a} \cup {b})
        /\ Cardinality({a} \cup {b}) = IF b \in {a} THEN Cardinality({a}) ELSE Cardinality({a}) + 1
    BY <1>1, FS_AddElement
  <2> QED BY <1>1, <2>1
<1>3. S \in SUBSET ({a} \cup {b})
  OBVIOUS
<1>4. IsFiniteSet(S) /\ Cardinality(S) <= Cardinality({a} \cup {b}) /\ Cardinality(S) \in Nat
  BY <1>2, <1>3, FS_Subset, FS_CardinalityType
<1> QED BY <1>2, <1>4

\* The candidates of a buffer are no more than its records.
LEMMA BufferBound ==
  ASSUME NEW b \in Seq(Records)
  PROVE  /\ IsFiniteSet({b[i].cand : i \in 1 .. Len(b)})
         /\ Cardinality({b[i].cand : i \in 1 .. Len(b)}) \in Nat
         /\ Cardinality({b[i].cand : i \in 1 .. Len(b)}) <= Len(b)
<1> DEFINE S == 1 .. Len(b)
           T == {b[i].cand : i \in S}
           m == [i \in S |-> b[i].cand]
<1>1. Len(b) \in Nat
  BY LenProperties
<1>2. IsFiniteSet(S) /\ Cardinality(S) = Len(b)
  BY <1>1, FS_Interval, SMTT(20)
<1>3. m \in Surjection(S, T)
  BY DEF Surjection
<1> HIDE DEF m, T, S
<1>4. IsFiniteSet(T) /\ Cardinality(T) <= Cardinality(S) /\ Cardinality(T) \in Nat
  BY <1>2, <1>3, FS_Surjection, FS_CardinalityType
<1> QED BY <1>2, <1>4 DEF T, S

\* The ledgers, and the numbers that the proofs need of them.
LEMMA LedgerFacts == /\ Len(Ledgers) = 4 /\ DOMAIN Ledgers = 1 .. 4
                     /\ \A k \in 1 .. 4 : Ledgers[k] = "contingency" <=> k = 4
BY DEF Ledgers

LEMMA CandsFacts ==
  ASSUME NEW S, S \subseteq Cands
  PROVE  IsFiniteSet(S) /\ Cardinality(S) \in 0 .. N
<1>1. N \in Nat
  BY BoundsAssumption
<1>2. IsFiniteSet(Cands) /\ Cardinality(Cands) = N
  BY <1>1, FS_Interval DEF Cands
<1>3. IsFiniteSet(S) /\ Cardinality(S) <= Cardinality(Cands) /\ Cardinality(S) \in Nat
  BY <1>2, FS_Subset, FS_CardinalityType
<1> QED BY <1>1, <1>2, <1>3

(***************************************************************************)
(* What a step does to the file and the buffer.                            *)
(***************************************************************************)
Kept == UNCHANGED <<file, buf>>
Written == Follows(file', file, buf, Records) /\ buf' = <<>>

LEMMA FileIsProper == TypeOK /\ Session => /\ Proper(file, Records) /\ buf \in Seq(Records)
                                          /\ Len(buf) \in Nat /\ (Len(buf) = 0 => buf = <<>>)
<1>1. TypeOK /\ Session => Proper(file, Records) /\ buf \in Seq(Records)
  BY DEF TypeOK, Session, Proper, Files, LinesOf, Lines
<1>2. buf \in Seq(Records) => Len(buf) \in Nat /\ (Len(buf) = 0 => buf = <<>>)
  BY EmptySeq, LenProperties
<1> QED BY <1>1, <1>2

LEMMA WrittenSteps ==
  ASSUME TypeOK, Session, Flush \/ Close \/ Terminate \/ Kill
  PROVE  Written
<1>1. Proper(file, Records) /\ buf \in Seq(Records)
  BY FileIsProper
<1>2. CASE Flush \/ Close \/ Terminate
  BY <1>1, <1>2, AppendedFollows DEF Flush, Close, Terminate, FlushBuffer, Written
<1>3. CASE Kill
  BY <1>1, <1>3, KillFollows DEF Kill, Written
<1> QED BY <1>2, <1>3

LEMMA WrittenTypes ==
  ASSUME Written
  PROVE  /\ file' \in [lines : Seq(Lines), open : BOOLEAN]
         /\ buf' \in Seq(Records) /\ Len(buf') = 0
         /\ file'.open => file'.lines # <<>>
BY EmptySeq DEF Written, Follows, Proper, Files, LinesOf, Lines

(***************************************************************************)
(* Every step keeps the types.                                             *)
(***************************************************************************)
LEMMA RecordTypes ==
  ASSUME NEW c \in Cands, NEW o
  PROVE  Record(c, o) \in Records /\ Record(c, o) # Junk /\ Record(c, o).cand = c
         /\ (Record(c, o).again <=> o = "retry")
BY RecordFacts DEF Record, Records

LEMMA ReportTypes ==
  ASSUME solved \subseteq Cands, failed \subseteq Cands, skipped \subseteq Cands
  PROVE  [kind |-> "whole", ok |-> RoundOk, solved |-> solved,
          failed |-> failed, skipped |-> Cardinality(skipped)]
           \in [kind : {"whole"}, ok : BOOLEAN, solved : SUBSET Cands,
                failed : SUBSET Cands, skipped : 0 .. N]
<1>1. Cardinality(skipped) \in 0 .. N
  BY CandsFacts
<1>2. RoundOk \in BOOLEAN
  BY DEF RoundOk
<1> QED BY <1>1, <1>2

LEMMA TypesNext == TypeOK /\ Session /\ [Next]_vars => TypeOK'
<1> SUFFICES ASSUME TypeOK, Session, [Next]_vars PROVE TypeOK'
  OBVIOUS
<1>0. N \in Nat /\ MaxLaunches \in Nat
  BY BoundsAssumption
<1>1. CASE Launch
  <2>1. loaded' \subseteq Cands
    <3>1. DoneIds \subseteq Cands
      <4>1. Proper(file, Records)
        BY FileIsProper
      <4>2. ASSUME NEW r \in Decoded(file) PROVE r.cand \in Cands
        <5>1. r \in Lines /\ r # Junk
          BY <4>1, FileTypes, RecordFacts DEF Decoded
        <5> QED BY <5>1 DEF Lines, Records
      <4> QED BY <4>2 DEF DoneIds
    <3> QED BY <1>1, <3>1 DEF Launch
  <2>2. launches' \in 0 .. MaxLaunches /\ pc' = "loop" /\ at' = 1
    BY <1>0, <1>1 DEF Launch, TypeOK
  <2>3. at' \in 1 .. (IF pc' = "ledger" THEN Len(Ledgers) ELSE N + 1 + Len(Ledgers))
    BY <1>0, <2>2, LedgerFacts
  <2> QED BY <1>1, <2>1, <2>2, <2>3 DEF Launch, TypeOK, disk
<1>2. CASE Skip
  <2>1. at \in Cands /\ pc = "loop" /\ at <= N /\ at' = at + 1 /\ pc' = pc
    BY <1>0, <1>2, LedgerFacts DEF Skip, Turn, TypeOK, Cands
  <2>2. at' \in 1 .. (IF pc' = "ledger" THEN Len(Ledgers) ELSE N + 1 + Len(Ledgers))
    BY <1>0, <2>1, LedgerFacts DEF Cands
  <2> QED BY <1>2, <2>1, <2>2 DEF Skip, TypeOK, disk
<1>3. ASSUME NEW o \in {"ok", "retry", "early", "late"}, Execute(o) PROVE TypeOK'
  <2>1. at \in Cands /\ pc = "loop" /\ at <= N /\ at' = at + 1 /\ pc' \in {"loop", "close"}
    BY <1>0, <1>3, LedgerFacts DEF Execute, Turn, TypeOK, Cands
  <2>2. at' \in 1 .. (IF pc' = "ledger" THEN Len(Ledgers) ELSE N + 1 + Len(Ledgers))
    BY <1>0, <2>1, LedgerFacts DEF Cands
  <2>3. buf' \in Seq(Records)
    <3>1. Record(at, o) \in Records /\ buf \in Seq(Records)
      BY <2>1, RecordTypes DEF TypeOK
    <3>2. Append(buf, Record(at, o)) \in Seq(Records)
      BY <3>1, AppendProperties
    <3> QED BY <1>3, <3>1, <3>2 DEF Execute
  <2>4. solved' \subseteq Cands /\ failed' \subseteq Cands
    BY <1>3, <2>1 DEF Execute, TypeOK
  <2> QED BY <1>3, <2>1, <2>2, <2>3, <2>4 DEF Execute, TypeOK, disk
<1>4. CASE Flush
  <2>1. Written
    BY <1>4, WrittenSteps
  <2> QED BY <1>4, <2>1, WrittenTypes DEF Flush, TypeOK, rows
<1>5. CASE Close
  <2>1. Written
    BY <1>5, WrittenSteps
  <2>2. at' \in 1 .. (IF pc' = "ledger" THEN Len(Ledgers) ELSE N + 1 + Len(Ledgers))
    BY <1>5, LedgerFacts DEF Close
  <2> QED BY <1>5, <2>1, <2>2, WrittenTypes DEF Close, TypeOK, rows
<1>6. CASE AppendLedger
  <2>1. pc = "ledger" /\ at \in 1 .. 4 /\ pc' \in {"ledger", "truncate"}
    BY <1>6, LedgerFacts DEF AppendLedger, TypeOK
  <2>2. at' \in 1 .. (IF pc' = "ledger" THEN Len(Ledgers) ELSE N + 1 + Len(Ledgers))
    <3>1. CASE at < Len(Ledgers)
      BY <1>6, <2>1, <3>1, LedgerFacts DEF AppendLedger
    <3>2. CASE ~(at < Len(Ledgers))
      BY <1>0, <1>6, <2>1, <3>2, LedgerFacts DEF AppendLedger
    <3> QED BY <3>1, <3>2
  <2>3. ledgers' \in [DOMAIN Ledgers -> [Cands -> Nat]]
    <3> DEFINE row == [c \in Cands |-> ledgers[at][c] + (IF c \in LedgerRows(at) THEN 1 ELSE 0)]
    <3>1. ledgers \in [1 .. 4 -> [Cands -> Nat]]
      BY LedgerFacts DEF TypeOK
    <3>2. row \in [Cands -> Nat]
      BY <2>1, <3>1
    <3>3. ledgers' = [ledgers EXCEPT ![at] = row]
      BY <1>6 DEF AppendLedger
    <3> HIDE DEF row
    <3> QED BY <2>1, <3>1, <3>2, <3>3, LedgerFacts
  <2> QED BY <1>6, <2>1, <2>2, <2>3 DEF AppendLedger, TypeOK, rows
<1>7. CASE TruncateReport
  <2>1. at' \in 1 .. (IF pc' = "ledger" THEN Len(Ledgers) ELSE N + 1 + Len(Ledgers))
    BY <1>7 DEF TruncateReport, TypeOK
  <2> QED BY <1>7, <2>1 DEF TruncateReport, TypeOK, rows
<1>8. CASE WriteReport
  <2>1. at' \in 1 .. (IF pc' = "ledger" THEN Len(Ledgers) ELSE N + 1 + Len(Ledgers))
    BY <1>8 DEF WriteReport, TypeOK
  <2>2. report' \in [kind : {"whole"}, ok : BOOLEAN, solved : SUBSET Cands,
                     failed : SUBSET Cands, skipped : 0 .. N]
    BY <1>8, ReportTypes DEF WriteReport, TypeOK
  <2> QED BY <1>8, <2>1, <2>2 DEF WriteReport, TypeOK, rows
<1>9. CASE WriteManifest
  <2>1. pc' \in {"idle", "mark"} /\ at' \in {1, at} /\ at \in 1 .. N + 1 + Len(Ledgers)
    BY <1>9 DEF WriteManifest, Exit, TypeOK
  <2>2. at' \in 1 .. (IF pc' = "ledger" THEN Len(Ledgers) ELSE N + 1 + Len(Ledgers))
    BY <1>0, <2>1, LedgerFacts
  <2>3. manifest' \in Nat
    BY <1>9, FileIsProper, FileTypes DEF WriteManifest
  <2> QED BY <1>9, <2>1, <2>2, <2>3 DEF WriteManifest, Exit, TypeOK, rows
<1>10. CASE Mark
  <2>1. at' \in 1 .. (IF pc' = "ledger" THEN Len(Ledgers) ELSE N + 1 + Len(Ledgers))
    BY <1>0, <1>10, LedgerFacts DEF Mark, Exit
  <2> QED BY <1>10, <2>1 DEF Mark, Exit, TypeOK
<1>11. CASE Terminate \/ Kill
  <2>1. Written
    BY <1>11, WrittenSteps
  <2>2. /\ Exit /\ UNCHANGED <<ledgers, report, manifest, marked, launches>>
    BY <1>11 DEF Terminate, Kill
  <2>3. at' \in 1 .. (IF pc' = "ledger" THEN Len(Ledgers) ELSE N + 1 + Len(Ledgers))
    BY <1>0, <2>2, LedgerFacts DEF Exit
  <2> QED BY <2>1, <2>2, <2>3, WrittenTypes DEF Exit, TypeOK
<1>12. CASE UNCHANGED vars
  BY <1>12 DEF vars, disk, rows, TypeOK
<1> QED
  BY <1>1, <1>2, <1>3, <1>4, <1>5, <1>6, <1>7, <1>8, <1>9, <1>10, <1>11, <1>12
     DEF Next, Step

(***************************************************************************)
(* Every step keeps the control part of the invariant.                     *)
(***************************************************************************)
LEMMA SessionNext == TypeOK /\ Session /\ [Next]_vars => Session'
<1> SUFFICES ASSUME TypeOK, Session, [Next]_vars PROVE Session'
  OBVIOUS
<1>0. N \in Nat /\ FlushEvery \in Nat \ {0} /\ launches \in Nat
  BY BoundsAssumption DEF TypeOK
<1>b. Proper(file, Records) /\ buf \in Seq(Records) /\ Len(buf) \in Nat
  BY FileIsProper
<1>1. CASE Launch
  <2>1. /\ pc = "idle" /\ buf = <<>> /\ ~marked /\ launches' # 0 /\ 1 .. 1 - 1 = {}
    BY <1>0, <1>1 DEF Launch, Session
  <2> QED BY <1>0, <1>1, <2>1 DEF Launch, Session, disk
<1>2. CASE Skip
  <2>1. /\ pc = "loop" /\ pc' = "loop" /\ at \in Nat \ {0} /\ at' = at + 1 /\ at <= N
        /\ launches # 0 /\ ~marked
    BY <1>0, <1>2 DEF Skip, Turn, TypeOK, Session
  <2>2. 1 .. at' - 1 = (1 .. at - 1) \cup {at} /\ at \notin 1 .. at - 1 /\ at' <= N + 1
    BY <1>0, <2>1
  <2>3. solved \cup failed \cup skipped = 1 .. at - 1
    BY <2>1 DEF Session
  <2>4. /\ solved' = solved /\ failed' = failed /\ skipped' = skipped \cup {at}
        /\ at \in loaded \cup Disabled
    BY <1>2 DEF Skip
  <2>5. solved' \cup failed' \cup skipped' = 1 .. at' - 1
    BY <2>2, <2>3, <2>4
  <2>6. (solved' \cup failed') \cap skipped' = {}
    BY <2>2, <2>3, <2>4 DEF Session
  <2> QED BY <1>0, <1>2, <2>1, <2>2, <2>4, <2>5, <2>6 DEF Skip, Session, disk
<1>3. ASSUME NEW o \in {"ok", "retry", "early", "late"}, Execute(o) PROVE Session'
  <2>1. /\ pc = "loop" /\ pc' \in {"loop", "close"} /\ at \in Nat \ {0} /\ at' = at + 1
        /\ at <= N /\ launches # 0 /\ ~marked /\ Len(buf) < FlushEvery
    BY <1>0, <1>3 DEF Execute, Turn, TypeOK, Session
  <2>2. 1 .. at' - 1 = (1 .. at - 1) \cup {at} /\ at \notin 1 .. at - 1 /\ at' <= N + 1
    BY <1>0, <2>1
  <2>3. solved \cup failed \cup skipped = 1 .. at - 1
    BY <2>1 DEF Session
  <2>4. skipped' = skipped
        /\ \/ solved' = solved \cup {at} /\ failed' = failed
           \/ solved' = solved /\ failed' = failed \cup {at}
    BY <1>3 DEF Execute
  <2>5. solved' \cup failed' \cup skipped' = 1 .. at' - 1
    BY <2>2, <2>3, <2>4
  <2>6. solved' \cap failed' = {} /\ (solved' \cup failed') \cap skipped' = {}
    BY <2>2, <2>3, <2>4 DEF Session
  <2>7. Len(buf') <= FlushEvery
    <3>1. at \in Cands
      BY <1>0, <2>1 DEF Cands
    <3>2. Len(Append(buf, Record(at, o))) = Len(buf) + 1
      BY <1>b, <3>1, RecordTypes, AppendProperties
    <3>3. buf' = buf \/ buf' = Append(buf, Record(at, o))
      BY <1>3 DEF Execute
    <3> QED BY <1>0, <1>b, <2>1, <3>2, <3>3
  <2>8. /\ UNCHANGED <<file, ledgers, report, manifest, marked, skipped, launches, loaded>>
    BY <1>3 DEF Execute, disk
  <2> QED BY <1>0, <2>1, <2>2, <2>4, <2>5, <2>6, <2>7, <2>8 DEF Session
<1>4. CASE Flush
  <2>1. Written
    BY <1>4, WrittenSteps
  <2> QED BY <1>0, <1>4, <2>1, WrittenTypes DEF Flush, Session, rows, Written
<1>5. CASE Close
  <2>1. Written
    BY <1>5, WrittenSteps
  <2> QED BY <1>0, <1>5, <2>1, WrittenTypes DEF Close, Session, rows, Written
<1>6. CASE AppendLedger
  <2>1. pc = "ledger" /\ pc' \in {"ledger", "truncate"} /\ buf = <<>> /\ ~marked /\ launches # 0
    BY <1>6 DEF AppendLedger, Session
  <2> QED BY <1>6, <2>1 DEF AppendLedger, Session, rows
<1>7. CASE TruncateReport
  BY <1>7 DEF TruncateReport, Session, rows
<1>8. CASE WriteReport
  <2>1. report'.kind = "whole" /\ report'.failed = failed
    BY <1>8 DEF WriteReport
  <2> QED BY <1>8, <2>1 DEF WriteReport, Session, rows
<1>9. CASE WriteManifest
  BY <1>9 DEF WriteManifest, Exit, Session, rows
<1>10. CASE Mark
  BY <1>10 DEF Mark, Exit, Session
<1>11. CASE Terminate \/ Kill
  <2>1. Written
    BY <1>11, WrittenSteps
  <2>2. Exit /\ UNCHANGED <<ledgers, report, manifest, marked, launches>> /\ pc # "idle"
    BY <1>11 DEF Terminate, Kill
  <2> QED BY <1>0, <2>1, <2>2, WrittenTypes DEF Exit, Session, Written
<1>12. CASE UNCHANGED vars
  BY <1>12 DEF vars, disk, rows, Session
<1> QED
  BY <1>1, <1>2, <1>3, <1>4, <1>5, <1>6, <1>7, <1>8, <1>9, <1>10, <1>11, <1>12
     DEF Next, Step

LEMMA WholeLoopNext == TypeOK /\ Session /\ WholeLoop /\ [Next]_vars => WholeLoop'
<1> SUFFICES ASSUME TypeOK, Session, WholeLoop, [Next]_vars, ContinueOnError
             PROVE  pc' # "close" /\ (pc' \in After => solved' \cup failed' \cup skipped' = Cands)
  BY DEF WholeLoop
<1>1. CASE Close
  <2>1. pc = "loop" /\ at > N
    BY <1>1 DEF Close, WholeLoop
  <2>2. at = N + 1
    BY <2>1, BoundsAssumption, LedgerFacts DEF Session, TypeOK
  <2>3. solved \cup failed \cup skipped = Cands
    BY <2>1, <2>2, BoundsAssumption DEF Session, Cands
  <2> QED BY <1>1, <2>3 DEF Close, rows
<1>2. CASE Launch \/ Skip \/ (\E o \in {"ok", "retry", "early", "late"} : Execute(o)) \/ Flush
  BY <1>2 DEF Launch, Skip, Execute, Flush, Turn, After, WholeLoop
<1>3. CASE AppendLedger \/ TruncateReport \/ WriteReport
  BY <1>3 DEF AppendLedger, TruncateReport, WriteReport, rows, After, WholeLoop
<1>4. CASE WriteManifest \/ Mark \/ Terminate \/ Kill
  BY <1>4 DEF WriteManifest, Mark, Terminate, Kill, Exit, rows, After, WholeLoop
<1>5. CASE UNCHANGED vars
  BY <1>5 DEF vars, rows, WholeLoop
<1> QED BY <1>1, <1>2, <1>3, <1>4, <1>5 DEF Next, Step

(***************************************************************************)
(* What is recorded and what can be read, before and after a step.         *)
(***************************************************************************)
LEMMA ReadableNow ==
  TypeOK /\ Session => /\ Readable = ReadableOf(Recorded)
                       /\ Recorded \in Seq(Lines) /\ Len(Recorded) \in Nat
<1> SUFFICES ASSUME TypeOK, Session
             PROVE  /\ Readable = ReadableOf(Recorded)
                    /\ Recorded \in Seq(Lines) /\ Len(Recorded) \in Nat
  OBVIOUS
<1>1. Proper(file, Records) /\ buf \in Seq(Records)
  BY FileIsProper
<1>2. Recorded \in Seq(Lines) /\ Len(Recorded) \in Nat
  BY <1>1, RecordedAt, RecordFacts, LenProperties DEF Recorded
<1>3. Readable = ReadableOf(Recorded)
  BY <1>1, ReadableRecords DEF Readable, Recorded
<1> QED BY <1>2, <1>3

LEMMA ReadableNext ==
  TypeOK' /\ Session' => /\ Readable' = ReadableOf(Recorded')
                         /\ Recorded' \in Seq(Lines) /\ Len(Recorded') \in Nat
<1> SUFFICES ASSUME TypeOK', Session'
             PROVE  /\ Readable' = ReadableOf(Recorded')
                    /\ Recorded' \in Seq(Lines) /\ Len(Recorded') \in Nat
  OBVIOUS
<1> DEFINE f == file'
           b == buf'
<1>1. Proper(f, Records) /\ b \in Seq(Records)
  BY DEF TypeOK, Session, Proper, Files, LinesOf, Lines
<1>2. Recorded' = f.lines \o b
  BY DEF Recorded
<1>3. Readable' = {r.cand : r \in (Decoded(f) \cup {b[i] : i \in DOMAIN b}) \ {Junk}}
  BY DEF Readable
<1> HIDE DEF f, b
<1>4. f.lines \o b \in Seq(Lines) /\ Len(f.lines \o b) \in Nat
  BY <1>1, RecordedAt, RecordFacts, LenProperties
<1>5. Readable' = ReadableOf(f.lines \o b)
  BY <1>1, <1>3, ReadableRecords
<1> QED BY <1>2, <1>4, <1>5

LEMMA WrittenRecorded ==
  ASSUME Written PROVE Recorded' = file'.lines
BY NothingBuffered DEF Written, Follows, Recorded

LEMMA ExecuteRecorded ==
  ASSUME TypeOK, Session, NEW o, Execute(o), o # "early"
  PROVE  /\ at \in Cands /\ Len(Recorded) \in Nat /\ Len(Recorded') = Len(Recorded) + 1
         /\ \A i \in 1 .. Len(Recorded) : Recorded'[i] = Recorded[i]
         /\ Recorded'[Len(Recorded) + 1] = Record(at, o)
<1>1. Proper(file, Records) /\ buf \in Seq(Records) /\ file' = file
  BY FileIsProper DEF Execute, disk
<1>2. at \in Cands
  BY BoundsAssumption DEF Execute, Turn, TypeOK, Cands
<1>3. buf' = Append(buf, Record(at, o)) /\ Record(at, o) \in Records
  BY <1>2, RecordTypes DEF Execute
<1>4. /\ buf' \in Seq(Records) /\ Len(buf') = Len(buf) + 1 /\ Len(buf) \in Nat
      /\ buf'[Len(buf) + 1] = Record(at, o)
      /\ \A i \in 1 .. Len(buf) : buf'[i] = buf[i]
  BY <1>1, <1>3, AppendProperties, LenProperties
<1> DEFINE n == Len(file.lines)
<1>5. /\ Len(Recorded) = n + Len(buf) /\ n \in Nat
      /\ \A i \in 1 .. n : Recorded[i] = file.lines[i]
      /\ \A i \in n + 1 .. n + Len(buf) : Recorded[i] = buf[i - n]
  BY <1>1, RecordedAt DEF Recorded
<1>6. /\ Len(Recorded') = n + Len(buf')
      /\ \A i \in 1 .. n : Recorded'[i] = file.lines[i]
      /\ \A i \in n + 1 .. n + Len(buf') : Recorded'[i] = buf'[i - n]
  <2> DEFINE b == buf'
  <2>1. b \in Seq(Records)
    BY <1>4
  <2> HIDE DEF b
  <2>2. LET r == file.lines \o b
        IN  /\ Len(r) = n + Len(b)
            /\ \A i \in 1 .. n : r[i] = file.lines[i]
            /\ \A i \in n + 1 .. n + Len(b) : r[i] = b[i - n]
    BY <1>1, <2>1, RecordedAt
  <2>3. Recorded' = file.lines \o b
    BY <1>1 DEF Recorded, b
  <2> QED BY <2>2, <2>3 DEF b
<1> HIDE DEF n
<1>7. Len(Recorded) \in Nat /\ Len(Recorded') = Len(Recorded) + 1
  BY <1>4, <1>5, <1>6
<1>8. ASSUME NEW i \in 1 .. Len(Recorded) PROVE Recorded'[i] = Recorded[i]
  <2>1. CASE i <= n
    BY <1>4, <1>5, <1>6, <2>1
  <2>2. CASE ~(i <= n)
    <3>1. i \in n + 1 .. n + Len(buf) /\ i \in n + 1 .. n + Len(buf') /\ i - n \in 1 .. Len(buf)
      BY <1>4, <1>5, <2>2
    <3> QED BY <1>4, <1>5, <1>6, <3>1
  <2> QED BY <2>1, <2>2
<1>9. Recorded'[Len(Recorded) + 1] = Record(at, o)
  <2>1. Len(Recorded) + 1 \in n + 1 .. n + Len(buf') /\ (Len(Recorded) + 1) - n = Len(buf) + 1
    BY <1>4, <1>5
  <2> QED BY <1>4, <1>6, <2>1
<1> QED BY <1>2, <1>7, <1>8, <1>9

\* A candidate is not recorded as final when the session comes to solve it.
LEMMA NotYetFinal ==
  ASSUME TypeOK, Session, Recording, NEW o, Execute(o)
  PROVE  \A i \in 1 .. Len(Recorded) :
           Recorded[i] # Junk /\ Recorded[i].cand = at => Recorded[i].again
<1>1. pc = "loop" /\ at \notin loaded /\ at \in Nat \ {0}
  BY BoundsAssumption DEF Execute, Turn, TypeOK
<1>2. at \notin 1 .. at - 1
  BY <1>1
<1> QED BY <1>1, <1>2 DEF Recording

(***************************************************************************)
(* Every step keeps the records part.                                      *)
(***************************************************************************)
LEMMA RecordingNext == TypeOK /\ Session /\ Recording /\ [Next]_vars => Recording'
<1> SUFFICES ASSUME TypeOK, Session, Recording, [Next]_vars PROVE Recording'
  OBVIOUS
<1> DEFINE Finals(r) == \A i \in 1 .. Len(r) :
             r[i] # Junk /\ ~r[i].again => r[i].cand \in loaded' \cup 1 .. at' - 1
           Retries(r) == \A i \in 1 .. Len(r) :
             r[i] # Junk /\ r[i].again => "retry" \in Outcomes[r[i].cand]
<1> SUFFICES NoSecond(Recorded') /\ (pc' = "loop" => Finals(Recorded')) /\ Retries(Recorded')
  BY DEF Recording
<1>0. /\ NoSecond(Recorded) /\ Retries(Recorded) /\ Len(Recorded) \in Nat
      /\ Proper(file, Records) /\ buf \in Seq(Records)
  BY ReadableNow, FileIsProper DEF Recording
<1>1. CASE Launch
  <2>1. Recorded' = Recorded /\ buf = <<>> /\ pc = "idle"
    BY <1>1 DEF Launch, Recorded, Session, disk
  <2>2. Recorded = file.lines
    BY <1>0, <2>1, NothingBuffered DEF Recorded
  <2>3. ASSUME NEW i \in 1 .. Len(Recorded), Recorded[i] # Junk, ~Recorded[i].again
        PROVE  Recorded[i].cand \in loaded'
    <3>1. launches # 0
      <4>1. launches = 0 => Len(file.lines) = 0
        BY EmptySeq DEF Session, Empty
      <4> QED BY <2>2, <2>3, <4>1
    <3>2. Recorded[i] \in Decoded(file)
      BY <1>0, <2>2, <2>3, FileTypes DEF Decoded
    <3> QED BY <1>1, <2>3, <3>1, <3>2 DEF Launch, DoneIds
  <2> QED BY <1>0, <2>1, <2>3
<1>2. ASSUME NEW o \in {"ok", "retry", "early", "late"}, Execute(o), o # "early"
      PROVE  NoSecond(Recorded') /\ Retries(Recorded') /\ (pc' = "loop" => Finals(Recorded'))
  <2> DEFINE n == Len(Recorded)
             s == Recorded'
  <2>1. /\ at \in Cands /\ Len(s) = n + 1
        /\ \A i \in 1 .. n : s[i] = Recorded[i]
        /\ s[n + 1] = Record(at, o)
    BY <1>2, ExecuteRecorded
  <2>2. /\ Record(at, o) # Junk /\ Record(at, o).cand = at
        /\ Record(at, o).again <=> o = "retry"
    BY <2>1, RecordTypes
  <2>3. \A i \in 1 .. n : Recorded[i] # Junk /\ Recorded[i].cand = at => Recorded[i].again
    BY <1>2, NotYetFinal
  <2>4. pc = "loop" /\ o \in Outcomes[at] /\ loaded' = loaded /\ at' = at + 1
    BY <1>2 DEF Execute, Turn
  <2>5. n \in Nat /\ at \in 1 .. at' - 1 /\ (1 .. at - 1) \subseteq 1 .. at' - 1
    BY <1>0, <2>1, <2>4, BoundsAssumption DEF Cands
  <2>6. \A i \in 1 .. n : Recorded[i] # Junk /\ ~Recorded[i].again
                            => Recorded[i].cand \in loaded \cup 1 .. at - 1
    BY <2>4 DEF Recording
  <2> HIDE DEF n, s
  <2>7. ASSUME NEW i \in 1 .. Len(s), NEW j \in 1 .. Len(s), i < j, s[i] # Junk, s[j] # Junk,
               s[i].cand = s[j].cand
        PROVE  s[i].again
    <3>1. i \in 1 .. n /\ s[i] = Recorded[i]
      BY <2>1, <2>5, <2>7
    <3>2. CASE j \in 1 .. n
      <4>1. s[j] = Recorded[j]
        BY <2>1, <3>2
      <4> QED BY <1>0, <2>7, <3>1, <3>2, <4>1 DEF NoSecond, n
    <3>3. CASE j = n + 1
      BY <2>1, <2>2, <2>3, <2>7, <3>1, <3>3
    <3> QED BY <2>1, <2>5, <3>2, <3>3
  <2>8. ASSUME NEW i \in 1 .. Len(s), s[i] # Junk
        PROVE  /\ s[i].again => "retry" \in Outcomes[s[i].cand]
               /\ ~s[i].again => s[i].cand \in loaded' \cup 1 .. at' - 1
    <3>1. CASE i \in 1 .. n
      <4>1. s[i] = Recorded[i]
        BY <2>1, <3>1
      <4>2. Recorded[i].again => "retry" \in Outcomes[Recorded[i].cand]
        BY <1>0, <2>8, <3>1, <4>1 DEF n
      <4> QED BY <2>4, <2>5, <2>6, <2>8, <3>1, <4>1, <4>2
    <3>2. CASE i = n + 1
      BY <2>1, <2>2, <2>4, <2>5, <3>2
    <3> QED BY <2>1, <2>5, <3>1, <3>2
  <2> QED BY <2>7, <2>8 DEF NoSecond, s
<1>3. CASE Skip \/ Execute("early")
  <2>1. Recorded' = Recorded
    BY <1>3 DEF Skip, Execute, Recorded, disk
  <2>2. pc = "loop" /\ at \in Nat /\ at' = at + 1 /\ loaded' = loaded
    BY <1>3, BoundsAssumption DEF Skip, Execute, Turn, TypeOK
  <2>3. (1 .. at - 1) \subseteq 1 .. at' - 1
    BY <2>2
  <2> QED BY <1>0, <2>1, <2>2, <2>3 DEF Recording
<1>4. CASE Flush \/ Close \/ Terminate \/ Kill
  <2>1. Written
    BY <1>4, WrittenSteps
  <2>2. Recorded' = file'.lines
    BY <2>1, WrittenRecorded
  <2>3. /\ \A i \in 1 .. Len(Recorded') : Recorded'[i] # Junk =>
              \E j \in 1 .. Len(Recorded) : Recorded'[i] = Recorded[j]
        /\ NoSecond(Recorded')
    <3> DEFINE g == file'
    <3>1. Follows(g, file, buf, Records) /\ Recorded' = g.lines
      BY <2>1, <2>2 DEF Written
    <3> HIDE DEF g
    <3>2. /\ \A i \in 1 .. Len(g.lines) : g.lines[i] # Junk =>
                \E j \in 1 .. Len(file.lines \o buf) : g.lines[i] = (file.lines \o buf)[j]
          /\ NoSecond(file.lines \o buf) => NoSecond(g.lines)
      BY <1>0, <3>1, FollowsRecords
    <3>3. file.lines \o buf = Recorded
      BY DEF Recorded
    <3> QED BY <1>0, <3>1, <3>2, <3>3
  <2>4. pc' = "loop" => pc = "loop" /\ loaded' = loaded /\ at' = at
    BY <1>4 DEF Flush, Close, Terminate, Kill, Exit
  <2> HIDE DEF Recorded
  <2>5. pc' = "loop" => Finals(Recorded')
    BY <2>3, <2>4 DEF Recording
  <2>6. Retries(Recorded')
    BY <1>0, <2>3
  <2> QED BY <2>3, <2>5, <2>6
<1>5. CASE AppendLedger \/ TruncateReport \/ WriteReport \/ WriteManifest \/ Mark
  <2>1. Recorded' = Recorded /\ pc' # "loop"
    BY <1>5 DEF AppendLedger, TruncateReport, WriteReport, WriteManifest, Mark, Exit, Recorded
  <2> QED BY <1>0, <2>1
<1>6. CASE UNCHANGED vars
  BY <1>6 DEF vars, disk, rows, Recording, Recorded
<1> QED BY <1>1, <1>2, <1>3, <1>4, <1>5, <1>6 DEF Next, Step

(***************************************************************************)
(* Every step keeps the bound on what is lost.                             *)
(***************************************************************************)
\* A file that is not torn follows one that was not torn, whose lines it keeps.
\* UntornFollows for the steps of the system.
LEMMA UntornStep ==
  ASSUME TypeOK, Session, Written, Untorn'
  PROVE  /\ Untorn /\ Len(file.lines) \in Nat /\ Len(file'.lines) \in Nat
         /\ \A i \in 1 .. Len(file.lines) :
              i \in 1 .. Len(file'.lines) /\ file'.lines[i] = file.lines[i]
<1> DEFINE g == file'
<1>1. Proper(file, Records) /\ buf \in Seq(Records) /\ Follows(g, file, buf, Records)
  BY FileIsProper DEF Written
<1>2. ~g.open /\ Junk \notin Range(g.lines)
  BY DEF Untorn
<1> HIDE DEF g
<1>3. /\ ~file.open /\ Junk \notin Range(file.lines)
      /\ Len(file.lines) \in Nat /\ Len(g.lines) \in Nat
      /\ \A i \in 1 .. Len(file.lines) : i \in 1 .. Len(g.lines) /\ g.lines[i] = file.lines[i]
  BY <1>1, <1>2, UntornFollows
<1> QED BY <1>3 DEF Untorn, g

LEMMA LessIsLost ==
  ASSUME Losing, file' = file, Lost(InSession)' \subseteq Lost(InSession)
  PROVE  Losing'
BY DEF Losing

LEMMA NothingIsLost ==
  ASSUME Lost(InSession)' = {} PROVE Losing'
<1>1. 0 \in 0 .. N
  BY BoundsAssumption
<1> QED BY <1>1 DEF Losing

LEMMA RecordCands ==
  ASSUME NEW r \in Lines PROVE r.cand \in 0 .. N
BY BoundsAssumption DEF Lines, Records, Junk, Cands

LEMMA FlushLosing ==
  ASSUME TypeOK, Session, TypeOK', Session', Losing, FlushBuffer, InSession' = InSession
  PROVE  Losing'
<1>0. Proper(file, Records) /\ buf \in Seq(Records)
  BY FileIsProper
<1> DEFINE g == file'
           last == file.lines[Len(file.lines)].cand
           first == buf[1].cand
<1>1. g = Appended(file, buf) /\ Recorded' = g.lines
  <2>1. Written
    BY <1>0, AppendedFollows DEF FlushBuffer, Written
  <2> QED BY <2>1, WrittenRecorded DEF FlushBuffer
<1>2. Readable = ReadableOf(file.lines \o buf) /\ Readable' = ReadableOf(g.lines)
  BY <1>1, ReadableNow, ReadableNext DEF Recorded
<1>3. \A c \in Readable : c \in Readable' \/ (file.open /\ buf # <<>> /\ c \in {last, first})
  BY <1>0, <1>1, <1>2, FlushReadable
<1> HIDE DEF last, first
<1>4. CASE file.open /\ buf # <<>>
  <2>1. Lost(InSession) = {}
    BY <1>4 DEF Losing
  <2>2. InSession \subseteq Readable
    BY <2>1 DEF Lost
  <2>3. Lost(InSession)' \subseteq {last, first}
    BY <1>3, <2>2 DEF Lost
  <2>4. last \in 0 .. N /\ first \in 0 .. N
    <3>1. file.lines[Len(file.lines)] \in Lines
      BY <1>0, <1>4, FileTypes, RecordFacts
    <3>2. buf[1] \in Lines
      <4>1. buf # <<>> => 1 \in 1 .. Len(buf)
        BY <1>0, EmptySeq, LenProperties
      <4> QED BY <1>0, <1>4, <4>1, ElementOfSeq, RecordFacts
    <3> QED BY <3>1, <3>2, RecordCands DEF last, first
  <2>5. ~g.open /\ Junk \in Range(g.lines)
    <3>1. Len(file.lines) \in Nat /\ Len(file.lines) > 0 /\ Len(buf) \in Nat /\ Len(buf) > 0
      BY <1>0, <1>4, FileTypes, EmptySeq
    <3>2. /\ Proper(g, Records) /\ Len(g.lines) = Len(file.lines) + Len(buf) - 1 /\ ~g.open
          /\ g.lines[Len(file.lines)] = Junk
      <4> DEFINE h == Appended(file, buf)
                 n == Len(file.lines)
                 d == IF file.open /\ buf # <<>> THEN 1 ELSE 0
      <4>1. /\ Proper(h, Records) /\ Len(h.lines) = n + Len(buf) - d
            /\ h.open <=> file.open /\ buf = <<>>
            /\ \A i \in 1 .. n : h.lines[i] = IF d = 1 /\ i = n THEN Junk ELSE file.lines[i]
        <5>1. /\ Proper(Appended(file, buf), Records)
              /\ AppendShape(Appended(file, buf), file, Len(file.lines), buf, Joined(file, buf))
          BY <1>0, AppendedShape
        <5> QED BY <5>1 DEF AppendShape, Joined
      <4>2. d = 1 /\ n \in 1 .. n /\ g = h
        BY <1>1, <1>4, <3>1
      <4> HIDE DEF h, n, d, g
      <4>3. Proper(g, Records) /\ Len(g.lines) = n + Len(buf) - 1 /\ g.lines[n] = Junk
        BY <4>1, <4>2
      <4>4. ~g.open
        BY <1>4, <4>1, <4>2
      <4> QED BY <4>3, <4>4 DEF n
    <3>3. Len(file.lines) \in 1 .. Len(g.lines)
      BY <3>1, <3>2
    <3> QED BY <3>2, <3>3, InRange, FileTypes
  <2> QED BY <2>3, <2>4, <2>5 DEF Losing
<1>5. CASE file.open /\ buf = <<>>
  <2>1. g = file
    BY <1>1, <1>5 DEF Appended
  <2>2. Lost(InSession)' \subseteq Lost(InSession)
    BY <1>3, <1>5 DEF Lost
  <2> QED BY <2>1, <2>2, LessIsLost
<1>6. CASE ~file.open
  <2>1. Lost(InSession)' \subseteq Lost(InSession)
    BY <1>3, <1>6 DEF Lost
  <2>2. ~g.open
    BY <1>0, <1>1, <1>6, AppendedShape DEF AppendShape
  <2>3. Junk \in Range(file.lines) => Junk \in Range(g.lines)
    BY <1>0, <1>1, <1>6, <2>2, AppendedFollows, UntornFollows
  <2> QED BY <2>1, <2>2, <2>3 DEF Losing
<1> QED BY <1>4, <1>5, <1>6

LEMMA LosingNext ==
  TypeOK /\ Session /\ TypeOK' /\ Session' /\ Losing /\ [Next]_vars => Losing'
<1> SUFFICES ASSUME TypeOK, Session, TypeOK', Session', Losing, [Next]_vars PROVE Losing'
  OBVIOUS
<1>1. CASE Launch
  <2>1. DoneIds \subseteq Readable
    BY DEF DoneIds, Readable, Decoded
  <2>2. InSession' \subseteq DoneIds
    BY <1>1 DEF Launch, InSession
  <2>3. Readable' = Readable
    BY <1>1 DEF Launch, Readable, disk
  <2> QED BY <2>1, <2>2, <2>3, NothingIsLost DEF Lost
<1>2. ASSUME NEW o \in {"ok", "retry", "early", "late"}, Execute(o) PROVE Losing'
  <2>1. file' = file /\ loaded' = loaded
    BY <1>2 DEF Execute, disk
  <2>2. CASE o = "early"
    <3>1. Readable' = Readable /\ InSession' = InSession
      BY <1>2, <2>1, <2>2 DEF Execute, Readable, InSession
    <3> QED BY <2>1, <3>1, LessIsLost DEF Lost
  <2>3. CASE o # "early"
    <3>1. /\ at \in Cands /\ Len(Recorded) \in Nat /\ Len(Recorded') = Len(Recorded) + 1
          /\ \A i \in 1 .. Len(Recorded) : Recorded'[i] = Recorded[i]
          /\ Recorded'[Len(Recorded) + 1] = Record(at, o)
      BY <1>2, <2>3, ExecuteRecorded
    <3>2. Record(at, o) # Junk /\ Record(at, o).cand = at
      BY <3>1, RecordTypes
    <3>3. Readable = ReadableOf(Recorded) /\ Readable' = ReadableOf(Recorded')
      BY ReadableNow, ReadableNext
    <3>4. (1 .. Len(Recorded)) \subseteq 1 .. Len(Recorded')
          /\ Len(Recorded) + 1 \in 1 .. Len(Recorded')
      BY <3>1
    <3>5. Readable \subseteq Readable' /\ at \in Readable'
      BY <3>1, <3>2, <3>3, <3>4 DEF ReadableOf
    <3>6. InSession' \subseteq InSession \cup {at}
      BY <1>2, <2>1 DEF Execute, InSession
    <3> QED BY <2>1, <3>5, <3>6, LessIsLost DEF Lost
  <2> QED BY <2>2, <2>3
<1>3. CASE Flush \/ Close
  BY <1>3, FlushLosing DEF Flush, Close, InSession, rows
<1>4. CASE Terminate \/ Kill \/ Mark
  BY <1>4, NothingIsLost DEF Terminate, Kill, Mark, Exit, Lost, InSession
<1>5. CASE Skip \/ AppendLedger \/ TruncateReport \/ WriteReport \/ UNCHANGED vars
  <2>1. UNCHANGED <<file, buf, loaded, solved>>
    BY <1>5 DEF Skip, AppendLedger, TruncateReport, WriteReport, vars, disk, rows
  <2> QED BY <2>1, LessIsLost DEF Lost, InSession, Readable
<1>6. CASE WriteManifest
  <2>1. UNCHANGED <<file, buf>> /\ InSession' \subseteq InSession
    BY <1>6 DEF WriteManifest, Exit, rows, InSession
  <2> QED BY <2>1, LessIsLost DEF Lost, Readable
<1> QED BY <1>1, <1>2, <1>3, <1>4, <1>5, <1>6 DEF Next, Step

LEMMA MarkedLosingNext ==
  TypeOK /\ Session /\ WholeLoop /\ Losing /\ MarkedLosing /\ [Next]_vars => MarkedLosing'
<1> SUFFICES ASSUME TypeOK, Session, WholeLoop, Losing, MarkedLosing, [Next]_vars,
                    ContinueOnError, marked'
             PROVE  /\ \E a, b \in 0 .. N : Lost(Enabled)' \subseteq {a, b}
                    /\ Untorn' => Lost(Enabled)' = {}
  BY DEF MarkedLosing
<1>1. CASE Mark
  <2>1. UNCHANGED <<file, buf, report>> /\ pc = "mark"
    BY <1>1 DEF Mark
  <2>2. solved \cup failed \cup skipped = Cands /\ report.failed = failed
        /\ skipped \subseteq loaded \cup Disabled
    BY <2>1 DEF WholeLoop, After, Session
  <2>3. Enabled' \subseteq InSession /\ Readable' = Readable
    BY <2>1, <2>2 DEF Enabled, InSession, Readable
  <2>4. Lost(Enabled)' \subseteq Lost(InSession) /\ (Untorn' <=> Untorn)
    BY <2>1, <2>3 DEF Lost, Untorn
  <2> QED BY <2>4 DEF Losing, Untorn
<1>2. CASE ~Mark
  <2>1. marked
    BY <1>2 DEF Next, Step, Launch, Skip, Execute, Flush, Close, AppendLedger, TruncateReport,
                WriteReport, WriteManifest, Terminate, Kill, vars, disk
  <2>2. UNCHANGED vars
    BY <1>2, <2>1 DEF Session, Next, Step, Launch, Skip, Execute, Turn, Flush, Close,
                AppendLedger, TruncateReport, WriteReport, WriteManifest, Terminate, Kill
  <2> QED BY <2>1, <2>2 DEF MarkedLosing, vars, disk, Enabled, Lost, Readable, Untorn
<1> QED BY <1>1, <1>2

(***************************************************************************)
(* Every step keeps the rows of the ledgers with their records.            *)
(***************************************************************************)
LEMMA OneRowNext ==
  TypeOK /\ Session /\ Recording /\ Losing /\ OneRow /\ [Next]_vars => OneRow'
<1> SUFFICES ASSUME TypeOK, Session, Recording, Losing, OneRow, [Next]_vars, Untorn',
                    NEW k \in DOMAIN Ledgers, NEW c \in Cands, Rows(k, c)
             PROVE  /\ ledgers'[k][c] <= 1
                    /\ ledgers'[k][c] > 0 => Final(c)'
                    /\ c \in solved' /\ (pc' \in {"loop", "close"} \/ (pc' = "ledger" /\ at' <= k))
                         => ledgers'[k][c] = 0
  BY DEF OneRow, Rows
<1>0. /\ k \in 1 .. 4 /\ k # 4 /\ ledgers[k][c] \in Nat
  BY LedgerFacts DEF Rows, TypeOK
<1> DEFINE Old == /\ ledgers[k][c] <= 1
                  /\ ledgers[k][c] > 0 => Final(c)
                  /\ c \in solved /\ (pc \in {"loop", "close"} \/ (pc = "ledger" /\ at <= k))
                       => ledgers[k][c] = 0
<1>1. Untorn => Old
  BY DEF OneRow
<1>2. CASE UNCHANGED file
  <2>1. Old /\ (Final(c)' <=> Final(c))
    BY <1>1, <1>2 DEF Untorn, Final
  <2> HIDE DEF Final
  <2>2. CASE Launch
    BY <2>1, <2>2 DEF Launch, disk
  <2>3. CASE Skip \/ TruncateReport \/ WriteReport
    BY <2>1, <2>3 DEF Skip, TruncateReport, WriteReport, Turn, disk, rows
  <2>4. ASSUME NEW o \in {"ok", "retry", "early", "late"}, Execute(o)
        PROVE  /\ ledgers'[k][c] <= 1
               /\ ledgers'[k][c] > 0 => Final(c)'
               /\ c \in solved' => ledgers'[k][c] = 0
    <3>1. ledgers' = ledgers /\ pc = "loop"
      BY <2>4 DEF Execute, Turn, disk
    <3>2. solved' \subseteq solved \cup {at}
      BY <2>4 DEF Execute
    <3>3. c = at => ledgers[k][c] = 0
      <4>1. ASSUME Final(at) PROVE FALSE
        <5>1. PICK i \in 1 .. Len(file.lines) :
                file.lines[i] # Junk /\ file.lines[i].cand = at /\ ~file.lines[i].again
          BY <4>1 DEF Final
        <5>2. Len(file.lines) \in Nat /\ Len(Recorded) = Len(file.lines) + Len(buf)
              /\ Len(buf) \in Nat /\ Recorded[i] = file.lines[i]
          BY <5>1, FileIsProper, RecordedAt DEF Recorded
        <5>3. i \in 1 .. Len(Recorded)
          BY <5>1, <5>2
        <5> QED BY <2>4, <5>1, <5>2, <5>3, NotYetFinal
      <4> QED BY <1>0, <2>1, <4>1
    <3> QED BY <2>1, <3>1, <3>2, <3>3
  <2>5. CASE AppendLedger
    <3>1. pc = "ledger" /\ at \in 1 .. 4
      BY <2>5, LedgerFacts DEF AppendLedger, TypeOK
    <3>2. ledgers'[k][c] = IF k = at /\ c \in solved THEN ledgers[k][c] + 1 ELSE ledgers[k][c]
      <4>1. k = at => (c \in LedgerRows(at) <=> c \in solved)
        BY DEF LedgerRows, Rows
      <4>2. ledgers' = [ledgers EXCEPT ![at] = [x \in Cands |->
                   ledgers[at][x] + (IF x \in LedgerRows(at) THEN 1 ELSE 0)]]
        BY <2>5 DEF AppendLedger
      <4>3. DOMAIN ledgers = DOMAIN Ledgers
        BY DEF TypeOK
      <4> HIDE DEF Rows
      <4>4. CASE k = at
        <5>1. ledgers'[k] = [x \in Cands |->
                   ledgers[k][x] + (IF x \in LedgerRows(k) THEN 1 ELSE 0)]
          BY <4>2, <4>3, <4>4
        <5>2. ledgers'[k][c] = ledgers[k][c] + (IF c \in LedgerRows(k) THEN 1 ELSE 0)
          BY <5>1
        <5> QED BY <1>0, <4>1, <4>4, <5>2
      <4>5. CASE k # at
        BY <4>2, <4>3, <4>5
      <4> QED BY <4>4, <4>5
    <3>3. c \in solved => Final(c)
      <4> SUFFICES ASSUME c \in solved PROVE Final(c)
        OBVIOUS
      <4>1. c \in Readable
        BY <1>2 DEF Losing, Lost, InSession, Untorn
      <4>2. Recorded = file.lines
        BY <3>1, FileIsProper, NothingBuffered DEF Session, Recorded
      <4>3. PICK i \in 1 .. Len(Recorded) : Recorded[i] # Junk /\ Recorded[i].cand = c
        BY <4>1, ReadableNow DEF ReadableOf
      <4>4. ~Recorded[i].again
        BY <4>3 DEF Recording, Rows
      <4> QED BY <4>2, <4>3, <4>4 DEF Final
    <3>4. at' = at + 1 \/ pc' # "ledger"
      BY <2>5 DEF AppendLedger
    <3>5. solved' = solved /\ pc' \notin {"loop", "close"}
      BY <2>5, <3>1 DEF AppendLedger, rows
    <3> HIDE DEF Rows
    <3>6. CASE k = at /\ c \in solved
      <4>1. ledgers[k][c] = 0
        BY <2>1, <3>1, <3>6
      <4>2. ~(at' <= k) \/ pc' # "ledger"
        BY <1>0, <3>1, <3>4, <3>6
      <4> QED BY <2>1, <3>2, <3>3, <3>5, <3>6, <4>1, <4>2
    <3>7. CASE ~(k = at /\ c \in solved)
      <4>1. pc' = "ledger" /\ at' <= k => at <= k
        BY <1>0, <3>1, <3>4
      <4> QED BY <2>1, <3>1, <3>2, <3>5, <3>7, <4>1
    <3> QED BY <3>6, <3>7
  <2>6. CASE WriteManifest \/ Mark
    BY <2>1, <2>6 DEF WriteManifest, Mark, Exit, rows
  <2>7. CASE UNCHANGED vars
    BY <2>1, <2>7 DEF vars, disk, rows
  <2>8. CASE Flush \/ Close \/ Terminate \/ Kill
    <3>1. UNCHANGED ledgers
      BY <2>8 DEF Flush, Close, Terminate, Kill
    <3>2. c \in solved' => c \in solved /\ pc \in {"loop", "close"}
      BY <2>8 DEF Flush, Close, Terminate, Kill, Exit, rows
    <3> QED BY <2>1, <3>1, <3>2
  <2> QED BY <2>2, <2>3, <2>4, <2>5, <2>6, <2>7, <2>8 DEF Next, Step
<1>3. CASE Flush \/ Close \/ Terminate \/ Kill
  <2>1. Written
    BY <1>3, WrittenSteps
  <2>2. /\ Untorn
        /\ \A i \in 1 .. Len(file.lines) :
             i \in 1 .. Len(file'.lines) /\ file'.lines[i] = file.lines[i]
    BY <2>1, UntornStep
  <2>3. Final(c) => Final(c)'
    BY <2>2 DEF Final
  <2>4. UNCHANGED ledgers
    BY <1>3 DEF Flush, Close, Terminate, Kill
  <2>5. c \in solved' => c \in solved /\ pc \in {"loop", "close"}
    BY <1>3 DEF Flush, Close, Terminate, Kill, Exit, rows
  <2> QED BY <1>1, <2>2, <2>3, <2>4, <2>5
<1>4. UNCHANGED file \/ Flush \/ Close \/ Terminate \/ Kill
  BY DEF Next, Step, Launch, Skip, Execute, AppendLedger, TruncateReport, WriteReport,
         WriteManifest, Mark, vars, disk
<1> QED BY <1>2, <1>3, <1>4

(***************************************************************************)
(* Every step keeps the report's account.                                  *)
(***************************************************************************)
LEMMA DisjointSum ==
  ASSUME NEW S, NEW T, IsFiniteSet(S), IsFiniteSet(T), S \cap T = {}
  PROVE  IsFiniteSet(S \cup T) /\ Cardinality(S \cup T) = Cardinality(S) + Cardinality(T)
<1>1. /\ IsFiniteSet(S \cup T)
      /\ Cardinality(S \cup T) = Cardinality(S) + Cardinality(T) - Cardinality(S \cap T)
  BY FS_Union
<1>2. Cardinality(S \cap T) = 0
  BY FS_EmptySet
<1>3. Cardinality(S) \in Nat /\ Cardinality(T) \in Nat
  BY FS_CardinalityType
<1> QED BY <1>1, <1>2, <1>3

LEMMA AccountedNext ==
  TypeOK /\ Session /\ WholeLoop /\ Accounted /\ [Next]_vars => Accounted'
<1> SUFFICES ASSUME TypeOK, Session, WholeLoop, Accounted, [Next]_vars, ContinueOnError
             PROVE  ReportAccounts'
  BY DEF Accounted
<1>1. CASE WriteReport
  <2>1. /\ solved \cup failed \cup skipped = Cands
        /\ solved \cap failed = {} /\ (solved \cup failed) \cap skipped = {}
    BY <1>1 DEF WriteReport, WholeLoop, After, Session
  <2>2. IsFiniteSet(solved) /\ IsFiniteSet(failed) /\ IsFiniteSet(skipped)
        /\ Cardinality(solved) \in Nat /\ Cardinality(failed) \in Nat
        /\ Cardinality(skipped) \in Nat
    BY CandsFacts DEF TypeOK
  <2>3. IsFiniteSet(solved \cup failed)
        /\ Cardinality(solved \cup failed) = Cardinality(solved) + Cardinality(failed)
    BY <2>1, <2>2, DisjointSum
  <2>4. Cardinality(solved \cup failed \cup skipped)
          = Cardinality(solved \cup failed) + Cardinality(skipped)
    BY <2>1, <2>2, <2>3, DisjointSum
  <2>5. Cardinality(Cands) = N
    BY BoundsAssumption, FS_Interval DEF Cands
  <2>6. Cardinality(solved) + Cardinality(failed) + Cardinality(skipped) = N
    BY <2>1, <2>3, <2>4, <2>5
  <2>7. report'.solved = solved /\ report'.failed = failed
        /\ report'.skipped = Cardinality(skipped)
    BY <1>1 DEF WriteReport
  <2> QED BY <2>1, <2>6, <2>7 DEF ReportAccounts
<1>2. CASE TruncateReport
  BY <1>2 DEF TruncateReport, ReportAccounts, TornReport
<1>3. CASE ~WriteReport /\ ~TruncateReport
  <2>1. UNCHANGED report
    BY <1>3 DEF Next, Step, Launch, Skip, Execute, Flush, Close, AppendLedger, WriteManifest,
                Mark, Terminate, Kill, vars, disk
  <2> QED BY <2>1 DEF Accounted, ReportAccounts
<1> QED BY <1>1, <1>2, <1>3

(***************************************************************************)
(* The invariant.                                                          *)
(***************************************************************************)
LEMMA IInvInit == Init => IInv
<1> SUFFICES ASSUME Init PROVE IInv
  OBVIOUS
<1>1. N \in Nat /\ FlushEvery \in Nat \ {0} /\ MaxLaunches \in Nat
  BY BoundsAssumption
<1>2. /\ file.lines = <<>> /\ file.open = FALSE /\ buf = <<>> /\ <<>> \in Seq(Lines)
      /\ <<>> \in Seq(Records) /\ Len(<<>>) = 0 /\ Recorded = <<>>
  BY NothingBuffered, EmptySeq DEF Init, Empty, Recorded
<1>3. TypeOK
  <2>1. file \in [lines : Seq(Lines), open : BOOLEAN]
    BY <1>2 DEF Init, Empty
  <2>2. ledgers \in [DOMAIN Ledgers -> [Cands -> Nat]]
    BY DEF Init
  <2>3. at \in 1 .. (IF pc = "ledger" THEN Len(Ledgers) ELSE N + 1 + Len(Ledgers))
    BY <1>1, LedgerFacts DEF Init
  <2>4. buf \in Seq(Records)
    BY <1>2
  <2>5. report = Absent /\ manifest \in Nat /\ marked \in BOOLEAN /\ launches \in 0 .. MaxLaunches
    <3>1. report = Absent /\ manifest = 0 /\ launches = 0
      BY DEF Init
    <3>2. marked \in BOOLEAN
      BY DEF Init
    <3> QED BY <1>1, <3>1, <3>2
  <2>6. loaded \subseteq Cands /\ pc = "idle" /\ \A s \in {solved, failed, skipped} : s \subseteq Cands
    BY DEF Init
  <2> QED BY <2>1, <2>2, <2>3, <2>4, <2>5, <2>6 DEF TypeOK
<1>4. Session
  BY <1>1, <1>2 DEF Init, Session
<1>5. WholeLoop /\ MarkedLosing /\ Accounted
  BY DEF Init, WholeLoop, After, MarkedLosing, Accounted, ReportAccounts, Absent
<1>6. Recording
  BY <1>2 DEF Init, Recording, NoSecond
<1>7. Losing
  BY <1>1 DEF Init, Losing, Lost, InSession
<1>8. OneRow
  BY DEF Init, OneRow
<1> QED BY <1>3, <1>4, <1>5, <1>6, <1>7, <1>8 DEF IInv

LEMMA IInvNext == IInv /\ [Next]_vars => IInv'
BY TypesNext, SessionNext, WholeLoopNext, RecordingNext, LosingNext, MarkedLosingNext,
   OneRowNext, AccountedNext DEF IInv

THEOREM ShardInvariant == Spec => []IInv
BY IInvInit, IInvNext, PTL DEF Spec

(***************************************************************************)
(* What it says of a shard.                                                *)
(***************************************************************************)
\* The types of ShardRunner's variables.
THEOREM ShardTypes == Spec => []TypeOK
<1>1. IInv => TypeOK
  BY DEF IInv
<1> QED BY <1>1, ShardInvariant, PTL

LEMMA InvNoSecond == IInv => NoSecondRecord
<1> SUFFICES ASSUME IInv PROVE NoSecondRecord
  OBVIOUS
<1>1. DOMAIN Recorded = 1 .. Len(Recorded) /\ NoSecond(Recorded)
  BY ReadableNow, LenProperties DEF IInv, Recording
<1> QED BY <1>1 DEF NoSecond, NoSecondRecord

\* No candidate is solved again once a record of it is final, over any number of
\* sessions (done_ids of --resume and the loop of run_campaign_ac_opf_round.py).
THEOREM RecordedOnce == Spec => []NoSecondRecord
BY InvNoSecond, ShardInvariant, PTL

LEMMA InvOneRow == IInv => LedgerRowsOnce
BY DEF IInv, OneRow, Rows, LedgerRowsOnce

\* A final record has at most one row in each per-solve ledger, whichever session
\* wrote it, unless a record was cut.
THEOREM RowsOnce == Spec => []LedgerRowsOnce
BY InvOneRow, ShardInvariant, PTL

LEMMA InvSamples == ContinueOnError /\ IInv => SamplesSound
<1> SUFFICES ASSUME ContinueOnError, IInv PROVE SamplesSound
  OBVIOUS
<1>1. AtMostTwoLost
  <2>1. PICK a \in 0 .. N, b \in 0 .. N : Counted \ Readable \subseteq {a, b}
    BY DEF IInv, Losing, MarkedLosing, Lost, InSession, Enabled, Counted
  <2> QED BY <2>1, PairBound DEF AtMostTwoLost
<1>2. DoneMeansSampled
  BY DEF IInv, MarkedLosing, Lost, Enabled, DoneMeansSampled
<1> QED BY <1>1, <1>2, InvNoSecond, InvOneRow DEF IInv, Accounted, SamplesSound

\* With --continue-on-error, as the launcher starts every shard
\* (launch_ultrascale_campaign.py), what is recorded stays recorded, once, the
\* report accounts for every candidate and a shard that is marked done has the
\* records its report promises.
THEOREM SamplesAreSound == ASSUME ContinueOnError PROVE Spec => []SamplesSound
<1>1. IInv => SamplesSound
  BY InvSamples
<1> QED BY <1>1, ShardInvariant, PTL

LEMMA LossStep ==
  IInv /\ IInv' /\ [Next]_vars =>
    (pc # "idle" /\ pc' = "idle" =>
       Cardinality(Readable \ Readable') <= FlushEvery + (IF file.open THEN 1 ELSE 0))
<1> SUFFICES ASSUME IInv, IInv', [Next]_vars, pc # "idle", pc' = "idle"
             PROVE  Cardinality(Readable \ Readable')
                      <= FlushEvery + (IF file.open THEN 1 ELSE 0)
  OBVIOUS
<1>0. TypeOK /\ Session /\ TypeOK' /\ Session' /\ FlushEvery \in Nat
  BY BoundsAssumption DEF IInv
<1>1. CASE Terminate \/ Kill
  <2>1. Written /\ Proper(file, Records) /\ buf \in Seq(Records)
    BY <1>0, <1>1, WrittenSteps, FileIsProper
  <2> DEFINE g == file'
             B == {buf[i].cand : i \in 1 .. Len(buf)}
             last == file.lines[Len(file.lines)].cand
             L == Readable \ Readable'
             U == IF file.open THEN B \cup {last} ELSE B
  <2>2. L \subseteq U
    <3>1. Readable = ReadableOf(file.lines \o buf) /\ Readable' = ReadableOf(g.lines)
      BY <1>0, <2>1, ReadableNow, ReadableNext, WrittenRecorded DEF Recorded
    <3>2. Follows(g, file, buf, Records)
      BY <2>1 DEF Written
    <3> HIDE DEF g
    <3>3. \A c \in ReadableOf(file.lines \o buf) :
           \/ c \in ReadableOf(g.lines)
           \/ \E i \in 1 .. Len(buf) : c = buf[i].cand
           \/ file.open /\ c = file.lines[Len(file.lines)].cand
      BY <2>1, <3>2, FollowsReadable
    <3> QED BY <3>1, <3>3
  <2>3. IsFiniteSet(B) /\ Cardinality(B) \in Nat /\ Cardinality(B) <= FlushEvery
    <3>1. IsFiniteSet(B) /\ Cardinality(B) \in Nat /\ Cardinality(B) <= Len(buf)
      BY <2>1, BufferBound
    <3>2. Len(buf) <= FlushEvery /\ Len(buf) \in Nat
      BY <1>0, <2>1, LenProperties DEF Session
    <3> HIDE DEF B
    <3> QED BY <1>0, <3>1, <3>2
  <2> HIDE DEF B, last, L
  <2>4. /\ IsFiniteSet(B \cup {last})
        /\ Cardinality(B \cup {last}) = IF last \in B THEN Cardinality(B) ELSE Cardinality(B) + 1
    BY <2>3, FS_AddElement
  <2>5. /\ IsFiniteSet(U) /\ Cardinality(U) \in Nat
        /\ Cardinality(U) <= FlushEvery + (IF file.open THEN 1 ELSE 0)
    BY <1>0, <2>3, <2>4
  <2>6. Cardinality(L) <= Cardinality(U) /\ Cardinality(L) \in Nat
    <3> HIDE DEF U
    <3> QED BY <2>2, <2>5, FS_Subset, FS_CardinalityType
  <2>7. Cardinality(L) <= FlushEvery + (IF file.open THEN 1 ELSE 0)
    BY <1>0, <2>5, <2>6
  <2> QED BY <2>7 DEF L
<1>2. CASE ~(Terminate \/ Kill)
  <2>1. UNCHANGED <<file, buf>>
    BY <1>2 DEF Next, Step, Launch, Skip, Execute, Flush, Close, AppendLedger, TruncateReport,
                WriteReport, WriteManifest, Mark, Turn, vars, disk
  <2>2. Readable \ Readable' = {}
    BY <2>1 DEF Readable
  <2>3. Cardinality(Readable \ Readable') = 0
    BY <2>2, FS_EmptySet
  <2> QED BY <1>0, <2>3
<1> QED BY <1>1, <1>2

\* However a session ends, it takes away at most flush_every records, and one more
\* only where an earlier kill left the last line open (SampleSink, round_runner.py).
THEOREM LossIsBounded == Spec => LossBounded
<1>1. IInv /\ IInv' /\ [Next]_vars =>
        [pc # "idle" /\ pc' = "idle" =>
           Cardinality(Readable \ Readable') <= FlushEvery + (IF file.open THEN 1 ELSE 0)]_vars
  BY LossStep
<1> QED BY <1>1, ShardInvariant, PTL DEF Spec, LossBounded
=============================================================================
