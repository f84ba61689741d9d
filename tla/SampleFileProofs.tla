-------------------------- MODULE SampleFileProofs --------------------------
(***************************************************************************)
(* Lemmas about SampleFile, for any set R of records: what a flush and a   *)
(* kill make of a file, line by line.  The proofs about ShardRunner and    *)
(* PfShard rest on them.                                                   *)
(***************************************************************************)
EXTENDS SampleFile, SequenceTheorems, TLAPS

LinesOf(R) == R \cup {Junk}
Files(R) == [lines : Seq(LinesOf(R)), open : BOOLEAN]
Proper(f, R) == f \in Files(R) /\ (f.open => f.lines # <<>>)

LEMMA LineFacts ==
  ASSUME NEW R
  PROVE  Junk \in LinesOf(R) /\ R \subseteq LinesOf(R) /\ Seq(R) \subseteq Seq(LinesOf(R))
<1>1. Junk \in LinesOf(R) /\ R \subseteq LinesOf(R)
  BY DEF LinesOf
<1> QED BY <1>1, SeqMonotonic

LEMMA FileTypes ==
  ASSUME NEW R, NEW f, Proper(f, R)
  PROVE  /\ f.lines \in Seq(LinesOf(R)) /\ f.open \in BOOLEAN /\ Len(f.lines) \in Nat
         /\ DOMAIN f.lines = 1 .. Len(f.lines)
         /\ \A i \in 1 .. Len(f.lines) : f.lines[i] \in LinesOf(R)
         /\ f.open => Len(f.lines) > 0
<1>1. f.lines \in Seq(LinesOf(R)) /\ f.open \in BOOLEAN
  BY DEF Proper, Files
<1> QED BY <1>1, LenProperties, ElementOfSeq, EmptySeq DEF Proper

\* What is left of a sequence of lines whose last line is written over.
LEMMA FrontJunk ==
  ASSUME NEW R, NEW s \in Seq(LinesOf(R)), s # <<>>
  PROVE  LET t == Front(s) \o <<Junk>>
         IN  /\ t \in Seq(LinesOf(R)) /\ Len(t) = Len(s) /\ t[Len(s)] = Junk
             /\ \A i \in 1 .. Len(s) - 1 : t[i] = s[i]
<1>1. Len(s) \in Nat \ {0} /\ \A i \in 1 .. Len(s) : s[i] \in LinesOf(R)
  BY EmptySeq, ElementOfSeq
<1>2. \A i \in 1 .. Len(s) - 1 : s[i] \in LinesOf(R)
  BY <1>1
<1>3. /\ Front(s) \in Seq(LinesOf(R))
      /\ Len(Front(s)) = IF 1 <= Len(s) - 1 THEN Len(s) - 1 - 1 + 1 ELSE 0
      /\ \A i \in 1 .. Len(s) - 1 - 1 + 1 : Front(s)[i] = s[1 + i - 1]
  BY <1>1, <1>2, SubSeqProperties DEF Front
<1>4. /\ Front(s) \in Seq(LinesOf(R)) /\ Len(Front(s)) = Len(s) - 1
      /\ \A i \in 1 .. Len(s) - 1 : Front(s)[i] = s[i]
  <2>1. ASSUME NEW l \in Nat \ {0}
        PROVE  /\ (IF 1 <= l - 1 THEN l - 1 - 1 + 1 ELSE 0) = l - 1
               /\ \A i \in 1 .. l - 1 : i \in 1 .. l - 1 - 1 + 1 /\ 1 + i - 1 = i
    OBVIOUS
  <2>2. /\ (IF 1 <= Len(s) - 1 THEN Len(s) - 1 - 1 + 1 ELSE 0) = Len(s) - 1
        /\ \A i \in 1 .. Len(s) - 1 : i \in 1 .. Len(s) - 1 - 1 + 1 /\ 1 + i - 1 = i
    BY <1>1, <2>1
  <2> QED BY <1>3, <2>2
<1>5. <<Junk>> \in Seq(LinesOf(R)) /\ Len(<<Junk>>) = 1 /\ <<Junk>>[1] = Junk
  BY LineFacts
<1> DEFINE t == Front(s) \o <<Junk>>
<1>6. /\ t \in Seq(LinesOf(R)) /\ Len(t) = Len(s) - 1 + 1
      /\ \A i \in 1 .. Len(s) - 1 + 1 :
           t[i] = IF i <= Len(s) - 1 THEN Front(s)[i] ELSE <<Junk>>[i - (Len(s) - 1)]
  BY <1>4, <1>5, ConcatProperties
<1>7. Len(s) - 1 + 1 = Len(s) /\ Len(s) - (Len(s) - 1) = 1
  BY <1>1
<1>8. t[Len(s)] = Junk
  BY <1>1, <1>5, <1>6, <1>7
<1>9. \A i \in 1 .. Len(s) - 1 : t[i] = s[i]
  BY <1>1, <1>4, <1>6
<1> HIDE DEF t
<1>10. t \in Seq(LinesOf(R)) /\ Len(t) = Len(s)
  BY <1>6, <1>7
<1> QED BY <1>8, <1>9, <1>10 DEF t

\* Appending to a file: position by position.  One line less when the first
\* record joins a line left open.
Joined(f, recs) == IF f.open /\ recs # <<>> THEN 1 ELSE 0
AppendShape(g, f, n, recs, d) ==
  /\ Len(recs) \in Nat /\ Len(g.lines) = n + Len(recs) - d
  /\ g.open <=> f.open /\ recs = <<>>
  /\ \A i \in 1 .. n : g.lines[i] = IF d = 1 /\ i = n THEN Junk ELSE f.lines[i]
  /\ \A i \in n + 1 .. Len(g.lines) : i - n + d \in 1 .. Len(recs) /\ g.lines[i] = recs[i - n + d]

LEMMA AppendedShape ==
  ASSUME NEW R, NEW f, Proper(f, R), NEW recs \in Seq(R)
  PROVE  /\ Proper(Appended(f, recs), R)
         /\ AppendShape(Appended(f, recs), f, Len(f.lines), recs, Joined(f, recs))
<1> USE DEF AppendShape, Joined
<1> DEFINE g == Appended(f, recs)
           n == Len(f.lines)
<1>1. /\ f.lines \in Seq(LinesOf(R)) /\ f.open \in BOOLEAN /\ n \in Nat
      /\ f.open => n > 0
  BY FileTypes
<1>2. recs \in Seq(LinesOf(R)) /\ Len(recs) \in Nat
  BY LineFacts, LenProperties
<1>3. CASE recs = <<>>
  <2>1. g = f /\ Len(recs) = 0
    BY <1>3, EmptySeq DEF Appended
  <2> HIDE DEF g
  <2> QED BY <1>1, <1>2, <1>3, <2>1 DEF g
<1>4. CASE recs # <<>> /\ ~f.open
  <2>1. g = [lines |-> f.lines \o recs, open |-> FALSE]
    BY <1>4 DEF Appended
  <2>2. /\ f.lines \o recs \in Seq(LinesOf(R)) /\ Len(f.lines \o recs) = n + Len(recs)
        /\ \A i \in 1 .. n + Len(recs) :
             (f.lines \o recs)[i] = IF i <= n THEN f.lines[i] ELSE recs[i - n]
    BY <1>1, <1>2, ConcatProperties
  <2>3. g.lines = f.lines \o recs /\ g.open = FALSE /\ g \in Files(R)
    BY <2>1, <2>2 DEF Files
  <2>4. Proper(g, R) /\ Len(g.lines) = n + Len(recs)
        /\ \A i \in 1 .. n + Len(recs) :
             g.lines[i] = IF i <= n THEN f.lines[i] ELSE recs[i - n]
    BY <2>2, <2>3 DEF Proper
  <2> HIDE DEF g, n
  <2>5. \A i \in 1 .. n : g.lines[i] = f.lines[i]
    BY <1>1, <1>2, <2>4
  <2>6. \A i \in n + 1 .. Len(g.lines) : /\ i - n + 0 \in 1 .. Len(recs)
                                         /\ g.lines[i] = recs[i - n + 0]
    BY <1>1, <1>2, <2>4
  <2>7. Len(g.lines) = n + Len(recs) - 0
    BY <1>1, <1>2, <2>4 DEF n
  <2>8. g.open <=> f.open /\ recs = <<>>
    BY <1>4, <2>3
  <2> QED BY <1>2, <1>4, <2>4, <2>5, <2>6, <2>7, <2>8 DEF g, n
<1>5. CASE recs # <<>> /\ f.open
  <2> DEFINE t == Front(f.lines) \o <<Junk>>
  <2>1. g = [lines |-> t \o Tail(recs), open |-> FALSE]
    BY <1>5 DEF Appended
  <2>2. /\ t \in Seq(LinesOf(R)) /\ Len(t) = n /\ t[n] = Junk
        /\ \A i \in 1 .. n - 1 : t[i] = f.lines[i]
    BY <1>1, <1>5, FrontJunk DEF Proper
  <2>3. /\ Tail(recs) \in Seq(LinesOf(R)) /\ Len(Tail(recs)) = Len(recs) - 1 /\ Len(recs) > 0
        /\ \A i \in 1 .. Len(recs) - 1 : Tail(recs)[i] = recs[i + 1]
    BY <1>2, <1>5, HeadTailProperties, EmptySeq
  <2> HIDE DEF t
  <2>4. /\ t \o Tail(recs) \in Seq(LinesOf(R)) /\ Len(t \o Tail(recs)) = n + (Len(recs) - 1)
        /\ \A i \in 1 .. n + (Len(recs) - 1) :
             (t \o Tail(recs))[i] = IF i <= n THEN t[i] ELSE Tail(recs)[i - n]
    <3>1. /\ t \o Tail(recs) \in Seq(LinesOf(R))
          /\ Len(t \o Tail(recs)) = Len(t) + Len(Tail(recs))
          /\ \A i \in 1 .. Len(t) + Len(Tail(recs)) :
               (t \o Tail(recs))[i] = IF i <= Len(t) THEN t[i] ELSE Tail(recs)[i - Len(t)]
      <4> HIDE DEF g, n
      <4> DEFINE u == Tail(recs)
      <4>1. t \in Seq(LinesOf(R)) /\ u \in Seq(LinesOf(R))
        BY <2>2, <2>3
      <4> HIDE DEF u
      <4>2. /\ t \o u \in Seq(LinesOf(R)) /\ Len(t \o u) = Len(t) + Len(u)
            /\ \A i \in 1 .. Len(t) + Len(u) :
                 (t \o u)[i] = IF i <= Len(t) THEN t[i] ELSE u[i - Len(t)]
        BY <4>1, ConcatProperties
      <4> QED BY <4>2 DEF u
    <3>2. Len(t) = n /\ Len(Tail(recs)) = Len(recs) - 1
      BY <2>2, <2>3
    <3> HIDE DEF n
    <3> QED BY <3>1, <3>2
  <2>5. g.lines = t \o Tail(recs) /\ g.open = FALSE /\ g \in Files(R)
    BY <2>1, <2>4 DEF Files
  <2>6. Proper(g, R) /\ Len(g.lines) = n + Len(recs) - 1
        /\ \A i \in 1 .. n + (Len(recs) - 1) :
             g.lines[i] = IF i <= n THEN t[i] ELSE Tail(recs)[i - n]
    BY <1>1, <1>2, <2>4, <2>5 DEF Proper
  <2> HIDE DEF g, n
  <2>7. \A i \in 1 .. n : g.lines[i] = IF i = n THEN Junk ELSE f.lines[i]
    BY <1>1, <1>2, <2>2, <2>3, <2>6
  <2>8. \A i \in n + 1 .. Len(g.lines) : /\ i - n + 1 \in 1 .. Len(recs)
                                         /\ g.lines[i] = recs[i - n + 1]
    <3> SUFFICES ASSUME NEW i \in n + 1 .. Len(g.lines)
                 PROVE  i - n + 1 \in 1 .. Len(recs) /\ g.lines[i] = recs[i - n + 1]
      OBVIOUS
    <3>1. i - n \in 1 .. Len(recs) - 1 /\ i \in 1 .. n + (Len(recs) - 1) /\ ~(i <= n)
      BY <1>1, <1>2, <2>6
    <3> QED BY <1>1, <1>2, <2>3, <2>6, <3>1
  <2> QED BY <1>1, <1>2, <1>5, <2>5, <2>6, <2>7, <2>8 DEF g, n
<1> QED BY <1>1, <1>3, <1>4, <1>5

\* A record cut in two at the end of a file.
CuttingShape(g, f, n, line) ==
  /\ g.open /\ Len(g.lines) = n + (IF f.open THEN 0 ELSE 1)
  /\ \A i \in 1 .. n : g.lines[i] = IF f.open /\ i = n THEN Junk ELSE f.lines[i]
  /\ ~f.open => g.lines[n + 1] = line

LEMMA CutShape ==
  ASSUME NEW R, NEW f, Proper(f, R), NEW line \in LinesOf(R)
  PROVE  Proper(Cut(f, line), R) /\ CuttingShape(Cut(f, line), f, Len(f.lines), line)
<1> USE DEF CuttingShape
<1> DEFINE g == Cut(f, line)
           n == Len(f.lines)
<1>1. /\ f.lines \in Seq(LinesOf(R)) /\ f.open \in BOOLEAN /\ n \in Nat
      /\ f.open => n > 0
  BY FileTypes
<1>2. CASE f.open
  <2>1. g = [lines |-> Front(f.lines) \o <<Junk>>, open |-> TRUE]
    BY <1>2 DEF Cut
  <2>2. /\ g.lines \in Seq(LinesOf(R)) /\ Len(g.lines) = n /\ g.lines[n] = Junk
        /\ \A i \in 1 .. n - 1 : g.lines[i] = f.lines[i]
    <3> DEFINE t == Front(f.lines) \o <<Junk>>
    <3>1. /\ t \in Seq(LinesOf(R)) /\ Len(t) = n /\ t[n] = Junk
          /\ \A i \in 1 .. n - 1 : t[i] = f.lines[i]
      <4>1. f.lines \in Seq(LinesOf(R)) /\ f.lines # <<>>
        BY <1>1, <1>2 DEF Proper
      <4> QED BY <4>1, FrontJunk
    <3>2. g.lines = t
      BY <2>1
    <3> QED BY <3>1, <3>2
  <2>3. g \in Files(R) /\ g.open
    BY <2>1, <2>2 DEF Files
  <2>4. g.lines # <<>>
    BY <1>1, <1>2, <2>2, EmptySeq
  <2> HIDE DEF g, n
  <2>5. \A i \in 1 .. n : g.lines[i] = IF i = n THEN Junk ELSE f.lines[i]
    BY <1>1, <2>2
  <2> QED BY <1>1, <1>2, <2>2, <2>3, <2>4, <2>5 DEF g, n, Proper
<1>3. CASE ~f.open
  <2>1. g = [lines |-> Append(f.lines, line), open |-> TRUE]
    BY <1>3 DEF Cut
  <2>2. /\ g.lines \in Seq(LinesOf(R)) /\ Len(g.lines) = n + 1 /\ g.lines[n + 1] = line
        /\ \A i \in 1 .. n : g.lines[i] = f.lines[i]
        /\ g.lines # <<>>
    <3>1. g.lines = Append(f.lines, line)
      BY <2>1
    <3> DEFINE s == f.lines
    <3>2. s \in Seq(LinesOf(R))
      BY <1>1
    <3> HIDE DEF s
    <3>3. /\ Append(s, line) \in Seq(LinesOf(R)) /\ Len(Append(s, line)) = Len(s) + 1
          /\ Append(s, line)[Len(s) + 1] = line
          /\ \A i \in 1 .. Len(s) : Append(s, line)[i] = s[i]
          /\ Append(s, line) # <<>>
      BY <3>2, AppendProperties
    <3> QED BY <3>1, <3>3 DEF s
  <2>3. g \in Files(R) /\ g.open
    BY <2>1, <2>2 DEF Files
  <2> HIDE DEF g, n
  <2> QED BY <1>1, <1>3, <2>2, <2>3 DEF g, n, Proper
<1> QED BY <1>1, <1>2, <1>3

\* How a file g follows a file f and a buffer b that was to be appended to it:
\* the lines of f stay, but for a last one left open; after them come records of
\* b in their order, or what is no record; a torn file stays torn.
Follows(g, f, b, R) ==
  /\ Proper(g, R) /\ Len(f.lines) <= Len(g.lines)
  /\ \A i \in 1 .. Len(f.lines) : \/ g.lines[i] = f.lines[i]
                                  \/ f.open /\ i = Len(f.lines) /\ g.lines[i] = Junk
  /\ \E d \in {0, 1} : \A i \in Len(f.lines) + 1 .. Len(g.lines) :
       g.lines[i] = Junk \/ (/\ i - Len(f.lines) + d \in 1 .. Len(b)
                             /\ g.lines[i] = b[i - Len(f.lines) + d])
  /\ f.open => g.open \/ Junk \in Range(g.lines)

LEMMA InRange ==
  ASSUME NEW R, NEW s \in Seq(LinesOf(R))
  PROVE  \A x : x \in Range(s) <=> \E i \in 1 .. Len(s) : s[i] = x
BY LenProperties DEF Range

LEMMA AppendedFollows ==
  ASSUME NEW R, NEW f, Proper(f, R), NEW b \in Seq(R) PROVE Follows(Appended(f, b), f, b, R)
<1> DEFINE g == Appended(f, b)
           n == Len(f.lines)
           d == IF f.open /\ b # <<>> THEN 1 ELSE 0
<1>1. /\ Proper(g, R) /\ Len(g.lines) = n + Len(b) - d /\ Len(b) \in Nat
      /\ g.open <=> f.open /\ b = <<>>
      /\ \A i \in 1 .. n : g.lines[i] = IF d = 1 /\ i = n THEN Junk ELSE f.lines[i]
      /\ \A i \in n + 1 .. Len(g.lines) : i - n + d \in 1 .. Len(b) /\ g.lines[i] = b[i - n + d]
  <2>1. /\ Proper(Appended(f, b), R)
        /\ AppendShape(Appended(f, b), f, Len(f.lines), b, Joined(f, b))
    BY AppendedShape
  <2> QED BY <2>1 DEF AppendShape, Joined
<1>2. n \in Nat /\ (f.open => n > 0) /\ d \in {0, 1} /\ f.open \in BOOLEAN
      /\ g.lines \in Seq(LinesOf(R))
  BY <1>1, FileTypes
<1>3. d = 1 => f.open /\ b # <<>> /\ Len(b) > 0
  BY <1>1, EmptySeq
<1>4. d = 0 /\ f.open => g.open
  <2>1. d = 0 /\ f.open => b = <<>>
    OBVIOUS
  <2> QED BY <1>1, <2>1
<1> HIDE DEF g, d, n
<1>5. Len(f.lines) <= Len(g.lines)
  BY <1>1, <1>2, <1>3 DEF n
<1>6. f.open => g.open \/ Junk \in Range(g.lines)
  <2>1. d = 1 => n \in 1 .. Len(g.lines) /\ g.lines[n] = Junk
    BY <1>1, <1>2, <1>3
  <2> QED BY <1>2, <1>4, <2>1, InRange
<1> QED BY <1>1, <1>2, <1>3, <1>5, <1>6 DEF Follows, g, n

LEMMA KillFollows ==
  ASSUME NEW R, NEW f, Proper(f, R), NEW b \in Seq(R), NEW T, NEW g \in AfterKill(f, b, T)
  PROVE  Follows(g, f, b, R)
<1> DEFINE n == Len(f.lines)
<1>1. PICK k \in 0 .. Len(b), t \in T :
        g = IF t = Whole \/ k = Len(b)
              THEN Appended(f, SubSeq(b, 1, k))
              ELSE Cut(Appended(f, SubSeq(b, 1, k)), IF t = Bare THEN b[k + 1] ELSE Junk)
  BY DEF AfterKill
<1> DEFINE p == SubSeq(b, 1, k)
           h == Appended(f, p)
           d == IF f.open /\ p # <<>> THEN 1 ELSE 0
           line == IF t = Bare THEN b[k + 1] ELSE Junk
<1>2. Len(b) \in Nat /\ \A i \in 1 .. Len(b) : b[i] \in R
  BY LenProperties, ElementOfSeq
<1>3. p \in Seq(R) /\ Len(p) = k /\ \A i \in 1 .. k : p[i] = b[i]
  <2>1. k \in Int /\ 1 \in Int /\ \A i \in 1 .. k : b[i] \in R
    BY <1>2
  <2>2. /\ p \in Seq(R) /\ Len(p) = IF 1 <= k THEN k - 1 + 1 ELSE 0
        /\ \A i \in 1 .. k - 1 + 1 : p[i] = b[1 + i - 1]
    BY <2>1, SubSeqProperties
  <2> HIDE DEF p
  <2> QED BY <1>2, <2>2
<1>4. Follows(h, f, p, R)
  BY <1>3, AppendedFollows
<1>5. /\ Proper(h, R) /\ Len(h.lines) = n + k - d
      /\ h.open <=> f.open /\ p = <<>>
      /\ \A i \in 1 .. n : h.lines[i] = IF d = 1 /\ i = n THEN Junk ELSE f.lines[i]
      /\ \A i \in n + 1 .. Len(h.lines) : i - n + d \in 1 .. k /\ h.lines[i] = p[i - n + d]
  <2>0. p \in Seq(R)
    BY <1>3
  <2> HIDE DEF p
  <2>1. /\ Proper(h, R) /\ Len(h.lines) = n + Len(p) - d
        /\ h.open <=> f.open /\ p = <<>>
        /\ \A i \in 1 .. n : h.lines[i] = IF d = 1 /\ i = n THEN Junk ELSE f.lines[i]
        /\ \A i \in n + 1 .. Len(h.lines) :
             i - n + d \in 1 .. Len(p) /\ h.lines[i] = p[i - n + d]
    <3>1. /\ Proper(Appended(f, p), R)
          /\ AppendShape(Appended(f, p), f, Len(f.lines), p, Joined(f, p))
      BY <2>0, AppendedShape
    <3> QED BY <3>1 DEF AppendShape, Joined
  <2> QED BY <1>3, <2>1
<1>6. /\ n \in Nat /\ d \in {0, 1} /\ f.open \in BOOLEAN
      /\ f.open => n > 0
      /\ h.lines \in Seq(LinesOf(R)) /\ h.open \in BOOLEAN /\ Len(h.lines) \in Nat
  BY <1>5, FileTypes
<1>7. p = <<>> <=> k = 0
  BY <1>3, EmptySeq
<1>8. d = 1 <=> f.open /\ k # 0
  BY <1>7
<1>9. g = h \/ (k < Len(b) /\ g = Cut(h, line))
  BY <1>1, <1>2
<1> HIDE DEF p, h, n, d
<1>10. CASE g = h
  <2>1. \A i \in n + 1 .. Len(h.lines) : i - n + d \in 1 .. Len(b) /\ h.lines[i] = b[i - n + d]
    BY <1>2, <1>3, <1>5, <1>6
  <2> QED BY <1>4, <1>6, <1>10, <2>1 DEF Follows, n
<1>11. CASE k < Len(b) /\ g = Cut(h, line)
  <2>1. line \in LinesOf(R) /\ (line = Junk \/ line = b[k + 1]) /\ k + 1 \in 1 .. Len(b)
    BY <1>2, <1>11, LineFacts
  <2> HIDE DEF line
  <2>2. /\ Proper(g, R) /\ g.open /\ Len(g.lines) = Len(h.lines) + (IF h.open THEN 0 ELSE 1)
        /\ \A i \in 1 .. Len(h.lines) :
             g.lines[i] = IF h.open /\ i = Len(h.lines) THEN Junk ELSE h.lines[i]
        /\ ~h.open => g.lines[Len(h.lines) + 1] = line
    <3>1. Proper(g, R) /\ CuttingShape(g, h, Len(h.lines), line)
      BY <1>5, <1>11, <2>1, CutShape
    <3> QED BY <3>1 DEF CuttingShape
  <2>3. n <= Len(h.lines)
    BY <1>5, <1>6, <1>8
  <2>4. CASE h.open
    <3>1. k = 0 /\ d = 0 /\ f.open /\ Len(h.lines) = n /\ Len(g.lines) = n
      <4>1. k = 0 /\ f.open
        BY <1>5, <1>7, <2>4
      <4>2. d = 0 /\ Len(h.lines) = n
        BY <1>5, <1>6, <1>8, <4>1
      <4> QED BY <1>6, <2>2, <2>4, <4>1, <4>2
    <3>2. \A i \in 1 .. n : g.lines[i] = f.lines[i] \/ (f.open /\ i = n /\ g.lines[i] = Junk)
      BY <1>5, <2>2, <2>4, <3>1
    <3>3. \A i \in n + 1 .. Len(g.lines) :
            g.lines[i] = Junk \/ (i - n + d \in 1 .. Len(b) /\ g.lines[i] = b[i - n + d])
      BY <1>6, <3>1
    <3>4. Len(f.lines) <= Len(g.lines)
      BY <1>6, <3>1 DEF n
    <3> QED BY <1>6, <2>2, <3>2, <3>3, <3>4 DEF Follows, n
  <2>5. CASE ~h.open
    <3>1. Len(g.lines) = Len(h.lines) + 1
      BY <2>2, <2>5
    <3>2. \A i \in 1 .. n : g.lines[i] = f.lines[i] \/ (f.open /\ i = n /\ g.lines[i] = Junk)
      <4> SUFFICES ASSUME NEW i \in 1 .. n
                   PROVE  g.lines[i] = f.lines[i] \/ (f.open /\ i = n /\ g.lines[i] = Junk)
        OBVIOUS
      <4>1. i \in 1 .. Len(h.lines)
        BY <1>6, <2>3
      <4>2. g.lines[i] = h.lines[i]
        BY <2>2, <2>5, <4>1
      <4>3. h.lines[i] = IF d = 1 /\ i = n THEN Junk ELSE f.lines[i]
        BY <1>5
      <4> QED BY <1>8, <4>2, <4>3
    <3>3. ASSUME NEW i \in n + 1 .. Len(g.lines)
          PROVE  g.lines[i] = Junk \/ (i - n + d \in 1 .. Len(b) /\ g.lines[i] = b[i - n + d])
      <4>1. CASE i \in n + 1 .. Len(h.lines)
        <5>1. i \in 1 .. Len(h.lines) /\ i - n + d \in 1 .. k /\ h.lines[i] = p[i - n + d]
          BY <1>5, <1>6, <4>1
        <5>2. g.lines[i] = h.lines[i]
          BY <2>2, <2>5, <5>1
        <5>3. i - n + d \in 1 .. Len(b) /\ p[i - n + d] = b[i - n + d]
          BY <1>2, <1>3, <5>1
        <5> QED BY <5>1, <5>2, <5>3
      <4>2. CASE i = Len(h.lines) + 1
        <5>1. i - n + d = k + 1
          BY <1>2, <1>5, <1>6, <4>2
        <5> QED BY <2>1, <2>2, <2>5, <4>2, <5>1
      <4> QED BY <1>6, <3>1, <4>1, <4>2
    <3>4. Len(f.lines) <= Len(g.lines)
      BY <1>6, <2>3, <3>1 DEF n
    <3> QED BY <1>6, <2>2, <3>2, <3>3, <3>4 DEF Follows, n
  <2> QED BY <1>6, <2>4, <2>5
<1> QED BY <1>9, <1>10, <1>11

(***************************************************************************)
(* A file and its buffer together: everything recorded.                    *)
(***************************************************************************)
LEMMA RecordedAt ==
  ASSUME NEW R, NEW f, Proper(f, R), NEW b \in Seq(R)
  PROVE  LET r == f.lines \o b
             n == Len(f.lines)
         IN  /\ r \in Seq(LinesOf(R)) /\ Len(r) = n + Len(b) /\ n \in Nat /\ Len(b) \in Nat
             /\ \A i \in 1 .. n : r[i] = f.lines[i]
             /\ \A i \in n + 1 .. n + Len(b) : r[i] = b[i - n]
<1>1. b \in Seq(LinesOf(R)) /\ Len(b) \in Nat
  BY LineFacts, LenProperties
<1>2. f.lines \in Seq(LinesOf(R)) /\ Len(f.lines) \in Nat
  BY FileTypes
<1>3. /\ f.lines \o b \in Seq(LinesOf(R)) /\ Len(f.lines \o b) = Len(f.lines) + Len(b)
      /\ \A i \in 1 .. Len(f.lines) + Len(b) :
           (f.lines \o b)[i] = IF i <= Len(f.lines) THEN f.lines[i] ELSE b[i - Len(f.lines)]
  <2> DEFINE a == f.lines
  <2> HIDE DEF a
  <2>1. a \in Seq(LinesOf(R))
    BY <1>2 DEF a
  <2>2. /\ a \o b \in Seq(LinesOf(R)) /\ Len(a \o b) = Len(a) + Len(b)
        /\ \A i \in 1 .. Len(a) + Len(b) : (a \o b)[i] = IF i <= Len(a) THEN a[i] ELSE b[i - Len(a)]
    BY <2>1, <1>1, ConcatProperties
  <2> QED BY <2>2 DEF a
<1>4. \A i \in 1 .. Len(f.lines) : (f.lines \o b)[i] = f.lines[i]
  BY <1>1, <1>2, <1>3
<1>5. \A i \in Len(f.lines) + 1 .. Len(f.lines) + Len(b) : (f.lines \o b)[i] = b[i - Len(f.lines)]
  BY <1>1, <1>2, <1>3
<1> QED BY <1>1, <1>2, <1>3, <1>4, <1>5

\* A record in a file that follows was recorded before, at the same place or at
\* the next one; so two of them are in their old order.
Place(i, n, d) == IF i <= n THEN i ELSE i + d
LEMMA FollowsPlaces ==
  ASSUME NEW R, NEW f, Proper(f, R), NEW b \in Seq(R), NEW g, Follows(g, f, b, R)
  PROVE  \E d \in {0, 1} : \A i \in 1 .. Len(g.lines) : g.lines[i] # Junk =>
           /\ Place(i, Len(f.lines), d) \in 1 .. Len(f.lines \o b)
           /\ g.lines[i] = (f.lines \o b)[Place(i, Len(f.lines), d)]
<1> DEFINE r == f.lines \o b
           n == Len(f.lines)
<1>1. /\ Len(r) = n + Len(b) /\ n \in Nat /\ Len(b) \in Nat
      /\ \A i \in 1 .. n : r[i] = f.lines[i]
      /\ \A i \in n + 1 .. n + Len(b) : r[i] = b[i - n]
  BY RecordedAt
<1>2. PICK d \in {0, 1} : \A i \in n + 1 .. Len(g.lines) :
        g.lines[i] = Junk \/ (i - n + d \in 1 .. Len(b) /\ g.lines[i] = b[i - n + d])
  BY DEF Follows
<1>3. Len(g.lines) \in Nat /\ n <= Len(g.lines)
  BY FileTypes DEF Follows
<1>4. \A i \in 1 .. n : g.lines[i] # Junk => g.lines[i] = f.lines[i]
  BY DEF Follows
<1> HIDE DEF n, r
<1>5. ASSUME NEW i \in 1 .. Len(g.lines), g.lines[i] # Junk
      PROVE  Place(i, n, d) \in 1 .. Len(r) /\ g.lines[i] = r[Place(i, n, d)]
  <2>1. CASE i <= n
    <3>1. i \in 1 .. n /\ i \in 1 .. Len(r)
      BY <1>1, <1>3, <2>1
    <3> QED BY <1>1, <1>4, <1>5, <2>1, <3>1 DEF Place
  <2>2. CASE ~(i <= n)
    <3>1. i \in n + 1 .. Len(g.lines)
      BY <1>1, <1>3, <2>2
    <3>2. i - n + d \in 1 .. Len(b) /\ g.lines[i] = b[i - n + d]
      BY <1>2, <1>5, <3>1
    <3>3. i + d \in n + 1 .. n + Len(b) /\ (i + d) - n = i - n + d /\ i + d \in 1 .. Len(r)
      BY <1>1, <1>3, <3>1, <3>2
    <3> QED BY <1>1, <2>2, <3>2, <3>3 DEF Place
  <2> QED BY <2>1, <2>2
<1> QED BY <1>5 DEF n, r

LEMMA NothingBuffered ==
  ASSUME NEW R, NEW f, Proper(f, R) PROVE f.lines \o <<>> = f.lines
<1> DEFINE a == f.lines
<1>1. a \in Seq(LinesOf(R))
  BY FileTypes
<1> HIDE DEF a
<1>2. a \o <<>> = a
  BY <1>1, ConcatEmptySeq
<1> QED BY <1>2 DEF a

\* A file that is whole was whole before, and has kept its lines.
LEMMA UntornFollows ==
  ASSUME NEW R, NEW f, Proper(f, R), NEW b \in Seq(R), NEW g, Follows(g, f, b, R),
         ~g.open, Junk \notin Range(g.lines)
  PROVE  /\ ~f.open /\ Junk \notin Range(f.lines)
         /\ Len(f.lines) <= Len(g.lines) /\ Len(f.lines) \in Nat /\ Len(g.lines) \in Nat
         /\ \A i \in 1 .. Len(f.lines) : i \in 1 .. Len(g.lines) /\ g.lines[i] = f.lines[i]
<1>1. /\ f.lines \in Seq(LinesOf(R)) /\ g.lines \in Seq(LinesOf(R))
      /\ Len(f.lines) \in Nat /\ Len(g.lines) \in Nat /\ Len(f.lines) <= Len(g.lines)
  BY FileTypes DEF Follows
<1>2. ~f.open
  BY DEF Follows
<1>3. \A i \in 1 .. Len(f.lines) : i \in 1 .. Len(g.lines) /\ g.lines[i] = f.lines[i]
  BY <1>1, <1>2 DEF Follows
<1>4. Junk \notin Range(f.lines)
  BY <1>1, <1>3, InRange
<1> QED BY <1>1, <1>2, <1>3, <1>4

\* A buffer appended to a file that is whole is simply there.
LEMMA WholeAppended ==
  ASSUME NEW R, NEW f, Proper(f, R), ~f.open, NEW b
  PROVE  Appended(f, b).lines = f.lines \o b /\ Appended(f, b).open = FALSE
<1>1. CASE b = <<>>
  BY <1>1, NothingBuffered DEF Appended, Proper, Files
<1>2. CASE b # <<>>
  BY <1>2 DEF Appended
<1> QED BY <1>1, <1>2

\* A record appended to the buffer is the last of all.
LEMMA ConcatAppend ==
  ASSUME NEW S, NEW a \in Seq(S), NEW b \in Seq(S), NEW r \in S
  PROVE  a \o Append(b, r) = Append(a \o b, r)
<1>1. a \o b \in Seq(S) /\ <<r>> \in Seq(S)
  BY ConcatProperties
<1>2. Append(a \o b, r) = (a \o b) \o <<r>>
  BY <1>1, AppendIsConcat
<1>3. Append(b, r) = b \o <<r>>
  BY AppendIsConcat
<1>4. (a \o b) \o <<r>> = a \o (b \o <<r>>)
  BY <1>1, ConcatAssociative
<1> QED BY <1>2, <1>3, <1>4
=============================================================================
