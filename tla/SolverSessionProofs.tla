------------------------ MODULE SolverSessionProofs ------------------------
(***************************************************************************)
(* Proofs about SolverSession, for any number of solvers and calls, any    *)
(* noise, any deaths of the server and any statuses it may answer with.    *)
(***************************************************************************)
EXTENDS SolverSession, SequenceTheorems, TLAPS

\* The lines that are no noise carry the request sent last, and there is at
\* most one of them.
Quiet(s) == \A i \in 1 .. Len(s) : s[i].kind = "noise"
OneAnswer(s) ==
  /\ \A i \in 1 .. Len(s) : s[i].kind # "noise" => s[i].req = sent
  /\ \A i, j \in 1 .. Len(s) : s[i].kind # "noise" /\ s[j].kind # "noise" => i = j

Waiting == {"select", "read"}

\* Where a request can be: nowhere while the caller is not waiting for it, then
\* in one place only, which is its own number's.
OneRequest ==
  /\ server # "up" => stdin = <<>> /\ stage = "idle"
  /\ server = "none" => pipe = <<>> /\ buffer = <<>>
  /\ pc \notin Waiting => stdin = <<>> /\ stage = "idle" /\ Quiet(pipe) /\ Quiet(buffer)
  /\ stdin # <<>> => stage = "idle" /\ stdin = <<sent>>
  /\ stage # "idle" => cur = sent
  /\ stdin # <<>> \/ stage # "idle" => Quiet(pipe) /\ Quiet(buffer)
  /\ Quiet(pipe) \/ Quiet(buffer)
  /\ OneAnswer(pipe) /\ OneAnswer(buffer)

\* The buffer is the rest of what readline took last, and the line before an
\* answer that select waits for in vain is noise.
BufferIsRest ==
  /\ Len(buffer) <= Len(batch)
  /\ \A i \in 1 .. Len(buffer) : batch[Len(batch) - Len(buffer) + i] = buffer[i]
  /\ pc = "select" /\ ~Quiet(buffer) =>
       /\ Len(buffer) < Len(batch)
       /\ batch[Len(batch) - Len(buffer)].kind = "noise"

\* The attempts so far, and that another one may follow.
Own == \A i \in 1 .. Len(tried) : tried[i].got \in {0, tried[i].asked}
NoAnswer == {"TIMEOUT", "PROCESS_ERROR", "PREFLIGHT"}
Attempts ==
  /\ Own
  /\ \A i \in 1 .. Len(tried) : tried[i].got = 0 => tried[i].status \in NoAnswer
  /\ \A i \in 1 .. Len(tried) : /\ tried[i].asked <= sent
                                /\ pc \in Waiting => tried[i].asked < sent
  /\ \A i \in 1 .. Len(tried) : i < Len(tried) \/ pc # "idle" => tried[i].status \notin Feasible
  /\ \A i, j \in 1 .. Len(tried) : i < j => tried[i].asked < tried[j].asked
  /\ pc # "idle" => Len(tried) < Solvers
  /\ pc \notin {"idle", "start", "send"} => sent > 0

\* The temporary files of a script call: three names at most, and only while
\* they are written and used.
Temps ==
  /\ temps.disk = raised + temps.named
  /\ pc \notin {"write", "run"} => temps.named = 0
  /\ pc = "write" => temps.named < 3
  /\ pc = "run" => temps.named = 3

IInv == TypeOK /\ OneRequest /\ BufferIsRest /\ Attempts /\ Temps

PyTypes == /\ mode \in {"server", "script"}
           /\ pc \in {"idle", "start", "send", "select", "read", "preflight", "write", "run"}
           /\ calls \in Nat /\ sent \in Nat
           /\ tried \in Seq(Attempt) /\ Len(tried) <= Solvers
JuliaTypes == /\ server \in {"none", "up", "dead"} /\ cur \in Nat
              /\ stage \in {"idle", "solving", "printed"}
              /\ stdin \in Seq(Nat) /\ pipe \in Seq(Line)
              /\ buffer \in Seq(Line) /\ batch \in Seq(Line)
              /\ noise \in Nat /\ deaths \in Nat
FileTypes == raised \in Nat /\ temps \in [disk : Nat, named : Nat]

LEMMA Types ==
  /\ TypeOK => PyTypes /\ JuliaTypes /\ FileTypes
  /\ (PyTypes /\ JuliaTypes /\ FileTypes)' => TypeOK'
BY DEF TypeOK, PyTypes, JuliaTypes, FileTypes

(***************************************************************************)
(* Lines and sequences of lines.                                           *)
(***************************************************************************)
LEMMA StatusFacts ==
  /\ NoAnswer \subseteq Statuses \ Feasible
  /\ Feasible \subseteq Statuses
BY DEF NoAnswer, Statuses, Feasible, Infeasible, Ambiguous, Indeterminate, Erroneous

LEMMA LineTypes ==
  ASSUME cur \in Nat
  PROVE  /\ NoiseLine \in Line /\ NoiseLine.kind = "noise"
         /\ TornLine \in Line /\ TornLine.kind # "noise" /\ TornLine.req = cur
         /\ \A s \in Answers : /\ AnswerLine(s) \in Line /\ AnswerLine(s).kind # "noise"
                               /\ AnswerLine(s).req = cur
BY SessionAssumption, StatusFacts
DEF NoiseLine, TornLine, AnswerLine, Line, NoAnswer

\* One line more in the pipe.
LEMMA Printed ==
  ASSUME NEW s \in Seq(Line), NEW l \in Line
  PROVE  /\ Append(s, l) \in Seq(Line) /\ Len(Append(s, l)) = Len(s) + 1
         /\ \A i \in 1 .. Len(s) : Append(s, l)[i] = s[i]
         /\ Append(s, l)[Len(s) + 1] = l
BY AppendProperties

\* What readline takes of the pipe, and what it leaves there.
LEMMA Taken ==
  ASSUME NEW s \in Seq(Line), NEW k \in 1 .. Len(s)
  PROVE  /\ SubSeq(s, 1, k) \in Seq(Line) /\ Len(SubSeq(s, 1, k)) = k
         /\ \A i \in 1 .. k : SubSeq(s, 1, k)[i] = s[i]
         /\ SubSeq(s, k + 1, Len(s)) \in Seq(Line)
         /\ Len(SubSeq(s, k + 1, Len(s))) = Len(s) - k
         /\ \A i \in 1 .. Len(s) - k : SubSeq(s, k + 1, Len(s))[i] = s[k + i]
<1>1. \A i \in 1 .. Len(s) : s[i] \in Line
  BY ElementOfSeq
<1>2. Len(s) \in Nat
  BY LenProperties
<1>3. \A i \in 1 .. k : s[i] \in Line
  BY <1>1, <1>2
<1>4. \A i \in k + 1 .. Len(s) : s[i] \in Line
  BY <1>1, <1>2
<1>5. /\ SubSeq(s, 1, k) \in Seq(Line) /\ Len(SubSeq(s, 1, k)) = k
      /\ \A i \in 1 .. k : SubSeq(s, 1, k)[i] = s[i]
  <2>1. /\ SubSeq(s, 1, k) \in Seq(Line)
        /\ Len(SubSeq(s, 1, k)) = IF 1 <= k THEN k - 1 + 1 ELSE 0
        /\ \A i \in 1 .. k - 1 + 1 : SubSeq(s, 1, k)[i] = s[1 + i - 1]
    BY <1>3, SubSeqProperties
  <2> QED BY <2>1, <1>2
<1>6. /\ SubSeq(s, k + 1, Len(s)) \in Seq(Line)
      /\ Len(SubSeq(s, k + 1, Len(s))) = Len(s) - k
      /\ \A i \in 1 .. Len(s) - k : SubSeq(s, k + 1, Len(s))[i] = s[k + i]
  <2>1. /\ SubSeq(s, k + 1, Len(s)) \in Seq(Line)
        /\ Len(SubSeq(s, k + 1, Len(s)))
             = IF k + 1 <= Len(s) THEN Len(s) - (k + 1) + 1 ELSE 0
        /\ \A i \in 1 .. Len(s) - (k + 1) + 1 :
             SubSeq(s, k + 1, Len(s))[i] = s[k + 1 + i - 1]
    BY <1>2, <1>4, SubSeqProperties
  <2> QED BY <2>1, <1>2
<1> QED BY <1>5, <1>6

(***************************************************************************)
(* The process run_opf.jl --server.                                        *)
(***************************************************************************)
JuliaStep == Take \/ Chatter \/ BeginLine \/ EndLine \/ Die

\* The process changes nothing of the caller's.
LEMMA JuliaKeepsPython ==
  ASSUME IInv, JuliaStep PROVE (PyTypes /\ FileTypes /\ Attempts /\ Temps)'
<1>1. UNCHANGED <<python, files>>
  BY DEF JuliaStep, Take, Chatter, BeginLine, EndLine, Die
<1> QED BY <1>1, Types
        DEF IInv, python, files, PyTypes, FileTypes, Attempts, Own, Temps

LEMMA JuliaKeeps ==
  ASSUME IInv, JuliaStep PROVE (JuliaTypes /\ OneRequest /\ BufferIsRest)'
<1> JuliaTypes /\ OneRequest /\ sent \in Nat
  BY Types DEF IInv, PyTypes
<1> BufferIsRest'
  <2>1. UNCHANGED <<pc, buffer, batch>>
    BY DEF JuliaStep, Take, Chatter, BeginLine, EndLine, Die, python
  <2> QED BY <2>1 DEF IInv, BufferIsRest, Quiet
<1> USE DEF JuliaTypes, OneRequest, Quiet, OneAnswer
<1>1. CASE Take
  <2>1. stdin = <<sent>> /\ stage = "idle"
    BY <1>1 DEF Take
  <2>2. Head(stdin) = sent /\ Tail(stdin) = <<>>
    BY <2>1
  <2>3. /\ stdin' = <<>> /\ cur' = sent /\ stage' = "solving" /\ server = "up"
        /\ UNCHANGED <<python, server, pipe, buffer, batch, noise, deaths>>
    BY <1>1, <2>2 DEF Take
  <2>4. JuliaTypes'
    <3> HIDE DEF OneRequest, Quiet, OneAnswer
    <3> QED BY <2>3 DEF python
  <2>5. Quiet(pipe) /\ Quiet(buffer) /\ pc \in Waiting
    <3> HIDE DEF JuliaTypes
    <3> QED BY <2>1
  <2>6. OneRequest'
    <3> HIDE DEF JuliaTypes
    <3> QED BY <2>3, <2>5 DEF python
  <2> QED BY <2>4, <2>6
<1>2. CASE Chatter
  <2>1. NoiseLine \in Line /\ NoiseLine.kind = "noise"
    BY LineTypes
  <2>2. /\ pipe' = Append(pipe, NoiseLine) /\ noise' = noise + 1
        /\ UNCHANGED <<python, server, stdin, stage, cur, buffer, batch, deaths>>
    BY <1>2 DEF Chatter
  <2>3. /\ pipe' \in Seq(Line) /\ Len(pipe') = Len(pipe) + 1
        /\ \A i \in 1 .. Len(pipe) : pipe'[i] = pipe[i]
        /\ pipe'[Len(pipe) + 1].kind = "noise"
    BY <2>1, <2>2, Printed
  <2>4. \A i \in 1 .. Len(pipe) + 1 : i \in 1 .. Len(pipe) \/ i = Len(pipe) + 1
    <3>1. Len(pipe) \in Nat
      BY LenProperties
    <3> QED BY <3>1
  <2>5. \A i \in 1 .. Len(pipe') :
          pipe'[i].kind # "noise" => i \in 1 .. Len(pipe) /\ pipe'[i] = pipe[i]
    BY <2>3, <2>4
  <2>6. JuliaTypes'
    BY <2>2, <2>3 DEF python
  <2>7. (Quiet(pipe) => Quiet(pipe)') /\ (Quiet(buffer) => Quiet(buffer)')
    BY <2>2, <2>5
  <2>8. OneAnswer(pipe)' /\ OneAnswer(buffer)'
    <3>1. OneAnswer(pipe) /\ OneAnswer(buffer)
      OBVIOUS
    <3>2. sent' = sent /\ buffer' = buffer
      BY <2>2 DEF python
    <3> HIDE DEF JuliaTypes, OneRequest, Quiet
    <3>3. OneAnswer(pipe)'
      BY <3>1, <3>2, <2>5
    <3> QED BY <3>1, <3>2, <3>3
  <2> HIDE DEF Quiet, OneAnswer
  <2> QED BY <2>2, <2>6, <2>7, <2>8, <1>2 DEF Chatter, python
<1>3. CASE BeginLine
  BY <1>3 DEF BeginLine, python
<1>4. CASE EndLine
  <2>1. PICK s \in Answers : pipe' = Append(pipe, AnswerLine(s))
    BY <1>4 DEF EndLine
  <2>2. /\ server = "up" /\ stage = "printed" /\ stage' = "idle"
        /\ UNCHANGED <<python, server, stdin, cur, buffer, batch, noise, deaths>>
    BY <1>4 DEF EndLine
  <2>3. /\ pipe' \in Seq(Line) /\ Len(pipe') = Len(pipe) + 1
        /\ \A i \in 1 .. Len(pipe) : pipe'[i] = pipe[i]
        /\ pipe'[Len(pipe) + 1].kind # "noise" /\ pipe'[Len(pipe) + 1].req = sent
    BY <2>1, <2>2, Printed, LineTypes
  <2>4. stdin = <<>> /\ Quiet(pipe) /\ Quiet(buffer) /\ pc \in Waiting
    BY <2>2
  <2>5. JuliaTypes'
    BY <2>2, <2>3 DEF python
  <2>6. OneRequest'
    <3> HIDE DEF JuliaTypes
    <3> QED BY <2>2, <2>3, <2>4 DEF python
  <2> QED BY <2>5, <2>6
<1>5. CASE Die
  <2>1. /\ server = "up" /\ server' = "dead" /\ stage' = "idle" /\ stdin' = <<>>
        /\ deaths' = deaths + 1
        /\ UNCHANGED <<python, cur, buffer, batch, noise>>
    BY <1>5 DEF Die
  <2>2. CASE stage = "printed"
    <3>1. pipe' = Append(pipe, TornLine)
      BY <1>5, <2>2 DEF Die
    <3>2. /\ pipe' \in Seq(Line) /\ Len(pipe') = Len(pipe) + 1
          /\ \A i \in 1 .. Len(pipe) : pipe'[i] = pipe[i]
          /\ pipe'[Len(pipe) + 1].kind # "noise" /\ pipe'[Len(pipe) + 1].req = sent
      BY <2>2, <3>1, Printed, LineTypes
    <3>3. /\ \A i \in 1 .. Len(pipe) : pipe[i].kind = "noise"
          /\ \A i \in 1 .. Len(buffer) : buffer[i].kind = "noise"
          /\ pc \in Waiting
      BY <2>2
    <3>4. JuliaTypes'
      BY <2>1, <3>2, <3>3 DEF python
    <3>5. Quiet(buffer)' /\ OneAnswer(buffer)'
      BY <2>1, <3>3
    <3>6. \A i \in 1 .. Len(pipe) + 1 : pipe'[i].kind # "noise" => i = Len(pipe) + 1
      <4>1. Len(pipe) \in Nat
        BY LenProperties
      <4>2. \A i \in 1 .. Len(pipe) + 1 : i \in 1 .. Len(pipe) \/ i = Len(pipe) + 1
        BY <4>1
      <4> QED BY <3>2, <3>3, <4>2
    <3>7. OneAnswer(pipe)'
      BY <2>1, <3>2, <3>6 DEF python
    <3> QED BY <2>1, <3>3, <3>4, <3>5, <3>7 DEF python
  <2>3. CASE stage # "printed"
    <3>1. pipe' = pipe
      BY <1>5, <2>3 DEF Die
    <3> QED BY <2>1, <3>1 DEF python
  <2> QED BY <2>2, <2>3
<1> QED BY <1>1, <1>2, <1>3, <1>4, <1>5 DEF JuliaStep

(***************************************************************************)
(* PersistentPowerModelsSession.                                           *)
(***************************************************************************)
\* An attempt is settled: the call returns, or another solver can be tried.
\* The number of the request is that of the attempt and of no earlier one.
LEMMA Settled ==
  ASSUME IInv, pc \in {"start", "send", "select", "read"},
         NEW got \in Nat, NEW st \in Statuses, Settle(got, st),
         got = 0 => st \in NoAnswer, got \in {0, sent'},
         sent' = sent + 1 \/ (sent' = sent /\ pc \in Waiting),
         mode' = mode, calls' = calls
  PROVE  (PyTypes /\ Attempts)' /\ pc' \in {"idle", "start"}
<1> PyTypes /\ Attempts
  BY Types DEF IInv
<1> DEFINE new == [asked |-> sent', got |-> got, status |-> st]
<1>1. new \in Attempt /\ Len(tried) \in Nat /\ sent' \in Nat
  BY LenProperties DEF PyTypes, Attempt
<1>2. tried' = Append(tried, new)
  BY DEF Settle
<1>3. /\ tried' \in Seq(Attempt) /\ Len(tried') = Len(tried) + 1
      /\ \A i \in 1 .. Len(tried) : tried'[i] = tried[i]
      /\ tried'[Len(tried) + 1] = new
  BY <1>1, <1>2, AppendProperties DEF PyTypes
<1>4. \A i \in 1 .. Len(tried') : i \in 1 .. Len(tried) \/ i = Len(tried) + 1
  BY <1>1, <1>3
<1>5. /\ pc' \in {"idle", "start"} /\ Len(tried) < Solvers
      /\ pc' # "idle" => st \notin Feasible /\ Len(tried') # Solvers
  BY DEF Settle, Attempts
<1>6. PyTypes'
  BY <1>1, <1>3, <1>5, SessionAssumption DEF PyTypes
<1>7. \A i \in 1 .. Len(tried) : tried[i] \in Attempt /\ tried[i].asked < sent'
  <2>1. \A i \in 1 .. Len(tried) : tried[i] \in Attempt
    BY ElementOfSeq DEF PyTypes
  <2>2. \A i \in 1 .. Len(tried) : tried[i].asked <= sent /\ tried[i].asked \in Nat
    BY <2>1 DEF Attempts, Attempt
  <2>3. pc \in Waiting => \A i \in 1 .. Len(tried) : tried[i].asked < sent
    BY DEF Attempts
  <2> QED BY <2>1, <2>2, <2>3 DEF PyTypes
<1>8. Own'
  BY <1>3, <1>4 DEF Attempts, Own
<1>9. \A i \in 1 .. Len(tried') : tried'[i].got = 0 => tried'[i].status \in NoAnswer
  BY <1>3, <1>4 DEF Attempts
<1>10. \A i \in 1 .. Len(tried') : tried'[i].asked <= sent'
  <2>1. \A i \in 1 .. Len(tried) : tried[i].asked <= sent'
    BY <1>1, <1>7 DEF Attempt
  <2> QED BY <1>1, <1>3, <1>4, <2>1
<1>11. \A i \in 1 .. Len(tried') :
         i < Len(tried') \/ pc' # "idle" => tried'[i].status \notin Feasible
  BY <1>1, <1>3, <1>4, <1>5 DEF Attempts
<1>12. \A i, j \in 1 .. Len(tried') : i < j => tried'[i].asked < tried'[j].asked
  <2> SUFFICES ASSUME NEW i \in 1 .. Len(tried'), NEW j \in 1 .. Len(tried'), i < j
               PROVE  tried'[i].asked < tried'[j].asked
    OBVIOUS
  <2>1. i \in 1 .. Len(tried) /\ tried'[i] = tried[i]
    BY <1>1, <1>3
  <2>2. CASE j \in 1 .. Len(tried)
    BY <1>3, <2>1, <2>2 DEF Attempts
  <2>3. CASE j = Len(tried) + 1
    BY <1>3, <1>7, <2>1, <2>3
  <2> QED BY <1>4, <2>2, <2>3
<1>13. pc' # "idle" => Len(tried') < Solvers
  BY <1>1, <1>3, <1>5, SessionAssumption
<1> QED BY <1>5, <1>6, <1>8, <1>9, <1>10, <1>11, <1>12, <1>13 DEF Attempts, Waiting

\* A process that is closed takes everything under way with it.
LEMMA Closed ==
  ASSUME IInv, CloseServer, noise' = noise, deaths' \in Nat
  PROVE  (JuliaTypes /\ OneRequest /\ BufferIsRest)'
<1>1. <<>> \in Seq(Nat) /\ <<>> \in Seq(Line) /\ Len(<<>>) = 0
  BY EmptySeq
<1>2. JuliaTypes'
  BY <1>1, Types DEF IInv, CloseServer, JuliaTypes
<1>3. OneRequest'
  BY <1>1 DEF CloseServer, OneRequest, Quiet, OneAnswer
<1>4. BufferIsRest'
  BY <1>1 DEF CloseServer, BufferIsRest, Quiet
<1> QED BY <1>2, <1>3, <1>4

\* Attempts that end without an answer, each of which closes the process.
LEMMA GiveUpKeeps ==
  ASSUME IInv, StartFails \/ SendFails \/ TimeOut \/ ReadFails PROVE IInv'
<1> PyTypes /\ JuliaTypes /\ FileTypes /\ Temps
  BY Types DEF IInv
<1> USE DEF NoAnswer
<1>1. /\ CloseServer /\ pc \in {"start", "send", "select", "read"}
      /\ UNCHANGED <<mode, calls, noise, files>> /\ deaths' \in Nat
      /\ sent' = sent + 1 \/ (sent' = sent /\ pc \in Waiting)
  BY DEF StartFails, SendFails, TimeOut, ReadFails, JuliaTypes, Waiting
<1>2. PICK st \in NoAnswer : Settle(0, st)
  BY DEF StartFails, SendFails, TimeOut, ReadFails
<1>3. (PyTypes /\ Attempts)' /\ pc' \in {"idle", "start"}
  BY <1>1, <1>2, Settled, StatusFacts
<1>4. (JuliaTypes /\ OneRequest /\ BufferIsRest)'
  BY <1>1, Closed
<1>5. (FileTypes /\ Temps)'
  BY <1>1, <1>3 DEF FileTypes, Temps, files
<1> QED BY <1>3, <1>4, <1>5, Types DEF IInv

\* Reading a line of the buffer.
LEMMA Read ==
  ASSUME NEW s \in Seq(Line), s # <<>>
  PROVE  /\ Head(s) \in Line /\ Head(s) = s[1] /\ Len(s) \in Nat \ {0}
         /\ Tail(s) \in Seq(Line) /\ Len(Tail(s)) = Len(s) - 1
         /\ \A i \in 1 .. Len(Tail(s)) : Tail(s)[i] = s[i + 1] /\ i + 1 \in 1 .. Len(s)
<1>1. Len(s) \in Nat \ {0} /\ Head(s) = s[1]
  BY EmptySeq
<1>2. /\ Head(s) \in Line /\ Tail(s) \in Seq(Line) /\ Len(Tail(s)) = Len(s) - 1
      /\ \A i \in 1 .. Len(Tail(s)) : Tail(s)[i] = s[i + 1]
  BY HeadTailProperties
<1>3. \A i \in 1 .. Len(s) - 1 : i + 1 \in 1 .. Len(s)
  BY <1>1
<1> QED BY <1>1, <1>2, <1>3

\* readline: what was in the pipe is then in the buffer or still in the pipe.
LEMMA FillKeeps == ASSUME IInv, Fill PROVE (JuliaTypes /\ OneRequest /\ BufferIsRest)'
<1> /\ JuliaTypes /\ OneRequest /\ BufferIsRest
  BY Types DEF IInv
<1>1. /\ pc = "read" /\ buffer = <<>> /\ pipe # <<>>
      /\ UNCHANGED <<python, server, stdin, stage, cur, noise, deaths>>
  BY DEF Fill
<1>2. pipe \in Seq(Line) /\ Len(pipe) \in Nat /\ DOMAIN pipe = 1 .. Len(pipe)
  BY LenProperties DEF JuliaTypes
<1>3. PICK k \in 1 .. Len(pipe) :
        /\ buffer' = SubSeq(pipe, 1, k) /\ pipe' = SubSeq(pipe, k + 1, Len(pipe))
        /\ batch' = buffer'
  BY <1>2 DEF Fill
<1>4. /\ buffer' \in Seq(Line) /\ Len(buffer') = k
      /\ \A i \in 1 .. k : buffer'[i] = pipe[i]
      /\ pipe' \in Seq(Line) /\ Len(pipe') = Len(pipe) - k
      /\ \A i \in 1 .. Len(pipe) - k : pipe'[i] = pipe[k + i]
  BY <1>2, <1>3, Taken
<1>5. /\ \A i \in 1 .. k : i \in 1 .. Len(pipe)
      /\ \A i \in 1 .. Len(pipe) - k : k + i \in 1 .. Len(pipe) /\ k + i \notin 1 .. k
  BY <1>2
<1>6. JuliaTypes'
  BY <1>1, <1>3, <1>4 DEF JuliaTypes
<1>7. BufferIsRest'
  <2>1. batch' = buffer' /\ Len(batch') \in Nat /\ pc' = "read"
    <3>1. batch' = buffer' /\ pc' = "read"
      BY <1>1, <1>3 DEF python
    <3>2. k \in Nat
      BY <1>2
    <3> QED BY <1>4, <3>1, <3>2
  <2> QED BY <2>1 DEF BufferIsRest
<1>8. Quiet(pipe) => Quiet(pipe)' /\ Quiet(buffer)'
  <2> SUFFICES ASSUME \A i \in 1 .. Len(pipe) : pipe[i].kind = "noise"
               PROVE  Quiet(pipe)' /\ Quiet(buffer)'
    BY DEF Quiet
  <2>1. \A i \in 1 .. Len(pipe') : pipe'[i].kind = "noise"
    BY <1>4, <1>5
  <2>2. \A i \in 1 .. Len(buffer') : buffer'[i].kind = "noise"
    BY <1>4, <1>5
  <2> QED BY <2>1, <2>2 DEF Quiet
<1>9. OneAnswer(buffer)'
  BY <1>1, <1>4, <1>5 DEF OneRequest, OneAnswer, python
<1>10. OneAnswer(pipe)'
  <2>1. \A i \in 1 .. Len(pipe') : pipe'[i].kind # "noise" => pipe'[i].req = sent'
    BY <1>1, <1>4, <1>5 DEF OneRequest, OneAnswer, python
  <2>2. \A i, j \in 1 .. Len(pipe) - k : k + i = k + j => i = j
    BY <1>2
  <2>3. \A i, j \in 1 .. Len(pipe') :
          pipe'[i].kind # "noise" /\ pipe'[j].kind # "noise" => i = j
    <3> SUFFICES ASSUME NEW i \in 1 .. Len(pipe'), NEW j \in 1 .. Len(pipe'),
                        pipe'[i].kind # "noise", pipe'[j].kind # "noise"
                 PROVE  i = j
      OBVIOUS
    <3>1. pipe[k + i].kind # "noise" /\ pipe[k + j].kind # "noise"
      BY <1>4
    <3>2. k + i = k + j
      BY <1>4, <1>5, <3>1 DEF OneRequest, OneAnswer
    <3> QED BY <1>4, <3>2, <2>2
  <2> QED BY <2>1, <2>3 DEF OneAnswer
<1>11. Quiet(pipe)' \/ Quiet(buffer)'
  <2> SUFFICES ASSUME NEW i \in 1 .. Len(pipe'), pipe'[i].kind # "noise",
                      NEW j \in 1 .. Len(buffer'), buffer'[j].kind # "noise"
               PROVE  FALSE
    BY DEF Quiet
  <2>1. pipe[k + i].kind # "noise" /\ pipe[j].kind # "noise"
    BY <1>4
  <2>2. k + i = j
    BY <1>4, <1>5, <2>1 DEF OneRequest, OneAnswer
  <2> QED BY <1>4, <1>5, <2>2
<1>12. OneRequest'
  BY <1>1, <1>8, <1>9, <1>10, <1>11 DEF OneRequest, python, Waiting
<1> QED BY <1>6, <1>7, <1>12

\* A line is taken from the buffer; no line is left that answers a request once
\* the answer is.
LEMMA ReadKeeps ==
  ASSUME IInv, pc = "read", buffer # <<>>, buffer' = Tail(buffer), sent' = sent,
         UNCHANGED <<server, stdin, stage, cur, pipe, batch, noise, deaths>>,
         \/ Head(buffer).kind = "noise" /\ pc' = "select"
         \/ Head(buffer).kind = "answer" /\ pc' \in {"idle", "start"}
  PROVE  (JuliaTypes /\ OneRequest /\ BufferIsRest)'
<1> /\ JuliaTypes /\ OneRequest /\ BufferIsRest
  BY Types DEF IInv
<1>1. /\ Head(buffer) = buffer[1] /\ Len(buffer) \in Nat \ {0}
      /\ buffer' \in Seq(Line) /\ Len(buffer') = Len(buffer) - 1
      /\ \A i \in 1 .. Len(buffer') : buffer'[i] = buffer[i + 1] /\ i + 1 \in 1 .. Len(buffer)
  BY Read DEF JuliaTypes
<1>2. 1 \in 1 .. Len(buffer) /\ \A i \in 1 .. Len(buffer') : i + 1 # 1
  BY <1>1
<1>3. JuliaTypes'
  BY <1>1 DEF JuliaTypes
<1>4. Quiet(buffer) => Quiet(buffer)'
  BY <1>1 DEF Quiet
<1>5. OneAnswer(buffer)' /\ OneAnswer(pipe)'
  <2>1. OneAnswer(pipe)'
    BY DEF OneRequest, OneAnswer
  <2>2. \A i \in 1 .. Len(buffer') : buffer'[i].kind # "noise" => buffer'[i].req = sent'
    BY <1>1 DEF OneRequest, OneAnswer
  <2>3. \A i, j \in 1 .. Len(buffer') :
          buffer'[i].kind # "noise" /\ buffer'[j].kind # "noise" => i = j
    <3> SUFFICES ASSUME NEW i \in 1 .. Len(buffer'), NEW j \in 1 .. Len(buffer'),
                        buffer'[i].kind # "noise", buffer'[j].kind # "noise"
                 PROVE  i = j
      OBVIOUS
    <3>1. i + 1 = j + 1
      BY <1>1 DEF OneRequest, OneAnswer
    <3> QED BY <1>1, <3>1
  <2> QED BY <2>1, <2>2, <2>3 DEF OneAnswer
<1>6. Head(buffer).kind = "answer" =>
        stdin = <<>> /\ stage = "idle" /\ Quiet(pipe) /\ Quiet(buffer)'
  <2> SUFFICES ASSUME Head(buffer).kind = "answer"
               PROVE  stdin = <<>> /\ stage = "idle" /\ Quiet(pipe) /\ Quiet(buffer)'
    OBVIOUS
  <2>1. ~Quiet(buffer)
    BY <1>1, <1>2 DEF Quiet
  <2>2. \A i \in 1 .. Len(buffer') : buffer'[i].kind = "noise"
    BY <1>1, <1>2 DEF OneRequest, OneAnswer
  <2> QED BY <2>1, <2>2 DEF OneRequest, Quiet
<1>7. OneRequest'
  <2>1. server = "up" \/ server = "dead"
    BY DEF OneRequest, JuliaTypes
  <2>2. Quiet(pipe) = Quiet(pipe)'
    BY DEF Quiet
  <2> QED BY <1>4, <1>5, <1>6, <2>1, <2>2 DEF OneRequest, Waiting
<1>8. BufferIsRest'
  <2>1. Len(batch) \in Nat /\ Len(buffer) <= Len(batch) /\ batch' = batch
    BY LenProperties DEF JuliaTypes, BufferIsRest
  <2> DEFINE gone == Len(batch) - Len(buffer)
  <2>2. \A i \in 1 .. Len(buffer') : batch[gone + 1 + i] = buffer'[i]
    <3> SUFFICES ASSUME NEW i \in 1 .. Len(buffer') PROVE batch[gone + 1 + i] = buffer'[i]
      OBVIOUS
    <3>1. batch[gone + (i + 1)] = buffer[i + 1]
      BY <1>1 DEF BufferIsRest
    <3>2. gone + 1 + i = gone + (i + 1)
      BY <1>1, <2>1
    <3> QED BY <1>1, <3>1, <3>2
  <2>3. batch[gone + 1] = Head(buffer)
    BY <1>1, <1>2 DEF BufferIsRest
  <2>4. Len(batch') - Len(buffer') = gone + 1 /\ Len(buffer') < Len(batch')
    BY <1>1, <2>1
  <2> HIDE DEF gone
  <2> QED BY <1>1, <2>1, <2>2, <2>3, <2>4 DEF BufferIsRest
<1> QED BY <1>3, <1>7, <1>8

\* Steps of the session that settle nothing and read nothing.
LEMMA MoveKeeps ==
  ASSUME IInv, Call \/ Reuse \/ Start \/ Send \/ Select PROVE IInv'
<1> PyTypes /\ JuliaTypes /\ FileTypes /\ OneRequest /\ BufferIsRest /\ Attempts /\ Temps
  BY Types DEF IInv
<1>1. (PyTypes /\ FileTypes)'
  <2>1. <<>> \in Seq(Attempt) /\ Len(<<>>) = 0
    BY EmptySeq
  <2>2. CASE Call
    BY <2>1, <2>2, SessionAssumption DEF Call, files, PyTypes, FileTypes
  <2>3. CASE Reuse \/ Start \/ Send \/ Select
    BY <2>3 DEF Reuse, Start, Send, Select, files, PyTypes, FileTypes
  <2> QED BY <2>2, <2>3
<1>2. JuliaTypes'
  <2>1. <<>> \in Seq(Nat) /\ <<>> \in Seq(Line)
    BY EmptySeq
  <2>2. sent + 1 \in Nat
    BY DEF PyTypes
  <2>3. Append(stdin, sent + 1) \in Seq(Nat)
    BY <2>2, AppendProperties DEF JuliaTypes
  <2>4. CASE Start
    BY <2>1, <2>4 DEF Start, JuliaTypes
  <2>5. CASE Send
    BY <2>3, <2>5 DEF Send, JuliaTypes
  <2>6. CASE Call \/ Reuse \/ Select
    BY <2>6 DEF Call, Reuse, Select, julia, JuliaTypes
  <2> QED BY <2>4, <2>5, <2>6
<1>3. (Attempts /\ Temps)'
  <2>1. CASE Call
    BY <2>1, EmptySeq, SessionAssumption DEF Call, Attempts, Own, Temps, files, Waiting
  <2>2. CASE Send
    <3>1. \A i \in 1 .. Len(tried) : tried[i].asked < sent + 1
      <4>1. \A i \in 1 .. Len(tried) : tried[i] \in Attempt
        BY ElementOfSeq DEF PyTypes
      <4> QED BY <4>1 DEF Attempts, Attempt, PyTypes
    <3>2. \A i \in 1 .. Len(tried) : tried[i].asked <= sent + 1
      <4>1. \A i \in 1 .. Len(tried) : tried[i] \in Attempt
        BY ElementOfSeq DEF PyTypes
      <4> QED BY <3>1, <4>1 DEF Attempt, PyTypes
    <3> QED BY <2>2, <3>1, <3>2 DEF Send, Attempts, Own, Temps, files, PyTypes
  <2>3. CASE Reuse \/ Start \/ Select
    BY <2>3 DEF Reuse, Start, Select, Attempts, Own, Temps, files, Waiting
  <2> QED BY <2>1, <2>2, <2>3
<1>4. OneRequest'
  <2> USE DEF OneRequest, Quiet, OneAnswer, Waiting
  <2>1. CASE Call
    BY <2>1 DEF Call, julia
  <2>2. CASE Send
    <3>1. stdin' = <<sent + 1>> /\ sent' = sent + 1
      BY <2>2 DEF Send
    <3>2. /\ pc = "send" /\ server = "up" /\ pc' = "select" /\ stage = "idle"
          /\ UNCHANGED <<server, stage, cur, pipe, buffer, batch, noise>>
          /\ \A i \in 1 .. Len(pipe) : pipe[i].kind = "noise"
          /\ \A i \in 1 .. Len(buffer) : buffer[i].kind = "noise"
      BY <2>2 DEF Send
    <3> QED BY <3>1, <3>2
  <2>3. CASE Start
    BY <2>3, EmptySeq DEF Start
  <2>4. CASE Reuse \/ Select
    BY <2>4 DEF Reuse, Select, julia
  <2> QED BY <2>1, <2>2, <2>3, <2>4
<1>5. BufferIsRest'
  <2>1. CASE Start
    BY <2>1, EmptySeq DEF Start, BufferIsRest, Quiet
  <2>2. CASE Send
    <3>1. Quiet(buffer)' /\ UNCHANGED <<buffer, batch>>
      BY <2>2 DEF Send, OneRequest, Quiet, Waiting
    <3> QED BY <3>1 DEF BufferIsRest
  <2>3. CASE Call \/ Reuse \/ Select
    <3>1. pc' # "select" /\ UNCHANGED <<buffer, batch>>
      BY <2>3 DEF Call, Reuse, Select, julia
    <3> QED BY <3>1 DEF BufferIsRest
  <2> QED BY <2>1, <2>2, <2>3
<1> QED BY <1>1, <1>2, <1>3, <1>4, <1>5, Types DEF IInv

LEMMA SessionKeeps == ASSUME IInv, Session \/ StartFails PROVE IInv'
<1> PyTypes /\ JuliaTypes /\ FileTypes /\ OneRequest /\ BufferIsRest /\ Attempts /\ Temps
  BY Types DEF IInv
<1>1. CASE Fill
  <2>1. UNCHANGED <<python, files>>
    BY <1>1 DEF Fill
  <2>2. (PyTypes /\ FileTypes /\ Attempts /\ Temps)'
    BY <2>1 DEF python, files, PyTypes, FileTypes, Attempts, Own, Temps
  <2> QED BY <1>1, <2>2, FillKeeps, Types DEF IInv
<1>2. CASE ReadNoise
  <2>1. (JuliaTypes /\ OneRequest /\ BufferIsRest)'
    BY <1>2, ReadKeeps DEF ReadNoise
  <2>2. (PyTypes /\ FileTypes /\ Attempts /\ Temps)'
    BY <1>2 DEF ReadNoise, files, PyTypes, FileTypes, Attempts, Own, Temps, Waiting
  <2> QED BY <2>1, <2>2, Types DEF IInv
<1>3. CASE ReadAnswer
  <2>1. /\ Head(buffer) \in Line /\ Head(buffer) = buffer[1] /\ 1 \in 1 .. Len(buffer)
        /\ Head(buffer).kind # "noise" /\ pc = "read"
    BY <1>3, Read DEF ReadAnswer, JuliaTypes
  <2>2. Head(buffer).req = sent /\ Head(buffer).status \in Statuses /\ sent > 0 /\ sent \in Nat
    BY <2>1 DEF OneRequest, OneAnswer, Line, Attempts, PyTypes
  <2>3. /\ Settle(sent, Head(buffer).status) /\ sent' = sent
        /\ UNCHANGED <<mode, calls, files>>
    BY <1>3, <2>2 DEF ReadAnswer
  <2>4. (PyTypes /\ Attempts)' /\ pc' \in {"idle", "start"}
    <3>1. sent # 0 /\ pc \in Waiting
      BY <2>1, <2>2 DEF Waiting
    <3> QED BY <2>1, <2>2, <2>3, <3>1, Settled
  <2>5. (JuliaTypes /\ OneRequest /\ BufferIsRest)'
    BY <1>3, <2>4, ReadKeeps DEF ReadAnswer
  <2>6. (FileTypes /\ Temps)'
    BY <2>1, <2>3, <2>4 DEF FileTypes, Temps, files
  <2> QED BY <2>4, <2>5, <2>6, Types DEF IInv
<1>4. CASE Close
  <2>1. (JuliaTypes /\ OneRequest /\ BufferIsRest)'
    BY <1>4, Closed DEF Close, JuliaTypes
  <2>2. (PyTypes /\ FileTypes /\ Attempts /\ Temps)'
    BY <1>4 DEF Close, python, files, PyTypes, FileTypes, Attempts, Own, Temps
  <2> QED BY <2>1, <2>2, Types DEF IInv
<1> QED BY <1>1, <1>2, <1>3, <1>4, MoveKeeps, GiveUpKeeps DEF Session

(***************************************************************************)
(* _run_julia_script.                                                      *)
(***************************************************************************)
LEMMA ScriptKeeps == ASSUME IInv, Script \/ WriteRaises PROVE IInv'
<1> /\ PyTypes /\ JuliaTypes /\ FileTypes /\ OneRequest /\ BufferIsRest /\ Attempts /\ Temps
    /\ sent \in Nat /\ raised \in Nat /\ temps.disk \in Nat /\ temps.named \in Nat
    /\ temps = [disk |-> temps.disk, named |-> temps.named]
  BY Types DEF IInv, PyTypes, FileTypes
<1>1. /\ pc \notin Waiting /\ pc' \notin Waiting
      /\ UNCHANGED <<mode, julia, noise, deaths>>
  BY DEF Script, ScriptCall, WriteTemp, Preflight, RunScript, WriteRaises, Waiting
<1>2. (JuliaTypes /\ BufferIsRest)' /\ pc' # "read"
  BY <1>1 DEF julia, JuliaTypes, BufferIsRest, Waiting
<1>3. OneRequest'
  BY <1>1 DEF OneRequest, Quiet, OneAnswer, julia
<1>4. CASE ScriptCall
  <2>1. <<>> \in Seq(Attempt) /\ Len(<<>>) = 0
    BY EmptySeq
  <2>2. PyTypes'
    BY <1>4, <2>1, SessionAssumption DEF ScriptCall, PyTypes
  <2>3. (FileTypes /\ Attempts /\ Temps)'
    BY <1>4, <2>1, SessionAssumption
    DEF ScriptCall, files, FileTypes, Attempts, Own, Temps, Waiting
  <2> QED BY <1>2, <1>3, <2>2, <2>3, Types DEF IInv
<1>5. ASSUME NEW o \in {"ok", "timeout", "missing_deps", "failed"}, Preflight(o) PROVE IInv'
  <2>1. (PyTypes /\ FileTypes /\ Attempts /\ Temps)'
    BY <1>5 DEF Preflight, files, PyTypes, FileTypes, Attempts, Own, Temps, Waiting
  <2> QED BY <1>2, <1>3, <2>1, Types DEF IInv
<1>6. CASE WriteTemp
  <2>1. /\ temps'.disk = temps.disk + 1 /\ temps'.named = temps.named + 1
        /\ temps' \in [disk : Nat, named : Nat] /\ pc = "write"
        /\ pc' = IF temps'.named = 3 THEN "run" ELSE "write"
        /\ UNCHANGED <<mode, calls, sent, tried, raised>>
    BY <1>6 DEF WriteTemp
  <2>2. PyTypes' /\ FileTypes' /\ Temps'
    BY <2>1 DEF PyTypes, FileTypes, Temps
  <2>3. Attempts'
    BY <2>1 DEF Attempts, Own, Waiting
  <2> QED BY <1>2, <1>3, <2>2, <2>3, Types DEF IInv
<1>7. CASE WriteRaises
  <2>1. /\ temps'.disk = temps.disk + 1 - temps.named /\ temps'.named = 0
        /\ temps' = [disk |-> temps'.disk, named |-> 0]
        /\ raised' = raised + 1 /\ pc = "write" /\ pc' = "idle"
        /\ UNCHANGED <<mode, calls, sent, tried>>
    BY <1>7 DEF WriteRaises
  <2>2. temps.disk = raised + temps.named
    BY DEF Temps
  <2>3. temps'.disk = raised'
    BY <2>1, <2>2
  <2>4. PyTypes' /\ FileTypes' /\ Temps'
    BY <2>1, <2>3 DEF PyTypes, FileTypes, Temps
  <2>5. Attempts'
    BY <2>1 DEF Attempts, Own, Waiting
  <2> QED BY <1>2, <1>3, <2>4, <2>5, Types DEF IInv
<1>8. ASSUME NEW st \in Statuses, RunScript(st) PROVE IInv'
  <2> DEFINE new == [asked |-> sent, got |-> IF st \in Answers THEN sent ELSE 0,
                     status |-> st]
  <2>1. /\ temps' = [disk |-> temps.disk - temps.named, named |-> 0]
        /\ pc = "run" /\ pc' = "idle" /\ tried' = <<new>>
        /\ st \in Answers \/ st \in NoAnswer
        /\ UNCHANGED <<mode, calls, sent, raised>>
    BY <1>8 DEF RunScript, Unlinked, NoAnswer
  <2>2. temps.disk = raised + temps.named
    BY DEF Temps
  <2>3. temps'.disk = raised'
    BY <2>1, <2>2
  <2>4. FileTypes' /\ Temps'
    BY <2>1, <2>3 DEF FileTypes, Temps
  <2>5. new \in Attempt /\ sent > 0
    BY <2>1 DEF Attempt, Attempts
  <2>6. tried' \in Seq(Attempt) /\ Len(tried') = 1 /\ tried'[1] = new
    BY <2>1, <2>5
  <2>7. PyTypes'
    BY <2>1, <2>6, SessionAssumption DEF PyTypes
  <2>8. Attempts'
    <3>1. \A i \in 1 .. Len(tried') : i = 1 /\ ~(i < Len(tried'))
      BY <2>6
    <3>2. new.got = 0 => st \in NoAnswer
      BY <2>1, <2>5
    <3> QED BY <2>1, <2>5, <2>6, <3>1, <3>2 DEF Attempts, Own, Waiting
  <2> QED BY <1>2, <1>3, <2>4, <2>7, <2>8, Types DEF IInv
<1> QED BY <1>4, <1>5, <1>6, <1>7, <1>8 DEF Script

(***************************************************************************)
(* The invariant, and what follows from it.                                *)
(***************************************************************************)
LEMMA InitInv == Init => IInv
<1> SUFFICES ASSUME Init PROVE IInv
  OBVIOUS
<1> USE DEF Init
<1>1. /\ <<>> \in Seq(Attempt) /\ <<>> \in Seq(Nat) /\ <<>> \in Seq(Line)
      /\ Len(<<>>) = 0
  BY EmptySeq
<1>2. TypeOK
  <2>1. pc = "idle" /\ server = "none" /\ stage = "idle" /\ tried = <<>>
        /\ Len(tried) <= Solvers
    BY <1>1, SessionAssumption
  <2> QED BY <1>1, <2>1 DEF TypeOK
<1>3. OneRequest /\ BufferIsRest
  BY <1>1 DEF OneRequest, BufferIsRest, Quiet, OneAnswer, Waiting
<1>4. Attempts /\ Temps
  BY <1>1 DEF Attempts, Own, Temps, Waiting
<1> QED BY <1>2, <1>3, <1>4 DEF IInv

LEMMA Induction == Spec => []IInv
<1>1. IInv /\ [Next]_vars => IInv'
  <2> SUFFICES ASSUME IInv, [Next]_vars PROVE IInv'
    OBVIOUS
  <2>1. CASE JuliaStep
    BY <2>1, JuliaKeepsPython, JuliaKeeps, Types DEF IInv
  <2>2. CASE UNCHANGED vars
    <3> USE <2>2 DEF vars, python, julia, files
    <3>1. TypeOK'
      BY DEF IInv, TypeOK
    <3>2. OneRequest' /\ BufferIsRest'
      BY DEF IInv, OneRequest, BufferIsRest, Quiet, OneAnswer
    <3>3. Attempts' /\ Temps'
      BY DEF IInv, Attempts, Own, Temps
    <3> QED BY <3>1, <3>2, <3>3 DEF IInv
  <2> QED BY <2>1, <2>2, SessionKeeps, MoveKeeps, ScriptKeeps
      DEF Next, Server, JuliaStep
<1> QED BY <1>1, InitInv, PTL DEF Spec

\* Every variable of the session keeps its type; a call makes no more attempts
\* than there are linear solvers.
THEOREM SessionTypes == Spec => []TypeOK
<1>1. IInv => TypeOK
  BY DEF IInv
<1> QED BY <1>1, Induction, PTL

\* The answer that an attempt returns is the one to its own request, whatever
\* timed out, died or was restarted before: _solve closes the process whenever it
\* gives up an answer.
THEOREM AnswersBelong == Spec => []AnswerBelongs
<1>1. IInv => AnswerBelongs
  BY LenProperties DEF IInv, TypeOK, Attempts, Own, AnswerBelongs
<1> QED BY <1>1, Induction, PTL

\* Between two requests the process that is kept holds at most lines of noise.
THEOREM SessionIsQuiet == Spec => []QuietWhenIdle
<1>1. IInv => QuietWhenIdle
  <2> SUFFICES ASSUME IInv, pc \in {"idle", "start", "send"} PROVE Underway = {}
    BY DEF QuietWhenIdle
  <2>1. stdin = <<>> /\ stage = "idle" /\ Quiet(pipe) /\ Quiet(buffer)
        /\ pipe \in Seq(Line) /\ buffer \in Seq(Line)
    BY DEF IInv, TypeOK, OneRequest, Waiting
  <2>2. ToSet(stdin) = {}
    BY <2>1 DEF ToSet
  <2>3. \A x \in ToSet(pipe \o buffer) : x.kind = "noise"
    <3> SUFFICES ASSUME NEW i \in DOMAIN (pipe \o buffer)
                 PROVE  (pipe \o buffer)[i].kind = "noise"
      BY DEF ToSet
    <3>1. /\ Len(pipe) \in Nat /\ Len(buffer) \in Nat
          /\ i \in 1 .. Len(pipe) + Len(buffer)
          /\ (pipe \o buffer)[i] = IF i <= Len(pipe) THEN pipe[i] ELSE buffer[i - Len(pipe)]
      BY <2>1, ConcatProperties, LenProperties
    <3>2. CASE i <= Len(pipe)
      BY <2>1, <3>1, <3>2 DEF Quiet
    <3>3. CASE ~(i <= Len(pipe))
      <4>1. i - Len(pipe) \in 1 .. Len(buffer)
        BY <3>1, <3>3
      <4> QED BY <2>1, <3>1, <3>3, <4>1 DEF Quiet
    <3> QED BY <3>2, <3>3
  <2> QED BY <2>1, <2>2, <2>3 DEF Underway
<1> QED BY <1>1, Induction, PTL

\* A fallback solver is tried only after all before it failed.
THEOREM FallbacksInOrder == Spec => []FallbackInOrder
<1>1. IInv => FallbackInOrder
  BY LenProperties DEF IInv, TypeOK, Attempts, FallbackInOrder
<1> QED BY <1>1, Induction, PTL

\* What the two classifications of the data set make of a status, when the model
\* is called invalid together with a primal status.
LEMMA Labels ==
  ASSUME NEW st \in Statuses,
         NEW r, r = [success |-> st \in Feasible, status |-> st,
                     primal |-> st = "INVALID_MODEL", valid |-> TRUE, violations |-> {}]
  PROVE  /\ Feasibility(r) \in {"feasible", "infeasible"} => st \notin NoAnswer
         /\ (Feasibility(r) = "error") = (OutcomeClass(r) = "software_model_error")
         /\ r.status = "INVALID_MODEL" => Feasibility(r) = "infeasible"
<1> USE DEF Statuses, Feasible, Ambiguous, Indeterminate, Erroneous, Infeasible, NoAnswer
<1>1. r.success = (st \in Feasible) /\ r.status = st /\ r.primal = (st = "INVALID_MODEL")
      /\ r.valid = TRUE
  OBVIOUS
<1>2. CASE st = "LOCALLY_SOLVED"
  BY <1>1, <1>2 DEF Feasibility, OutcomeClass
<1>3. CASE st = "LOCALLY_INFEASIBLE"
  BY <1>1, <1>3 DEF Feasibility, OutcomeClass
<1>4. CASE st = "DUAL_INFEASIBLE"
  BY <1>1, <1>4 DEF Feasibility, OutcomeClass
<1>5. CASE st = "INVALID_MODEL"
  BY <1>1, <1>5 DEF Feasibility, OutcomeClass
<1>6. CASE st \in {"PROCESS_ERROR", "SERVER_EXCEPTION"}
  BY <1>1, <1>6 DEF Feasibility, OutcomeClass
<1>7. CASE st \in {"TIMEOUT", "ITERATION_LIMIT", "ISLANDED", "PREFLIGHT"}
  BY <1>1, <1>7 DEF Feasibility, OutcomeClass
<1> QED BY <1>2, <1>3, <1>4, <1>5, <1>6, <1>7

\* Only an answer makes a case feasible or infeasible, and the two
\* classifications agree on what an error is.
THEOREM LabelsAreHonest == Spec => []LabelsHonest
<1>1. IInv => LabelsHonest
  <2> SUFFICES ASSUME IInv, NEW i \in DOMAIN tried
               PROVE  LET r == Result(i)
                      IN /\ Feasibility(r) \in {"feasible", "infeasible"} => tried[i].got # 0
                         /\ (Feasibility(r) = "error") = (OutcomeClass(r) = "software_model_error")
                         /\ r.status = "INVALID_MODEL" => Feasibility(r) = "infeasible"
    BY DEF LabelsHonest
  <2>1. i \in 1 .. Len(tried) /\ tried[i] \in Attempt
    BY LenProperties, ElementOfSeq DEF IInv, TypeOK
  <2>2. tried[i].status \in Statuses /\ (tried[i].got = 0 => tried[i].status \in NoAnswer)
    BY <2>1 DEF Attempt, IInv, Attempts
  <2> DEFINE st == tried[i].status
  <2>3. Result(i) = [success |-> st \in Feasible, status |-> st,
                     primal |-> st = "INVALID_MODEL", valid |-> TRUE, violations |-> {}]
    BY DEF Result
  <2> HIDE DEF st
  <2>4. st \in Statuses
    BY <2>2 DEF st
  <2> QED BY <2>2, <2>3, <2>4, Labels DEF st
<1> QED BY <1>1, Induction, PTL

\* A script call leaves no temporary file but the one it failed to write.
THEOREM TempFilesAreGone == Spec => []TempFilesGone
<1>1. IInv => TempFilesGone
  BY DEF IInv, TypeOK, Temps, TempFilesGone
<1> QED BY <1>1, Induction, PTL

\* The session answers the request that was asked and keeps nothing of the
\* others, for any number of solvers and calls.
THEOREM SessionIsSound == Spec => []SessionSound
BY SessionTypes, AnswersBelong, SessionIsQuiet, FallbacksInOrder, LabelsAreHonest,
   TempFilesAreGone, PTL
DEF SessionSound

\* An answer in the buffer of the text stream is lost to a timeout only when it
\* is the one to the request under way and the same readline took a line of noise
\* before it.
THEOREM DeliveredIsReturned == Spec => DeliveredMeansReturned
<1>1. IInv /\ pc = "select" /\ Delivered => BehindNoise
  <2> SUFFICES ASSUME IInv, pc = "select",
                      NEW k \in DOMAIN buffer, buffer[k].kind = "answer"
               PROVE  BehindNoise
    BY DEF Delivered
  <2>1. /\ Len(batch) \in Nat /\ DOMAIN batch = 1 .. Len(batch)
        /\ Len(buffer) \in Nat /\ k \in 1 .. Len(buffer)
    BY LenProperties DEF IInv, TypeOK
  <2> DEFINE gone == Len(batch) - Len(buffer)
  <2>2. ~Quiet(buffer) /\ buffer[k].req = sent
    BY <2>1 DEF Quiet, IInv, OneRequest, OneAnswer
  <2>3. Len(buffer) < Len(batch) /\ batch[gone].kind = "noise" /\ batch[gone + k] = buffer[k]
    BY <2>1, <2>2 DEF IInv, BufferIsRest
  <2>4. gone \in DOMAIN batch /\ gone + k \in DOMAIN batch /\ gone < gone + k
    BY <2>1, <2>3
  <2> HIDE DEF gone
  <2> QED BY <2>2, <2>3, <2>4 DEF BehindNoise
<1> QED BY <1>1, Induction, PTL DEF DeliveredMeansReturned
=============================================================================
