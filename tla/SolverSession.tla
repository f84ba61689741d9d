--------------------------- MODULE SolverSession ---------------------------
(***************************************************************************)
(* The two ways powermodels_adapter.py runs Julia.                         *)
(*                                                                         *)
(* "server": PersistentPowerModelsSession keeps one process that reads     *)
(* requests from its stdin and answers on its stdout (run_opf.jl --server) *)
(* and tries one linear solver after the other.  Between the process and   *)
(* the session lie the pipe, which select looks at, and the buffer of the  *)
(* text stream, which only readline looks at.                              *)
(*                                                                         *)
(* "script": _run_julia_script starts a process per call, after a check of *)
(* its imports, and passes case, payload and answer in temporary files.    *)
(***************************************************************************)
EXTENDS Outcomes, Naturals, Sequences, SequencesExt

CONSTANTS
  Solvers,    \* number of linear solvers: "default" and its fallbacks
  MaxCalls,   \* bound: calls of solve_ac_opf / solve_pf_with_fallback
  MaxNoise,   \* bound: lines the server prints that are no answers
  MaxDeaths,  \* bound: times the server dies of itself
  Answers     \* statuses a server may answer with

ASSUME SessionAssumption ==
  /\ Solvers \in Nat \ {0} /\ {MaxCalls, MaxNoise, MaxDeaths} \subseteq Nat
  /\ Answers \subseteq Statuses

VARIABLES
  mode,    \* "server" or "script", as the caller chose
  pc,      \* where the caller is; "idle": between two calls
  calls,   \* calls made
  sent,    \* requests sent: a request is its number
  tried,   \* attempts[1 .. tried] of the current call: [asked, got, status]
  server,  \* "none", "up", or "dead" and not noticed yet
  stdin,   \* requests the server has not read
  stage,   \* the server: "idle", "solving" or "printed", a line without its end
  cur,     \* the request the server works on
  pipe,    \* lines in the stdout pipe: [kind, req, status]
  buffer,  \* lines in the buffer of the text stream
  batch,   \* history: what readline took of the pipe last, the buffer its rest
  noise, deaths,  \* counted against their bounds
  temps,   \* temporary files of script calls: on disk, and still known by name
  raised   \* script calls that failed while writing them

python == <<mode, pc, calls, sent, tried>>
julia == <<server, stdin, stage, cur, pipe, buffer, batch>>
files == <<temps, raised>>
vars == <<python, julia, noise, deaths, files>>

Line == [kind : {"answer", "noise", "torn"}, req : Nat, status : Statuses]
NoiseLine == [kind |-> "noise", req |-> 0, status |-> "PREFLIGHT"]
AnswerLine(s) == [kind |-> "answer", req |-> cur, status |-> s]
TornLine == [kind |-> "torn", req |-> cur, status |-> "PROCESS_ERROR"]

Init == /\ mode \in {"server", "script"}
        /\ pc = "idle" /\ calls = 0 /\ sent = 0 /\ tried = <<>>
        /\ server = "none" /\ stdin = <<>> /\ stage = "idle" /\ cur = 0
        /\ pipe = <<>> /\ buffer = <<>> /\ batch = <<>>
        /\ noise = 0 /\ deaths = 0
        /\ temps = [disk |-> 0, named |-> 0] /\ raised = 0

-----------------------------------------------------------------------------
(* The process run_opf.jl --server.                                        *)

Take == /\ server = "up" /\ stage = "idle" /\ stdin # <<>>
        /\ cur' = Head(stdin) /\ stdin' = Tail(stdin)
        /\ stage' = "solving"
        /\ UNCHANGED <<python, server, pipe, buffer, batch, noise, deaths, files>>

\* A line of a library, or of the login shell that started the process.
Chatter == /\ server = "up" /\ stage # "printed" /\ noise < MaxNoise
           /\ pipe' = Append(pipe, NoiseLine)
           /\ noise' = noise + 1
           /\ UNCHANGED <<python, server, stdin, stage, cur, buffer, batch, deaths, files>>

\* The answer is printed piece by piece: "PGDF_RESULT\t" and JSON ...
BeginLine == /\ server = "up" /\ stage = "solving"
             /\ stage' = "printed"
             /\ UNCHANGED <<python, server, stdin, cur, pipe, buffer, batch, noise, deaths,
                             files>>

\* ... and the end of the line.
EndLine == /\ server = "up" /\ stage = "printed"
           /\ \E s \in Answers : pipe' = Append(pipe, AnswerLine(s))
           /\ stage' = "idle"
           /\ UNCHANGED <<python, server, stdin, cur, buffer, batch, noise, deaths, files>>

\* The process dies; a line it was printing stays in the pipe as it is.
Die == /\ server = "up" /\ deaths < MaxDeaths
       /\ deaths' = deaths + 1
       /\ server' = "dead" /\ stage' = "idle" /\ stdin' = <<>>
       /\ pipe' = IF stage = "printed" THEN Append(pipe, TornLine) ELSE pipe
       /\ UNCHANGED <<python, cur, buffer, batch, noise, files>>

-----------------------------------------------------------------------------
(* PersistentPowerModelsSession.                                           *)

\* close(): the process is waited for, terminated or killed, its pipes are gone.
CloseServer == /\ server' = "none" /\ stdin' = <<>> /\ stage' = "idle"
               /\ cur' = 0 /\ pipe' = <<>> /\ buffer' = <<>> /\ batch' = <<>>

\* An attempt ends: after a success or the last solver the call returns.
Settle(got, s) ==
  /\ tried' = Append(tried, [asked |-> sent', got |-> got, status |-> s])
  /\ pc' = IF s \in Feasible \/ Len(tried') = Solvers THEN "idle" ELSE "start"

Call == /\ mode = "server" /\ pc = "idle" /\ calls < MaxCalls
        /\ calls' = calls + 1
        /\ tried' = <<>> /\ pc' = "start"
        /\ UNCHANGED <<mode, sent, julia, noise, deaths, files>>

\* poll() says that the process runs.
Reuse == /\ pc = "start" /\ server = "up"
         /\ pc' = "send"
         /\ UNCHANGED <<mode, calls, sent, tried, julia, noise, deaths, files>>

Start == /\ pc = "start" /\ server # "up"
         /\ server' = "up" /\ stdin' = <<>> /\ stage' = "idle" /\ cur' = 0
         /\ pipe' = <<>> /\ buffer' = <<>> /\ batch' = <<>>
         /\ pc' = "send"
         /\ UNCHANGED <<mode, calls, sent, tried, noise, deaths, files>>

StartFails == /\ pc = "start" /\ server # "up" /\ deaths < MaxDeaths
              /\ deaths' = deaths + 1
              /\ CloseServer
              /\ sent' = sent + 1 /\ Settle(0, "PROCESS_ERROR")
              /\ UNCHANGED <<mode, calls, noise, files>>

\* The request is in the pipe: stdin.write and flush return once the server has
\* read what does not fit, for which there is no deadline yet.
Send == /\ pc = "send" /\ server = "up"
        /\ sent' = sent + 1
        /\ stdin' = Append(stdin, sent + 1)
        /\ pc' = "select"
        /\ UNCHANGED <<mode, calls, tried, server, stage, cur, pipe, buffer, batch,
                       noise, deaths, files>>

\* The process died since poll(), or while the request is written: the pipe is
\* broken.
SendFails == /\ pc = "send" /\ server = "dead"
             /\ CloseServer
             /\ sent' = sent + 1 /\ Settle(0, "PROCESS_ERROR")
             /\ UNCHANGED <<mode, calls, noise, deaths, files>>

\* select: bytes in the pipe, a line without its end included, or its end.
Readable == pipe # <<>> \/ stage = "printed" \/ server = "dead"
Select == /\ pc = "select" /\ Readable
          /\ pc' = "read"
          /\ UNCHANGED <<mode, calls, sent, tried, julia, noise, deaths, files>>

\* Variant with a bug: the process is left alone after a timeout.
TimeOut_KeepServer == /\ pc = "select"
                      /\ UNCHANGED <<julia, sent>> /\ Settle(0, "TIMEOUT")
                      /\ UNCHANGED <<mode, calls, noise, deaths, files>>

\* Variant with a bug: the deadline is looked at only when nothing is readable.
TimeOut_Quiet == /\ pc = "select" /\ stage = "printed"
                 /\ CloseServer
                 /\ UNCHANGED sent /\ Settle(0, "TIMEOUT")
                 /\ UNCHANGED <<mode, calls, noise, deaths, files>>

\* The deadline passes, before select or in it, whatever has arrived.
TimeOut == /\ pc = "select"
           /\ CloseServer
           /\ UNCHANGED sent /\ Settle(0, "TIMEOUT")
           /\ UNCHANGED <<mode, calls, noise, deaths, files>>

\* Variant with a bug: what was taken is looked at after the next select.
Fill_Later == /\ pc = "read" /\ buffer = <<>> /\ pipe # <<>>
              /\ \E k \in DOMAIN pipe : /\ buffer' = SubSeq(pipe, 1, k)
                                        /\ pipe' = SubSeq(pipe, k + 1, Len(pipe))
              /\ batch' = buffer'
              /\ pc' = "select"
              /\ UNCHANGED <<mode, calls, sent, tried, server, stdin, stage, cur,
                             noise, deaths, files>>

\* readline on an empty buffer takes what the pipe has, as much as fits.
Fill == /\ pc = "read" /\ buffer = <<>> /\ pipe # <<>>
        /\ \E k \in DOMAIN pipe : /\ buffer' = SubSeq(pipe, 1, k)
                                  /\ pipe' = SubSeq(pipe, k + 1, Len(pipe))
        /\ batch' = buffer'
        /\ UNCHANGED <<python, server, stdin, stage, cur, noise, deaths, files>>

\* A line that does not start with PGDF_RESULT is passed over.
ReadNoise == /\ pc = "read" /\ buffer # <<>> /\ Head(buffer).kind = "noise"
             /\ buffer' = Tail(buffer)
             /\ pc' = "select"
             /\ UNCHANGED <<mode, calls, sent, tried, server, stdin, stage, cur,
                            pipe, batch, noise, deaths, files>>

ReadAnswer == /\ pc = "read" /\ buffer # <<>> /\ Head(buffer).kind = "answer"
              /\ buffer' = Tail(buffer)
              /\ UNCHANGED sent /\ Settle(Head(buffer).req, Head(buffer).status)
              /\ UNCHANGED <<mode, calls, server, stdin, stage, cur, pipe, batch,
                             noise, deaths, files>>

\* The last line of a dead process does not parse, or there is none.
ReadFails == /\ pc = "read"
             /\ IF buffer = <<>> THEN pipe = <<>> /\ server = "dead"
                                 ELSE Head(buffer).kind = "torn"
             /\ CloseServer
             /\ UNCHANGED sent /\ Settle(0, "PROCESS_ERROR")
             /\ UNCHANGED <<mode, calls, noise, deaths, files>>

\* __exit__ after the last call.
Close == /\ mode = "server" /\ pc = "idle" /\ calls = MaxCalls /\ server # "none"
         /\ CloseServer
         /\ UNCHANGED <<python, noise, deaths, files>>

-----------------------------------------------------------------------------
(* _run_julia_script.                                                      *)

ScriptCall == /\ mode = "script" /\ pc = "idle" /\ calls < MaxCalls
              /\ calls' = calls + 1 /\ sent' = sent + 1
              /\ tried' = <<>>
              /\ pc' \in {"preflight", "idle"}   \* idle: the script is missing
              /\ UNCHANGED <<mode, julia, noise, deaths, files>>

\* Only a preflight that runs out of time goes on to the solve.
Preflight(o) == /\ pc = "preflight" /\ o \in {"ok", "timeout", "missing_deps", "failed"}
                /\ pc' = IF o \in {"ok", "timeout"} THEN "write" ELSE "idle"
                /\ UNCHANGED <<mode, calls, sent, tried, julia, noise, deaths, files>>

\* Case, payload and output file: created, written, then known by name.
WriteTemp == /\ pc = "write"
             /\ temps' = [disk |-> temps.disk + 1, named |-> temps.named + 1]
             /\ pc' = IF temps'.named = 3 THEN "run" ELSE "write"
             /\ UNCHANGED <<mode, calls, sent, tried, julia, noise, deaths, raised>>

\* The finally clause removes the files whose name is known.
Unlinked == [disk |-> temps.disk - temps.named, named |-> 0]

\* Writing the case or the payload raises: that file stays, without a name.
WriteRaises == /\ pc = "write" /\ temps.named < 2
               /\ temps' = [disk |-> temps.disk + 1 - temps.named, named |-> 0]
               /\ raised' = raised + 1
               /\ pc' = "idle"
               /\ UNCHANGED <<mode, calls, sent, tried, julia, noise, deaths>>

\* The run times out or fails, its output is not JSON, or it is the answer.
RunScript(s) == /\ pc = "run" /\ s \in Answers \cup {"TIMEOUT", "PROCESS_ERROR", "PREFLIGHT"}
                /\ temps' = Unlinked
                /\ tried' = <<[asked |-> sent, got |-> IF s \in Answers THEN sent ELSE 0,
                               status |-> s]>>
                /\ pc' = "idle"
                /\ UNCHANGED <<mode, calls, sent, julia, noise, deaths, raised>>

-----------------------------------------------------------------------------
Server == Take \/ BeginLine \/ EndLine
Session == Call \/ Reuse \/ Start \/ SendFails \/ Select \/ TimeOut
             \/ Fill \/ ReadNoise \/ ReadAnswer \/ ReadFails \/ Close
Script == \/ ScriptCall \/ WriteTemp
          \/ \E o \in {"ok", "timeout", "missing_deps", "failed"} : Preflight(o)
          \/ \E s \in Statuses : RunScript(s)

Next == Server \/ Session \/ Send \/ Script \/ Chatter \/ Die \/ StartFails \/ WriteRaises

Spec == Init /\ [][Next]_vars

\* The caller runs.  The server need not: it may leave the request in the pipe,
\* so that the caller is never done with Send, and solve for ever, but it ends a
\* line that it has begun.
Fairness == WF_vars(Session) /\ WF_vars(TimeOut) /\ WF_vars(Script) /\ WF_vars(EndLine)

FairSpec == Spec /\ Fairness

-----------------------------------------------------------------------------
(***************************************************************************)
(* Properties.                                                             *)
(***************************************************************************)
Attempt == [asked : Nat, got : Nat, status : Statuses]

TypeOK == /\ mode \in {"server", "script"}
          /\ pc \in {"idle", "start", "send", "select", "read",
                     "preflight", "write", "run"}
          /\ calls \in Nat /\ sent \in Nat /\ cur \in Nat
          /\ tried \in Seq(Attempt) /\ Len(tried) <= Solvers
          /\ server \in {"none", "up", "dead"}
          /\ stage \in {"idle", "solving", "printed"}
          /\ stdin \in Seq(Nat)
          /\ pipe \in Seq(Line) /\ buffer \in Seq(Line) /\ batch \in Seq(Line)
          /\ noise \in Nat /\ deaths \in Nat /\ raised \in Nat
          /\ temps \in [disk : Nat, named : Nat]

\* Whatever timed out, died or was restarted before, the answer an attempt
\* returns is the one to the request it sent (_solve closes the process after
\* every failure, so that no late answer can meet a later request).
AnswerBelongs == \A i \in DOMAIN tried : tried[i].got \in {0, tried[i].asked}

\* Between two requests none is under way, in whatever place: in a pipe, with
\* the server, or as an answer not read yet.  The process that is kept holds
\* at most lines of noise (it is closed on every path that gave up an answer).
Underway == ToSet(stdin) \cup (IF stage = "idle" THEN {} ELSE {cur})
              \cup {l.req : l \in {x \in ToSet(pipe \o buffer) : x.kind = "answer"}}
QuietWhenIdle == pc \in {"idle", "start", "send"} => Underway = {}

\* An answer that was delivered to the text stream is lost to a timeout only when
\* the same readline took it from the pipe behind other output: readline returned
\* that line, the answer to the request under way stayed in the buffer, and
\* select, which sees only the pipe, waited in vain.
Delivered == \E i \in DOMAIN buffer : buffer[i].kind = "answer"
BehindNoise == \E i, j \in DOMAIN batch :
                 /\ i < j /\ batch[i].kind = "noise"
                 /\ batch[j].kind = "answer" /\ batch[j].req = sent
DeliveredMeansReturned ==
  [][pc = "select" /\ Delivered /\ server' = "none" => BehindNoise]_vars

\* A solver is tried only after all before it failed, and a call that used up
\* its solvers reports the last one: the fallbacks neither skip nor repeat.
FallbackInOrder ==
  /\ \A i \in DOMAIN tried : i < Len(tried) => tried[i].status \notin Feasible
  /\ \A i, j \in DOMAIN tried : i < j => tried[i].asked < tried[j].asked

\* What the data set says of a result of the session: error exactly when the
\* server failed or raised, and only an answer makes a case feasible or
\* infeasible, the same for both classifications.
Result(i) == [success |-> tried[i].status \in Feasible, status |-> tried[i].status,
              primal |-> tried[i].status = "INVALID_MODEL", valid |-> TRUE, violations |-> {}]
LabelsHonest ==
  \A i \in DOMAIN tried :
    LET r == Result(i)
    IN /\ Feasibility(r) \in {"feasible", "infeasible"} => tried[i].got # 0
       /\ (Feasibility(r) = "error") = (OutcomeClass(r) = "software_model_error")
       /\ r.status = "INVALID_MODEL" => Feasibility(r) = "infeasible"

\* Temporary files do not pile up: whatever error path a script call takes,
\* it leaves no file behind, but for the one it failed to write.
TempFilesGone == pc = "idle" => temps = [disk |-> raised, named |-> 0]

\* The session answers the request that was asked and keeps nothing of the others:
\* see the parts.
SessionSound == /\ TypeOK /\ AnswerBelongs /\ QuietWhenIdle /\ FallbackInOrder
                /\ LabelsHonest /\ TempFilesGone

\* Every call returns, even if the server never answers; but for one that is
\* left for ever with a request its server does not read.
CallsReturn == (pc # "idle") ~> (pc = "idle" \/ [](pc = "send"))
=============================================================================
