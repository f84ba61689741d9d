--------------------------- MODULE CampaignDriver ---------------------------
(***************************************************************************)
(* How the rounds of a campaign are driven to their reduce markers by jobs *)
(* that submit jobs: drive_campaign.py with --chain, AUTO_ROUND jobs of    *)
(* launch_ultrascale_campaign.py, the supervisor that resubmits itself     *)
(* (exago_frontier_campaign_supervisor.sbatch), and the power-flow chain   *)
(* supervisor - prepare - map - finalizer.  Jobs are killed, requeued by   *)
(* Slurm under their id, and refused by sbatch; the operator launches the  *)
(* campaign again when nothing is left in the queue.                       *)
(*                                                                         *)
(* What happens inside a round is in MapReduceRound, PfShard and PfReduce. *)
(***************************************************************************)
EXTENDS Naturals, Sequences, FiniteSets

CONSTANTS
  R,           \* rounds are numbered 0 .. R - 1
  S,           \* shards of a round are numbered 1 .. S
  Budgets,     \* the budgets planned for the rounds, in order
  Modes,       \* ways to run the campaign: see Mode
  MaxCycles,   \* MAX_CYCLES of the supervisors
  MaxLaunches, \* bound: launches by the operator
  MaxFaults,   \* bound: kills, requeues and refusals, for each launcher
  Doubling     \* bound: FALSE: no job is requeued after it submitted its
               \* successor and before it noted so, which makes two chains

Rounds == 0 .. R - 1
Shards == 1 .. S
Launchers == {"pf", "exago", "drive", "auto"}
Mode == [launcher : Launchers,
         dep : {"afterany", "afterok"}]  \* --dependency-type between round jobs

ASSUME DriverSizes == R \in Nat \ {0} /\ S \in Nat \ {0} /\ Budgets \in [1 .. R -> Nat]
ASSUME DriverBounds == /\ Modes \subseteq Mode /\ MaxCycles \in Nat /\ MaxLaunches \in Nat
                       /\ MaxFaults \in [Launchers -> Nat] /\ Doubling \in BOOLEAN

VARIABLES
  way,
  round,     \* round[r]: the files of round r
  jobs,      \* jobs accepted since the launch; a job's id is its position
  shell,     \* the launching script: rounds it will submit, last job id
  launches, faults,
  whole,     \* history: no split of a selection into shards was cut off
  exposed    \* history: a job of this launch was stopped that held the chain

hist == <<whole, exposed>>
driverVars == <<way, round, jobs, shell, launches, faults, hist>>

NoFiles == [cands |-> FALSE, dealt |-> {}, queue |-> {}, done |-> {},
            marker |-> "none", budget |-> 0, prior |-> {}]
AtEase == [todo |-> <<>>, prev |-> 0]

DriverInit == /\ way \in Modes
        /\ round = [r \in Rounds |-> NoFiles]
        /\ jobs = <<>> /\ shell = AtEase /\ launches = 0 /\ faults = 0
        /\ whole = TRUE /\ exposed = FALSE

FirstStep == [sup |-> "drive", prep |-> "generate", map |-> "submit", fin |-> "submit",
              round |-> "select"]

\* A job that waits for job `after' (0: for nothing).
Job(kind, r, b, c, after, dep) ==
  [kind |-> kind, round |-> r, budget |-> b, cycle |-> c, after |-> after, dep |-> dep,
   state |-> "pending", pc |-> FirstStep[kind], sub |-> 0, noted |-> FALSE]
Supervisor(c, after) == Job("sup", 0, 0, c, after, "afterany")

Submitted == Len(jobs) + 1
Live == {j \in DOMAIN jobs : jobs[j].state \in {"pending", "running"}}
AtStep(j, pc) == j \in Live /\ jobs[j].state = "running" /\ jobs[j].pc = pc
GoOn(j, pc) == jobs' = [jobs EXCEPT ![j].pc = pc]
Ended(j, state) == [jobs EXCEPT ![j].state = state, ![j].pc = "end", ![j].noted = FALSE]
End(j, state) == jobs' = Ended(j, state)
Files(j) == round[jobs[j].round]
Sets(j, files) == round' = [round EXCEPT ![jobs[j].round] = files]

-----------------------------------------------------------------------------
(* drive_campaign.py *)

Complete(r) == round[r].marker = "complete"
AllComplete == \A r \in Rounds : Complete(r)

FirstIncomplete == CHOOSE r \in Rounds :
  ~Complete(r) /\ \A q \in Rounds : q < r => Complete(q)

BudgetOf(r) == Budgets[r + 1]

RoundKind == IF way.launcher = "pf" THEN "prep" ELSE "round"

Targets(first) == [i \in 1 .. R - first |-> first + i - 1]

ChainJob(r, b, prev) == Job("round", r, b, 0, prev, way.dep)

-----------------------------------------------------------------------------
(* The operator *)

\* A supervisor is submitted, or a script begins to queue a chain: the rounds
\* from the first incomplete one, or a job of any round for each round.
Launch ==
  /\ Live = {} /\ shell.todo = <<>> /\ launches < MaxLaunches /\ ~AllComplete
  /\ launches' = launches + 1
  /\ IF way.launcher \in {"pf", "exago"}
     THEN jobs' = <<Supervisor(1, 0)>> /\ UNCHANGED shell
     ELSE /\ shell' = [todo |-> Targets(IF way.launcher = "auto" THEN 0 ELSE FirstIncomplete),
                       prev |-> 0]
          /\ jobs' = <<>>
  /\ exposed' = FALSE
  /\ UNCHANGED <<way, round, faults, whole>>

\* Each job depends on the one submitted before.
ShellSubmit ==
  /\ shell.todo # <<>>
  /\ LET r == Head(shell.todo) IN
     jobs' = Append(jobs, ChainJob(r, BudgetOf(r), shell.prev))
  /\ shell' = [todo |-> Tail(shell.todo), prev |-> Submitted]
  /\ UNCHANGED <<way, round, launches, faults, hist>>

-----------------------------------------------------------------------------
(* Slurm *)

\* Variant with a bug: afterany is taken for afterok.
Released_Ok(j) ==
  LET before == jobs[j].after IN before # 0 => jobs[before].state = "ok"

Released(j) ==
  LET before == jobs[j].after IN
  before # 0 => jobs[before].state \in
                  IF jobs[j].dep = "afterok" THEN {"ok"} ELSE {"ok", "failed"}

Start(j) == /\ j \in Live /\ jobs[j].state = "pending" /\ Released(j)
            /\ jobs' = [jobs EXCEPT ![j].state = "running"]
            /\ UNCHANGED <<way, round, shell, launches, faults, hist>>

-----------------------------------------------------------------------------
(* The supervisors *)

TooMany(j) == jobs[j].cycle > MaxCycles

\* The runaway guard, or nothing left to do.
SupStops(j) ==
  /\ AtStep(j, "drive")
  /\ \/ TooMany(j) /\ End(j, "failed")
     \/ ~TooMany(j) /\ AllComplete /\ End(j, "ok")
  /\ UNCHANGED <<way, round, shell, launches, faults, hist>>

\* drive_campaign.py submits the first incomplete round and writes the plan.
SupDrives(j) ==
  /\ AtStep(j, "drive") /\ ~TooMany(j) /\ ~AllComplete
  /\ LET r == FirstIncomplete IN
     jobs' = Append([jobs EXCEPT ![j].pc = "follow", ![j].sub = Submitted],
                    Job(RoundKind, r, BudgetOf(r), jobs[j].cycle, 0, way.dep))
  /\ UNCHANGED <<way, round, shell, launches, faults, hist>>

\* The next supervisor waits for the job named in the plan, unless the round's
\* own jobs see to it.
SupFollows(j) ==
  /\ AtStep(j, "follow")
  /\ jobs' = IF way.launcher = "pf" THEN Ended(j, "ok")
             ELSE Append(Ended(j, "ok"), Supervisor(jobs[j].cycle + 1, jobs[j].sub))
  /\ UNCHANGED <<way, round, shell, launches, faults, hist>>

-----------------------------------------------------------------------------
(* Splitting a selection *)
Sampled(r) == round[r].dealt = Shards /\ round[r].done = Shards
Selected(j) == [Files(j) EXCEPT !.cands = TRUE, !.budget = jobs[j].budget,
                                !.prior = {r \in Rounds : Sampled(r)}]

\* Variant with a bug: candidates are generated whatever is there.
Generate_Again(j) ==
  /\ AtStep(j, "generate")
  /\ Sets(j, Selected(j)) /\ GoOn(j, "deal")
  /\ UNCHANGED <<way, shell, launches, faults, hist>>

\* riker_pf_prepare.sbatch generates candidates unless the file is there: then
\* the shards are taken to be there as well.
Generate(j) ==
  /\ AtStep(j, "generate")
  /\ IF Files(j).cands THEN GoOn(j, "queue") /\ UNCHANGED round
     ELSE Sets(j, Selected(j)) /\ GoOn(j, "deal")
  /\ UNCHANGED <<way, shell, launches, faults, hist>>

\* shard_selected_candidates.py.
Deal(j) ==
  /\ AtStep(j, "deal")
  /\ Sets(j, [Files(j) EXCEPT !.dealt = Shards])
  /\ GoOn(j, IF jobs[j].kind = "prep" THEN "queue" ELSE "work")
  /\ UNCHANGED <<way, shell, launches, faults, hist>>

NotEmpty(j) == Files(j).dealt

\* The queue lists the shard files that are not empty, once.
QueueUp(j) ==
  /\ AtStep(j, "queue")
  /\ LET queue == IF Files(j).queue = {} THEN NotEmpty(j) ELSE Files(j).queue
     IN /\ Sets(j, [Files(j) EXCEPT !.queue = queue])
        /\ IF queue = {} THEN End(j, "failed") ELSE GoOn(j, "submit")
        /\ exposed' = (exposed \/ queue = {})
  /\ UNCHANGED <<way, shell, launches, faults, whole>>

-----------------------------------------------------------------------------
(* The jobs of the power-flow chain submit the next one. *)

\* Variant with a bug: the next supervisor does not wait for the finalizer.
Successor_AtOnce(j) ==
  CASE jobs[j].kind = "prep" -> Job("map", jobs[j].round, 0, jobs[j].cycle, 0, "afterany")
    [] jobs[j].kind = "map"  -> Job("fin", jobs[j].round, 0, jobs[j].cycle, j, "afterany")
    [] jobs[j].kind = "fin"  -> Supervisor(jobs[j].cycle + 1, 0)

Successor(j) ==
  CASE jobs[j].kind = "prep" -> Job("map", jobs[j].round, 0, jobs[j].cycle, 0, "afterany")
    [] jobs[j].kind = "map"  -> Job("fin", jobs[j].round, 0, jobs[j].cycle, j, "afterany")
    [] jobs[j].kind = "fin"  -> Supervisor(jobs[j].cycle + 1, j)

\* The successor is not submitted again when a file named after this job's id
\* says it was.
Wanted(j) == ~jobs[j].noted

After(j) == IF jobs[j].kind = "prep" THEN "end" ELSE "check"

Submit(j) ==
  /\ AtStep(j, "submit")
  /\ IF Wanted(j) THEN jobs' = Append([jobs EXCEPT ![j].pc = "note"], Successor(j))
     ELSE GoOn(j, After(j))
  /\ UNCHANGED <<way, round, shell, launches, faults, hist>>

Note(j) == /\ AtStep(j, "note")
           /\ jobs' = [jobs EXCEPT ![j].noted = TRUE, ![j].pc = After(j)]
           /\ UNCHANGED <<way, round, shell, launches, faults, hist>>

EndPrep(j) == /\ AtStep(j, "end") /\ End(j, "ok")
              /\ UNCHANGED <<way, round, shell, launches, faults, hist>>

\* A map job leaves a round alone that is reduced, and one whose files it
\* misses.
CheckMap(j) ==
  /\ AtStep(j, "check") /\ jobs[j].kind = "map"
  /\ IF Complete(jobs[j].round) THEN End(j, "ok")
     ELSE IF ~Files(j).cands \/ Files(j).queue = {} THEN End(j, "failed")
     ELSE GoOn(j, "work")
  /\ UNCHANGED <<way, round, shell, launches, faults, hist>>

Missing(j) == Files(j).queue \ Files(j).done

\* The finalizer reduces a round whose queued shards are all done.
CheckFin(j) ==
  /\ AtStep(j, "check") /\ jobs[j].kind = "fin"
  /\ IF Complete(jobs[j].round) \/ Files(j).queue = {} \/ Missing(j) # {}
     THEN End(j, "ok") ELSE GoOn(j, "reduce")
  /\ UNCHANGED <<way, round, shell, launches, faults, hist>>

-----------------------------------------------------------------------------
(* The jobs that do the work *)

\* An AUTO_ROUND job looks for the first incomplete round when it starts; then
\* RESUME=1 reuses the shard files it finds, or else selects anew.
Select(j) ==
  /\ AtStep(j, "select")
  /\ IF way.launcher = "auto" /\ AllComplete THEN End(j, "ok")
     ELSE LET r == IF way.launcher = "auto" THEN FirstIncomplete ELSE jobs[j].round
          IN jobs' = [jobs EXCEPT ![j].round = r,
                        ![j].pc = IF round[r].dealt = {} THEN "bootstrap" ELSE "work"]
  /\ UNCHANGED <<way, round, shell, launches, faults, hist>>

Bootstrap(j) == /\ AtStep(j, "bootstrap")
                /\ Sets(j, Selected(j)) /\ GoOn(j, "deal")
                /\ UNCHANGED <<way, shell, launches, faults, hist>>

\* A shard is run to the end and marked done.  A round job's queue holds the
\* shard files there are.
Listed(j) == IF jobs[j].kind = "round" THEN Files(j).dealt ELSE Files(j).queue
WorkOn(j, i) ==
  /\ AtStep(j, "work") /\ i \in Listed(j) \ Files(j).done
  /\ Sets(j, [Files(j) EXCEPT !.done = @ \cup {i}])
  /\ UNCHANGED <<way, jobs, shell, launches, faults, hist>>

\* srun returned 0: a map leaves the reduction to its finalizer.
EndWork(j) ==
  /\ AtStep(j, "work") /\ Listed(j) \subseteq Files(j).done
  /\ IF jobs[j].kind = "map" THEN End(j, "ok") ELSE GoOn(j, "reduce")
  /\ UNCHANGED <<way, round, shell, launches, faults, hist>>

\* The reducer: only the finalizer's has --force.  A power-flow round with
\* software errors is complete although its reducer fails.
Reduce(j, state) ==
  /\ AtStep(j, "reduce")
  /\ IF jobs[j].kind # "fin" /\ Complete(jobs[j].round)
     THEN state = "failed" /\ UNCHANGED round
     ELSE /\ jobs[j].kind = "round" => state = "ok"
          /\ Sets(j, [Files(j) EXCEPT
                        !.marker = IF Listed(j) \subseteq Files(j).done THEN "complete"
                                   ELSE "partial"])
  /\ End(j, state)
  /\ UNCHANGED <<way, shell, launches, faults, hist>>

-----------------------------------------------------------------------------
(* Faults *)

\* The jobs that are all there is of the chain when they run: supervisors and
\* prepare jobs, a job that has not yet submitted its successor, the last one.
HoldsChain(j) == \/ jobs[j].kind \in {"sup", "prep"}
                 \/ jobs[j].pc = "submit"
                 \/ jobs[j].kind = "round" /\ \A k \in Live : jobs[k].after # j

\* What is left of a split in progress: its first shard files.
Cut(j) == IF jobs[j].pc # "deal" THEN UNCHANGED <<round, whole>>
          ELSE /\ \E n \in 0 .. S - 1 : Sets(j, [Files(j) EXCEPT !.dealt = 1 .. n])
               /\ whole' = FALSE

\* Cancelled, out of memory, at its time limit, or ended by set -e: also when
\* the coverage is not met after the shards were written.
KillJob(j) ==
  /\ j \in Live /\ jobs[j].state = "running" /\ faults < MaxFaults[way.launcher]
  /\ faults' = faults + 1
  /\ Cut(j) /\ End(j, "failed")
  /\ exposed' = (exposed \/ HoldsChain(j))
  /\ UNCHANGED <<way, shell, launches>>

\* A node fails: Slurm puts the job back under the same id.
Requeue(j) ==
  /\ j \in Live /\ jobs[j].state = "running" /\ faults < MaxFaults[way.launcher]
  /\ faults' = faults + 1
  /\ Cut(j)
  /\ jobs[j].pc \in {"follow", "note"} => Doubling
  /\ jobs' = [jobs EXCEPT ![j].state = "pending", ![j].pc = FirstStep[jobs[j].kind]]
  /\ UNCHANGED <<way, shell, launches, exposed>>

\* sbatch fails: set -e ends a job, an exception the launching script.
Refuse ==
  /\ faults < MaxFaults[way.launcher] /\ faults' = faults + 1
  /\ \/ \E j \in Live : /\ \/ AtStep(j, "submit") /\ Wanted(j)
                           \/ AtStep(j, "drive") /\ ~TooMany(j) /\ ~AllComplete
                           \/ AtStep(j, "follow") /\ way.launcher # "pf"
                        /\ End(j, "failed") /\ UNCHANGED shell
     \/ shell.todo # <<>> /\ shell' = AtEase /\ UNCHANGED jobs
  /\ exposed' = TRUE
  /\ UNCHANGED <<way, round, launches, whole>>

-----------------------------------------------------------------------------
Step(j) ==
  \/ SupStops(j) \/ SupDrives(j) \/ SupFollows(j)
  \/ Generate(j) \/ Deal(j) \/ QueueUp(j) \/ Submit(j) \/ Note(j) \/ EndPrep(j)
  \/ CheckMap(j) \/ CheckFin(j) \/ Select(j) \/ Bootstrap(j)
  \/ (\E i \in Shards : WorkOn(j, i)) \/ EndWork(j)
  \/ (\E state \in {"ok", "failed"} : Reduce(j, state))

DriverNext == \/ Launch \/ ShellSubmit \/ Refuse
        \/ \E j \in Live : Start(j) \/ Step(j) \/ KillJob(j) \/ Requeue(j)

DriverSpec == DriverInit /\ [][DriverNext]_driverVars

\* Slurm starts what is released, and what runs goes on.
FairDriver == DriverSpec /\ WF_driverVars(ShellSubmit) /\ WF_driverVars(\E j \in Live : Start(j) \/ Step(j))

-----------------------------------------------------------------------------
(* Properties. *)

FilesType == [cands : BOOLEAN, dealt : SUBSET Shards,
              queue : SUBSET Shards, done : SUBSET Shards,
              marker : {"none", "partial", "complete"},
              budget : {0} \cup {Budgets[i] : i \in 1 .. R}, prior : SUBSET Rounds]
DriverTypes ==
  /\ way \in Mode /\ round \in [Rounds -> FilesType]
  /\ \A j \in DOMAIN jobs :
       /\ jobs[j].kind \in DOMAIN FirstStep /\ jobs[j].round \in Rounds
       /\ jobs[j].after \in 0 .. Len(jobs) \ {j} /\ jobs[j].cycle \in 0 .. MaxCycles + 1
       /\ jobs[j].state \in {"pending", "running", "ok", "failed"}
  /\ shell.prev \in 0 .. Len(jobs) /\ launches \in 0 .. MaxLaunches
  /\ faults \in 0 .. MaxFaults[way.launcher] /\ hist \in BOOLEAN \X BOOLEAN

\* A prepare job that is run again and finds its files only reads.
Writing(j) == \/ \E pc \in {"bootstrap", "deal", "work", "reduce"} : AtStep(j, pc)
              \/ AtStep(j, "generate") /\ ~Files(j).cands
              \/ AtStep(j, "queue") /\ Files(j).queue = {}

Supervised == way.launcher \in {"pf", "exago"}

\* Whatever is killed, requeued or refused, two jobs never work on the files of
\* one round at the same time, so the queue's lock and index are never reset
\* under a running worker.
OneWriter ==
  \A j, k \in Live : Writing(j) /\ Writing(k) /\ jobs[j].round = jobs[k].round => j = k

\* When the queue of Slurm is empty the campaign is complete, unless a job that
\* held the chain alone was stopped or the cycles are used up: no kill of a map
\* job, of a finalizer that submitted its successor, or of a round job under a
\* supervisor ends the chain.
NotStranded ==
  Supervised /\ launches > 0 /\ Live = {} =>
    AllComplete \/ exposed \/ \E j \in DOMAIN jobs : jobs[j].cycle > MaxCycles

\* A round that is marked complete has run every shard of its selection, if no
\* split was cut off: with a candidates file left by a prepare job that was
\* killed later, the round completes with the shards that happen to exist.
CompleteMeansSampled ==
  whole => \A r \in Rounds : Complete(r) => Sampled(r)

\* "A timed-out or failed map is resumed without running a partial reduction".
NoPartialReduce == \A r \in Rounds : round[r].marker # "partial"

\* When candidates of a round are generated or selected, everything sampled in
\* the rounds before is there to be compared with: rounds run in order, also
\* under afterok; only the chain released by any end goes past a round.
PriorKnown ==
  (way.launcher = "drive" => way.dep = "afterok") =>
    \A r \in Rounds : whole /\ round[r].cands => 0 .. r - 1 \subseteq round[r].prior

\* A round is selected under the budget planned for it, however often and from
\* where the campaign was launched again.  AUTO_ROUND jobs are left out: each
\* brings the budget of its place in the chain to whatever round it finds.
BudgetPlanned ==
  way.launcher # "auto" => \A r \in Rounds : round[r].cands => round[r].budget = BudgetOf(r)

\* Rounds are worked on by one job, in order and to their end: see the parts.
RoundsSound == /\ DriverTypes /\ OneWriter /\ NotStranded /\ CompleteMeansSampled
               /\ NoPartialReduce /\ PriorKnown /\ BudgetPlanned

\* Work on a selection is never followed by another selection for the round.
SelectionKept ==
  [][\A r \in Rounds : round[r].done # {} =>
       round'[r].budget = round[r].budget /\ round'[r].prior = round[r].prior]_driverVars

\* A chain released by any end runs down: every job that was submitted is
\* started and ends, after whatever kill of the job before.
ChainRunsDown == way.dep = "afterany" => <>[](Live = {} /\ shell.todo = <<>>)
=============================================================================
