--------------------------- MODULE ScopfCampaign ---------------------------
(***************************************************************************)
(* The SCOPF campaign (scripts/scopf_campaign.py and its two job scripts): *)
(* workers walk the task manifest and claim tasks by mkdir; a supervisor   *)
(* clears the claims of a killed job, looks at the status and submits the  *)
(* next job until nothing is pending.  Jobs and supervisors are killed     *)
(* anywhere; files being written then may be left torn.                    *)
(***************************************************************************)
EXTENDS Naturals, FiniteSets

CONSTANTS N,            \* tasks 1 .. N, in manifest order
          Workers,      \* processes of a job
          MaxAttempts,  \* max_attempts_per_task
          Torn,         \* files a kill may tear: a subset of {"owner", "done"}
          MaxKills,     \* bound: jobs and supervisors killed
          MaxRaises     \* bound: task runs that raise (unreadable report)

ASSUME TasksAssumption == N \in Nat
ASSUME AttemptsAssumption == MaxAttempts \in Nat \ {0}
ASSUME WorkersAssumption == IsFiniteSet(Workers)
ASSUME BoundsAssumption == MaxKills \in Nat /\ MaxRaises \in Nat

Tasks == 1 .. N

VARIABLES
  done,    \* done[t]: tasks/done/<t>.json
  failed,  \* failed[t]: how many tasks/failed/<t>.attempt<n>.json there are
  claims,  \* tasks with a directory in tasks/claims
  owner,   \* owner[t]: owner.json in that directory
  mode,    \* what runs: the supervisor ("clear", "status"), a job ("work")
  stale,   \* claims the supervisor has listed and not yet cleared
  noted,   \* the stale claim whose failure is recorded, or 0
  pc,      \* pc[w]: where worker w is
  pos,     \* pos[w]: the task worker w looks at
  kills, raises

disk == <<done, failed, claims, owner>>
vars == <<disk, mode, stale, noted, pc, pos, kills, raises>>

Init == /\ done = [t \in Tasks |-> "absent"]
        /\ failed = [t \in Tasks |-> 0]
        /\ claims = {} /\ owner = [t \in Tasks |-> "absent"]
        /\ mode = "clear" /\ stale = {} /\ noted = 0
        /\ pc = [w \in Workers |-> "ended"] /\ pos = [w \in Workers |-> N + 1]
        /\ kills = 0 /\ raises = 0

(***************************************************************************)
(* The worker: run().                                                      *)
(***************************************************************************)
At(w, l) == mode = "work" /\ pc[w] = l /\ pos[w] \in Tasks
Goto(w, l) == pc' = [pc EXCEPT ![w] = l] /\ UNCHANGED pos
NextTask(w) == /\ pos' = [pos EXCEPT ![w] = @ + 1]
               /\ pc' = [pc EXCEPT ![w] = "look"]
Frame == <<mode, stale, noted, kills>>

\* _claim: the done file ...
Look(w) == /\ At(w, "look")
           /\ IF done[pos[w]] # "absent" THEN NextTask(w) ELSE Goto(w, "count")
           /\ UNCHANGED <<disk, Frame, raises>>

\* Variant with a bug: one attempt more than configured.
Count_OffByOne(w) == /\ At(w, "count")
                     /\ IF failed[pos[w]] > MaxAttempts THEN NextTask(w)
                                                        ELSE Goto(w, "mkdir")
                     /\ UNCHANGED <<disk, Frame, raises>>

\* ... the number of failures ...
Count(w) == /\ At(w, "count")
            /\ IF failed[pos[w]] >= MaxAttempts THEN NextTask(w) ELSE Goto(w, "mkdir")
            /\ UNCHANGED <<disk, Frame, raises>>

\* ... and the exclusive mkdir.
Claim(w) == /\ At(w, "mkdir")
            /\ IF pos[w] \in claims
                 THEN NextTask(w) /\ UNCHANGED claims
                 ELSE claims' = claims \cup {pos[w]} /\ Goto(w, "owner")
            /\ UNCHANGED <<done, failed, owner, Frame, raises>>

Own(w) == /\ At(w, "owner")
          /\ owner' = [owner EXCEPT ![pos[w]] = "written"]
          /\ Goto(w, "run")
          /\ UNCHANGED <<done, failed, claims, Frame, raises>>

\* A solved or classified run is final; a crash of the solver is not.
RunTask(w) == /\ At(w, "run")
              /\ \E outcome \in {"final", "crashed"} : Goto(w, outcome)
              /\ UNCHANGED <<disk, Frame, raises>>

\* Variant with a bug: without try/finally the claim stays.
Raise_KeepClaim(w) == /\ At(w, "run") /\ raises < MaxRaises
                      /\ raises' = raises + 1
                      /\ Goto(w, "ended")
                      /\ UNCHANGED <<disk, Frame>>

\* The report cannot be read: the claim is released and the worker ends.
Raise(w) == /\ At(w, "run") /\ raises < MaxRaises
            /\ raises' = raises + 1
            /\ Goto(w, "bail")
            /\ UNCHANGED <<disk, Frame>>

RecordDone(w) == /\ At(w, "final")
                 /\ done' = [done EXCEPT ![pos[w]] = "written"]
                 /\ Goto(w, "release")
                 /\ UNCHANGED <<failed, claims, owner, Frame, raises>>

\* Attempt number: one more than there are failure files.
RecordFailed(w) == /\ At(w, "crashed")
                   /\ failed' = [failed EXCEPT ![pos[w]] = @ + 1]
                   /\ Goto(w, "release")
                   /\ UNCHANGED <<done, claims, owner, Frame, raises>>

\* _release, in the finally block.
Release(w) == /\ mode = "work" /\ pc[w] \in {"release", "bail"}
              /\ claims' = claims \ {pos[w]}
              /\ owner' = [owner EXCEPT ![pos[w]] = "absent"]
              /\ IF pc[w] = "release" THEN NextTask(w) ELSE Goto(w, "ended")
              /\ UNCHANGED <<done, failed, Frame, raises>>

EndOfManifest(w) == /\ mode = "work" /\ pc[w] = "look" /\ pos[w] \notin Tasks
                    /\ Goto(w, "ended")
                    /\ UNCHANGED <<disk, Frame, raises>>

Work(w) == \/ Look(w) \/ Count(w) \/ Claim(w) \/ Own(w) \/ RunTask(w)
           \/ RecordDone(w) \/ RecordFailed(w) \/ Release(w) \/ EndOfManifest(w)

(***************************************************************************)
(* The supervisor: clear_stale_claims and status.                          *)
(***************************************************************************)
Local == <<pc, pos, kills, raises>>

StartClear == /\ mode = "clear" /\ stale' = claims /\ mode' = "clearing"
              /\ UNCHANGED <<disk, noted, Local>>

\* An unfinished claim is recorded as a failed attempt ...
NoteStale == /\ mode = "clearing" /\ noted = 0
             /\ \E t \in stale :
                  /\ done[t] = "absent" /\ owner[t] # "torn"
                  /\ failed' = [failed EXCEPT ![t] = @ + 1]
                  /\ noted' = t
             /\ UNCHANGED <<done, claims, owner, mode, stale, Local>>

\* Variant with a bug: only the claims of unfinished tasks are released.
ClearStale_Unfinished ==
  /\ mode = "clearing"
  /\ \E t \in stale :
       /\ noted = t
       /\ claims' = claims \ {t} /\ stale' = stale \ {t}
       /\ owner' = [owner EXCEPT ![t] = "absent"]
  /\ noted' = 0
  /\ UNCHANGED <<done, failed, mode, Local>>

\* ... and every claim is released.
ClearStale == /\ mode = "clearing"
              /\ \E t \in stale :
                   /\ noted = t \/ (noted = 0 /\ done[t] # "absent")
                   /\ claims' = claims \ {t} /\ stale' = stale \ {t}
                   /\ owner' = [owner EXCEPT ![t] = "absent"]
              /\ noted' = 0
              /\ UNCHANGED <<done, failed, mode, Local>>

\* An owner file that does not parse ends the supervisor; so does, later, a
\* done file.  Someone submits it again.
Choke == /\ \/ /\ mode = "clearing" /\ noted = 0
               /\ \E t \in stale : done[t] = "absent" /\ owner[t] = "torn"
            \/ /\ mode = "status"
               /\ \E t \in Tasks : done[t] = "torn"
         /\ mode' = "clear" /\ stale' = {}
         /\ UNCHANGED <<disk, noted, Local>>

Cleared == /\ mode = "clearing" /\ stale = {}
           /\ mode' = "status"
           /\ UNCHANGED <<disk, stale, noted, Local>>

\* status: neither done, nor exhausted, nor running.
Pending == {t \in Tasks : done[t] = "absent" /\ failed[t] < MaxAttempts /\ t \notin claims}

\* The campaign is complete, or a job is submitted and starts its workers.
Status == /\ mode = "status" /\ \A t \in Tasks : done[t] # "torn"
          /\ IF Pending = {} THEN mode' = "complete" /\ UNCHANGED <<pc, pos>>
             ELSE /\ mode' = "work"
                  /\ pc' = [w \in Workers |-> "look"]
                  /\ pos' = [w \in Workers |-> 1]
          /\ UNCHANGED <<disk, stale, noted, kills, raises>>

\* `wait' returns; the next supervisor was queued afterany.
JobEnds == /\ mode = "work" /\ \A w \in Workers : pc[w] = "ended"
           /\ mode' = "clear"
           /\ UNCHANGED <<disk, stale, noted, Local>>

\* The job or the supervisor is killed, which may tear what is being written;
\* the next supervisor starts.
Kill == /\ mode \in {"clear", "clearing", "status", "work"} /\ kills < MaxKills
        /\ kills' = kills + 1
        /\ \/ UNCHANGED <<owner, done>>
           \/ /\ "owner" \in Torn /\ UNCHANGED done
              /\ \E w \in Workers :
                   At(w, "owner") /\ owner' = [owner EXCEPT ![pos[w]] = "torn"]
           \/ /\ "done" \in Torn /\ UNCHANGED owner
              /\ \E w \in Workers :
                   At(w, "final") /\ done' = [done EXCEPT ![pos[w]] = "torn"]
        /\ mode' = "clear" /\ stale' = {} /\ noted' = 0
        /\ pc' = [w \in Workers |-> "ended"]
        /\ UNCHANGED <<failed, claims, pos, raises>>

Supervise == StartClear \/ NoteStale \/ ClearStale \/ Choke \/ Cleared \/ Status \/ JobEnds

Next == \/ \E w \in Workers : Work(w) \/ Raise(w)
        \/ Supervise \/ Kill

Spec == Init /\ [][Next]_vars

\* Slurm runs the chain, the operating system its workers.
FairSpec == Spec /\ WF_vars(Supervise) /\ \A w \in Workers : WF_vars(Work(w))
-----------------------------------------------------------------------------
(***************************************************************************)
(* Properties.                                                             *)
(***************************************************************************)
Holding == {"owner", "run", "final", "crashed", "release", "bail"}
Labels  == Holding \cup {"look", "count", "mkdir", "ended"}

TypeOK == /\ done \in [Tasks -> {"absent", "torn", "written"}]
          /\ failed \in [Tasks -> Nat]
          /\ claims \subseteq Tasks
          /\ owner \in [Tasks -> {"absent", "torn", "written"}]
          /\ mode \in {"clear", "clearing", "status", "work", "complete"}
          /\ stale \subseteq claims /\ noted \in stale \cup {0}
          /\ pc \in [Workers -> Labels] /\ pos \in [Workers -> 1 .. N + 1]
          /\ kills \in 0 .. MaxKills /\ raises \in 0 .. MaxRaises

\* "Tasks are claimed with an atomic mkdir": no two workers run a task at the
\* same time, and whoever runs one has its claim.
RunsAlone ==
  mode = "work" =>
    \A w \in Workers : pc[w] \in Holding =>
      /\ pos[w] \in claims
      /\ \A v \in Workers \ {w} : pc[v] \in Holding => pos[v] # pos[w]

\* A job that ends by itself leaves no claim, so the supervisor's count of
\* interrupted attempts is about killed jobs only.
JobLeavesNoClaim ==
  mode = "work" => \A t \in claims : \E w \in Workers : pc[w] \in Holding /\ pos[w] = t

\* How far the attempts can exceed the limit: every worker may have looked
\* before the last failure, and a kill between a record and the release of its
\* claim counts an attempt twice.
AttemptsNearlyBounded ==
  \A t \in Tasks : failed[t] <= MaxAttempts - 1 + Cardinality(Workers) + kills

\* The supervisor stops only when every task is final: done, or out of attempts.
CompleteMeansFinal ==
  mode = "complete" => \A t \in Tasks : done[t] = "written" \/ failed[t] >= MaxAttempts

\* Claims and final tasks are what workers and supervisor take them for: see the
\* parts.
CampaignSound == TypeOK /\ RunsAlone /\ JobLeavesNoClaim /\ CompleteMeansFinal

\* "Resubmit the same script to continue": the campaign ends.
CampaignEnds == <>(mode = "complete")

\* It does if no kill tears the file that was being written.
TornFile == \E t \in Tasks : "torn" \in {done[t], owner[t]}
WholeCampaignEnds == []~TornFile => CampaignEnds
=============================================================================
