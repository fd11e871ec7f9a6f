------------------------------ MODULE Campaign ------------------------------
(***************************************************************************)
(* Starting, pausing, resuming and stopping a campaign: the dashboard      *)
(* requests of ui/runner.py, the Ralph loops they spawn (scripts/ralph.py) *)
(* and the files in the run directory through which they know each other:  *)
(* STOP, ralph.pid, ralph_workers.json and runner.json.                    *)
(*                                                                         *)
(* Requests run in a thread pool and take no lock.  A step is one file     *)
(* operation, or one look at which pids live; the two pid files are read,  *)
(* and unlinked, in one step.  A Ralph process has a pid of its own and is *)
(* not restarted.  The leases, which run-once takes and the requests       *)
(* reclaim, are TaskQueue's subject; run.lock, which only a campaign of    *)
(* one worker uses, is RunLock's.                                          *)
(***************************************************************************)
EXTENDS Integers, FiniteSets

CONSTANTS
  Ralphs,            \* pids of Ralph processes
  Handlers,          \* concurrent dashboard requests
  Nobody,
  RequestKinds,      \* subset of {"start", "pause", "resume", "stop", "status"}
  MaxWorkers,        \* lease ceiling: the most Ralphs one start spawns
  MaxRequests,       \* bound: dashboard requests
  MaxSpawnFailures   \* bound: Popen calls that fail

Kinds == {"start", "pause", "resume", "stop", "status"}

ASSUME NamesAssumption == Nobody \notin Ralphs
ASSUME RequestAssumption == RequestKinds \subseteq Kinds
ASSUME WorkersAssumption == MaxWorkers \in Nat \ {0}

VARIABLES
  stop,                  \* the STOP file is there
  pidFile, workersFile,  \* ralph.pid and ralph_workers.json
  meta,                  \* the pids runner.json claims
  ralph,                 \* where each Ralph process is
  pc, job,               \* per request: step and locals
  used,                  \* how much of each bound is spent
  disturbed              \* history: requests overlapped, or a spawn failed

files == <<stop, pidFile, workersFile, meta>>
vars  == <<files, ralph, pc, job, used, disturbed>>

Claims  == [pid : Ralphs \union {Nobody}, pids : SUBSET Ralphs]
NoClaim == [pid |-> Nobody, pids |-> {}]
Jobs    == [kind : Kinds, phase : {"first", "again", "last"}, pids : SUBSET Ralphs,
            meta : Claims, spawned : SUBSET Ralphs, primary : Ralphs \union {Nobody}]
NoJob   == [kind |-> "status", phase |-> "last", pids |-> {}, meta |-> NoClaim,
            spawned |-> {}, primary |-> Nobody]
Steps   == {"idle", "read", "judge", "sweep", "clear", "unlinkStop", "reclaimStale",
            "spawn", "claim", "list", "writeStop", "target", "kill", "unlinkPids",
            "reclaim"}
Places  == {"unborn", "check", "task", "stopped", "leave", "clearOwn", "gone"}

Live       == {r \in Ralphs : ralph[r] \notin {"unborn", "gone"}}
Tracked    == (workersFile \union {pidFile}) \ {Nobody}    \* _read_worker_pids
Claimed(m) == (m.pids \union {m.pid}) \ {Nobody}           \* _meta_claimed_pids
Busy       == {h \in Handlers : pc[h] # "idle"}

Spend(what, limit) == used[what] < limit /\ used' = [used EXCEPT ![what] = @ + 1]

Goto(h, step, j) ==
  /\ pc' = [pc EXCEPT ![h] = step]
  /\ job' = [job EXCEPT ![h] = IF step = "idle" THEN NoJob ELSE j]
Status(h, phase) == Goto(h, "read", [job[h] EXCEPT !.phase = phase])

-----------------------------------------------------------------------------
(* runner_status.                                                          *)

ReadPids(h) ==
  /\ pc[h] = "read"
  /\ Goto(h, "judge", [job[h] EXCEPT !.pids = Tracked])
  /\ UNCHANGED <<files, ralph, used, disturbed>>

(* Mutant: start does not look whether a campaign is running.              *)
AnsweredAnyway(h, alive) ==
  CASE job[h].kind \in {"start", "resume"} /\ job[h].phase = "first" ->
         Goto(h, "unlinkStop", job[h])
    [] OTHER -> Goto(h, "idle", job[h])

(* What the caller does with the answer.                                   *)
Answered(h, alive) ==
  CASE job[h].kind = "start" /\ job[h].phase = "first" ->
         Goto(h, IF alive THEN "idle" ELSE "unlinkStop", job[h])
    [] job[h].kind = "resume" /\ job[h].phase = "first" ->
         Goto(h, "unlinkStop", job[h])
    [] job[h].kind = "resume" /\ job[h].phase = "again" ->
         IF alive THEN Goto(h, "idle", job[h])
         ELSE Goto(h, "read", [job[h] EXCEPT !.kind = "start", !.phase = "first"])
    [] OTHER -> Goto(h, "idle", job[h])

AnswersAlive(h) == pc[h] = "judge" /\ job[h].pids \intersect Live # {}

(* No listed pid lives: the pid files are stale.                           *)
Judge(h) ==
  /\ pc[h] = "judge"
  /\ IF AnswersAlive(h)
     THEN Answered(h, TRUE)
     ELSE Goto(h, "sweep", [job[h] EXCEPT !.meta = meta])
  /\ UNCHANGED <<files, ralph, used, disturbed>>

Sweep(h) ==
  /\ pc[h] = "sweep" /\ Goto(h, "clear", job[h])
  /\ pidFile' = Nobody /\ workersFile' = {}
  /\ UNCHANGED <<stop, meta, ralph, used, disturbed>>

(* _clear_stale_runner_meta writes back the runner.json it read.           *)
ClearClaim(h) ==
  /\ pc[h] = "clear" /\ Answered(h, FALSE)
  /\ meta' = IF Claimed(job[h].meta) # {} /\ Claimed(job[h].meta) \intersect Live = {}
             THEN NoClaim ELSE meta
  /\ UNCHANGED <<stop, pidFile, workersFile, ralph, used, disturbed>>

-----------------------------------------------------------------------------
(* start_run and resume_run.                                               *)

UnlinkStop(h) ==
  /\ pc[h] = "unlinkStop" /\ stop' = FALSE
  /\ Goto(h, IF job[h].kind = "start" THEN "spawn" ELSE "reclaimStale", job[h])
  /\ UNCHANGED <<pidFile, workersFile, meta, ralph, used, disturbed>>

(* The task table is another module's: here the reclaims only take time.   *)
ReclaimStale(h) ==
  /\ pc[h] = "reclaimStale" /\ Status(h, "again")
  /\ UNCHANGED <<files, ralph, used, disturbed>>

(* One pid is as good as another: fixing the next keeps the states few.    *)
NextPid == CHOOSE r \in Ralphs : ralph[r] = "unborn"

Spawn(h, r) ==
  /\ pc[h] = "spawn" /\ ralph[r] = "unborn" /\ r = NextPid
  /\ Cardinality(job[h].spawned) < MaxWorkers
  /\ ralph' = [ralph EXCEPT ![r] = "check"]
  /\ Goto(h, "spawn", [job[h] EXCEPT !.spawned = @ \union {r},
                                     !.primary = IF job[h].spawned = {} THEN r ELSE @])
  /\ UNCHANGED <<files, used, disturbed>>

(* The request fails; what it spawned before runs on.                      *)
SpawnFails(h) ==
  /\ pc[h] = "spawn" /\ Spend("spawnFailures", MaxSpawnFailures)
  /\ Goto(h, "idle", job[h])
  /\ disturbed' = TRUE
  /\ UNCHANGED <<files, ralph>>

(* _write_pid: ralph.pid and a first runner.json.                          *)
WritePid(h) ==
  /\ pc[h] = "spawn" /\ job[h].spawned # {} /\ Goto(h, "claim", job[h])
  /\ pidFile' = job[h].primary
  /\ meta' = [pid |-> job[h].primary, pids |-> {}]
  /\ UNCHANGED <<stop, workersFile, ralph, used, disturbed>>

WriteClaim(h) ==
  /\ pc[h] = "claim" /\ Goto(h, "list", job[h])
  /\ meta' = [pid |-> job[h].primary, pids |-> job[h].spawned]
  /\ UNCHANGED <<stop, pidFile, workersFile, ralph, used, disturbed>>

(* Mutant: the siblings of the primary are not listed.                     *)
ListWorkersPrimaryOnly(h) ==
  /\ pc[h] = "list" /\ Status(h, "last")
  /\ workersFile' = {}
  /\ UNCHANGED <<stop, pidFile, meta, ralph, used, disturbed>>

ListWorkers(h) ==
  /\ pc[h] = "list" /\ Status(h, "last")
  /\ workersFile' = IF Cardinality(job[h].spawned) > 1 THEN job[h].spawned ELSE {}
  /\ UNCHANGED <<stop, pidFile, meta, ralph, used, disturbed>>

-----------------------------------------------------------------------------
(* pause_run and stop_run_hard.                                            *)

WriteStop(h) ==
  /\ pc[h] = "writeStop" /\ stop' = TRUE
  /\ IF job[h].kind = "stop" THEN Goto(h, "target", job[h]) ELSE Status(h, "last")
  /\ UNCHANGED <<pidFile, workersFile, meta, ralph, used, disturbed>>

Target(h) ==
  /\ pc[h] = "target" /\ Goto(h, "kill", [job[h] EXCEPT !.pids = Tracked])
  /\ UNCHANGED <<files, ralph, used, disturbed>>

(* Mutant: only the primary worker is killed.                              *)
KillPrimary(h) ==
  /\ pc[h] = "kill" /\ Goto(h, "unlinkPids", job[h])
  /\ ralph' = [r \in Ralphs |-> IF r = pidFile /\ r \in Live THEN "gone" ELSE ralph[r]]
  /\ UNCHANGED <<files, used, disturbed>>

(* The tree of every listed pid, its run-once included.                    *)
Kill(h) ==
  /\ pc[h] = "kill" /\ Goto(h, "unlinkPids", job[h])
  /\ ralph' = [r \in Ralphs |-> IF r \in job[h].pids \intersect Live THEN "gone" ELSE ralph[r]]
  /\ UNCHANGED <<files, used, disturbed>>

UnlinkPids(h) ==
  /\ pc[h] = "unlinkPids" /\ Goto(h, "reclaim", job[h])
  /\ pidFile' = Nobody /\ workersFile' = {}
  /\ UNCHANGED <<stop, meta, ralph, used, disturbed>>

ReclaimAll(h) ==
  /\ pc[h] = "reclaim" /\ Status(h, "last")
  /\ UNCHANGED <<files, ralph, used, disturbed>>

-----------------------------------------------------------------------------
(* A request arrives.                                                      *)
Request(h, kind) ==
  /\ pc[h] = "idle" /\ kind \in RequestKinds /\ Spend("requests", MaxRequests)
  /\ Goto(h, IF kind \in {"pause", "stop"} THEN "writeStop" ELSE "read",
          [NoJob EXCEPT !.kind = kind,
                        !.phase = IF kind \in {"start", "resume"} THEN "first" ELSE "last"])
  /\ disturbed' = (disturbed \/ Busy # {})
  /\ UNCHANGED <<files, ralph>>

-----------------------------------------------------------------------------
(* The Ralph loop: STOP and the budgets are tested between iterations, an  *)
(* iteration is one run-once.                                              *)

Move(r, place) == ralph' = [ralph EXCEPT ![r] = place]
LocalStep == UNCHANGED <<files, pc, job, used, disturbed>>

(* Mutant: STOP is only looked at when there is nothing to do.             *)
CheckIgnoresStop(r) ==
  /\ ralph[r] = "check" /\ LocalStep
  /\ (~stop /\ Move(r, "leave")) \/ Move(r, "task")

Check(r) ==
  /\ ralph[r] = "check" /\ LocalStep
  /\ IF stop THEN Move(r, "stopped") ELSE Move(r, "leave") \/ Move(r, "task")

(* run-once ends or is killed by its timeout; idle, config errors and too  *)
(* many infra failures end the loop.                                       *)
EndTask(r) ==
  /\ ralph[r] = "task" /\ LocalStep
  /\ Move(r, "check") \/ Move(r, "leave")

(* release_runner_meta_on_exit: the primary clears the claim when every    *)
(* sibling it can see is gone.                                             *)
Leave(r) ==
  /\ ralph[r] \in {"stopped", "leave"} /\ LocalStep
  /\ Move(r, IF meta.pid = r /\ ((Claimed(meta) \union Tracked) \ {r}) \intersect Live = {}
             THEN "clearOwn" ELSE "gone")

ClearOwn(r) ==
  /\ ralph[r] = "clearOwn" /\ Move(r, "gone")
  /\ meta' = NoClaim
  /\ UNCHANGED <<stop, pidFile, workersFile, pc, job, used, disturbed>>

-----------------------------------------------------------------------------
Init ==
  /\ stop = FALSE /\ pidFile = Nobody /\ workersFile = {} /\ meta = NoClaim
  /\ ralph = [r \in Ralphs |-> "unborn"]
  /\ pc = [h \in Handlers |-> "idle"] /\ job = [h \in Handlers |-> NoJob]
  /\ used = [requests |-> 0, spawnFailures |-> 0]
  /\ disturbed = FALSE

Continue(h) ==
  \/ ReadPids(h) \/ Judge(h) \/ Sweep(h) \/ ClearClaim(h)
  \/ UnlinkStop(h) \/ ReclaimStale(h) \/ WritePid(h) \/ WriteClaim(h) \/ ListWorkers(h)
  \/ WriteStop(h) \/ Target(h) \/ Kill(h) \/ UnlinkPids(h) \/ ReclaimAll(h)
  \/ SpawnFails(h) \/ \E r \in Ralphs : Spawn(h, r)

Loop(r) == Check(r) \/ EndTask(r) \/ Leave(r) \/ ClearOwn(r)

Next ==
  \/ \E h \in Handlers : Continue(h) \/ \E kind \in Kinds : Request(h, kind)
  \/ \E r \in Ralphs : Loop(r)

Spec == Init /\ [][Next]_vars

(* A Ralph that runs goes on: every run-once ends, by itself or by the     *)
(* task timeout.  Nothing is asked of the requests.                        *)
FairSpec == Spec /\ \A r \in Ralphs : WF_vars(Loop(r))

-----------------------------------------------------------------------------
(* Properties.                                                             *)

(* Files name pids, requests and loops are at a step of their code.        *)
TypeOK ==
  /\ stop \in BOOLEAN
  /\ pidFile \in Ralphs \union {Nobody} /\ workersFile \in SUBSET Ralphs
  /\ meta \in Claims
  /\ ralph \in [Ralphs -> Places]
  /\ pc \in [Handlers -> Steps] /\ job \in [Handlers -> Jobs]
  /\ used \in [{"requests", "spawnFailures"} -> Nat]
  /\ disturbed \in BOOLEAN

(* As long as requests come one at a time and every Popen succeeds, no     *)
(* Ralph runs that the pid files do not name, however fast it exits.       *)
LostOnlyIfDisturbed == ~disturbed /\ Busy = {} => Live \subseteq Tracked

(* Then a start also never adds a second campaign to a running one.        *)
OneCampaign == ~disturbed => Cardinality(Live) <= MaxWorkers

(* And a hard stop requeues the leased tasks only once nobody runs them.   *)
ReclaimAfterKill ==
  \A h \in Handlers : ~disturbed /\ pc[h] = "reclaim" => Live = {}

(* However requests overlap, a STOP that stays is obeyed by every Ralph,   *)
(* the ones no file names included.                                        *)
PauseDrains == stop ~> (~stop \/ Live = {})
=============================================================================
