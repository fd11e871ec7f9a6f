----------------------------- MODULE RalphLoop -----------------------------
(***************************************************************************)
(* Ralph (scripts/ralph.py), the outer loop that owns a slot of TaskQueue: *)
(* it spawns one `vf run-once` after the other, turns each exit code into  *)
(* its counters, and leaves on STOP, on a budget, on idle, on a run of     *)
(* infra failures or on an error it does not know.                         *)
(*                                                                         *)
(* Every action here is a step of TaskQueue, the run-once that takes it,   *)
(* together with what its exit code does to the counters of the Ralph that *)
(* waits for it, or a step of a Ralph between two children.                *)
(***************************************************************************)
EXTENDS TaskQueue

CONSTANTS
  MaxInfra,         \* --max-infra-retries
  MaxIterations,    \* --max-iterations
  MaxProgress,      \* --max-tasks
  EarlyStops,       \* a STOP file or the wall clock may end a loop
  MaxFaults         \* bound: children that are killed, crash or do not start

ASSUME LoopAssumption ==
  /\ MaxInfra \in Nat \ {0} /\ MaxIterations \in Nat \ {0} /\ MaxProgress \in Nat
  /\ EarlyStops \in BOOLEAN

VARIABLES
  place,            \* Ralph -> still looping, or how it left
  charged,          \* iterations charged against --max-iterations
  progress,         \* progress_count
  streak,           \* infra_streak
  spawnFailures,
  spent             \* history: <<task, attempt>> requeued within the streak

counters == <<place, charged, progress, streak, spent>>
queue    == vars
loopVars == <<queue, counters, spawnFailures>>

(* "stopped" is a STOP file (RALPH_OK) or a budget (RALPH_BUDGET).         *)
Places == {"looping", "idle", "infra", "config", "stopped"}

-----------------------------------------------------------------------------
(* What _run_loop does with each exit code.                                *)

Charge(w) == charged' = [charged EXCEPT ![w] = @ + 1]

(* Mutant: waiting for a peer consumes an iteration.                       *)
ExitBusyCharged(w) ==
  /\ Charge(w)
  /\ streak' = [streak EXCEPT ![w] = 0]
  /\ spent' = [spent EXCEPT ![w] = {}]
  /\ UNCHANGED <<place, progress>>

ExitBusy(w) ==
  /\ streak' = [streak EXCEPT ![w] = 0]
  /\ spent' = [spent EXCEPT ![w] = {}]
  /\ UNCHANGED <<place, charged, progress>>

(* Mutant: progress leaves the streak alone.                               *)
ExitProgressKeepsStreak(w) ==
  /\ Charge(w)
  /\ progress' = [progress EXCEPT ![w] = @ + 1]
  /\ spent' = [spent EXCEPT ![w] = {}]
  /\ UNCHANGED <<place, streak>>

ExitProgress(w) ==
  /\ Charge(w)
  /\ progress' = [progress EXCEPT ![w] = @ + 1]
  /\ streak' = [streak EXCEPT ![w] = 0]
  /\ spent' = [spent EXCEPT ![w] = {}]
  /\ UNCHANGED place

ExitInfra(w, failed) ==
  /\ Charge(w)
  /\ streak' = [streak EXCEPT ![w] = @ + 1]
  /\ spent' = [spent EXCEPT ![w] = @ \union failed]
  /\ place' = [place EXCEPT ![w] = IF streak[w] + 1 >= MaxInfra THEN "infra" ELSE @]
  /\ UNCHANGED progress

(* EXIT_IDLE; EXIT_CONFIG and every code Ralph does not know.              *)
ExitFor(w, where) ==
  /\ Charge(w)
  /\ place' = [place EXCEPT ![w] = where]
  /\ UNCHANGED <<progress, streak, spent>>

-----------------------------------------------------------------------------
(* Between two children.                                                   *)
AtHead(w) == place[w] = "looping" /\ pc[w] = "off"

WithinBudget(w) == charged[w] < MaxIterations /\ progress[w] < MaxProgress

LeaveOnBudget(w) ==
  /\ AtHead(w)
  /\ ~WithinBudget(w)
  /\ place' = [place EXCEPT ![w] = "stopped"]
  /\ UNCHANGED <<queue, charged, progress, streak, spawnFailures, spent>>

(* A STOP file, or max_wall_seconds are over.                              *)
LeaveEarly(w) ==
  /\ EarlyStops
  /\ AtHead(w)
  /\ charged[w] < MaxIterations
  /\ place' = [place EXCEPT ![w] = "stopped"]
  /\ UNCHANGED <<queue, charged, progress, streak, spawnFailures, spent>>

(* OSError from subprocess.run counts as infra, FileNotFoundError halts.   *)
SpawnFails(w) ==
  /\ AtHead(w)
  /\ WithinBudget(w)
  /\ timeouts + spawnFailures < MaxFaults
  /\ spawnFailures' = spawnFailures + 1
  /\ ExitInfra(w, {}) \/ ExitFor(w, "config")
  /\ UNCHANGED queue

Spawn(w) ==
  /\ AtHead(w)
  /\ WithinBudget(w)
  /\ ReclaimExpired(w)
  /\ UNCHANGED <<counters, spawnFailures>>

(* The child goes on.                                                      *)
Inside(w) ==
  /\ \/ ScanOwners(w) \/ RequeueDead(w) \/ LeaseNone(w)
     \/ \E t \in Tasks : LeaseTask(w, t)
     \/ (CheckWork(w) \/ Recount(w)) /\ pc'[w] # "idle"
  /\ UNCHANGED <<counters, spawnFailures>>

(* The child exits and Ralph reads its code.                               *)
Exits(w) ==
  /\ \/ (CheckWork(w) \/ Recount(w) \/ StillWork(w)) /\ pc'[w] = "idle" /\ ExitFor(w, "idle")
     \/ StillWork(w) /\ pc'[w] = "off" /\ ExitBusy(w)
     \/ /\ SandboxPhase(w) \/ Succeed(w) \/ InfraGiveUp(w)
           \/ \E s \in {"failed_task", "blocked"} : Fail(w, s)
        /\ ExitProgress(w)
     \/ InfraRetry(w) /\ ExitInfra(w, {<<job[w], jobAttempt[w]>>})
     \/ RejectKind(w) /\ ExitFor(w, "config")
  /\ UNCHANGED spawnFailures

(* The child is killed by the timeout, or exits with an error of its own;  *)
(* the first is infra to Ralph, and nobody tells the task.                 *)
Dying(w) ==
  /\ timeouts + spawnFailures < MaxFaults
  /\ \/ Timeout(w) /\ ExitInfra(w, {})
     \/ Crash(w) /\ ExitFor(w, "config")
  /\ UNCHANGED spawnFailures

(* A dashboard kill: the child's exit code is one Ralph does not know.     *)
Kill(h) ==
  /\ KillOwner(h)
  /\ IF req[h].target \in Workers THEN ExitFor(req[h].target, "config")
                                  ELSE UNCHANGED counters
  /\ UNCHANGED spawnFailures

Elsewhere ==
  /\ \/ \E w \in Workers, t \in Tasks : EnqueueChild(w, t)
     \/ \E h \in Handlers : WriteRow(h) \/ \E k \in Kinds, t \in Tasks : ReadRow(h, k, t)
     \/ \E t \in Tasks : Expire(t) \/ OperatorEnqueue(t)
  /\ UNCHANGED <<counters, spawnFailures>>

-----------------------------------------------------------------------------
LoopInit ==
  /\ Init
  /\ place = [w \in Workers |-> "looping"]
  /\ charged = [w \in Workers |-> 0]
  /\ progress = [w \in Workers |-> 0]
  /\ streak = [w \in Workers |-> 0]
  /\ spawnFailures = 0
  /\ spent = [w \in Workers |-> {}]

Turn(w) == Spawn(w) \/ Inside(w) \/ Exits(w) \/ LeaveOnBudget(w)

LoopNext ==
  \/ \E w \in Workers : Turn(w) \/ LeaveEarly(w) \/ SpawnFails(w) \/ Dying(w)
  \/ \E h \in Handlers : Kill(h)
  \/ Elsewhere

LoopSpec == LoopInit /\ [][LoopNext]_loopVars

(* Ralph and its child keep running, a request handler finishes what it    *)
(* began; nothing is asked of kills, expiries and operator input.          *)
FairLoopSpec ==
  /\ LoopSpec
  /\ \A w \in Workers : WF_loopVars(Turn(w))
  /\ \A h \in Handlers : WF_loopVars(Kill(h) \/ (WriteRow(h) /\ UNCHANGED <<counters, spawnFailures>>))

-----------------------------------------------------------------------------
(* Counters stay within the budgets of the command line, and a Ralph that  *)
(* has left has no child.                                                  *)
LoopTypeOK ==
  /\ place \in [Workers -> Places]
  /\ charged \in [Workers -> 0..MaxIterations]
  /\ progress \in [Workers -> Nat]
  /\ streak \in [Workers -> Nat]
  /\ spawnFailures \in Nat
  /\ spent \in [Workers -> SUBSET (Tasks \X Nat)]
  /\ \A w \in Workers : /\ Live(w) => place[w] = "looping" /\ charged[w] < MaxIterations
                        /\ progress[w] <= charged[w]

(* A Ralph gives up only for cause.  Each failure of its streak was a kill *)
(* by timeout, a child that did not start, or an attempt of a task under   *)
(* the attempt cap, and a task spends each attempt once, whichever of the  *)
(* Ralphs leased it: with F tasks failing in a streak and no kills, giving *)
(* up takes MaxInfra <= F * (MaxAttempts - 1).  One poison task alone      *)
(* cannot bring a Ralph down when MaxInfra >= MaxAttempts.                 *)
FailedIn(w) == {f[1] : f \in spent[w]}

GiveUpExplained ==
  \A w \in Workers : place[w] = "infra" =>
    MaxInfra <= timeouts + spawnFailures + Cardinality(FailedIn(w)) * (MaxAttempts - 1)

(* Waiting costs nothing: whatever the loops were charged for, all of them *)
(* together, was a lease, a kill, a child that did not start, a sandbox    *)
(* phase or the exit that ended the loop.  A Ralph that waits out a peer's *)
(* long recon still has its iterations afterwards.                         *)
ChargesBacked ==
  LET total(f) == Cardinality(UNION {{x} \X (1..f[x]) : x \in DOMAIN f}) IN
  total(charged) <= total(attempt) + timeouts + spawnFailures + Cardinality(PhaseTasks)
                    + Cardinality({w \in Workers : place[w] \in {"idle", "config"}})

(* Every loop ends.  A Ralph that only gets BUSY charges nothing, so no    *)
(* budget ends it: it needs the peers it waits for.  And if all of them    *)
(* left on idle, only what an operator enqueued too late is unsettled.     *)
LoopsEnd ==
  <>[](/\ \A w \in Workers : place[w] # "looping"
       /\ (\A w \in Workers : place[w] = "idle") => InState(Work) \subseteq OperatorTasks)
=============================================================================
