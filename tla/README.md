# TLA+ models of VulnForge

VulnForge audits a code base with LLM agents. Everything durable is in one run
directory: `harness.db` (SQLite in WAL mode), a handful of small files, and the
artefacts of the stages. Several operating-system processes work on it at once
and share nothing else:

* **Ralph** (`scripts/ralph.py`): one loop process per slot. Each turn spawns
  one `vf run-once`.
* **run-once** (`cli.cmd_run_once`): reclaims dead leases, leases one task, runs
  its stage, settles the task, exits with a code Ralph acts on.
* **the dashboard** (`ui/app.py`, `control/ops.py`, `ui/runner.py`): FastAPI
  handlers in a thread pool, each with a database connection of its own. They
  start and stop Ralphs, and change tasks and findings under the workers.

No process holds a transaction open while it works. The code reads, computes
(for minutes when an LLM is asked), and writes. What can go wrong lies in what
the others do meanwhile, and that is what these modules model: one step is one
committed SQL statement, one file operation, or one look at a pid.

## 1. Inventory

| Component | State | Operations | What is hard | Correct means |
|---|---|---|---|---|
| Task queue (`db.py` 775-1405, `cli.py` 907-1361) | `tasks`: state, lease_owner, lease_until, attempt, priority, resolved pair | enqueue, reclaim (TTL; dead pid), lease under pair caps, complete, fail, requeue, deadletter | pid probes outside transactions; leases never renewed; mutators that name the id only; two processes on one task | exclusive leases unless disturbed, caps and budgets hold, settled tasks stay settled, the queue drains |
| Task controls (`control/ops.py` 480-870) | same rows | pause, resume, halt, cancel, reorder, enqueue | read, write and kill are three steps | no request revives or loses a task |
| Finding review (`stages/hunt.py`, `dedup.py`, `validate_mech.py`, `validate_llm.py`, `validate_poc.py`, `control/ops.py` 2400-2640, `hitl.py`) | `findings.state`, `body_json` stamps, inbox report and answer, validation tasks | submit, merge near-duplicates, gate, disprove, re-arm, review, merge, publish, annotate | lost updates on one row; crashes between two transactions | only a human confirms; decisions are not overwritten knowingly; Accept does not stay blocked |
| Run lock (`db.RunLock`, `ui/runner.py` 513-546) | `run.lock` | acquire, clear stale, release, dashboard clean-up | check and unlink by path | one writer in serial mode |
| Campaign control (`ui/runner.py`, `scripts/ralph.py`) | `STOP`, `ralph.pid`, `ralph_workers.json`, `runner.json`, the Ralph processes | start, pause, resume, hard stop, status; a Ralph's exit | four files written in turn, no lock, partial spawn failures | no Ralph is lost, no second campaign, a pause drains |
| Ralph loop (`scripts/ralph.py` 316-630) | charged, progress, infra streak | spawn, read an exit code, give up, stop on a budget or STOP | attempts of a task are spread over loops; a BUSY turn is free | a loop gives up only for cause, waiting is free, every loop ends |
| Sandbox one-shot phase (`poc_phase.py`) | the finding's marker, `validate_poc` tasks | list, look, enqueue, re-read, stamp | look and enqueue are apart; others save the body from an old read | one task per pack unless a named race repeats it |
| PoC session (`poc_session.py`, `stages/iterate_poc.py`, `develop_poc.py`, `validate_poc.py`, `poc_runner.py`) | `poc_session.json`, `poc_steer.jsonl`, `poc_session_ctl.json`, `poc_run.json` | boot, head, cycle, close; steer, stop, save, enqueue | files written with and without the lock; requests that arrive late or stay behind | steers keep distinct numbers, a stop ends the session within its cycle, sessions end |
| Live task (`live_task.py`, `file_lock.py`) | `live/task-N.json`, `steer/task-N.json`, `steer/task-N.lock` | bind, round, tool step, heartbeat, unbind; note, force, abort; prune | threads and processes on two files; the lock file itself is unlinked | notes and steps are neither lost nor doubled, an abort is seen by the next round |
| Hunt stage (`stages/hunt.py`, `hunt_moa.py`, `tools/request_hunt.py`, `tools/continue_task.py`) | payloads of hunt tasks, the agent's session | rounds, candidate, none, continue, request, split, repeat | tool threads and processes that look and then enqueue; several perspectives under one lease | one continuation, splits within budget, no candidate lost, the tree dies out |
| Recon stage (`stages/recon.py`) | the architecture map, the batch's tasks, the batch marker | expand, merge, claim, plan; edit, restore | one column read and written as a whole by siblings and the operator | the map keeps every part, hunts are planned once, the batch ends |
| Agent runtime (`agent_runtime/`, `llm.py`) | session flags of one agent | steer hook, tool rounds, round-limit fallback | how a loop may end | the stages above rest on it |
| Operator chat (`operator_chat/`) | session file, pending confirmations in memory | turn, confirm, delete | a turn writes back the session it read minutes ago | nothing destructive without its confirmation; not modelled |
| Live benchmarks (`benchmarks/live.py`, `runs.py`, `api.py`) | `result.json` per run, the harness of a hunt and its Ralph, the driver thread | start, drive, poll, stop, score, sum up; a restart | whole-row writes of one file by driver, pages and operator; polls that do the driver's work; threads that die with the dashboard | an end stays, a verdict has its reasons, no hunt is scored that did not run, every run ends |
| Tool generation, hunt profiles, the benchmark library and mechanical runs | drafts, collection files | generate, validate, integrate, score | partial failure | states follow the draft; not modelled |
| Read-only tools, exports, settings, LLM client, pages | none, or network | - | - | pure functions and I/O; not modelled |

`PROJECT.json` lists the components with what is modelled of each, and the
hazards with the source line where each one bites.

## 2. Modules

| Module | Models | Abstract specification it implements |
|---|---|---|
| `TaskQueue` | task table, run-once steps, Ralph slots, task controls | `TaskLifecycle` |
| `RalphLoop` | the loops that own the slots, over the actions of `TaskQueue` | `TaskQueue!Spec` |
| `TaskLifecycle` | the state diagram of `PROTOCOL.md`, "Task states" | - |
| `FindingReview` | findings table, validation tasks, review requests, inbox | - |
| `PendingStamp` | `FindingReview` with a history of how an announced disprove goes astray | - |
| `RunLock` | `run.lock` | - |
| `Campaign` | runner files, Ralph processes, runner requests | - |
| `PocPack` (with `PocSandbox`) | the pack of one finding, its session, its tasks, the one-shot phase, its requests; isolation and verdicts as functions | - |
| `HuntTree` (with `AgentLoop`) | hunt tasks and what they breed; how an agent loop ends | - |
| `ReconBatch` (with `HuntPlan`) | the tasks of a recon batch and the map; the planning of hunts as functions | - |
| `LiveTask` | the snapshot and the inbox of one task, and their lock file | - |
| `LiveBench` | the runs of one live benchmark, its driver, the pages that poll it, the harness of each hunt | - |
| `LiveStart` | several live runs: requests that start, poll and stop them, and overlap; their drivers and Ralphs | - |
| `QueueProofs` | theorems about `TaskQueue` and `RalphLoop` | - |
| `LockFileProofs` | theorems about `LiveTask` and `RunLock`, the two locks that are files | - |
| other `*Proofs` | theorems about the module of that name | - |
| `MC*` | definitions TLC needs for its instances | - |

`MC` modules only define constant values and symmetry sets; `MCLockFiles` also
joins the next-state relations of two modules that share no variable. Mutated forms of
single definitions (`...OneMore`, `...Blind`, marked "Mutant") stand beside the
definition they change and are used by no specification.

### TaskQueue

`state`, `owner`, `expired`, `attempt`, `prio`, `pair` are the columns of
`tasks`. `owner` is a pid; the code only asks whether it lives, so the column
holds the slot whose current run-once wrote it, `Gone` once that process ended,
`Foreign` for an owner of an older version that names no pid. `pc[w]` is where
the current run-once of slot `w` is: the names follow `cmd_run_once` from top to
bottom (`scan`, `requeueDead`, `checkWork`, `lease`, `recount`, `stillWork`,
`dispatch`), with `off` between two children, and `idle` or `halted` for a slot
whose Ralph has ended. `dead[w]` is the list of ids `reclaim_dead_owner_leases`
keeps between its SELECT and its UPDATE. `req[h]` is a dashboard request between
its read, its write and its kill. The db.py mutators are operators
(`CompleteTask`, `FailTask`, `RequeueTask`, ...) that carry exactly the WHERE
clause of the statement.

Abstracted: the re-read of a leased row after COMMIT is part of the lease; an
operation's first read and the read its db.py mutator repeats are one read; the
sandbox phase is one action; a pid is never reused; only parallel mode (ceiling
above 1). Which follow-up tasks a stage enqueues, and how it ends, is
nondeterministic. A child may be killed by Ralph's timeout (`Timeout`) or end
with an error of its own outside the stage handler (`Crash`, `EXIT_CONFIG`) at
any step; both leave the lease behind.

### RalphLoop

`RalphLoop` EXTENDS `TaskQueue` and adds the variables of `_run_loop` for every
slot: `charged`, `progress_count` (`progress`), `infra_streak` (`streak`), and
how the loop ended (`place`). Each action of the queue is taken together with
what the loop makes of it: `Inside` is a step of a child that goes on, `Exits` a
step with which it exits, followed by the branch of `_run_loop` for its exit
code (`ExitBusy`, `ExitProgress`, `ExitInfra`, `ExitFor`), `Dying` and `Kill` the
ends a child does not choose. `LeaveOnBudget`, `LeaveEarly`, `SpawnFails` and
`Spawn` are the turns between two children. `spent` is a history variable: the
(task, attempt) pairs whose retry made up the current streak. Every step is a
step of `TaskQueue` or leaves its variables alone (theorem `LoopRunsTheQueue`).

Abstracted: STOP and the wall clock are one nondeterministic early stop, and
the exits they lead to share the place `"stopped"` with the budgets; back-off
and sleeps take no time. Which child fails to spawn, hangs or crashes is
nondeterministic within `MaxFaults`.

### FindingReview

`state` and `body` are the row of `findings`; of `body_json` the model keeps the
`validation_mech` stamp (passed, pending, deadlettered) and the last review
action, which are what decisions are made of. `queue` is the bag of waiting
`validate_mech` and `validate_llm` tasks. Each process has a step `pc`, the work
it does `job`, and `seen`, the row as it read it: every write computes its row
from `seen`, as the code computes it from the object it fetched. `validate_mech`
fetches the finding a second time after it saved a severity claim
(`Normalise`, `GateRead`; `validate_mech.py` 107), looks at its state no more, and
writes what the gates say (`GateReject`, `GatePass`). `accepted` is a history
variable.

`PendingStamp` EXTENDS `FindingReview` and conjoins `Remember` to every step:
`lost[f]` says that the disprove announced on `f` has gone astray, in one of three
ways (`DiedHolding`: a process died between its stamp and its enqueue, or inside
the cleanup of a deadlettered disprove; `PutBack`: a body read before the stamp
was cleared is written back; `Skipped`: the disprove found the finding closed),
and is reset when the stamp is cleared. No action reads it.

Abstracted: what a gate or a verifier decides is nondeterministic; whether an
infrastructure failure is retried or deadlettered is too, within `MaxFailures`;
severity, evidence and notes are data no property tells apart; a merge reads the
findings it drops inside its transaction; the requests that enqueue a PoC are
not modelled, a sandbox run may start at any time.

### RunLock

`lock` is the file the path names (its creator, whether the payload is written,
whether it has outlived `stale_seconds`), `seen[p]` the one process `p` judged.
Runners acquire and release, cleaners are dashboard requests. Serial mode only;
a pid is not reused.

### Campaign

The four files, `ralph[r]` for every Ralph pid (unborn, in its loop, on its way
out, gone), and for every request its step and locals. A Ralph that leaves
projects reports, may clear its claim and is gone; `disturbed` records that two
requests overlapped or a Popen failed.

Abstracted: the two pid files are read, and unlinked, in one step; `_write_pid`
is one step; Ralph may end for a reason of its own at any turn; live-snapshot
pruning and the sandbox preflight of start are not in it; a dashboard that dies
in a start looks like a spawn that fails.

### PocPack, PocSandbox

`file` is the state in `poc_session.json`, `steers` the numbers in
`poc_steer.jsonl`, `stop` the request in `poc_session_ctl.json`, `lock` the
holder of `poc_session.lock` where it is kept from one step to the next. `at[p]`
is the step of a worker or request with the body of the finding as it read it,
`mem[w]` the session in memory (`poc_session.json` is never read back by the
session itself). `run_iterate_session` is `Open`, `BeginSteer`/`AppendSteer`
(the operator's notes), `Boot`, `LoopHead`, `Cycle`, `Close`, `Raise`;
`enqueue_sandbox_oneshot_phase` is `EnterPhase` to `Stamp`. `PocSandbox` holds
the isolation ladder (`SelectIsolation`), what a run can bring back
(`RunIsolated`) and the verdict made of it. `mem.late`, `shots` and `disturbed`
are history.

Abstracted: the PoC and its rewriting are nondeterministic; a run of a cycle is
its verdict; a timeout of the session is a choice at the places that test it; a
look for waiting tasks that raises, which the phase takes for "none"
(`poc_phase.py` 27-29), and the rows beyond its 500.

### HuntTree, AgentLoop

`hunts` maps the id of a queued or leased hunt to the part of its payload that
decides what it may breed (class, spawn chain, continue generation, split depth,
path hints, force depth, parent). `at[w]` is the lease of a worker: the slot it
is in, what the agent has done (`session`), calls between a look and an enqueue
(`calls`, `ask`, `left`) and the outcome. `Configs` lists configurations, and
Init picks one: a Strands agent with threads, the scripted client, a retried
hunt, a panel of two perspectives, and tables that outgrow the looks. `AgentLoop` says which errors end a loop,
which of them the round-limit fallback turns into a continuation or a forced
none, and what `classify_llm_failure` makes of the rest.

What a look at the table sees is part of the model, as `list_tasks` returns the
oldest rows up to its limit (`db.py` 1928-1935). `table` says how far the table has
grown: `short` (every row is among the oldest 500), `long` (new rows are beyond the
500 that `continue_task` and `request_hunt` look at), `longer` (new rows are beyond
the 2000 that `_count_split_tasks` counts); `Grow` is the enqueueing of other
tasks. A hunt has `listed` (was it enqueued while the table was short) and `paused`
(`Pause`, `Resume`: the looks name queued and leased rows only). `Visible` is a hunt
a look can see; a look may raise, which both tools take for "none under way".
`splits` counts the splits there are and those the count can see. A panel may end
with `refused` when packing the prompt of its next perspective raises
`PermissionError` or exceeds the budget (`hunt.py` 925-934): the hunt fails and the
outcomes so far are dropped.

Abstracted: which tool a model calls; evidence gates (a candidate is accepted or
not); coverage rows, which no hunt reads; a pause of a leased hunt is a crash
followed by a pause; an exception that escapes a slot ends the hunt as `refused`
or `error` does. A continued slot counts whether or not its loop ended well: the
continue tool makes it end well (`hunt.py` 1007).

### ReconBatch, HuntPlan

`tasks` are the queued and leased recon tasks with their payload, `map` is
`architecture_json` as the list of contributors whose part it holds and the
batch markers, `revisions` what a write replaced, `page` the dashboard's editor.
A worker goes `expand`, `fan`, `agent`, `merge`, `look`, `claim`, `mark`,
`plan`, `hunts`, as `recon.run` does. `HuntPlan` is `plan_hunt_tasks`: the focus of the
map, or the balanced product of areas and classes, clipped by
`diversify_clip_tasks` to `max_tasks`: one hunt after another, the one whose area
is the rarest among those taken, then whose class is, then the first.
`IsConfig` says which configurations of a batch there are.

There are two merges. Where `run.architecture_llm_merge` is on (the default) and
there is a map, a model is asked first: it is shown both maps, where they
are long cut to 40 items a list and to half of `max_architecture_merge_chars` each
(`_dump`, `recon.py` 308-323), and its answer alone is stored (503). `Answers` lets it keep any of the
parts, in any order, at least one; the contributors it leaves out go to
`past.omitted`. Without a readable answer, or with the setting off, the merge is
mechanical (`Merged`) and keeps what both maps hold. In a run of more than 500 tasks
(`long`) the looks for siblings and for a continuation see the oldest 500 rows and
may miss any of them (`Look`, `EnqueueContinuation`). `accepted` are the classes a
map's focus may name, all there are where the run hunts with every active one
(`recon.py` 391-392), and `allowed` those of the fallback.

Abstracted: what a model writes into a part, and that a list of a map holds more
than one item of a contributor; a map has at least one component, so that the code
map's areas are never asked for; class aliases; the snapshot of a revision and the
write that replaces it are one step, and old revisions are never dropped
(`ARCHITECTURE_REVISION_CAP`); the lookup of the generation a requeued recon starts
from (`ops.py` 1189). An exception after the agent's loop that looks like trouble
with the provider requeues the task (`cli.py` 1120-1125), as `Crash` does.

### LiveTask

`file` is the inode of `steer/task-N.lock` (0 when there is none) and `at[p].fd`
the one a thread or process has open; two of them exclude each other only when
it is the same. `steer` and `snap` are the two JSON files, `at[p].steer` and
`at[p].snap` what a holder read. The main thread goes `bind`, `boundary`,
`deliver`, `start`, `model`, `tools`, and `unbind`; a tool thread `record`; the
heartbeat `touch`; the dashboard `note`, `force`, `abort`; the pruner looks,
unlinks the snapshot (`live`) and the lock file (`locks`). `past` is history:
notes given and handed over, calls made in this round, an abort not yet seen and
the rounds begun since, and whether something was unlinked under its users.

Abstracted: texts and times; an old heartbeat thread that outlives its round is
the same thread; the kill that follows an abort may or may not come; reading and
writing the files does not fail. (Were it to fail in a boundary, the exception is
swallowed and the round begins without the boundary, `strands_loop.py` 209-214.)

### LiveBench

`row` is `result.json` of every run: its status, whether `harness_run_dir` is
set and whether the metrics name the members of a suite. `update_run` is two
steps, `ReadRow` and `WriteRow`, and `Collide` is the rename that fails because
another write had the same temporary name. `at[p]` is what the driver thread or
a request is at: `Script` lists the steps of `drive_live_hunt` from top to bottom
(`OpenLive`, `Mark` for a phase, `Prepare`, `EnqueueHints`, `StartOne`,
`WaitIdle`, `Score`, `CloseHunt`), `Loop` is `drive_live_suite`, `Parent` and
`NextKid` are `project_suite_parent`, `Look`, `LookAlive` and `LookQueued` are
`reconcile_live_run`, `Stop`, `StopKid` and `Kill` are `cancel_live_run`,
`Start`, `Create` and `Spawn` are `start_live_run` and `start_live_suite`.
`harness` is a hunt's database and Ralph: tasks that wait, tasks this Ralph has
done, a finding the oracle names. A restart makes all threads idle and leaves
files and Ralphs. `past` is history.

Abstracted: the hints are enqueued in one step; Ralph works one task after
another and leaves when none waits or its budget is spent; of the list of
active runs a poll takes any one; the module follows one live run from its start
to its end, other starts are in `LiveStart`; half an hour passes for all runs at once; errors,
scores and times are left out; a file that is read while it is replaced is read
as it was.

### LiveStart

`row`, `ralph` and `driver` are those of `LiveBench` for runs that are hunts of
their own; `handler[p]` is a request. A start asks for the active runs as the code
does (`Ask`, `See`, `Look`, `Queued`: `find_active_live_run` reconciles every run it
meets), answers 409 or goes on (`Decide`), and creates its run later (`Create`,
`Phase`, `Spawn`); nothing holds a lock from the question to `create_run`
(`api.py` 181-208, `live.py` 288, 334). The driver looks whether its run has ended,
reads, writes and starts Ralph in separate steps (`Script`); a stop kills the Ralph
it finds (`Kill`) and writes the end later (`EndRead`, `EndWrite`). So two starts may
overlap, and a run that was stopped allows another start while its driver is about
to start its Ralph. `past` is history: `overlapped`, `reopened`, `meddled`.

Abstracted: a suite is one run (its members are driven one after the other, and are
`LiveBench`'s subject); the phases before init are taken together; scores, writes
that fail, the limit of 200 rows of the list of runs, and a run that cannot be read
are left out; a start that fails half-way is a restart at that point.

### How they fit together

`RalphLoop` composes the loops with the queue. Apart from that the modules share
vocabulary, not variables: `TaskQueue` assumes slots that keep spawning
run-once, `RalphLoop` is what spawns them, `Campaign` is where the Ralphs come
from and what stops them. `TaskQueue` is the parallel mode, `RunLock` the serial one. The
tasks of `FindingReview`, `PocPack`, `HuntTree` and `ReconBatch` are leased as
`TaskQueue` describes, reduced to: queued or held by one process, returned on a
crash (in `ReconBatch` also leased a second time). A recon ends in the hunts
`HuntPlan` plans, a hunt in a candidate that `FindingReview` takes up, a finding
in a pack (`PocPack`). `PendingStamp` adds a history to `FindingReview`, and
`LiveStart` puts several runs beside each other where `LiveBench` looks into one. The tool rounds in `HuntTree` and `ReconBatch` are what
`LiveTask` shows from inside: its abort and its forced none end the loops whose
outcomes `AgentLoop` lists. The harness of a live benchmark is a run directory
where `Campaign`, `TaskQueue` and the stages are at work; `LiveBench` sees of it
what the driver asks: is a Ralph alive, does a task wait, what was found.

## 3. Runs

All are small instances; the interesting interleavings need two actors, one
disturbance and one request, and every run has them.

| Run | Instance | Shows |
|---|---|---|
| `tq_safety` | 2 slots; task 1 may start on a lease of an older version, be a follow-up or come from the sandbox phase, and has a kind `dispatch_task` rejects; task 2 is ordinary; task 3 may be enqueued by an operator; the pair of 2 and 3 may change; 2 pairs, one capped at 1; attempt cap 2; 1 kill or crash, 1 overdue lease and 1 request, or 2 requests, or the operator's task; 0.9 million states | `InfraBudget`, `ExclusiveUntilDisturbed`, `LeaseCap`, `RevivedOnlyByInfraRetry`, `FollowsLifecycle` |
| `ralph_loops` | 2 Ralphs that may be stopped early, 2 ordinary tasks, one of them enqueued by an operator; attempt cap 2, infra limit 2, 3 iterations, 2 tasks; 1 fault (kill, crash or failing spawn), 1 request; 0.5 million states | `GiveUpExplained`, `ChargesBacked`, `LoopsEnd` |
| `fr_safety` | 2 findings, 1 worker, 1 reviewer, 2 submissions, 2 requests of any kind, 1 sandbox run, disprove stage on and off; or 1 crash or host failure with 1 submission and 1 request; 2.9 million states | `ConfirmedWasAccepted`, `OverriddenOnlyUnseen` |
| `fr_stamp` | `PendingStamp`: 1 finding, submitted once, 1 worker, 1 operator with 2 requests (accept, reject, reopen, re-arm, merge), 1 sandbox run, 1 crash anywhere, 1 host failure, disprove stage on and off; 0.9 million states | `PendingSettles` |
| `fr_override` | 1 finding, 2 workers, 1 rejection | counterexample to `HumanDecisionStands` |
| `camp_safety` | 3 Ralph pids, 2 per start, 2 requests of any kind one after another or overlapping, 1 failing spawn; 0.5 million states | `LostOnlyIfDisturbed`, `OneCampaign`, `ReclaimAfterKill`, `PauseDrains` |
| `poc_pack` | 2 workers, 1 request (save, enqueue, steer or stop), an iterate task waiting, one-shot phase on, 2 cycles, 1 crash or retry, a host with gVisor; 0.8 million states | `SteersKept`, `StopWithinOneCycle`, `OneShotUndisturbed`, `SessionEnds` |
| `hunt_tree` | 2 workers, 2 classes, chains of 2, 1 requested hunt, split budget 1 of 2 parts; six configurations (threads with continuations and splits; retries and crashes; the scripted client; two perspectives; a table that outgrows 500 rows, with two of: a pause, a crash, a retry, a look that raises; a table that outgrows 2000 rows, with splits of splits); 0.8 million states | `TypeOK`, `WithinSplitBudget`, `OneContinuation`, `CandidateKept`, `HuntsDrain` |
| `recon_batch` | batches of 2 agents fanned out, or enqueued one by one, with retries, a continuation, a crash, an expired lease or a cancel, merged by a model or mechanically, one in a run of more than 500 tasks; a recon of one agent, also in such a run; an edit or a restore; a run without classes; eight configurations, 0.44 million states | `MapKeeps`, `HuntsPlannedOnce`, `HuntsFollow`, `PlanSpreads`, `BatchEnds` |
| `lock_files` | `LiveTask`: 3 tool threads, 2 requests at a time, 2 rounds, inbox of 1, list of 2 steps; four budgets (3 notes; 4 calls with 2 heartbeats and a forced none; 2 attempts with 2 aborts, a force, a note and a kill; a prune with everything else once); `RunLock`: 3 runners, 1 cleaner, 1 crash, 1 lock that ages; 1.0 million states together | `NotesKept`, `CallsNumbered`, `AbortWithinOneRound`, `SharedOnlyAfterSweep` |
| `bench_live` | a hunt of its own with 2 hints, a restart and a fault, or with two pages and a stop; a suite of two left to itself; suites of one with a stop, a fault or a restart; half an hour may pass except under two pages and in the suite of two, whose hunts have 1 hint each; a Ralph does 1 task; 0.44 million states | `HuntRan`, `VerdictBacked`, `OneRalph`, `EndHeeded`, `LiveCloses` |
| `live_start` | `LiveStart`: 2 runs, 2 requests at a time; 3 starts, or 2 starts with a poll, a stop or a restart; 0.9 million states | `OneActive`, `RalphsAlone` |

Type invariants that a theorem states for every instance are not run again, save
that of `HuntTree`, which holds the caps of what a hunt may breed.

`lock_files` checks two modules that share no state: `FilesSpec` lets either move
while the other is in its initial state (a task that has begun anything has paid for
it from its budget), so that the two state spaces are added and
not multiplied, and the same three names stand for tools and for runners, so that
one permutation serves both.

Why the bounds are enough: every race in the table of hazards is between two
processes and a third event (a kill, an expiry, a request), on one row or one
file. Two slots and one request handler are the least that has all of them; a
third worker adds a repetition, not a new order of two statements. A second task
is needed for the caps and for parking (a paused row waits for a queued one), a
second finding for merges, a third runner for the lock (judge, release, create).
An attempt cap of 2 lets a task be retried once and deadlettered once. The
theorems carry the safety results to every value.

`CHECK_DEADLOCK FALSE` is in every configuration because the system stops: all
Ralphs leave on idle, all requests are answered.

`tq_safety` explores a kill, an expiry and a request in every order, and two
requests after one another or an operator's task without the others (constraint
`FewDisturbances`); `fr_safety` has a constraint of that name with the same purpose. In `ralph_loops` a streak of two is reached in every way
there is: retries of two tasks, or a retry and a fault. An expired lease under
the loops is left to the theorems, which put no bound on expiries.

`Configs` (of `HuntTree`, `ReconBatch` and `LiveBench`) and `Budgets` (of `LiveTask`) are sets
Init chooses from: one run covers several small instances, each with what its
hazard needs, where one instance with all of it would be out of reach. An inbox
of 1 is full with the second note; a list of 2 steps drops its first row with
the third call of a round; a split budget of 1 is spent by one split; a chain of
2 is reached by one request. In `camp_safety` the pids of Ralphs are handed out in
order (`NextPid`), which is a choice of names.

**Fairness.** `ralph_loops`: weak fairness of each Ralph's turn (spawn, a step
of the child, reading its exit, leaving on a budget) and of a request handler
that has begun. A Ralph and its child are processes the operating system runs,
and a child that hangs is ended by the task timeout (the dashboard passes one by
default). Kills, crashes, expiries, STOP and operator input are never forced. `fr_stamp`:
a process that has begun runs on, and workers keep leasing validation tasks;
nobody has to submit or review. `camp_safety`: every Ralph makes progress through
its loop; nothing is asked of requests. `poc_pack`: a worker in a session keeps
running (cycles and waits have time limits) and a request that holds the lock
goes on; nobody has to ask. `hunt_tree`, `recon_batch`: a worker runs on, as
tool rounds and calls are bounded by `max_tool_rounds` and the wall clock,
run-once is spawned while a task waits, and a request that enqueues a batch
finishes; crashes, cancels, pauses, edits and the growth of the table are never forced. `bench_live`: a thread
that has begun runs on, Ralph works and leaves, half an hour passes, and every
run that is active again and again is looked at again and again: the page asks
once a second, for all of them, and nobody has to start, stop or restart. The
last is strong fairness, since a request that is at work does not look.

## 4. Properties

* `RevivedOnlyByInfraRetry` - a settled task changes state again only through
  the unguarded `requeue_task` of a process that leased it earlier and fails
  under the attempt cap. It covers every reclaim, request and settle at once.
* `LeaseCap` - with leases of other pairs, settings edits and untagged leases
  of an older version in one table, no pair that has a lease exceeds its cap.
* `InfraBudget` - at most `max_task_attempts - 1` requeues per task even when
  the task runs in two processes: each attempt number is handed out once.
* `ExclusiveUntilDisturbed` - two live workers on a task need a kill, an overdue
  lease or a request first.
* `GiveUpExplained` - when a loop gives up, its streak of `max_infra_retries`
  consists of faults and of attempts under the cap, and no attempt of a task is
  counted twice, whichever loops leased it: with F tasks failing and no fault,
  giving up needs `max_infra_retries <= F * (max_task_attempts - 1)`.
* `ChargesBacked` - what the loops were charged together is backed by leases,
  faults, sandbox phases and final exits: waiting for a peer costs no iteration.
* `LoopsEnd` - every loop ends, also one that only gets BUSY, which no budget
  ends; if all of them ended on idle, only tasks an operator enqueued late are
  unsettled. A single worker may well leave on idle while its peer's task is
  about to be requeued; the property says the peers never all do.
* `ConfirmedWasAccepted`, `OverriddenOnlyUnseen` - see the module. The second is
  what is left of "LLM must not override" once the write carries no guard: no
  stage that has *seen* a decision overwrites it, except the gates of
  `validate_mech` in their write after the second read, whose state they do not
  look at. Reviews and merges may, that is what they are for.
* `PendingSettles` - an announced disprove does not block Accept for ever, unless
  it went astray in one of the three ways `PendingStamp` names. A crash as such
  excuses nothing: a worker that dies at any other step is replaced by the next
  lease of its task. Nor does a reopen, a re-arm or a merge.
* `SharedOnlyAfterSweep`, `LostOnlyIfDisturbed`, `OneCampaign`,
  `ReclaimAfterKill`, `PauseDrains` - see the modules.

* `SteersKept`, `StopWithinOneCycle` - the numbers of a session's steers are
  distinct, whichever way the requests and the session's own note interleave;
  after a stop is on file a session ends with the cycle it is in.
* `OneShotUndisturbed` - a second one-shot task for a pack needs two phases that
  overlap, a worker that died before it stamped the finding, or a stamp erased
  by a body saved from an old read.
* `WithinSplitBudget`, `OneContinuation`, `CandidateKept`, `HuntsDrain` - what a
  hunt breeds is bounded: budgets, one continuation, no candidate lost to what
  another perspective found, and the whole tree dies out. The exceptions are named
  by what happened. Splits: two aborts that count at once, or a table longer than
  the 2000 rows that are counted. Continuations: two overlapping calls, a look that
  raised, or could not see a child that is paused or beyond the oldest 500 rows,
  while there was one, or a death just before the last transition. Candidates: a
  later perspective that was continued, met infra trouble or whose prompt was
  refused. `HuntsDrain` has none: the depth, generation and lineage in the payloads
  end the tree even where every look and count sees nothing.
* `MapKeeps`, `HuntsPlannedOnce`, `HuntsFollow`, `PlanSpreads`, `BatchEnds` - the
  map keeps every part an agent or the operator wrote, but for what a model left
  out of the answer that replaced the map, unless a write really put an older map
  back; the hunts of a batch are planned a second time only after such a write,
  also where siblings are not seen; those of a recon of its own (which has no
  marker) only after a crash, an expired lease or an exception taken for trouble
  with the provider; with one worker they follow from every batch whose last task
  stored its part; no area gets two hunts more than one that has some left.
* `HuntRan`, `VerdictBacked`, `OneRalph` - a hunt is closed as passed or failed
  only after a Ralph was started for it, a suite passes or fails on members that
  did, and the driver of a suite never has two Ralphs at work: each up to a named
  race with a poll or an overlapping write. `OneActive`, `RalphsAlone` - for runs
  that different requests start: two are active at once only where two starts
  overlapped or a write from before an end reopened a run, and their Ralphs work at
  once only then, or where a request got between a run and its driver (it ended the
  run, or started a Ralph for it). `EndHeeded` - whoever has seen that a run ended neither
  gives it another end nor starts a Ralph for it. `LiveCloses` - every run that
  was created ends for good, the members nobody drives any more included.
* `NotesKept`, `CallsNumbered`, `AbortWithinOneRound` - see `LiveTask`; each holds
  until the pruner has unlinked a file under somebody who uses it.

One statement of the comments is refuted by a run (`findings` in
`PROJECT.json`): the LLM does not override a human (`fr_override`). Others do not
hold either, by traces of a few steps in the models, each of which an exception of
a property above names:

* "Do not demote human terminals or re-open closed rejects via mech re-run"
  (`validate_mech.py:38`, and "States that validate_mech must not reopen or
  rewrite", 14): the human rejects a candidate after the task has tested its state
  and before it is read again behind the severity claim; the gates overwrite the
  decision they have in hand (`FindingReview`, `GateReject`).
* "Caps: max_split_depth 2; split tasks <= 30% of max_tasks" (`hunt.py:1591`): one
  worker, a table of more than 2000 rows; each abort splits again (`HuntTree`).
* "Any candidate -> candidate; keep best-ranked"
  (`docs/harness/spikes/2026-09-22-hunt-moa.md:122`): the first perspective submits,
  the prompt of the second is refused, and the hunt fails without the candidate.
* "Every recon merge/manual edit is recoverable"
  (`docs/plans/operator-control-pack.md:222`): an edit saved between the claim's read
  of the map and its write of the marker is in no map and in no revision, as that
  write keeps none (`recon.py` 599-612).
* "True when every sibling is terminal" (`recon.py:579`): in a run of more than 500
  tasks an agent that cannot see its queued sibling claims the batch and plans the
  hunts from its own part.
* "Sequential for child_id in member_run_ids" (`live.py:572`;
  `LIVE_SUITE_CONCURRENCY` is 1, line 52): a poll starts a second Ralph for a member
  whose first has spent its budget; the driver closes it and starts the next one's.
* "a live benchmark run is already queued or running" (`api.py:187`), answered to a
  second start: two starts that overlap both find nothing and create two runs.
* "Stop cancels Ralph and marks the BenchmarkRun cancelled"
  (`ui/templates/benchmarks.html:98`): a driver past its last look at the run starts
  its Ralph after the stop looked for one, and nobody looks at that run again.

* "hunts finalize once when the batch is complete" (`recon.py:126`): one worker,
  no fault; the first agent stores its part while its sibling waits, the sibling
  fails for good, and nobody plans the hunts.
* "Terminal-cancel" of a halt (`db.py:1313`): a worker that fails with an infra
  error before it is killed returns the halted task to the queue.
* "Ralph's parent process stays alive" (`ops.py:615`): the killed run-once exits
  with a code Ralph does not know, and that Ralph halts.
* "Exclusive lock file ... (single writer)" (`db.py:2104`): a runner that read
  the lock of a runner that then finished unlinks the next holder's lock.
* "already running; STOP cleared" (`runner.py:763`): the Ralph that was found
  alive had read STOP and leaves.
* An abort "lets a round boundary exit without submitting a candidate"
  (`ops.py:949`): with a panel of perspectives it ends one of them, and the next
  may submit.

Traces met while the bounds were chosen, which no listed property states and a
reader of the code should know:

* With a lease of an older version (no pid) in the table, halting that task
  while all slots are between `count_leased_tasks` and exit makes every slot
  report idle with a task still queued. `ralph_loops` therefore starts without one.
* `reclaim_dead_owner_leases` can take the lease of a live worker that leased
  the row after the SELECT, and a pause that read the row while it was queued
  frees a lease without stopping its worker.
* A task whose worker is killed by Ralph's timeout is leased again without limit,
  as the attempt cap is looked at in the infra path only: the loop gives up
  after `max_infra_retries` kills and the task is never deadlettered, whatever
  the relation of the two limits (the help of `--max-infra-retries` suggests
  otherwise). `--max-iterations` is announced as a cap on run-once invocations;
  BUSY invocations are not counted.
* Reject then reopen, or a re-arm whose note is written late, or a second
  near-duplicate submission, leaves `pending_llm` set with no disprove queued,
  and Accept refused; so does a worker that dies between stamp and enqueue. Those
  are the three exceptions of `PendingSettles`.
* A re-arm between the test and the write of an Accept confirms a finding whose
  disprove is pending; a sandbox run started before a review erases its record;
  two overlapping reviews may leave the answer of the earlier one.
* The dashboard removes a `run.lock` whose payload is not written yet.
* Overlapping starts spawn two sets of Ralphs; a hard stop during a start misses
  the new one; a start whose second Popen fails leaves the first unnamed; a
  primary that exits at once clears its siblings' claim.
* PoC: nobody clears `poc_session_ctl.json` or `poc_steer.jsonl`, so a stop that
  came late ends the next session at its first loop head, and steers are applied
  again; the operator's notes are dropped when the last session's file says it
  ended. `_pending_validate` looks at 500 tasks only, and an error in
  the look counts as none. A body saved from an old
  read loses a verdict or a marker.
* Hunts: `request_hunt` uses the connection of another thread, so under Strands
  its list of tasks is empty and its enqueue fails (`HuntTree` has it succeed for
  the scripted client only). A split with one place left in the budget yields one
  child. Two continue calls in one round enqueue two continuations; two aborts
  that count at once overshoot the split budget; a repetition copies
  `continue_from_task_id` and stands in for the continuation. A later
  perspective's continuation or infra trouble drops an earlier one's candidate.
  Once a run has more than 500 tasks, `request_hunt` and `continue_task` see none of
  the newer ones, and ask for what is under way already; `max_spawn_hunts_per_task`
  0 means no limit. Children of a split lose their continue generation.
* Recon: a sibling that fails last or is cancelled, or two siblings that look
  while the other is still leased, leave a batch without hunts; a batch enqueued
  task by task may be claimed by its first task alone; the dashboard's editor
  writes the whole map back, an old marker included, and hunts are planned
  twice; the model's merge drops parts of a map too long to be shown to it; a
  crash between the retry's enqueue and the parent's end duplicates the
  child; a crash after the claim loses the hunts. A third operator request starts
  above the retry cap and is never retried.
* Live task: the lock files are always empty, so the pruner unlinks them whether
  or not somebody has them open, and two holders then lose a note or a step. The
  inbox outlives the attempt: an abort or a forced none nobody saw hits the next
  attempt. Notes are marked consumed before they are in the messages, and a
  worker killed between loses them. A full inbox drops notes not yet consumed.
  A forced none runs its tool with the lock held.
* Live benchmarks: a poll between `harness_run_dir` and the first hint finds an
  empty database and closes the hunt as scored. A poll may start a Ralph for a
  hunt whose first one has spent its budget, and the suite's driver goes on to
  the next member beside it. A phase or a sum read before a stop writes
  "running" over "cancelled", and the run goes on. A stop that comes before the
  driver starts its Ralph finds none to kill. Members of a suite whose start
  failed or was stopped half-way, and members that wait more than half an hour
  for their turn, are closed with "live worker lost before init"; the last of
  these are members of a suite that is at work. Two writes at once may end a
  suite in "error" whose members go on. A task of the harness that Ralph kills at
  its timeout each time is never deadlettered, and every poll starts another Ralph
  for it: `LiveCloses` holds because the model's tasks come to an end.

## 5. Proofs

Everything below is checked by tlapm for all values of the constants, under the
named assumptions of each module (finite tasks and workers, threads and tools
that bear distinct names, task ids that are numbers, caps and attempt limits
that are positive, sentinels that are not ordinary values).

| Theorem | Statement | Argument |
|---|---|---|
| `QueueProofs!TypeCorrect` | `[]TypeOK` | one step per action; `Release` is the lemma all mutators share |
| `PairCapsHold` | `[]LeaseCap` | only `LeaseTask` adds to `Held(p)` or `Untagged`, and it tests `HasRoom` in the same transaction; every other action removes |
| `RetriesBounded` | `[]InfraBudget` | inductive: every requeue of a task used up an attempt number below the cap, numbers are issued in increasing order and held by one process, so requeues and held numbers together are bounded |
| `LeaseExclusive` | `[]ExclusiveUntilDisturbed` | inductive: while undisturbed the owner column and `job` agree and `dead` lists name nobody's live lease |
| `SettledStaysSettled` | `RevivedOnlyByInfraRetry` | action property from the type invariant and the WHERE clauses; needs that a running process holds an attempt number of its own |
| `QueueFollowsLifecycle` | `FollowsLifecycle` | refinement: initial states map to initial states, every action to a step of `TaskLifecycle` or a stutter |
| `LoopRunsTheQueue` | `LoopSpec => Spec` | every disjunct of `LoopNext` is a step of `TaskQueue` or a stutter; so all theorems above hold under Ralph |
| `LoopTypeCorrect` | `[]LoopTypeOK` | needs that a request aims at a live child or none (`Aimed`), from what the queue proofs establish |
| `GivesUpForCause` | `[]GiveUpExplained` | inductive: attempt numbers held by processes or spent in streaks are distinct and below the row's (`Numbered`), so `streak <= faults + \|spent\|` (`Streaked`), and `spent` fits into (failing tasks) x (1..cap-1) |
| `WaitingIsFree` | `[]ChargesBacked` | `Backed`: what all loops were charged, and the children at work, are at most the attempts, faults, phase tasks and final exits; sums are counted as sets of pairs (`Cells`), so that a step adds one pair to each side |
| `FindingReviewProofs!TypeCorrect` | `[]TypeOK` | one step per action |
| `NeverConfirmedUnaccepted` | `[]ConfirmedWasAccepted` | the inductive invariant adds that what a process *remembers* of a confirmed finding is of an accepted one; without it a stale write-back breaks the step |
| `DecisionsOverriddenUnseen` | `OverriddenOnlyUnseen` | `OpenViews`: at the steps that write a gate's or a disprove's outcome a process carries a view that was not closed; the gates' steps after the second read are not among them and are the exception |
| `LockFileProofs!LockTypeCorrect`, `ExclusiveUnlessSwept` | `[]TypeOK`, `[]SharedOnlyAfterSweep` | until a sweep, the file at the path belongs to the one runner between create and release |
| `CampaignProofs!TypeCorrect`, `NobodyLost`, `NeverTwoCampaigns`, `NothingReclaimedUnderARalph` | the safety properties of `camp_safety` | one invariant `CampInv` over the step of the only request under way: which Ralphs it has spawned, which pids it has read, which files it has written |
| `PocPackProofs!TypeCorrect` | `[]TypeOK` | inductive with what a step knows: who appends holds the lock and a number above the log (`Topped`); a worker about to begin a cycle has one left (`Below`) |
| `SteersDistinct` | `[]SteersKept` | `AheadOfLog`: the number an appender has made is above every number on file for as long as it holds the lock |
| `StopHeeded` | `[]StopWithinOneCycle` | `LateStopped`: a session that finished a cycle after the stop is at a step that looks at the stop before the next |
| `OneShotOnce` | `[]OneShotUndisturbed` | `Marked`: until something is disturbed, a shot fired means that its phase has not ended or the finding bears the stamp |
| `NoRunWithoutIsolation` | about `SelectIsolation` | for every host, runner and network: at most one runtime, an isolating one in `Usable(host)`, which is stated without the order of the ladder; the full ladder refuses only where `Usable(host)` is empty |
| `SignalWasSeen` | about `CycleVerdict` | for every outcome `RunIsolated` allows: `signal_observed` only of a run that started, was not cut off and matched; the host's network in a container gives `unsafe_skipped` |
| `LiveBenchProofs!TypeCorrect` | `[]TypeOK` | by-product of `Inv` (below) |
| `HuntRanAlways` | `[]HuntRan` | `RanLocal`: a driver past the start has `run` in `ran`; a fed hunt that did not run still has its hints, so a poll that finds no work found it unfed or after it ran |
| `VerdictsBacked` | `[]VerdictBacked` | `Summing`: the status of every member looked at is in the tally and, if it was an end, is still that member's status |
| `OneRalphAtATime` | `[]OneRalph` | `RalphInv`: unless a poll started one, a Ralph that is alive is the one the driver waits for, or there is no driver and no start under way |
| `EndsHeeded` | `EndHeeded` | `Heeds`: what a thread that writes, or starts a Ralph, last saw of its run is no end, or is what it writes |
| `LockFileProofs!LockExcludes` | `[]OneHolder` | until pruned under its users, whoever has the lock file open has the inode at the path; a free inode for a new file exists by counting (`FiniteSetTheorems`), as inodes outnumber processes |
| `NotesQueued` | `[]LastNotesQueued` | the copy that a holder of the lock read is still the inbox; note `i` of the inbox was given as number `given - Len + i` |
| `AbortHeeded` | `[]AbortWithinOneRound` | `AbortInv`: a pending abort is in the inbox, and `late` counts at most the round that was under way: it is 0 between a boundary and the next round's start |
| `LockFileProofs!TypeCorrect` | `[]TypeOK` | `TypeInv` adds that only tools of the round record a call, that no round begins beyond the last, and that in every copy of the snapshot the calls of a round increase |
| `CallsInOrder` | `[]CallsNumbered` | `SnapInv`: who holds the lock has read the snapshot on disk; an attempt's rows are of its rounds so far, before the first round none or the one of a forced `submit_none`; dropping the oldest row never drops the highest call of the round (`RecordedRows`) |
| `NotesInTheirOrder` | `[]NotesKept` | `HandedInv`: notes not consumed, and notes consumed and not handed over yet, have numbers above all that were handed over, and the first of the two above the second |
| `HuntTreeProofs!TypeCorrect` | `[]TypeOK` | `Tested`: what a step tested of its hunt (generation, split depth, lineage) still holds when the next step enqueues; a free number exists by counting |
| `SplitsBudgeted` | `[]WithinSplitBudget` | `Budgeted`: unless two aborts raced or the table is longer than the count reads, what is counted is what was made, one worker at a time splits, and `made + left` fits into the budget |
| `ContinuedOnce` | `[]OneContinuation` | `OneStanding`, `Looked`: until `doubled`, a call between look and enqueue has no child (a look that missed one sets it); a new hunt has no parent, continues one that has no child, or repeats a hunt whose worker is through with it |
| `CandidatesKept` | `[]CandidateKept` | `Remembered`: an accepted candidate is in `rows` until the panel is settled, and `Panel` prefers it; the three exits that settle it otherwise are the exceptions |
| `ReconBatchProofs!TypeCorrect` | `[]TypeOK` | part of one invariant `Inv`; a plan is as long as `max_tasks` at most, whatever the map's focus |
| `PartsMerged` | `[]MapKeeps` | a write that starts from the map there is keeps its parts, or adds what it leaves out to `omitted`; `PartsKept`: once written, the map is never empty again, whatever a model answers |
| `PlannedOnce` | `[]HuntsPlannedOnce` | `ClaimedOnce`: of a batch's workers one finds the map unmarked, as long as the marker survives, whatever `Look` saw; `OneRecon`: a recon of its own is waiting, in one worker's hands or planned |
| `LoneWorkerFinishes` | `[]HuntsFollow` | `Followed`: with one worker at a time a marker in any copy of the map means that the hunts are being planned or are there |
| `HuntsSpread` | `[]PlanSpreads` | `ClipSpreads`, about `DiversifyClip` for every list and limit: consider the last hunt taken of the area that has more |
| `EveryPairOnce` | about `BalancedProduct` | for every list of areas and classes: each pair, nothing else, none twice; the position of a pair in the second wave is computed, and keeping first occurrences keeps each value once (`FirstsFlattened`) |

The invariant of `LiveBenchProofs` is one formula, `Inv`, since its parts need
each other: that a driver is at a hunt with members left (`Tasked`) needs that
all members are created (`AllBorn`), as a member that is not created is neither
ended nor running; that needs that the one start of this live run is under way
once (`OneStart`; starts of others are `LiveStart`'s) and
that a write never makes a run uncreated (`Born`). `Due(p)` names where a thread
stands when its write is through, so that most parts speak of one step only.
A step is shown to keep `Inv` by `OthersGood` (threads that do not move), one
lemma for the thread that does, and `JobsKept` for `OneStart` and `RalphInv`.

`LockFileProofs` has one invariant for each question about `LiveTask`, each built
on the ones before: `Inv` (the lock, the inbox, the abort), `TypeInv`, `SnapInv`,
`HandedInv`. All but `TypeInv` hold until something is unlinked under its users,
which nothing undoes (`StaysUnlinked`).

Every safety and action property of the passing runs is the statement of a
theorem, except those of `LiveStart`. Recursive functions and folds (`DiversifyClip`, `FlattenSeq`, the largest
of a set) are no obstacle as long as the induction is over numbers: the least
number for which a claim fails is shown not to exist (`Least`).

Where the code is a chain of conditions, the model is an `IF` chain or a `CASE` of
guards that exclude each other: a `CASE` whose guards overlap fixes no value, so
that nothing could be proved of it.

Only model-checked: `OneActive` and `RalphsAlone`; `LoopsEnd`, `PendingSettles`,
`PauseDrains`, `SessionEnds`, `HuntsDrain`, `BatchEnds` and `LiveCloses`, as liveness
under fairness is out of the prover's reach; and the counterexample of `fr_override`.

## 6. Not modelled, and the plan

Next, in this order:

1. Operator chat: a turn against a confirmation and a deletion of the same
   session file. Then the stores of hunt profiles, recon agents, generated tools
   and benchmarks, which share one pattern: a collection file read and written
   as a whole, beside one file per entry. None of them shares state with the
   modules above.
2. A composition of `Campaign` with `RalphLoop` through the slots, so that STOP
   and the kills come from there; of `LiveTask`'s pruner with `Campaign`'s view
   of live Ralphs.

Code indexing, exports, settings probing, LLM transport and page rendering stay
out: they compute over large data or talk to the network and keep no state the
other components depend on.
