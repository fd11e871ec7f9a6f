----------------------------- MODULE TaskQueue -----------------------------
(***************************************************************************)
(* The durable task queue of a VulnForge run: the `tasks` table of         *)
(* harness.db (vulnforge/db.py), the `vf run-once` workers that Ralph      *)
(* spawns one after the other in each of its slots (cli.cmd_run_once), and *)
(* the dashboard requests that pause, resume, halt, cancel and reorder     *)
(* single tasks (control/ops.py).                                          *)
(*                                                                         *)
(* This is the parallel mode (lease ceiling above 1), in which run-once    *)
(* takes no run.lock.  Every action is one SQLite transaction or one       *)
(* SELECT outside a transaction; what a process does between two of them   *)
(* interleaves with every other process.                                   *)
(*                                                                         *)
(* lease_owner is a process id.  The code only ever asks whether that      *)
(* process is alive, so the column holds the slot whose current run-once   *)
(* wrote it, Gone once that process has ended, NoOwner for NULL, or        *)
(* Foreign for an owner of an older version, which names no pid.           *)
(***************************************************************************)
EXTENDS Integers, FiniteSets

CONSTANTS
  Tasks,           \* task ids; ORDER BY id compares them
  Workers,         \* Ralph slots, each with at most one run-once process
  Handlers,        \* concurrent dashboard request handlers
  Pairs,           \* (host, model) pairs
  ModelCaps,       \* run.model_concurrent_caps: pair -> cap, maybe partial
  MaxParallel,     \* run.max_leases_parallel, for a pair without a number
  Resolve,         \* task -> pairs lease_pair may return under the configs in use
  FirstQueued,     \* tasks queued when the model starts
  LegacyLeases,    \* rows an older version, which stored no pair, may have leased
  OperatorTasks,   \* tasks only an operator enqueues
  PhaseTasks,      \* one-shot sandbox tasks due at idle; {} with the toggle off
  UnknownKinds,    \* tasks whose kind dispatch_task does not know
  InitPrio,        \* task -> priority at enqueue
  Tiers,           \* priority tiers the operator uses
  MaxAttempts,     \* run.max_task_attempts
  MaxTimeouts,     \* bound: run-once processes killed by the task timeout, or crashed
  MaxExpiries,     \* bound: leases that outlive lease_ttl_seconds
  MaxRequests,     \* bound: dashboard requests
  Gone, Foreign, NoOwner, NoTask, NoPair

Kinds == {"pause", "halt", "resume", "priority", "cancel"}

Terminal == {"succeeded", "failed_task", "blocked", "deadletter", "cancelled"}
Work     == {"queued", "leased", "paused"}
States   == Work \union Terminal \union {"absent"}

Steps == {"off", "scan", "requeueDead", "checkWork", "lease", "recount", "stillWork",
          "dispatch", "idle", "halted"}

ASSUME TasksAssumption ==
  IsFiniteSet(Tasks) /\ Tasks \subseteq Nat /\ IsFiniteSet(Workers)

ASSUME ConstantsAssumption ==
  /\ FirstQueued \subseteq Tasks
  /\ LegacyLeases \subseteq Tasks
  /\ OperatorTasks \subseteq Tasks
  /\ PhaseTasks \subseteq Tasks
  /\ UnknownKinds \subseteq Tasks
  /\ Resolve \in [Tasks -> SUBSET Pairs]
  /\ InitPrio \in [Tasks -> Int]
  /\ Tiers \subseteq {"run_next", "high", "normal", "low", "keep"}

ASSUME CapAssumption ==
  /\ MaxParallel \in Nat \ {0}
  /\ \A p \in DOMAIN ModelCaps : ModelCaps[p] \in Nat \ {0}
  /\ MaxAttempts \in Nat \ {0}

ASSUME SentinelAssumption ==
  /\ NoTask \notin Tasks
  /\ NoPair \notin Pairs
  /\ {Gone, Foreign, NoOwner} \intersect Workers = {}
  /\ Gone # NoOwner /\ Gone # Foreign /\ Foreign # NoOwner

Owners == Workers \union {Gone, Foreign, NoOwner}

VARIABLES
  state, owner, expired, attempt, prio, pair,   \* the tasks table
  pc, job, jobAttempt, dead,                    \* run-once processes
  req,                                          \* dashboard requests
  timeouts, expiries, requests,                 \* how much of each bound is used
  infraRequeues                                 \* history: requeue_task calls per task

table   == <<state, owner, expired, attempt, prio, pair>>
process == <<pc, job, jobAttempt, dead>>
bounds  == <<timeouts, expiries, requests>>
vars    == <<table, process, req, bounds, infraRequeues>>

InState(S) == {t \in Tasks : state[t] \in S}

Live(w) == pc[w] \notin {"off", "idle", "halted"}

-----------------------------------------------------------------------------
(* UPDATE tasks SET state=s, lease_owner=NULL, lease_until=NULL over T.    *)
Release(T, s) ==
  /\ state' = [t \in Tasks |-> IF t \in T THEN s ELSE state[t]]
  /\ owner' = [t \in Tasks |-> IF t \in T THEN NoOwner ELSE owner[t]]
  /\ expired' = expired \ T

(* Each db.py mutator, with the WHERE clause it carries.                   *)
CompleteTask(t)   == Release({t} \intersect InState({"leased"}), "succeeded")
FailTask(t, s)    == Release({t} \intersect InState({"leased"}), s)
DeadletterTask(t) == Release({t} \intersect InState(Work), "deadletter")
RequeueTask(t)    == Release({t}, "queued")

EnqueueTasks(T) ==
  /\ T # {} /\ T \subseteq InState({"absent"})
  /\ state' = [t \in Tasks |-> IF t \in T THEN "queued" ELSE state[t]]
  /\ UNCHANGED <<owner, expired, attempt, prio, pair>>

(* effective_pair_cap: the pair's own number, else the global cap.         *)
PairCap(p) == IF p \in DOMAIN ModelCaps THEN ModelCaps[p] ELSE MaxParallel

Held(p)  == {t \in Tasks : state[t] = "leased" /\ pair[t] = p}
Untagged == Held(NoPair)

(* Mutant: untagged leases are not counted.                                *)
HasRoomTaggedOnly(p) == Cardinality(Held(p)) < PairCap(p)

HasRoom(p) == Cardinality(Held(p)) + Cardinality(Untagged) < PairCap(p)

(* Mutant: paused rows compete with queued ones.                           *)
PoolMixed == InState({"queued", "paused"})

(* Any queued row keeps every paused row parked.                           *)
Pool == IF InState({"queued"}) # {} THEN InState({"queued"}) ELSE InState({"paused"})

Before(t, u) == prio[t] < prio[u] \/ (prio[t] = prio[u] /\ t < u)

(* What lease_pair returns for every task under one configuration.         *)
Resolutions == {r \in [Tasks -> Pairs] : \A t \in Tasks : r[t] \in Resolve[t]}

Leasable(r) == {t \in Pool : HasRoom(r[t])}

-----------------------------------------------------------------------------
(* A run-once process ends and leaves its Ralph slot at `where`; requests  *)
(* that still aim at it now aim at a dead pid.                             *)
Retire(w, where) ==
  /\ pc' = [pc EXCEPT ![w] = where]
  /\ job' = [job EXCEPT ![w] = NoTask]
  /\ jobAttempt' = [jobAttempt EXCEPT ![w] = 0]
  /\ dead' = [dead EXCEPT ![w] = {}]

Forget(w) == [h \in Handlers |-> IF req[h].target = w
                                 THEN [req[h] EXCEPT !.target = Gone]
                                 ELSE req[h]]

Goto(w, from, to) == pc[w] = from /\ pc' = [pc EXCEPT ![w] = to]

(* Ralph starts run-once: reclaim_expired_leases is its first statement.   *)
ReclaimExpired(w) ==
  /\ Goto(w, "off", "scan")
  /\ Release(expired, "queued")
  /\ UNCHANGED <<attempt, prio, pair, job, jobAttempt, dead, req, bounds, infraRequeues>>

(* Mutant: a probe that calls every pid dead.                              *)
ScanOwnersAllDead(w) ==
  /\ Goto(w, "scan", "requeueDead")
  /\ dead' = [dead EXCEPT ![w] = InState({"leased"})]
  /\ UNCHANGED <<table, job, jobAttempt, req, bounds, infraRequeues>>

(* reclaim_dead_owner_leases: the SELECT with the pid probes ...           *)
ScanOwners(w) ==
  /\ Goto(w, "scan", "requeueDead")
  /\ dead' = [dead EXCEPT ![w] = {t \in Tasks : state[t] = "leased" /\ owner[t] = Gone}]
  /\ UNCHANGED <<table, job, jobAttempt, req, bounds, infraRequeues>>

(* Mutant: the UPDATE without its state='leased' clause.                   *)
RequeueDeadAnyState(w) ==
  /\ Goto(w, "requeueDead", "checkWork")
  /\ Release(dead[w], "queued")
  /\ dead' = [dead EXCEPT ![w] = {}]
  /\ UNCHANGED <<attempt, prio, pair, job, jobAttempt, req, bounds, infraRequeues>>

(* ... and the UPDATE, whose WHERE names the id and the state only.        *)
RequeueDead(w) ==
  /\ Goto(w, "requeueDead", "checkWork")
  /\ Release(dead[w] \intersect InState({"leased"}), "queued")
  /\ dead' = [dead EXCEPT ![w] = {}]
  /\ UNCHANGED <<attempt, prio, pair, job, jobAttempt, req, bounds, infraRequeues>>

(* Mutant: paused rows do not count as work.                               *)
CheckWorkIgnoresPaused(w) ==
  /\ pc[w] = "checkWork"
  /\ \/ InState({"queued", "leased"}) = {} /\ Retire(w, "idle") /\ req' = Forget(w)
     \/ /\ InState({"queued", "leased"}) # {}
        /\ Goto(w, "checkWork", "lease")
        /\ UNCHANGED <<job, jobAttempt, dead, req>>
  /\ UNCHANGED <<table, bounds, infraRequeues>>

(* has_queued_or_leased: nothing left means EXIT_IDLE and Ralph stops.     *)
CheckWork(w) ==
  /\ pc[w] = "checkWork"
  /\ \/ InState(Work) = {} /\ Retire(w, "idle") /\ req' = Forget(w)
     \/ /\ InState(Work) # {}
        /\ Goto(w, "checkWork", "lease")
        /\ UNCHANGED <<job, jobAttempt, dead, req>>
  /\ UNCHANGED <<table, bounds, infraRequeues>>

(* Nothing left and the sandbox toggle on: the idle worker enqueues the    *)
(* one-shot PoC tasks that are ready and reports progress.                 *)
SandboxPhase(w) ==
  /\ pc[w] = "checkWork"
  /\ InState(Work) = {}
  /\ \E T \in SUBSET PhaseTasks : EnqueueTasks(T)
  /\ Retire(w, "off")
  /\ req' = Forget(w)
  /\ UNCHANGED <<bounds, infraRequeues>>

(* lease_next_task under BEGIN IMMEDIATE.                                  *)
LeaseNone(w) ==
  /\ Goto(w, "lease", "recount")
  /\ \E r \in Resolutions : Leasable(r) = {}
  /\ UNCHANGED <<table, job, jobAttempt, dead, req, bounds, infraRequeues>>

LeaseTask(w, t) ==
  /\ Goto(w, "lease", "dispatch")
  /\ \E r \in Resolutions :
       /\ t \in Leasable(r)
       /\ \A u \in Leasable(r) \ {t} : Before(t, u)
       /\ pair' = [pair EXCEPT ![t] = r[t]]
  /\ state' = [state EXCEPT ![t] = "leased"]
  /\ owner' = [owner EXCEPT ![t] = w]
  /\ attempt' = [attempt EXCEPT ![t] = @ + 1]
  /\ job' = [job EXCEPT ![w] = t]
  /\ jobAttempt' = [jobAttempt EXCEPT ![w] = attempt[t] + 1]
  /\ UNCHANGED <<expired, prio, dead, req, bounds, infraRequeues>>

(* No lease: count the leased rows, then look for work again; EXIT_BUSY    *)
(* when both are there, EXIT_IDLE otherwise.                               *)
Recount(w) ==
  /\ pc[w] = "recount"
  /\ \/ InState({"leased"}) = {} /\ Retire(w, "idle") /\ req' = Forget(w)
     \/ /\ InState({"leased"}) # {}
        /\ Goto(w, "recount", "stillWork")
        /\ UNCHANGED <<job, jobAttempt, dead, req>>
  /\ UNCHANGED <<table, bounds, infraRequeues>>

StillWork(w) ==
  /\ pc[w] = "stillWork"
  /\ Retire(w, IF InState(Work) # {} THEN "off" ELSE "idle")
  /\ req' = Forget(w)
  /\ UNCHANGED <<table, bounds, infraRequeues>>

-----------------------------------------------------------------------------
(* The stage handler runs: it may enqueue follow-up tasks, then its result *)
(* settles the task and run-once exits.                                    *)
EnqueueChild(w, t) ==
  /\ pc[w] = "dispatch"
  /\ t \notin OperatorTasks
  /\ EnqueueTasks({t})
  /\ UNCHANGED <<process, req, bounds, infraRequeues>>

Settle(w, where) ==
  /\ Retire(w, where)
  /\ req' = Forget(w)
  /\ UNCHANGED <<attempt, prio, pair, bounds>>

Succeed(w) ==
  /\ pc[w] = "dispatch"
  /\ job[w] \notin UnknownKinds
  /\ CompleteTask(job[w])
  /\ Settle(w, "off")
  /\ UNCHANGED infraRequeues

Fail(w, s) ==
  /\ pc[w] = "dispatch"
  /\ job[w] \notin UnknownKinds
  /\ FailTask(job[w], s)
  /\ Settle(w, "off")
  /\ UNCHANGED infraRequeues

(* NotImplementedError: EXIT_CONFIG, and Ralph halts.                      *)
RejectKind(w) ==
  /\ pc[w] = "dispatch"
  /\ job[w] \in UnknownKinds
  /\ FailTask(job[w], "failed_task")
  /\ Settle(w, "halted")
  /\ UNCHANGED infraRequeues

(* Mutant: the attempt cap off by one.                                     *)
InfraRetryOneMore(w) ==
  /\ pc[w] = "dispatch"
  /\ job[w] \notin UnknownKinds
  /\ jobAttempt[w] <= MaxAttempts
  /\ RequeueTask(job[w])
  /\ Settle(w, "off")
  /\ infraRequeues' = [infraRequeues EXCEPT ![job[w]] = @ + 1]

(* handle_failed_infra: requeue under the attempt cap, deadletter at it.   *)
InfraRetry(w) ==
  /\ pc[w] = "dispatch"
  /\ job[w] \notin UnknownKinds
  /\ jobAttempt[w] < MaxAttempts
  /\ RequeueTask(job[w])
  /\ Settle(w, "off")
  /\ infraRequeues' = [infraRequeues EXCEPT ![job[w]] = @ + 1]

InfraGiveUp(w) ==
  /\ pc[w] = "dispatch"
  /\ job[w] \notin UnknownKinds
  /\ jobAttempt[w] >= MaxAttempts
  /\ DeadletterTask(job[w])
  /\ Settle(w, "off")
  /\ UNCHANGED infraRequeues

-----------------------------------------------------------------------------
(* The process of w is killed: its rows stay leased to a dead pid.         *)
Killed(w, where) ==
  /\ Retire(w, where)
  /\ owner' = [t \in Tasks |-> IF owner[t] = w THEN Gone ELSE owner[t]]
  /\ UNCHANGED <<state, expired, attempt, prio, pair, infraRequeues>>

Dies(w, where) ==
  /\ Live(w)
  /\ timeouts < MaxTimeouts
  /\ timeouts' = timeouts + 1
  /\ Killed(w, where)
  /\ req' = Forget(w)
  /\ UNCHANGED <<expiries, requests>>

(* Ralph's --task-timeout: subprocess.run kills the child and the loop     *)
(* counts EXIT_INFRA and goes on.                                          *)
Timeout(w) == Dies(w, "off")

(* An error outside the stage handler (SQLite, disk): vf prints it, exits  *)
(* with EXIT_CONFIG and leaves its lease behind; Ralph halts.              *)
Crash(w) == Dies(w, "halted")

(* lease_until passes; nothing renews it while the holder works.           *)
Expire(t) ==
  /\ state[t] = "leased"
  /\ t \notin expired
  /\ expiries < MaxExpiries
  /\ expired' = expired \union {t}
  /\ expiries' = expiries + 1
  /\ UNCHANGED <<state, owner, attempt, prio, pair, process, req, timeouts, requests,
                 infraRequeues>>

-----------------------------------------------------------------------------
(* Dashboard requests: read the row, UPDATE it, then kill the owner read.  *)
NoReq == [kind |-> "none", task |-> NoTask, target |-> NoOwner, prio |-> 0, step |-> "free"]

Requests == {NoReq} \union
            [kind : Kinds, task : Tasks, target : Owners,
             prio : Int, step : {"write", "kill"}]

Eligible == [pause |-> {"queued", "leased"}, halt |-> Work, resume |-> {"paused"},
             priority |-> {"queued"}, cancel |-> {"queued"}]

Outcome == [pause |-> "paused", halt |-> "cancelled", resume |-> "queued",
            priority |-> "queued", cancel |-> "cancelled"]

(* min_queued_priority() - 1, or -1 on an empty queue.                     *)
FrontPrios ==
  LET queued == InState({"queued"}) IN
  IF queued = {} THEN {-1}
  ELSE {prio[t] - 1 : t \in {u \in queued : \A v \in queued : prio[u] <= prio[v]}}

PRIORITY_TIERS == [high |-> 30, normal |-> 50, low |-> 90]

TierPrios(t, tier) ==
  IF tier = "run_next" THEN FrontPrios
  ELSE IF tier = "keep" THEN {prio[t]} ELSE {PRIORITY_TIERS[tier]}

(* "keep" belongs to resume alone; the other kinds leave the priority.     *)
NewPrios(t, k) ==
  CASE k = "resume"   -> UNION {TierPrios(t, r) : r \in Tiers}
    [] k = "priority" -> UNION {TierPrios(t, r) : r \in Tiers \ {"keep"}}
    [] OTHER          -> {prio[t]}

ReadRow(h, k, t) ==
  /\ req[h] = NoReq
  /\ requests < MaxRequests
  /\ requests' = requests + 1
  /\ state[t] \in Eligible[k]
  /\ \E p \in NewPrios(t, k) :
       req' = [req EXCEPT ![h] = [kind |-> k, task |-> t, target |-> owner[t],
                                  prio |-> p, step |-> "write"]]
  /\ UNCHANGED <<table, process, timeouts, expiries, infraRequeues>>

WriteRow(h) ==
  LET k == req[h].kind
      t == req[h].task
      hit == state[t] \in Eligible[k]
      kill == hit /\ k \in {"pause", "halt"} /\ req[h].target # NoOwner
  IN  /\ req[h].step = "write"
      /\ Release(IF hit THEN {t} ELSE {}, Outcome[k])
      /\ prio' = IF hit /\ k \in {"resume", "priority"}
                 THEN [prio EXCEPT ![t] = req[h].prio] ELSE prio
      /\ req' = [req EXCEPT ![h] = IF kill THEN [@ EXCEPT !.step = "kill"] ELSE NoReq]
      /\ UNCHANGED <<attempt, pair, process, bounds, infraRequeues>>

(* _kill_lease_owner_pid: the child dies of a signal, its exit code is one *)
(* Ralph does not know, and Ralph halts.                                   *)
KillOwner(h) ==
  /\ req[h].step = "kill"
  /\ \/ /\ req[h].target \in Workers
        /\ Killed(req[h].target, "halted")
        /\ req' = [Forget(req[h].target) EXCEPT ![h] = NoReq]
     \/ /\ req[h].target \notin Workers
        /\ req' = [req EXCEPT ![h] = NoReq]
        /\ UNCHANGED <<table, process, infraRequeues>>
  /\ UNCHANGED bounds

OperatorEnqueue(t) ==
  /\ t \in OperatorTasks
  /\ requests < MaxRequests
  /\ requests' = requests + 1
  /\ EnqueueTasks({t})
  /\ UNCHANGED <<process, req, timeouts, expiries, infraRequeues>>

-----------------------------------------------------------------------------
Init ==
  /\ \E old \in SUBSET LegacyLeases :
       /\ state = [t \in Tasks |-> IF t \in old THEN "leased"
                                   ELSE IF t \in FirstQueued THEN "queued" ELSE "absent"]
       /\ owner = [t \in Tasks |-> IF t \in old THEN Foreign ELSE NoOwner]
       /\ attempt = [t \in Tasks |-> IF t \in old THEN 1 ELSE 0]
  /\ expired = {}
  /\ prio = InitPrio
  /\ pair = [t \in Tasks |-> NoPair]
  /\ pc = [w \in Workers |-> "off"]
  /\ job = [w \in Workers |-> NoTask]
  /\ jobAttempt = [w \in Workers |-> 0]
  /\ dead = [w \in Workers |-> {}]
  /\ req = [h \in Handlers |-> NoReq]
  /\ timeouts = 0 /\ expiries = 0 /\ requests = 0
  /\ infraRequeues = [t \in Tasks |-> 0]

RunOnce(w) ==
  \/ ReclaimExpired(w) \/ ScanOwners(w) \/ RequeueDead(w) \/ CheckWork(w)
  \/ SandboxPhase(w) \/ LeaseNone(w) \/ (\E t \in Tasks : LeaseTask(w, t)) \/ Recount(w) \/ StillWork(w)
  \/ Succeed(w) \/ (\E s \in {"failed_task", "blocked"} : Fail(w, s))
  \/ RejectKind(w) \/ InfraRetry(w) \/ InfraGiveUp(w)

Operator(h) ==
  \/ \E k \in Kinds, t \in Tasks : ReadRow(h, k, t)
  \/ WriteRow(h)
  \/ KillOwner(h)

Next ==
  \/ \E w \in Workers : RunOnce(w) \/ Timeout(w) \/ Crash(w) \/ (\E t \in Tasks : EnqueueChild(w, t))
  \/ \E h \in Handlers : Operator(h)
  \/ \E t \in Tasks : Expire(t) \/ OperatorEnqueue(t)

Spec == Init /\ [][Next]_vars

-----------------------------------------------------------------------------
TypeOK ==
  /\ state \in [Tasks -> States]
  /\ owner \in [Tasks -> Owners]
  /\ expired \subseteq InState({"leased"})
  /\ attempt \in [Tasks -> Nat]
  /\ prio \in [Tasks -> Int]
  /\ pair \in [Tasks -> Pairs \union {NoPair}]
  /\ pc \in [Workers -> Steps]
  /\ job \in [Workers -> Tasks \union {NoTask}]
  /\ jobAttempt \in [Workers -> Nat]
  /\ dead \in [Workers -> SUBSET Tasks]
  /\ req \in [Handlers -> Requests]
  /\ timeouts \in Nat /\ expiries \in Nat /\ requests \in Nat
  /\ infraRequeues \in [Tasks -> Nat]

(* The per-pair lease cap: a pair that has a lease of its own never has    *)
(* more leases in flight, with the untagged ones counted against it, than  *)
(* its cap, whatever the workers, reclaims and requests interleave.        *)
LeaseCap ==
  \A p \in Pairs : Held(p) # {} => Cardinality(Held(p)) + Cardinality(Untagged) <= PairCap(p)

(* The retry budget of handle_failed_infra bounds its requeues per task    *)
(* even when a task runs in several processes at once and is resurrected:  *)
(* each attempt number is handed to one process and spent at most once.    *)
InfraBudget == \A t \in Tasks : infraRequeues[t] <= MaxAttempts - 1

(* The lease is exclusive as long as nothing goes wrong: two live workers   *)
(* hold the same task only after a worker was killed, a lease outlived its *)
(* TTL, or an operator moved a task by hand.                               *)
Undisturbed == timeouts = 0 /\ expiries = 0 /\ requests = 0

ExclusiveUntilDisturbed ==
  Undisturbed => \A v, w \in Workers : (v # w /\ job[v] # NoTask) => job[v] # job[w]

(* A task that has reached a terminal state leaves it only by the          *)
(* unguarded requeue_task of a process that had leased it before and fails *)
(* under the attempt cap; no reclaim, no peer and no request revives it.   *)
RevivedOnlyByInfraRetry ==
  [][\A t \in Tasks : (state[t] \in Terminal /\ state'[t] # state[t])
       => \E w \in Workers : job[w] = t /\ jobAttempt[w] \in 1..(MaxAttempts - 1)
                             /\ job'[w] = NoTask /\ state'[t] = "queued"]_vars

(* The table follows the lifecycle of PROTOCOL.md, with the two moves of a *)
(* worker that lost its task added: see TaskLifecycle.                     *)
LC == INSTANCE TaskLifecycle WITH Tasks <- Tasks, state <- state, attempt <- attempt

FollowsLifecycle == LC!Spec

=============================================================================
