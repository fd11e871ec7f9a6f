---------------------------- MODULE QueueProofs ----------------------------
(***************************************************************************)
(* Theorems about TaskQueue for every set of tasks, workers, handlers and  *)
(* pairs and every value of the caps, and on top of them theorems about    *)
(* RalphLoop, for any number of Ralphs and every value of the budgets.     *)
(***************************************************************************)
EXTENDS RalphLoop, FiniteSetTheorems, TLAPS

USE DEF Owners

(* Every queue write goes through Release: it keeps the table well typed   *)
(* and no expired lease survives on a released row.                        *)
LEMMA ReleaseType ==
  ASSUME TypeOK, NEW T, NEW s \in States, Release(T, s)
  PROVE  /\ state' \in [Tasks -> States]
         /\ owner' \in [Tasks -> Owners]
         /\ expired' \subseteq InState({"leased"})'
  BY DEF TypeOK, Release, InState

(* A run-once process that ends leaves a well-typed slot and aims every    *)
(* request that read its pid at a dead process.                            *)
LEMMA RetireType ==
  ASSUME TypeOK, NEW w \in Workers, NEW where \in Steps, Retire(w, where)
  PROVE  /\ pc' \in [Workers -> Steps]
         /\ job' \in [Workers -> Tasks \union {NoTask}]
         /\ jobAttempt' \in [Workers -> Nat]
         /\ dead' \in [Workers -> SUBSET Tasks]
  BY DEF TypeOK, Retire

LEMMA ForgetType ==
  ASSUME TypeOK, NEW w \in Workers
  PROVE  Forget(w) \in [Handlers -> Requests]
<1> SUFFICES ASSUME NEW h \in Handlers
             PROVE  Forget(w)[h] \in Requests
  BY DEF Forget
<1>1. req[h] \in Requests
  BY DEF TypeOK
<1>2. CASE req[h].target = w
  <2>1. req[h] # NoReq
    BY <1>2, SentinelAssumption DEF NoReq, SentinelAssumption
  <2> QED BY <1>1, <1>2, <2>1 DEF Requests, Forget
<1> QED BY <1>1, <1>2 DEF Forget

-----------------------------------------------------------------------------
(* TypeOK is inductive.                                                    *)
LEMMA TypeInit == Init => TypeOK
  BY ConstantsAssumption
     DEF Init, TypeOK, InState, Requests, ConstantsAssumption, States, Work, Terminal, Steps, Kinds

LEMMA TypeRunOnce ==
  ASSUME TypeOK, NEW w \in Workers, RunOnce(w) \/ Timeout(w) \/ Crash(w)
  PROVE  TypeOK'
<1> USE DEF table, process, bounds
<1>1. CASE ReclaimExpired(w)
  BY <1>1, ReleaseType DEF ReclaimExpired, Goto, TypeOK, Steps, States, Work
<1>2. CASE ScanOwners(w)
  BY <1>2 DEF ScanOwners, Goto, TypeOK, Steps, InState
<1>3. CASE RequeueDead(w)
  BY <1>3, ReleaseType DEF RequeueDead, Goto, TypeOK, Steps, States, Work
<1>4. CASE CheckWork(w)
  <2>1. CASE Retire(w, "idle") /\ req' = Forget(w)
    BY <1>4, <2>1, RetireType, ForgetType DEF CheckWork, TypeOK, Steps, InState
  <2>2. CASE Goto(w, "checkWork", "lease") /\ UNCHANGED <<job, jobAttempt, dead, req>>
    BY <1>4, <2>2 DEF CheckWork, Goto, TypeOK, Steps, InState
  <2> QED BY <1>4, <2>1, <2>2 DEF CheckWork
<1>5. CASE SandboxPhase(w)
  BY <1>5, RetireType, ForgetType
     DEF SandboxPhase, EnqueueTasks, TypeOK, Steps, InState, States, Work
<1>6. CASE LeaseNone(w)
  BY <1>6 DEF LeaseNone, Goto, TypeOK, Steps, InState
<1>7. ASSUME NEW t \in Tasks, LeaseTask(w, t)
      PROVE  TypeOK'
  <2>1. PICK r \in Resolutions : t \in Leasable(r) /\ pair' = [pair EXCEPT ![t] = r[t]]
    BY <1>7 DEF LeaseTask
  <2>2. r[t] \in Pairs
    BY <2>1 DEF Resolutions
  <2>3. pair' \in [Tasks -> Pairs \union {NoPair}]
    BY <2>1, <2>2 DEF TypeOK
  <2> QED BY <1>7, <2>3 DEF LeaseTask, Goto, TypeOK, Steps, InState, States, Work
<1>8. CASE Recount(w)
  <2>1. CASE Retire(w, "idle") /\ req' = Forget(w)
    BY <1>8, <2>1, RetireType, ForgetType DEF Recount, TypeOK, Steps, InState
  <2>2. CASE Goto(w, "recount", "stillWork") /\ UNCHANGED <<job, jobAttempt, dead, req>>
    BY <1>8, <2>2 DEF Recount, Goto, TypeOK, Steps, InState
  <2> QED BY <1>8, <2>1, <2>2 DEF Recount
<1>9. CASE StillWork(w)
  BY <1>9, RetireType, ForgetType DEF StillWork, TypeOK, Steps, InState
<1>10. ASSUME NEW T, NEW s \in States, NEW where \in Steps, Release(T, s), Settle(w, where),
              infraRequeues' \in [Tasks -> Nat]
       PROVE  TypeOK'
  BY <1>10, ReleaseType, RetireType, ForgetType DEF Settle, TypeOK
<1>11. infraRequeues \in [Tasks -> Nat]
  BY DEF TypeOK
<1>12. CASE Succeed(w)
  BY <1>10, <1>11, <1>12 DEF Succeed, CompleteTask, States, Terminal, Steps
<1>13. ASSUME NEW s \in {"failed_task", "blocked"}, Fail(w, s)
       PROVE  TypeOK'
  BY <1>10, <1>11, <1>13 DEF Fail, FailTask, States, Terminal, Steps
<1>14. CASE RejectKind(w)
  BY <1>10, <1>11, <1>14 DEF RejectKind, FailTask, States, Terminal, Steps
<1>15. CASE InfraRetry(w)
  <2>1. infraRequeues' \in [Tasks -> Nat]
    <3>1. CASE job[w] \in Tasks
      BY <1>15, <1>11, <3>1 DEF InfraRetry
    <3>2. CASE job[w] \notin Tasks
      BY <1>15, <1>11, <3>2 DEF InfraRetry
    <3> QED BY <3>1, <3>2
  <2> QED BY <1>10, <1>15, <2>1 DEF InfraRetry, RequeueTask, States, Work, Steps
<1>16. CASE InfraGiveUp(w)
  BY <1>10, <1>11, <1>16 DEF InfraGiveUp, DeadletterTask, States, Terminal, Steps
<1>17. CASE Timeout(w) \/ Crash(w)
  BY <1>17, RetireType, ForgetType DEF Timeout, Crash, Dies, Killed, TypeOK, Steps, InState
<1> QED BY <1>1, <1>2, <1>3, <1>4, <1>5, <1>6, <1>7, <1>8, <1>9, <1>12, <1>13, <1>14,
           <1>15, <1>16, <1>17 DEF RunOnce

LEMMA TypeOther ==
  ASSUME TypeOK,
         \/ \E w \in Workers, t \in Tasks : EnqueueChild(w, t)
         \/ \E h \in Handlers : Operator(h)
         \/ \E t \in Tasks : Expire(t) \/ OperatorEnqueue(t)
  PROVE  TypeOK'
<1> USE DEF table, process, bounds
<1>1. ASSUME NEW w \in Workers, NEW t \in Tasks, EnqueueChild(w, t)
      PROVE  TypeOK'
  BY <1>1 DEF EnqueueChild, EnqueueTasks, TypeOK, InState, States, Work
<1>2. ASSUME NEW h \in Handlers, NEW k \in Kinds, NEW t \in Tasks, ReadRow(h, k, t)
      PROVE  TypeOK'
  <2>1. FrontPrios \subseteq Int
    BY DEF FrontPrios, TypeOK, InState
  <2>2. ASSUME NEW r \in Tiers
        PROVE  TierPrios(t, r) \subseteq Int
    <3>1. /\ PRIORITY_TIERS["high"] \in Int
          /\ PRIORITY_TIERS["normal"] \in Int
          /\ PRIORITY_TIERS["low"] \in Int
      BY DEF PRIORITY_TIERS
    <3> QED BY <2>1, <3>1, ConstantsAssumption DEF TierPrios, TypeOK, ConstantsAssumption
  <2>3. NewPrios(t, k) \subseteq Int
    BY <2>2 DEF NewPrios, TypeOK, Kinds
  <2> QED BY <1>2, <2>3 DEF ReadRow, Requests, TypeOK, InState
<1>3. ASSUME NEW h \in Handlers, WriteRow(h)
      PROVE  TypeOK'
  <2> DEFINE t == req[h].task
             k == req[h].kind
             T == IF state[t] \in Eligible[k] THEN {t} ELSE {}
  <2>1. /\ k \in Kinds /\ t \in Tasks /\ req[h].prio \in Int
        /\ req[h] \in [kind : Kinds, task : Tasks, target : Owners,
                       prio : Int, step : {"write", "kill"}]
    BY <1>3 DEF WriteRow, TypeOK, Requests, NoReq
  <2>2. Release(T, Outcome[k]) /\ Outcome[k] \in States
    BY <1>3, <2>1 DEF WriteRow, Outcome, Kinds, States, Work, Terminal
  <2>3. prio' \in [Tasks -> Int]
    BY <1>3, <2>1 DEF WriteRow, TypeOK
  <2>4. req' \in [Handlers -> Requests]
    <3>1. [req[h] EXCEPT !.step = "kill"] \in Requests /\ NoReq \in Requests
      BY <2>1 DEF Requests
    <3>2. PICK v \in Requests : req' = [req EXCEPT ![h] = v]
      BY <1>3, <3>1 DEF WriteRow
    <3> QED BY <3>2 DEF TypeOK
  <2> QED BY <1>3, <2>2, <2>3, <2>4, ReleaseType DEF WriteRow, TypeOK
<1>4. ASSUME NEW h \in Handlers, KillOwner(h)
      PROVE  TypeOK'
  <2>1. CASE req[h].target \in Workers /\ Killed(req[h].target, "halted")
             /\ req' = [Forget(req[h].target) EXCEPT ![h] = NoReq]
    BY <1>4, <2>1, RetireType, ForgetType
       DEF KillOwner, Killed, Requests, TypeOK, Steps, InState
  <2> QED BY <1>4, <2>1 DEF KillOwner, Requests, TypeOK, InState
<1>5. ASSUME NEW t \in Tasks, Expire(t) \/ OperatorEnqueue(t)
      PROVE  TypeOK'
  BY <1>5 DEF Expire, OperatorEnqueue, EnqueueTasks, TypeOK, InState, States, Work
<1> QED BY <1>1, <1>2, <1>3, <1>4, <1>5 DEF Operator

(* Type correctness for every instance: rows, slots and requests only ever *)
(* hold values of their columns, and an expired deadline implies a lease.  *)
THEOREM TypeCorrect == Spec => []TypeOK
<1>1. TypeOK /\ [Next]_vars => TypeOK'
  <2> SUFFICES ASSUME TypeOK, [Next]_vars
               PROVE  TypeOK'
    OBVIOUS
  <2>1. CASE UNCHANGED vars
    BY <2>1 DEF vars, table, process, bounds, TypeOK, InState
  <2> QED BY <2>1, TypeRunOnce, TypeOther DEF Next
<1> QED BY <1>1, TypeInit, PTL DEF Spec

-----------------------------------------------------------------------------
(* What a worker that holds a job knows of its row.                        *)
JobInv ==
  \A w \in Workers :
    /\ pc[w] = "dispatch" => job[w] \in Tasks
    /\ job[w] \in Tasks => jobAttempt[w] >= 1 /\ state[job[w]] # "absent"

(* One queue write: nothing becomes absent again.                          *)
LEMMA ReleaseNeverAbsent ==
  ASSUME TypeOK, NEW T, NEW s \in States \ {"absent"}, Release(T, s),
         NEW t \in Tasks, state[t] # "absent"
  PROVE  state'[t] # "absent"
  BY DEF Release, TypeOK

(* The effect of one step on rows and jobs, by kind of step.               *)
LEMMA JobStep ==
  ASSUME TypeOK, JobInv, [Next]_vars
  PROVE  JobInv'
<1> USE DEF table, process, bounds
<1> DEFINE Keeps == \A t \in Tasks : state[t] # "absent" => state'[t] # "absent"
<1>1. ASSUME Keeps, NEW w \in Workers, NEW where \in Steps \ {"dispatch"}, Retire(w, where)
      PROVE  JobInv'
  BY <1>1, SentinelAssumption DEF Retire, JobInv, TypeOK, SentinelAssumption
<1>2. ASSUME Keeps, NEW w \in Workers, pc'[w] # "dispatch",
             \A v \in Workers \ {w} : pc'[v] = pc[v],
             UNCHANGED <<job, jobAttempt>>
      PROVE  JobInv'
  BY <1>2 DEF JobInv
<1>3. ASSUME Keeps, UNCHANGED <<pc, job, jobAttempt>>
      PROVE  JobInv'
  BY <1>3 DEF JobInv
<1>4. ASSUME NEW T, NEW s \in States \ {"absent"}, Release(T, s)
      PROVE  Keeps
  BY <1>4, ReleaseNeverAbsent
<1>5. ASSUME NEW T, EnqueueTasks(T)
      PROVE  Keeps
  BY <1>5 DEF EnqueueTasks
<1>6. ASSUME UNCHANGED state
      PROVE  Keeps
  BY <1>6
<1>7. ASSUME NEW w \in Workers, RunOnce(w)
      PROVE  JobInv'
  <2>1. CASE ReclaimExpired(w)
    BY <2>1, <1>2, <1>4 DEF ReclaimExpired, Goto, States, Work, TypeOK
  <2>2. CASE ScanOwners(w)
    BY <2>2, <1>2, <1>6 DEF ScanOwners, Goto, TypeOK
  <2>3. CASE RequeueDead(w)
    BY <2>3, <1>2, <1>4 DEF RequeueDead, Goto, States, Work, TypeOK
  <2>4. CASE CheckWork(w)
    BY <2>4, <1>1, <1>2, <1>6 DEF CheckWork, Goto, Steps, TypeOK
  <2>5. CASE SandboxPhase(w)
    BY <2>5, <1>1, <1>5 DEF SandboxPhase, Steps
  <2>6. CASE LeaseNone(w)
    BY <2>6, <1>2, <1>6 DEF LeaseNone, Goto, TypeOK
  <2>7. ASSUME NEW t \in Tasks, LeaseTask(w, t)
        PROVE  JobInv'
    <3>1. Keeps
      BY <2>7 DEF LeaseTask, TypeOK
    <3>2. job'[w] = t /\ jobAttempt'[w] = attempt[t] + 1 /\ state'[t] = "leased"
      BY <2>7 DEF LeaseTask, TypeOK
    <3>3. \A v \in Workers \ {w} :
            pc'[v] = pc[v] /\ job'[v] = job[v] /\ jobAttempt'[v] = jobAttempt[v]
      BY <2>7 DEF LeaseTask, Goto, TypeOK
    <3> QED BY <3>1, <3>2, <3>3 DEF JobInv, TypeOK
  <2>8. CASE Recount(w)
    BY <2>8, <1>1, <1>2, <1>6 DEF Recount, Goto, Steps, TypeOK
  <2>9. CASE StillWork(w)
    BY <2>9, <1>1, <1>6 DEF StillWork, Steps
  <2>10. CASE Succeed(w)
    BY <2>10, <1>1, <1>4 DEF Succeed, CompleteTask, Settle, States, Terminal, Steps
  <2>11. ASSUME NEW s \in {"failed_task", "blocked"}, Fail(w, s)
         PROVE  JobInv'
    BY <2>11, <1>1, <1>4 DEF Fail, FailTask, Settle, States, Terminal, Steps
  <2>12. CASE RejectKind(w)
    BY <2>12, <1>1, <1>4 DEF RejectKind, FailTask, Settle, States, Terminal, Steps
  <2>13. CASE InfraRetry(w)
    BY <2>13, <1>1, <1>4 DEF InfraRetry, RequeueTask, Settle, States, Work, Steps
  <2>14. CASE InfraGiveUp(w)
    BY <2>14, <1>1, <1>4 DEF InfraGiveUp, DeadletterTask, Settle, States, Terminal, Steps
  <2> QED BY <1>7, <2>1, <2>2, <2>3, <2>4, <2>5, <2>6, <2>7, <2>8, <2>9, <2>10, <2>11,
             <2>12, <2>13, <2>14 DEF RunOnce
<1>8. ASSUME NEW w \in Workers, Timeout(w) \/ Crash(w)
      PROVE  JobInv'
  BY <1>8, <1>1, <1>6 DEF Timeout, Crash, Dies, Killed, Steps
<1>9. ASSUME NEW w \in Workers, NEW t \in Tasks, EnqueueChild(w, t)
      PROVE  JobInv'
  BY <1>9, <1>3, <1>5 DEF EnqueueChild
<1>10. ASSUME NEW h \in Handlers, Operator(h)
       PROVE  JobInv'
  <2>1. ASSUME NEW k \in Kinds, NEW t \in Tasks, ReadRow(h, k, t)
        PROVE  JobInv'
    BY <2>1, <1>3, <1>6 DEF ReadRow
  <2>2. CASE WriteRow(h)
    <3>1. req[h].kind \in Kinds
      BY <2>2 DEF WriteRow, TypeOK, Requests, NoReq
    <3> QED BY <2>2, <3>1, <1>3, <1>4 DEF WriteRow, Outcome, Kinds, States, Work, Terminal
  <2>3. CASE KillOwner(h)
    BY <2>3, <1>1, <1>3, <1>6 DEF KillOwner, Killed, Steps
  <2> QED BY <1>10, <2>1, <2>2, <2>3 DEF Operator
<1>11. ASSUME NEW t \in Tasks, Expire(t) \/ OperatorEnqueue(t)
       PROVE  JobInv'
  BY <1>11, <1>3, <1>5, <1>6 DEF Expire, OperatorEnqueue
<1>12. CASE UNCHANGED vars
  BY <1>12, <1>3, <1>6 DEF vars
<1> QED BY <1>7, <1>8, <1>9, <1>10, <1>11, <1>12 DEF Next

LEMMA JobInvariant == Spec => [](TypeOK /\ JobInv)
<1>1. Init => JobInv
  BY SentinelAssumption DEF Init, JobInv, SentinelAssumption
<1>2. TypeOK /\ JobInv /\ [Next]_vars => JobInv'
  BY JobStep
<1> QED BY <1>1, <1>2, TypeCorrect, PTL DEF Spec

(* A Release over rows that are still work leaves settled rows alone.      *)
LEMMA ReleaseSparesSettled ==
  ASSUME TypeOK, NEW T, NEW s, Release(T, s), T \intersect InState(Terminal) = {},
         NEW t \in Tasks, state[t] \in Terminal
  PROVE  state'[t] = state[t]
  BY DEF Release, TypeOK, InState

(* No reclaim, no peer and no dashboard request ever revives a settled     *)
(* task; only a worker that once leased it and fails under the attempt cap *)
(* does, through the unguarded UPDATE of requeue_task.                     *)
THEOREM SettledStaysSettled == Spec => RevivedOnlyByInfraRetry
<1> DEFINE Revival(t) ==
      \E w \in Workers : job[w] = t /\ jobAttempt[w] \in 1..(MaxAttempts - 1)
                         /\ job'[w] = NoTask /\ state'[t] = "queued"
           Step == \A t \in Tasks : (state[t] \in Terminal /\ state'[t] # state[t])
                                       => Revival(t)
<1> USE DEF table, process, bounds
<1>1. ASSUME TypeOK, JobInv, [Next]_vars
      PROVE  Step
  <2> SUFFICES ASSUME NEW t \in Tasks, state[t] \in Terminal, state'[t] # state[t]
               PROVE  Revival(t)
    OBVIOUS
  <2>1. ASSUME NEW T, NEW s, Release(T, s)
        PROVE  T \intersect InState(Terminal) # {}
    BY <2>1, <1>1, ReleaseSparesSettled
  <2>2. /\ expired \intersect InState(Terminal) = {}
        /\ \A T : (T \intersect InState({"leased"})) \intersect InState(Terminal) = {}
        /\ \A T : (T \intersect InState(Work)) \intersect InState(Terminal) = {}
    BY <1>1 DEF TypeOK, InState, Terminal, Work
  <2>3. ASSUME NEW T, EnqueueTasks(T)
        PROVE  FALSE
    BY <2>3, <1>1 DEF EnqueueTasks, InState, Terminal, TypeOK
  <2>4. state' # state
    OBVIOUS
  <2>5. ASSUME NEW w \in Workers, RunOnce(w)
        PROVE  Revival(t)
    <3>1. ~ReclaimExpired(w)
      BY <2>1, <2>2 DEF ReclaimExpired
    <3>2. ~RequeueDead(w)
      BY <2>1, <2>2 DEF RequeueDead
    <3>3. /\ ~ScanOwners(w) /\ ~CheckWork(w) /\ ~LeaseNone(w) /\ ~Recount(w) /\ ~StillWork(w)
      BY <2>4 DEF ScanOwners, CheckWork, LeaseNone, Recount, StillWork
    <3>4. ~SandboxPhase(w)
      BY <2>3 DEF SandboxPhase
    <3>5. ASSUME NEW u \in Tasks, LeaseTask(w, u)
          PROVE  FALSE
      <4>1. u \in Pool
        BY <3>5 DEF LeaseTask, Leasable
      <4>2. state[u] \notin Terminal
        BY <4>1 DEF Pool, InState, Terminal
      <4> QED BY <1>1, <3>5, <4>2 DEF LeaseTask, TypeOK
    <3>6. ~Succeed(w) /\ ~RejectKind(w)
      BY <2>1, <2>2 DEF Succeed, RejectKind, CompleteTask, FailTask
    <3>7. ASSUME NEW s \in {"failed_task", "blocked"}, Fail(w, s)
          PROVE  FALSE
      BY <2>1, <2>2, <3>7 DEF Fail, FailTask
    <3>8. ~InfraGiveUp(w)
      BY <2>1, <2>2 DEF InfraGiveUp, DeadletterTask
    <3>9. CASE InfraRetry(w)
      <4>1. t = job[w]
        BY <1>1, <3>9 DEF InfraRetry, RequeueTask, Release, TypeOK
      <4>2. state'[t] = "queued" /\ job'[w] = NoTask /\ jobAttempt[w] < MaxAttempts
        BY <1>1, <3>9, <4>1 DEF InfraRetry, RequeueTask, Release, Settle, Retire, TypeOK
      <4>3. jobAttempt[w] \in Nat /\ jobAttempt[w] >= 1
        BY <1>1, <4>1 DEF JobInv, TypeOK
      <4> QED BY <4>1, <4>2, <4>3, CapAssumption DEF CapAssumption
    <3> QED BY <2>5, <3>1, <3>2, <3>3, <3>4, <3>5, <3>6, <3>7, <3>8, <3>9 DEF RunOnce
  <2>6. ASSUME NEW w \in Workers, Timeout(w) \/ Crash(w)
        PROVE  FALSE
    BY <2>4, <2>6 DEF Timeout, Crash, Dies, Killed
  <2>7. ASSUME NEW w \in Workers, NEW u \in Tasks, EnqueueChild(w, u)
        PROVE  FALSE
    BY <2>3, <2>7 DEF EnqueueChild
  <2>8. ASSUME NEW h \in Handlers, Operator(h)
        PROVE  FALSE
    <3>1. ASSUME NEW k \in Kinds, NEW u \in Tasks, ReadRow(h, k, u)
          PROVE  FALSE
      BY <2>4, <3>1 DEF ReadRow
    <3>2. ASSUME WriteRow(h)
          PROVE  FALSE
      <4>1. req[h].kind \in Kinds /\ req[h].task \in Tasks
        BY <1>1, <3>2 DEF WriteRow, TypeOK, Requests, NoReq
      <4>2. Eligible[req[h].kind] \intersect Terminal = {}
        BY <4>1 DEF Eligible, Kinds, Terminal, Work
      <4>3. (IF state[req[h].task] \in Eligible[req[h].kind] THEN {req[h].task} ELSE {})
              \intersect InState(Terminal) = {}
        BY <4>2 DEF InState
      <4> QED BY <2>1, <3>2, <4>3 DEF WriteRow
    <3>3. ~KillOwner(h)
      BY <2>4 DEF KillOwner, Killed
    <3> QED BY <2>8, <3>1, <3>2, <3>3 DEF Operator
  <2>9. ASSUME NEW u \in Tasks, Expire(u) \/ OperatorEnqueue(u)
        PROVE  FALSE
    BY <2>3, <2>4, <2>9 DEF Expire, OperatorEnqueue
  <2>10. ~UNCHANGED vars
    BY <2>4 DEF vars
  <2> QED BY <1>1, <2>5, <2>6, <2>7, <2>8, <2>9, <2>10 DEF Next
<1>2. TypeOK /\ JobInv /\ [Next]_vars => Step
  BY <1>1
<1> QED BY <1>2, JobInvariant, PTL DEF Spec, RevivedOnlyByInfraRetry

-----------------------------------------------------------------------------
(* Only a lease adds a row to the leases in flight.                        *)
NoNewLease == \A t \in Tasks : state'[t] = "leased" => state[t] = "leased" /\ pair'[t] = pair[t]

LEMMA OnlyLeaseTaskLeases ==
  ASSUME TypeOK, [Next]_vars, \A w \in Workers, t \in Tasks : ~LeaseTask(w, t)
  PROVE  NoNewLease
<1> USE DEF table, process, bounds
<1>1. ASSUME NEW T, NEW s, s # "leased", Release(T, s), UNCHANGED pair
      PROVE  NoNewLease
  BY <1>1 DEF NoNewLease, Release, TypeOK
<1>2. ASSUME NEW T, EnqueueTasks(T)
      PROVE  NoNewLease
  BY <1>2 DEF NoNewLease, EnqueueTasks, TypeOK
<1>3. ASSUME UNCHANGED <<state, pair>>
      PROVE  NoNewLease
  BY <1>3 DEF NoNewLease
<1>4. ASSUME NEW w \in Workers, RunOnce(w) \/ Timeout(w) \/ Crash(w)
      PROVE  NoNewLease
  <2>1. CASE ReclaimExpired(w) \/ RequeueDead(w)
    BY <2>1, <1>1 DEF ReclaimExpired, RequeueDead
  <2>2. CASE ScanOwners(w) \/ CheckWork(w) \/ LeaseNone(w) \/ Recount(w) \/ StillWork(w)
    BY <2>2, <1>3 DEF ScanOwners, CheckWork, LeaseNone, Recount, StillWork
  <2>3. CASE SandboxPhase(w)
    BY <2>3, <1>2 DEF SandboxPhase
  <2>4. CASE Succeed(w) \/ RejectKind(w) \/ \E s \in {"failed_task", "blocked"} : Fail(w, s)
    BY <2>4, <1>1 DEF Succeed, RejectKind, Fail, CompleteTask, FailTask, Settle
  <2>5. CASE InfraRetry(w) \/ InfraGiveUp(w)
    BY <2>5, <1>1 DEF InfraRetry, InfraGiveUp, RequeueTask, DeadletterTask, Settle
  <2>6. CASE Timeout(w) \/ Crash(w)
    BY <2>6, <1>3 DEF Timeout, Crash, Dies, Killed
  <2> QED BY <1>4, <2>1, <2>2, <2>3, <2>4, <2>5, <2>6 DEF RunOnce
<1>5. ASSUME NEW h \in Handlers, Operator(h)
      PROVE  NoNewLease
  <2>1. CASE WriteRow(h)
    <3>1. req[h].kind \in Kinds
      BY <2>1 DEF WriteRow, TypeOK, Requests, NoReq
    <3>2. Outcome[req[h].kind] # "leased"
      BY <3>1 DEF Outcome, Kinds
    <3> QED BY <2>1, <3>2, <1>1 DEF WriteRow
  <2> QED BY <1>5, <2>1, <1>3 DEF Operator, ReadRow, KillOwner, Killed
<1>6. CASE UNCHANGED vars
  BY <1>3, <1>6 DEF vars
<1> QED BY <1>2, <1>3, <1>4, <1>5, <1>6 DEF Next, EnqueueChild, OperatorEnqueue, Expire

LEMMA HeldFinite == \A p : IsFiniteSet(Held(p)) /\ Cardinality(Held(p)) \in Nat
  BY TasksAssumption, FS_Subset, FS_CardinalityType DEF Held, TasksAssumption

LEMMA PairCapType == \A p \in Pairs : PairCap(p) \in Nat \ {0}
  BY CapAssumption DEF PairCap, CapAssumption

LEMMA LeaseCapStep ==
  ASSUME TypeOK, TypeOK', LeaseCap, [Next]_vars
  PROVE  LeaseCap'
<1> SUFFICES ASSUME NEW p \in Pairs, Held(p)' # {}
             PROVE  Cardinality(Held(p)') + Cardinality(Untagged') <= PairCap(p)
  BY DEF LeaseCap, PairCap
<1>0. p # NoPair
  BY SentinelAssumption DEF SentinelAssumption
<1>1. CASE \A w \in Workers, t \in Tasks : ~LeaseTask(w, t)
  <2>1. Held(p)' \subseteq Held(p) /\ Untagged' \subseteq Untagged
    BY <1>1, OnlyLeaseTaskLeases DEF NoNewLease, Held, Untagged
  <2>2. /\ Cardinality(Held(p)') <= Cardinality(Held(p))
        /\ Cardinality(Untagged') <= Cardinality(Untagged)
    BY <2>1, HeldFinite, FS_Subset DEF Untagged
  <2>3. Cardinality(Held(p)') \in Nat /\ Cardinality(Untagged') \in Nat
    BY <2>1, HeldFinite, FS_Subset, FS_CardinalityType DEF Untagged
  <2>4. Cardinality(Held(p)) + Cardinality(Untagged) <= PairCap(p)
    BY <2>1 DEF LeaseCap
  <2> QED BY <2>2, <2>3, <2>4, HeldFinite, PairCapType DEF Untagged
<1>2. ASSUME NEW w \in Workers, NEW t \in Tasks, LeaseTask(w, t)
      PROVE  Cardinality(Held(p)') + Cardinality(Untagged') <= PairCap(p)
  <2>1. PICK r \in Resolutions : t \in Leasable(r) /\ pair' = [pair EXCEPT ![t] = r[t]]
    BY <1>2 DEF LeaseTask
  <2>2. state' = [state EXCEPT ![t] = "leased"] /\ state[t] # "leased" /\ HasRoom(r[t])
    BY <1>2, <2>1 DEF LeaseTask, Leasable, Pool, InState
  <2>3. r[t] \in Pairs
    BY <2>1 DEF Resolutions
  <2>4. Untagged' = Untagged
    BY <2>1, <2>2, <2>3, SentinelAssumption DEF Untagged, Held, TypeOK, SentinelAssumption
  <2>5. CASE r[t] = p
    <3>1. Held(p)' = Held(p) \union {t} /\ t \notin Held(p)
      BY <2>1, <2>2, <2>5 DEF Held, TypeOK
    <3>2. Cardinality(Held(p)') = Cardinality(Held(p)) + 1
      BY <3>1, HeldFinite, FS_AddElement
    <3> QED BY <2>2, <2>4, <2>5, <3>2, HeldFinite, PairCapType DEF HasRoom, Untagged
  <2>6. CASE r[t] # p
    <3>1. Held(p)' = Held(p)
      BY <2>1, <2>2, <2>6 DEF Held, TypeOK
    <3> QED BY <2>4, <3>1 DEF LeaseCap
  <2> QED BY <2>5, <2>6
<1> QED BY <1>1, <1>2

(* lease_next_task keeps every (host, model) pair within its cap, however  *)
(* many workers lease at once and whatever is reclaimed or requeued in     *)
(* between; leases without a recorded pair count against every pair.       *)
THEOREM PairCapsHold == Spec => []LeaseCap
<1>1. Init => LeaseCap
  <2> SUFFICES ASSUME Init, NEW p \in Pairs
               PROVE  Held(p) = {}
    BY DEF LeaseCap
  <2> QED BY SentinelAssumption DEF Init, Held, SentinelAssumption
<1>2. TypeOK /\ TypeOK' /\ LeaseCap /\ [Next]_vars => LeaseCap'
  BY LeaseCapStep
<1> QED BY <1>1, <1>2, TypeCorrect, PTL DEF Spec

-----------------------------------------------------------------------------
(* The workers that still may requeue t.  Each of them, and each requeue   *)
(* made, has used up an attempt of its own below the cap.                  *)
Spenders(t) == {w \in Workers : job[w] = t /\ jobAttempt[w] < MaxAttempts}

BudgetInv ==
  \A t \in Tasks :
    /\ infraRequeues[t] + Cardinality(Spenders(t)) <= attempt[t]
    /\ infraRequeues[t] + Cardinality(Spenders(t)) <= MaxAttempts - 1

LEMMA SpendersFinite == \A t : IsFiniteSet(Spenders(t)) /\ Cardinality(Spenders(t)) \in Nat
  BY TasksAssumption, FS_Subset, FS_CardinalityType DEF Spenders, TasksAssumption

(* A step that leases nothing and retries nothing.                         *)
JobsOnlyEnd ==
  /\ UNCHANGED <<attempt, infraRequeues>>
  /\ \A w \in Workers : \/ job'[w] = NoTask
                        \/ job'[w] = job[w] /\ jobAttempt'[w] = jobAttempt[w]

LEMMA OnlyLeaseStartsJobs ==
  ASSUME TypeOK, [Next]_vars, \A w \in Workers, t \in Tasks : ~LeaseTask(w, t),
         \A w \in Workers : ~InfraRetry(w)
  PROVE  JobsOnlyEnd
<1> USE DEF table, process, bounds
<1>1. ASSUME NEW w \in Workers, NEW where, Retire(w, where),
             UNCHANGED <<attempt, infraRequeues>>
      PROVE  JobsOnlyEnd
  BY <1>1 DEF JobsOnlyEnd, Retire, TypeOK
<1>2. ASSUME UNCHANGED <<attempt, infraRequeues, job, jobAttempt>>
      PROVE  JobsOnlyEnd
  BY <1>2 DEF JobsOnlyEnd
<1>3. ASSUME NEW w \in Workers, RunOnce(w) \/ Timeout(w) \/ Crash(w)
      PROVE  JobsOnlyEnd
  <2>1. CASE ReclaimExpired(w) \/ ScanOwners(w) \/ RequeueDead(w) \/ LeaseNone(w)
    BY <2>1, <1>2 DEF ReclaimExpired, ScanOwners, RequeueDead, LeaseNone
  <2>2. CASE CheckWork(w) \/ Recount(w) \/ StillWork(w)
    BY <2>2, <1>1, <1>2 DEF CheckWork, Recount, StillWork
  <2>3. CASE SandboxPhase(w)
    BY <2>3, <1>1 DEF SandboxPhase, EnqueueTasks
  <2>4. CASE Succeed(w) \/ RejectKind(w) \/ InfraGiveUp(w)
             \/ \E s \in {"failed_task", "blocked"} : Fail(w, s)
    BY <2>4, <1>1 DEF Succeed, RejectKind, InfraGiveUp, Fail, Settle
  <2>5. CASE Timeout(w) \/ Crash(w)
    BY <2>5, <1>1 DEF Timeout, Crash, Dies, Killed
  <2> QED BY <1>3, <2>1, <2>2, <2>3, <2>4, <2>5 DEF RunOnce
<1>4. ASSUME NEW h \in Handlers, Operator(h)
      PROVE  JobsOnlyEnd
  BY <1>4, <1>1, <1>2 DEF Operator, ReadRow, WriteRow, KillOwner, Killed
<1>5. ASSUME NEW t \in Tasks, Expire(t) \/ OperatorEnqueue(t)
      PROVE  JobsOnlyEnd
  BY <1>5, <1>2 DEF Expire, OperatorEnqueue, EnqueueTasks
<1>6. ASSUME NEW w \in Workers, NEW t \in Tasks, EnqueueChild(w, t)
      PROVE  JobsOnlyEnd
  BY <1>6, <1>2 DEF EnqueueChild, EnqueueTasks
<1>7. CASE UNCHANGED vars
  BY <1>7, <1>2 DEF vars
<1> QED BY <1>3, <1>4, <1>5, <1>6, <1>7 DEF Next

LEMMA BudgetStep ==
  ASSUME TypeOK, TypeOK', JobInv, BudgetInv, [Next]_vars
  PROVE  BudgetInv'
<1> SUFFICES ASSUME NEW t \in Tasks
             PROVE  /\ infraRequeues'[t] + Cardinality(Spenders(t)') <= attempt'[t]
                    /\ infraRequeues'[t] + Cardinality(Spenders(t)') <= MaxAttempts - 1
  BY DEF BudgetInv, Spenders
<1>0. /\ infraRequeues[t] \in Nat /\ attempt[t] \in Nat /\ MaxAttempts \in Nat \ {0}
      /\ Cardinality(Spenders(t)) \in Nat
      /\ infraRequeues[t] + Cardinality(Spenders(t)) <= attempt[t]
      /\ infraRequeues[t] + Cardinality(Spenders(t)) <= MaxAttempts - 1
  BY SpendersFinite, CapAssumption DEF TypeOK, BudgetInv, CapAssumption
<1>1. ASSUME NEW S \in SUBSET Spenders(t)
      PROVE  IsFiniteSet(S) /\ Cardinality(S) \in Nat /\ Cardinality(S) <= Cardinality(Spenders(t))
  BY <1>1, SpendersFinite, FS_Subset, FS_CardinalityType
<1>2. CASE JobsOnlyEnd
  <2>1. Spenders(t)' \in SUBSET Spenders(t)
    BY <1>2, SentinelAssumption DEF JobsOnlyEnd, Spenders, SentinelAssumption
  <2> QED BY <1>0, <1>1, <1>2, <2>1 DEF JobsOnlyEnd
<1>3. ASSUME NEW w \in Workers, InfraRetry(w)
      PROVE  /\ infraRequeues'[t] + Cardinality(Spenders(t)') <= attempt'[t]
             /\ infraRequeues'[t] + Cardinality(Spenders(t)') <= MaxAttempts - 1
  <2>0. attempt' = attempt /\ job' = [job EXCEPT ![w] = NoTask]
        /\ jobAttempt' = [jobAttempt EXCEPT ![w] = 0]
    BY <1>3 DEF InfraRetry, Settle, Retire
  <2>1. CASE job[w] = t
    <3>1. w \in Spenders(t) /\ infraRequeues'[t] = infraRequeues[t] + 1
      BY <1>3, <2>1 DEF InfraRetry, Spenders, TypeOK
    <3>2. Spenders(t)' = Spenders(t) \ {w}
      BY <2>0, SentinelAssumption DEF Spenders, TypeOK, SentinelAssumption
    <3>3. Cardinality(Spenders(t)') = Cardinality(Spenders(t)) - 1
      BY <3>1, <3>2, SpendersFinite, FS_RemoveElement
    <3> QED BY <1>0, <2>0, <3>1, <3>3
  <2>2. CASE job[w] # t
    <3>1. infraRequeues'[t] = infraRequeues[t]
      BY <1>3, <2>2 DEF InfraRetry, TypeOK
    <3>2. Spenders(t)' \in SUBSET Spenders(t)
      BY <2>0, SentinelAssumption DEF Spenders, TypeOK, SentinelAssumption
    <3> QED BY <1>0, <1>1, <2>0, <3>1, <3>2
  <2> QED BY <2>1, <2>2
<1>4. ASSUME NEW w \in Workers, NEW u \in Tasks, LeaseTask(w, u)
      PROVE  /\ infraRequeues'[t] + Cardinality(Spenders(t)') <= attempt'[t]
             /\ infraRequeues'[t] + Cardinality(Spenders(t)') <= MaxAttempts - 1
  <2>0. /\ attempt' = [attempt EXCEPT ![u] = attempt[u] + 1]
        /\ job' = [job EXCEPT ![w] = u]
        /\ jobAttempt' = [jobAttempt EXCEPT ![w] = attempt[u] + 1]
        /\ infraRequeues' = infraRequeues
    BY <1>4 DEF LeaseTask
  <2>1. CASE u = t /\ attempt[t] + 1 < MaxAttempts
    <3>1. Spenders(t)' = Spenders(t) \union {w}
      BY <2>0, <2>1 DEF Spenders, TypeOK
    <3>2. Cardinality(Spenders(t)') \in Nat
          /\ Cardinality(Spenders(t)') <= Cardinality(Spenders(t)) + 1
      <4>1. IsFiniteSet(Spenders(t))
        BY SpendersFinite
      <4>2. Cardinality(Spenders(t) \union {w})
              \in {Cardinality(Spenders(t)), Cardinality(Spenders(t)) + 1}
        BY <4>1, FS_AddElement, Zenon
      <4> QED BY <1>0, <3>1, <4>2
    <3>3. attempt'[t] = attempt[t] + 1
      BY <2>0, <2>1 DEF TypeOK
    <3> QED BY <1>0, <2>0, <2>1, <3>2, <3>3
  <2>2. CASE ~(u = t /\ attempt[t] + 1 < MaxAttempts)
    <3>1. Spenders(t)' \in SUBSET Spenders(t)
      BY <2>0, <2>2 DEF Spenders, TypeOK
    <3>2. attempt'[t] \in {attempt[t], attempt[t] + 1}
      BY <2>0 DEF TypeOK
    <3> QED BY <1>0, <1>1, <2>0, <3>1, <3>2
  <2> QED BY <2>1, <2>2
<1> QED BY <1>2, <1>3, <1>4, OnlyLeaseStartsJobs

(* max_task_attempts bounds the infra requeues of every task, also when    *)
(* several workers run it at once and a settled task is revived.           *)
THEOREM RetriesBounded == Spec => []InfraBudget
<1>1. Init => BudgetInv
  <2> SUFFICES ASSUME Init, NEW t \in Tasks
               PROVE  /\ Spenders(t) = {} /\ infraRequeues[t] = 0
                      /\ attempt[t] \in Nat /\ MaxAttempts \in Nat \ {0}
    BY FS_EmptySet DEF BudgetInv
  <2> QED BY SentinelAssumption, CapAssumption
          DEF Init, Spenders, SentinelAssumption, CapAssumption
<1>2. TypeOK /\ TypeOK' /\ JobInv /\ BudgetInv /\ [Next]_vars => BudgetInv'
  BY BudgetStep
<1>3. TypeOK /\ BudgetInv => InfraBudget
  BY SpendersFinite, CapAssumption DEF BudgetInv, InfraBudget, TypeOK, CapAssumption
<1> QED BY <1>1, <1>2, <1>3, TypeCorrect, JobInvariant, PTL DEF Spec

-----------------------------------------------------------------------------
(* While nothing has gone wrong every job is covered by the lease of its   *)
(* own worker, no row is overdue or orphaned and no request is under way.  *)
Orderly ==
  /\ expired = {}
  /\ \A t \in Tasks : owner[t] # Gone
  /\ \A w \in Workers : dead[w] = {}
  /\ \A h \in Handlers : req[h] = NoReq
  /\ \A w \in Workers : job[w] \in Tasks => state[job[w]] = "leased" /\ owner[job[w]] = w

OrderlyInv == Undisturbed => Orderly

LEMMA OrderlyStep ==
  ASSUME TypeOK, TypeOK', OrderlyInv, [Next]_vars
  PROVE  OrderlyInv'
<1> USE DEF table, process, bounds
<1>1. ASSUME Orderly, NEW w \in Workers, NEW where, Retire(w, where), req' = Forget(w),
             UNCHANGED <<state, owner, expired>>
      PROVE  Orderly'
  BY <1>1, SentinelAssumption
     DEF Orderly, Retire, Forget, NoReq, TypeOK, SentinelAssumption
<1>2. ASSUME Orderly, NEW w \in Workers, Settle(w, "off") \/ Settle(w, "halted"),
             NEW T \in SUBSET {job[w]}, NEW s, Release(T, s)
      PROVE  Orderly'
  <2>1. PICK where : Retire(w, where) /\ req' = Forget(w)
    BY <1>2 DEF Settle
  <2>2. \A v \in Workers \ {w} : job[v] \in Tasks => job[v] \notin T
    BY <1>2 DEF Orderly
  <2>3. \A v \in Workers : job'[v] = IF v = w THEN NoTask ELSE job[v]
    BY <2>1 DEF Retire, TypeOK
  <2>4. \A v \in Workers : job'[v] \in Tasks
                              => state'[job'[v]] = "leased" /\ owner'[job'[v]] = v
    BY <1>2, <2>2, <2>3, SentinelAssumption DEF Release, Orderly, SentinelAssumption
  <2>5. expired' = {} /\ \A t \in Tasks : owner'[t] # Gone
    BY <1>2, SentinelAssumption DEF Release, Orderly, SentinelAssumption
  <2>6. /\ \A v \in Workers : dead'[v] = {}
        /\ \A h \in Handlers : req'[h] = NoReq
    BY <1>2, <2>1, SentinelAssumption DEF Orderly, Retire, Forget, NoReq, TypeOK, SentinelAssumption
  <2> QED BY <2>4, <2>5, <2>6 DEF Orderly
<1>3. ASSUME Orderly, NEW T, EnqueueTasks(T), UNCHANGED <<job, dead, req>>
      PROVE  Orderly'
  BY <1>3 DEF Orderly, EnqueueTasks, InState, TypeOK
<1>4. SUFFICES ASSUME Undisturbed', Next
               PROVE  Orderly'
  <2>1. CASE UNCHANGED vars
    BY <2>1 DEF vars, OrderlyInv, Undisturbed, Orderly
  <2> QED BY <2>1 DEF OrderlyInv
<1>5. Undisturbed /\ Orderly
  <2>1. timeouts' >= timeouts /\ expiries' >= expiries /\ requests' >= requests
    <3>1. ASSUME NEW w \in Workers, RunOnce(w)
          PROVE  UNCHANGED <<timeouts, expiries, requests>>
      BY <3>1 DEF RunOnce, ReclaimExpired, ScanOwners, RequeueDead, CheckWork, SandboxPhase,
         LeaseNone, LeaseTask, Recount, StillWork, Succeed, Fail, RejectKind, InfraRetry,
         InfraGiveUp, Settle
    <3>2. ASSUME NEW w \in Workers, Timeout(w) \/ Crash(w) \/ \E t \in Tasks : EnqueueChild(w, t)
          PROVE  timeouts' >= timeouts /\ UNCHANGED <<expiries, requests>>
      <4>1. timeouts \in Nat
        BY DEF TypeOK
      <4>2. CASE Timeout(w) \/ Crash(w)
        BY <4>1, <4>2 DEF Timeout, Crash, Dies
      <4>3. CASE \E t \in Tasks : EnqueueChild(w, t)
        <5>1. UNCHANGED <<timeouts, expiries, requests>>
          BY <4>3 DEF EnqueueChild
        <5> QED BY <4>1, <5>1
      <4> QED BY <3>2, <4>2, <4>3
    <3>3. ASSUME NEW h \in Handlers, Operator(h)
          PROVE  requests' >= requests /\ UNCHANGED <<timeouts, expiries>>
      <4>1. requests \in Nat
        BY DEF TypeOK
      <4> QED BY <3>3, <4>1 DEF Operator, ReadRow, WriteRow, KillOwner
    <3>4. ASSUME NEW t \in Tasks, Expire(t) \/ OperatorEnqueue(t)
          PROVE  expiries' >= expiries /\ requests' >= requests /\ UNCHANGED timeouts
      BY <3>4 DEF Expire, OperatorEnqueue, TypeOK
    <3>5. timeouts \in Nat /\ expiries \in Nat /\ requests \in Nat
      BY DEF TypeOK
    <3> QED BY <1>4, <3>1, <3>2, <3>3, <3>4, <3>5 DEF Next
  <2> QED BY <1>4, <2>1 DEF Undisturbed, OrderlyInv, TypeOK
<1>6. ASSUME NEW w \in Workers, RunOnce(w)
      PROVE  Orderly'
  <2>1. CASE ReclaimExpired(w)
    BY <2>1, <1>5 DEF ReclaimExpired, Release, Orderly, TypeOK
  <2>2. CASE ScanOwners(w)
    BY <2>2, <1>5 DEF ScanOwners, Orderly, TypeOK
  <2>3. CASE RequeueDead(w)
    BY <2>3, <1>5 DEF RequeueDead, Release, Orderly, TypeOK
  <2>4. CASE CheckWork(w) \/ Recount(w) \/ StillWork(w)
    BY <2>4, <1>1, <1>5 DEF CheckWork, Recount, StillWork, Orderly
  <2>5. CASE SandboxPhase(w)
    BY <2>5, <1>5, SentinelAssumption
       DEF SandboxPhase, EnqueueTasks, InState, Retire, Forget, NoReq, Orderly, TypeOK,
           SentinelAssumption
  <2>6. CASE LeaseNone(w)
    BY <2>6, <1>5 DEF LeaseNone, Orderly
  <2>7. ASSUME NEW t \in Tasks, LeaseTask(w, t)
        PROVE  Orderly'
    <3>1. state[t] # "leased"
      BY <2>7 DEF LeaseTask, Leasable, Pool, InState
    <3>2. \A v \in Workers : job[v] # t
      BY <1>5, <3>1 DEF Orderly
    <3> QED BY <2>7, <1>5, <3>2, SentinelAssumption
            DEF LeaseTask, Orderly, TypeOK, SentinelAssumption
  <2>8. CASE Succeed(w)
    BY <2>8, <1>2, <1>5 DEF Succeed, CompleteTask
  <2>9. ASSUME NEW s \in {"failed_task", "blocked"}, Fail(w, s)
        PROVE  Orderly'
    BY <2>9, <1>2, <1>5 DEF Fail, FailTask
  <2>10. CASE RejectKind(w)
    BY <2>10, <1>2, <1>5 DEF RejectKind, FailTask
  <2>11. CASE InfraRetry(w)
    BY <2>11, <1>2, <1>5 DEF InfraRetry, RequeueTask
  <2>12. CASE InfraGiveUp(w)
    BY <2>12, <1>2, <1>5 DEF InfraGiveUp, DeadletterTask
  <2> QED BY <1>6, <2>1, <2>2, <2>3, <2>4, <2>5, <2>6, <2>7, <2>8, <2>9, <2>10, <2>11, <2>12
          DEF RunOnce
<1>7. ASSUME NEW w \in Workers, NEW t \in Tasks, EnqueueChild(w, t)
      PROVE  Orderly'
  BY <1>7, <1>3, <1>5 DEF EnqueueChild
<1>8. ASSUME NEW w \in Workers, Timeout(w) \/ Crash(w)
      PROVE  FALSE
  BY <1>8, <1>4 DEF Timeout, Crash, Dies, Undisturbed, TypeOK
<1>9. ASSUME NEW h \in Handlers, Operator(h)
      PROVE  FALSE
  <2>1. ASSUME NEW k \in Kinds, NEW t \in Tasks, ReadRow(h, k, t)
        PROVE  FALSE
    BY <2>1, <1>4 DEF ReadRow, Undisturbed, TypeOK
  <2> QED BY <1>9, <2>1, <1>5 DEF Operator, WriteRow, KillOwner, Orderly, NoReq
<1>10. ASSUME NEW t \in Tasks, Expire(t) \/ OperatorEnqueue(t)
       PROVE  FALSE
  BY <1>10, <1>4 DEF Expire, OperatorEnqueue, Undisturbed, TypeOK
<1> QED BY <1>4, <1>6, <1>7, <1>8, <1>9, <1>10 DEF Next

(* BEGIN IMMEDIATE and the reclaims alone never run a task twice at once:  *)
(* it takes a killed worker, an overdue lease or a dashboard request.      *)
THEOREM LeaseExclusive == Spec => []ExclusiveUntilDisturbed
<1>1. Init => OrderlyInv
  BY SentinelAssumption DEF Init, OrderlyInv, Orderly, Undisturbed, SentinelAssumption
<1>2. TypeOK /\ TypeOK' /\ OrderlyInv /\ [Next]_vars => OrderlyInv'
  BY OrderlyStep
<1>3. TypeOK /\ OrderlyInv => ExclusiveUntilDisturbed
  BY DEF TypeOK, OrderlyInv, Orderly, ExclusiveUntilDisturbed
<1> QED BY <1>1, <1>2, <1>3, TypeCorrect, PTL DEF Spec

-----------------------------------------------------------------------------
(* Every step of the queue is a step of the lifecycle or a stutter.        *)
LEMMA LifecycleStep ==
  ASSUME TypeOK, JobInv, [Next]_vars
  PROVE  [LC!Next]_LC!vars
<1> USE DEF table, process, bounds
<1>0. \A S : LC!In(S) = InState(S)
  BY DEF LC!In, InState
<1>1. ASSUME UNCHANGED <<state, attempt>>
      PROVE  [LC!Next]_LC!vars
  BY <1>1 DEF LC!vars
<1>2. ASSUME NEW T, NEW s, Release(T, s), UNCHANGED attempt
      PROVE  LC!Move(T, s)
  BY <1>2 DEF Release, LC!Move
<1>3. ASSUME NEW T, T \subseteq InState({"leased"}), Release(T, "queued"), UNCHANGED attempt
      PROVE  [LC!Next]_LC!vars
  <2>1. LC!Reclaim(T) /\ T \in SUBSET Tasks
    BY <1>0, <1>2, <1>3 DEF LC!Reclaim, InState
  <2> QED BY <2>1 DEF LC!Next
<1>4. ASSUME NEW T, EnqueueTasks(T)
      PROVE  [LC!Next]_LC!vars
  <2>1. LC!Enqueue(T) /\ T \in SUBSET Tasks
    BY <1>0, <1>4 DEF EnqueueTasks, LC!Enqueue, LC!Move, InState
  <2> QED BY <2>1 DEF LC!Next
<1>5. ASSUME NEW t \in Tasks, NEW S, NEW s, Release({t} \intersect InState(S), s),
             UNCHANGED attempt, state[t] \in S => LC!Next \/ ~LC!Move({t}, s)
      PROVE  [LC!Next]_LC!vars
  <2>1. CASE state[t] \in S
    <3>1. {t} \intersect InState(S) = {t}
      BY <2>1 DEF InState
    <3> QED BY <1>2, <1>5, <2>1, <3>1
  <2>2. CASE state[t] \notin S
    BY <1>5, <2>2 DEF Release, InState, TypeOK, LC!vars
  <2> QED BY <2>1, <2>2
<1>6. ASSUME NEW t \in Tasks, NEW s \in {"succeeded", "failed_task", "blocked"},
             state[t] \in {"leased"}, LC!Move({t}, s)
      PROVE  LC!Next
  BY <1>6 DEF LC!Next, LC!Settle
<1>7. ASSUME NEW w \in Workers, RunOnce(w) \/ Timeout(w) \/ Crash(w)
      PROVE  [LC!Next]_LC!vars
  <2>1. CASE ReclaimExpired(w) \/ RequeueDead(w)
    BY <2>1, <1>3 DEF ReclaimExpired, RequeueDead, TypeOK, InState
  <2>2. CASE ScanOwners(w) \/ CheckWork(w) \/ LeaseNone(w) \/ Recount(w) \/ StillWork(w)
             \/ Timeout(w) \/ Crash(w)
    BY <2>2, <1>1 DEF ScanOwners, CheckWork, LeaseNone, Recount, StillWork, Timeout, Crash, Dies, Killed
  <2>3. CASE SandboxPhase(w)
    BY <2>3, <1>4 DEF SandboxPhase
  <2>4. ASSUME NEW t \in Tasks, LeaseTask(w, t)
        PROVE  LC!Next
    <3>1. t \in Pool
      BY <2>4 DEF LeaseTask, Leasable
    <3>2. state[t] = "queued" \/ (state[t] = "paused" /\ InState({"queued"}) = {})
      BY <3>1 DEF Pool, InState
    <3>3. LC!Lease(t)
      BY <2>4, <3>2, <1>0 DEF LeaseTask, LC!Lease
    <3> QED BY <3>3 DEF LC!Next
  <2>5. ASSUME pc[w] = "dispatch"
        PROVE  job[w] \in Tasks /\ state[job[w]] # "absent"
    BY <2>5 DEF JobInv
  <2>6. CASE Succeed(w)
    BY <2>6, <2>5, <1>5, <1>6 DEF Succeed, CompleteTask, Settle
  <2>7. ASSUME NEW s \in {"failed_task", "blocked"}, Fail(w, s)
        PROVE  [LC!Next]_LC!vars
    BY <2>7, <2>5, <1>5, <1>6 DEF Fail, FailTask, Settle
  <2>8. CASE RejectKind(w)
    BY <2>8, <2>5, <1>5, <1>6 DEF RejectKind, FailTask, Settle
  <2>9. CASE InfraRetry(w)
    <3>1. LC!Retry(job[w])
      BY <2>9, <2>5, <1>2 DEF InfraRetry, RequeueTask, Settle, LC!Retry
    <3> QED BY <2>9, <2>5, <3>1 DEF InfraRetry, LC!Next
  <2>10. CASE InfraGiveUp(w)
    <3>1. ASSUME state[job[w]] \in Work, LC!Move({job[w]}, "deadletter")
          PROVE  LC!Next
      <4>1. LC!Deadletter(job[w])
        BY <3>1 DEF LC!Deadletter, LC!Unsettled, Work
      <4> QED BY <2>5, <2>10, <4>1 DEF InfraGiveUp, LC!Next
    <3> QED BY <2>10, <2>5, <3>1, <1>5 DEF InfraGiveUp, DeadletterTask, Settle
  <2> QED BY <1>7, <2>1, <2>2, <2>3, <2>4, <2>6, <2>7, <2>8, <2>9, <2>10 DEF RunOnce
<1>8. ASSUME NEW w \in Workers, NEW t \in Tasks, EnqueueChild(w, t)
      PROVE  [LC!Next]_LC!vars
  BY <1>8, <1>4 DEF EnqueueChild
<1>9. ASSUME NEW h \in Handlers, Operator(h)
      PROVE  [LC!Next]_LC!vars
  <2>1. CASE WriteRow(h)
    <3> DEFINE t == req[h].task
               k == req[h].kind
    <3>1. k \in Kinds /\ t \in Tasks
      BY <2>1 DEF WriteRow, TypeOK, Requests, NoReq
    <3>0. /\ k = "pause" => Eligible[k] = {"queued", "leased"} /\ Outcome[k] = "paused"
          /\ k = "halt" => Eligible[k] = Work /\ Outcome[k] = "cancelled"
          /\ k = "cancel" => Eligible[k] = {"queued"} /\ Outcome[k] = "cancelled"
          /\ k = "resume" => Eligible[k] = {"paused"} /\ Outcome[k] = "queued"
          /\ k = "priority" => Eligible[k] = {"queued"} /\ Outcome[k] = "queued"
      BY DEF Eligible, Outcome
    <3>2. ASSUME state[t] \in Eligible[k], LC!Move({t}, Outcome[k])
          PROVE  LC!Next \/ UNCHANGED <<state, attempt>>
      <4>1. CASE k = "pause"
        <5>1. LC!Park(t)
          BY <3>0, <3>2, <4>1 DEF LC!Park
        <5> QED BY <3>1, <5>1 DEF LC!Next
      <4>2. CASE k \in {"halt", "cancel"}
        <5>1. LC!Cancel(t)
          BY <3>0, <3>2, <4>2 DEF LC!Cancel, LC!Unsettled, Work
        <5> QED BY <3>1, <5>1 DEF LC!Next
      <4>3. CASE k = "resume"
        <5>1. LC!Resume(t)
          BY <3>0, <3>2, <4>3 DEF LC!Resume
        <5> QED BY <3>1, <5>1 DEF LC!Next
      <4>4. CASE k = "priority"
        BY <3>0, <3>1, <3>2, <4>4 DEF LC!Move, TypeOK
      <4> QED BY <3>1, <4>1, <4>2, <4>3, <4>4 DEF Kinds
    <3>3. CASE state[t] \in Eligible[k]
      BY <2>1, <3>2, <3>3, <1>1, <1>2 DEF WriteRow
    <3>4. CASE state[t] \notin Eligible[k]
      BY <2>1, <3>4, <1>1 DEF WriteRow, Release, TypeOK
    <3> QED BY <3>3, <3>4
  <2> QED BY <1>9, <2>1, <1>1 DEF Operator, ReadRow, KillOwner, Killed
<1>10. ASSUME NEW t \in Tasks, Expire(t) \/ OperatorEnqueue(t)
       PROVE  [LC!Next]_LC!vars
  BY <1>10, <1>1, <1>4 DEF Expire, OperatorEnqueue
<1>11. CASE UNCHANGED vars
  BY <1>11, <1>1 DEF vars
<1> QED BY <1>7, <1>8, <1>9, <1>10, <1>11 DEF Next

(* The whole queue, with all its processes and requests, implements the    *)
(* lifecycle: no interleaving takes a task along an edge it does not have, *)
(* and a paused task is leased only while no task is queued.               *)
THEOREM QueueFollowsLifecycle == Spec => FollowsLifecycle
<1>1. Init => LC!Init
  BY DEF Init, LC!Init
<1>2. TypeOK /\ JobInv /\ [Next]_vars => [LC!Next]_LC!vars
  BY LifecycleStep
<1> QED BY <1>1, <1>2, JobInvariant, PTL DEF Spec, FollowsLifecycle, LC!Spec

-----------------------------------------------------------------------------
(* The loops of the Ralphs.                                                *)

(* The loops run the queue: every step of theirs is a step of a run-once   *)
(* or of the dashboard in TaskQueue, or leaves the queue alone.  All that  *)
(* is proved of TaskQueue holds of the children these Ralphs start.        *)
LEMMA LoopStepIsQueueStep == [LoopNext]_loopVars => [Next]_vars
<1> SUFFICES ASSUME LoopNext
             PROVE  [Next]_vars
  BY DEF loopVars, queue
<1>1. ASSUME NEW w \in Workers, Turn(w)
      PROVE  [Next]_vars
  <2>1. CASE Spawn(w)
    BY <2>1 DEF Spawn, RunOnce, Next
  <2>2. CASE Inside(w)
    BY <2>2 DEF Inside, RunOnce, Next
  <2>3. CASE Exits(w)
    BY <2>3 DEF Exits, RunOnce, Next
  <2>4. CASE LeaveOnBudget(w)
    BY <2>4 DEF LeaveOnBudget, queue
  <2> QED BY <1>1, <2>1, <2>2, <2>3, <2>4 DEF Turn
<1>2. ASSUME NEW w \in Workers, LeaveEarly(w) \/ SpawnFails(w) \/ Dying(w)
      PROVE  [Next]_vars
  BY <1>2 DEF LeaveEarly, SpawnFails, Dying, queue, Next
<1>3. ASSUME NEW h \in Handlers, Kill(h)
      PROVE  [Next]_vars
  BY <1>3 DEF Kill, Operator, Next
<1>4. CASE Elsewhere
  BY <1>4 DEF Elsewhere, Operator, Next
<1> QED BY <1>1, <1>2, <1>3, <1>4 DEF LoopNext

THEOREM LoopRunsTheQueue == LoopSpec => Spec
<1>1. LoopInit => Init
  BY DEF LoopInit
<1> QED BY <1>1, LoopStepIsQueueStep, PTL DEF LoopSpec, Spec

-----------------------------------------------------------------------------
(* An owner column that names a live slot names the slot that runs the     *)
(* task, and a request that has read a pid aims at a process that lives or *)
(* at nobody: what a dashboard kill ends is a child some Ralph waits for.  *)
Owned ==
  \A t \in Tasks : owner[t] \in Workers =>
    pc[owner[t]] = "dispatch" /\ job[owner[t]] = t /\ state[t] = "leased"

Aimed == \A h \in Handlers : req[h].target \in Workers => Live(req[h].target)

(* Rows are only released, and no child ends.                              *)
LEMMA OwnedWhileAllRun ==
  ASSUME TypeOK, Owned, Aimed, UNCHANGED <<job, req>>,
         \A v \in Workers : /\ pc[v] = "dispatch" => pc'[v] = "dispatch"
                            /\ Live(v) => Live(v)',
         \A t \in Tasks : \/ owner'[t] = NoOwner
                          \/ owner'[t] = owner[t] /\ (state[t] = "leased" => state'[t] = "leased")
  PROVE  Owned' /\ Aimed'
<1>1. Owned'
  BY SentinelAssumption DEF Owned, TypeOK, SentinelAssumption
<1>2. Aimed'
  BY DEF Aimed
<1> QED BY <1>1, <1>2

LEMMA RetargetedAtGone ==
  ASSUME NEW r \in [kind : Kinds, task : Tasks, target : Owners,
                    prio : Int, step : {"write", "kill"}]
  PROVE  [r EXCEPT !.target = Gone].target = Gone
  OBVIOUS

(* The child of w ends, and no row names it any longer.                    *)
LEMMA OwnedWhenOneEnds ==
  ASSUME TypeOK, Owned, Aimed, NEW w \in Workers, NEW where, Retire(w, where),
         \A h \in Handlers : req'[h] = NoReq \/ req'[h] = Forget(w)[h],
         \A t \in Tasks : /\ owner'[t] # w
                          /\ \/ owner'[t] \in {NoOwner, Gone}
                             \/ owner'[t] = owner[t] /\ (state[t] = "leased" => state'[t] = "leased")
  PROVE  Owned' /\ Aimed'
<1> USE SentinelAssumption DEF SentinelAssumption
<1>1. \A v \in Workers \ {w} : pc'[v] = pc[v] /\ job'[v] = job[v]
  BY DEF Retire, TypeOK
<1>2. Owned'
  BY <1>1 DEF Owned, TypeOK
<1>3. ASSUME NEW h \in Handlers, NEW v \in Workers, req'[h].target = v
      PROVE  Live(v)'
  <2>1. req'[h] = Forget(w)[h]
    BY <1>3 DEF NoReq
  <2>2. req[h] \in Requests
    BY DEF TypeOK
  <2>3. req[h].target # w
    <3>1. CASE req[h].target = w
      <4>1. Forget(w)[h] = [req[h] EXCEPT !.target = Gone]
        BY <3>1 DEF Forget
      <4>2. req[h] # NoReq
        BY <3>1 DEF NoReq
      <4>3. req[h] \in [kind : Kinds, task : Tasks, target : Owners,
                        prio : Int, step : {"write", "kill"}]
        BY <2>2, <4>2 DEF Requests
      <4>4. [req[h] EXCEPT !.target = Gone].target = Gone
        BY <4>3, RetargetedAtGone
      <4> QED BY <1>3, <2>1, <4>1, <4>4
    <3> QED BY <3>1
  <2>4. req'[h].target = req[h].target
    BY <2>1, <2>3 DEF Forget
  <2> QED BY <1>1, <1>3, <2>3, <2>4 DEF Aimed, Live
<1> QED BY <1>2, <1>3 DEF Aimed

LEMMA OwnedStep ==
  ASSUME TypeOK, JobInv, Owned, Aimed, [Next]_vars
  PROVE  Owned' /\ Aimed'
<1> USE DEF table, process, bounds
<1>1. ASSUME NEW w \in Workers, NEW where, Retire(w, where), req' = Forget(w),
             UNCHANGED <<state, owner>>, pc[w] # "dispatch"
      PROVE  Owned' /\ Aimed'
  BY <1>1, OwnedWhenOneEnds DEF Owned
<1>2. ASSUME NEW w \in Workers, NEW where, NEW s, NEW T, Retire(w, where), req' = Forget(w),
             Release(T, s), job[w] \in T \/ state[job[w]] # "leased", job[w] \in Tasks
      PROVE  Owned' /\ Aimed'
  <2>1. \A t \in Tasks : owner'[t] # w
    BY <1>2, SentinelAssumption DEF Release, Owned, TypeOK, SentinelAssumption
  <2>2. \A t \in Tasks : owner'[t] = NoOwner \/ (owner'[t] = owner[t] /\ state'[t] = state[t])
    BY <1>2 DEF Release, TypeOK
  <2> QED BY <1>2, <2>1, <2>2, OwnedWhenOneEnds
<1>3. ASSUME NEW w \in Workers, NEW where, Killed(w, where),
             \A h \in Handlers : req'[h] = NoReq \/ req'[h] = Forget(w)[h]
      PROVE  Owned' /\ Aimed'
  <2>1. \A t \in Tasks : owner'[t] = Gone \/ (owner'[t] = owner[t] /\ owner[t] # w)
    BY <1>3 DEF Killed, TypeOK
  <2>2. \A t \in Tasks : owner'[t] # w /\ state'[t] = state[t]
    BY <1>3, <2>1, SentinelAssumption DEF Killed, SentinelAssumption
  <2> QED BY <1>3, <2>1, <2>2, OwnedWhenOneEnds DEF Killed
<1>4. ASSUME NEW w \in Workers, RunOnce(w)
      PROVE  Owned' /\ Aimed'
  <2>1. CASE ReclaimExpired(w)
    BY <2>1, OwnedWhileAllRun DEF ReclaimExpired, Goto, Release, Live, TypeOK
  <2>2. CASE ScanOwners(w)
    BY <2>2, OwnedWhileAllRun DEF ScanOwners, Goto, Live, TypeOK
  <2>3. CASE RequeueDead(w)
    BY <2>3, OwnedWhileAllRun DEF RequeueDead, Goto, Release, Live, TypeOK
  <2>4. CASE CheckWork(w)
    BY <2>4, <1>1, OwnedWhileAllRun DEF CheckWork, Goto, Live, TypeOK
  <2>5. CASE SandboxPhase(w)
    <3>1. Retire(w, "off") /\ req' = Forget(w) /\ pc[w] # "dispatch"
      BY <2>5 DEF SandboxPhase
    <3>2. \A t \in Tasks : owner'[t] = owner[t] /\ (state[t] = "leased" => state'[t] = "leased")
      BY <2>5 DEF SandboxPhase, EnqueueTasks, InState, TypeOK
    <3>3. \A t \in Tasks : owner[t] # w
      BY <3>1 DEF Owned
    <3> QED BY <3>1, <3>2, <3>3, OwnedWhenOneEnds
  <2>6. CASE LeaseNone(w)
    BY <2>6, OwnedWhileAllRun DEF LeaseNone, Goto, Live, TypeOK
  <2>7. ASSUME NEW t \in Tasks, LeaseTask(w, t)
        PROVE  Owned' /\ Aimed'
    <3>1. /\ owner' = [owner EXCEPT ![t] = w] /\ state' = [state EXCEPT ![t] = "leased"]
          /\ job' = [job EXCEPT ![w] = t] /\ pc' = [pc EXCEPT ![w] = "dispatch"]
          /\ pc[w] = "lease" /\ req' = req
      BY <2>7 DEF LeaseTask, Goto
    <3>2. Owned'
      BY <3>1 DEF Owned, TypeOK
    <3>3. Aimed'
      BY <3>1 DEF Aimed, Live, TypeOK
    <3> QED BY <3>2, <3>3
  <2>8. CASE Recount(w)
    BY <2>8, <1>1, OwnedWhileAllRun DEF Recount, Goto, Live, TypeOK
  <2>9. CASE StillWork(w)
    BY <2>9, <1>1 DEF StillWork
  <2>10. CASE /\ pc[w] = "dispatch"
              /\ \/ Succeed(w) \/ RejectKind(w) \/ InfraRetry(w) \/ InfraGiveUp(w)
                 \/ \E s \in {"failed_task", "blocked"} : Fail(w, s)
    <3>1. job[w] \in Tasks
      BY <2>10 DEF JobInv
    <3> QED BY <2>10, <3>1, <1>2
            DEF Succeed, RejectKind, InfraRetry, InfraGiveUp, Fail, Settle, CompleteTask,
                FailTask, RequeueTask, DeadletterTask, InState, Work
  <2> QED BY <1>4, <2>1, <2>2, <2>3, <2>4, <2>5, <2>6, <2>7, <2>8, <2>9, <2>10
          DEF RunOnce, Succeed, RejectKind, InfraRetry, InfraGiveUp, Fail
<1>5. ASSUME NEW w \in Workers, Timeout(w) \/ Crash(w)
      PROVE  Owned' /\ Aimed'
  BY <1>5, <1>3 DEF Timeout, Crash, Dies
<1>6. ASSUME NEW w \in Workers, NEW t \in Tasks, EnqueueChild(w, t)
      PROVE  Owned' /\ Aimed'
  BY <1>6, OwnedWhileAllRun DEF EnqueueChild, EnqueueTasks, InState, Live, TypeOK
<1>7. ASSUME NEW h \in Handlers, Operator(h)
      PROVE  Owned' /\ Aimed'
  <2>1. ASSUME NEW k \in Kinds, NEW t \in Tasks, ReadRow(h, k, t)
        PROVE  Owned' /\ Aimed'
    <3>1. Owned'
      BY <2>1 DEF ReadRow, Owned
    <3>2. \A g \in Handlers : req'[g] = req[g] \/ req'[g].target = owner[t]
      BY <2>1 DEF ReadRow, TypeOK
    <3>3. Aimed'
      BY <2>1, <3>2 DEF ReadRow, Aimed, Owned, Live
    <3> QED BY <3>1, <3>3
  <2>2. CASE WriteRow(h)
    <3>1. Owned'
      BY <2>2, SentinelAssumption DEF WriteRow, Release, Owned, TypeOK, SentinelAssumption
    <3>2. \A g \in Handlers : req'[g].target \in {NoOwner, req[g].target}
      BY <2>2 DEF WriteRow, NoReq, TypeOK
    <3>3. Aimed'
      BY <2>2, <3>2, SentinelAssumption DEF WriteRow, Aimed, Live, SentinelAssumption
    <3> QED BY <3>1, <3>3
  <2>3. CASE KillOwner(h)
    <3>1. CASE req[h].target \in Workers
      <4>1. \A g \in Handlers : req'[g] = NoReq \/ req'[g] = Forget(req[h].target)[g]
        BY <2>3, <3>1 DEF KillOwner, Forget
      <4> QED BY <2>3, <3>1, <4>1, <1>3 DEF KillOwner
    <3>2. CASE req[h].target \notin Workers
      <4>1. \A g \in Handlers : req'[g].target \in {NoOwner, req[g].target}
        BY <2>3, <3>2 DEF KillOwner, NoReq, TypeOK
      <4> QED BY <2>3, <3>2, <4>1, SentinelAssumption
              DEF KillOwner, Owned, Aimed, Live, SentinelAssumption
    <3> QED BY <3>1, <3>2
  <2> QED BY <1>7, <2>1, <2>2, <2>3 DEF Operator
<1>8. ASSUME NEW t \in Tasks, Expire(t) \/ OperatorEnqueue(t)
      PROVE  Owned' /\ Aimed'
  BY <1>8, OwnedWhileAllRun DEF Expire, OperatorEnqueue, EnqueueTasks, InState, Live, TypeOK
<1>9. CASE UNCHANGED vars
  BY <1>9 DEF vars, Owned, Aimed, Live
<1> QED BY <1>4, <1>5, <1>6, <1>7, <1>8, <1>9 DEF Next

(* Along every run, rows and requests name live children only.             *)
LEMMA OwnedAlways == Spec => [](TypeOK /\ JobInv /\ Owned /\ Aimed)
<1>1. Init => Owned /\ Aimed
  BY SentinelAssumption DEF Init, Owned, Aimed, NoReq, SentinelAssumption
<1>2. TypeOK /\ JobInv /\ Owned /\ Aimed /\ [Next]_vars => Owned' /\ Aimed'
  BY OwnedStep
<1> QED BY <1>1, <1>2, JobInvariant, PTL DEF Spec

-----------------------------------------------------------------------------
(* What a queue step of w does to the children of the other Ralphs.        *)
LEMMA OthersKeepTheirChild ==
  ASSUME TypeOK, NEW w \in Workers, NEW where,
         Retire(w, where) \/ (\E from, to : Goto(w, from, to)),
         NEW v \in Workers \ {w}
  PROVE  pc'[v] = pc[v]
  BY DEF TypeOK, Retire, Goto

LEMMA LoopTypeStep ==
  ASSUME TypeOK, TypeOK', JobInv, Aimed, LoopTypeOK, [LoopNext]_loopVars
  PROVE  LoopTypeOK'
<1> USE DEF LoopTypeOK, TypeOK, LoopAssumption, Live
<1> USE LoopAssumption
<1>1. ASSUME UNCHANGED <<counters, spawnFailures>>,
             \A w \in Workers : Live(w)' => Live(w)
      PROVE  LoopTypeOK'
  BY <1>1 DEF counters
<1>2. ASSUME NEW w \in Workers, Live(w), NEW where \in {"off", "idle", "halted"}, Retire(w, where),
             ExitBusy(w) \/ ExitProgress(w) \/ ExitFor(w, "idle") \/ ExitFor(w, "config")
               \/ \E failed \in SUBSET (Tasks \X Nat) : ExitInfra(w, failed),
             spawnFailures' \in Nat
      PROVE  LoopTypeOK'
  <2>1. charged[w] + 1 \in 0..MaxIterations
    BY <1>2
  <2>2. ~Live(w)' /\ \A v \in Workers \ {w} : pc'[v] = pc[v]
    BY <1>2, OthersKeepTheirChild DEF Retire
  <2>3. CASE ExitBusy(w)
    BY <1>2, <2>2, <2>3 DEF ExitBusy
  <2>4. CASE ExitProgress(w)
    BY <1>2, <2>1, <2>2, <2>4 DEF ExitProgress, Charge
  <2>5. ASSUME NEW out \in {"idle", "config"}, ExitFor(w, out)
        PROVE  LoopTypeOK'
    BY <1>2, <2>1, <2>2, <2>5 DEF ExitFor, Charge, Places
  <2>6. ASSUME NEW failed \in SUBSET (Tasks \X Nat), ExitInfra(w, failed)
        PROVE  LoopTypeOK'
    BY <1>2, <2>1, <2>2, <2>6 DEF ExitInfra, Charge, Places
  <2> QED BY <1>2, <2>3, <2>4, <2>5, <2>6
<1>3. ASSUME NEW w \in Workers, Turn(w)
      PROVE  LoopTypeOK'
  <2>1. CASE Spawn(w)
    <3>1. \A v \in Workers \ {w} : pc'[v] = pc[v]
      BY <2>1, OthersKeepTheirChild DEF Spawn, ReclaimExpired
    <3> QED BY <2>1, <3>1 DEF Spawn, AtHead, WithinBudget, counters
  <2>2. CASE Inside(w)
    <3>1. Live(w) /\ \A v \in Workers \ {w} : pc'[v] = pc[v]
      BY <2>2 DEF Inside, ScanOwners, RequeueDead, LeaseNone, LeaseTask, CheckWork, Recount,
                  Goto, Retire
    <3> QED BY <1>1, <2>2, <3>1 DEF Inside
  <2>3. CASE Exits(w)
    <3>1. CASE (CheckWork(w) \/ Recount(w) \/ StillWork(w)) /\ pc'[w] = "idle" /\ ExitFor(w, "idle")
      <4>1. Live(w) /\ Retire(w, "idle")
        BY <3>1 DEF CheckWork, Recount, StillWork, Goto, Retire
      <4> QED BY <1>2, <2>3, <3>1, <4>1 DEF Exits
    <3>5. CASE StillWork(w) /\ pc'[w] = "off" /\ ExitBusy(w)
      <4>1. Live(w) /\ Retire(w, "off")
        BY <3>5 DEF StillWork, Retire
      <4> QED BY <1>2, <2>3, <3>5, <4>1 DEF Exits
    <3>2. CASE /\ SandboxPhase(w) \/ Succeed(w) \/ InfraGiveUp(w)
                  \/ \E s \in {"failed_task", "blocked"} : Fail(w, s)
               /\ ExitProgress(w)
      <4>1. Live(w) /\ Retire(w, "off")
        BY <3>2 DEF SandboxPhase, Succeed, InfraGiveUp, Fail, Settle
      <4> QED BY <1>2, <2>3, <3>2, <4>1 DEF Exits
    <3>3. CASE InfraRetry(w) /\ ExitInfra(w, {<<job[w], jobAttempt[w]>>})
      <4>1. Live(w) /\ Retire(w, "off") /\ jobAttempt[w] \in Nat
        BY <3>3 DEF InfraRetry, Settle
      <4>2. job[w] \in Tasks
        BY <3>3 DEF InfraRetry, JobInv
      <4> QED BY <1>2, <2>3, <3>3, <4>1, <4>2 DEF Exits
    <3>4. CASE RejectKind(w) /\ ExitFor(w, "config")
      <4>1. Live(w) /\ Retire(w, "halted")
        BY <3>4 DEF RejectKind, Settle
      <4> QED BY <1>2, <2>3, <3>4, <4>1 DEF Exits
    <3> QED BY <2>3, <3>1, <3>2, <3>3, <3>4, <3>5 DEF Exits
  <2>4. CASE LeaveOnBudget(w)
    BY <2>4 DEF LeaveOnBudget, queue, vars, process, Places, AtHead
  <2> QED BY <1>3, <2>1, <2>2, <2>3, <2>4 DEF Turn
<1>4. ASSUME NEW w \in Workers, LeaveEarly(w)
      PROVE  LoopTypeOK'
  BY <1>4 DEF LeaveEarly, queue, vars, process, Places, AtHead
<1>5. ASSUME NEW w \in Workers, SpawnFails(w)
      PROVE  LoopTypeOK'
  <2>1. ~Live(w) /\ UNCHANGED pc /\ spawnFailures' \in Nat /\ charged[w] + 1 \in 0..MaxIterations
    BY <1>5 DEF SpawnFails, AtHead, WithinBudget, queue, vars, process
  <2>2. CASE ExitInfra(w, {})
    BY <2>1, <2>2 DEF ExitInfra, Charge, Places
  <2>3. CASE ExitFor(w, "config")
    BY <2>1, <2>3 DEF ExitFor, Charge, Places
  <2> QED BY <1>5, <2>2, <2>3 DEF SpawnFails
<1>6. ASSUME NEW w \in Workers, Dying(w)
      PROVE  LoopTypeOK'
  BY <1>6, <1>2 DEF Dying, Timeout, Crash, Dies, Killed
<1>7. ASSUME NEW h \in Handlers, Kill(h)
      PROVE  LoopTypeOK'
  <2>1. CASE req[h].target \in Workers
    <3>1. Live(req[h].target) /\ Retire(req[h].target, "halted")
      BY <1>7, <2>1 DEF Kill, KillOwner, Killed, Aimed
    <3> QED BY <1>2, <1>7, <2>1, <3>1 DEF Kill
  <2>2. CASE req[h].target \notin Workers
    BY <1>7, <2>2, <1>1 DEF Kill, KillOwner, process
  <2> QED BY <2>1, <2>2
<1>8. CASE Elsewhere
  BY <1>8, <1>1 DEF Elsewhere, EnqueueChild, WriteRow, ReadRow, Expire, OperatorEnqueue, process
<1>9. CASE UNCHANGED loopVars
  BY <1>9, <1>1 DEF loopVars, queue, vars, process
<1> QED BY <1>3, <1>4, <1>5, <1>6, <1>7, <1>8, <1>9 DEF LoopNext

LEMMA LoopInherits == LoopSpec => [](TypeOK /\ JobInv /\ Owned /\ Aimed)
  BY LoopRunsTheQueue, OwnedAlways, PTL

(* No loop is charged beyond --max-iterations, and a Ralph that has left   *)
(* has no child.                                                           *)
THEOREM LoopTypeCorrect == LoopSpec => []LoopTypeOK
<1>1. LoopInit => LoopTypeOK
  BY LoopAssumption DEF LoopInit, Init, LoopTypeOK, Places, Live, LoopAssumption
<1>2. TypeOK /\ JobInv /\ Aimed /\ TypeOK' /\ LoopTypeOK /\ [LoopNext]_loopVars => LoopTypeOK'
  BY LoopTypeStep
<1> QED BY <1>1, <1>2, LoopInherits, PTL DEF LoopSpec

-----------------------------------------------------------------------------
(* How a step may change the streak of Ralph w.                            *)
Unmoved(w) == streak'[w] = streak[w] /\ spent'[w] = spent[w]
                /\ (place'[w] = "infra" => place[w] = "infra")
Reset(w)   == streak'[w] = 0 /\ spent'[w] = {} /\ place'[w] = "looping"
Struck(w)  == streak'[w] = streak[w] + 1 /\ (place'[w] = "infra" => streak'[w] >= MaxInfra)

Faults == timeouts + spawnFailures

LEMMA StreakStep ==
  ASSUME TypeOK, JobInv, Aimed, LoopTypeOK, [LoopNext]_loopVars, NEW w \in Workers
  PROVE  \/ (Unmoved(w) \/ Reset(w)) /\ Faults' \in {Faults, Faults + 1}
         \/ Struck(w) /\ Faults' = Faults + 1 /\ spent'[w] = spent[w]
         \/ /\ Struck(w) /\ Faults' = Faults
            /\ InfraRetry(w) /\ spent'[w] = spent[w] \union {<<job[w], jobAttempt[w]>>}
<1> USE DEF LoopTypeOK, TypeOK, bounds, Faults
<1> USE LoopAssumption DEF LoopAssumption
<1>1. ASSUME UNCHANGED <<counters, spawnFailures>>, timeouts' \in {timeouts, timeouts + 1}
      PROVE  Unmoved(w) /\ Faults' \in {Faults, Faults + 1}
  <2>1. UNCHANGED <<place, streak, spent, spawnFailures>>
    BY <1>1 DEF counters
  <2>2. spawnFailures \in Nat /\ timeouts \in Nat /\ (timeouts' = timeouts \/ timeouts' = timeouts + 1)
    BY <1>1
  <2>3. Faults' \in {Faults, Faults + 1}
    BY <2>1, <2>2
  <2> QED BY <2>1, <2>3 DEF Unmoved
<1>2. ASSUME NEW v \in Workers, Live(v), UNCHANGED <<timeouts, spawnFailures>>,
             ExitBusy(v) \/ ExitProgress(v) \/ ExitFor(v, "idle") \/ ExitFor(v, "config")
      PROVE  (Unmoved(w) \/ Reset(w)) /\ Faults' \in {Faults, Faults + 1}
  <2>1. CASE v = w
    BY <1>2, <2>1 DEF ExitBusy, ExitProgress, ExitFor, Unmoved, Reset
  <2>2. CASE v # w
    BY <1>2, <2>2 DEF ExitBusy, ExitProgress, ExitFor, Unmoved
  <2> QED BY <2>1, <2>2
<1>3. ASSUME NEW v \in Workers \ {w}, NEW failed, ExitInfra(v, failed)
      PROVE  Unmoved(w)
  BY <1>3 DEF ExitInfra, Unmoved
<1>4. ASSUME NEW failed, ExitInfra(w, failed), place[w] = "looping"
      PROVE  Struck(w) /\ spent'[w] = spent[w] \union failed
  BY <1>4 DEF ExitInfra, Struck
<1>5. ASSUME NEW v \in Workers, Turn(v)
      PROVE  \/ (Unmoved(w) \/ Reset(w)) /\ Faults' \in {Faults, Faults + 1}
             \/ /\ Struck(w) /\ Faults' = Faults
                /\ InfraRetry(w) /\ spent'[w] = spent[w] \union {<<job[w], jobAttempt[w]>>}
  <2>1. CASE Spawn(v)
    BY <2>1, <1>1 DEF Spawn, ReclaimExpired
  <2>2. CASE Inside(v)
    BY <2>2, <1>1 DEF Inside, ScanOwners, RequeueDead, LeaseNone, LeaseTask, CheckWork, Recount
  <2>3. CASE Exits(v) /\ ~InfraRetry(v)
    <3>1. Live(v) /\ UNCHANGED timeouts
      BY <2>3 DEF Exits, CheckWork, Recount, StillWork, SandboxPhase, Succeed, Fail, RejectKind,
                  InfraGiveUp, Settle, Live
    <3> QED BY <2>3, <3>1, <1>2 DEF Exits
  <2>4. CASE InfraRetry(v) /\ ExitInfra(v, {<<job[v], jobAttempt[v]>>}) /\ UNCHANGED spawnFailures
    <3>1. Live(v) /\ UNCHANGED timeouts
      BY <2>4 DEF InfraRetry, Settle, Live
    <3> QED BY <2>4, <3>1, <1>3, <1>4
  <2>5. CASE LeaveOnBudget(v)
    BY <2>5 DEF LeaveOnBudget, queue, vars, Unmoved, AtHead
  <2>6. CASE Exits(v) /\ InfraRetry(v)
    <3>1. Live(v) /\ UNCHANGED timeouts
      BY <2>6 DEF InfraRetry, Settle, Live
    <3> QED BY <2>6, <2>4, <3>1, <1>2 DEF Exits
  <2> QED BY <1>5, <2>1, <2>2, <2>3, <2>5, <2>6 DEF Turn
<1>6. ASSUME NEW v \in Workers, LeaveEarly(v)
      PROVE  Unmoved(w) /\ Faults' \in {Faults, Faults + 1}
  BY <1>6 DEF LeaveEarly, queue, vars, Unmoved, AtHead
<1>7. ASSUME NEW v \in Workers, SpawnFails(v) \/ Dying(v)
      PROVE  \/ Unmoved(w) /\ Faults' \in {Faults, Faults + 1}
             \/ Struck(w) /\ Faults' = Faults + 1 /\ spent'[w] = spent[w]
  <2>1. Faults' = Faults + 1 /\ place[v] = "looping"
    BY <1>7 DEF SpawnFails, Dying, Timeout, Crash, Dies, AtHead, queue, vars, Live
  <2>2. ExitInfra(v, {}) \/ ExitFor(v, "config")
    BY <1>7 DEF SpawnFails, Dying
  <2>3. CASE ExitFor(v, "config")
    BY <2>1, <2>3 DEF ExitFor, Unmoved
  <2>4. CASE ExitInfra(v, {})
    <3>1. CASE v = w
      <4>1. Struck(w) /\ spent'[w] = spent[w] \union {}
        BY <2>1, <2>4, <3>1, <1>4
      <4> QED BY <2>1, <4>1
    <3>2. CASE v # w
      BY <2>1, <2>4, <3>2, <1>3
    <3> QED BY <3>1, <3>2
  <2> QED BY <2>2, <2>3, <2>4
<1>8. ASSUME NEW h \in Handlers, Kill(h)
      PROVE  (Unmoved(w) \/ Reset(w)) /\ Faults' \in {Faults, Faults + 1}
  <2>1. CASE req[h].target \in Workers
    BY <1>8, <2>1, <1>2 DEF Kill, KillOwner, Aimed
  <2>2. CASE req[h].target \notin Workers
    BY <1>8, <2>2, <1>1 DEF Kill, KillOwner
  <2> QED BY <2>1, <2>2
<1>9. CASE Elsewhere
  BY <1>9, <1>1 DEF Elsewhere, EnqueueChild, WriteRow, ReadRow, Expire, OperatorEnqueue
<1>10. CASE UNCHANGED loopVars
  BY <1>10, <1>1 DEF loopVars, queue, vars
<1> QED BY <1>5, <1>6, <1>7, <1>8, <1>9, <1>10 DEF LoopNext

(* Attempt numbers are handed out once: no two children hold the same      *)
(* number of a task, none holds one that a streak has spent, and what is   *)
(* spent lies below the attempt cap.                                       *)
Numbered ==
  /\ \A v, w \in Workers : job[v] \in Tasks =>
       /\ jobAttempt[v] <= attempt[job[v]]
       /\ v # w /\ job[w] = job[v] => jobAttempt[w] # jobAttempt[v]
       /\ <<job[v], jobAttempt[v]>> \notin spent[w]
  /\ \A w \in Workers : \A f \in spent[w] :
       f[2] <= attempt[f[1]] /\ f[2] \in 1..(MaxAttempts - 1)

LEMMA NumberedStep ==
  ASSUME TypeOK, JobInv, Aimed, LoopTypeOK, LoopTypeOK', TypeOK', Numbered, [LoopNext]_loopVars
  PROVE  Numbered'
<1> USE SentinelAssumption DEF SentinelAssumption
<1>1. \A w \in Workers :
        \/ spent'[w] \subseteq spent[w]
        \/ InfraRetry(w) /\ spent'[w] = spent[w] \union {<<job[w], jobAttempt[w]>>}
  BY StreakStep DEF Unmoved, Reset
<1>2. [Next]_vars
  BY LoopStepIsQueueStep
<1>3. ASSUME NEW u \in Workers, NEW t \in Tasks, LeaseTask(u, t)
      PROVE  Numbered'
  <2>1. /\ attempt' = [attempt EXCEPT ![t] = attempt[t] + 1]
        /\ job' = [job EXCEPT ![u] = t]
        /\ jobAttempt' = [jobAttempt EXCEPT ![u] = attempt[t] + 1]
        /\ pc'[u] = "dispatch"
    BY <1>3 DEF LeaseTask, Goto, TypeOK
  <2>2. \A w \in Workers : spent'[w] \subseteq spent[w]
    BY <1>1, <2>1 DEF InfraRetry, Settle, TypeOK
  <2>3. \A x \in Tasks : attempt[x] \in Nat /\ attempt'[x] \in Nat /\ attempt[x] <= attempt'[x]
    BY <2>1 DEF TypeOK
  <2> QED BY <2>1, <2>2, <2>3 DEF Numbered, TypeOK, LoopTypeOK
<1>4. ASSUME NEW u \in Workers, InfraRetry(u)
      PROVE  Numbered'
  <2>1. /\ attempt' = attempt /\ job' = [job EXCEPT ![u] = NoTask]
        /\ jobAttempt' = [jobAttempt EXCEPT ![u] = 0]
    BY <1>4 DEF InfraRetry, Settle, Retire
  <2>2. job[u] \in Tasks /\ jobAttempt[u] \in 1..(MaxAttempts - 1) /\ jobAttempt[u] <= attempt[job[u]]
    <3>1. job[u] \in Tasks
      BY <1>4 DEF InfraRetry, JobInv
    <3>2. jobAttempt[u] \in Nat /\ jobAttempt[u] >= 1 /\ jobAttempt[u] < MaxAttempts
      BY <1>4, <3>1 DEF InfraRetry, JobInv, TypeOK
    <3>3. jobAttempt[u] <= attempt[job[u]]
      BY <3>1 DEF Numbered
    <3> QED BY <3>1, <3>2, <3>3, CapAssumption DEF CapAssumption
  <2>3. \A v \in Workers : job'[v] \in Tasks =>
          v # u /\ job'[v] = job[v] /\ jobAttempt'[v] = jobAttempt[v]
    BY <2>1 DEF TypeOK
  <2>4. \A w \in Workers : spent'[w] \subseteq spent[w] \union {<<job[u], jobAttempt[u]>>}
    <3>1. ASSUME NEW w \in Workers \ {u}
          PROVE  ~InfraRetry(w)
      BY <1>4, <2>1 DEF InfraRetry, Settle, Retire, TypeOK, JobInv
    <3> QED BY <1>1, <3>1
  <2>5. ASSUME NEW v \in Workers, NEW w \in Workers, job'[v] \in Tasks
        PROVE  /\ jobAttempt'[v] <= attempt'[job'[v]]
               /\ v # w /\ job'[w] = job'[v] => jobAttempt'[w] # jobAttempt'[v]
               /\ <<job'[v], jobAttempt'[v]>> \notin spent'[w]
    BY <2>1, <2>2, <2>3, <2>4, <2>5 DEF Numbered
  <2>6. ASSUME NEW w \in Workers, NEW f \in spent'[w]
        PROVE  f[2] <= attempt'[f[1]] /\ f[2] \in 1..(MaxAttempts - 1)
    BY <2>1, <2>2, <2>4, <2>6 DEF Numbered
  <2> QED BY <2>5, <2>6 DEF Numbered
<1>5. CASE JobsOnlyEnd /\ \A w \in Workers : ~InfraRetry(w)
  BY <1>1, <1>5 DEF JobsOnlyEnd, Numbered
<1> QED BY <1>2, <1>3, <1>4, <1>5, OnlyLeaseStartsJobs

(* The streak of a Ralph is made of faults and spent attempts only.        *)
Streaked ==
  \A w \in Workers :
    /\ IsFiniteSet(spent[w])
    /\ streak[w] <= Faults + Cardinality(spent[w])
    /\ place[w] = "infra" => MaxInfra <= streak[w]

LEMMA StreakedStep ==
  ASSUME TypeOK, JobInv, Aimed, LoopTypeOK, Numbered, Streaked, [LoopNext]_loopVars
  PROVE  Streaked'
<1> SUFFICES ASSUME NEW w \in Workers
             PROVE  /\ IsFiniteSet(spent'[w])
                    /\ streak'[w] <= Faults' + Cardinality(spent'[w])
                    /\ place'[w] = "infra" => MaxInfra <= streak'[w]
  BY DEF Streaked, Faults
<1>1. /\ streak[w] \in Nat /\ MaxInfra \in Nat
      /\ IsFiniteSet(spent[w]) /\ Cardinality(spent[w]) \in Nat
      /\ streak[w] <= Faults + Cardinality(spent[w])
      /\ place[w] = "infra" => MaxInfra <= streak[w]
  <2>1. streak[w] \in Nat /\ MaxInfra \in Nat
    BY LoopAssumption DEF LoopTypeOK, LoopAssumption
  <2>2. IsFiniteSet(spent[w]) /\ Cardinality(spent[w]) \in Nat
    BY FS_CardinalityType DEF Streaked
  <2>3. /\ streak[w] <= Faults + Cardinality(spent[w])
        /\ place[w] = "infra" => MaxInfra <= streak[w]
    BY DEF Streaked
  <2> QED BY <2>1, <2>2, <2>3
<1>2. timeouts \in Nat /\ spawnFailures \in Nat
  BY DEF TypeOK, LoopTypeOK
<1>3. Faults \in Nat
  BY <1>2 DEF Faults
<1>4. CASE Unmoved(w) /\ Faults' \in {Faults, Faults + 1}
  BY <1>1, <1>2, <1>3, <1>4 DEF Unmoved
<1>5. CASE Reset(w) /\ Faults' \in {Faults, Faults + 1}
  BY <1>1, <1>2, <1>3, <1>5, FS_EmptySet DEF Reset
<1>6. CASE Struck(w) /\ Faults' = Faults + 1 /\ spent'[w] = spent[w]
  BY <1>1, <1>2, <1>3, <1>6 DEF Struck
<1>7. CASE /\ Struck(w) /\ Faults' = Faults /\ InfraRetry(w)
           /\ spent'[w] = spent[w] \union {<<job[w], jobAttempt[w]>>}
  <2>1. <<job[w], jobAttempt[w]>> \notin spent[w]
    BY <1>7 DEF InfraRetry, JobInv, Numbered
  <2> DEFINE S == spent[w]
             x == <<job[w], jobAttempt[w]>>
  <2>2. IsFiniteSet(S) /\ x \notin S
    BY <1>1, <2>1
  <2> HIDE DEF S, x
  <2>3. IsFiniteSet(S \union {x}) /\ Cardinality(S \union {x}) = Cardinality(S) + 1
    BY <2>2, FS_AddElement
  <2>4. spent'[w] = S \union {x}
    BY <1>7 DEF S, x
  <2>5. IsFiniteSet(spent'[w]) /\ Cardinality(spent'[w]) = Cardinality(spent[w]) + 1
    BY <2>3, <2>4 DEF S
  <2> QED BY <1>1, <1>2, <1>3, <1>7, <2>5 DEF Struck
<1> QED BY <1>4, <1>5, <1>6, <1>7, StreakStep

(* Pairs of a task and one of N numbers.                                   *)
LEMMA PairsBounded ==
  ASSUME NEW S, NEW A, IsFiniteSet(A), NEW N \in Nat, S \subseteq A \X (1..N)
  PROVE  Cardinality(S) <= Cardinality({f[1] : f \in S}) * N
<1> DEFINE T == {f[1] : f \in S}
<1>1. IsFiniteSet(T)
  <2>1. T \subseteq A
    OBVIOUS
  <2> QED BY <2>1, FS_Subset
<1>2. IsFiniteSet(1..N) /\ Cardinality(1..N) = N
  BY FS_Interval
<1>3. IsFiniteSet(T \X (1..N)) /\ Cardinality(T \X (1..N)) = Cardinality(T) * N
  BY <1>1, <1>2, FS_Product
<1>4. S \subseteq T \X (1..N)
  OBVIOUS
<1> QED BY <1>3, <1>4, FS_Subset

(* A Ralph gives up only for cause: see GiveUpExplained.                   *)
THEOREM GivesUpForCause == LoopSpec => []GiveUpExplained
<1>1. LoopInit => Numbered /\ Streaked
  <2> SUFFICES ASSUME LoopInit
               PROVE  Numbered /\ Streaked
    OBVIOUS
  <2>1. Numbered
    BY SentinelAssumption DEF LoopInit, Init, Numbered, SentinelAssumption
  <2>2. Streaked
    BY FS_EmptySet DEF LoopInit, Init, Streaked, Faults
  <2> QED BY <2>1, <2>2
<1>2. TypeOK /\ JobInv /\ Aimed /\ LoopTypeOK /\ TypeOK' /\ LoopTypeOK' /\ Numbered /\ Streaked
        /\ [LoopNext]_loopVars => (Numbered /\ Streaked)'
  BY NumberedStep, StreakedStep
<1>3. TypeOK /\ LoopTypeOK /\ Numbered /\ Streaked => GiveUpExplained
  <2> SUFFICES ASSUME TypeOK, LoopTypeOK, Numbered, Streaked, NEW w \in Workers, place[w] = "infra"
               PROVE  MaxInfra <= timeouts + spawnFailures
                                    + Cardinality(FailedIn(w)) * (MaxAttempts - 1)
    BY DEF GiveUpExplained
  <2>1. spent[w] \subseteq Tasks \X (1..(MaxAttempts - 1)) /\ MaxAttempts - 1 \in Nat
    <3>1. spent[w] \subseteq Tasks \X Nat /\ \A f \in spent[w] : f[2] \in 1..(MaxAttempts - 1)
      BY DEF LoopTypeOK, Numbered
    <3> QED BY <3>1, CapAssumption DEF CapAssumption
  <2>2. Cardinality(spent[w]) <= Cardinality(FailedIn(w)) * (MaxAttempts - 1)
    <3>1. IsFiniteSet(Tasks)
      BY TasksAssumption DEF TasksAssumption
    <3>2. Cardinality(spent[w]) <= Cardinality({f[1] : f \in spent[w]}) * (MaxAttempts - 1)
      BY <2>1, <3>1, PairsBounded
    <3> QED BY <3>2 DEF FailedIn
  <2>3. FailedIn(w) \subseteq Tasks
    BY <2>1 DEF FailedIn
  <2>4. Cardinality(FailedIn(w)) \in Nat /\ Cardinality(spent[w]) \in Nat
    <3>1. IsFiniteSet(FailedIn(w))
      BY <2>3, TasksAssumption, FS_Subset DEF TasksAssumption
    <3>2. IsFiniteSet(spent[w])
      BY DEF Streaked
    <3> QED BY <3>1, <3>2, FS_CardinalityType
  <2>5. Cardinality(FailedIn(w)) * (MaxAttempts - 1) \in Nat
    BY <2>1, <2>4
  <2>6. /\ streak[w] \in Nat /\ timeouts \in Nat /\ spawnFailures \in Nat /\ MaxInfra \in Nat
        /\ streak[w] <= timeouts + spawnFailures + Cardinality(spent[w])
        /\ MaxInfra <= streak[w]
    BY LoopAssumption DEF TypeOK, LoopTypeOK, Streaked, Faults, LoopAssumption
  <2> QED BY <2>2, <2>4, <2>5, <2>6
<1> QED BY <1>1, <1>2, <1>3, LoopInherits, LoopTypeCorrect, PTL DEF LoopSpec

-----------------------------------------------------------------------------
(* Sums.  The sum of f is the number of cells in a table with a row of     *)
(* f[x] cells for each x.                                                  *)
Cells(f) == UNION {{x} \X (1..f[x]) : x \in DOMAIN f}
Total(f) == Cardinality(Cells(f))

LEMMA CellsFinite ==
  ASSUME NEW S, IsFiniteSet(S), NEW f \in [S -> Nat]
  PROVE  IsFiniteSet(Cells(f)) /\ Total(f) \in Nat
<1> DEFINE Row(x) == {x} \X (1..f[x])
           Rows   == {Row(x) : x \in S}
           g      == [x \in S |-> Row(x)]
<1>1. \A x \in S : IsFiniteSet(Row(x))
  <2> TAKE x \in S
  <2>1. IsFiniteSet({x})
    BY FS_Singleton
  <2>2. IsFiniteSet(1..f[x])
    <3>1. f[x] \in Nat /\ 1 \in Int
      OBVIOUS
    <3>2. f[x] \in Int
      BY <3>1
    <3> QED BY <3>1, <3>2, FS_Interval
  <2> QED BY <2>1, <2>2, FS_Product
<1>2. IsFiniteSet(Rows)
  <2>1. g \in Surjection(S, Rows)
    BY DEF Surjection
  <2> QED BY <2>1, FS_Surjection
<1>3. \A R \in Rows : IsFiniteSet(R)
  BY <1>1
<1>4. Cells(f) = UNION Rows
  BY DEF Cells
<1>5. IsFiniteSet(Cells(f))
  <2> HIDE DEF Rows
  <2> QED BY <1>2, <1>3, <1>4, FS_UNION
<1> QED BY <1>5, FS_CardinalityType DEF Total

(* One value goes up by one.                                               *)
LEMMA TotalUp ==
  ASSUME NEW S, IsFiniteSet(S), NEW f \in [S -> Nat], NEW x \in S,
         NEW g, g = [f EXCEPT ![x] = f[x] + 1]
  PROVE  Total(g) = Total(f) + 1
<1> DEFINE c == <<x, f[x] + 1>>
<1>1. f[x] \in Nat /\ DOMAIN f = S /\ DOMAIN g = S /\ g[x] = f[x] + 1
      /\ \A y \in S \ {x} : g[y] = f[y]
  OBVIOUS
<1>2. \A h, y, n : <<y, n>> \in Cells(h) <=> y \in DOMAIN h /\ n \in 1..h[y]
  BY DEF Cells
<1>3. \A h : \A d \in Cells(h) : d = <<d[1], d[2]>>
  BY DEF Cells
<1>4. c \notin Cells(f)
  <2>1. f[x] + 1 \notin 1..f[x]
    BY <1>1
  <2> QED BY <1>2, <2>1
<1>5. Cells(g) = Cells(f) \union {c}
  <2>1. ASSUME NEW y, NEW n
        PROVE  <<y, n>> \in Cells(g) <=> <<y, n>> \in Cells(f) \/ (y = x /\ n = f[x] + 1)
    <3>1. n \in 1..(f[x] + 1) <=> n \in 1..f[x] \/ n = f[x] + 1
      BY <1>1
    <3>2. /\ <<y, n>> \in Cells(g) <=> y \in S /\ n \in 1..g[y]
          /\ <<y, n>> \in Cells(f) <=> y \in S /\ n \in 1..f[y]
      BY <1>1, <1>2
    <3>3. CASE y = x
      BY <1>1, <3>1, <3>2, <3>3
    <3>4. CASE y # x
      BY <1>1, <3>2, <3>4
    <3> QED BY <3>3, <3>4
  <2>2. \A d \in Cells(g) : d \in Cells(f) \/ d = c
    <3> TAKE d \in Cells(g)
    <3>1. d = <<d[1], d[2]>>
      BY <1>3
    <3>2. <<d[1], d[2]>> \in Cells(f) \/ (d[1] = x /\ d[2] = f[x] + 1)
      BY <2>1, <3>1
    <3> QED BY <3>1, <3>2
  <2>3. c \in Cells(g)
    BY <2>1
  <2>4. \A d \in Cells(f) : d \in Cells(g)
    <3> TAKE d \in Cells(f)
    <3>1. d = <<d[1], d[2]>>
      BY <1>3
    <3> QED BY <2>1, <3>1
  <2> HIDE DEF c
  <2> QED BY <2>2, <2>3, <2>4
<1>6. IsFiniteSet(Cells(f)) /\ Total(f) \in Nat
  BY CellsFinite
<1> HIDE DEF c
<1>7. Cardinality(Cells(f) \union {c}) = Cardinality(Cells(f)) + 1
  BY <1>4, <1>6, FS_AddElement
<1> QED BY <1>5, <1>7 DEF Total

-----------------------------------------------------------------------------
(* What backs a charge of Ralph w: the lease its child had, a fault, a     *)
(* sandbox task that is there now, or the end of the loop.                 *)
Paid(w) ==
  \/ job[w] \in Tasks /\ job'[w] = NoTask
  \/ Faults' = Faults + 1
  \/ \E t \in PhaseTasks : state[t] = "absent" /\ state'[t] # "absent"
  \/ place'[w] \in {"idle", "config"}

JobsEnd == UNCHANGED attempt /\ \A v \in Workers : job'[v] \in {NoTask, job[v]}

(* At most one loop is charged in a step, and for cause.                   *)
Charges ==
  /\ \A v \in Workers : place[v] # "looping" => place'[v] = place[v]
  /\ Faults' \in {Faults, Faults + 1}
  /\ \/ UNCHANGED charged
     \/ \E w \in Workers : Charge(w) /\ place[w] = "looping" /\ Paid(w) /\ JobsEnd

LEMMA RetireEndsJobs ==
  ASSUME TypeOK, NEW w \in Workers, NEW where, Retire(w, where), UNCHANGED attempt
  PROVE  JobsEnd /\ (job[w] \in Tasks => job[w] \in Tasks /\ job'[w] = NoTask)
  BY DEF TypeOK, Retire, JobsEnd

LEMMA ExitCharges ==
  ASSUME TypeOK, LoopTypeOK, NEW w \in Workers, place[w] = "looping", JobsEnd, Paid(w),
         Faults' \in {Faults, Faults + 1},
         \/ ExitProgress(w) \/ (\E failed : ExitInfra(w, failed))
         \/ ExitFor(w, "idle") \/ ExitFor(w, "config")
  PROVE  Charges
<1>1. Charge(w) /\ \A v \in Workers \ {w} : place'[v] = place[v]
  BY DEF ExitProgress, ExitInfra, ExitFor, LoopTypeOK
<1> QED BY <1>1 DEF Charges

LEMMA ChargeStep ==
  ASSUME TypeOK, JobInv, Aimed, LoopTypeOK, [LoopNext]_loopVars
  PROVE  Charges
<1> USE DEF bounds
<1>0. timeouts \in Nat /\ spawnFailures \in Nat
  BY DEF TypeOK, LoopTypeOK
<1>1. ASSUME UNCHANGED <<counters, spawnFailures, timeouts>>
      PROVE  Charges
  BY <1>0, <1>1 DEF counters, Charges, Faults
<1>2. ASSUME NEW w \in Workers, Turn(w)
      PROVE  Charges
  <2>1. CASE Spawn(w)
    BY <2>1, <1>1 DEF Spawn, ReclaimExpired
  <2>2. CASE Inside(w)
    BY <2>2, <1>1 DEF Inside, ScanOwners, RequeueDead, LeaseNone, LeaseTask, CheckWork, Recount
  <2>3. CASE Exits(w)
    <3>0. Live(w) /\ place[w] = "looping" /\ Faults' = Faults
      <4>1. Live(w) /\ UNCHANGED timeouts
        BY <2>3 DEF Exits, CheckWork, Recount, StillWork, SandboxPhase, Succeed, Fail, RejectKind,
                    InfraRetry, InfraGiveUp, Settle, Live
      <4> QED BY <2>3, <4>1 DEF Exits, Faults, LoopTypeOK
    <3>1. CASE (CheckWork(w) \/ Recount(w) \/ StillWork(w)) /\ pc'[w] = "idle" /\ ExitFor(w, "idle")
      <4>1. Retire(w, "idle") /\ UNCHANGED attempt
        BY <3>1 DEF CheckWork, Recount, StillWork, Goto, Retire, TypeOK, table
      <4>2. Paid(w)
        BY <3>1 DEF ExitFor, LoopTypeOK, Paid
      <4> QED BY <3>0, <3>1, <4>1, <4>2, RetireEndsJobs, ExitCharges
    <3>2. CASE StillWork(w) /\ pc'[w] = "off" /\ ExitBusy(w)
      <4>1. UNCHANGED <<charged, place>>
        BY <3>2 DEF ExitBusy
      <4> QED BY <3>0, <4>1 DEF Charges
    <3>3. CASE SandboxPhase(w) /\ ExitProgress(w)
      <4>1. Retire(w, "off") /\ UNCHANGED attempt
        BY <3>3 DEF SandboxPhase, EnqueueTasks
      <4>2. Paid(w)
        <5>1. PICK T \in SUBSET PhaseTasks : EnqueueTasks(T)
          BY <3>3 DEF SandboxPhase
        <5>2. PICK t \in T : t \in InState({"absent"})
          BY <5>1 DEF EnqueueTasks
        <5>3. t \in PhaseTasks /\ state[t] = "absent" /\ state'[t] # "absent"
          BY <5>1, <5>2 DEF EnqueueTasks, InState
        <5> QED BY <5>3 DEF Paid
      <4> QED BY <3>0, <3>3, <4>1, <4>2, RetireEndsJobs, ExitCharges
    <3>4. CASE /\ Succeed(w) \/ InfraGiveUp(w) \/ \E s \in {"failed_task", "blocked"} : Fail(w, s)
               /\ ExitProgress(w)
      <4>1. Retire(w, "off") /\ UNCHANGED attempt /\ job[w] \in Tasks
        BY <3>4 DEF Succeed, InfraGiveUp, Fail, Settle, JobInv
      <4> QED BY <3>0, <3>4, <4>1, RetireEndsJobs, ExitCharges DEF Paid
    <3>5. CASE InfraRetry(w) /\ ExitInfra(w, {<<job[w], jobAttempt[w]>>})
      <4>1. Retire(w, "off") /\ UNCHANGED attempt /\ job[w] \in Tasks
        BY <3>5 DEF InfraRetry, Settle, JobInv
      <4> QED BY <3>0, <3>5, <4>1, RetireEndsJobs, ExitCharges DEF Paid
    <3>6. CASE RejectKind(w) /\ ExitFor(w, "config")
      <4>1. Retire(w, "halted") /\ UNCHANGED attempt /\ job[w] \in Tasks
        BY <3>6 DEF RejectKind, Settle, JobInv
      <4> QED BY <3>0, <3>6, <4>1, RetireEndsJobs, ExitCharges DEF Paid
    <3> QED BY <2>3, <3>1, <3>2, <3>3, <3>4, <3>5, <3>6 DEF Exits
  <2>4. CASE LeaveOnBudget(w)
    BY <1>0, <2>4 DEF LeaveOnBudget, AtHead, queue, vars, Charges, Faults, LoopTypeOK
  <2> QED BY <1>2, <2>1, <2>2, <2>3, <2>4 DEF Turn
<1>3. ASSUME NEW w \in Workers, LeaveEarly(w)
      PROVE  Charges
  BY <1>0, <1>3 DEF LeaveEarly, AtHead, queue, vars, Charges, Faults, LoopTypeOK
<1>4. ASSUME NEW w \in Workers, SpawnFails(w) \/ Dying(w)
      PROVE  Charges
  <2>1. place[w] = "looping" /\ Faults' = Faults + 1
    BY <1>0, <1>4 DEF SpawnFails, AtHead, Dying, Timeout, Crash, Dies, Faults, queue, vars,
                      LoopTypeOK
  <2>2. JobsEnd
    <3>1. CASE SpawnFails(w)
      BY <3>1 DEF SpawnFails, queue, vars, table, process, JobsEnd
    <3>2. ASSUME NEW where, Dies(w, where)
          PROVE  JobsEnd
      BY <3>2, RetireEndsJobs DEF Dies, Killed
    <3> QED BY <1>4, <3>1, <3>2 DEF Dying, Timeout, Crash
  <2>3. ExitInfra(w, {}) \/ ExitFor(w, "config")
    BY <1>4 DEF SpawnFails, Dying
  <2> QED BY <2>1, <2>2, <2>3, ExitCharges DEF Paid
<1>5. ASSUME NEW h \in Handlers, Kill(h)
      PROVE  Charges
  <2>1. CASE req[h].target \in Workers
    <3> DEFINE w == req[h].target
    <3>1. /\ Live(w) /\ place[w] = "looping" /\ Retire(w, "halted") /\ UNCHANGED attempt
          /\ ExitFor(w, "config")
      BY <1>5, <2>1 DEF Kill, KillOwner, Killed, Aimed, LoopTypeOK
    <3>2. Faults' \in {Faults, Faults + 1}
      BY <1>0, <1>5 DEF Kill, KillOwner, Faults
    <3>3. Paid(w)
      BY <2>1, <3>1 DEF ExitFor, LoopTypeOK, Paid
    <3> HIDE DEF w
    <3>4. w \in Workers
      BY <2>1 DEF w
    <3> QED BY <3>1, <3>2, <3>3, <3>4, RetireEndsJobs, ExitCharges
  <2>2. CASE req[h].target \notin Workers
    BY <1>5, <2>2, <1>1 DEF Kill, KillOwner
  <2> QED BY <2>1, <2>2
<1>6. CASE Elsewhere
  BY <1>6, <1>1 DEF Elsewhere, EnqueueChild, WriteRow, ReadRow, Expire, OperatorEnqueue
<1>7. CASE UNCHANGED loopVars
  BY <1>7, <1>1 DEF loopVars, queue, vars
<1> QED BY <1>2, <1>3, <1>4, <1>5, <1>6, <1>7 DEF LoopNext

(* No row is forgotten, and only a lease starts a job.                     *)
LEMMA RowsStay ==
  ASSUME TypeOK, [Next]_vars
  PROVE  \A t \in Tasks : state[t] # "absent" => state'[t] # "absent"
<1> USE DEF table, process, bounds
<1> SUFFICES ASSUME NEW t \in Tasks, state[t] # "absent"
             PROVE  state'[t] # "absent"
  OBVIOUS
<1>1. ASSUME NEW T, NEW s \in States \ {"absent"}, Release(T, s)
      PROVE  state'[t] # "absent"
  BY <1>1, ReleaseNeverAbsent
<1>2. ASSUME NEW T, EnqueueTasks(T)
      PROVE  state'[t] # "absent"
  BY <1>2 DEF EnqueueTasks
<1>3. ASSUME NEW w \in Workers, RunOnce(w) \/ Timeout(w) \/ Crash(w)
      PROVE  state'[t] # "absent"
  <2>1. CASE ReclaimExpired(w) \/ RequeueDead(w) \/ InfraRetry(w)
    BY <2>1, <1>1 DEF ReclaimExpired, RequeueDead, InfraRetry, RequeueTask, States, Work
  <2>2. CASE Succeed(w) \/ RejectKind(w) \/ InfraGiveUp(w)
             \/ \E s \in {"failed_task", "blocked"} : Fail(w, s)
    BY <2>2, <1>1 DEF Succeed, RejectKind, InfraGiveUp, Fail, CompleteTask, FailTask,
                      DeadletterTask, States, Terminal
  <2>3. CASE SandboxPhase(w)
    BY <2>3, <1>2 DEF SandboxPhase
  <2>4. ASSUME NEW u \in Tasks, LeaseTask(w, u)
        PROVE  state'[t] # "absent"
    BY <2>4 DEF LeaseTask, TypeOK
  <2>5. CASE \/ ScanOwners(w) \/ CheckWork(w) \/ LeaseNone(w) \/ Recount(w) \/ StillWork(w)
             \/ Timeout(w) \/ Crash(w)
    BY <2>5 DEF ScanOwners, CheckWork, LeaseNone, Recount, StillWork, Timeout, Crash, Dies, Killed
  <2> QED BY <1>3, <2>1, <2>2, <2>3, <2>4, <2>5 DEF RunOnce
<1>4. ASSUME NEW h \in Handlers, Operator(h)
      PROVE  state'[t] # "absent"
  <2>1. CASE WriteRow(h)
    <3>1. req[h].kind \in Kinds
      BY <2>1 DEF WriteRow, TypeOK, Requests, NoReq
    <3> QED BY <2>1, <3>1, <1>1 DEF WriteRow, Outcome, Kinds, States, Work, Terminal
  <2> QED BY <1>4, <2>1 DEF Operator, ReadRow, KillOwner, Killed
<1> QED BY <1>2, <1>3, <1>4 DEF Next, EnqueueChild, OperatorEnqueue, Expire, vars

LEMMA AttemptStep ==
  ASSUME TypeOK, [Next]_vars
  PROVE  JobsEnd \/ \E w \in Workers, t \in Tasks : LeaseTask(w, t)
<1>1. ASSUME NEW w \in Workers, InfraRetry(w)
      PROVE  JobsEnd
  BY <1>1, RetireEndsJobs DEF InfraRetry, Settle
<1>2. CASE JobsOnlyEnd
  BY <1>2 DEF JobsOnlyEnd, JobsEnd
<1> QED BY <1>1, <1>2, OnlyLeaseStartsJobs

-----------------------------------------------------------------------------
(* Each charge is backed by something of its own.  A child that runs a job *)
(* has its lease still to spend.                                           *)
Busy   == {w \in Workers : job[w] \in Tasks}
Phased == {t \in PhaseTasks : state[t] # "absent"}
Ended  == {w \in Workers : place[w] \in {"idle", "config"}}

Backed == Total(charged) + Cardinality(Busy)
            <= Total(attempt) + Faults + Cardinality(Phased) + Cardinality(Ended)

LEMMA SetsFinite ==
  ASSUME NEW S \in {Workers, PhaseTasks, Tasks}, NEW T \in SUBSET S
  PROVE  IsFiniteSet(T) /\ Cardinality(T) \in Nat
<1>1. IsFiniteSet(S)
  <2>1. IsFiniteSet(Workers) /\ IsFiniteSet(Tasks) /\ PhaseTasks \subseteq Tasks
    BY TasksAssumption, ConstantsAssumption DEF TasksAssumption, ConstantsAssumption
  <2> QED BY <2>1, FS_Subset
<1> QED BY <1>1, FS_Subset, FS_CardinalityType

(* What joins a set adds one at the most, what leaves it takes one away.   *)
LEMMA Grows ==
  ASSUME NEW S \in {Workers, PhaseTasks, Tasks}, NEW A \in SUBSET S, NEW B \in SUBSET S
  PROVE  /\ A \subseteq B => Cardinality(A) <= Cardinality(B)
         /\ \A x : B \subseteq A \union {x} => Cardinality(B) <= Cardinality(A) + 1
         /\ \A x \in B : A \subseteq B /\ x \notin A => Cardinality(A) + 1 <= Cardinality(B)
<1>1. IsFiniteSet(A) /\ IsFiniteSet(B) /\ Cardinality(A) \in Nat /\ Cardinality(B) \in Nat
  BY SetsFinite
<1>2. A \subseteq B => Cardinality(A) <= Cardinality(B)
  BY <1>1, FS_Subset
<1>3. ASSUME NEW x
      PROVE  IsFiniteSet(A \union {x}) /\ Cardinality(A \union {x}) \in Nat
             /\ Cardinality(A \union {x}) <= Cardinality(A) + 1
             /\ (x \notin A => Cardinality(A \union {x}) = Cardinality(A) + 1)
  <2>1. IsFiniteSet(A \union {x})
    BY <1>1, FS_AddElement
  <2>2. x \in A => Cardinality(A \union {x}) = Cardinality(A)
    BY <1>1, FS_AddElement
  <2>3. x \notin A => Cardinality(A \union {x}) = Cardinality(A) + 1
    BY <1>1, FS_AddElement
  <2> QED BY <1>1, <2>1, <2>2, <2>3
<1>4. ASSUME NEW x, B \subseteq A \union {x}
      PROVE  Cardinality(B) <= Cardinality(A) + 1
  <2>1. Cardinality(B) <= Cardinality(A \union {x})
    BY <1>3, <1>4, FS_Subset
  <2> QED BY <1>1, <1>3, <2>1
<1>5. ASSUME NEW x \in B, A \subseteq B, x \notin A
      PROVE  Cardinality(A) + 1 <= Cardinality(B)
  <2>1. A \union {x} \subseteq B
    BY <1>5
  <2>2. Cardinality(A \union {x}) <= Cardinality(B)
    BY <1>1, <2>1, FS_Subset
  <2> QED BY <1>3, <1>5, <2>2
<1> QED BY <1>2, <1>4, <1>5

LEMMA Balance ==
  ASSUME NEW c \in Nat, NEW b \in Nat, NEW a \in Nat, NEW f \in Nat, NEW p \in Nat, NEW e \in Nat,
         NEW c1 \in Nat, NEW b1 \in Nat, NEW a1 \in Nat, NEW f1 \in Nat, NEW p1 \in Nat,
         NEW e1 \in Nat,
         c + b <= a + f + p + e, f <= f1, p <= p1, e <= e1,
         \/ c1 = c /\ a1 = a /\ b1 <= b
         \/ c1 = c /\ a1 = a + 1 /\ b1 <= b + 1
         \/ /\ c1 = c + 1 /\ a1 = a /\ b1 <= b
            /\ b1 + 1 <= b \/ f1 = f + 1 \/ p + 1 <= p1 \/ e + 1 <= e1
  PROVE  c1 + b1 <= a1 + f1 + p1 + e1
  OBVIOUS

LEMMA BackedStep ==
  ASSUME TypeOK, TypeOK', JobInv, Aimed, LoopTypeOK, LoopTypeOK', Backed, [LoopNext]_loopVars
  PROVE  Backed'
<1> DEFINE C == Total(charged)
           A == Total(attempt)
           B == Cardinality(Busy)
           P == Cardinality(Phased)
           E == Cardinality(Ended)
<1>0. IsFiniteSet(Workers) /\ IsFiniteSet(Tasks)
  BY TasksAssumption DEF TasksAssumption
<1>1. C \in Nat /\ A \in Nat /\ C' \in Nat /\ A' \in Nat
  <2>1. charged \in [Workers -> Nat] /\ charged' \in [Workers -> Nat]
    BY LoopAssumption DEF LoopTypeOK, LoopAssumption
  <2>2. attempt \in [Tasks -> Nat] /\ attempt' \in [Tasks -> Nat]
    BY DEF TypeOK
  <2>3. Total(charged) \in Nat /\ Total(attempt) \in Nat /\ Total(charged') \in Nat
        /\ Total(attempt') \in Nat
    BY <1>0, <2>1, <2>2, CellsFinite
  <2> QED BY <2>3
<1>2. /\ Busy \subseteq Workers /\ Busy' \subseteq Workers
      /\ Phased \subseteq PhaseTasks /\ Phased' \subseteq PhaseTasks
      /\ Ended \subseteq Workers /\ Ended' \subseteq Workers
  BY DEF Busy, Phased, Ended
<1>3. /\ B \in Nat /\ B' \in Nat /\ P \in Nat /\ P' \in Nat /\ E \in Nat /\ E' \in Nat
      /\ Faults \in Nat /\ Faults' \in Nat
  <2>1. B \in Nat /\ B' \in Nat /\ P \in Nat /\ P' \in Nat /\ E \in Nat /\ E' \in Nat
    BY <1>2, SetsFinite
  <2>2. timeouts \in Nat /\ spawnFailures \in Nat
    BY DEF TypeOK, LoopTypeOK
  <2>3. Faults \in Nat
    BY <2>2 DEF Faults
  <2>4. Faults' \in {Faults, Faults + 1}
    BY ChargeStep DEF Charges
  <2>5. Faults' \in Nat
    BY <2>3, <2>4
  <2> QED BY <2>1, <2>3, <2>5
<1>4. Charges
  BY ChargeStep
<1>5. [Next]_vars
  BY LoopStepIsQueueStep
<1>6. Phased \subseteq Phased' /\ Ended \subseteq Ended'
  <2>1. Phased \subseteq Phased'
    BY <1>5, RowsStay, ConstantsAssumption DEF Phased, ConstantsAssumption
  <2>2. Ended \subseteq Ended'
    BY <1>4 DEF Charges, Ended
  <2> QED BY <2>1, <2>2
<1>7. P <= P' /\ E <= E'
  BY <1>2, <1>6, Grows
<1>8. Faults <= Faults'
  BY <1>3, <1>4 DEF Charges
<1>9. C + B <= A + Faults + P + E
  BY DEF Backed
<1>10. JobsEnd => A' = A /\ B' <= B
  <2>1. JobsEnd => Busy' \subseteq Busy
    BY SentinelAssumption DEF JobsEnd, Busy, SentinelAssumption
  <2>2. Busy' \subseteq Busy => B' <= B
    BY <1>2, Grows
  <2> QED BY <2>1, <2>2 DEF JobsEnd
<1>11. ASSUME NEW w \in Workers, NEW t \in Tasks, LeaseTask(w, t)
       PROVE  A' = A + 1 /\ B' <= B + 1
  <2>1. attempt' = [attempt EXCEPT ![t] = attempt[t] + 1] /\ job' = [job EXCEPT ![w] = t]
    BY <1>11 DEF LeaseTask
  <2>2. attempt \in [Tasks -> Nat]
    BY DEF TypeOK
  <2>3. Total(attempt') = Total(attempt) + 1
    BY <1>0, <2>1, <2>2, TotalUp
  <2>4. Busy' \subseteq Busy \union {w}
    BY <2>1 DEF Busy, TypeOK
  <2>5. B' <= B + 1
    BY <1>2, <2>4, Grows
  <2> QED BY <2>3, <2>5
<1>12. ASSUME NEW w \in Workers, Charge(w), place[w] = "looping", Paid(w), JobsEnd
       PROVE  C' = C + 1 /\ (B' + 1 <= B \/ Faults' = Faults + 1 \/ P + 1 <= P' \/ E + 1 <= E')
  <2>1. C' = C + 1
    <3>1. charged \in [Workers -> Nat] /\ charged' = [charged EXCEPT ![w] = charged[w] + 1]
      BY <1>12, LoopAssumption DEF LoopTypeOK, LoopAssumption, Charge
    <3>2. Total(charged') = Total(charged) + 1
      BY <1>0, <3>1, TotalUp
    <3> QED BY <3>2
  <2>2. CASE job[w] \in Tasks /\ job'[w] = NoTask
    <3>1. w \in Busy /\ w \notin Busy' /\ Busy' \subseteq Busy
      BY <1>12, <2>2, SentinelAssumption DEF Busy, JobsEnd, SentinelAssumption
    <3>2. B' + 1 <= B
      BY <1>2, <3>1, Grows
    <3> QED BY <2>1, <3>2
  <2>3. CASE Faults' = Faults + 1
    BY <2>1, <2>3
  <2>4. ASSUME NEW t \in PhaseTasks, state[t] = "absent", state'[t] # "absent"
        PROVE  P + 1 <= P'
    <3>1. t \in Phased' /\ t \notin Phased
      BY <2>4 DEF Phased
    <3> QED BY <1>2, <1>6, <3>1, Grows
  <2>5. CASE place'[w] \in {"idle", "config"}
    <3>1. w \in Ended' /\ w \notin Ended
      BY <1>12, <2>5 DEF Ended
    <3>2. E + 1 <= E'
      BY <1>2, <1>6, <3>1, Grows
    <3> QED BY <2>1, <3>2
  <2> QED BY <1>12, <2>1, <2>2, <2>3, <2>4, <2>5 DEF Paid
<1>13. \/ C' = C /\ A' = A /\ B' <= B
       \/ C' = C /\ A' = A + 1 /\ B' <= B + 1
       \/ /\ C' = C + 1 /\ A' = A /\ B' <= B
          /\ B' + 1 <= B \/ Faults' = Faults + 1 \/ P + 1 <= P' \/ E + 1 <= E'
  <2>1. UNCHANGED charged => C' = C
    OBVIOUS
  <2> HIDE DEF C, A, B, P, E
  <2> QED BY <1>4, <1>5, <1>10, <1>11, <1>12, <2>1, AttemptStep DEF Charges
<1>14. C' + B' <= A' + Faults' + P' + E'
  <2> HIDE DEF C, A, B, P, E
  <2> DEFINE c1 == C'
             b1 == B'
             a1 == A'
             f1 == Faults'
             p1 == P'
             e1 == E'
  <2>1. /\ c1 \in Nat /\ b1 \in Nat /\ a1 \in Nat /\ f1 \in Nat /\ p1 \in Nat /\ e1 \in Nat
        /\ P <= p1 /\ E <= e1 /\ Faults <= f1
        /\ \/ c1 = C /\ a1 = A /\ b1 <= B
           \/ c1 = C /\ a1 = A + 1 /\ b1 <= B + 1
           \/ /\ c1 = C + 1 /\ a1 = A /\ b1 <= B
              /\ b1 + 1 <= B \/ f1 = Faults + 1 \/ P + 1 <= p1 \/ E + 1 <= e1
    BY <1>1, <1>3, <1>7, <1>8, <1>13
  <2> HIDE DEF c1, b1, a1, f1, p1, e1
  <2>2. c1 + b1 <= a1 + f1 + p1 + e1
    BY ONLY <1>1, <1>3, <1>9, <2>1, Balance
  <2> QED BY <2>2 DEF c1, b1, a1, f1, p1, e1
<1> QED BY <1>14 DEF Backed

(* Waiting costs nothing: see ChargesBacked.                               *)
THEOREM WaitingIsFree == LoopSpec => []ChargesBacked
<1>1. LoopInit => Backed
  <2> SUFFICES ASSUME LoopInit
               PROVE  Backed
    OBVIOUS
  <2>1. IsFiniteSet(Workers) /\ IsFiniteSet(Tasks)
    BY TasksAssumption DEF TasksAssumption
  <2>2. Total(charged) = 0
    <3>1. DOMAIN charged = Workers /\ \A w \in Workers : charged[w] = 0
      BY DEF LoopInit
    <3>2. Cells(charged) = {}
      BY <3>1 DEF Cells
    <3> QED BY <3>2, FS_EmptySet DEF Total
  <2>3. attempt \in [Tasks -> Nat]
    BY DEF LoopInit, Init
  <2>4. Total(attempt) \in Nat
    BY <2>1, <2>3, CellsFinite
  <2>5. Cardinality(Busy) = 0
    <3>1. Busy = {}
      BY SentinelAssumption DEF LoopInit, Init, Busy, SentinelAssumption
    <3> QED BY <3>1, FS_EmptySet
  <2>6. Cardinality(Phased) \in Nat /\ Cardinality(Ended) \in Nat
    BY SetsFinite DEF Phased, Ended
  <2>7. Faults = 0
    BY DEF LoopInit, Init, Faults
  <2> QED BY <2>2, <2>4, <2>5, <2>6, <2>7 DEF Backed
<1>2. TypeOK /\ TypeOK' /\ JobInv /\ Aimed /\ LoopTypeOK /\ LoopTypeOK' /\ Backed
        /\ [LoopNext]_loopVars => Backed'
  BY BackedStep
<1>3. TypeOK /\ LoopTypeOK /\ Backed => ChargesBacked
  <2> SUFFICES ASSUME TypeOK, LoopTypeOK, Backed
               PROVE  Total(charged) <= Total(attempt) + timeouts + spawnFailures
                        + Cardinality(PhaseTasks) + Cardinality(Ended)
    BY DEF ChargesBacked, Total, Cells, Ended
  <2>1. IsFiniteSet(Workers) /\ IsFiniteSet(Tasks)
    BY TasksAssumption DEF TasksAssumption
  <2>2. charged \in [Workers -> Nat] /\ attempt \in [Tasks -> Nat]
    BY LoopAssumption DEF TypeOK, LoopTypeOK, LoopAssumption
  <2>3. Total(charged) \in Nat /\ Total(attempt) \in Nat
    BY <2>1, <2>2, CellsFinite
  <2>4. /\ Busy \subseteq Workers /\ Phased \subseteq PhaseTasks /\ Ended \subseteq Workers
        /\ PhaseTasks \subseteq PhaseTasks
    BY DEF Busy, Phased, Ended
  <2>5. /\ Cardinality(Busy) \in Nat /\ Cardinality(Phased) \in Nat /\ Cardinality(Ended) \in Nat
        /\ Cardinality(PhaseTasks) \in Nat
    BY <2>4, SetsFinite
  <2>6. Cardinality(Phased) <= Cardinality(PhaseTasks)
    BY <2>4, Grows
  <2>7. timeouts \in Nat /\ spawnFailures \in Nat
    BY DEF TypeOK, LoopTypeOK
  <2>8. Total(charged) + Cardinality(Busy)
          <= Total(attempt) + (timeouts + spawnFailures) + Cardinality(Phased) + Cardinality(Ended)
    BY DEF Backed, Faults
  <2> QED BY <2>3, <2>5, <2>6, <2>7, <2>8
<1> QED BY <1>1, <1>2, <1>3, LoopInherits, LoopTypeCorrect, PTL DEF LoopSpec
=============================================================================
