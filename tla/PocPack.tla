------------------------------ MODULE PocPack ------------------------------
(***************************************************************************)
(* The evidence pack of one finding and all that works on it: develop_poc, *)
(* validate_poc and iterate_poc tasks, the sandbox session of an iterate   *)
(* task with its steers and its stop request, the one-shot phase, and the  *)
(* dashboard requests that save, enqueue, steer and stop.                  *)
(*                                                                         *)
(* What they share: files of the pack (poc_session.json, poc_steer.jsonl,  *)
(* poc_session_ctl.json, poc_run.json), the finding's body, the tasks.     *)
(* A step is one SQL statement, one file replaced, or what is done under   *)
(* the pack's file lock; append_steer is two, because a session also saves *)
(* without the lock.  Which task a worker leases is TaskQueue's subject.   *)
(***************************************************************************)
EXTENDS PocSandbox, Sequences, FiniteSets

CONSTANTS
  Workers, Handlers,  \* run-once processes, dashboard requests
  Nobody,
  RequestKinds,       \* subset of Requests
  OneShot,            \* the run was started with the sandbox toggle
  Host, Runner,       \* what the host offers, poc_harness.runner
  MaxCycles,          \* poc_harness.iterate_max_cycles
  Waiting,            \* kinds of which a task waits at the beginning
  MaxRequests, MaxFaults  \* bounds: requests; crashes and retries

Requests == {"steer", "stop", "save", "validate", "iterate"}
Kinds    == {"develop", "validate", "iterate"}
Procs    == Workers \union Handlers

ASSUME NamesAssumption == Nobody \notin Procs /\ Workers \intersect Handlers = {}
ASSUME HostAssumption  == Host \in Hosts /\ Runner \in Runners
ASSUME CyclesAssumption == MaxCycles \in Nat \ {0} /\ OneShot \in BOOLEAN
ASSUME RequestsAssumption == RequestKinds \subseteq Requests /\ Waiting \subseteq Kinds

VARIABLES
  ready,      \* the pack holds code and an expected signal
  runFile,    \* poc_run.json is there
  body,       \* of the finding: the one-shot marker, a latest verdict
  file,       \* the state in poc_session.json
  steers,     \* the seq numbers in poc_steer.jsonl
  stop,       \* poc_session_ctl.json asks for a stop
  lock,       \* who holds poc_session.lock across two steps
  queue,      \* waiting tasks by kind
  at,         \* per process: its step, its task or request, what it has read
  mem,        \* per worker: the session it runs
  shots, disturbed,  \* history: one-shot tasks, and what may repeat them
  used        \* how much of each bound is spent

pack    == <<ready, runFile, file, steers, stop, lock>>
history == <<shots, disturbed>>
locals  == <<at, mem>>
vars    == <<pack, body, queue, locals, history, used>>

NoBody    == [marker |-> FALSE, verdict |-> FALSE]
Idle      == [step |-> "idle", job |-> "", body |-> NoBody, seq |-> 0]
(* A session in memory; `late` is history: cycles it ended after a stop.   *)
NoSession == [cycles |-> 0, applied |-> 0, upto |-> 0, late |-> 0]
Sessions  == [cycles : 0..MaxCycles, applied : Nat, upto : Nat, late : Nat]

PhaseSteps   == {"look", "shoot", "reread", "stamp"}
SessionSteps == {"note", "append", "boot", "head", "cycle", "close"}
TaskSteps    == SessionSteps \union {"begin", "writeRun", "writeBody"}
AskSteps     == {"steer", "append", "stop", "enqueue", "rewrite", "save", "saveBody",
                 "saveAgain"}

MaxOf(S) == IF S = {} THEN 0 ELSE CHOOSE n \in S : \A m \in S : m <= n
SeqsIn(log) == {log[i] : i \in DOMAIN log}

Go(p, step, b, n) == at' = [at EXCEPT ![p] =
                             IF step = "idle" THEN Idle
                             ELSE [step |-> step, job |-> @.job, body |-> b, seq |-> n]]
Goto(p, step)  == Go(p, step, at[p].body, 0)
Finished(w)    == Goto(w, "idle") /\ mem' = [mem EXCEPT ![w] = NoSession]
Spend(what, limit) == used[what] < limit /\ used' = [used EXCEPT ![what] = @ + 1]
Enqueue(k)     == queue' = [queue EXCEPT ![k] = @ + 1]
(* A finding's body is written back from the copy its writer read.         *)
WriteBody(b)   == /\ body' = b
                  /\ disturbed' = (disturbed \/ (body.marker /\ ~b.marker))

-----------------------------------------------------------------------------
(* append_steer and request_stop, by a request or by a new session.        *)

(* The number a steer gets, from the lines that are there.                 *)
NextSeq == 1 + MaxOf(SeqsIn(steers))

(* Mutant: the log is read without the lock.                               *)
TakeLockShared(p) == lock' = p
TakeLock(p)       == lock = Nobody /\ lock' = p

After(p) == IF p \in Workers THEN "boot" ELSE "idle"

(* Under the lock: refused when the file says that the session has ended.  *)
BeginSteer(p) ==
  /\ at[p].step \in {"steer", "note"}
  /\ \/ /\ lock = Nobody /\ file = "ended"
        /\ Goto(p, After(p)) /\ UNCHANGED lock
     \/ /\ file # "ended" /\ TakeLock(p)
        /\ Go(p, "append", at[p].body, NextSeq)
  /\ UNCHANGED <<ready, runFile, file, steers, stop, body, queue, mem,
                 history, used>>

(* Mutant: the lock is not released.                                       *)
AppendSteerLocked(p) ==
  /\ at[p].step = "append"
  /\ steers' = Append(steers, at[p].seq)
  /\ Goto(p, After(p))
  /\ UNCHANGED <<ready, runFile, file, stop, lock, body, queue, mem, history, used>>

AppendSteer(p) ==
  /\ at[p].step = "append"
  /\ steers' = Append(steers, at[p].seq)
  /\ lock' = IF lock = p THEN Nobody ELSE lock
  /\ Goto(p, After(p))
  /\ UNCHANGED <<ready, runFile, file, stop, body, queue, mem, history, used>>

RequestStop(h) ==
  /\ at[h].step = "stop" /\ lock = Nobody /\ Goto(h, "idle")
  /\ stop' = (stop \/ file # "ended")
  /\ UNCHANGED <<ready, runFile, file, steers, lock, body, queue, mem,
                 history, used>>

-----------------------------------------------------------------------------
(* The session of an iterate task (run_iterate_session).                   *)

Save(live) == file' = IF live THEN "live" ELSE "ended"

(* A blank session in memory.  Notes of the operator become a steer.       *)
Open(w) ==
  /\ at[w].step = "begin" /\ at[w].job = "iterate"
  /\ \E notes \in BOOLEAN : Goto(w, IF notes THEN "note" ELSE "boot")
  /\ UNCHANGED <<pack, body, queue, mem, history, used>>

(* Command, code and isolation are tried in turn; a session that cannot    *)
(* start ends at once, and one that can is first saved as live.            *)
Boot(w) ==
  /\ at[w].step = "boot"
  /\ \E started \in BOOLEAN :
       /\ started => ready /\ SelectIsolation(Runner, "none", Host) # {}
       /\ Save(started)
       /\ Goto(w, IF started THEN "head" ELSE "close")
  /\ UNCHANGED <<ready, runFile, steers, stop, lock, body, queue, mem, history, used>>

(* Mutant: a stop request is read only when the cycles are used up.        *)
EndsAtHeadLate(w, timeout) == timeout \/ mem[w].cycles >= MaxCycles
EndsAtHead(w, timeout)     == stop \/ timeout \/ mem[w].cycles >= MaxCycles

(* The head of the loop, under the lock.                                   *)
LoopHead(w) ==
  /\ at[w].step = "head" /\ lock = Nobody
  /\ \E timeout \in BOOLEAN :
       IF EndsAtHead(w, timeout)
       THEN Save(FALSE) /\ Goto(w, "close") /\ UNCHANGED mem
       ELSE /\ mem' = [mem EXCEPT ![w].upto =
                         MaxOf({n \in SeqsIn(steers) : n > mem[w].applied})]
            /\ Goto(w, "cycle") /\ UNCHANGED file
  /\ UNCHANGED <<ready, runFile, steers, stop, lock, body, queue,
                 history, used>>

(* Rewrite, run and record one cycle; a verdict may end the session.       *)
LastCycle(verdict) == verdict \in {"sandbox_unavailable", "unsafe_skipped", "signal_observed"}

RunCycle(w, verdict) ==
  LET live == ~LastCycle(verdict)
  IN  /\ mem' = [mem EXCEPT ![w] = [cycles |-> @.cycles + 1, upto |-> 0,
                                    applied |-> MaxOf({@.applied, @.upto}),
                                    late |-> IF stop THEN @.late + 1 ELSE @.late]]
      /\ Save(live)
      /\ Goto(w, IF live THEN "head" ELSE "close")

(* The wall clock ran out while the files were rewritten.                  *)
TooLate(w) ==
  /\ Save(FALSE) /\ Goto(w, "close") /\ UNCHANGED mem

CycleVerdicts ==
  UNION {{CycleVerdict(o) : o \in RunIsolated(rt, "none", regex)} :
           rt \in SelectIsolation(Runner, "none", Host), regex \in BOOLEAN}

Cycle(w) ==
  /\ at[w].step = "cycle"
  /\ \/ TooLate(w)
     \/ \E verdict \in CycleVerdicts : RunCycle(w, verdict)
  /\ UNCHANGED <<ready, runFile, steers, stop, lock, body, queue,
                 shots, disturbed, used>>

(* The finally clause: the guest is stopped and the session is saved as    *)
(* ended, once more.                                                       *)
Close(w) ==
  /\ at[w].step = "close" /\ Save(FALSE)
  /\ mem' = [mem EXCEPT ![w] = NoSession] /\ Goto(w, "writeRun")
  /\ UNCHANGED <<ready, runFile, steers, stop, lock, body, queue, history, used>>

(* An exception on the way: the finally clause ends the session, and the   *)
(* task has failed.                                                        *)
Raise(w) ==
  /\ at[w].step \in {"boot", "head", "cycle"} /\ Save(FALSE) /\ Finished(w)
  /\ UNCHANGED <<ready, runFile, steers, stop, lock, body, queue, history, used>>

-----------------------------------------------------------------------------
(* The tasks, from the read of the finding to the write of its body.       *)

Lease(w, k) ==
  /\ at[w].step = "idle" /\ queue[k] > 0
  /\ queue' = [queue EXCEPT ![k] = @ - 1]
  /\ at' = [at EXCEPT ![w] = [Idle EXCEPT !.step = "begin", !.job = k, !.body = body]]
  /\ UNCHANGED <<pack, body, mem, history, used>>

(* failed_task: no finding, a bad pack name, the harness switched off, no  *)
(* PoC written; nothing is recorded on the finding.                        *)
FailTask(w) ==
  /\ at[w].step \in {"begin", "writeRun"} /\ Finished(w)
  /\ UNCHANGED <<pack, body, queue, history, used>>

(* failed_infra of an agent or of the referee: the task is queued again.   *)
RetryTask(w) ==
  /\ at[w].step = "begin" /\ at[w].job \in {"develop", "validate"} /\ Finished(w)
  /\ Spend("faults", MaxFaults) /\ Enqueue(at[w].job)
  /\ UNCHANGED <<pack, body, history>>

(* validate_poc runs the PoC once; any verdict, a refusal too, is evidence. *)
Validate(w) ==
  /\ at[w].step = "begin" /\ at[w].job = "validate" /\ Goto(w, "writeRun")
  /\ UNCHANGED <<pack, body, queue, mem, history, used>>

WriteRun(w) ==
  /\ at[w].step = "writeRun" /\ runFile' = TRUE /\ Goto(w, "writeBody")
  /\ UNCHANGED <<ready, file, steers, stop, lock, body, queue, mem,
                 history, used>>

(* The body as it was when the task began, with the verdict added.         *)
RecordVerdict(w) ==
  /\ at[w].step = "writeBody" /\ at[w].job \in {"validate", "iterate"} /\ Finished(w)
  /\ WriteBody([at[w].body EXCEPT !.verdict = TRUE])
  /\ UNCHANGED <<pack, queue, shots, used>>

(* develop_poc: the agent writes files of the pack, then the body is saved *)
(* and the one-shot phase runs for this finding.                           *)
Develop(w) ==
  /\ at[w].step = "begin" /\ at[w].job = "develop"
  /\ ready' \in BOOLEAN /\ Goto(w, "writeBody")
  /\ UNCHANGED <<runFile, file, steers, stop, lock, body, queue, mem,
                 history, used>>

RecordDeveloped(w) ==
  /\ at[w].step = "writeBody" /\ at[w].job = "develop"
  /\ WriteBody(at[w].body)
  /\ IF OneShot
     THEN Goto(w, "enter") /\ UNCHANGED mem
     ELSE Finished(w)
  /\ UNCHANGED <<pack, queue, shots, used>>

-----------------------------------------------------------------------------
(* enqueue_sandbox_oneshot_phase.                                          *)

(* A worker that finds no task, or a develop_poc that has just ended,      *)
(* lists the findings.                                                     *)
EnterPhase(w) ==
  /\ \/ at[w].step = "enter"
     \/ /\ at[w].step = "idle" /\ OneShot
        /\ \A k \in Kinds : queue[k] = 0
        /\ \A v \in Workers : at[v].job = ""
  /\ Go(w, "look", body, 0)
  /\ UNCHANGED <<pack, body, queue, mem, history, used>>

Attempted(b) == b.marker \/ b.verdict \/ runFile
PendingValidate == queue["validate"] > 0 \/ \E v \in Workers : at[v].job = "validate"

Look(w) ==
  /\ at[w].step = "look"
  /\ IF Attempted(at[w].body) \/ PendingValidate \/ ~ready
     THEN Finished(w)
     ELSE Goto(w, "shoot") /\ UNCHANGED mem
  /\ UNCHANGED <<pack, body, queue, history, used>>

Shoot(w) ==
  /\ at[w].step = "shoot" /\ Enqueue("validate") /\ Goto(w, "reread")
  /\ shots' = shots + 1
  /\ disturbed' = (disturbed \/ body.marker
                   \/ \E v \in Workers \ {w} : at[v].step \in PhaseSteps)
  /\ UNCHANGED <<pack, body, mem, used>>

Reread(w) ==
  /\ at[w].step = "reread" /\ Go(w, "stamp", body, 0)
  /\ UNCHANGED <<pack, body, queue, mem, history, used>>

(* Mutant: the task is enqueued and the finding is not stamped.            *)
StampUnmarked(w) ==
  /\ at[w].step = "stamp" /\ Finished(w)
  /\ WriteBody(at[w].body)
  /\ UNCHANGED <<pack, queue, shots, used>>

Stamp(w) ==
  /\ at[w].step = "stamp" /\ Finished(w)
  /\ WriteBody([at[w].body EXCEPT !.marker = TRUE])
  /\ UNCHANGED <<pack, queue, shots, used>>

-----------------------------------------------------------------------------
(* Dashboard requests.                                                     *)

(* Every one first reads the finding.                                      *)
Ask(h, kind) ==
  /\ at[h].step = "idle" /\ Spend("requests", MaxRequests)
  /\ at' = [at EXCEPT ![h] =
             [Idle EXCEPT !.job = kind, !.body = body,
                          !.step = IF kind \in Kinds THEN "enqueue" ELSE kind]]
  /\ UNCHANGED <<pack, body, queue, mem, history>>

(* enqueue_validate_poc and enqueue_iterate_poc: the latest entry of the   *)
(* body is then one without a verdict.                                     *)
EnqueueRequest(h) ==
  /\ at[h].step = "enqueue" /\ Enqueue(at[h].job) /\ Goto(h, "rewrite")
  /\ UNCHANGED <<pack, body, mem, history, used>>

RewriteRequest(h) ==
  /\ at[h].step = "rewrite" /\ Goto(h, "idle")
  /\ WriteBody([at[h].body EXCEPT !.verdict = FALSE])
  /\ UNCHANGED <<pack, queue, mem, shots, used>>

(* save_finding_poc: the hub file, the body, and with an agent the task    *)
(* and the body again.                                                     *)
SaveHub(h) ==
  /\ at[h].step = "save" /\ ready' \in BOOLEAN /\ Goto(h, "saveBody")
  /\ UNCHANGED <<runFile, file, steers, stop, lock, body, queue, mem,
                 history, used>>

SaveBody(h) ==
  /\ at[h].step = "saveBody" /\ WriteBody(at[h].body)
  /\ \/ Goto(h, "idle") /\ UNCHANGED queue
     \/ Goto(h, "saveAgain") /\ Enqueue("develop")
  /\ UNCHANGED <<pack, mem, shots, used>>

SaveAgain(h) ==
  /\ at[h].step = "saveAgain" /\ Goto(h, "idle") /\ WriteBody(at[h].body)
  /\ UNCHANGED <<pack, queue, mem, shots, used>>

-----------------------------------------------------------------------------
(* A worker dies; its lock goes with it and its lease is reclaimed.        *)
Crash(w) ==
  /\ at[w].step # "idle" /\ Spend("faults", MaxFaults) /\ Finished(w)
  /\ queue' = [k \in Kinds |-> IF k = at[w].job THEN queue[k] + 1 ELSE queue[k]]
  /\ lock' = IF lock = w THEN Nobody ELSE lock
  /\ disturbed' = (disturbed \/ at[w].step \in {"reread", "stamp"})
  /\ UNCHANGED <<ready, runFile, file, steers, stop, body, shots>>

Init ==
  /\ ready \in BOOLEAN /\ runFile = FALSE /\ body = NoBody
  /\ file = "none" /\ steers = <<>> /\ stop = FALSE
  /\ lock = Nobody /\ queue = [k \in Kinds |-> IF k \in Waiting THEN 1 ELSE 0]
  /\ at = [p \in Procs |-> Idle]
  /\ mem = [w \in Workers |-> NoSession]
  /\ shots = 0 /\ disturbed = FALSE
  /\ used = [what \in {"requests", "faults"} |-> 0]

SessionStep(w) == BeginSteer(w) \/ AppendSteer(w) \/ Boot(w) \/ LoopHead(w) \/ Cycle(w) \/ Close(w)

TaskStep(w) ==
  \/ Open(w) \/ SessionStep(w) \/ Raise(w)
  \/ FailTask(w) \/ RetryTask(w) \/ Validate(w) \/ WriteRun(w) \/ RecordVerdict(w)
  \/ Develop(w) \/ RecordDeveloped(w)

PhaseStep(w) == EnterPhase(w) \/ Look(w) \/ Shoot(w) \/ Reread(w) \/ Stamp(w)

RequestStep(h) ==
  \/ BeginSteer(h) \/ AppendSteer(h) \/ RequestStop(h)
  \/ EnqueueRequest(h) \/ RewriteRequest(h)
  \/ SaveHub(h) \/ SaveBody(h) \/ SaveAgain(h)

Next ==
  \/ \E w \in Workers : TaskStep(w) \/ PhaseStep(w) \/ Crash(w)
  \/ \E w \in Workers, k \in Kinds : Lease(w, k)
  \/ \E h \in Handlers : RequestStep(h)
  \/ \E h \in Handlers, kind \in RequestKinds : Ask(h, kind)

Spec == Init /\ [][Next]_vars

(* A worker in a session keeps running, and a request that holds the lock  *)
(* lets go of it; nothing obliges a request to come.                       *)
FairSpec ==
  /\ Spec
  /\ \A w \in Workers : WF_vars(SessionStep(w))
  /\ \A h \in Handlers : WF_vars(AppendSteer(h))

-----------------------------------------------------------------------------
(* Properties.                                                             *)

(* The variables have their types, and only a process that appends a steer *)
(* holds the lock from one step to the next.                               *)
TypeOK ==
  /\ ready \in BOOLEAN /\ runFile \in BOOLEAN /\ stop \in BOOLEAN
  /\ body \in [marker : BOOLEAN, verdict : BOOLEAN]
  /\ file \in {"none", "live", "ended"}
  /\ steers \in Seq(Nat \ {0})
  /\ queue \in [Kinds -> Nat]
  /\ at \in [Procs ->
        [step : {"idle", "enter"} \union TaskSteps \union PhaseSteps \union AskSteps,
         job : {""} \union Kinds \union Requests,
         body : [marker : BOOLEAN, verdict : BOOLEAN], seq : Nat]]
  /\ mem \in [Workers -> Sessions]
  /\ shots \in Nat /\ disturbed \in BOOLEAN
  /\ used \in [{"requests", "faults"} -> Nat]
  /\ lock \in Procs \union {Nobody}
  /\ \A p \in Procs : lock = p <=> at[p].step = "append"

(* append_steer: no two accepted steers bear the same number, so that no   *)
(* session takes a later one for one it has already applied.               *)
SteersKept == \A i, j \in DOMAIN steers : i # j => steers[i] # steers[j]

(* request_stop, "stop the live session after the current cycle": once a   *)
(* stop is on file, a session finishes at most the cycle it is in.         *)
StopWithinOneCycle == \A w \in Workers : mem[w].late <= 1

(* poc_phase, "queue one validate_poc per harness-ready finding": a second *)
(* one-shot task needs two overlapping phases, a worker that died between  *)
(* enqueue and stamp, or a stamp that a stale body erased.                 *)
OneShotUndisturbed == ~disturbed => shots <= 1

(* run_iterate_session: every session ends, whatever the guest does, how   *)
(* many steers come and however the task fails.                            *)
SessionEnds == \A w \in Workers : at[w].step \in SessionSteps ~> at[w].step \notin SessionSteps
=============================================================================
