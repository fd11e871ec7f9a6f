------------------------------ MODULE LiveStart ------------------------------
(***************************************************************************)
(* Starts of live benchmarks.  LiveBench follows one live run from its     *)
(* start to its end; this module lets requests start one run after the     *)
(* other, and lets them overlap.  A request to start a run asks for the    *)
(* active runs (find_active_live_run, which reconciles each of them as a   *)
(* poll of the page does) and creates its own run later, without a lock;   *)
(* the thread that drives a run looks whether the run has ended and starts *)
(* Ralph later; a stop kills the Ralph it finds and writes the end later.  *)
(* The runs here are hunts of their own.  A suite is refused and created   *)
(* the same way, and stands for one run: its members are driven one after  *)
(* the other.  Scores, members, and writes that fail are left to LiveBench.*)
(***************************************************************************)
EXTENDS Naturals, Sequences

CONSTANTS
  Runs,            \* what the requests may create
  Handlers,        \* requests at work at once: polls, starts and stops
  Budgets          \* how many polls, starts, stops and restarts there may be

ASSUME BudgetsAssumption == Budgets \subseteq [{"poll", "start", "stop", "restart"} -> Nat]

VARIABLES
  row,       \* result.json of each run
  work,      \* of its harness: no task yet, tasks waiting, all done
  ralph,     \* its Ralph is alive
  driver,    \* the daemon thread of each run
  handler,   \* what each request is at
  left,      \* polls, starts, stops and restarts still to come
  past       \* history: see Init

vars == <<row, work, ralph, driver, handler, left, past>>

Blank == [status |-> "none", harness |-> FALSE]

(* drive_live_hunt: the reads and the writes of the row, and what counts   *)
(* between them (what is done before init is taken together).              *)
Script == <<"open", "mark", "open", "record", "mark", "open", "enqueue", "mark", "open", "start",
            "wait", "open", "mark", "close">>

(* line: 0 when there is no thread; raw: the row as update_run read it.    *)
NoDriver == [line |-> 0, raw |-> Blank]

(* todo: runs still to reconcile; run, seen: the run at hand, as read;     *)
(* found: a run is active; late: another request has created a run since   *)
(* this one asked.                                                         *)
Idle == [job |-> "none", step |-> "idle", todo |-> {}, run |-> "none", seen |-> Blank,
         raw |-> Blank, found |-> FALSE, late |-> FALSE]

At(r)     == IF driver[r].line = 0 THEN "none" ELSE Script[driver[r].line]
Active(r) == row[r].status = "open"

Spend(what) == left[what] > 0 /\ left' = [left EXCEPT ![what] = @ - 1]
Set(p, h)   == handler' = [handler EXCEPT ![p] = h]
Drive(r, d) == driver' = [driver EXCEPT ![r] = d]
Following(d) == IF d.line = Len(Script) THEN NoDriver ELSE [line |-> d.line + 1, raw |-> Blank]

(* update_run, second half: the row as it was read, changed.               *)
Publish(r, new) ==
  /\ row' = [row EXCEPT ![r] = new]
  /\ past' = [past EXCEPT !.reopened = @ \/ (row[r].status = "ended" /\ new.status = "open")]

-----------------------------------------------------------------------------
(* The driver.  _open_live and _close_hunt return for a run that ended.    *)
Check(r) ==
  /\ At(r) = "open"
  /\ Drive(r, IF Active(r) THEN Following(driver[r]) ELSE NoDriver)
  /\ UNCHANGED <<row, work, ralph, handler, left, past>>

ReadRow(r) ==
  /\ At(r) \in {"mark", "record", "close"} /\ driver[r].raw = Blank
  /\ Drive(r, IF At(r) = "close" /\ ~Active(r) THEN NoDriver
              ELSE [driver[r] EXCEPT !.raw = row[r]])
  /\ UNCHANGED <<row, work, ralph, handler, left, past>>

WriteRow(r) ==
  /\ driver[r].raw # Blank
  /\ LET raw == driver[r].raw
     IN  Publish(r, CASE At(r) = "record" -> [raw EXCEPT !.harness = TRUE]
                      [] At(r) = "close"  -> [raw EXCEPT !.status = "ended"]
                      [] OTHER            -> raw)
  /\ Drive(r, Following(driver[r]))
  /\ UNCHANGED <<work, ralph, handler, left>>

Enqueue(r) ==
  /\ At(r) = "enqueue"
  /\ work' = [work EXCEPT ![r] = "waiting"]
  /\ Drive(r, Following(driver[r]))
  /\ UNCHANGED <<row, ralph, handler, left, past>>

StartRalph(r) ==
  /\ At(r) = "start"
  /\ ralph' = [ralph EXCEPT ![r] = TRUE]
  /\ Drive(r, Following(driver[r]))
  /\ UNCHANGED <<row, work, handler, left, past>>

(* Mutant: scores a harness whose Ralph is at work.                        *)
WaitNot(r) ==
  /\ At(r) = "wait"
  /\ Drive(r, Following(driver[r]))
  /\ UNCHANGED <<row, work, ralph, handler, left, past>>

Wait(r) ==
  /\ At(r) = "wait" /\ ~ralph[r]
  /\ Drive(r, Following(driver[r]))
  /\ UNCHANGED <<row, work, ralph, handler, left, past>>

(* Init, a hint or the start of Ralph fails: _fail ends the run as         *)
(* _close_hunt does.                                                       *)
Fails(r) ==
  /\ At(r) \in {"record", "enqueue", "start"} /\ driver[r].raw = Blank
  /\ Drive(r, [driver[r] EXCEPT !.line = Len(Script)])
  /\ UNCHANGED <<row, work, ralph, handler, left, past>>

(* Ralph leaves: its harness is through, or tasks are left.                *)
RalphLeaves(r) ==
  /\ ralph[r]
  /\ ralph' = [ralph EXCEPT ![r] = FALSE]
  /\ work' \in {work, [work EXCEPT ![r] = "done"]}
  /\ UNCHANGED <<row, driver, handler, left, past>>

-----------------------------------------------------------------------------
(* list_active_runs, for a poll or for find_active_live_run: the runs      *)
(* there are, one after the other.                                         *)
Ask(p, job) ==
  /\ handler[p] = Idle
  /\ Spend(job)
  /\ Set(p, [Idle EXCEPT !.job = job, !.step = "list",
                         !.todo = {r \in Runs : row[r].status # "none"}])
  /\ UNCHANGED <<row, work, ralph, driver, past>>

Back(h, found) == [h EXCEPT !.step = "list", !.seen = Blank, !.raw = Blank, !.run = "none",
                            !.found = @ \/ found]

See(p, r) ==
  /\ handler[p].step = "list" /\ r \in handler[p].todo
  /\ LET h == [handler[p] EXCEPT !.todo = @ \ {r}]
     IN  Set(p, IF Active(r) THEN [h EXCEPT !.step = "look", !.run = r, !.seen = row[r]] ELSE h)
  /\ UNCHANGED <<row, work, ralph, driver, left, past>>

(* reconcile_live_run: a run whose Ralph works is left alone, one without  *)
(* a harness given up when it is old.                                      *)
Look(p) ==
  /\ handler[p].step = "look"
  /\ LET h == handler[p]
     IN  IF h.seen.harness
         THEN Set(p, IF ralph[h.run] THEN Back(h, TRUE) ELSE [h EXCEPT !.step = "queued"])
         ELSE \/ Set(p, Back(h, TRUE))
              \/ Set(p, [h EXCEPT !.step = "end"])
  /\ UNCHANGED <<row, work, ralph, driver, left, past>>

(* Tasks that wait get a Ralph; a harness without any is scored.           *)
Queued(p) ==
  /\ handler[p].step = "queued"
  /\ LET h == handler[p]
     IN  IF work[h.run] = "waiting"
         THEN /\ ralph' = [ralph EXCEPT ![h.run] = TRUE]
              /\ past' = [past EXCEPT !.meddled = @ \union {h.run}]
              /\ Set(p, Back(h, Active(h.run)))
         ELSE /\ Set(p, [h EXCEPT !.step = "close"])
              /\ UNCHANGED <<ralph, past>>
  /\ UNCHANGED <<row, work, driver, left>>

(* The handler ends the run; _close_hunt asks once more whether it has     *)
(* ended, a stop and the end of an orphan do not.                          *)
EndRead(p) ==
  /\ handler[p].step \in {"close", "end"} /\ handler[p].raw = Blank
  /\ LET h == handler[p]
     IN  Set(p, IF h.step = "close" /\ ~Active(h.run) THEN Back(h, FALSE)
                ELSE [h EXCEPT !.raw = row[h.run]])
  /\ UNCHANGED <<row, work, ralph, driver, left, past>>

EndWrite(p) ==
  /\ handler[p].step \in {"close", "end"} /\ handler[p].raw # Blank
  /\ LET h == handler[p]
     IN  /\ row' = [row EXCEPT ![h.run] = [h.raw EXCEPT !.status = "ended"]]
         /\ past' = [past EXCEPT !.meddled = @ \union {h.run}]
         /\ Set(p, Back(h, FALSE))
  /\ UNCHANGED <<work, ralph, driver, left>>

(* Mutant: goes on although a run is active.                               *)
DecideBlind(p) ==
  /\ handler[p].step = "list" /\ handler[p].todo = {}
  /\ Set(p, IF handler[p].job = "start" THEN [handler[p] EXCEPT !.step = "create"] ELSE Idle)
  /\ UNCHANGED <<row, work, ralph, driver, left, past>>

(* The list is through: answer 409, or go on to create_run.                *)
Decide(p) ==
  /\ handler[p].step = "list" /\ handler[p].todo = {}
  /\ Set(p, IF handler[p].job = "start" /\ ~handler[p].found
            THEN [handler[p] EXCEPT !.step = "create"] ELSE Idle)
  /\ UNCHANGED <<row, work, ralph, driver, left, past>>

-----------------------------------------------------------------------------
(* start_live_run: the row, its first phase, the thread.                   *)
Create(p, r) ==
  /\ handler[p].step = "create" /\ row[r].status = "none"
  /\ row' = [row EXCEPT ![r].status = "open"]
  /\ past' = [past EXCEPT !.overlapped = @ \/ handler[p].late]
  /\ handler' = [q \in Handlers |->
       IF q = p THEN [handler[p] EXCEPT !.step = "phase", !.run = r]
       ELSE IF handler[q].job = "start" THEN [handler[q] EXCEPT !.late = TRUE] ELSE handler[q]]
  /\ UNCHANGED <<work, ralph, driver, left>>

Phase(p) ==
  /\ handler[p].step = "phase"
  /\ Set(p, [handler[p] EXCEPT !.step = "spawn", !.raw = row[handler[p].run]])
  /\ UNCHANGED <<row, work, ralph, driver, left, past>>

Spawn(p) ==
  /\ handler[p].step = "spawn"
  /\ Publish(handler[p].run, handler[p].raw)
  /\ Drive(handler[p].run, [NoDriver EXCEPT !.line = 1])
  /\ Set(p, Idle)
  /\ UNCHANGED <<work, ralph, left>>

(* cancel_live_run: kill the Ralph of the harness that was read, if any.   *)
Stop(p, r) ==
  /\ handler[p] = Idle /\ Active(r)
  /\ Spend("stop")
  /\ Set(p, [Idle EXCEPT !.job = "stop", !.step = "kill", !.run = r, !.seen = row[r]])
  /\ UNCHANGED <<row, work, ralph, driver, past>>

Kill(p) ==
  /\ handler[p].step = "kill"
  /\ LET h == handler[p]
     IN  /\ ralph' = IF h.seen.harness THEN [ralph EXCEPT ![h.run] = FALSE] ELSE ralph
         /\ Set(p, [h EXCEPT !.step = "end"])
  /\ UNCHANGED <<row, work, driver, left, past>>

(* The threads of the dashboard are gone; a Ralph goes on.                 *)
Restart ==
  /\ Spend("restart")
  /\ driver' = [r \in Runs |-> NoDriver]
  /\ handler' = [p \in Handlers |-> Idle]
  /\ UNCHANGED <<row, work, ralph, past>>

(* overlapped: a request created a run after another had done so since it  *)
(* asked; reopened: a write put a run that had ended back to running;      *)
(* meddled: runs a request ended, or started a Ralph for.                  *)
Init ==
  /\ row = [r \in Runs |-> Blank]
  /\ work = [r \in Runs |-> "none"]
  /\ ralph = [r \in Runs |-> FALSE]
  /\ driver = [r \in Runs |-> NoDriver]
  /\ handler = [p \in Handlers |-> Idle]
  /\ left \in Budgets
  /\ past = [overlapped |-> FALSE, reopened |-> FALSE, meddled |-> {}]

DriverStep(r) ==
  Check(r) \/ ReadRow(r) \/ WriteRow(r) \/ Enqueue(r) \/ StartRalph(r) \/ Wait(r) \/ Fails(r)
ListStep(p) == Look(p) \/ Queued(p) \/ EndRead(p) \/ EndWrite(p) \/ Decide(p)

Next ==
  \/ \E r \in Runs : DriverStep(r) \/ RalphLeaves(r)
  \/ \E p \in Handlers : ListStep(p) \/ Phase(p) \/ Spawn(p) \/ Kill(p)
  \/ \E p \in Handlers, r \in Runs : See(p, r) \/ Create(p, r) \/ Stop(p, r)
  \/ \E p \in Handlers, job \in {"poll", "start"} : Ask(p, job)
  \/ Restart

Spec == Init /\ [][Next]_vars

-----------------------------------------------------------------------------
(* One live run is active at a time, whatever requests start, poll, stop   *)
(* and give up, in any order (find_active_live_run, the 409 of             *)
(* api_benchmark_runs_create), unless two requests to start one overlapped *)
(* between the question and create_run, or a write that began before a run *)
(* ended put the run back to running.                                      *)
OneActive ==
  (\E g, h \in Runs : g # h /\ Active(g) /\ Active(h)) => past.overlapped \/ past.reopened

(* Two Ralphs of live runs work at once only if two runs could be active   *)
(* at once, or if a request got between one of the runs and its driver: it *)
(* ended the run (a stop, a poll that scored it or gave it up) or started  *)
(* a Ralph for it.  A driver alone leaves no Ralph behind.                 *)
RalphsAlone ==
  \A g, h \in Runs : (g # h /\ ralph[g] /\ ralph[h]) =>
    past.overlapped \/ past.reopened \/ past.meddled \intersect {g, h} # {}
=============================================================================
