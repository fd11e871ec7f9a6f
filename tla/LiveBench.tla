----------------------------- MODULE LiveBench ------------------------------
(***************************************************************************)
(* Live benchmarks.  A hunt is run for real: a daemon thread of the        *)
(* dashboard prepares a harness, has Ralph work in it, and scores what was *)
(* found.  Of a suite the thread drives the members one after the other    *)
(* and sums them up in a parent run.  Each run is one JSON file,           *)
(* result.json, which update_run reads and writes back as a whole without  *)
(* a lock, while                                                           *)
(*   - a page asks every second for the active runs, and the dashboard     *)
(*     answers by reconciling each (it may start a Ralph, score and close  *)
(*     a hunt, or give up a run older than half an hour);                  *)
(*   - the operator may stop a run;                                        *)
(*   - the dashboard may be restarted: its threads are gone, a Ralph is a  *)
(*     process of its own and goes on.                                     *)
(* A step is one read or one write of a file, one look at a pid, or one    *)
(* start or kill of a Ralph.  Two writers share the name of the temporary  *)
(* file, so one of two writes that overlap may fail (Collide).             *)
(*                                                                         *)
(* This is the life of one live run, from the one Start to its end.  What  *)
(* other requests to start a run may do beside it or after it, LiveStart   *)
(* says.                                                                   *)
(***************************************************************************)
EXTENDS Sequences, FiniteSets, Integers

CONSTANTS
  Hunts, Suite,    \* the runs: one per benchmark, and the parent of a suite
  Drive,           \* the daemon thread
  Requests,        \* handlers of the dashboard: polls, starts and stops
  Configs,         \* the instances Init chooses from
  MaxTasks         \* LIVE_MAX_TASKS, tasks after which Ralph leaves

Runs    == Hunts \union {Suite}
Threads == Requests \union {Drive}

ASSUME NamesAssumption == Suite \notin Hunts /\ Drive \notin Requests
ASSUME TasksAssumption == MaxTasks \in Nat \ {0}
(* members: the hunts of the suite, or the one hunt; hints: tasks a hunt   *)
(* begins with (its oracle names a sink or more); pages: the handlers that *)
(* may be at work at once; ages: half an hour may pass (in some instances  *)
(* it does not); stops, restarts, faults: bounds on the operator's stops,  *)
(* on restarts, and on failed steps, collisions and Ralphs that die.       *)
ASSUME ConfigsAssumption ==
  \A c \in Configs :
    /\ {c.suite, c.ages} \subseteq BOOLEAN /\ c.members \in Seq(Hunts) /\ c.members # <<>>
    /\ (~c.suite => Len(c.members) = 1)
    /\ \A i, j \in DOMAIN c.members : c.members[i] = c.members[j] => i = j
    /\ c.pages \subseteq Requests
    /\ c.hints \in Nat \ {0} /\ {c.stops, c.restarts, c.faults} \subseteq Nat

VARIABLES
  cfg,
  row,       \* result.json of each run
  harness,   \* per hunt: tasks not done, what was found, its Ralph
  at,        \* what each thread is at
  old,       \* the runs were started more than LIVE_ORPHAN_SECONDS ago
  used,      \* stops, restarts and faults so far
  past       \* history: see Nothing

vars == <<cfg, row, harness, at, old, used, past>>

Terminal == {"passed", "failed", "error", "cancelled"}
Statuses == Terminal \union {"none", "queued", "running"}
Ended(r) == r.status \in Terminal

(* harness: harness_run_dir is set; listed: metrics names the members.     *)
Rows  == [status : Statuses, harness : BOOLEAN, listed : BOOLEAN]
Blank == [status |-> "none", harness |-> FALSE, listed |-> FALSE]

(* ralph: the tasks this Ralph has done, or NoRalph; found: a finding that *)
(* the oracle names is in the database.                                    *)
NoRalph  == -1
Empty    == [work |-> 0, ralph |-> NoRalph, found |-> FALSE]
Alive(h) == harness[h].ralph # NoRalph

(* fed: the hints of the hunt were enqueued; ran: a Ralph was started for  *)
(* it; early: somebody found its harness empty before it was fed; polled:  *)
(* a poll started a Ralph; reopened: a write replaced a terminal status by *)
(* another one; collided: a write failed.                                  *)
Nothing == [fed |-> {}, ran |-> {}, early |-> {}, polled |-> FALSE, reopened |-> FALSE,
            collided |-> FALSE]

(* job: what the thread is for; step: its next operation; line: its line   *)
(* in Script; run, seen: the run at hand and its row when the thread last  *)
(* asked whether it has ended; raw: the row as update_run read it; put:    *)
(* what it will write; then: the step after that; todo: members still to   *)
(* create, drive or stop; kids, tally: members still to look at, and the   *)
(* statuses of the others; top: the parent as cancel_live_run read it.     *)
Idle == [job |-> "none", step |-> "idle", line |-> 0, run |-> Suite, seen |-> Blank,
         raw |-> Blank, put |-> "keep", then |-> "idle", todo |-> <<>>, kids |-> <<>>,
         tally |-> {}, top |-> Blank]

(* drive_live_hunt from top to bottom.                                     *)
Script == <<"open", "mark", "open", "resolve", "mark", "open", "init", "record", "mark", "open",
            "enqueue", "mark", "open", "start", "wait", "open", "mark", "score", "close">>

Steps == {Script[i] : i \in 1..Len(Script)}
           \union {"idle", "done", "loop", "parent", "kids", "finish", "write", "fail", "suiteFail",
                   "alive", "queued", "create", "spawn", "kid", "kill"}
Jobs  == {"none", "drive", "dying", "poll", "start", "stop"}
Puts  == Terminal \union {"running", "keep", "harness", "list"}

Members == cfg.members

Spend(what, limit) == used[what] < limit /\ used' = [used EXCEPT ![what] = @ + 1]
Fault == Spend("faults", cfg.faults)

-----------------------------------------------------------------------------
(* What a thread does next.                                                *)
Set(p, t)     == at' = [at EXCEPT ![p] = t]
Goto(p, step) == Set(p, [at[p] EXCEPT !.step = step])

Following(t) == [t EXCEPT !.line = @ + 1, !.step = Script[t.line + 1]]

(* drive_live_hunt, or the whole of a request, returns.                    *)
Done(t) ==
  IF t.job = "drive" /\ cfg.suite
  THEN [Idle EXCEPT !.job = "drive", !.step = "parent", !.then = "loop", !.todo = Tail(t.todo)]
  ELSE Idle

After(t) ==
  CASE t.then = "idle" -> Idle
    [] t.then = "done" -> Done(t)
    [] OTHER -> [t EXCEPT !.step = t.then, !.then = "idle", !.raw = Blank, !.put = "keep"]

(* A write fails: drive_live_hunt and drive_live_suite record an error,    *)
(* unless the write was the one that records it; a request answers 500.    *)
Raised(t) ==
  CASE t.job = "drive" /\ t.run \in Hunts /\ t.put # "error" ->
         [t EXCEPT !.step = "fail", !.raw = Blank, !.put = "keep"]
    [] t.job = "drive" /\ cfg.suite /\ (t.run = Suite \/ t.put = "error") ->
         [t EXCEPT !.step = "suiteFail", !.raw = Blank, !.put = "keep"]
    [] OTHER -> Idle

Finish(t, put, then) == [t EXCEPT !.step = "finish", !.put = put, !.then = then]

-----------------------------------------------------------------------------
(* update_run: read the row, write it back with some fields changed.       *)
Patched(raw, put) ==
  CASE put = "keep"    -> raw
    [] put = "harness" -> [raw EXCEPT !.harness = TRUE]
    [] put = "list"    -> [raw EXCEPT !.listed = TRUE]
    [] OTHER           -> [raw EXCEPT !.status = put]

ReadFor(p, t, put, then) ==
  Set(p, [t EXCEPT !.step = "write", !.raw = row[t.run], !.put = put, !.then = then])

ReadRow(p) ==
  /\ at[p].step = "finish"
  /\ ReadFor(p, at[p], at[p].put, at[p].then)
  /\ UNCHANGED <<cfg, row, harness, old, used, past>>

Publish(t, collision) ==
  LET new == Patched(t.raw, t.put)
  IN  /\ row' = [row EXCEPT ![t.run] = new]
      /\ past' = [past EXCEPT !.collided = @ \/ collision,
                    !.reopened = @ \/ (Ended(row[t.run]) /\ new.status # row[t.run].status)]

WriteRow(p) ==
  /\ at[p].step = "write"
  /\ Publish(at[p], FALSE)
  /\ Set(p, After(at[p]))
  /\ UNCHANGED <<cfg, harness, old, used>>

(* Two threads have written the temporary file; the first to rename it     *)
(* publishes what the second wrote, and the second finds no file.          *)
Collide(p, q) ==
  /\ p # q /\ at[p].step = "write" /\ at[q].step = "write" /\ at[p].run = at[q].run
  /\ Fault
  /\ Publish(at[q], TRUE)
  /\ at' = [at EXCEPT ![p] = After(at[p]), ![q] = Raised(at[q])]
  /\ UNCHANGED <<cfg, harness, old>>

-----------------------------------------------------------------------------
(* The Ralph of a harness.                                                 *)
StartRalph(h) == harness' = [harness EXCEPT ![h].ralph = 0]

RalphWorks(h) ==
  /\ Alive(h) /\ harness[h].ralph < MaxTasks /\ harness[h].work > 0
  /\ \E hit \in BOOLEAN :
       harness' = [harness EXCEPT ![h] =
                     [work |-> @.work - 1, ralph |-> @.ralph + 1, found |-> @.found \/ hit]]
  /\ UNCHANGED <<cfg, row, at, old, used, past>>

(* It leaves when nothing waits or when it has done its share, or dies.    *)
RalphLeaves(h) ==
  /\ Alive(h)
  /\ \/ /\ harness[h].work = 0 \/ harness[h].ralph = MaxTasks
        /\ UNCHANGED used
     \/ Fault
  /\ harness' = [harness EXCEPT ![h].ralph = NoRalph]
  /\ UNCHANGED <<cfg, row, at, old, past>>

-----------------------------------------------------------------------------
(* drive_live_suite: the next member, unless the parent has ended.         *)
Loop(p) ==
  /\ at[p].step = "loop"
  /\ IF at[p].todo = <<>> \/ Ended(row[Suite])
     THEN Set(p, [at[p] EXCEPT !.step = "parent", !.then = "idle"])
     ELSE Set(p, [at[p] EXCEPT !.step = Script[1], !.line = 1, !.run = Head(at[p].todo)])
  /\ UNCHANGED <<cfg, row, harness, old, used, past>>

(* drive_live_hunt.  _open_live returns nothing for a run that has ended.  *)
OpenLive(p) ==
  /\ at[p].step = "open"
  /\ LET t == [at[p] EXCEPT !.seen = row[at[p].run]]
     IN  Set(p, IF Ended(t.seen) THEN Done(t) ELSE Following(t))
  /\ UNCHANGED <<cfg, row, harness, old, used, past>>

(* _set_live_phase changes metrics only, but writes the whole row.         *)
Mark(p) ==
  /\ at[p].step \in {"mark", "record"}
  /\ LET next == Following(at[p])
     IN  ReadFor(p, next, IF at[p].step = "mark" THEN "keep" ELSE "harness", next.step)
  /\ UNCHANGED <<cfg, row, harness, old, used, past>>

(* The target is missing, init fails, a hint is refused, Ralph does not    *)
(* start.                                                                  *)
LineFails(p) ==
  /\ at[p].step \in {"resolve", "init", "enqueue", "start"}
  /\ Fault
  /\ Goto(p, "fail")
  /\ UNCHANGED <<cfg, row, harness, old, past>>

Prepare(p) ==
  /\ at[p].step \in {"resolve", "init"}
  /\ Set(p, Following(at[p]))
  /\ UNCHANGED <<cfg, row, harness, old, used, past>>

EnqueueHints(p) ==
  /\ at[p].step = "enqueue"
  /\ harness' = [harness EXCEPT ![at[p].run].work = @ + cfg.hints]
  /\ past' = [past EXCEPT !.fed = @ \union {at[p].run}]
  /\ Set(p, Following(at[p]))
  /\ UNCHANGED <<cfg, row, old, used>>

(* "already running" is as good as a start.                                *)
StartOne(p) ==
  /\ at[p].step = "start"
  /\ IF Alive(at[p].run) THEN UNCHANGED <<harness, past>>
     ELSE /\ StartRalph(at[p].run)
          /\ past' = [past EXCEPT !.ran = @ \union {at[p].run}]
  /\ Set(p, Following(at[p]))
  /\ UNCHANGED <<cfg, row, old, used>>

(* Mutant: does not wait for Ralph.                                        *)
WaitNot(p) ==
  /\ at[p].step = "wait"
  /\ Set(p, Following(at[p]))
  /\ UNCHANGED <<cfg, row, harness, old, used, past>>

WaitIdle(p) ==
  /\ at[p].step = "wait" /\ ~Alive(at[p].run)
  /\ Set(p, Following(at[p]))
  /\ UNCHANGED <<cfg, row, harness, old, used, past>>

(* score_live_hunt and the status it is worth.                             *)
Score(p) ==
  /\ at[p].step = "score"
  /\ Set(p, [at[p] EXCEPT !.step = "close",
                          !.put = IF harness[at[p].run].found THEN "passed" ELSE "failed"])
  /\ UNCHANGED <<cfg, row, harness, old, used, past>>

(* Mutant: closes a run that has ended as well.                            *)
CloseHuntBlind(p) ==
  /\ at[p].step = "close"
  /\ Set(p, Finish([at[p] EXCEPT !.seen = row[at[p].run]], at[p].put, "done"))
  /\ UNCHANGED <<cfg, row, harness, old, used, past>>

(* _close_hunt.                                                            *)
CloseHunt(p) ==
  /\ at[p].step = "close"
  /\ LET t == [at[p] EXCEPT !.seen = row[at[p].run]]
     IN  Set(p, IF Ended(t.seen) THEN Done(t) ELSE Finish(t, t.put, "done"))
  /\ UNCHANGED <<cfg, row, harness, old, used, past>>

(* _fail, and the handler of drive_live_suite.                             *)
Fail(p) ==
  /\ at[p].step \in {"fail", "suiteFail"}
  /\ LET r == IF at[p].step = "fail" THEN at[p].run ELSE Suite
         t == [at[p] EXCEPT !.run = r, !.seen = row[r]]
     IN  Set(p, IF at[p].step = "fail"
                THEN IF Ended(t.seen) THEN Done(t) ELSE Finish(t, "error", "done")
                ELSE IF Ended(t.seen) THEN Idle
                ELSE Finish([t EXCEPT !.job = "dying"], "error", "idle"))
  /\ UNCHANGED <<cfg, row, harness, old, used, past>>

-----------------------------------------------------------------------------
(* project_suite_parent: look at the parent and at one member after the    *)
(* other, and write the sum.                                               *)
(* Mutant: sums up the members that have ended.                            *)
VerdictOfEnded(parent, tally) ==
  IF Ended(parent) THEN parent.status
  ELSE IF tally \intersect Terminal = {"passed"} THEN "passed" ELSE "running"

Verdict(parent, tally) ==
  IF Ended(parent) THEN parent.status
  ELSE CASE ~(tally \subseteq Terminal) -> "running"
         [] tally = {"passed"}          -> "passed"
         [] tally = {"error"}           -> "error"
         [] OTHER                       -> "failed"

Parent(p) ==
  /\ at[p].step = "parent"
  /\ Set(p, [at[p] EXCEPT !.step = "kids", !.run = Suite, !.seen = row[Suite], !.kids = Members])
  /\ UNCHANGED <<cfg, row, harness, old, used, past>>

NextKid(p) ==
  /\ at[p].step = "kids"
  /\ LET t     == at[p]
         tally == t.tally \union {row[Head(t.kids)].status}
         next  == [t EXCEPT !.kids = Tail(@)]
     IN  Set(p, IF next.kids # <<>> THEN [next EXCEPT !.tally = tally]
                ELSE Finish([next EXCEPT !.tally = {}], Verdict(t.seen, tally), t.then))
  /\ UNCHANGED <<cfg, row, harness, old, used, past>>

-----------------------------------------------------------------------------
(* Mutant: waits for a run without harness for ever.                       *)
LookNoOrphan(p, r) ==
  /\ at[p] = Idle /\ p \in cfg.pages
  /\ row[r].status \in {"queued", "running"}
  /\ LET t == [Idle EXCEPT !.job = "poll", !.run = r, !.seen = row[r]]
     IN  \/ row[r].listed /\ Set(p, [t EXCEPT !.step = "parent"])
         \/ row[r].harness /\ Set(p, [t EXCEPT !.step = "alive"])
  /\ UNCHANGED <<cfg, row, harness, old, used, past>>

(* reconcile_live_run, for one of the active runs.                         *)
Look(p, r) ==
  /\ at[p] = Idle /\ p \in cfg.pages
  /\ row[r].status \in {"queued", "running"}
  /\ LET t == [Idle EXCEPT !.job = "poll", !.run = r, !.seen = row[r]]
     IN  \/ row[r].listed /\ Set(p, [t EXCEPT !.step = "parent"])
         \/ row[r].harness /\ Set(p, [t EXCEPT !.step = "alive"])
         \/ ~row[r].listed /\ ~row[r].harness /\ old /\ Set(p, Finish(t, "error", "idle"))
  /\ UNCHANGED <<cfg, row, harness, old, used, past>>

LookAlive(p) ==
  /\ at[p].step = "alive"
  /\ Set(p, IF Alive(at[p].run) THEN Idle ELSE [at[p] EXCEPT !.step = "queued"])
  /\ UNCHANGED <<cfg, row, harness, old, used, past>>

(* Mutant: scores without has_queued_or_leased.                            *)
LookQueuedNot(p) ==
  /\ at[p].step = "queued"
  /\ Goto(p, "score")
  /\ past' = [past EXCEPT !.early = IF at[p].run \in past.fed THEN @ ELSE @ \union {at[p].run}]
  /\ UNCHANGED <<cfg, row, harness, old, used>>

(* A harness with work gets a Ralph (start_run looks once more whether it  *)
(* has one), one without is scored.                                        *)
LookQueued(p) ==
  /\ at[p].step = "queued"
  /\ LET r == at[p].run
     IN  IF harness[r].work > 0
         THEN /\ Set(p, Idle)
              /\ IF Alive(r) THEN UNCHANGED <<harness, past>>
                 ELSE /\ StartRalph(r)
                      /\ past' = [past EXCEPT !.ran = @ \union {r}, !.polled = TRUE]
         ELSE /\ Goto(p, "score")
              /\ past' = [past EXCEPT !.early = IF r \in past.fed THEN @ ELSE @ \union {r}]
              /\ UNCHANGED harness
  /\ UNCHANGED <<cfg, row, old, used>>

-----------------------------------------------------------------------------
(* cancel_live_run: of a suite the members first, then the parent.         *)
Stop(p, r) ==
  /\ at[p] = Idle /\ p \in cfg.pages
  /\ row[r].status \in {"queued", "running"}
  /\ Spend("stops", cfg.stops)
  /\ LET t == [Idle EXCEPT !.job = "stop", !.run = r, !.seen = row[r]]
     IN  Set(p, IF row[r].listed
                THEN [t EXCEPT !.step = "kid", !.todo = Members, !.top = row[r]]
                ELSE [t EXCEPT !.step = "kill"])
  /\ UNCHANGED <<cfg, row, harness, old, past>>

StopKid(p) ==
  /\ at[p].step = "kid"
  /\ LET t == at[p]
     IN  IF t.todo = <<>>
         THEN Set(p, Finish([t EXCEPT !.run = Suite, !.seen = t.top], "cancelled", "parent"))
         ELSE LET r    == Head(t.todo)
                  next == [t EXCEPT !.todo = Tail(@)]
              IN  Set(p, IF Ended(row[r]) THEN next
                         ELSE [next EXCEPT !.step = "kill", !.run = r, !.seen = row[r]])
  /\ UNCHANGED <<cfg, row, harness, old, used, past>>

(* _stop_harness, of the run as it was read.                               *)
Kill(p) ==
  /\ at[p].step = "kill"
  /\ harness' = IF at[p].seen.harness
                THEN [harness EXCEPT ![at[p].run].ralph = NoRalph] ELSE harness
  /\ Set(p, Finish(at[p], "cancelled", IF at[p].top = Blank THEN "idle" ELSE "kid"))
  /\ UNCHANGED <<cfg, row, old, used, past>>

-----------------------------------------------------------------------------
(* start_live_run and start_live_suite, for the run that is followed (what *)
(* is asked before create_run, and other starts: see LiveStart).           *)
First == IF cfg.suite THEN Suite ELSE Head(Members)

Start(p) ==
  /\ at[p] = Idle /\ p \in cfg.pages
  /\ \A r \in Runs : row[r].status = "none"
  /\ row' = [row EXCEPT ![First].status = "running"]
  /\ LET t == [Idle EXCEPT !.job = "start", !.run = First]
     IN  \/ Fault /\ Set(p, Finish(t, "error", "idle"))
         \/ /\ Set(p, IF cfg.suite THEN [t EXCEPT !.step = "create", !.todo = Members]
                      ELSE Finish(t, "keep", "spawn"))
            /\ UNCHANGED used
  /\ UNCHANGED <<cfg, harness, old, past>>

Create(p) ==
  /\ at[p].step = "create"
  /\ LET t == at[p]
     IN  \/ /\ Fault
            /\ Set(p, Finish(t, "error", "idle"))
            /\ UNCHANGED row
         \/ /\ row' = [row EXCEPT ![Head(t.todo)].status = "queued"]
            /\ LET next == [t EXCEPT !.todo = Tail(@)]
               IN  Set(p, IF next.todo # <<>> THEN next ELSE Finish(next, "list", "spawn"))
            /\ UNCHANGED used
  /\ UNCHANGED <<cfg, harness, old, past>>

Spawn(p) ==
  /\ at[p].step = "spawn"
  /\ LET t == [Idle EXCEPT !.job = "drive", !.todo = Members]
     IN  at' = [at EXCEPT ![p] = Idle,
                  ![Drive] = IF cfg.suite THEN [t EXCEPT !.step = "loop"]
                             ELSE [t EXCEPT !.run = First, !.line = 1, !.step = Script[1]]]
  /\ UNCHANGED <<cfg, row, harness, old, used, past>>

-----------------------------------------------------------------------------
(* The dashboard is restarted.  The time of an orphan passes.              *)
Restart ==
  /\ Spend("restarts", cfg.restarts)
  /\ at' = [p \in Threads |-> Idle]
  /\ UNCHANGED <<cfg, row, harness, old, past>>

Age ==
  /\ cfg.ages /\ ~old /\ old' = TRUE
  /\ UNCHANGED <<cfg, row, harness, at, used, past>>

Init ==
  /\ cfg \in Configs
  /\ row = [r \in Runs |-> Blank]
  /\ harness = [h \in Hunts |-> Empty]
  /\ at = [p \in Threads |-> Idle]
  /\ old = FALSE
  /\ used = [what \in {"stops", "restarts", "faults"} |-> 0]
  /\ past = Nothing

UpdateStep(p) == ReadRow(p) \/ WriteRow(p)
DriveStep(p) ==
  \/ Loop(p) \/ OpenLive(p) \/ Mark(p) \/ LineFails(p) \/ Prepare(p) \/ EnqueueHints(p)
  \/ StartOne(p) \/ WaitIdle(p) \/ Fail(p)
SharedStep(p) == Score(p) \/ CloseHunt(p) \/ Parent(p) \/ NextKid(p)
RequestStep(p) == LookAlive(p) \/ LookQueued(p) \/ StopKid(p) \/ Kill(p) \/ Create(p) \/ Spawn(p)
ThreadStep(p) == UpdateStep(p) \/ DriveStep(p) \/ SharedStep(p) \/ RequestStep(p)

Next ==
  \/ \E p \in Threads : ThreadStep(p)
  \/ \E p, q \in Threads : Collide(p, q)
  \/ \E p \in Requests, r \in Runs : Look(p, r) \/ Stop(p, r)
  \/ \E p \in Requests : Start(p)
  \/ \E h \in Hunts : RalphWorks(h) \/ RalphLeaves(h)
  \/ Restart \/ Age

Spec == Init /\ [][Next]_vars

(* A thread runs on, Ralph works and leaves, half an hour passes, and the  *)
(* page of the benchmarks stays open: it asks for every active run.        *)
FairSpec ==
  /\ Spec
  /\ \A p \in Threads : WF_vars(ThreadStep(p))
  /\ \A r \in Runs : SF_vars(\E p \in Requests : Look(p, r))
  /\ \A h \in Hunts : WF_vars(RalphWorks(h) \/ RalphLeaves(h))
  /\ WF_vars(Age)

-----------------------------------------------------------------------------
(* The rows, the harnesses and the threads have their types.               *)
Locals == [job : Jobs, step : Steps, line : 0..Len(Script), run : Runs, seen : Rows, raw : Rows,
           put : Puts, then : Steps, todo : Seq(Hunts), kids : Seq(Hunts),
           tally : SUBSET Statuses, top : Rows]
TypeOK ==
  /\ cfg \in Configs
  /\ row \in [Runs -> Rows]
  /\ harness \in [Hunts -> [work : Nat, ralph : Nat \union {NoRalph}, found : BOOLEAN]]
  /\ at \in [Threads -> Locals]
  /\ old \in BOOLEAN
  /\ used \in [{"stops", "restarts", "faults"} -> Nat]
  /\ past \in [fed : SUBSET Hunts, ran : SUBSET Hunts, early : SUBSET Hunts, polled : BOOLEAN,
               reopened : BOOLEAN, collided : BOOLEAN]

(* A hunt is closed as scored only if a Ralph was started for it, or if    *)
(* somebody looked at the harness between init and the first hint          *)
(* (reconcile_live_run cannot tell that from a hunt that is through).      *)
HuntRan ==
  \A h \in Hunts : row[h].status \in {"passed", "failed"} => h \in past.ran \union past.early

(* A suite that passed or failed has no member left open, and one that     *)
(* passed none that did not: true until an overlapping write reopens or    *)
(* changes a run that had ended.                                           *)
VerdictBacked ==
  (row[Suite].status \in {"passed", "failed"} /\ ~past.reopened) =>
     \A i \in DOMAIN Members :
       /\ Ended(row[Members[i]])
       /\ row[Suite].status = "passed" => row[Members[i]].status = "passed"

(* The driver of a suite never lets two members work at once, whatever     *)
(* fails, is stopped or collides: it starts one Ralph and waits for its    *)
(* end.  Two Ralphs of one suite work at once only after a poll has        *)
(* started one.                                                            *)
OneRalph ==
  (\E g, h \in Hunts : g # h /\ Alive(g) /\ Alive(h)) => past.polled

(* Who has seen that a run ended neither gives it another end nor starts a *)
(* Ralph for it: only a thread that asked before can do so, and one that   *)
(* sums up a suite again writes back the end it has read.                  *)
EndHeeded ==
  [][/\ \A r \in Runs :
          Ended(row[r]) /\ row'[r].status # row[r].status =>
            \E p \in Threads : /\ at[p].step = "write" /\ at[p].run = r
                               /\ ~Ended(at[p].seen) \/ at[p].put = at[p].seen.status
     /\ \A h \in Hunts :
          ~Alive(h) /\ Alive(h)' =>
            \E p \in Threads : /\ at[p].step \in {"start", "queued"} /\ at[p].run = h
                               /\ ~Ended(at[p].seen)]_vars

(* Every run that was created ends for good, whatever is stopped, fails or *)
(* is restarted, also the members nobody drives.                           *)
LiveCloses == <>[](\A r \in Runs : row[r].status = "none" \/ Ended(row[r]))
=============================================================================
