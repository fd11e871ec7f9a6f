----------------------------- MODULE ReconBatch -----------------------------
(***************************************************************************)
(* A recon with several agents.  Each agent is a task of its own; the      *)
(* tasks of a batch write one after the other into the run's single        *)
(* architecture map, and the one that finds no sibling left claims the     *)
(* batch and plans the hunts from the whole map.  Meanwhile the operator   *)
(* may edit the map or restore an old revision of it.                      *)
(*                                                                         *)
(* The map is one column, read and later written as a whole: a step is one *)
(* SQL statement, and the merge of two maps takes place between two of     *)
(* them.  The mechanical merge keeps what both maps hold; the model, asked *)
(* first, may be shown them cut short, and what its answer leaves out is   *)
(* gone from the map.  Leases are TaskQueue's subject, the agent loop and  *)
(* its continue tool HuntTree's.                                           *)
(***************************************************************************)
EXTENDS HuntPlan, FiniteSets

CONSTANTS
  Workers, Agents,
  Operator,        \* who edits the map; also stands for what it held before
  NoWorker,
  Configs,         \* the configurations Init chooses from
  Classes,         \* of vulnerabilities
  Focus,           \* contributor -> the hunts it puts into hunt_focus
  MaxTasks,        \* run.max_tasks
  MaxAreas         \* 6 or 8, by the size of the target

Contributors == Agents \union {Operator}

Hunts == [area : Contributors, class : Classes]

ASSUME NamesAssumption ==
  Operator \notin Agents /\ NoWorker \notin Workers /\ IsFiniteSet(Workers)
ASSUME FocusAssumption == Focus \in [Contributors -> Seq(Hunts)]
ASSUME CapsAssumption == {MaxTasks, MaxAreas} \subseteq Nat \ {0}
(* agents: in the order in which they are to run; fanout: a waiting task   *)
(* names them all and expands itself, otherwise the request enqueues one   *)
(* task after the other; workers: run-once processes at a time; allowed:   *)
(* the classes of the run; accepted: those a map's focus may name, all     *)
(* there are where the run hunts with every active one; llm:               *)
(* run.architecture_llm_merge; long: the run has more than 500 tasks;      *)
(* earlier: there is a map, with the marker of an earlier batch; retries,  *)
(* continues: run.max_recon_auto_retries and run.max_continue_depth;       *)
(* edits, faults: bounds on the operator's writes, and on crashes, expired *)
(* leases, cancels and infra trouble.                                      *)
IsConfig(c) ==
  /\ DOMAIN c = {"agents", "fanout", "workers", "allowed", "accepted", "llm", "long", "earlier",
                 "retries", "continues", "edits", "faults"}
  /\ c.agents \in Seq(Agents) /\ c.agents # <<>> /\ c.allowed \in Seq(Classes)
  /\ c.accepted \subseteq Classes
  /\ {c.fanout, c.llm, c.long, c.earlier} \subseteq BOOLEAN /\ (c.fanout => Len(c.agents) > 1)
  /\ {c.workers, c.retries, c.continues, c.edits, c.faults} \subseteq Nat

ASSUME ConfigsAssumption == \A c \in Configs : IsConfig(c)

VARIABLES
  cfg,
  todo,      \* agents whose task the request has not enqueued yet
  tasks,     \* queued and leased tasks: id -> payload and owner
  map,       \* architecture_json
  revisions, \* maps that a write has replaced
  page,      \* the map in the operator's editor
  at,        \* per worker: its step, its copy of the task, what it has read
  plans,     \* how many workers planned hunts, how many enqueued them all
  past       \* history: see Nothing

vars == <<cfg, todo, tasks, map, revisions, page, at, plans, past>>

Maps  == [parts : Seq(Contributors), marks : SUBSET {"earlier", "this"}]
NoMap == [parts |-> <<>>, marks |-> {}]

(* stored: who wrote a part; omitted: whose part a model's answer left     *)
(* out; lost: a write put back an older map; twin: a task ran twice at a   *)
(* time; crash: a worker died; cut: a task was cancelled; ok: the last     *)
(* task to end had written its part.                                       *)
Nothing == [stored |-> {}, omitted |-> {}, lost |-> FALSE, twin |-> FALSE,
            crash |-> FALSE, cut |-> FALSE, ok |-> FALSE]

Job(agent, many) == [agent |-> agent, many |-> many, gen |-> 1, cont |-> 0, from |-> 0]
Free == [step |-> "idle", id |-> 0, job |-> Job(cfg.agents[1], FALSE), fan |-> <<>>,
         read |-> NoMap, plan |-> <<>>, left |-> 0]

Batch     == Len(cfg.agents) > 1
Owner(i)  == tasks[i].owner
Ids       == Nat \ {0}
NewId     == CHOOSE i \in 1..(3 * (Cardinality(DOMAIN tasks) + Cardinality(Workers)) + 1) :
               /\ i \notin DOMAIN tasks \union {at[w].id : w \in Workers}
               /\ \A j \in DOMAIN tasks : tasks[j].job.from # i
Enqueue(job) == tasks' = [i \in DOMAIN tasks \union {NewId} |->
                  IF i = NewId THEN [job |-> job, owner |-> NoWorker] ELSE tasks[i]]
(* Nobody asks for the continuation of a task that has ended.              *)
Without(i) == [j \in DOMAIN tasks \ {i} |->
                 IF tasks[j].job.from = i /\ Cardinality({w \in Workers : at[w].id = i}) < 2
                 THEN [tasks[j] EXCEPT !.job.from = 0] ELSE tasks[j]]
Requeued(i) == [tasks EXCEPT ![i].owner = NoWorker]

Become(w, s)  == at' = [at EXCEPT ![w] = s]
Goto(w, step) == Become(w, [at[w] EXCEPT !.step = step])
Write(m, base, by) ==
  /\ map' = m
  /\ past' = [past EXCEPT !.lost = @ \/ map # base, !.stored = @ \union by]
Recorded == IF map.parts = <<>> THEN revisions ELSE revisions \union {map}
Extended(parts, c) == IF Contains(parts, c) THEN parts ELSE Append(parts, c)

-----------------------------------------------------------------------------
(* Making a batch.                                                         *)

EnqueueSibling ==
  /\ todo # <<>>
  /\ Enqueue(Job(Head(todo), FALSE))
  /\ todo' = Tail(todo)
  /\ UNCHANGED <<cfg, map, revisions, page, at, plans, past>>

Lease(w, i) ==
  /\ at[w].step = "idle" /\ i \in DOMAIN tasks /\ Owner(i) = NoWorker
  /\ Cardinality({v \in Workers : at[v].step # "idle"}) < cfg.workers
  /\ tasks' = [tasks EXCEPT ![i].owner = w]
  /\ Become(w, [Free EXCEPT !.step = IF tasks[i].job.many THEN "expand" ELSE "agent",
                            !.id = i, !.job = [tasks[i].job EXCEPT !.from = 0]])
  /\ UNCHANGED <<cfg, todo, map, revisions, page, plans, past>>

(* The task keeps the first agent, so that a retry does not expand again.  *)
Expand(w) ==
  /\ at[w].step = "expand"
  /\ LET job == [at[w].job EXCEPT !.many = FALSE]
     IN  /\ tasks' = [i \in DOMAIN tasks |->
                        IF i = at[w].id THEN [tasks[i] EXCEPT !.job = job] ELSE tasks[i]]
         /\ Become(w, [at[w] EXCEPT !.step = "fan", !.job = job, !.fan = Tail(cfg.agents)])
  /\ UNCHANGED <<cfg, todo, map, revisions, page, plans, past>>

FanOut(w) ==
  /\ at[w].step = "fan" /\ at[w].fan # <<>>
  /\ Enqueue(Job(Head(at[w].fan), FALSE))
  /\ Become(w, [at[w] EXCEPT !.fan = Tail(@),
                             !.step = IF Len(at[w].fan) = 1 THEN "agent" ELSE "fan"])
  /\ UNCHANGED <<cfg, todo, map, revisions, page, plans, past>>

-----------------------------------------------------------------------------
(* The agent loop ends.                                                    *)

Continuation(w) == [at[w].job EXCEPT !.cont = @ + 1, !.from = at[w].id]
MayContinue(w)  == at[w].job.cont < cfg.continues
(* A continuation that is under way already is not enqueued again, but     *)
(* where it is not among the run's 500 oldest tasks.                       *)
EnqueueContinuation(w) ==
  LET underway == \E i \in DOMAIN tasks : tasks[i].job.from = at[w].id
  IN  \/ underway /\ UNCHANGED tasks
      \/ (~underway \/ cfg.long) /\ Enqueue(Continuation(w))

(* Mutant: the child keeps its parent's generation.                        *)
RetrySameGeneration(w) ==
  IF at[w].job.gen >= 1 + cfg.retries THEN UNCHANGED tasks
  ELSE Enqueue([at[w].job EXCEPT !.cont = 0, !.from = 0])
MaybeAutoRetry(w) ==
  IF at[w].job.gen >= 1 + cfg.retries THEN UNCHANGED tasks
  ELSE Enqueue([at[w].job EXCEPT !.gen = @ + 1, !.cont = 0, !.from = 0])

(* The agent, or the harness for it, hands over to a child and stores      *)
(* nothing.                                                                *)
Continued(w) ==
  /\ at[w].step = "agent" /\ MayContinue(w)
  /\ EnqueueContinuation(w)
  /\ Goto(w, "failed")
  /\ UNCHANGED <<cfg, todo, map, revisions, page, plans, past>>

(* An overflow of the context is continued rather than retried.            *)
Fails(w) ==
  /\ at[w].step = "agent"
  /\ \/ UNCHANGED tasks        \* an abort: not recoverable
     \/ MaybeAutoRetry(w)
     \/ MayContinue(w) /\ EnqueueContinuation(w)
  /\ Goto(w, "failed")
  /\ UNCHANGED <<cfg, todo, map, revisions, page, plans, past>>

(* The agent submitted a part; the map it is to be merged into is read.    *)
Submits(w) ==
  /\ at[w].step = "agent"
  /\ Become(w, [at[w] EXCEPT !.step = "merge", !.read = map])
  /\ UNCHANGED <<cfg, todo, tasks, map, revisions, page, plans, past>>

(* Mutants: the old map is left behind; its marker is.                     *)
MergedAlone(w)     == [parts |-> <<at[w].job.agent>>, marks |-> at[w].read.marks]
MergedUnmarked(w)  == [parts |-> Extended(at[w].read.parts, at[w].job.agent), marks |-> {}]
Merged(w) == [parts |-> Extended(at[w].read.parts, at[w].job.agent),
              marks |-> at[w].read.marks]

(* The model answers with some of what it was asked to merge, in an order  *)
(* of its own.                                                             *)
Given(w)   == ToSet(at[w].read.parts) \union {at[w].job.agent}
Answers(w) == IF cfg.llm /\ at[w].read.parts # <<>>
              THEN UNION {Injection(1..n, Given(w)) : n \in 1..(Len(at[w].read.parts) + 1)}
              ELSE {}

Store(w, m, omitted) ==
  /\ map' = m
  /\ past' = [past EXCEPT !.lost = @ \/ map # at[w].read,
                          !.stored = @ \union {at[w].job.agent},
                          !.omitted = @ \union omitted]

(* Without an answer that can be read the merge is mechanical.             *)
StoreMerged(w) ==
  /\ at[w].step = "merge"
  /\ \/ Store(w, Merged(w), {})
     \/ \E parts \in Answers(w) :
          Store(w, [Merged(w) EXCEPT !.parts = parts], Given(w) \ ToSet(parts))
  /\ revisions' = Recorded
  /\ Become(w, [at[w] EXCEPT !.step = "look", !.read = NoMap])
  /\ UNCHANGED <<cfg, todo, tasks, page, plans>>

-----------------------------------------------------------------------------
(* The last sibling plans the hunts.                                       *)

(* No task of the batch is queued or leased but this one.  It is looked    *)
(* for among the run's 500 oldest tasks: in a long run siblings are        *)
(* missed.  Mutant: this one counts, too.                                  *)
ReadyIfNone(w) == DOMAIN tasks = {}
Ready(w) == DOMAIN tasks \subseteq {at[w].id}

Look(w) ==
  /\ at[w].step = "look"
  /\ \/ Goto(w, IF ~Batch THEN "plan" ELSE IF Ready(w) THEN "claim" ELSE "ended")
     \/ Batch /\ cfg.long /\ Goto(w, "claim")
  /\ UNCHANGED <<cfg, todo, tasks, map, revisions, page, plans, past>>

Claim(w) ==
  /\ at[w].step = "claim"
  /\ Become(w, IF "this" \in map.marks THEN [at[w] EXCEPT !.step = "ended"]
                ELSE [at[w] EXCEPT !.step = "mark", !.read = map])
  /\ UNCHANGED <<cfg, todo, tasks, map, revisions, page, plans, past>>

(* The marker is no revision.                                              *)
Mark(w) ==
  /\ at[w].step = "mark"
  /\ Write([at[w].read EXCEPT !.marks = @ \union {"this"}], at[w].read, {})
  /\ Become(w, [at[w] EXCEPT !.step = "plan", !.read = NoMap])
  /\ UNCHANGED <<cfg, todo, tasks, revisions, page, plans>>

FocusOf(parts) == FlattenSeq([k \in DOMAIN parts |-> Focus[parts[k]]])
OfferOf(m) == Offered(m.parts, FocusOf(m.parts), cfg.accepted, cfg.allowed, MaxAreas)

(* A recon of its own for which no hunt can be planned has failed.         *)
PlanHunts(w) ==
  /\ at[w].step = "plan"
  /\ \E offer \in {OfferOf(map)} : \E plan \in {DiversifyClip(offer, MaxTasks)} :
       IF plan # <<>>
       THEN /\ Become(w, [at[w] EXCEPT !.step = "hunts", !.read = map, !.plan = plan,
                                       !.left = Len(plan)])
            /\ plans' = [plans EXCEPT !.begun = @ + 1]
            /\ UNCHANGED tasks
       ELSE /\ IF Batch THEN UNCHANGED tasks ELSE MaybeAutoRetry(w)
            /\ Goto(w, IF Batch THEN "ended" ELSE "failed")
            /\ UNCHANGED plans
  /\ UNCHANGED <<cfg, todo, map, revisions, page, past>>

EnqueueHunt(w) ==
  /\ at[w].step = "hunts"
  /\ LET last == at[w].left = 1
     IN  /\ Become(w, IF last THEN [Free EXCEPT !.step = "ended", !.id = at[w].id]
                       ELSE [at[w] EXCEPT !.left = @ - 1])
         /\ plans' = [plans EXCEPT !.whole = IF last THEN @ + 1 ELSE @]
  /\ UNCHANGED <<cfg, todo, tasks, map, revisions, page, past>>

(* run-once writes the task's last state, unless its lease is gone.        *)
End(w) ==
  /\ at[w].step \in {"ended", "failed"}
  /\ IF at[w].id \in DOMAIN tasks /\ Owner(at[w].id) # NoWorker
     THEN tasks' = Without(at[w].id)
     ELSE UNCHANGED tasks
  /\ past' = [past EXCEPT !.ok = at[w].step = "ended"]
  /\ Become(w, Free)
  /\ UNCHANGED <<cfg, todo, map, revisions, page, plans>>

-----------------------------------------------------------------------------
(* The operator, and what may go wrong.                                    *)

OpenEditor ==
  /\ cfg.edits > 0 /\ map # page
  /\ page' = map
  /\ UNCHANGED <<cfg, todo, tasks, map, revisions, at, plans, past>>

(* The editor sends every field of the map it was opened on, its marker    *)
(* with them if there was one; only a missing marker is looked up again.   *)
Edited == [parts |-> Extended(page.parts, Operator),
           marks |-> IF page.marks = {} THEN map.marks ELSE page.marks]
SaveEditor ==
  /\ cfg.edits > 0
  /\ Write(Edited, page, {Operator})
  /\ revisions' = Recorded
  /\ cfg' = [cfg EXCEPT !.edits = @ - 1]
  /\ UNCHANGED <<todo, tasks, page, at, plans>>

RestoreRevision(m) ==
  /\ cfg.edits > 0 /\ m \in revisions
  /\ map' = m /\ past' = [past EXCEPT !.lost = TRUE]
  /\ revisions' = Recorded
  /\ cfg' = [cfg EXCEPT !.edits = @ - 1]
  /\ UNCHANGED <<todo, tasks, page, at, plans>>

Faulty == /\ cfg.faults > 0
          /\ cfg' = [cfg EXCEPT !.faults = @ - 1]

Cancel(i) ==
  /\ Faulty /\ i \in DOMAIN tasks /\ Owner(i) = NoWorker
  /\ tasks' = Without(i)
  /\ past' = [past EXCEPT !.cut = TRUE]
  /\ UNCHANGED <<todo, map, revisions, page, at, plans>>

(* Retries of a task whose lease has gone meanwhile are left out.          *)
Infra(w) ==
  /\ Faulty /\ at[w].step = "agent"
  /\ at[w].id \in DOMAIN tasks /\ Owner(at[w].id) = w
  /\ tasks' = Requeued(at[w].id)
  /\ Become(w, Free)
  /\ UNCHANGED <<todo, map, revisions, page, plans, past>>

(* A worker dies, or an exception after the agent's loop looks like        *)
(* trouble with the provider.                                              *)
Crash(w) ==
  /\ Faulty /\ at[w].step # "idle"
  /\ tasks' = IF at[w].id \in DOMAIN tasks /\ Owner(at[w].id) = w
              THEN Requeued(at[w].id) ELSE tasks
  /\ Become(w, Free)
  /\ past' = [past EXCEPT !.crash = TRUE]
  /\ UNCHANGED <<todo, map, revisions, page, plans>>

(* A lease runs out under a worker that goes on.                           *)
Expire(w) ==
  /\ Faulty /\ at[w].step # "idle"
  /\ at[w].id \in DOMAIN tasks /\ Owner(at[w].id) = w
  /\ tasks' = Requeued(at[w].id)
  /\ past' = [past EXCEPT !.twin = TRUE]
  /\ UNCHANGED <<todo, map, revisions, page, at, plans>>

-----------------------------------------------------------------------------
Init ==
  /\ cfg \in Configs
  /\ IF cfg.fanout
     THEN /\ todo = <<>>
          /\ tasks = [i \in {1} |-> [job |-> Job(cfg.agents[1], TRUE), owner |-> NoWorker]]
     ELSE todo = cfg.agents /\ tasks = [i \in {} |-> NoWorker]
  /\ map = IF cfg.earlier THEN [parts |-> <<Operator>>, marks |-> {"earlier"}] ELSE NoMap
  /\ revisions = {} /\ page = NoMap
  /\ at = [w \in Workers |-> Free]
  /\ plans = [begun |-> 0, whole |-> 0] /\ past = Nothing

Work(w) ==
  \/ Expand(w) \/ FanOut(w) \/ Continued(w) \/ Fails(w) \/ Submits(w) \/ StoreMerged(w)
  \/ Look(w) \/ Claim(w) \/ Mark(w) \/ PlanHunts(w) \/ EnqueueHunt(w) \/ End(w)

Leasing == \E w \in Workers, i \in DOMAIN tasks : Lease(w, i)

Next == \/ EnqueueSibling \/ Leasing
        \/ \E w \in Workers : Work(w) \/ Infra(w) \/ Crash(w) \/ Expire(w)
        \/ OpenEditor \/ SaveEditor \/ \E m \in revisions : RestoreRevision(m)
        \/ \E i \in DOMAIN tasks : Cancel(i)

Spec     == Init /\ [][Next]_vars
(* The request enqueues all its tasks, run-once processes keep being       *)
(* started while tasks wait, and a worker runs on: its agent loop has a    *)
(* bound on rounds.                                                        *)
FairSpec == /\ Spec /\ WF_vars(EnqueueSibling) /\ WF_vars(Leasing)
            /\ \A w \in Workers : WF_vars(Work(w))

-----------------------------------------------------------------------------
Steps == {"idle", "expand", "fan", "agent", "merge", "look", "claim", "mark", "plan",
          "hunts", "ended", "failed"}
Jobs  == [agent : Agents, many : BOOLEAN, gen : 1..(1 + cfg.retries),
          cont : 0..cfg.continues, from : Nat]

Seats == [step : Steps, id : Nat, job : Jobs, fan : Seq(Agents), read : Maps,
          plan : Seq(Hunts), left : 0..MaxTasks]

(* Retry generations and continuations stay below their caps.              *)
TypeOK ==
  /\ IsConfig(cfg) /\ todo \in Seq(Agents)
  /\ IsFiniteSet(DOMAIN tasks) /\ DOMAIN tasks \subseteq Ids
  /\ \A i \in DOMAIN tasks : tasks[i] \in [job : Jobs, owner : Workers \union {NoWorker}]
  /\ {map, page} \union revisions \subseteq Maps
  /\ at \in [Workers -> Seats]
  /\ plans \in [begun : Nat, whole : Nat]
  /\ past \in [stored : SUBSET Contributors, omitted : SUBSET Contributors, lost : BOOLEAN,
               twin : BOOLEAN, crash : BOOLEAN, cut : BOOLEAN, ok : BOOLEAN]

(* The map keeps what every agent and the operator wrote, whatever is      *)
(* retried, continued or crashes, but for what the model itself left out   *)
(* when it was asked to merge, and unless a write really put an older map  *)
(* back: two siblings merging at a time, or the operator.                  *)
MapKeeps == past.lost \/ past.stored \ past.omitted \subseteq ToSet(map.parts)

(* A batch's hunts are planned once, whatever is retried or continued,     *)
(* crashes or runs twice at a time, as long as the marker survives in the  *)
(* map.  A recon of its own has no marker: a crash, an expired lease or    *)
(* an exception taken for trouble with the provider makes it plan again.   *)
HuntsPlannedOnce ==
  plans.begun > 1 => IF Batch THEN past.lost ELSE past.crash \/ past.twin

Quiet == /\ todo = <<>> /\ tasks = [i \in {} |-> NoWorker]
         /\ \A w \in Workers : at[w].step = "idle"

(* With one worker, a batch whose last task wrote its part has left the    *)
(* hunts, all of them.                                                     *)
HuntsFollow ==
  (/\ Quiet /\ cfg.workers = 1 /\ cfg.allowed # <<>> /\ past.ok
   /\ ~past.crash /\ ~past.twin /\ ~past.cut) => plans.whole > 0

(* No area gets two hunts more than an area that has some left, however    *)
(* the agents ordered their focus and however often they named a hunt.     *)
PlanSpreads ==
  \A w \in Workers : at[w].step = "hunts" =>
    LET offer    == OfferOf(at[w].read)
        Of(s, a) == Cardinality({k \in DOMAIN s : s[k].area = a})
        plan     == at[w].plan
    IN  \A g, h \in ToSet(offer) :
          Of(plan, g.area) > Of(plan, h.area) + 1 => Of(plan, h.area) = Of(offer, h.area)

(* Retries and continuations come to an end, and the batch with them.      *)
BatchEnds == <>[]Quiet
=============================================================================
