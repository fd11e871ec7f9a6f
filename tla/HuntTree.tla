------------------------------ MODULE HuntTree ------------------------------
(***************************************************************************)
(* Hunt tasks and the hunts they breed.  A hunt runs an agent loop (or,    *)
(* with several perspectives, one loop per perspective under one lease)    *)
(* and may leave behind: the continuation its agent or the harness asked   *)
(* for, a deeper repetition of a shallow "none", the hunts of other        *)
(* classes its agent requested, and after an abort the children of a split.*)
(*                                                                         *)
(* What workers share is the task table.  A step is one SQL statement or   *)
(* one tool call; a look and the enqueue that relies on it are two steps.  *)
(* A look reads the table's oldest rows only, as many as it asks for.      *)
(* Which hunt is leased is TaskQueue's subject, what becomes of a          *)
(* submitted candidate FindingReview's.  Coverage rows, which no hunt      *)
(* reads, are left out.                                                    *)
(***************************************************************************)
EXTENDS AgentLoop, Naturals, FiniteSets

CONSTANTS
  Workers, Classes,
  Root,             \* the class of the hunt that waits at the beginning
  Configs,          \* the configurations Init chooses from
  MaxChain,         \* run.max_spawn_chain_depth
  MaxSpawns,        \* run.max_spawn_hunts_per_task; 0: no limit
  SplitBudget,      \* max(1, 30% of run.max_tasks)
  MaxParts          \* bound: path hints of a hunt

ASSUME RootAssumption == Root \in Classes
ASSUME CapsAssumption ==
  MaxSpawns \in Nat /\ {MaxChain, SplitBudget, MaxParts} \subseteq Nat \ {0}
(* threads: the tool calls of a round run at once, each in a thread of its *)
(* own (Strands); otherwise one after the other (the scripted client).     *)
(* workers: run-once processes at a time; slots: perspectives;             *)
(* generations: run.max_continue_depth; depth: run.max_split_depth;        *)
(* continue, force: the two fallbacks of round_limit; deep: the first hunt *)
(* has force_depth, as one that the operator requeued; faults: a bound on  *)
(* crashes, retries after failed_infra, pauses and reads that fail; grows: *)
(* the table may become longer than a look reaches.                        *)
ASSUME ConfigsAssumption ==
  Configs \subseteq [threads : BOOLEAN, workers : Nat \ {0}, slots : Nat \ {0},
                     generations : Nat, depth : Nat, continue : BOOLEAN,
                     force : BOOLEAN, deep : BOOLEAN, faults : Nat, grows : BOOLEAN]

VARIABLES
  cfg,       \* the configuration
  table,     \* rows of the task table: at most 500 (short), at most 2000
             \* (long), or longer
  hunts,     \* queued and leased hunts: id -> payload
  splits,    \* hunts with a split_depth so far, in whatever state, and
             \* those of them among the oldest 2000 rows
  at,        \* per worker: its step, its hunt, and the session of its agent
  doubled,   \* history: two continue calls overlapped, a look missed a child,
             \* or a worker died between what a hunt left behind and its last
             \* transition
  raced,     \* history: two aborts counted the splits before either had split
  faults

vars == <<cfg, table, hunts, splits, at, doubled, raced, faults>>

Ids == Nat \ {0}
(* Path hints: one or several, which is what a split asks.                 *)
Parts == {1, MaxParts}
Payloads == [class : Classes, chain : SUBSET Classes, gen : 0..cfg.generations,
             split : 0..cfg.depth, parts : 1..MaxParts, deep : BOOLEAN,
             shallowed : BOOLEAN, from : Nat,
             listed : BOOLEAN,  \* among the oldest 500 rows
             paused : BOOLEAN]

Fresh(c) == [class |-> c, chain |-> {}, gen |-> 0, split |-> 0, parts |-> MaxParts,
             deep |-> FALSE, shallowed |-> FALSE, from |-> 0,
             listed |-> TRUE, paused |-> FALSE]

(* What the agent has done under this lease, in the slot it is in.         *)
Clean == [candidate |-> FALSE, none |-> FALSE, forced |-> FALSE, child |-> FALSE]
Free  == [step |-> "idle", id |-> 0, slot |-> 0, session |-> Clean,
          calls |-> 0,      \* continue calls between look and enqueue
          loop |-> "open",  \* open; a terminal succeeded this round; closed
          spawned |-> {},   \* classes requested under this lease
          ask |-> Root,     \* the class being requested
          left |-> 0,       \* children of a split still to enqueue
          rows |-> {},      \* outcomes of the slots that have run
          kept |-> FALSE,   \* history: a slot ended with an accepted candidate
          outcome |-> "open"]

Outcomes == {"continued", "infra", "error", "refused", "aborted", "none", "candidate"}
Rows     == {"candidate", "none", "aborted", "error"}
Leased(i)  == \E w \in Workers : at[w].id = i
Payload(w) == hunts[at[w].id]
Session(w) == at[w].session

(* A number that neither a live hunt nor a reference of one bears.         *)
NewId == CHOOSE i \in 1..(2 * Cardinality(DOMAIN hunts) + 1) :
           \A j \in DOMAIN hunts : i # j /\ i # hunts[j].from

Row(p)     == [p EXCEPT !.listed = (table = "short"), !.paused = FALSE]
Enqueue(p) == hunts' = [i \in DOMAIN hunts \union {NewId} |->
                          IF i = NewId THEN Row(p) ELSE hunts[i]]
Become(w, s) == at' = [at EXCEPT ![w] = s]
Goto(w, step) == Become(w, [at[w] EXCEPT !.step = step])
Ends(w, outcome, step) == Become(w, [at[w] EXCEPT !.outcome = outcome, !.step = step])

-----------------------------------------------------------------------------
(* The task table.                                                         *)

(* Tasks of other kinds are enqueued too.                                  *)
Grow ==
  /\ cfg.grows /\ table # "longer"
  /\ table' = IF table = "short" THEN "long" ELSE "longer"
  /\ UNCHANGED <<cfg, hunts, splits, at, doubled, raced, faults>>

(* The operator parks a hunt and lets it go again.  A paused hunt runs     *)
(* when nothing is queued.                                                 *)
Pause(i) ==
  /\ ~Leased(i) /\ ~hunts[i].paused
  /\ faults < cfg.faults /\ faults' = faults + 1
  /\ hunts' = [hunts EXCEPT ![i].paused = TRUE]
  /\ UNCHANGED <<cfg, table, splits, at, doubled, raced>>

Resume(i) ==
  /\ hunts[i].paused
  /\ hunts' = [hunts EXCEPT ![i].paused = FALSE]
  /\ UNCHANGED <<cfg, table, splits, at, doubled, raced, faults>>

Lease(w, i) ==
  /\ at[w].step = "idle" /\ i \in DOMAIN hunts /\ ~Leased(i)
  /\ hunts[i].paused => \A j \in DOMAIN hunts : Leased(j) \/ hunts[j].paused
  /\ Cardinality({v \in Workers : at[v].step # "idle"}) < cfg.workers
  /\ hunts' = [hunts EXCEPT ![i].paused = FALSE]
  /\ Become(w, [Free EXCEPT !.step = "rounds", !.id = i, !.slot = 1])
  /\ UNCHANGED <<cfg, table, splits, doubled, raced, faults>>

(* What a look at the queued and leased rows among the oldest 500 finds; a *)
(* look that raises finds nothing.                                         *)
Visible(i)   == hunts[i].listed /\ ~hunts[i].paused
Look(raised) == /\ raised => faults < cfg.faults
                /\ faults' = faults + (IF raised THEN 1 ELSE 0)

-----------------------------------------------------------------------------
(* The rounds of a loop.                                                   *)

(* A terminal call is made in a round in which none has succeeded, or,     *)
(* with threads, next to the one that has.                                 *)
MayCall(w) == /\ at[w].step = "rounds"
              /\ at[w].loop = "open" \/ (at[w].loop = "round" /\ cfg.threads)
Store(w, s, loop) == Become(w, [at[w] EXCEPT !.session = s, !.loop = loop])

SubmitCandidate(w) ==
  /\ MayCall(w) /\ ~Session(w).candidate
  /\ Store(w, [Session(w) EXCEPT !.candidate = TRUE], "round")
  /\ UNCHANGED <<cfg, table, hunts, splits, doubled, raced, faults>>

SubmitNone(w) ==
  /\ MayCall(w) /\ ~Session(w).none
  /\ Store(w, [Session(w) EXCEPT !.none = TRUE], "round")
  /\ UNCHANGED <<cfg, table, hunts, splits, doubled, raced, faults>>

(* Mutant: the generation is not compared with the cap.                    *)
MayContinueForever(w) == cfg.generations > 0
MayContinue(w) == Payload(w).gen < cfg.generations

(* The continuation of this hunt that is under way.                        *)
(* Mutant: one that has been leased meanwhile does not count.              *)
Children(w)       == {i \in DOMAIN hunts : hunts[i].from = at[w].id}
ExistingQueued(w) == \E i \in Children(w) : Visible(i) /\ ~Leased(i)
ExistingChild(w)  == \E i \in Children(w) : Visible(i)
Missed(w, raised) == \E i \in Children(w) : raised \/ ~Visible(i)

(* enqueue_continuation up to its look for a child.                        *)
CallContinue(w) ==
  /\ MayCall(w) /\ ~Session(w).child /\ MayContinue(w)
  /\ \E raised \in BOOLEAN :
       /\ Look(raised)
       /\ IF ExistingChild(w) /\ ~raised
          THEN Store(w, [Session(w) EXCEPT !.child = TRUE], "round") /\ UNCHANGED doubled
          ELSE /\ at[w].calls < (IF cfg.threads THEN 2 ELSE 1)
               /\ Become(w, [at[w] EXCEPT !.calls = @ + 1])
               /\ doubled' = (doubled \/ at[w].calls > 0 \/ Missed(w, raised))
  /\ UNCHANGED <<cfg, table, hunts, splits, raced>>

(* It inherits the lineage, not the split depth; the agent may name paths. *)
Continuation(w, parts) ==
  [Payload(w) EXCEPT !.gen = @ + 1, !.split = 0, !.parts = parts, !.from = at[w].id]

EnqueueChild(w) ==
  /\ at[w].step = "rounds" /\ at[w].calls > 0
  /\ \E parts \in Parts : Enqueue(Continuation(w, parts))
  /\ Become(w, [at[w] EXCEPT !.calls = @ - 1, !.loop = "round",
                             !.session.child = TRUE])
  /\ UNCHANGED <<cfg, table, splits, doubled, raced, faults>>

(* request_hunt up to its look at the hunts under way.  It uses the        *)
(* connection of the worker's own thread, so that in a thread of a tool    *)
(* call it fails; there it leaves no trace.                                *)
Underway(w, c) == \E i \in DOMAIN hunts \ {at[w].id} : hunts[i].class = c /\ Visible(i)
Lineage(w)     == Payload(w).chain \union {Payload(w).class}

RequestHunt(w) ==
  /\ at[w].step = "rounds" /\ ~cfg.threads /\ at[w].loop = "open" /\ at[w].calls = 0
  /\ MaxSpawns = 0 \/ Cardinality(at[w].spawned) < MaxSpawns
  /\ Cardinality(Payload(w).chain) + 1 < MaxChain
  /\ \E c \in Classes \ (Lineage(w) \union at[w].spawned), raised \in BOOLEAN :
       /\ Look(raised) /\ (raised \/ ~Underway(w, c))
       /\ Become(w, [at[w] EXCEPT !.step = "request", !.ask = c])
  /\ UNCHANGED <<cfg, table, hunts, splits, doubled, raced>>

EnqueueRequest(w) ==
  /\ at[w].step = "request"
  /\ \E parts \in Parts, deep \in BOOLEAN :
       Enqueue([Fresh(at[w].ask) EXCEPT !.chain = Lineage(w), !.parts = parts,
                                        !.deep = deep])
  /\ Become(w, [at[w] EXCEPT !.step = "rounds", !.spawned = @ \union {at[w].ask},
                             !.ask = Root])
  /\ UNCHANGED <<cfg, table, splits, doubled, raced, faults>>

(* At a round boundary the operator's submit_none is called for the agent. *)
ForceNone(w) ==
  /\ at[w].step = "rounds" /\ at[w].loop = "open" /\ at[w].calls = 0
  /\ Store(w, [Session(w) EXCEPT !.none = TRUE, !.forced = TRUE], "closed")
  /\ UNCHANGED <<cfg, table, hunts, splits, doubled, raced, faults>>

-----------------------------------------------------------------------------
(* The end of a loop, and what the hunt makes of it.                       *)

Single(w, result) ==
  CASE Session(w).child     -> "continued"
    [] OTHER -> CASE result \in LoopErrors  -> Failure(result)
                  [] OTHER -> CASE Session(w).none      -> "none"
                                [] OTHER                -> "candidate"

(* The step in which an outcome has its effect.                            *)
StepOf(outcome) == CASE outcome = "none"    -> "none"
                     [] outcome = "aborted" -> "count"
                     [] OTHER               -> "done"

(* Mutant: the last slot decides, whatever the slots before it found.      *)
PanelLast(rows, last) == last
Panel(rows, last) ==
  CASE "candidate" \in rows -> "candidate"
    [] rows = {"error"}     -> "error"
    [] rows = {"none"}      -> "none"
    [] OTHER                -> "aborted"

(* A panel ends early with a continuation, with infra trouble, with the    *)
(* operator's none, when the shared rounds are spent, or when the next     *)
(* slot's prompt is refused: too long, or of a path it may not read.       *)
Settle(w, result) ==
  LET single == Single(w, result)
      rows   == at[w].rows \union {single}
      panel  == IF cfg.slots = 1 \/ single \in {"continued", "infra"}
                THEN single ELSE Panel(rows, single)
      after  == [at[w] EXCEPT !.rows = rows, !.kept = @ \/ single = "candidate"]
  IN  \/ /\ at[w].slot < cfg.slots /\ ~Session(w).forced
         /\ single \notin {"continued", "infra"}
         /\ Become(w, [after EXCEPT !.slot = @ + 1, !.step = "rounds", !.loop = "open",
                                    !.session = Clean])
      \/ /\ at[w].slot < cfg.slots /\ ~Session(w).forced
         /\ single \notin {"continued", "infra"}
         /\ Become(w, [after EXCEPT !.outcome = "refused", !.step = "done", !.rows = {},
                                    !.session = Clean])
      \/ Become(w, [after EXCEPT !.outcome = panel, !.step = StepOf(panel), !.rows = {},
                                 !.session = [Clean EXCEPT !.forced = Session(w).forced]])

(* The loop ends well once a terminal tool has succeeded, else as it may;  *)
(* the fallbacks of round_limit then act for the agent.                    *)
EndLoop(w) ==
  /\ at[w].step = "rounds" /\ at[w].calls = 0
  /\ IF at[w].loop # "open"
     THEN Settle(w, "ok")
     ELSE \E err \in LoopErrors, pressure \in BOOLEAN :
            IF WantsContinue(err, pressure, cfg.continue) /\ MayContinue(w)
            THEN Goto(w, "continue")
            ELSE IF WantsSubmit(err, cfg.force)
            THEN Store(w, [Session(w) EXCEPT !.none = TRUE], "closed")
            ELSE Settle(w, err)
  /\ UNCHANGED <<cfg, table, hunts, splits, doubled, raced, faults>>

(* The harness continues the hunt itself.                                  *)
ForceContinue(w) ==
  /\ at[w].step = "continue"
  /\ \E raised \in BOOLEAN :
       /\ Look(raised)
       /\ \/ ExistingChild(w) /\ ~raised /\ UNCHANGED <<hunts, doubled>>
          \/ /\ ~(ExistingChild(w) /\ ~raised)
             /\ Enqueue(Continuation(w, Payload(w).parts))
             /\ doubled' = (doubled \/ Missed(w, raised))
  /\ Become(w, [at[w] EXCEPT !.step = "rounds", !.loop = "closed", !.session.child = TRUE])
  /\ UNCHANGED <<cfg, table, splits, raced>>

(* A shallow none is repeated once, deeper, unless the operator forced it. *)
(* Mutant: the child does not say that it is a repetition.                 *)
DeeperUnmarked(p) == p
Deeper(p) == [p EXCEPT !.deep = TRUE, !.shallowed = TRUE]

FinishNone(w) ==
  /\ at[w].step = "none"
  /\ \E shallow \in BOOLEAN :
       IF shallow /\ ~Session(w).forced /\ ~Payload(w).deep /\ ~Payload(w).shallowed
       THEN Enqueue(Deeper(Payload(w)))
       ELSE UNCHANGED hunts
  /\ Goto(w, "done")
  /\ UNCHANGED <<cfg, table, splits, doubled, raced, faults>>

(* maybe_auto_split: the splits are counted, as far as the oldest 2000     *)
(* rows show them, then the children enqueued one by one; each gets its    *)
(* share of the paths.                                                     *)
(* Mutant: only splits that still wait or run are counted.                 *)
LiveSplits == Cardinality({i \in DOMAIN hunts : hunts[i].split > 0})
CountLive  == LiveSplits
Counted    == splits.counted

Chunks(parts, room) == CHOOSE n \in {parts, 4, room} : \A m \in {parts, 4, room} : n <= m
Splittable(w) == Payload(w).split < cfg.depth /\ Payload(w).parts >= 2

CountSplits(w) ==
  /\ at[w].step = "count"
  /\ IF Splittable(w) /\ Counted < SplitBudget
     THEN /\ Become(w, [at[w] EXCEPT !.step = "split",
                          !.left = Chunks(Payload(w).parts, SplitBudget - Counted)])
          /\ raced' = (raced \/ \E v \in Workers : at[v].step = "split")
     ELSE Goto(w, "done") /\ UNCHANGED raced
  /\ UNCHANGED <<cfg, table, hunts, splits, doubled, faults>>

Split(w) ==
  /\ at[w].step = "split"
  /\ \E parts \in 1..MaxParts :
       /\ parts * at[w].left <= Payload(w).parts + at[w].left - 1
       /\ Enqueue([Fresh(Payload(w).class) EXCEPT
                     !.split = Payload(w).split + 1, !.parts = parts, !.deep = TRUE])
  /\ splits' = [made |-> splits.made + 1,
                 counted |-> splits.counted + (IF table = "longer" THEN 0 ELSE 1)]
  /\ Become(w, [at[w] EXCEPT !.left = @ - 1, !.step = IF at[w].left = 1 THEN "done" ELSE "split"])
  /\ UNCHANGED <<cfg, table, doubled, raced, faults>>

(* A hunt that is over has no session that could look for its child.       *)
Forget(id) == [i \in DOMAIN hunts \ {id} |->
                 [hunts[i] EXCEPT !.from = IF @ = id THEN 0 ELSE @]]

(* The task's last transition: a retry while the budget of retries lasts,  *)
(* else a state no worker leases.                                          *)
Finish(w) ==
  /\ at[w].step = "done" /\ Become(w, Free)
  /\ \/ /\ at[w].outcome = "infra" /\ faults < cfg.faults
        /\ faults' = faults + 1 /\ UNCHANGED hunts
     \/ hunts' = Forget(at[w].id) /\ UNCHANGED faults
  /\ UNCHANGED <<cfg, table, splits, doubled, raced>>

(* The worker dies; its lease is reclaimed.                                *)
Crash(w) ==
  /\ at[w].step # "idle" /\ faults < cfg.faults
  /\ faults' = faults + 1 /\ Become(w, Free)
  /\ doubled' = (doubled \/ at[w].step = "done")
  /\ UNCHANGED <<cfg, table, hunts, splits, raced>>

-----------------------------------------------------------------------------
Init ==
  /\ cfg \in Configs /\ table = "short"
  /\ hunts = [i \in {1} |-> [Fresh(Root) EXCEPT !.deep = cfg.deep]]
  /\ splits = [made |-> 0, counted |-> 0]
  /\ at = [w \in Workers |-> Free]
  /\ doubled = FALSE /\ raced = FALSE /\ faults = 0

Rounds(w) ==
  \/ SubmitCandidate(w) \/ SubmitNone(w) \/ ForceNone(w)
  \/ CallContinue(w) \/ EnqueueChild(w) \/ RequestHunt(w) \/ EnqueueRequest(w)

Ending(w) ==
  \/ EndLoop(w) \/ ForceContinue(w) \/ FinishNone(w)
  \/ CountSplits(w) \/ Split(w) \/ Finish(w)

Next ==
  \/ \E w \in Workers : Rounds(w) \/ Ending(w) \/ Crash(w)
  \/ \E w \in Workers, i \in DOMAIN hunts : Lease(w, i)
  \/ \E i \in DOMAIN hunts : Pause(i) \/ Resume(i)
  \/ Grow

Spec == Init /\ [][Next]_vars

(* A worker leases what there is, keeps running, and its loops end: calls  *)
(* and rounds are bounded.                                                 *)
FairSpec ==
  /\ Spec
  /\ \A w \in Workers : /\ WF_vars(Rounds(w) \/ Ending(w))
                        /\ WF_vars(\E i \in DOMAIN hunts : Lease(w, i))

-----------------------------------------------------------------------------
(* Properties.                                                             *)

(* The variables have their types: no hunt exceeds the caps on its         *)
(* generation, split depth and lineage.                                    *)
TypeOK ==
  /\ cfg \in Configs /\ table \in {"short", "long", "longer"}
  /\ splits \in [made : Nat, counted : Nat] /\ faults \in 0..cfg.faults
  /\ doubled \in BOOLEAN /\ raced \in BOOLEAN
  /\ IsFiniteSet(DOMAIN hunts) /\ DOMAIN hunts \subseteq Ids
  /\ \A i \in DOMAIN hunts : hunts[i] \in Payloads
  /\ \A i \in DOMAIN hunts : Cardinality(hunts[i].chain) < MaxChain
  /\ \A w \in Workers : at[w].step # "idle" => at[w].id \in DOMAIN hunts

(* maybe_auto_split, "split tasks <= 30% of max_tasks": more only if two   *)
(* aborts counted before either had enqueued, or once the table has more   *)
(* rows than the count reads: then nothing bounds them but their depth.    *)
WithinSplitBudget == ~raced /\ table # "longer" => splits.made <= SplitBudget

(* enqueue_continuation: at most one continuation of a hunt is left to run *)
(* or running, whoever asks for it and however often the hunt is retried,  *)
(* unless two calls of one round overlapped, a look failed to see one that *)
(* is paused or behind the oldest 500 rows or raised with one there, or a  *)
(* worker died just before its last transition.  (A repetition of a        *)
(* continuation stands in for it from the moment it is enqueued.)          *)
OneContinuation ==
  LET open == {i \in DOMAIN hunts : /\ hunts[i].from # 0
                                    /\ \A w \in Workers : at[w].id = i => at[w].step # "done"}
  IN  ~doubled => \A i, j \in open : hunts[i].from = hunts[j].from => i = j

(* _finish_hunt_moa: a candidate that a slot ended with becomes a finding, *)
(* whatever the other slots found.  Named exceptions: a later slot was     *)
(* continued, met infra trouble (the attempt is lost; the retry, if the    *)
(* budget has one left, begins anew) or was refused (the hunt fails and    *)
(* the candidate is lost).                                                 *)
CandidateKept ==
  \A w \in Workers : at[w].step = "done" /\ at[w].kept =>
    at[w].outcome \in {"candidate", "continued", "infra", "refused"}

(* Left alone, hunts die out: continuations, repetitions, requests and     *)
(* splits cannot feed each other for ever, even when the looks and counts  *)
(* that should stop them see nothing.                                      *)
HuntsDrain == <>[](DOMAIN hunts = {})
=============================================================================
