--------------------------- MODULE CampaignProofs ---------------------------
(***************************************************************************)
(* Proofs about Campaign, for every set of pids and of requests and every  *)
(* value of the bounds.                                                    *)
(*                                                                         *)
(* While requests do not overlap there is at most one busy request, and    *)
(* FactOf says what is known of the live Ralphs at each step of it: they   *)
(* are in the pid files, or in the request's own copy of them, or there    *)
(* are none.  Requests that overlap set the history variable disturbed     *)
(* and nothing is claimed from then on.                                    *)
(***************************************************************************)
EXTENDS Campaign, FiniteSetTheorems, TLAPS

LocalsOK == pc \in [Handlers -> Steps] /\ job \in [Handlers -> Jobs]

LEMMA NoJobTyped == NoJob \in Jobs /\ NoClaim \in Claims
BY DEF NoJob, Jobs, Kinds, NoClaim, Claims

LEMMA LocalTyped ==
  ASSUME TypeOK, NEW h \in Handlers
  PROVE  /\ pc[h] \in Steps /\ job[h] \in Jobs
         /\ job[h].kind \in Kinds /\ job[h].spawned \in SUBSET Ralphs
         /\ job[h].pids \in SUBSET Ralphs /\ job[h].meta \in Claims
         /\ job[h].primary \in Ralphs \union {Nobody}
BY DEF TypeOK, Jobs

LEMMA TrackedTyped == ASSUME TypeOK PROVE Tracked \in SUBSET Ralphs
BY DEF TypeOK, Tracked

LEMMA GotoTyped ==
  ASSUME TypeOK, NEW h \in Handlers, NEW s \in Steps, NEW j \in Jobs, Goto(h, s, j)
  PROVE  LocalsOK'
<1>1. pc' \in [Handlers -> Steps]
  BY DEF TypeOK, Goto
<1>2. (IF s = "idle" THEN NoJob ELSE j) \in Jobs
  BY NoJobTyped
<1>3. job' \in [Handlers -> Jobs]
  BY <1>2 DEF TypeOK, Goto
<1>. QED
  BY <1>1, <1>3 DEF LocalsOK

(* The ways a request's locals change.                                     *)
LEMMA JobTyped ==
  ASSUME NEW j \in Jobs, NEW k \in Kinds, NEW ph \in {"first", "again", "last"},
         NEW S \in SUBSET Ralphs, NEW m \in Claims, NEW p \in Ralphs \union {Nobody}
  PROVE  /\ [j EXCEPT !.phase = ph] \in Jobs
         /\ [j EXCEPT !.pids = S] \in Jobs
         /\ [j EXCEPT !.meta = m] \in Jobs
         /\ [j EXCEPT !.kind = k, !.phase = ph] \in Jobs
         /\ [j EXCEPT !.spawned = S, !.primary = p] \in Jobs
BY DEF Jobs

LEMMA StatusTyped ==
  ASSUME TypeOK, NEW h \in Handlers, NEW ph \in {"first", "again", "last"}, Status(h, ph)
  PROVE  LocalsOK'
<1>1. job[h] \in Jobs
  BY LocalTyped
<1>2. [job[h] EXCEPT !.phase = ph] \in Jobs
  BY <1>1 DEF Jobs
<1>. QED
  BY <1>2, GotoTyped DEF Status, Steps

(* What a caller of runner_status does next.                               *)
LEMMA AnsweredCases ==
  ASSUME NEW h \in Handlers, NEW alive \in BOOLEAN, Answered(h, alive)
  PROVE  \/ Goto(h, "idle", job[h])
         \/ Goto(h, "unlinkStop", job[h]) /\ job[h].kind = "start" /\ ~alive
         \/ Goto(h, "unlinkStop", job[h]) /\ job[h].kind = "resume"
         \/ Goto(h, "read", [job[h] EXCEPT !.kind = "start", !.phase = "first"])
BY DEF Answered

LEMMA AnsweredTyped ==
  ASSUME TypeOK, NEW h \in Handlers, NEW alive \in BOOLEAN, Answered(h, alive)
  PROVE  LocalsOK'
<1>1. job[h] \in Jobs
  BY LocalTyped
<1>2. [job[h] EXCEPT !.kind = "start", !.phase = "first"] \in Jobs
  BY <1>1 DEF Jobs, Kinds
<1>3. CASE Goto(h, "idle", job[h]) \/ Goto(h, "unlinkStop", job[h])
  BY <1>1, <1>3, GotoTyped DEF Steps
<1>4. CASE Goto(h, "read", [job[h] EXCEPT !.kind = "start", !.phase = "first"])
  BY <1>2, <1>4, GotoTyped DEF Steps
<1>. QED
  BY <1>3, <1>4, AnsweredCases

-----------------------------------------------------------------------------
(* Type correctness, one lemma for each part of the code.                  *)

LEMMA StatusSteps ==
  ASSUME TypeOK, NEW h \in Handlers,
         ReadPids(h) \/ Judge(h) \/ Sweep(h) \/ ClearClaim(h)
  PROVE  TypeOK'
<1>1. job[h] \in Jobs /\ meta \in Claims
  BY LocalTyped DEF TypeOK
<1>2. CASE ReadPids(h)
  <2>1. [job[h] EXCEPT !.pids = Tracked] \in Jobs
    BY <1>1, TrackedTyped DEF Jobs
  <2>2. LocalsOK'
    BY <2>1, <1>2, GotoTyped DEF ReadPids, Steps
  <2>. QED
    BY <1>2, <2>2 DEF ReadPids, TypeOK, LocalsOK, files
<1>3. CASE Judge(h)
  <2>1. [job[h] EXCEPT !.meta = meta] \in Jobs
    BY <1>1 DEF Jobs
  <2>2. CASE AnswersAlive(h)
    <3>1. LocalsOK'
      BY <1>3, <2>2, AnsweredTyped DEF Judge
    <3>. QED
      BY <1>3, <3>1 DEF Judge, TypeOK, LocalsOK, files
  <2>3. CASE ~AnswersAlive(h)
    <3>1. LocalsOK'
      BY <1>3, <2>1, <2>3, GotoTyped DEF Judge, Steps
    <3>. QED
      BY <1>3, <3>1 DEF Judge, TypeOK, LocalsOK, files
  <2>. QED
    BY <2>2, <2>3
<1>4. CASE Sweep(h)
  <2>1. LocalsOK'
    BY <1>1, <1>4, GotoTyped DEF Sweep, Steps
  <2>. QED
    BY <1>4, <2>1 DEF Sweep, TypeOK, LocalsOK
<1>5. CASE ClearClaim(h)
  <2>1. LocalsOK'
    BY <1>5, AnsweredTyped DEF ClearClaim
  <2>2. meta' \in Claims
    BY <1>1, <1>5, NoJobTyped DEF ClearClaim
  <2>. QED
    BY <1>5, <2>1, <2>2 DEF ClearClaim, TypeOK, LocalsOK
<1>. QED
  BY <1>2, <1>3, <1>4, <1>5

LEMMA StartSteps ==
  ASSUME TypeOK, NEW h \in Handlers,
         \/ UnlinkStop(h) \/ ReclaimStale(h) \/ WritePid(h) \/ WriteClaim(h)
         \/ ListWorkers(h) \/ SpawnFails(h) \/ \E r \in Ralphs : Spawn(h, r)
  PROVE  TypeOK'
<1>1. /\ job[h] \in Jobs /\ job[h].spawned \in SUBSET Ralphs
      /\ job[h].primary \in Ralphs \union {Nobody}
  BY LocalTyped
<1>2. CASE UnlinkStop(h)
  <2>1. LocalsOK'
    BY <1>1, <1>2, GotoTyped DEF UnlinkStop, Steps
  <2>. QED
    BY <1>2, <2>1 DEF UnlinkStop, TypeOK, LocalsOK
<1>3. CASE ReclaimStale(h)
  <2>1. LocalsOK'
    BY <1>3, StatusTyped DEF ReclaimStale
  <2>. QED
    BY <1>3, <2>1 DEF ReclaimStale, TypeOK, LocalsOK, files
<1>4. CASE WritePid(h)
  <2>1. LocalsOK'
    BY <1>1, <1>4, GotoTyped DEF WritePid, Steps
  <2>2. meta' \in Claims
    BY <1>1, <1>4 DEF WritePid, Claims
  <2>. QED
    BY <1>1, <1>4, <2>1, <2>2 DEF WritePid, TypeOK, LocalsOK
<1>5. CASE WriteClaim(h)
  <2>1. LocalsOK'
    BY <1>1, <1>5, GotoTyped DEF WriteClaim, Steps
  <2>2. meta' \in Claims
    BY <1>1, <1>5 DEF WriteClaim, Claims
  <2>. QED
    BY <1>5, <2>1, <2>2 DEF WriteClaim, TypeOK, LocalsOK
<1>6. CASE ListWorkers(h)
  <2>1. LocalsOK'
    BY <1>6, StatusTyped DEF ListWorkers
  <2>. QED
    BY <1>1, <1>6, <2>1 DEF ListWorkers, TypeOK, LocalsOK
<1>7. CASE SpawnFails(h)
  <2>1. LocalsOK'
    BY <1>1, <1>7, GotoTyped DEF SpawnFails, Steps
  <2>2. used' \in [{"requests", "spawnFailures"} -> Nat]
    BY <1>7 DEF SpawnFails, Spend, TypeOK
  <2>. QED
    BY <1>7, <2>1, <2>2 DEF SpawnFails, TypeOK, LocalsOK, files
<1>8. ASSUME NEW r \in Ralphs, Spawn(h, r) PROVE TypeOK'
  <2>1. [job[h] EXCEPT !.spawned = @ \union {r},
                       !.primary = IF job[h].spawned = {} THEN r ELSE @] \in Jobs
    BY <1>1 DEF Jobs
  <2>2. LocalsOK'
    BY <1>8, <2>1, GotoTyped DEF Spawn, Steps
  <2>3. ralph' \in [Ralphs -> Places]
    BY <1>8 DEF Spawn, TypeOK, Places
  <2>. QED
    BY <1>8, <2>2, <2>3 DEF Spawn, TypeOK, LocalsOK, files
<1>. QED
  BY <1>2, <1>3, <1>4, <1>5, <1>6, <1>7, <1>8

LEMMA StopSteps ==
  ASSUME TypeOK, NEW h \in Handlers,
         \/ WriteStop(h) \/ Target(h) \/ Kill(h) \/ UnlinkPids(h) \/ ReclaimAll(h)
         \/ \E kind \in Kinds : Request(h, kind)
  PROVE  TypeOK'
<1>1. job[h] \in Jobs
  BY LocalTyped
<1>2. CASE WriteStop(h)
  <2>1. LocalsOK'
    BY <1>1, <1>2, GotoTyped, StatusTyped DEF WriteStop, Steps
  <2>. QED
    BY <1>2, <2>1 DEF WriteStop, TypeOK, LocalsOK
<1>3. CASE Target(h)
  <2>1. [job[h] EXCEPT !.pids = Tracked] \in Jobs
    BY <1>1, TrackedTyped DEF Jobs
  <2>2. LocalsOK'
    BY <2>1, <1>3, GotoTyped DEF Target, Steps
  <2>. QED
    BY <1>3, <2>2 DEF Target, TypeOK, LocalsOK, files
<1>4. CASE Kill(h)
  <2>1. LocalsOK'
    BY <1>1, <1>4, GotoTyped DEF Kill, Steps
  <2>2. ralph' \in [Ralphs -> Places]
    BY <1>4 DEF Kill, TypeOK, Places
  <2>. QED
    BY <1>4, <2>1, <2>2 DEF Kill, TypeOK, LocalsOK, files
<1>5. CASE UnlinkPids(h)
  <2>1. LocalsOK'
    BY <1>1, <1>5, GotoTyped DEF UnlinkPids, Steps
  <2>. QED
    BY <1>5, <2>1 DEF UnlinkPids, TypeOK, LocalsOK
<1>6. CASE ReclaimAll(h)
  <2>1. LocalsOK'
    BY <1>6, StatusTyped DEF ReclaimAll
  <2>. QED
    BY <1>6, <2>1 DEF ReclaimAll, TypeOK, LocalsOK, files
<1>7. ASSUME NEW kind \in Kinds, Request(h, kind) PROVE TypeOK'
  <2>1. [NoJob EXCEPT !.kind = kind,
                      !.phase = IF kind \in {"start", "resume"} THEN "first" ELSE "last"]
          \in Jobs
    BY NoJobTyped DEF Jobs
  <2>2. LocalsOK'
    BY <1>7, <2>1, GotoTyped DEF Request, Steps
  <2>3. used' \in [{"requests", "spawnFailures"} -> Nat]
    <3>1. Spend("requests", MaxRequests)
      BY <1>7 DEF Request
    <3>. QED
      BY <3>1 DEF Spend, TypeOK
  <2>4. disturbed' \in BOOLEAN
    BY <1>7 DEF Request, TypeOK
  <2>5. UNCHANGED <<stop, pidFile, workersFile, meta, ralph>>
    BY <1>7 DEF Request, files
  <2>. QED
    BY <2>2, <2>3, <2>4, <2>5 DEF TypeOK, LocalsOK
<1>. QED
  BY <1>2, <1>3, <1>4, <1>5, <1>6, <1>7

LEMMA LoopTyped ==
  ASSUME TypeOK, NEW r \in Ralphs, Loop(r)
  PROVE  TypeOK'
<1>. USE NoJobTyped DEF TypeOK, Move, LocalStep, files, Places
<1>1. CASE Check(r)
  BY <1>1 DEF Check
<1>2. CASE EndTask(r)
  BY <1>2 DEF EndTask
<1>3. CASE Leave(r)
  BY <1>3 DEF Leave
<1>4. CASE ClearOwn(r)
  BY <1>4 DEF ClearOwn
<1>. QED
  BY <1>1, <1>2, <1>3, <1>4 DEF Loop

LEMMA StepTyped == TypeOK /\ [Next]_vars => TypeOK'
<1>. SUFFICES ASSUME TypeOK, [Next]_vars PROVE TypeOK'
  OBVIOUS
<1>1. ASSUME NEW h \in Handlers, Continue(h) PROVE TypeOK'
  BY <1>1, StatusSteps, StartSteps, StopSteps DEF Continue
<1>2. ASSUME NEW h \in Handlers, NEW kind \in Kinds, Request(h, kind) PROVE TypeOK'
  BY <1>2, StopSteps
<1>3. ASSUME NEW r \in Ralphs, Loop(r) PROVE TypeOK'
  BY <1>3, LoopTyped
<1>4. CASE UNCHANGED vars
  BY <1>4 DEF vars, files, TypeOK
<1>. QED
  BY <1>1, <1>2, <1>3, <1>4 DEF Next

LEMMA InitTyped == Init => TypeOK
<1>. SUFFICES ASSUME Init PROVE TypeOK
  OBVIOUS
<1>1. meta \in Claims /\ job \in [Handlers -> Jobs]
  BY NoJobTyped DEF Init
<1>2. ralph \in [Ralphs -> Places] /\ pc \in [Handlers -> Steps]
  BY DEF Init, Places, Steps
<1>3. used \in [{"requests", "spawnFailures"} -> Nat]
  BY DEF Init
<1>. QED
  BY <1>1, <1>2, <1>3 DEF Init, TypeOK

(* Files name pids, requests and loops are at a step of their code.        *)
THEOREM TypeCorrect == Spec => []TypeOK
BY InitTyped, StepTyped, PTL DEF Spec

-----------------------------------------------------------------------------
(* The invariant of requests that come one at a time.                      *)

(* What a start has spawned is few, and the first of it is the primary.    *)
Sized(j) == /\ IsFiniteSet(j.spawned) /\ Cardinality(j.spawned) <= MaxWorkers
            /\ j.spawned # {} => j.primary \in j.spawned
JobsSized == \A h \in Handlers : Sized(job[h])

Solo == \A g, h \in Handlers : pc[g] # "idle" /\ pc[h] # "idle" => g = h
Few  == IsFiniteSet(Live) /\ Cardinality(Live) <= MaxWorkers

(* Where the live Ralphs are known at each step of a busy request.         *)
FactOf(h) ==
  /\ pc[h] \in {"read", "judge", "writeStop", "target", "reclaimStale", "unlinkStop"} =>
       Live \subseteq Tracked
  /\ pc[h] \in {"judge", "kill"} => Live \subseteq job[h].pids
  /\ pc[h] \in {"sweep", "clear", "unlinkPids", "reclaim"} => Live = {}
  /\ pc[h] = "unlinkStop" /\ job[h].kind = "start" => Live = {}
  /\ pc[h] \in {"spawn", "claim", "list"} => Live \subseteq job[h].spawned
  /\ pc[h] \in {"claim", "list"} => pidFile = job[h].primary /\ job[h].spawned # {}

Alone == /\ Solo /\ Few
         /\ Busy = {} => Live \subseteq Tracked
         /\ \A h \in Handlers : FactOf(h)

CampInv == TypeOK /\ JobsSized /\ (~disturbed => Alone)

LEMMA GotoSized ==
  ASSUME TypeOK, JobsSized, NEW h \in Handlers, NEW s, NEW j, Sized(j), Goto(h, s, j)
  PROVE  JobsSized'
<1>1. Sized(NoJob)
  BY FS_EmptySet, WorkersAssumption DEF Sized, NoJob
<1>2. ASSUME NEW g \in Handlers PROVE Sized(job[g])'
  <2>1. CASE g = h
    <3>1. job'[g] = NoJob \/ job'[g] = j
      BY <2>1 DEF Goto, TypeOK
    <3>. QED
      BY <1>1, <3>1 DEF Sized
  <2>2. CASE g # h
    BY <2>2 DEF Goto, TypeOK, JobsSized, Sized
  <2>. QED
    BY <2>1, <2>2
<1>. QED
  BY <1>2 DEF JobsSized

(* The one busy request goes on: what is known of it is all that is asked. *)
LEMMA Focus ==
  ASSUME TypeOK, Solo, NEW h \in Handlers, pc[h] # "idle" \/ Busy = {},
         NEW s, NEW j, Goto(h, s, j),
         Few',
         s = "idle" => (Live \subseteq Tracked)',
         FactOf(h)'
  PROVE  Alone'
<1>1. ASSUME NEW g \in Handlers, g # h PROVE pc[g] = "idle" /\ pc'[g] = "idle"
  BY <1>1 DEF Goto, TypeOK, Solo, Busy
<1>2. pc'[h] = s
  BY DEF Goto, TypeOK
<1>3. Solo'
  BY <1>1 DEF Solo
<1>4. Busy' = {} => (Live \subseteq Tracked)'
  BY <1>2 DEF Busy
<1>5. \A g \in Handlers : FactOf(g)'
  BY <1>1 DEF FactOf
<1>. QED
  BY <1>3, <1>4, <1>5 DEF Alone

(* A set of live Ralphs that does not grow stays small.                    *)
LEMMA FewKept ==
  ASSUME Few, Live' \subseteq Live
  PROVE  Few'
<1>1. IsFiniteSet(Live') /\ Cardinality(Live') <= Cardinality(Live)
  BY FS_Subset DEF Few
<1>2. Cardinality(Live) \in Nat /\ Cardinality(Live') \in Nat
  BY <1>1, FS_CardinalityType DEF Few
<1>. QED
  BY <1>1, <1>2, WorkersAssumption DEF Few

(* A step of a Ralph takes none into life, and touches neither the pid     *)
(* files nor the requests.                                                 *)
LEMMA LoopKeeps ==
  ASSUME CampInv, NEW r \in Ralphs, Loop(r)
  PROVE  CampInv'
<1>1. TypeOK'
  BY LoopTyped DEF CampInv
<1>2. UNCHANGED <<pidFile, workersFile, pc, job, disturbed>>
  BY DEF Loop, Check, EndTask, Leave, ClearOwn, LocalStep, files
<1>3. JobsSized'
  BY <1>2 DEF CampInv, JobsSized, Sized
<1>4. Live' \subseteq Live
  <2>1. ralph[r] \notin {"unborn", "gone"} /\ \E place \in Places : Move(r, place)
    BY DEF Loop, Check, EndTask, Leave, ClearOwn, Places
  <2>. QED
    BY <2>1 DEF Move, Live, CampInv, TypeOK
<1>5. ASSUME ~disturbed PROVE Alone'
  <2>1. Alone /\ Few /\ Solo
    BY <1>5 DEF CampInv, Alone
  <2>2. Few'
    BY <1>4, <2>1, FewKept
  <2>3. Solo' /\ Busy' = Busy /\ Tracked' = Tracked
    BY <1>2, <2>1 DEF Solo, Busy, Tracked
  <2>4. ASSUME NEW h \in Handlers PROVE FactOf(h)'
    <3>1. FactOf(h)
      BY <2>1 DEF Alone
    <3>. QED
      BY <1>2, <1>4, <2>3, <3>1 DEF FactOf
  <2>. QED
    BY <1>4, <2>1, <2>2, <2>3, <2>4 DEF Alone
<1>. QED
  BY <1>1, <1>2, <1>3, <1>5 DEF CampInv

(* A request that no step of a sibling can disturb: what Focus needs of it.*)
LEMMA BusyFacts ==
  ASSUME CampInv, NEW h \in Handlers, ~disturbed
  PROVE  /\ TypeOK /\ JobsSized /\ Sized(job[h]) /\ Solo /\ Few /\ FactOf(h)
         /\ job[h] \in Jobs /\ Tracked \in SUBSET Ralphs
         /\ Busy = {} => Live \subseteq Tracked
BY LocalTyped, TrackedTyped DEF CampInv, Alone, JobsSized

(* Every action of a request keeps the start's locals small.               *)
LEMMA AnsweredSized ==
  ASSUME TypeOK, JobsSized, NEW h \in Handlers, NEW alive \in BOOLEAN, Answered(h, alive)
  PROVE  JobsSized'
<1>1. job[h] \in Jobs /\ Sized(job[h])
  BY LocalTyped DEF JobsSized
<1>2. Sized([job[h] EXCEPT !.kind = "start", !.phase = "first"])
  BY <1>1 DEF Sized, Jobs
<1>. QED
  BY <1>1, <1>2, AnsweredCases, GotoSized

LEMMA SizedKept ==
  ASSUME CampInv, NEW h \in Handlers,
         Continue(h) \/ \E kind \in Kinds : Request(h, kind)
  PROVE  JobsSized'
<1>. TypeOK /\ JobsSized
  BY DEF CampInv
<1>1. job[h] \in Jobs /\ Sized(job[h])
  BY LocalTyped DEF JobsSized
<1>2. \A ph \in {"first", "again", "last"} : Sized([job[h] EXCEPT !.phase = ph])
  BY <1>1 DEF Sized, Jobs
<1>3. \A S \in SUBSET Ralphs : Sized([job[h] EXCEPT !.pids = S])
  BY <1>1 DEF Sized, Jobs
<1>4. Sized([job[h] EXCEPT !.meta = meta])
  BY <1>1 DEF Sized, Jobs
<1>5. CASE ReadPids(h) \/ Target(h)
  BY <1>3, <1>5, TrackedTyped, GotoSized DEF ReadPids, Target
<1>6. CASE Judge(h)
  BY <1>4, <1>6, AnsweredSized, GotoSized DEF Judge
<1>7. CASE ClearClaim(h)
  BY <1>7, AnsweredSized DEF ClearClaim
<1>8. CASE ReclaimStale(h) \/ ListWorkers(h) \/ ReclaimAll(h)
  BY <1>2, <1>8, GotoSized DEF ReclaimStale, ListWorkers, ReclaimAll, Status
<1>9. CASE WriteStop(h)
  BY <1>1, <1>2, <1>9, GotoSized DEF WriteStop, Status
<1>10. CASE \/ Sweep(h) \/ UnlinkStop(h) \/ WritePid(h) \/ WriteClaim(h) \/ Kill(h)
            \/ UnlinkPids(h) \/ SpawnFails(h)
  BY <1>1, <1>10, GotoSized
    DEF Sweep, UnlinkStop, WritePid, WriteClaim, Kill, UnlinkPids, SpawnFails
<1>11. ASSUME NEW r \in Ralphs, Spawn(h, r) PROVE JobsSized'
  <2> DEFINE j == [job[h] EXCEPT !.spawned = @ \union {r},
                                 !.primary = IF job[h].spawned = {} THEN r ELSE @]
  <2>1. j.spawned = job[h].spawned \union {r}
        /\ j.primary = IF job[h].spawned = {} THEN r ELSE job[h].primary
    BY <1>1 DEF Jobs
  <2>2. IsFiniteSet(j.spawned) /\ Cardinality(j.spawned) <= MaxWorkers
    <3>1. IsFiniteSet(job[h].spawned) /\ Cardinality(job[h].spawned) < MaxWorkers
      BY <1>1, <1>11 DEF Sized, Spawn
    <3>2. Cardinality(job[h].spawned) \in Nat
      BY <3>1, FS_CardinalityType
    <3>3. IsFiniteSet(j.spawned)
          /\ \/ Cardinality(j.spawned) = Cardinality(job[h].spawned)
             \/ Cardinality(j.spawned) = Cardinality(job[h].spawned) + 1
      BY <2>1, <3>1, FS_AddElement
    <3>. QED
      BY <3>1, <3>2, <3>3, WorkersAssumption
  <2>3. Sized(j)
    BY <1>1, <2>1, <2>2 DEF Sized
  <2>. QED
    BY <1>11, <2>3, GotoSized DEF Spawn
<1>12. ASSUME NEW kind \in Kinds, Request(h, kind) PROVE JobsSized'
  <2> DEFINE j == [NoJob EXCEPT !.kind = kind,
                      !.phase = IF kind \in {"start", "resume"} THEN "first" ELSE "last"]
  <2>1. j.spawned = {}
    BY DEF NoJob
  <2>2. Sized(j)
    BY <2>1, FS_EmptySet, WorkersAssumption DEF Sized
  <2>. QED
    BY <1>12, <2>2, GotoSized DEF Request
<1>. QED
  BY <1>5, <1>6, <1>7, <1>8, <1>9, <1>10, <1>11, <1>12 DEF Continue

-----------------------------------------------------------------------------
(* One lemma for each part of the code: what it leaves known.              *)

LEMMA SameLive ==
  ASSUME UNCHANGED ralph
  PROVE  Live' = Live
BY DEF Live

LEMMA StatusAlone ==
  ASSUME CampInv, ~disturbed, NEW h \in Handlers,
         ReadPids(h) \/ Judge(h) \/ Sweep(h) \/ ClearClaim(h)
  PROVE  Alone'
<1>. DEFINE again == [job[h] EXCEPT !.kind = "start", !.phase = "first"]
<1>1. /\ TypeOK /\ Solo /\ Few /\ FactOf(h) /\ job[h] \in Jobs /\ Tracked \in SUBSET Ralphs
      /\ pc \in [Handlers -> Steps] /\ job \in [Handlers -> Jobs]
  BY BusyFacts DEF TypeOK
<1>2. Live' = Live /\ Few'
  <2>1. UNCHANGED ralph
    BY DEF ReadPids, Judge, Sweep, ClearClaim
  <2>. QED
    BY <2>1, <1>1, SameLive, FewKept
<1>3. CASE ReadPids(h)
  <2> DEFINE j == [job[h] EXCEPT !.pids = Tracked]
  <2>1. pc[h] = "read" /\ Goto(h, "judge", j) /\ Tracked' = Tracked
    BY <1>3 DEF ReadPids, files, Tracked
  <2>2. pc'[h] = "judge" /\ job'[h] = j /\ j.pids = Tracked
    BY <1>1, <2>1 DEF Goto, Jobs
  <2>3. FactOf(h)'
    BY <1>1, <1>2, <2>1, <2>2 DEF FactOf
  <2>. QED
    BY <1>1, <1>2, <2>1, <2>3, Focus
<1>4. CASE Judge(h) /\ AnswersAlive(h)
  <2>1. pc[h] = "judge" /\ Answered(h, TRUE) /\ Tracked' = Tracked
    BY <1>4 DEF Judge, files, Tracked
  <2>2. CASE Goto(h, "idle", job[h])
    <3>1. pc'[h] = "idle"
      BY <1>1, <2>2 DEF Goto
    <3>2. FactOf(h)' /\ Live \subseteq Tracked
      BY <1>1, <2>1, <3>1 DEF FactOf
    <3>. QED
      BY <1>1, <1>2, <2>1, <2>2, <3>2, Focus
  <2>3. CASE Goto(h, "unlinkStop", job[h]) /\ job[h].kind = "resume"
    <3>1. pc'[h] = "unlinkStop" /\ job'[h].kind = "resume"
      BY <1>1, <2>3 DEF Goto
    <3>2. FactOf(h)'
      BY <1>1, <1>2, <2>1, <3>1 DEF FactOf
    <3>. QED
      BY <1>1, <1>2, <2>1, <2>3, <3>2, Focus
  <2>4. CASE Goto(h, "read", again)
    <3>1. pc'[h] = "read"
      BY <1>1, <2>4 DEF Goto
    <3>2. FactOf(h)'
      BY <1>1, <1>2, <2>1, <3>1 DEF FactOf
    <3>. QED
      BY <1>1, <1>2, <2>1, <2>4, <3>2, Focus
  <2>. QED
    BY <2>1, <2>2, <2>3, <2>4, AnsweredCases
<1>5. CASE Judge(h) /\ ~AnswersAlive(h)
  <2> DEFINE j == [job[h] EXCEPT !.meta = meta]
  <2>1. pc[h] = "judge" /\ Goto(h, "sweep", j) /\ Live = {}
    BY <1>1, <1>5 DEF Judge, AnswersAlive, FactOf
  <2>2. pc'[h] = "sweep"
    BY <1>1, <2>1 DEF Goto
  <2>3. FactOf(h)'
    BY <1>2, <2>1, <2>2 DEF FactOf
  <2>. QED
    BY <1>1, <1>2, <2>1, <2>3, Focus
<1>6. CASE Sweep(h)
  <2>1. pc[h] = "sweep" /\ Goto(h, "clear", job[h]) /\ Live = {}
    BY <1>1, <1>6 DEF Sweep, FactOf
  <2>2. pc'[h] = "clear"
    BY <1>1, <2>1 DEF Goto
  <2>3. FactOf(h)'
    BY <1>2, <2>1, <2>2 DEF FactOf
  <2>. QED
    BY <1>1, <1>2, <2>1, <2>3, Focus
<1>7. CASE ClearClaim(h)
  <2>1. pc[h] = "clear" /\ Answered(h, FALSE) /\ Live = {}
    BY <1>1, <1>7 DEF ClearClaim, FactOf
  <2>2. ASSUME NEW s \in {"idle", "unlinkStop", "read"}, NEW j, Goto(h, s, j)
        PROVE Alone'
    <3>1. pc'[h] = s
      BY <1>1, <2>2 DEF Goto
    <3>2. FactOf(h)' /\ (Live \subseteq Tracked)'
      BY <1>2, <2>1, <3>1 DEF FactOf
    <3>. QED
      BY <1>1, <1>2, <2>1, <2>2, <3>2, Focus
  <2>. QED
    BY <2>1, <2>2, AnsweredCases
<1>. QED
  BY <1>3, <1>4, <1>5, <1>6, <1>7

LEMMA StartAlone ==
  ASSUME CampInv, ~disturbed, NEW h \in Handlers,
         \/ UnlinkStop(h) \/ ReclaimStale(h) \/ WritePid(h) \/ WriteClaim(h)
         \/ ListWorkers(h) \/ \E r \in Ralphs : Spawn(h, r)
  PROVE  Alone'
<1>1. /\ TypeOK /\ Solo /\ Few /\ FactOf(h) /\ job[h] \in Jobs /\ Sized(job[h])
      /\ pc \in [Handlers -> Steps] /\ job \in [Handlers -> Jobs]
      /\ job[h].spawned \in SUBSET Ralphs
  BY BusyFacts, LocalTyped DEF TypeOK
<1>2. ASSUME UNCHANGED ralph PROVE Live' = Live /\ Few'
  BY <1>1, <1>2, SameLive, FewKept
<1>3. CASE UnlinkStop(h)
  <2>1. /\ pc[h] = "unlinkStop" /\ Tracked' = Tracked /\ Live' = Live /\ Few'
        /\ Goto(h, IF job[h].kind = "start" THEN "spawn" ELSE "reclaimStale", job[h])
    BY <1>2, <1>3 DEF UnlinkStop, Tracked
  <2>2. CASE job[h].kind = "start"
    <3>1. pc'[h] = "spawn" /\ Live = {} /\ Goto(h, "spawn", job[h])
      BY <1>1, <2>1, <2>2 DEF Goto, FactOf
    <3>2. FactOf(h)'
      BY <2>1, <3>1 DEF FactOf
    <3>. QED
      BY <1>1, <2>1, <3>1, <3>2, Focus
  <2>3. CASE job[h].kind # "start"
    <3>1. pc'[h] = "reclaimStale" /\ Goto(h, "reclaimStale", job[h])
      BY <1>1, <2>1, <2>3 DEF Goto
    <3>2. FactOf(h)'
      BY <1>1, <2>1, <3>1 DEF FactOf
    <3>. QED
      BY <1>1, <2>1, <3>1, <3>2, Focus
  <2>. QED
    BY <2>2, <2>3
<1>4. CASE ReclaimStale(h)
  <2> DEFINE j == [job[h] EXCEPT !.phase = "again"]
  <2>1. /\ pc[h] = "reclaimStale" /\ Goto(h, "read", j)
        /\ Tracked' = Tracked /\ Live' = Live /\ Few'
    BY <1>2, <1>4 DEF ReclaimStale, Status, files, Tracked
  <2>2. pc'[h] = "read"
    BY <1>1, <2>1 DEF Goto
  <2>3. FactOf(h)'
    BY <1>1, <2>1, <2>2 DEF FactOf
  <2>. QED
    BY <1>1, <2>1, <2>3, Focus
<1>5. CASE WritePid(h)
  <2>1. /\ pc[h] = "spawn" /\ Goto(h, "claim", job[h]) /\ job[h].spawned # {}
        /\ pidFile' = job[h].primary /\ Live' = Live /\ Few'
    BY <1>2, <1>5 DEF WritePid
  <2>2. pc'[h] = "claim" /\ job'[h] = job[h]
    BY <1>1, <2>1 DEF Goto
  <2>3. FactOf(h)'
    BY <1>1, <2>1, <2>2 DEF FactOf
  <2>. QED
    BY <1>1, <2>1, <2>3, Focus
<1>6. CASE WriteClaim(h)
  <2>1. /\ pc[h] = "claim" /\ Goto(h, "list", job[h]) /\ pidFile' = pidFile
        /\ Live' = Live /\ Few'
    BY <1>2, <1>6 DEF WriteClaim
  <2>2. pc'[h] = "list" /\ job'[h] = job[h]
    BY <1>1, <2>1 DEF Goto
  <2>3. FactOf(h)'
    BY <1>1, <2>1, <2>2 DEF FactOf
  <2>. QED
    BY <1>1, <2>1, <2>3, Focus
<1>7. CASE ListWorkers(h)
  <2> DEFINE j == [job[h] EXCEPT !.phase = "last"]
  <2>1. /\ pc[h] = "list" /\ Goto(h, "read", j) /\ pidFile' = pidFile
        /\ workersFile' = IF Cardinality(job[h].spawned) > 1 THEN job[h].spawned ELSE {}
        /\ Live' = Live /\ Few'
    BY <1>2, <1>7 DEF ListWorkers, Status
  <2>2. /\ Live \subseteq job[h].spawned /\ pidFile = job[h].primary
        /\ job[h].primary \in job[h].spawned /\ IsFiniteSet(job[h].spawned)
    BY <1>1, <2>1 DEF FactOf, Sized
  <2>3. job[h].spawned \subseteq Tracked'
    <3>1. CASE Cardinality(job[h].spawned) > 1
      BY <1>1, <2>1, <3>1, NamesAssumption DEF Tracked
    <3>2. CASE ~(Cardinality(job[h].spawned) > 1)
      <4>1. {job[h].primary} \subseteq job[h].spawned /\ IsFiniteSet({job[h].primary})
            /\ Cardinality({job[h].primary}) = 1
        BY <2>2, FS_Singleton
      <4>2. Cardinality(job[h].spawned) \in Nat
        BY <2>2, FS_CardinalityType
      <4>3. Cardinality({job[h].primary}) <= Cardinality(job[h].spawned)
            /\ (Cardinality({job[h].primary}) = Cardinality(job[h].spawned)
                  => job[h].spawned = {job[h].primary})
        BY <2>2, <4>1, FS_Subset
      <4>4. job[h].spawned = {job[h].primary}
        BY <3>2, <4>1, <4>2, <4>3
      <4>. QED
        BY <1>1, <2>1, <2>2, <4>4, NamesAssumption DEF Tracked
    <3>. QED
      BY <3>1, <3>2
  <2>4. pc'[h] = "read"
    BY <1>1, <2>1 DEF Goto
  <2>5. FactOf(h)'
    BY <2>1, <2>2, <2>3, <2>4 DEF FactOf
  <2>. QED
    BY <1>1, <2>1, <2>5, Focus
<1>8. ASSUME NEW r \in Ralphs, Spawn(h, r) PROVE Alone'
  <2> DEFINE j == [job[h] EXCEPT !.spawned = @ \union {r},
                                 !.primary = IF job[h].spawned = {} THEN r ELSE @]
  <2>1. pc[h] = "spawn" /\ Goto(h, "spawn", j) /\ ralph' = [ralph EXCEPT ![r] = "check"]
    BY <1>8 DEF Spawn
  <2>2. pc'[h] = "spawn" /\ job'[h].spawned = job[h].spawned \union {r}
    BY <1>1, <2>1 DEF Goto, Jobs
  <2>3. Live' \subseteq Live \union {r} /\ Live \subseteq job[h].spawned
    BY <1>1, <2>1 DEF Live, TypeOK, FactOf
  <2>4. FactOf(h)'
    BY <2>2, <2>3 DEF FactOf
  <2>5. Few'
    <3>1. Sized(job[h])'
      BY <1>8, SizedKept DEF Continue, JobsSized
    <3>2. Live' \subseteq job'[h].spawned /\ IsFiniteSet(job'[h].spawned)
          /\ Cardinality(job'[h].spawned) <= MaxWorkers
      BY <2>2, <2>3, <3>1 DEF Sized
    <3>3. IsFiniteSet(Live') /\ Cardinality(Live') <= Cardinality(job'[h].spawned)
      BY <3>2, FS_Subset
    <3>4. Cardinality(Live') \in Nat /\ Cardinality(job'[h].spawned) \in Nat
      BY <3>2, <3>3, FS_CardinalityType
    <3>. QED
      BY <3>2, <3>3, <3>4, WorkersAssumption DEF Few
  <2>. QED
    BY <1>1, <2>1, <2>4, <2>5, Focus
<1>. QED
  BY <1>3, <1>4, <1>5, <1>6, <1>7, <1>8

LEMMA StopAlone ==
  ASSUME CampInv, ~disturbed, NEW h \in Handlers,
         WriteStop(h) \/ Target(h) \/ Kill(h) \/ UnlinkPids(h) \/ ReclaimAll(h)
  PROVE  Alone'
<1>1. /\ TypeOK /\ Solo /\ Few /\ FactOf(h) /\ job[h] \in Jobs
      /\ pc \in [Handlers -> Steps] /\ job \in [Handlers -> Jobs]
      /\ Tracked \in SUBSET Ralphs
  BY BusyFacts DEF TypeOK
<1>2. ASSUME UNCHANGED ralph PROVE Live' = Live /\ Few'
  BY <1>1, <1>2, SameLive, FewKept
<1>3. CASE WriteStop(h)
  <2>1. /\ pc[h] = "writeStop" /\ Tracked' = Tracked /\ Live' = Live /\ Few'
        /\ \/ Goto(h, "target", job[h])
           \/ Goto(h, "read", [job[h] EXCEPT !.phase = "last"])
    BY <1>2, <1>3 DEF WriteStop, Status, Tracked
  <2>2. ASSUME NEW s \in {"target", "read"}, NEW j, Goto(h, s, j) PROVE Alone'
    <3>1. pc'[h] = s
      BY <1>1, <2>2 DEF Goto
    <3>2. FactOf(h)'
      BY <1>1, <2>1, <3>1 DEF FactOf
    <3>. QED
      BY <1>1, <2>1, <2>2, <3>2, Focus
  <2>. QED
    BY <2>1, <2>2
<1>4. CASE Target(h)
  <2> DEFINE j == [job[h] EXCEPT !.pids = Tracked]
  <2>1. /\ pc[h] = "target" /\ Goto(h, "kill", j) /\ Live' = Live /\ Few'
    BY <1>2, <1>4 DEF Target
  <2>2. pc'[h] = "kill" /\ job'[h].pids = Tracked
    BY <1>1, <2>1 DEF Goto, Jobs
  <2>3. FactOf(h)'
    BY <1>1, <2>1, <2>2 DEF FactOf
  <2>. QED
    BY <1>1, <2>1, <2>3, Focus
<1>5. CASE Kill(h)
  <2>1. /\ pc[h] = "kill" /\ Goto(h, "unlinkPids", job[h]) /\ Live \subseteq job[h].pids
        /\ ralph' = [r \in Ralphs |->
                       IF r \in job[h].pids \intersect Live THEN "gone" ELSE ralph[r]]
    BY <1>1, <1>5 DEF Kill, FactOf
  <2>2. pc'[h] = "unlinkPids" /\ Live' = {}
    BY <1>1, <2>1 DEF Goto, Live
  <2>3. FactOf(h)' /\ Few'
    BY <1>1, <2>1, <2>2, FewKept DEF FactOf
  <2>. QED
    BY <1>1, <2>1, <2>3, Focus
<1>6. CASE UnlinkPids(h)
  <2>1. /\ pc[h] = "unlinkPids" /\ Goto(h, "reclaim", job[h])
        /\ Live = {} /\ Live' = Live /\ Few'
    BY <1>1, <1>2, <1>6 DEF UnlinkPids, FactOf
  <2>2. pc'[h] = "reclaim"
    BY <1>1, <2>1 DEF Goto
  <2>3. FactOf(h)'
    BY <2>1, <2>2 DEF FactOf
  <2>. QED
    BY <1>1, <2>1, <2>3, Focus
<1>7. CASE ReclaimAll(h)
  <2> DEFINE j == [job[h] EXCEPT !.phase = "last"]
  <2>1. /\ pc[h] = "reclaim" /\ Goto(h, "read", j)
        /\ Live = {} /\ Live' = Live /\ Few'
    BY <1>1, <1>2, <1>7 DEF ReclaimAll, Status, FactOf
  <2>2. pc'[h] = "read"
    BY <1>1, <2>1 DEF Goto
  <2>3. FactOf(h)'
    BY <2>1, <2>2 DEF FactOf
  <2>. QED
    BY <1>1, <2>1, <2>3, Focus
<1>. QED
  BY <1>3, <1>4, <1>5, <1>6, <1>7

(* A request that is undisturbed when it arrives is alone.                 *)
LEMMA RequestAlone ==
  ASSUME CampInv, ~disturbed', NEW h \in Handlers, NEW kind \in Kinds, Request(h, kind)
  PROVE  Alone'
<1>. DEFINE s == IF kind \in {"pause", "stop"} THEN "writeStop" ELSE "read"
            j == [NoJob EXCEPT !.kind = kind,
                      !.phase = IF kind \in {"start", "resume"} THEN "first" ELSE "last"]
<1>1. ~disturbed /\ Busy = {}
  BY DEF Request, CampInv, TypeOK
<1>2. /\ TypeOK /\ Solo /\ Few /\ pc \in [Handlers -> Steps] /\ Live \subseteq Tracked
  BY <1>1, BusyFacts DEF TypeOK
<1>3. Goto(h, s, j) /\ UNCHANGED <<ralph, pidFile, workersFile>>
  BY DEF Request, files
<1>4. Live' = Live /\ Tracked' = Tracked /\ Few'
  BY <1>2, <1>3, SameLive, FewKept DEF Tracked
<1>5. pc'[h] = s
  BY <1>2, <1>3 DEF Goto
<1>6. FactOf(h)'
  BY <1>2, <1>4, <1>5 DEF FactOf
<1>. QED
  BY <1>1, <1>2, <1>3, <1>4, <1>6, Focus

LEMMA StepInv == CampInv /\ [Next]_vars => CampInv'
<1>. SUFFICES ASSUME CampInv, [Next]_vars PROVE CampInv'
  OBVIOUS
<1>1. TypeOK'
  BY StepTyped DEF CampInv
<1>2. ASSUME NEW h \in Handlers, Continue(h) PROVE CampInv'
  <2>1. JobsSized'
    BY <1>2, SizedKept
  <2>2. ASSUME ~disturbed' PROVE Alone'
    <3>1. ~SpawnFails(h)
      BY <2>2 DEF SpawnFails
    <3>2. ~disturbed
      BY <1>2, <2>2, <3>1
        DEF Continue, ReadPids, Judge, Sweep, ClearClaim, UnlinkStop, ReclaimStale,
            WritePid, WriteClaim, ListWorkers, WriteStop, Target, Kill, UnlinkPids,
            ReclaimAll, Spawn
    <3>. QED
      BY <1>2, <3>1, <3>2, StatusAlone, StartAlone, StopAlone DEF Continue
  <2>. QED
    BY <1>1, <2>1, <2>2 DEF CampInv
<1>3. ASSUME NEW h \in Handlers, NEW kind \in Kinds, Request(h, kind) PROVE CampInv'
  <2>1. JobsSized'
    BY <1>3, SizedKept
  <2>2. ~disturbed' => Alone'
    BY <1>3, RequestAlone
  <2>. QED
    BY <1>1, <2>1, <2>2 DEF CampInv
<1>4. ASSUME NEW r \in Ralphs, Loop(r) PROVE CampInv'
  BY <1>4, LoopKeeps
<1>5. CASE UNCHANGED vars
  <2>1. UNCHANGED <<pidFile, workersFile, ralph, pc, job, disturbed>>
    BY <1>5 DEF vars, files
  <2>2. Live' = Live /\ Tracked' = Tracked /\ Busy' = Busy
    BY <2>1, SameLive DEF Tracked, Busy
  <2>3. JobsSized'
    BY <2>1 DEF CampInv, JobsSized, Sized
  <2>4. ~disturbed => Alone'
    BY <2>1, <2>2 DEF CampInv, Alone, Solo, Few, FactOf
  <2>. QED
    BY <1>1, <2>1, <2>3, <2>4 DEF CampInv
<1>. QED
  BY <1>2, <1>3, <1>4, <1>5 DEF Next

LEMMA InitInv == Init => CampInv
<1>. SUFFICES ASSUME Init PROVE CampInv
  OBVIOUS
<1>1. Live = {} /\ Busy = {} /\ \A h \in Handlers : pc[h] = "idle"
  BY DEF Init, Live, Busy
<1>2. Few
  BY <1>1, FS_EmptySet, WorkersAssumption DEF Few
<1>3. Alone
  BY <1>1, <1>2 DEF Alone, Solo, FactOf
<1>4. Sized(NoJob)
  BY FS_EmptySet, WorkersAssumption DEF Sized, NoJob
<1>5. JobsSized
  BY <1>4 DEF Init, JobsSized
<1>. QED
  BY <1>3, <1>5, InitTyped DEF CampInv

THEOREM CampaignInvariant == Spec => []CampInv
BY InitInv, StepInv, PTL DEF Spec

-----------------------------------------------------------------------------
(* As long as requests come one at a time and every Popen succeeds, no     *)
(* Ralph runs that the pid files do not name: start_run names in them      *)
(* every process it spawns, and runner_status unlinks them only when none  *)
(* of those lives.                                                         *)
THEOREM NobodyLost == Spec => []LostOnlyIfDisturbed
<1>1. CampInv => LostOnlyIfDisturbed
  BY DEF CampInv, Alone, LostOnlyIfDisturbed
<1>. QED
  BY <1>1, CampaignInvariant, PTL

(* Then no start adds Ralphs to a campaign that runs.                      *)
THEOREM NeverTwoCampaigns == Spec => []OneCampaign
<1>1. CampInv => OneCampaign
  BY DEF CampInv, Alone, Few, OneCampaign
<1>. QED
  BY <1>1, CampaignInvariant, PTL

(* Then stop_run_hard requeues the leased tasks when no Ralph runs them.   *)
THEOREM NothingReclaimedUnderARalph == Spec => []ReclaimAfterKill
<1>1. CampInv => ReclaimAfterKill
  BY DEF CampInv, Alone, FactOf, ReclaimAfterKill
<1>. QED
  BY <1>1, CampaignInvariant, PTL
=============================================================================
