------------------------------ MODULE LiveTask ------------------------------
(***************************************************************************)
(* The live view of one task and the operator's inbox.  The worker's main  *)
(* thread, the threads of its tools and its heartbeat write the snapshot   *)
(* live/task-N.json; the dashboard's handlers write steer/task-N.json,     *)
(* which the main thread consumes between two model rounds.  Each of them  *)
(* reads and writes under an flock on steer/task-N.lock, a file they       *)
(* create when it is missing and the dashboard's pruning unlinks.          *)
(*                                                                         *)
(* A step is one system call, or the read and the write a holder does with *)
(* nobody to disturb it; opening the lock file, locking it, and writing    *)
(* back what was read are steps of their own.  Texts, times and the tools  *)
(* themselves are left out.                                                *)
(***************************************************************************)
EXTENDS Naturals, SequencesExt, FiniteSetsExt

CONSTANTS
  Tools,        \* threads: the tool calls of a round run at once
  Handlers,     \* dashboard requests at a time
  NotesCap,     \* _NOTES_CAP
  MaxSteps,     \* _MAX_STEPS
  MaxRounds,    \* llm.max_tool_rounds
  Budgets       \* bounds: how often each thing happens, see Spend

Kinds == {"note", "force", "abort"}

ASSUME CapsAssumption == {NotesCap, MaxSteps, MaxRounds} \subseteq Nat \ {0}
ASSUME BudgetsAssumption ==
  Budgets \subseteq [Kinds \union {"attempt", "call", "touch", "prune", "kill"} -> Nat]

VARIABLES
  file,      \* inode of the lock file, 0 if there is none
  steer,     \* the operator's inbox
  snap,      \* the snapshot
  at,        \* what each thread or process is doing
  leased,    \* the task is leased, by a live worker or by a dead one
  round,     \* bind.round_n of the attempt
  beating,   \* the heartbeat thread has not been told to stop
  budget,    \* what may still happen
  past       \* history: see Nothing

vars == <<file, steer, snap, at, leased, round, beating, budget, past>>

Main == "main"
Beat == "beat"
Pruner == "pruner"
Procs == {Main, Beat, Pruner} \union Tools \union Handlers
Worker == {Main, Beat} \union Tools

ASSUME NamesAssumption ==
  /\ {Main, Beat, Pruner} \intersect (Tools \union Handlers) = {}
  /\ Tools \intersect Handlers = {}
ASSUME FiniteAssumption == IsFiniteSet(Tools) /\ IsFiniteSet(Handlers)

NoSteer == [notes |-> <<>>, force |-> "none", abort |-> "none"]
NoSnap  == [phase |-> "idle", steps |-> <<>>]
(* job: what the lock is wanted for; fd: the inode it has open.            *)
Idle == [job |-> "idle", step |-> "none", fd |-> 0, steer |-> NoSteer, snap |-> NoSnap]
Wants(job) == [Idle EXCEPT !.job = job, !.step = "open"]

(* given: notes accepted; handed: notes put before the agent; made: tool   *)
(* calls recorded in this round; pending: an abort was accepted and not    *)
(* seen yet; late: model rounds begun since; unlinked: files were pruned   *)
(* under somebody who was using them.                                      *)
Nothing == [given |-> 0, handed |-> <<>>, made |-> 0, pending |-> FALSE, late |-> 0,
            unlinked |-> FALSE]

Spend(what) == budget[what] > 0 /\ budget' = [budget EXCEPT ![what] = @ - 1]
Become(p, s) == at' = [at EXCEPT ![p] = s]
Inodes == 1..(Cardinality(Procs) + 1)
NewInode == CHOOSE i \in Inodes : \A p \in Procs : at[p].fd # i

-----------------------------------------------------------------------------
(* The lock.                                                               *)

Open(p) ==
  /\ at[p].step = "open"
  /\ file' = IF file = 0 THEN NewInode ELSE file
  /\ Become(p, [at[p] EXCEPT !.step = "wait", !.fd = file'])
  /\ UNCHANGED <<steer, snap, leased, round, beating, budget, past>>

(* Mutant: nobody is waited for.                                           *)
GrantedAtOnce(p) == p \in Procs
Granted(p) == \A q \in Procs \ {p} : at[q].step = "held" => at[q].fd # at[p].fd

Lock(p) ==
  /\ at[p].step = "wait" /\ Granted(p)
  /\ Become(p, [at[p] EXCEPT !.step = "held", !.steer = steer, !.snap = snap])
  /\ UNCHANGED <<file, steer, snap, leased, round, beating, budget, past>>

Holds(p, job) == at[p].step = "held" /\ at[p].job = job

-----------------------------------------------------------------------------
(* The main thread.                                                        *)

(* A worker leases the task, the first time or after a worker died.        *)
Attempt ==
  /\ at[Main] = Idle /\ Spend("attempt")
  /\ leased' = TRUE
  /\ Become(Main, Wants("bind"))
  /\ round' = 0
  /\ past' = [past EXCEPT !.late = 0]
  /\ UNCHANGED <<file, steer, snap, beating>>

BindTask ==
  /\ Holds(Main, "bind")
  /\ snap' = [phase |-> "running", steps |-> <<>>]
  /\ Become(Main, Wants("boundary"))
  /\ UNCHANGED <<file, steer, leased, round, beating, budget, past>>

(* The notes not consumed yet, in their order.                             *)
Pending(notes) ==
  FlattenSeq([i \in DOMAIN notes |-> IF notes[i].consumed THEN <<>> ELSE <<notes[i].id>>])
AllConsumed(notes) == [i \in DOMAIN notes |-> [notes[i] EXCEPT !.consumed = TRUE]]

NotesTaken(s) == [s EXCEPT !.notes = AllConsumed(@)]

(* Abort before force, force before notes.  A forced submit_none is called *)
(* with the lock held.                                                     *)
RoundBoundary ==
  /\ Holds(Main, "boundary")
  /\ LET s == at[Main].steer
     IN  CASE s.abort = "asked" ->
                /\ steer' = [s EXCEPT !.abort = "seen"]
                /\ Become(Main, Wants("unbind"))
                /\ past' = [past EXCEPT !.pending = FALSE, !.late = 0]
           [] s.abort # "asked" /\ s.force = "asked" ->
                /\ steer' = [s EXCEPT !.force = "applied"]
                /\ Become(Main, [at[Main] EXCEPT !.job = "forced", !.steer = steer',
                                                 !.snap = snap])
                /\ UNCHANGED past
           [] OTHER ->
                /\ steer' = IF Pending(s.notes) = <<>> THEN steer ELSE NotesTaken(s)
                /\ Become(Main, [Idle EXCEPT !.job = "deliver", !.steer = s])
                /\ UNCHANGED past
  /\ UNCHANGED <<file, snap, leased, round, beating, budget>>

(* Consumed first, handed over then.                                       *)
Deliver ==
  /\ at[Main].job = "deliver"
  /\ past' = [past EXCEPT !.handed = @ \o Pending(at[Main].steer.notes)]
  /\ Become(Main, Wants("start"))
  /\ UNCHANGED <<file, steer, snap, leased, round, beating, budget>>

CallsIn(steps, r) == {steps[i].call : i \in {j \in DOMAIN steps : steps[j].round = r}}
(* Mutant: the rows left count, not the highest of them.                   *)
RowsInRound(steps, r) == Len(SelectSeq(steps, LAMBDA s : s.round = r))
MaxCallInRound(steps, r) == Max(CallsIn(steps, r) \union {0})

Trimmed(steps) == IF Len(steps) > MaxSteps THEN Tail(steps) ELSE steps

(* Before the first round a call is recorded as one of round 1.            *)
ThisRound == IF round > 0 THEN round ELSE 1
Recorded(s) ==
  [phase |-> "running",
   steps |-> Trimmed(Append(s.steps, [round |-> ThisRound,
                                      call |-> 1 + MaxCallInRound(s.steps, ThisRound)]))]

(* The tool is recorded by the thread that holds the lock; the steer file  *)
(* is then written again as it was read.                                   *)
ForcedNone(ok) ==
  /\ Holds(Main, "forced")
  /\ snap' = Recorded(snap) /\ steer' = at[Main].steer
  /\ past' = [past EXCEPT !.made = @ + 1]
  /\ beating' = FALSE
  /\ Become(Main, Wants(IF ok THEN "unbind" ELSE "start"))
  /\ UNCHANGED <<file, leased, round, budget>>

NoteRoundStart ==
  /\ Holds(Main, "start")
  /\ round' = round + 1
  /\ snap' = [at[Main].snap EXCEPT !.phase = "thinking"]
  /\ beating' = TRUE
  /\ past' = [past EXCEPT !.made = Cardinality(CallsIn(at[Main].snap.steps, round + 1)),
                          !.late = IF past.pending THEN @ + 1 ELSE @]
  /\ Become(Main, [Idle EXCEPT !.job = "model"])
  /\ UNCHANGED <<file, steer, leased, budget>>

(* The model answers with the calls of T, or with none and the loop ends.  *)
ModelAnswers(T) ==
  /\ at[Main].job = "model" /\ Cardinality(T) <= budget["call"]
  /\ budget' = [budget EXCEPT !["call"] = @ - Cardinality(T)]
  /\ at' = [p \in Procs |->
              IF p \in T THEN Wants("record")
              ELSE IF p # Main THEN at[p]
              ELSE IF T = {} THEN Wants("unbind") ELSE [Idle EXCEPT !.job = "tools"]]
  /\ UNCHANGED <<file, steer, snap, leased, round, beating, past>>

RecordToolCall(t) ==
  /\ Holds(t, "record")
  /\ snap' = Recorded(at[t].snap)
  /\ past' = [past EXCEPT !.made = @ + 1]
  /\ beating' = FALSE
  /\ Become(t, Idle)
  /\ UNCHANGED <<file, steer, leased, round, budget>>

(* All calls have returned; one of them may have been terminal.            *)
RoundEnds(job) ==
  /\ at[Main].job = "tools" /\ \A t \in Tools : at[t] = Idle
  /\ job = "boundary" => round < MaxRounds
  /\ Become(Main, Wants(job))
  /\ UNCHANGED <<file, steer, snap, leased, round, beating, budget, past>>

HeartbeatDue ==
  /\ beating /\ at[Beat] = Idle /\ Spend("touch")
  /\ Become(Beat, Wants("touch"))
  /\ UNCHANGED <<file, steer, snap, leased, round, beating, past>>

(* The snapshot is written back as it was read, with a new time.           *)
HeartbeatTouch ==
  /\ Holds(Beat, "touch")
  /\ snap' = IF at[Beat].snap.phase = "thinking" THEN at[Beat].snap ELSE snap
  /\ Become(Beat, Idle)
  /\ UNCHANGED <<file, steer, leased, round, beating, budget, past>>

(* The worker then writes the task's last state.                           *)
UnbindTask ==
  /\ Holds(Main, "unbind")
  /\ snap' = [at[Main].snap EXCEPT !.phase = "ended"]
  /\ beating' = FALSE /\ leased' = FALSE
  /\ Become(Main, Idle)
  /\ UNCHANGED <<file, steer, round, budget, past>>

(* A kill, for an abort or a timeout, closes every descriptor.             *)
Killed ==
  /\ at[Main] # Idle /\ Spend("kill")
  /\ at' = [p \in Procs |-> IF p \in Worker THEN Idle ELSE at[p]]
  /\ beating' = FALSE
  /\ UNCHANGED <<file, steer, snap, leased, round, past>>

-----------------------------------------------------------------------------
(* The dashboard.                                                          *)

Request(h, kind) ==
  /\ at[h] = Idle /\ leased
  /\ Spend(kind)
  /\ Become(h, Wants(kind))
  /\ UNCHANGED <<file, steer, snap, leased, round, beating, past>>

(* Mutant: a full inbox keeps the oldest notes.                            *)
OldestNotes(notes) == SubSeq(notes, 1, IF Len(notes) > NotesCap THEN NotesCap ELSE Len(notes))
LastNotes(notes) == IF Len(notes) > NotesCap THEN Tail(notes) ELSE notes

AddOperatorNote(h) ==
  /\ Holds(h, "note")
  /\ steer' = [at[h].steer EXCEPT
                 !.notes = LastNotes(Append(@, [id |-> past.given + 1, consumed |-> FALSE]))]
  /\ past' = [past EXCEPT !.given = @ + 1]
  /\ Become(h, Idle)
  /\ UNCHANGED <<file, snap, leased, round, beating, budget>>

RequestForceSubmitNone(h) ==
  /\ Holds(h, "force")
  /\ steer' = IF at[h].steer.force = "asked" THEN steer
              ELSE [at[h].steer EXCEPT !.force = "asked"]
  /\ Become(h, Idle)
  /\ UNCHANGED <<file, snap, leased, round, beating, budget, past>>

(* The kill that follows may fail.                                         *)
RequestAbort(h) ==
  /\ Holds(h, "abort")
  /\ steer' = [at[h].steer EXCEPT !.abort = "asked"]
  /\ past' = [past EXCEPT !.pending = TRUE]
  /\ Become(h, Idle)
  /\ UNCHANGED <<file, snap, leased, round, beating, budget>>

(* The run is idle when the pruner looks; it unlinks later.                *)
PruneLook ==
  /\ at[Pruner] = Idle /\ at[Main] = Idle /\ ~leased /\ Spend("prune")
  /\ Become(Pruner, [Idle EXCEPT !.job = "live"])
  /\ UNCHANGED <<file, steer, snap, leased, round, beating, past>>

UnderSomebody == past.unlinked \/ \E p \in Procs \ {Pruner} : at[p] # Idle

PruneLive ==
  /\ at[Pruner].job = "live"
  /\ snap' = NoSnap
  /\ past' = [past EXCEPT !.unlinked = UnderSomebody]
  /\ Become(Pruner, [Idle EXCEPT !.job = "locks"])
  /\ UNCHANGED <<file, steer, leased, round, beating, budget>>

PruneLocks ==
  /\ at[Pruner].job = "locks"
  /\ file' = 0
  /\ past' = [past EXCEPT !.unlinked = UnderSomebody]
  /\ Become(Pruner, Idle)
  /\ UNCHANGED <<steer, snap, leased, round, beating, budget>>

-----------------------------------------------------------------------------
Init ==
  /\ file = 0 /\ steer = NoSteer /\ snap = NoSnap
  /\ at = [p \in Procs |-> Idle]
  /\ leased = FALSE /\ round = 0 /\ beating = FALSE /\ past = Nothing
  /\ budget \in Budgets

Next ==
  \/ \E p \in Procs : Open(p) \/ Lock(p)
  \/ Attempt \/ BindTask \/ RoundBoundary \/ Deliver \/ NoteRoundStart
  \/ \E ok \in BOOLEAN : ForcedNone(ok)
  \/ \E T \in SUBSET Tools : ModelAnswers(T)
  \/ \E t \in Tools : RecordToolCall(t)
  \/ \E job \in {"boundary", "unbind"} : RoundEnds(job)
  \/ HeartbeatDue \/ HeartbeatTouch \/ UnbindTask \/ Killed
  \/ \E h \in Handlers : \/ \E kind \in Kinds : Request(h, kind)
                         \/ AddOperatorNote(h) \/ RequestForceSubmitNone(h) \/ RequestAbort(h)
  \/ PruneLook \/ PruneLive \/ PruneLocks

Spec == Init /\ [][Next]_vars

-----------------------------------------------------------------------------
Jobs   == {"idle", "bind", "boundary", "forced", "deliver", "start", "model", "tools",
           "unbind", "record", "touch", "live", "locks"} \union Kinds
NoteSet == [id : Nat \ {0}, consumed : BOOLEAN]
RowSet  == [round : Nat \ {0}, call : Nat \ {0}]
Steers == [notes : Seq(NoteSet), force : {"none", "asked", "applied"},
           abort : {"none", "asked", "seen"}]
Snaps  == [phase : {"idle", "running", "thinking", "ended"}, steps : Seq(RowSet)]
Seats  == [job : Jobs, step : {"none", "open", "wait", "held"}, fd : Inodes \union {0},
           steer : Steers, snap : Snaps]

(* The inbox and the list of steps stay within their caps, also in the     *)
(* copies that are written back, and no more rounds begin than allowed.    *)
TypeOK ==
  /\ file \in Inodes \union {0} /\ round \in 0..MaxRounds
  /\ {leased, beating} \subseteq BOOLEAN
  /\ steer \in Steers /\ snap \in Snaps /\ at \in [Procs -> Seats]
  /\ \A s \in {steer} \union {at[p].steer : p \in Procs} : Len(s.notes) <= NotesCap
  /\ \A s \in {snap} \union {at[p].snap : p \in Procs} : Len(s.steps) <= MaxSteps
  /\ budget \in [Kinds \union {"attempt", "call", "touch", "prune", "kill"} -> Nat]
  /\ past \in [given : Nat, handed : Seq(Nat \ {0}), made : Nat, pending : BOOLEAN,
               late : Nat, unlinked : BOOLEAN]

(* While nothing is pruned under its users: the last NotesCap notes the    *)
(* operator was told are queued are in the inbox, consumed or not, and     *)
(* notes reach the agent in their order, none of them twice.               *)
NotesKept ==
  past.unlinked \/
    /\ \A n \in 1..past.given : n + NotesCap > past.given =>
         \E i \in DOMAIN steer.notes : steer.notes[i].id = n
    /\ \A i, j \in DOMAIN past.handed : i < j => past.handed[i] < past.handed[j]

(* While nothing is pruned under its users: the calls of a round are       *)
(* numbered one after the other, whichever thread records them and however *)
(* many rows have been dropped.                                            *)
CallsNumbered ==
  past.unlinked \/
    /\ \A i, j \in DOMAIN snap.steps :
         i < j /\ snap.steps[i].round = snap.steps[j].round =>
           snap.steps[i].call < snap.steps[j].call
    /\ (round > 0 /\ past.made > 0 /\ at[Main].job \in {"model", "tools"}) =>
         MaxCallInRound(snap.steps, round) = past.made

(* While nothing is pruned under its users: an abort that was accepted     *)
(* lets the worker begin one more model round at the most.                 *)
AbortWithinOneRound == past.unlinked \/ past.late <= 1
=============================================================================
