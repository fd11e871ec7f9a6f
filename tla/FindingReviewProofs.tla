------------------------ MODULE FindingReviewProofs ------------------------
(***************************************************************************)
(* Proofs about FindingReview, for every set of findings, workers and      *)
(* handlers and every value of the bounds.                                 *)
(*                                                                         *)
(* Every action lets one process go on (Goto) and issues at most one       *)
(* UPDATE.  The first lemmas say what these two building blocks preserve;  *)
(* each theorem then goes through the actions once.                        *)
(***************************************************************************)
EXTENDS FindingReview, TLAPS

TableOK  == state \in [Findings -> States] /\ body \in [Findings -> Bodies]
LocalsOK == pc \in [Processes -> Steps] /\ job \in [Processes -> Jobs]
            /\ seen \in [Processes -> Rows]
InboxOK  == /\ hitl \in [Findings -> {"none", "awaiting-review", "done"}]
            /\ approval \in [Findings -> {"none", "approved", "changes-requested"}]
QueueOK  == queue \in [TaskSet -> Nat]
UsedOK   == used \in [{"crashes", "failures", "hunts", "evidence", "requests"} -> Nat]
HistoryOK == /\ accepted \in [Findings -> BOOLEAN]

(* A process about to write a review has an action of the human to write.  *)
ReviewInv == \A p \in Processes : pc[p] = "reviewWrite" => job[p].act \in Acts

TypeInv == TypeOK /\ ReviewInv

-----------------------------------------------------------------------------
(* The building blocks are typed.                                          *)

LEMMA TypeParts ==
  TypeOK <=> TableOK /\ LocalsOK /\ InboxOK /\ QueueOK /\ UsedOK /\ HistoryOK
BY DEF TypeOK, TableOK, LocalsOK, InboxOK, QueueOK, UsedOK, HistoryOK

LEMMA TypePartsNext ==
  TypeOK' <=> TableOK' /\ LocalsOK' /\ InboxOK' /\ QueueOK' /\ UsedOK' /\ HistoryOK'
BY DEF TypeOK, TableOK, LocalsOK, InboxOK, QueueOK, UsedOK, HistoryOK

LEMMA NoneTyped == NoJob \in Jobs /\ NoRow \in Rows /\ Fresh \in Bodies
<1>1. (CHOOSE f \in Findings : TRUE) \in Findings
  BY FindingsAssumption
<1>2. NoJob \in Jobs
  BY <1>1 DEF NoJob, Jobs, Kinds
<1>3. Fresh \in Bodies
  BY DEF Fresh, Bodies
<1>. QED
  BY <1>2, <1>3 DEF NoRow, Rows, States

LEMMA RowTyped ==
  ASSUME TypeOK, NEW f \in Findings
  PROVE  /\ Row(f) \in Rows
         /\ Row(f).state = state[f] /\ Row(f).body = body[f]
         /\ state[f] \in States /\ body[f] \in Bodies
BY DEF TypeOK, Row, Rows

LEMMA LocalTyped ==
  ASSUME TypeOK, NEW p \in Processes
  PROVE  /\ job[p] \in Jobs /\ On(p) \in Findings /\ job[p].flag \in BOOLEAN
         /\ seen[p] \in Rows /\ seen[p].state \in States /\ seen[p].body \in Bodies
         /\ pc[p] \in Steps
BY DEF TypeOK, Jobs, Rows, On

LEMMA BodyTyped ==
  ASSUME NEW b \in Bodies, NEW x \in BOOLEAN, NEW y \in BOOLEAN, NEW z \in BOOLEAN,
         NEW a \in Acts
  PROVE  /\ [b EXCEPT !.pending = x] \in Bodies
         /\ [b EXCEPT !.pending = x, !.deadlettered = y] \in Bodies
         /\ [b EXCEPT !.passed = x, !.pending = y, !.deadlettered = z] \in Bodies
         /\ [b EXCEPT !.review = a] \in Bodies
BY DEF Bodies

LEMMA GotoTyped ==
  ASSUME TypeInv, NEW p \in Processes, NEW s \in Steps, NEW j \in Jobs, NEW v \in Rows,
         Goto(p, s, j, v),
         s = "reviewWrite" => j.act \in Acts
  PROVE  LocalsOK' /\ ReviewInv'
<1>1. LocalsOK'
  BY NoneTyped DEF TypeInv, TypeOK, LocalsOK, Goto
<1>2. ASSUME NEW q \in Processes, pc'[q] = "reviewWrite" PROVE job'[q].act \in Acts
  <2>1. CASE q = p
    BY <1>2, <2>1 DEF TypeInv, TypeOK, Goto
  <2>2. CASE q # p
    BY <1>2, <2>2 DEF TypeInv, TypeOK, ReviewInv, Goto
  <2>. QED
    BY <2>1, <2>2
<1>. QED
  BY <1>1, <1>2 DEF ReviewInv

LEMMA MoveTyped ==
  ASSUME TypeInv, NEW p \in Processes, NEW s \in Steps, s # "reviewWrite",
         Move(p, s) \/ Look(p, s)
  PROVE  LocalsOK' /\ ReviewInv'
<1>. TypeOK
  BY DEF TypeInv
<1>1. job[p] \in Jobs /\ seen[p] \in Rows /\ Current(p) \in Rows
  BY LocalTyped, RowTyped DEF Current
<1>. QED
  BY <1>1, GotoTyped DEF Move, Look

LEMMA WriteTyped ==
  ASSUME TypeOK, NEW f \in Findings, NEW s \in States, NEW b \in Bodies,
         WriteRow(f, s, b) \/ WriteBody(f, b)
  PROVE  TableOK'
BY DEF TypeOK, TableOK, WriteRow, WriteBody

LEMMA AddTyped ==
  ASSUME TypeOK, NEW t, Add(t)
  PROVE  QueueOK'
<1>1. queue \in [TaskSet -> Nat]
  BY DEF TypeOK
<1>2. queue' = [queue EXCEPT ![t] = queue[t] + 1]
  BY DEF Add
<1>3. SUFFICES ASSUME NEW u \in TaskSet PROVE queue'[u] \in Nat
  BY <1>1, <1>2 DEF QueueOK
<1>4. CASE u = t
  BY <1>1, <1>2, <1>4
<1>5. CASE u # t
  BY <1>1, <1>2, <1>5
<1>. QED
  BY <1>4, <1>5

LEMMA SpendTyped ==
  ASSUME TypeOK, NEW what \in {"crashes", "failures", "hunts", "evidence", "requests"},
         NEW limit, Spend(what, limit)
  PROVE  UsedOK'
BY DEF TypeOK, UsedOK, Spend

(* Variables that an action leaves alone keep their type.                  *)
LEMMA Kept ==
  ASSUME TypeOK
  PROVE  /\ UNCHANGED table => TableOK'
         /\ UNCHANGED inbox => InboxOK'
         /\ UNCHANGED queue => QueueOK'
         /\ UNCHANGED used => UsedOK'
         /\ UNCHANGED accepted => HistoryOK'
BY DEF TypeOK, TableOK, InboxOK, QueueOK, UsedOK, HistoryOK, table, inbox

-----------------------------------------------------------------------------
(* Typing of the actions, one lemma for each group of them.                *)

LEMMA BodyWrites ==
  ASSUME TypeInv, NEW p \in Processes,
         \/ Normalise(p) \/ ArmWrite(p) \/ StampWrite(p) \/ CleanupWrite(p)
         \/ EvidenceWrite(p) \/ NoteWrite(p)
  PROVE  TypeInv'
<1>. TypeOK
  BY DEF TypeInv
<1>. USE LocalTyped, Kept, TypePartsNext DEF TypeInv
<1>1. On(p) \in Findings /\ seen[p].body \in Bodies
  OBVIOUS
<1>2. CASE Normalise(p)
  BY <1>1, <1>2, MoveTyped, WriteTyped DEF Normalise, Steps, States
<1>3. CASE ArmWrite(p)
  <2>1. AfterArm(p) \in Steps \ {"reviewWrite"}
    BY DEF AfterArm, Steps
  <2>2. [seen[p].body EXCEPT !.pending = TRUE, !.deadlettered = FALSE] \in Bodies
    BY <1>1, BodyTyped DEF Acts
  <2>. QED
    BY <1>1, <1>3, <2>1, <2>2, MoveTyped, WriteTyped DEF ArmWrite, States
<1>4. CASE StampWrite(p)
  BY <1>1, <1>4, MoveTyped, WriteTyped DEF StampWrite, Steps, States
<1>5. CASE CleanupWrite(p)
  <2>1. [seen[p].body EXCEPT !.pending = FALSE, !.deadlettered = TRUE] \in Bodies
    BY <1>1, BodyTyped DEF Acts
  <2>. QED
    BY <1>1, <1>5, <2>1, MoveTyped, WriteTyped DEF CleanupWrite, Steps, States
<1>6. CASE EvidenceWrite(p)
  BY <1>1, <1>6, MoveTyped, WriteTyped DEF EvidenceWrite, Steps, States
<1>7. CASE NoteWrite(p)
  BY <1>1, <1>7, MoveTyped, WriteTyped DEF NoteWrite, Steps, States
<1>. QED
  BY <1>2, <1>3, <1>4, <1>5, <1>6, <1>7

LEMMA RowWrites ==
  ASSUME TypeInv, NEW p \in Processes,
         \/ GateReject(p) \/ GatePass(p) \/ SwitchedOff(p) \/ ApplyVerdict(p)
         \/ Insert(p) \/ UpsertWrite(p) \/ ReviewWrite(p) \/ MergeWrite(p)
  PROVE  TypeInv'
<1>. TypeOK
  BY DEF TypeInv
<1>. USE LocalTyped, Kept, TypePartsNext DEF TypeInv
<1>1. On(p) \in Findings /\ seen[p].body \in Bodies /\ seen[p].state \in States
      /\ job[p].flag \in BOOLEAN
  OBVIOUS
<1>2. CASE GateReject(p)
  BY <1>1, <1>2, MoveTyped, WriteTyped DEF GateReject, Steps, States
<1>3. CASE GatePass(p)
  <2>1. [seen[p].body EXCEPT !.passed = TRUE, !.pending = job[p].flag,
                             !.deadlettered = FALSE] \in Bodies
    BY <1>1, BodyTyped DEF Acts
  <2>2. TableOK'
    BY <1>1, <1>3, <2>1, WriteTyped DEF GatePass, States
  <2>3. LocalsOK' /\ ReviewInv'
    BY <1>3, MoveTyped DEF GatePass, Steps
  <2>. QED
    BY <1>3, <2>2, <2>3 DEF GatePass
<1>4. CASE SwitchedOff(p)
  <2>1. [seen[p].body EXCEPT !.pending = FALSE] \in Bodies
    BY <1>1, BodyTyped DEF Acts
  <2>. QED
    BY <1>1, <1>4, <2>1, MoveTyped, WriteTyped DEF SwitchedOff, Steps, States
<1>5. CASE ApplyVerdict(p)
  <2>1. [seen[p].body EXCEPT !.pending = FALSE] \in Bodies
    BY <1>1, BodyTyped DEF Acts
  <2>2. PICK verdict \in {"rejected_llm", "needs_human"} :
          WriteRow(On(p), verdict, [seen[p].body EXCEPT !.pending = FALSE])
    BY <1>5 DEF ApplyVerdict
  <2>3. TableOK'
    BY <1>1, <2>1, <2>2, WriteTyped DEF States
  <2>. QED
    BY <1>5, <2>3, MoveTyped DEF ApplyVerdict, Steps
<1>6. CASE Insert(p)
  <2>1. TableOK'
    BY <1>1, <1>6, WriteTyped DEF Insert, States
  <2>2. LocalsOK' /\ ReviewInv'
    BY <1>6, MoveTyped DEF Insert, Steps
  <2>. QED
    BY <1>6, <2>1, <2>2 DEF Insert
<1>7. CASE UpsertWrite(p)
  <2>1. TableOK'
    BY <1>1, <1>7, WriteTyped DEF UpsertWrite
  <2>2. LocalsOK' /\ ReviewInv'
    BY <1>7, MoveTyped DEF UpsertWrite, Steps
  <2>. QED
    BY <1>7, <2>1, <2>2 DEF UpsertWrite
<1>8. CASE ReviewWrite(p)
  <2>1. job[p].act \in Acts
    BY <1>8 DEF ReviewWrite, ReviewInv
  <2>2. Target(job[p].act) \in States
    BY <2>1 DEF Target, Acts, States
  <2>3. [seen[p].body EXCEPT !.review = job[p].act] \in Bodies
    BY <1>1, <2>1, BodyTyped
  <2>4. TableOK'
    BY <1>1, <1>8, <2>2, <2>3, WriteTyped DEF ReviewWrite
  <2>5. LocalsOK' /\ ReviewInv'
    BY <1>8, MoveTyped DEF ReviewWrite, Steps
  <2>6. HistoryOK'
    BY <1>1, <1>8, <2>1 DEF ReviewWrite, TypeOK, HistoryOK
  <2>. QED
    BY <1>8, <2>4, <2>5, <2>6 DEF ReviewWrite
<1>9. CASE MergeWrite(p)
  <2>1. TableOK'
    BY <1>1, <1>9 DEF MergeWrite, TypeOK, TableOK, States
  <2>2. LocalsOK' /\ ReviewInv'
    BY <1>9, MoveTyped DEF MergeWrite, Steps
  <2>. QED
    BY <1>9, <2>1, <2>2 DEF MergeWrite
<1>. QED
  BY <1>2, <1>3, <1>4, <1>5, <1>6, <1>7, <1>8, <1>9

LEMMA Reads ==
  ASSUME TypeInv, NEW p \in Processes,
         \/ GateRead(p) \/ ArmRead(p) \/ DisproveGuard(p) \/ VerdictRead(p) \/ StampRead(p)
         \/ InfraGiveUp(p) \/ CleanupRead(p) \/ UpsertRead(p) \/ NoteRead(p)
         \/ PublishRead(p)
  PROVE  TypeInv'
<1>. TypeOK
  BY DEF TypeInv
<1>. USE Kept, TypePartsNext DEF TypeInv
<1>1. LocalStep
  BY DEF GateRead, ArmRead, DisproveGuard, VerdictRead, StampRead, InfraGiveUp, CleanupRead,
         UpsertRead, NoteRead, PublishRead
<1>2. LocalsOK' /\ ReviewInv'
  <2>1. CASE ArmRead(p)
    <3>1. AfterArm(p) \in Steps \ {"reviewWrite"}
      BY DEF AfterArm, Steps
    <3>. QED
      BY <2>1, <3>1, MoveTyped DEF ArmRead, Steps
  <2>2. CASE DisproveGuard(p)
    BY <2>2, MoveTyped DEF DisproveGuard, Steps
  <2>3. CASE VerdictRead(p)
    BY <2>3, MoveTyped DEF VerdictRead, Steps
  <2>4. CASE StampRead(p)
    BY <2>4, MoveTyped DEF StampRead, Steps
  <2>5. CASE InfraGiveUp(p)
    BY <2>5, MoveTyped DEF InfraGiveUp, Steps
  <2>6. CASE CleanupRead(p)
    BY <2>6, MoveTyped DEF CleanupRead, Steps
  <2>7. CASE UpsertRead(p)
    BY <2>7, MoveTyped DEF UpsertRead, Steps
  <2>8. CASE NoteRead(p)
    BY <2>8, MoveTyped DEF NoteRead, Steps
  <2>9. CASE PublishRead(p)
    BY <2>9, MoveTyped DEF PublishRead, Steps
  <2>10. CASE GateRead(p)
    BY <2>10, MoveTyped DEF GateRead, Steps
  <2>. QED
    BY <2>1, <2>2, <2>3, <2>4, <2>5, <2>6, <2>7, <2>8, <2>9, <2>10
<1>. QED
  BY <1>1, <1>2 DEF LocalStep

LEMMA QueueAndInboxSteps ==
  ASSUME TypeInv, NEW p \in Processes,
         \/ Enqueue(p) \/ InfraRetry(p) \/ InfraFailure(p) \/ UpsertReport(p)
         \/ Respond(p) \/ Crash(p)
  PROVE  TypeInv'
<1>. TypeOK
  BY DEF TypeInv
<1>. USE Kept, TypePartsNext DEF TypeInv
<1>1. CASE Enqueue(p)
  <2>1. QueueOK'
    BY <1>1, AddTyped DEF Enqueue
  <2>2. LocalsOK' /\ ReviewInv'
    BY <1>1, MoveTyped DEF Enqueue, Steps
  <2>. QED
    BY <1>1, <2>1, <2>2 DEF Enqueue
<1>2. CASE InfraRetry(p)
  BY <1>2, AddTyped, MoveTyped DEF InfraRetry, Steps
<1>3. CASE InfraFailure(p)
  <2>1. UsedOK'
    BY <1>3, SpendTyped DEF InfraFailure
  <2>. QED
    BY <1>3, <2>1, MoveTyped DEF InfraFailure, Steps
<1>4. CASE UpsertReport(p)
  <2>1. InboxOK'
    BY <1>4 DEF UpsertReport, ReportStatus, TypeOK, InboxOK
  <2>2. LocalsOK' /\ ReviewInv'
    BY <1>4, MoveTyped DEF UpsertReport, Steps
  <2>. QED
    BY <1>4, <2>1, <2>2 DEF UpsertReport
<1>5. CASE Respond(p)
  <2>1. InboxOK'
    BY <1>5 DEF Respond, TypeOK, InboxOK
  <2>2. LocalsOK' /\ ReviewInv'
    BY <1>5, MoveTyped DEF Respond, Steps
  <2>. QED
    BY <1>5, <2>1, <2>2 DEF Respond
<1>6. CASE Crash(p)
  <2>1. QueueOK'
    BY <1>6, AddTyped DEF Crash
  <2>2. UsedOK'
    BY <1>6, SpendTyped DEF Crash
  <2>3. LocalsOK' /\ ReviewInv'
    BY <1>6, MoveTyped DEF Crash, Steps
  <2>. QED
    BY <1>6, <2>1, <2>2, <2>3 DEF Crash
<1>. QED
  BY <1>1, <1>2, <1>3, <1>4, <1>5, <1>6

(* A process that leaves idle for any step but the review itself.          *)
LEMMA Begin ==
  ASSUME TypeInv, NEW p \in Processes, NEW s \in Steps, NEW kind \in Kinds,
         NEW f \in Findings, NEW r \in BOOLEAN, NEW flag \in BOOLEAN,
         NEW act \in Acts \union {"none"}, NEW v \in Rows,
         Goto(p, s, Job(kind, f, r, flag, act), v),
         s = "reviewWrite" => act \in Acts
  PROVE  LocalsOK' /\ ReviewInv'
<1>1. Job(kind, f, r, flag, act) \in Jobs /\ Job(kind, f, r, flag, act).act = act
  BY DEF Job, Jobs
<1>. QED
  BY <1>1, GotoTyped

LEMMA LeaseTyped ==
  ASSUME TypeInv, NEW w \in Workers, NEW t \in TaskSet, NEW flag \in Flags,
         NEW s \in Steps \ {"reviewWrite"}, Lease(w, t, flag, s)
  PROVE  TypeInv'
<1>. TypeOK
  BY DEF TypeInv
<1>1. /\ w \in Processes /\ flag \in BOOLEAN /\ t.kind \in Kinds
      /\ t.finding \in Findings /\ t.rearm \in BOOLEAN
  BY OptionAssumption DEF Processes, TaskSet, Kinds
<1>2. LocalsOK' /\ ReviewInv'
  BY <1>1, Begin, RowTyped DEF Lease
<1>3. QueueOK'
  <2>1. queue \in [TaskSet -> Nat] /\ queue[t] > 0
    BY DEF TypeOK, Lease
  <2>2. queue' = [queue EXCEPT ![t] = queue[t] - 1] /\ queue[t] - 1 \in Nat
    BY <2>1 DEF Lease
  <2>. QED
    BY <2>1, <2>2 DEF QueueOK
<1>. QED
  BY <1>2, <1>3, Kept, TypePartsNext DEF Lease, TypeInv

LEMMA Starts ==
  ASSUME TypeInv, NEW w \in Workers, NEW t \in TaskSet, NEW flag \in Flags,
         StartMech(w, t, flag) \/ StartLlm(w, t, flag)
  PROVE  TypeInv'
<1>1. PICK s \in Steps \ {"reviewWrite"} : Lease(w, t, flag, s)
  <2>1. CASE StartMech(w, t, flag)
    BY <2>1 DEF StartMech, Steps
  <2>2. CASE StartLlm(w, t, flag)
    BY <2>2 DEF StartLlm, Steps
  <2>. QED
    BY <2>1, <2>2
<1>. QED
  BY <1>1, LeaseTyped

LEMMA HuntTyped ==
  ASSUME TypeInv, NEW w \in Workers, NEW f \in Findings, HuntStart(w, f)
  PROVE  TypeInv'
<1>. TypeOK
  BY DEF TypeInv
<1>1. PICK need \in BOOLEAN, keeper \in {Row(f), [state |-> "candidate", body |-> Fresh]} :
        Goto(w, "upsert", Job("hunt", f, FALSE, need, "none"), keeper)
  BY DEF HuntStart
<1>2. w \in Processes /\ keeper \in Rows
  BY <1>1, RowTyped, NoneTyped DEF Processes, Rows, States
<1>3. LocalsOK' /\ ReviewInv'
  BY <1>1, <1>2, Begin DEF Steps, Kinds
<1>4. UsedOK'
  BY SpendTyped DEF HuntStart
<1>. QED
  BY <1>3, <1>4, Kept, TypePartsNext DEF HuntStart, TypeInv

LEMMA EvidenceTyped ==
  ASSUME TypeInv, NEW p \in Processes, NEW f \in Findings, EvidenceStart(p, f)
  PROVE  TypeInv'
<1>. TypeOK
  BY DEF TypeInv
<1>1. LocalsOK' /\ ReviewInv'
  BY RowTyped, Begin DEF EvidenceStart, Steps, Kinds
<1>2. UsedOK'
  BY SpendTyped DEF EvidenceStart
<1>. QED
  BY <1>1, <1>2, Kept, TypePartsNext DEF EvidenceStart, TypeInv

LEMMA RequestTyped ==
  ASSUME TypeInv, NEW h \in Handlers, NEW kind \in Kinds, NEW f \in Findings,
         NEW r \in BOOLEAN, NEW act \in Acts \union {"none"}, NEW s \in Steps,
         Request(h, kind, f, r, act, s),
         s = "reviewWrite" => act \in Acts
  PROVE  TypeInv'
<1>. TypeOK
  BY DEF TypeInv
<1>1. LocalsOK' /\ ReviewInv'
  BY RowTyped, Begin DEF Request, Processes
<1>2. UsedOK'
  BY SpendTyped DEF Request
<1>. QED
  BY <1>1, <1>2, Kept, TypePartsNext DEF Request, TypeInv

LEMMA OperatorTyped ==
  ASSUME TypeInv, NEW h \in Handlers, Operator(h)
  PROVE  TypeInv'
<1>1. PICK f \in Findings :
        \/ \E act \in ReviewActions : ReviewRead(h, f, act)
        \/ \E rearm \in BOOLEAN : RearmRead(h, f, rearm)
        \/ MergeRead(h, f)
        \/ SyncInbox(h, f)
  BY DEF Operator
<1>2. ASSUME NEW act \in ReviewActions, ReviewRead(h, f, act) PROVE TypeInv'
  <2>1. act \in Acts
    BY OptionAssumption
  <2>. QED
    BY <1>2, <2>1, RequestTyped DEF ReviewRead, Kinds, Steps
<1>3. ASSUME NEW rearm \in BOOLEAN, RearmRead(h, f, rearm) PROVE TypeInv'
  <2>1. CASE rearm
    BY <1>3, <2>1, RequestTyped DEF RearmRead, Kinds, Steps
  <2>2. CASE ~rearm
    BY <1>3, <2>2, RequestTyped DEF RearmRead, Kinds, Steps
  <2>. QED
    BY <2>1, <2>2
<1>4. CASE MergeRead(h, f)
  BY <1>4, RequestTyped DEF MergeRead, Kinds, Steps
<1>5. CASE SyncInbox(h, f)
  BY <1>5, RequestTyped DEF SyncInbox, Kinds, Steps
<1>. QED
  BY <1>1, <1>2, <1>3, <1>4, <1>5

LEMMA TypeStep == TypeInv /\ [Next]_vars => TypeInv'
<1>. SUFFICES ASSUME TypeInv, [Next]_vars PROVE TypeInv'
  OBVIOUS
<1>1. ASSUME NEW p \in Processes, Continue(p) PROVE TypeInv'
  BY <1>1, BodyWrites, RowWrites, Reads, QueueAndInboxSteps DEF Continue
<1>2. ASSUME NEW p \in Processes, Crash(p) PROVE TypeInv'
  BY <1>2, QueueAndInboxSteps
<1>3. ASSUME NEW p \in Processes, NEW f \in Findings, EvidenceStart(p, f) PROVE TypeInv'
  BY <1>3, EvidenceTyped
<1>4. ASSUME NEW w \in Workers, LeaseValidation(w) PROVE TypeInv'
  BY <1>4, Starts DEF LeaseValidation
<1>5. ASSUME NEW w \in Workers, InfraFailure(w) PROVE TypeInv'
  BY <1>5, QueueAndInboxSteps DEF Processes
<1>6. ASSUME NEW w \in Workers, NEW f \in Findings, HuntStart(w, f) PROVE TypeInv'
  BY <1>6, HuntTyped
<1>7. ASSUME NEW h \in Handlers, Operator(h) PROVE TypeInv'
  BY <1>7, OperatorTyped
<1>8. CASE UNCHANGED vars
  <2>1. LocalsOK' /\ ReviewInv'
    BY <1>8 DEF TypeInv, TypeOK, LocalsOK, ReviewInv, vars
  <2>. QED
    BY <1>8, <2>1, Kept, TypePartsNext DEF TypeInv, vars
<1>. QED
  BY <1>1, <1>2, <1>3, <1>4, <1>5, <1>6, <1>7, <1>8 DEF Next

LEMMA TypeInit == Init => TypeInv
<1>. SUFFICES ASSUME Init PROVE TypeInv
  OBVIOUS
<1>1. TypeOK
  BY NoneTyped DEF Init, TypeOK, States, Acts, Steps
<1>2. ReviewInv
  BY DEF Init, ReviewInv
<1>. QED
  BY <1>1, <1>2 DEF TypeInv

LEMMA TypeInvariant == Spec => []TypeInv
BY TypeInit, TypeStep, PTL DEF Spec

(* Type correctness: the columns and locals keep their types through every *)
(* interleaving of hunts, validation stages, reviews and crashes.          *)
THEOREM TypeCorrect == Spec => []TypeOK
BY TypeInvariant, PTL DEF TypeInv

-----------------------------------------------------------------------------
(* What a running process may do next: the one summary of its 27 actions   *)
(* that the two safety theorems need.                                      *)

(* Steps from which a validation stage overwrites the state it has tested. *)
OpenSteps == {"gates", "apply", "switchedOff"}

LEMMA ContinueMoves ==
  ASSUME NEW p \in Processes, Continue(p)
  PROVE  \E s \in Steps :
           /\ Move(p, s) \/ Look(p, s)
           /\ s \in OpenSteps => \/ Move(p, s) /\ pc[p] \in OpenSteps
                                 \/ Look(p, s) /\ ~Settled(Current(p))
<1>. DEFINE Goal == \E s \in Steps :
              /\ Move(p, s) \/ Look(p, s)
              /\ s \in OpenSteps => \/ Move(p, s) /\ pc[p] \in OpenSteps
                                    \/ Look(p, s) /\ ~Settled(Current(p))
<1>. USE DEF Steps, OpenSteps
<1>1. CASE Normalise(p) \/ GateRead(p) \/ GateReject(p) \/ GatePass(p) \/ Enqueue(p)
  BY <1>1 DEF Normalise, GateRead, GateReject, GatePass, Enqueue
<1>2. CASE ArmRead(p) \/ ArmWrite(p)
  BY <1>2 DEF ArmRead, ArmWrite, AfterArm
<1>3. CASE SwitchedOff(p) \/ DisproveGuard(p) \/ VerdictRead(p) \/ ApplyVerdict(p)
  BY <1>3 DEF SwitchedOff, DisproveGuard, VerdictRead, ApplyVerdict
<1>4. CASE StampRead(p) \/ StampWrite(p) \/ InfraRetry(p) \/ InfraGiveUp(p)
  BY <1>4 DEF StampRead, StampWrite, InfraRetry, InfraGiveUp
<1>5. CASE CleanupRead(p) \/ CleanupWrite(p) \/ UpsertRead(p) \/ Insert(p)
  BY <1>5 DEF CleanupRead, CleanupWrite, UpsertRead, Insert
<1>6. CASE UpsertWrite(p) \/ EvidenceWrite(p) \/ ReviewWrite(p) \/ NoteRead(p)
  BY <1>6 DEF UpsertWrite, EvidenceWrite, ReviewWrite, NoteRead
<1>7. CASE NoteWrite(p) \/ MergeWrite(p) \/ PublishRead(p) \/ UpsertReport(p) \/ Respond(p)
  BY <1>7 DEF NoteWrite, MergeWrite, PublishRead, UpsertReport, Respond
<1>. QED
  BY <1>1, <1>2, <1>3, <1>4, <1>5, <1>6, <1>7 DEF Continue

LEMMA ContinueWrites ==
  ASSUME NEW p \in Processes, Continue(p)
  PROVE  \/ UNCHANGED <<state, accepted>>
         \/ /\ pc[p] \in OpenSteps \union {"checked"} /\ UNCHANGED accepted
            /\ \E s \in {"rejected_mech", "needs_human", "rejected_llm"} :
                 state' = [state EXCEPT ![On(p)] = s]
         \/ /\ pc[p] = "upsertWrite" /\ UNCHANGED accepted
            /\ state' = [state EXCEPT ![On(p)] = seen[p].state]
         \/ /\ pc[p] = "insert" /\ UNCHANGED accepted
            /\ state[On(p)] = "absent"
            /\ state' = [state EXCEPT ![On(p)] = "candidate"]
         \/ ReviewWrite(p)
         \/ MergeWrite(p) /\ UNCHANGED accepted
<1>. USE DEF OpenSteps, table, WriteRow, WriteBody, LocalStep
<1>1. CASE Normalise(p) \/ GateRead(p) \/ GateReject(p) \/ GatePass(p) \/ Enqueue(p)
  BY <1>1 DEF Normalise, GateRead, GateReject, GatePass, Enqueue
<1>2. CASE ArmRead(p) \/ ArmWrite(p)
  BY <1>2 DEF ArmRead, ArmWrite
<1>3. CASE SwitchedOff(p) \/ DisproveGuard(p) \/ VerdictRead(p) \/ ApplyVerdict(p)
  BY <1>3 DEF SwitchedOff, DisproveGuard, VerdictRead, ApplyVerdict
<1>4. CASE StampRead(p) \/ StampWrite(p) \/ InfraRetry(p) \/ InfraGiveUp(p)
  BY <1>4 DEF StampRead, StampWrite, InfraRetry, InfraGiveUp
<1>5. CASE CleanupRead(p) \/ CleanupWrite(p) \/ UpsertRead(p) \/ Insert(p)
  BY <1>5 DEF CleanupRead, CleanupWrite, UpsertRead, Insert
<1>6. CASE UpsertWrite(p) \/ EvidenceWrite(p) \/ ReviewWrite(p) \/ NoteRead(p)
  BY <1>6 DEF UpsertWrite, EvidenceWrite, NoteRead
<1>7. CASE NoteWrite(p) \/ MergeWrite(p) \/ PublishRead(p) \/ UpsertReport(p) \/ Respond(p)
  BY <1>7 DEF NoteWrite, MergeWrite, PublishRead, UpsertReport, Respond
<1>. QED
  BY <1>1, <1>2, <1>3, <1>4, <1>5, <1>6, <1>7 DEF Continue

(* Every other action leaves the table and `accepted` alone, and a        *)
(* process that begins has seen the row it works on, or a fresh candidate. *)
LEMMA OtherSteps ==
  ASSUME TypeInv, Next, ~\E p \in Processes : Continue(p)
  PROVE  /\ UNCHANGED <<table, accepted>>
         /\ \E p \in Processes, s \in Steps, j \in Jobs, v \in Rows :
              /\ Goto(p, s, j, v)
              /\ \/ s \notin OpenSteps /\ v.state = "candidate"
                 \/ s \notin OpenSteps /\ j = job[p] /\ v = seen[p]
                 \/ v = Row(j.finding) /\ (s \in OpenSteps => ~Settled(v))
<1>. DEFINE Goal == \E p \in Processes, s \in Steps, j \in Jobs, v \in Rows :
              /\ Goto(p, s, j, v)
              /\ \/ s \notin OpenSteps /\ v.state = "candidate"
                 \/ s \notin OpenSteps /\ j = job[p] /\ v = seen[p]
                 \/ v = Row(j.finding) /\ (s \in OpenSteps => ~Settled(v))
<1>. TypeOK
  BY DEF TypeInv
<1>1. ASSUME NEW p \in Processes, Crash(p) PROVE Goal /\ UNCHANGED <<table, accepted>>
  <2>1. Goto(p, "idle", job[p], seen[p]) /\ UNCHANGED <<table, accepted>>
    BY <1>1 DEF Crash, Move
  <2>. QED
    BY <2>1, LocalTyped DEF Steps, OpenSteps
<1>2. ASSUME NEW p \in Processes, NEW f \in Findings, EvidenceStart(p, f)
      PROVE  Goal /\ UNCHANGED <<table, accepted>>
  <2>1. Job("evidence", f, FALSE, FALSE, "none") \in Jobs
        /\ Job("evidence", f, FALSE, FALSE, "none").finding = f
    BY DEF Job, Jobs, Kinds
  <2>2. "evidenceWrite" \in Steps \ OpenSteps
    BY DEF Steps, OpenSteps
  <2>3. Row(f) \in Rows /\ Row(f) = Row(Job("evidence", f, FALSE, FALSE, "none").finding)
    BY <2>1, RowTyped
  <2>4. Goal
    BY <1>2, <2>1, <2>2, <2>3, Zenon DEF EvidenceStart
  <2>. QED
    BY <1>2, <2>2, <2>3, <2>4 DEF EvidenceStart
<1>3. ASSUME NEW w \in Workers, InfraFailure(w) PROVE Goal /\ UNCHANGED <<table, accepted>>
  <2>1. w \in Processes
    BY DEF Processes
  <2>2. PICK s \in {"stamp", "infra"} : Goto(w, s, job[w], seen[w])
    BY <1>3 DEF InfraFailure, Move
  <2>. QED
    BY <1>3, <2>1, <2>2, LocalTyped DEF InfraFailure, Steps, OpenSteps
<1>4. ASSUME NEW w \in Workers, NEW f \in Findings, HuntStart(w, f)
      PROVE  Goal /\ UNCHANGED <<table, accepted>>
  <2>1. PICK need \in BOOLEAN, keeper \in {Row(f), [state |-> "candidate", body |-> Fresh]} :
          Goto(w, "upsert", Job("hunt", f, FALSE, need, "none"), keeper)
    BY <1>4 DEF HuntStart
  <2>2. Job("hunt", f, FALSE, need, "none") \in Jobs
        /\ Job("hunt", f, FALSE, need, "none").finding = f
    BY DEF Job, Jobs, Kinds
  <2>3. keeper \in Rows /\ w \in Processes
    BY <2>1, RowTyped, NoneTyped DEF Rows, States, Processes
  <2>4. keeper = Row(Job("hunt", f, FALSE, need, "none").finding) \/ keeper.state = "candidate"
    <3>1. keeper = Row(f) \/ keeper = [state |-> "candidate", body |-> Fresh]
      BY <2>1
    <3>2. Row(f) = Row(Job("hunt", f, FALSE, need, "none").finding)
      BY <2>2
    <3>3. [state |-> "candidate", body |-> Fresh].state = "candidate"
      OBVIOUS
    <3>. QED
      BY <3>1, <3>2, <3>3, Zenon
  <2>5. "upsert" \in Steps \ OpenSteps
    BY DEF Steps, OpenSteps
  <2>6. Goal
    BY <2>1, <2>2, <2>3, <2>4, <2>5, Zenon
  <2>. QED
    BY <1>4, <2>6 DEF HuntStart
<1>5. ASSUME NEW w \in Workers, LeaseValidation(w) PROVE Goal /\ UNCHANGED <<table, accepted>>
  <2>1. PICK t \in TaskSet, flag \in Flags : StartMech(w, t, flag) \/ StartLlm(w, t, flag)
    BY <1>5 DEF LeaseValidation
  <2>2. PICK s \in Steps : /\ Lease(w, t, flag, s)
                           /\ s \in OpenSteps => ~Settled(Row(t.finding))
    <3>1. CASE StartMech(w, t, flag)
      BY <3>1 DEF StartMech, Steps, OpenSteps
    <3>2. CASE StartLlm(w, t, flag)
      BY <3>2 DEF StartLlm, Steps, OpenSteps
    <3>. QED
      BY <2>1, <3>1, <3>2
  <2>3. /\ w \in Processes /\ t.finding \in Findings
        /\ Job(t.kind, t.finding, t.rearm, flag, "none") \in Jobs
        /\ Job(t.kind, t.finding, t.rearm, flag, "none").finding = t.finding
    BY OptionAssumption DEF Job, Jobs, Kinds, TaskSet, Processes
  <2>4. Goal
    BY <2>2, <2>3, RowTyped, Zenon DEF Lease
  <2>. QED
    BY <2>2, <2>4 DEF Lease
<1>6. ASSUME NEW h \in Handlers, Operator(h) PROVE Goal /\ UNCHANGED <<table, accepted>>
  <2>1. PICK f \in Findings, kind \in Kinds, r \in BOOLEAN, act \in Acts \union {"none"},
             s \in Steps \ OpenSteps : Request(h, kind, f, r, act, s)
    <3>1. PICK f \in Findings :
            \/ \E act \in ReviewActions : ReviewRead(h, f, act)
            \/ \E rearm \in BOOLEAN : RearmRead(h, f, rearm)
            \/ MergeRead(h, f)
            \/ SyncInbox(h, f)
      BY <1>6 DEF Operator
    <3>2. ASSUME NEW act \in ReviewActions, ReviewRead(h, f, act)
          PROVE  Request(h, "review", f, FALSE, act, "reviewWrite") /\ act \in Acts
      BY <3>2, OptionAssumption DEF ReviewRead
    <3>3. ASSUME NEW r \in BOOLEAN, RearmRead(h, f, r)
          PROVE  \E s \in {"arm", "enqueue"} : Request(h, "rearm", f, r, "none", s)
      BY <3>3 DEF RearmRead
    <3>4. MergeRead(h, f) => Request(h, "merge", f, FALSE, "none", "merge")
      BY DEF MergeRead
    <3>5. SyncInbox(h, f) => Request(h, "sync", f, FALSE, "none", "publish")
      BY DEF SyncInbox
    <3>. QED
      BY <3>1, <3>2, <3>3, <3>4, <3>5 DEF Kinds, Steps, OpenSteps
  <2>2. /\ h \in Processes /\ Job(kind, f, r, FALSE, act) \in Jobs
        /\ Job(kind, f, r, FALSE, act).finding = f
    BY DEF Job, Jobs, Processes
  <2>3. Goal
    <3>1. Goto(h, s, Job(kind, f, r, FALSE, act), Row(f))
      BY <2>1 DEF Request
    <3>2. Row(f) \in Rows /\ Row(f) = Row(Job(kind, f, r, FALSE, act).finding)
      BY <2>2, RowTyped
    <3>3. s \in Steps /\ ~(s \in OpenSteps)
      BY <2>1
    <3>. QED
      BY <2>2, <3>1, <3>2, <3>3, Zenon
  <2>. QED
    BY <2>1, <2>3 DEF Request
<1>. QED
  BY <1>1, <1>2, <1>3, <1>4, <1>5, <1>6 DEF Next

-----------------------------------------------------------------------------
(* Confirmation.  Writing back an old read may resurrect a confirmation    *)
(* that the human has revoked, so the state alone is not inductive: every  *)
(* view that says `confirmed` must itself go back to an accept.            *)

HonestViews == \A p \in Processes : seen[p].state = "confirmed" => accepted[On(p)]

AcceptInv == ConfirmedWasAccepted /\ HonestViews

LEMMA ViewStep ==
  ASSUME TypeOK, HonestViews, NEW p \in Processes, NEW s \in Steps, NEW j \in Jobs,
         NEW v \in Rows, Goto(p, s, j, v),
         v.state = "confirmed" => accepted[j.finding],
         \A f \in Findings : accepted[f] => accepted'[f]
  PROVE  HonestViews'
<1>. SUFFICES ASSUME NEW q \in Processes, seen'[q].state = "confirmed"
              PROVE  accepted'[job'[q].finding]
  BY DEF HonestViews, On
<1>1. CASE q # p
  <2>1. seen'[q] = seen[q] /\ job'[q] = job[q]
    BY <1>1 DEF Goto, TypeOK
  <2>2. accepted[On(q)] /\ On(q) \in Findings
    BY <2>1, LocalTyped DEF HonestViews
  <2>. QED
    BY <2>1, <2>2 DEF On
<1>2. CASE q = p
  <2>1. s # "idle"
    BY <1>2 DEF Goto, TypeOK, NoRow
  <2>2. seen'[q] = v /\ job'[q] = j
    BY <1>2, <2>1 DEF Goto, TypeOK
  <2>3. j.finding \in Findings
    BY DEF Jobs
  <2>. QED
    BY <2>2, <2>3
<1>. QED
  BY <1>1, <1>2

LEMMA AcceptStep == TypeInv /\ AcceptInv /\ [Next]_vars => AcceptInv'
<1>. SUFFICES ASSUME TypeInv, AcceptInv, [Next]_vars PROVE AcceptInv'
  OBVIOUS
<1>. TypeOK
  BY DEF TypeInv
<1>. USE DEF AcceptInv
<1>1. ASSUME NEW p \in Processes, Continue(p) PROVE AcceptInv'
  <2>0. /\ On(p) \in Findings /\ seen[p] \in Rows /\ job[p] \in Jobs
        /\ Current(p) \in Rows /\ Current(p).state = state[On(p)]
    BY LocalTyped, RowTyped DEF Current
  <2>1. ASSUME NEW f \in Findings
        PROVE  /\ accepted[f] => accepted'[f]
               /\ state'[f] = "confirmed" => accepted'[f]
    <3>1. state[f] = "confirmed" => accepted[f]
      BY DEF ConfirmedWasAccepted
    <3>2. seen[p].state = "confirmed" => accepted[On(p)]
      BY DEF HonestViews
    <3>3. CASE UNCHANGED <<state, accepted>>
      BY <3>1, <3>3
    <3>4. CASE /\ UNCHANGED accepted
               /\ \E s \in {"rejected_mech", "needs_human", "rejected_llm"} :
                    state' = [state EXCEPT ![On(p)] = s]
      BY <3>1, <3>4 DEF TypeOK
    <3>5. CASE UNCHANGED accepted /\ state' = [state EXCEPT ![On(p)] = seen[p].state]
      BY <3>1, <3>2, <3>5 DEF TypeOK
    <3>6. CASE UNCHANGED accepted /\ state' = [state EXCEPT ![On(p)] = "candidate"]
      BY <3>1, <3>6 DEF TypeOK
    <3>7. CASE ReviewWrite(p)
      <4>1. job[p].act \in Acts
        BY <3>7 DEF ReviewWrite, TypeInv, ReviewInv
      <4>2. Target(job[p].act) = "confirmed" => job[p].act = "confirm"
        BY <4>1 DEF Target, Acts
      <4>3. /\ accepted' = [accepted EXCEPT ![On(p)] = accepted[On(p)] \/ job[p].act = "confirm"]
            /\ state' = [state EXCEPT ![On(p)] = Target(job[p].act)]
        BY <3>7 DEF ReviewWrite, WriteRow
      <4>4. CASE f = On(p)
        BY <4>2, <4>3, <4>4 DEF TypeOK
      <4>5. CASE f # On(p)
        BY <3>1, <4>3, <4>5 DEF TypeOK
      <4>. QED
        BY <4>4, <4>5
    <3>8. CASE MergeWrite(p) /\ UNCHANGED accepted
      BY <3>1, <3>8 DEF MergeWrite
    <3>. QED
      BY <1>1, <3>3, <3>4, <3>5, <3>6, <3>7, <3>8, ContinueWrites
  <2>2. ConfirmedWasAccepted'
    BY <2>1 DEF ConfirmedWasAccepted
  <2>3. PICK s \in Steps : Move(p, s) \/ Look(p, s)
    BY <1>1, ContinueMoves
  <2>4. PICK v \in Rows : /\ Goto(p, s, job[p], v)
                          /\ v = seen[p] \/ v = Current(p)
    BY <2>0, <2>3 DEF Move, Look
  <2>5. v.state = "confirmed" => accepted[job[p].finding]
    <3>1. CASE v = seen[p]
      BY <3>1 DEF HonestViews, On
    <3>2. CASE v = Current(p)
      BY <2>0, <3>2 DEF ConfirmedWasAccepted, On
    <3>. QED
      BY <2>4, <3>1, <3>2
  <2>6. HonestViews'
    BY <2>0, <2>1, <2>4, <2>5, ViewStep
  <2>. QED
    BY <2>2, <2>6
<1>2. ASSUME Next, ~\E p \in Processes : Continue(p) PROVE AcceptInv'
  <2>1. UNCHANGED <<table, accepted>>
    BY <1>2, OtherSteps
  <2>2. PICK p \in Processes, s \in Steps, j \in Jobs, v \in Rows :
          /\ Goto(p, s, j, v)
          /\ \/ v.state = "candidate"
             \/ j = job[p] /\ v = seen[p]
             \/ v = Row(j.finding)
    BY <1>2, OtherSteps
  <2>3. v.state = "confirmed" => accepted[j.finding]
    <3>1. CASE j = job[p] /\ v = seen[p]
      BY <3>1 DEF HonestViews, On
    <3>2. CASE v = Row(j.finding)
      <4>1. j.finding \in Findings
        BY DEF Jobs
      <4>. QED
        BY <3>2, <4>1, RowTyped DEF ConfirmedWasAccepted
    <3>. QED
      BY <2>2, <3>1, <3>2
  <2>4. HonestViews'
    BY <2>1, <2>2, <2>3, ViewStep
  <2>5. ConfirmedWasAccepted'
    BY <2>1 DEF ConfirmedWasAccepted, table
  <2>. QED
    BY <2>4, <2>5
<1>3. CASE UNCHANGED vars
  BY <1>3 DEF ConfirmedWasAccepted, HonestViews, On, vars, table
<1>. QED
  BY <1>1, <1>2, <1>3

(* Automation never confirms by itself: a confirmed finding has been       *)
(* accepted by a human (ops.review_finding), through every interleaving of *)
(* workers that retry, crash, merge and write back what they read earlier. *)
THEOREM NeverConfirmedUnaccepted == Spec => []ConfirmedWasAccepted
<1>1. Init => AcceptInv
  BY DEF Init, AcceptInv, ConfirmedWasAccepted, HonestViews, NoRow
<1>2. AcceptInv => ConfirmedWasAccepted
  BY DEF AcceptInv
<1>. QED
  BY <1>1, <1>2, AcceptStep, TypeInvariant, PTL DEF Spec

-----------------------------------------------------------------------------
(* Overrides.  A stage that is about to overwrite a state has last looked  *)
(* at a finding nobody had closed.                                         *)

OpenViews ==
  \A p \in Processes : pc[p] \in OpenSteps => seen[p].state \notin TerminalStates

LEMMA OpenStep == TypeInv /\ OpenViews /\ [Next]_vars => OpenViews'
<1>. SUFFICES ASSUME TypeInv, OpenViews, [Next]_vars PROVE OpenViews'
  OBVIOUS
<1>. TypeOK
  BY DEF TypeInv
<1>1. ASSUME NEW p \in Processes, NEW s \in Steps, NEW j \in Jobs, NEW v \in Rows,
             Goto(p, s, j, v), s \in OpenSteps => v.state \notin TerminalStates
      PROVE  OpenViews'
  <2>. SUFFICES ASSUME NEW q \in Processes, pc'[q] \in OpenSteps
                PROVE  seen'[q].state \notin TerminalStates
    BY DEF OpenViews
  <2>1. CASE q = p
    BY <1>1, <2>1 DEF Goto, TypeOK, OpenSteps
  <2>2. CASE q # p
    BY <1>1, <2>2 DEF Goto, TypeOK, OpenViews
  <2>. QED
    BY <2>1, <2>2
<1>2. ASSUME NEW p \in Processes, Continue(p) PROVE OpenViews'
  <2>1. PICK s \in Steps :
          /\ Move(p, s) \/ Look(p, s)
          /\ s \in OpenSteps => \/ Move(p, s) /\ pc[p] \in OpenSteps
                                \/ Look(p, s) /\ ~Settled(Current(p))
    BY <1>2, ContinueMoves
  <2>2. job[p] \in Jobs /\ seen[p] \in Rows /\ Current(p) \in Rows
    BY LocalTyped, RowTyped DEF Current
  <2>3. \E v \in Rows : /\ Goto(p, s, job[p], v)
                        /\ s \in OpenSteps => v.state \notin TerminalStates
    <3>1. CASE s \notin OpenSteps
      BY <2>1, <2>2, <3>1 DEF Move, Look
    <3>2. CASE Move(p, s) /\ pc[p] \in OpenSteps
      BY <2>2, <3>2 DEF Move, OpenViews
    <3>3. CASE Look(p, s) /\ ~Settled(Current(p))
      BY <2>2, <3>3 DEF Look, Settled
    <3>. QED
      BY <2>1, <3>1, <3>2, <3>3
  <2>. QED
    BY <1>1, <2>2, <2>3
<1>3. ASSUME Next, ~\E p \in Processes : Continue(p) PROVE OpenViews'
  BY <1>1, <1>3, OtherSteps DEF Settled
<1>4. CASE UNCHANGED vars
  BY <1>4 DEF OpenViews, vars
<1>. QED
  BY <1>2, <1>3, <1>4

(* No stage and no merge of hunts that has looked at a human's decision    *)
(* overwrites it: only a review, a merge, the gates after they read the    *)
(* finding again (validate_mech.py:107), or a writer whose read is older   *)
(* than the decision (validate_mech, validate_llm, insert_finding).        *)
THEOREM DecisionsOverriddenUnseen == Spec => OverriddenOnlyUnseen
<1>. DEFINE Act == \A f \in Findings :
              state[f] \in Decided /\ state'[f] # state[f] =>
                \E p \in Processes :
                  /\ pc'[p] # pc[p]
                  /\ \/ pc[p] = "merge"
                     \/ On(p) = f /\ \/ pc[p] \in {"reviewWrite", "checked"}
                                     \/ seen[p].state # state[f]
<1>1. ASSUME TypeInv, OpenViews, [Next]_vars PROVE Act
  <2>. SUFFICES ASSUME NEW f \in Findings, state[f] \in Decided, state'[f] # state[f]
                PROVE  \E p \in Processes :
                         /\ pc'[p] # pc[p]
                         /\ \/ pc[p] = "merge"
                            \/ On(p) = f /\ \/ pc[p] \in {"reviewWrite", "checked"}
                                            \/ seen[p].state # state[f]
    OBVIOUS
  <2>1. PICK p \in Processes : Continue(p)
    BY <1>1, OtherSteps DEF table, vars
  <2>2. state \in [Findings -> States] /\ pc \in [Processes -> Steps]
    BY <1>1 DEF TypeInv, TypeOK
  <2>3. CASE /\ pc[p] \in OpenSteps \union {"checked"}
             /\ \E s \in {"rejected_mech", "needs_human", "rejected_llm"} :
                  state' = [state EXCEPT ![On(p)] = s]
    <3>1. On(p) = f
      BY <2>2, <2>3
    <3>2. pc[p] \in OpenSteps => seen[p].state \notin TerminalStates
      BY <1>1 DEF OpenViews
    <3>3. pc[p] = "checked" \/ seen[p].state # state[f]
      BY <2>3, <3>2 DEF Decided, TerminalStates
    <3>4. pc'[p] # pc[p]
      BY <2>1, <2>2, <2>3, <3>1 DEF Continue, Normalise, GateRead, GateReject, GatePass, Enqueue,
         ArmRead, ArmWrite, SwitchedOff, DisproveGuard, VerdictRead, ApplyVerdict, StampRead,
         StampWrite, InfraRetry, InfraGiveUp, CleanupRead, CleanupWrite, UpsertRead, Insert,
         UpsertWrite, EvidenceWrite, ReviewWrite, NoteRead, NoteWrite, MergeWrite,
         PublishRead, UpsertReport, Respond, Move, Look, Goto, OpenSteps
    <3>. QED
      BY <3>1, <3>3, <3>4
  <2>4. CASE pc[p] = "upsertWrite" /\ state' = [state EXCEPT ![On(p)] = seen[p].state]
    <3>1. On(p) = f /\ seen[p].state # state[f]
      BY <2>2, <2>4
    <3>2. UpsertWrite(p)
      BY <2>1, <2>4 DEF Continue, Normalise, GateRead, GateReject, GatePass, Enqueue,
         ArmRead, ArmWrite, SwitchedOff, DisproveGuard, VerdictRead, ApplyVerdict, StampRead,
         StampWrite, InfraRetry, InfraGiveUp, CleanupRead, CleanupWrite, UpsertRead, Insert,
         EvidenceWrite, ReviewWrite, NoteRead, NoteWrite, MergeWrite,
         PublishRead, UpsertReport, Respond
    <3>3. pc'[p] # pc[p]
      BY <2>2, <2>4, <3>2 DEF UpsertWrite, Move, Goto
    <3>. QED
      BY <3>1, <3>3
  <2>5. CASE state[On(p)] = "absent" /\ state' = [state EXCEPT ![On(p)] = "candidate"]
    BY <2>2, <2>5 DEF Decided
  <2>6. CASE ReviewWrite(p)
    <3>1. On(p) = f
      BY <2>2, <2>6 DEF ReviewWrite, WriteRow
    <3>2. pc[p] = "reviewWrite" /\ pc'[p] # pc[p]
      BY <2>2, <2>6 DEF ReviewWrite, Move, Goto
    <3>. QED
      BY <3>1, <3>2
  <2>7. CASE MergeWrite(p)
    BY <2>2, <2>7 DEF MergeWrite, Move, Goto
  <2>. QED
    BY <2>1, <2>3, <2>4, <2>5, <2>6, <2>7, ContinueWrites
<1>2. Init => OpenViews
  BY DEF Init, OpenViews, OpenSteps
<1>3. TypeInv /\ OpenViews /\ [Next]_vars => [Act]_vars
  BY <1>1
<1>4. Spec => [][Act]_vars
  BY <1>2, <1>3, OpenStep, TypeInvariant, PTL DEF Spec
<1>. QED
  BY <1>4 DEF OverriddenOnlyUnseen
=============================================================================
