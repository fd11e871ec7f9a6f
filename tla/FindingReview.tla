--------------------------- MODULE FindingReview ---------------------------
(***************************************************************************)
(* The life of a finding in a VulnForge run: the `findings` table of       *)
(* harness.db, the run-once workers that create, gate and disprove         *)
(* findings (stages/hunt.py, validate_mech.py, validate_llm.py), the       *)
(* sandbox stages that annotate them, and the dashboard requests of the    *)
(* human who reviews them (control/ops.review_finding, hitl.py).           *)
(*                                                                         *)
(* Every writer reads the row, computes, and then issues one UPDATE by id  *)
(* that carries no test of what it read.  A step of this model is one      *)
(* committed statement; between its read and its write a process keeps     *)
(* what it read in `seen`.                                                 *)
(*                                                                         *)
(* Of body_json the model keeps what decisions are made of: the            *)
(* validation_mech stamp (passed, pending_llm, deadlettered) and the       *)
(* action of human_review_latest.  Tasks are leased one at a time, as      *)
(* TaskQueue describes; here a task is queued, or held by the process that *)
(* runs it.                                                                *)
(***************************************************************************)
EXTENDS Integers, FiniteSets

CONSTANTS
  Findings,
  Workers,         \* run-once processes
  Handlers,        \* concurrent dashboard requests
  Flags,           \* values stages.validate_llm takes in the configs in use
  ReviewActions,   \* subset of {"confirm", "reject", "reopen"}
  RequestKinds,    \* subset of {"review", "rearm", "merge", "sync"}
  MaxCrashes,      \* bound: processes that die
  MaxFailures,     \* bound: infrastructure failures of a disprove
  MaxHunts,        \* bound: candidates a hunt submits
  MaxEvidence,     \* bound: sandbox runs and enqueues that annotate a finding
  MaxRequests      \* bound: dashboard requests

States == {"absent", "candidate", "rejected_mech", "needs_human", "rejected_llm",
           "confirmed", "rejected_human", "superseded"}

(* _TERMINAL_FINDING_STATES, the same set in both validation stages.       *)
TerminalStates == {"confirmed", "rejected_mech", "rejected_llm", "rejected_human",
                   "superseded"}

(* _REVIEW_ACTIONS, aliases merged.                                        *)
Target(act) == CASE act = "confirm" -> "confirmed"
                 [] act = "reject"  -> "rejected_human"
                 [] act = "reopen"  -> "needs_human"

Acts   == {"confirm", "reject", "reopen"}
Bodies == [passed : BOOLEAN, pending : BOOLEAN, deadlettered : BOOLEAN,
           review : Acts \union {"none"}]
Fresh  == [passed |-> FALSE, pending |-> FALSE, deadlettered |-> FALSE, review |-> "none"]
Rows   == [state : States, body : Bodies]
NoRow  == [state |-> "absent", body |-> Fresh]

Processes == Workers \union Handlers
TaskSet   == [kind : {"mech", "llm"}, finding : Findings, rearm : BOOLEAN]
Kinds     == {"none", "mech", "llm", "hunt", "evidence", "review", "rearm", "merge", "sync"}
Jobs      == [kind : Kinds, finding : Findings, rearm : BOOLEAN, flag : BOOLEAN,
              act : Acts \union {"none"}]
NoJob     == [kind |-> "none", finding |-> CHOOSE f \in Findings : TRUE, rearm |-> FALSE,
              flag |-> FALSE, act |-> "none"]
Steps     == {"idle", "gates", "saved", "checked", "enqueue", "enqueueArmed", "arm", "armWrite",
              "disproveGuard", "verify", "stamp", "stampWrite", "infra", "cleanup",
              "cleanupWrite", "apply", "switchedOff", "publish", "report", "respond",
              "reviewWrite", "note", "noteWrite", "evidenceWrite", "merge",
              "upsert", "upsertWrite", "insert"}

ASSUME ProcessAssumption == Workers \intersect Handlers = {}
ASSUME FindingsAssumption == Findings # {}
ASSUME OptionAssumption ==
  /\ Flags \subseteq BOOLEAN
  /\ ReviewActions \subseteq Acts
  /\ RequestKinds \subseteq {"review", "rearm", "merge", "sync"}

VARIABLES
  state, body,          \* the findings table
  hitl, approval,       \* hitl_reports.status, answer of the approval block
  queue,                \* validation tasks waiting, with multiplicity
  pc, job, seen,        \* per process: step, what it works on, the row it read
  used,                 \* how much of each bound is spent
  accepted              \* history: accepted at some time

table    == <<state, body>>
inbox    == <<hitl, approval>>
vars     == <<table, inbox, queue, pc, job, seen, used, accepted>>

-----------------------------------------------------------------------------
(* Building blocks.                                                        *)

Row(f) == [state |-> state[f], body |-> body[f]]
On(p)  == job[p].finding
Current(p) == Row(On(p))

(* The process goes on with a job and a view of the row; at the end of its *)
(* work both are gone.                                                     *)
Goto(p, step, j, view) ==
  /\ pc' = [pc EXCEPT ![p] = step]
  /\ job' = [job EXCEPT ![p] = IF step = "idle" THEN NoJob ELSE j]
  /\ seen' = [seen EXCEPT ![p] = IF step = "idle" THEN NoRow ELSE view]

Move(p, step) == Goto(p, step, job[p], seen[p])
Look(p, step) == Goto(p, step, job[p], Current(p))

Job(kind, f, rearm, flag, act) ==
  [kind |-> kind, finding |-> f, rearm |-> rearm, flag |-> flag, act |-> act]

(* UPDATE findings SET state=?, body_json=?; UPDATE findings SET body_json=? *)
WriteRow(f, s, b) ==
  state' = [state EXCEPT ![f] = s] /\ body' = [body EXCEPT ![f] = b]
WriteBody(f, b) == body' = [body EXCEPT ![f] = b] /\ UNCHANGED state

Add(t)   == queue' = [queue EXCEPT ![t] = @ + 1]
MechTask(f)    == [kind |-> "mech", finding |-> f, rearm |-> FALSE]
LlmTask(f, r)  == [kind |-> "llm", finding |-> f, rearm |-> r]
HeldTask(p)    == [kind |-> job[p].kind, finding |-> On(p), rearm |-> job[p].rearm]

Spend(what, limit) == used[what] < limit /\ used' = [used EXCEPT ![what] = @ + 1]

(* A worker takes a queued task under the config of the day and reads the  *)
(* finding.                                                                *)
Lease(w, t, flag, step) ==
  /\ pc[w] = "idle" /\ queue[t] > 0
  /\ queue' = [queue EXCEPT ![t] = @ - 1]
  /\ Goto(w, step, Job(t.kind, t.finding, t.rearm, flag, "none"), Row(t.finding))
  /\ UNCHANGED <<table, inbox, used, accepted>>

LocalStep == UNCHANGED <<table, inbox, queue, used, accepted>>

-----------------------------------------------------------------------------
(* validate_mech.run                                                       *)

Settled(row) == row.state \in TerminalStates
Passed(row)  == row.state = "needs_human" /\ row.body.passed

(* Mutant: the gates run again on closed findings.                         *)
StartMechReopens(w, t, flag) ==
  /\ t.kind = "mech"
  /\ Lease(w, t, flag, IF Passed(Row(t.finding)) THEN "publish" ELSE "gates")

(* Terminal findings are left alone; a finding that passed before is       *)
(* published again, or re-armed when its disprove was deadlettered.        *)
StartMech(w, t, flag) ==
  /\ t.kind = "mech"
  /\ LET row == Row(t.finding) IN
     Lease(w, t, flag,
           CASE Settled(row)                  -> "idle"
             [] ~Settled(row) /\ Passed(row) -> IF (t.rearm \/ row.body.deadlettered) /\ flag
                                                THEN "arm" ELSE "publish"
             [] OTHER                         -> "gates")

(* The severity claim is normalised and the body saved before the gates.   *)
Normalise(w) ==
  /\ pc[w] = "gates" /\ Move(w, "saved")
  /\ WriteBody(On(w), seen[w].body)
  /\ UNCHANGED <<inbox, queue, used, accepted>>

(* The gates then work on the finding as it is now; its state is not       *)
(* looked at any more.                                                     *)
GateRead(w) ==
  /\ pc[w] = "saved" /\ Look(w, "checked")
  /\ LocalStep

GateReject(w) ==
  /\ pc[w] \in {"gates", "checked"} /\ Move(w, "idle")
  /\ WriteRow(On(w), "rejected_mech", seen[w].body)
  /\ UNCHANGED <<inbox, queue, used, accepted>>

GatePass(w) ==
  /\ pc[w] \in {"gates", "checked"}
  /\ WriteRow(On(w), "needs_human",
              [seen[w].body EXCEPT !.passed = TRUE, !.pending = job[w].flag,
                                   !.deadlettered = FALSE])
  /\ Move(w, IF job[w].flag THEN "enqueue" ELSE "publish")
  /\ UNCHANGED <<inbox, queue, used, accepted>>

(* enqueue_task commits on its own, after the stamp it belongs to.  A hunt *)
(* enqueues the mechanical gates, the others the disprove.                 *)
Enqueue(p) ==
  /\ pc[p] \in {"enqueue", "enqueueArmed"}
  /\ IF job[p].kind = "hunt"
     THEN Add(MechTask(On(p)))
     ELSE Add(LlmTask(On(p), pc[p] = "enqueueArmed"))
  /\ Move(p, CASE job[p].kind = "hunt"  -> "idle"
               [] job[p].kind = "rearm" -> "note"
               [] OTHER                 -> "publish")
  /\ UNCHANGED <<table, inbox, used, accepted>>

-----------------------------------------------------------------------------
(* rearm_pending_llm, called by validate_mech, validate_llm and the        *)
(* operator's enqueue_validate_llm.                                        *)

AfterArm(p) == IF job[p].kind = "llm" THEN "disproveGuard" ELSE "enqueueArmed"

ArmRead(p) ==
  /\ pc[p] = "arm"
  /\ \/ ~Passed(Current(p)) /\ Look(p, "idle")
     \/ Passed(Current(p)) /\ Current(p).body.pending /\ Look(p, AfterArm(p))
     \/ Passed(Current(p)) /\ ~Current(p).body.pending /\ Look(p, "armWrite")
  /\ LocalStep

ArmWrite(p) ==
  /\ pc[p] = "armWrite" /\ Move(p, AfterArm(p))
  /\ WriteBody(On(p), [seen[p].body EXCEPT !.pending = TRUE, !.deadlettered = FALSE])
  /\ UNCHANGED <<inbox, queue, used, accepted>>

-----------------------------------------------------------------------------
(* validate_llm.run: _flag_off_skip_or_confirm, _run_disprove,             *)
(* _stamp_partial_llm, _apply_dual_verdict, and cli.handle_failed_infra.   *)

StartLlm(w, t, flag) ==
  /\ t.kind = "llm"
  /\ LET row == Row(t.finding) IN
     Lease(w, t, flag,
           CASE Settled(row)      -> "idle"
             [] ~Settled(row) /\ ~flag ->
                  IF row.body.pending THEN "switchedOff" ELSE "idle"
             [] ~Settled(row) /\ flag ->
                  IF ~row.body.passed THEN "idle"
                  ELSE IF row.body.pending THEN "verify"
                  ELSE IF t.rearm THEN "arm" ELSE "idle")

(* The flag went off after the task was queued: hold for the human.        *)
SwitchedOff(w) ==
  /\ pc[w] = "switchedOff" /\ Move(w, "publish")
  /\ WriteRow(On(w), "needs_human", [seen[w].body EXCEPT !.pending = FALSE])
  /\ UNCHANGED <<inbox, queue, used, accepted>>

(* After a re-arm the row is read once more, for pending_llm alone.        *)
DisproveGuard(w) ==
  /\ pc[w] = "disproveGuard"
  /\ Look(w, IF Current(w).body.pending THEN "verify" ELSE "idle")
  /\ LocalStep

(* The models have answered; the row is read again before the verdict.     *)
VerdictRead(w) ==
  /\ pc[w] = "verify"
  /\ Look(w, IF Settled(Current(w)) THEN "idle" ELSE "apply")
  /\ LocalStep

(* Mutant: the stamp is not cleared.                                       *)
ApplyVerdictStaysPending(w) ==
  /\ pc[w] = "apply" /\ Move(w, "publish")
  /\ \E verdict \in {"rejected_llm", "needs_human"} : WriteRow(On(w), verdict, seen[w].body)
  /\ UNCHANGED <<inbox, queue, used, accepted>>

(* Every slot rejects, or the finding waits for the human.                 *)
ApplyVerdict(w) ==
  /\ pc[w] = "apply" /\ Move(w, "publish")
  /\ \E verdict \in {"rejected_llm", "needs_human"} :
       WriteRow(On(w), verdict, [seen[w].body EXCEPT !.pending = FALSE])
  /\ UNCHANGED <<inbox, queue, used, accepted>>

(* A model host fails, with some slots answered or with none.              *)
InfraFailure(w) ==
  /\ pc[w] = "verify" /\ Spend("failures", MaxFailures)
  /\ \/ Move(w, "stamp")
     \/ Move(w, "infra")
  /\ UNCHANGED <<table, inbox, queue, accepted>>

StampRead(w) ==
  /\ pc[w] = "stamp"
  /\ Look(w, IF Settled(Current(w)) THEN "infra" ELSE "stampWrite")
  /\ LocalStep

StampWrite(w) ==
  /\ pc[w] = "stampWrite" /\ Move(w, "infra")
  /\ WriteBody(On(w), seen[w].body)
  /\ UNCHANGED <<inbox, queue, used, accepted>>

InfraRetry(w) ==
  /\ pc[w] = "infra" /\ Move(w, "idle")
  /\ Add(HeldTask(w))
  /\ UNCHANGED <<table, inbox, used, accepted>>

(* The attempts are used up: the task is deadlettered, then the stamp is   *)
(* cleared so that the report does not show a disprove that never comes.   *)
InfraGiveUp(w) ==
  /\ pc[w] = "infra" /\ Move(w, "cleanup")
  /\ LocalStep

CleanupRead(w) ==
  /\ pc[w] = "cleanup"
  /\ Look(w, IF Current(w).body.pending THEN "cleanupWrite" ELSE "idle")
  /\ LocalStep

CleanupWrite(w) ==
  /\ pc[w] = "cleanupWrite" /\ Move(w, "idle")
  /\ WriteBody(On(w), [seen[w].body EXCEPT !.pending = FALSE, !.deadlettered = TRUE])
  /\ UNCHANGED <<inbox, queue, used, accepted>>

-----------------------------------------------------------------------------
(* hunt.run and apply_candidate submit a candidate: merge_near_duplicate   *)
(* picks a keeper from list_findings, or none; insert_finding then SELECTs *)
(* the row of the stable key and UPDATEs or INSERTs it.  job.flag holds    *)
(* whether validate_mech is to be enqueued.                                *)

HuntStart(w, f) ==
  /\ pc[w] = "idle" /\ Spend("hunts", MaxHunts)
  /\ \E need_validate \in BOOLEAN, keeper \in {Row(f), [state |-> "candidate", body |-> Fresh]} :
       /\ IF keeper = Row(f)
          THEN /\ state[f] \in {"candidate", "confirmed", "needs_human"}
               /\ need_validate => state[f] = "candidate"
          ELSE need_validate
       /\ Goto(w, "upsert", Job("hunt", f, FALSE, need_validate, "none"), keeper)
  /\ UNCHANGED <<table, inbox, queue, accepted>>

(* A protected row whose state differs is to be written back as it is.     *)
UpsertRead(w) ==
  /\ pc[w] = "upsert"
  /\ CASE state[On(w)] = "absent" -> Move(w, "insert")
       [] state[On(w)] \in {"candidate", seen[w].state} \ {"absent"} -> Move(w, "upsertWrite")
       [] OTHER -> Look(w, "upsertWrite")
  /\ LocalStep

(* stable_key is UNIQUE: the second of two INSERTs fails its task.         *)
Insert(w) ==
  /\ pc[w] = "insert"
  /\ \/ /\ state[On(w)] = "absent" /\ Move(w, "enqueue")
        /\ WriteRow(On(w), "candidate", seen[w].body)
     \/ state[On(w)] # "absent" /\ Move(w, "idle") /\ UNCHANGED table
  /\ UNCHANGED <<inbox, queue, used, accepted>>

UpsertWrite(w) ==
  /\ pc[w] = "upsertWrite"
  /\ WriteRow(On(w), seen[w].state, seen[w].body)
  /\ Move(w, IF job[w].flag THEN "enqueue" ELSE "idle")
  /\ UNCHANGED <<inbox, queue, used, accepted>>

-----------------------------------------------------------------------------
(* Sandbox stages (validate_poc, iterate_poc, develop_poc) and the         *)
(* requests that enqueue them read the body, run for as long as the PoC    *)
(* takes, add their entry and save the body; the state is left alone.      *)

EvidenceStart(p, f) ==
  /\ pc[p] = "idle" /\ state[f] # "absent" /\ Spend("evidence", MaxEvidence)
  /\ Goto(p, "evidenceWrite", Job("evidence", f, FALSE, FALSE, "none"), Row(f))
  /\ UNCHANGED <<table, inbox, queue, accepted>>

EvidenceWrite(p) ==
  /\ pc[p] = "evidenceWrite" /\ Move(p, "idle")
  /\ WriteBody(On(p), seen[p].body)
  /\ UNCHANGED <<inbox, queue, used, accepted>>

-----------------------------------------------------------------------------
(* Dashboard requests.                                                     *)

Request(h, kind, f, rearm, act, step) ==
  /\ pc[h] = "idle" /\ state[f] # "absent" /\ kind \in RequestKinds
  /\ Spend("requests", MaxRequests)
  /\ Goto(h, step, Job(kind, f, rearm, FALSE, act), Row(f))
  /\ UNCHANGED <<table, inbox, queue, accepted>>

(* review_finding: every state is reviewable, Accept is refused while the  *)
(* disprove is pending.                                                    *)
ReviewRead(h, f, act) ==
  /\ Request(h, "review", f, FALSE, act, "reviewWrite")
  /\ ~(act = "confirm" /\ body[f].pending)

ReviewWrite(h) ==
  /\ pc[h] = "reviewWrite" /\ Move(h, "publish")
  /\ WriteRow(On(h), Target(job[h].act), [seen[h].body EXCEPT !.review = job[h].act])
  /\ accepted' = [accepted EXCEPT ![On(h)] = @ \/ job[h].act = "confirm"]
  /\ UNCHANGED <<inbox, queue, used>>

(* enqueue_validate_llm, with and without rearm.                           *)
RearmRead(h, f, rearm) ==
  /\ Request(h, "rearm", f, rearm, "none", IF rearm THEN "arm" ELSE "enqueue")
  /\ state[f] = "needs_human"
  /\ rearm \/ (body[f].passed /\ body[f].pending)

NoteRead(h) ==
  /\ pc[h] = "note" /\ Look(h, "noteWrite")
  /\ LocalStep

NoteWrite(h) ==
  /\ pc[h] = "noteWrite" /\ Move(h, "idle")
  /\ WriteBody(On(h), seen[h].body)
  /\ UNCHANGED <<inbox, queue, used, accepted>>

(* merge_findings_op: the dropped findings are read and written inside the *)
(* transaction, the keeper's body was read before it.                      *)
MergeRead(h, keep) ==
  /\ Request(h, "merge", keep, FALSE, "none", "merge")
  /\ state[keep] # "superseded"

(* Mutant: the keeper takes over the strongest state.                      *)
MergeWritePromotes(h) ==
  /\ pc[h] = "merge" /\ Move(h, "idle")
  /\ \E drop \in SUBSET {f \in Findings \ {On(h)} : state[f] # "absent"} :
       state' = [f \in Findings |->
                   IF f \in drop THEN "superseded"
                   ELSE IF f = On(h) /\ \E d \in drop : state[d] = "confirmed"
                        THEN "confirmed" ELSE state[f]]
  /\ body' = [body EXCEPT ![On(h)] = seen[h].body]
  /\ UNCHANGED <<inbox, queue, used, accepted>>

MergeWrite(h) ==
  /\ pc[h] = "merge" /\ Move(h, "idle")
  /\ \E drop \in SUBSET {f \in Findings \ {On(h)} : state[f] # "absent"} :
       state' = [f \in Findings |-> IF f \in drop THEN "superseded" ELSE state[f]]
  /\ body' = [body EXCEPT ![On(h)] = seen[h].body]
  /\ UNCHANGED <<inbox, queue, used, accepted>>

(* The inbox is listed: sync_findings publishes the finding.               *)
SyncInbox(h, f) == Request(h, "sync", f, FALSE, "none", "publish")

-----------------------------------------------------------------------------
(* hitl.publish_finding and record_human_review.                           *)

ReportStatus(s) == IF s = "needs_human" THEN "awaiting-review" ELSE "done"

NoPacket(f) ==
  \/ state[f] = "candidate"
  \/ state[f] \in {"rejected_mech", "superseded"} /\ hitl[f] = "none"

PublishRead(p) ==
  /\ pc[p] = "publish"
  /\ Look(p, IF NoPacket(On(p)) THEN "idle" ELSE "report")
  /\ LocalStep

(* A report published for a row that has changed since counts as failed,   *)
(* and the answer of the review is then not recorded.                      *)
UpsertReport(p) ==
  /\ pc[p] = "report"
  /\ hitl' = [hitl EXCEPT ![On(p)] = ReportStatus(seen[p].state)]
  /\ Move(p, IF job[p].kind = "review" /\ state[On(p)] = seen[p].state
             THEN "respond" ELSE "idle")
  /\ UNCHANGED <<table, approval, queue, used, accepted>>

Respond(h) ==
  /\ pc[h] = "respond" /\ Move(h, "idle")
  /\ approval' = [approval EXCEPT ![On(h)] =
                    CASE job[h].act = "confirm" -> "approved"
                      [] job[h].act = "reject"  -> "changes-requested"
                      [] OTHER                  -> "none"]
  /\ UNCHANGED <<table, hitl, queue, used, accepted>>

-----------------------------------------------------------------------------
(* A process dies.  The lease of a validation task is reclaimed and the    *)
(* task runs again, unless it was deadlettered already; the error of a     *)
(* request that dies after its review is swallowed.                        *)
Crash(p) ==
  /\ pc[p] # "idle" /\ Spend("crashes", MaxCrashes)
  /\ Move(p, "idle")
  /\ IF job[p].kind \in {"mech", "llm"} /\ pc[p] \notin {"cleanup", "cleanupWrite"}
     THEN Add(HeldTask(p))
     ELSE UNCHANGED queue
  /\ UNCHANGED <<table, inbox, accepted>>

-----------------------------------------------------------------------------
Init ==
  /\ state = [f \in Findings |-> "absent"]
  /\ body = [f \in Findings |-> Fresh]
  /\ hitl = [f \in Findings |-> "none"]
  /\ approval = [f \in Findings |-> "none"]
  /\ queue = [t \in TaskSet |-> 0]
  /\ pc = [p \in Processes |-> "idle"]
  /\ job = [p \in Processes |-> NoJob]
  /\ seen = [p \in Processes |-> NoRow]
  /\ used = [crashes |-> 0, failures |-> 0, hunts |-> 0, evidence |-> 0, requests |-> 0]
  /\ accepted = [f \in Findings |-> FALSE]

(* What a process does once it has begun.                                  *)
Continue(p) ==
  \/ Normalise(p) \/ GateRead(p) \/ GateReject(p) \/ GatePass(p) \/ Enqueue(p)
  \/ ArmRead(p) \/ ArmWrite(p)
  \/ SwitchedOff(p) \/ DisproveGuard(p) \/ VerdictRead(p) \/ ApplyVerdict(p)
  \/ StampRead(p) \/ StampWrite(p) \/ InfraRetry(p) \/ InfraGiveUp(p)
  \/ CleanupRead(p) \/ CleanupWrite(p)
  \/ UpsertRead(p) \/ Insert(p) \/ UpsertWrite(p) \/ EvidenceWrite(p)
  \/ ReviewWrite(p) \/ NoteRead(p) \/ NoteWrite(p) \/ MergeWrite(p)
  \/ PublishRead(p) \/ UpsertReport(p) \/ Respond(p)

LeaseValidation(w) ==
  \E t \in TaskSet, flag \in Flags : StartMech(w, t, flag) \/ StartLlm(w, t, flag)

Operator(h) ==
  \E f \in Findings :
    \/ \E act \in ReviewActions : ReviewRead(h, f, act)
    \/ \E rearm \in BOOLEAN : RearmRead(h, f, rearm)
    \/ MergeRead(h, f)
    \/ SyncInbox(h, f)

Next ==
  \/ \E p \in Processes : Continue(p) \/ Crash(p)
  \/ \E p \in Processes, f \in Findings : EvidenceStart(p, f)
  \/ \E w \in Workers : LeaseValidation(w) \/ InfraFailure(w)
  \/ \E w \in Workers, f \in Findings : HuntStart(w, f)
  \/ \E h \in Handlers : Operator(h)

Spec == Init /\ [][Next]_vars

-----------------------------------------------------------------------------
(* Properties.                                                             *)

(* Every variable has the type its column or local has.                    *)
TypeOK ==
  /\ state \in [Findings -> States] /\ body \in [Findings -> Bodies]
  /\ hitl \in [Findings -> {"none", "awaiting-review", "done"}]
  /\ approval \in [Findings -> {"none", "approved", "changes-requested"}]
  /\ queue \in [TaskSet -> Nat]
  /\ pc \in [Processes -> Steps] /\ job \in [Processes -> Jobs]
  /\ seen \in [Processes -> Rows]
  /\ used \in [{"crashes", "failures", "hunts", "evidence", "requests"} -> Nat]
  /\ accepted \in [Findings -> BOOLEAN]

(* Whatever workers crash, retry, merge or write back from an old read, no *)
(* finding is ever confirmed that a human has not accepted at some time.   *)
ConfirmedWasAccepted == \A f \in Findings : state[f] = "confirmed" => accepted[f]

Decided == {"confirmed", "rejected_human"}

(* A human's decision is changed by a review, by a merge, by the gates of  *)
(* validate_mech when they read the finding again after the severity claim *)
(* was saved, or by a writer whose view of the finding is out of date: no  *)
(* other stage that has looked at the decision goes on to overwrite it.    *)
OverriddenOnlyUnseen ==
  [][\A f \in Findings :
       state[f] \in Decided /\ state'[f] # state[f] =>
         \E p \in Processes :
           /\ pc'[p] # pc[p]
           /\ \/ pc[p] = "merge"
              \/ On(p) = f /\ \/ pc[p] \in {"reviewWrite", "checked"}
                              \/ seen[p].state # state[f]]_vars

(* validate_llm.py:41-42: "once human confirmed/rejected, LLM must not     *)
(* override".                                                              *)
HumanDecisionStands ==
  [][\A f \in Findings :
       state[f] \in Decided => ~(state'[f] # state[f] /\ state'[f] = "rejected_llm")]_vars
=============================================================================
