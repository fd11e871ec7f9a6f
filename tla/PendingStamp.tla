---------------------------- MODULE PendingStamp ----------------------------
(***************************************************************************)
(* Why the stamp pending_llm of a finding may stay.  FindingReview with    *)
(* one history variable beside it that no action reads: lost[f] says that  *)
(* the disprove a stamp announces has gone astray, and is FALSE again when *)
(* the stamp is cleared.                                                   *)
(***************************************************************************)
EXTENDS FindingReview

VARIABLE lost

allVars == <<vars, lost>>

(* A process dies between its stamp and the enqueue the stamp announces,   *)
(* or before it clears the stamp of a deadlettered disprove.               *)
DiedHolding(f) ==
  \E p \in Processes :
    /\ On(p) = f /\ Crash(p)
    /\ \/ pc[p] \in {"enqueue", "enqueueArmed"} /\ job[p].kind # "hunt"
       \/ pc[p] \in {"cleanup", "cleanupWrite"}

(* A body read before the stamp was cleared is written back.               *)
PutBack(f) ==
  /\ ~body[f].pending /\ body'[f].pending
  /\ ~\E p \in Processes : On(p) = f /\ (GatePass(p) \/ ArmWrite(p))

(* The disprove finds the finding closed and is skipped, the stamp stays.  *)
Skipped(f) ==
  /\ Settled(Row(f))
  /\ \/ \E p \in Processes : On(p) = f /\ VerdictRead(p)
     \/ \E t \in TaskSet : t.kind = "llm" /\ t.finding = f /\ queue'[t] < queue[t]

Remember ==
  lost' = [f \in Findings |-> body'[f].pending
                              /\ (lost[f] \/ DiedHolding(f) \/ PutBack(f) \/ Skipped(f))]

StampInit == Init /\ lost = [f \in Findings |-> FALSE]
StampNext == Next /\ Remember

(* The fairness of FindingReview.                                          *)
StampSpec ==
  /\ StampInit /\ [][StampNext]_allVars
  /\ \A p \in Processes : WF_vars(Continue(p))
  /\ \A w \in Workers : WF_vars(LeaseValidation(w))

Waits(f) == state[f] = "needs_human" /\ body[f].pending

(* A disprove that is announced on a waiting finding is answered, cleared  *)
(* or pre-empted by a human, so that Accept does not stay blocked, unless  *)
(* a process died between its stamp and its enqueue or in the cleanup of a *)
(* deadlettered disprove, a writer put a cleared stamp back from an old    *)
(* read, or the disprove was skipped while the finding was closed.         *)
PendingSettles == \A f \in Findings : Waits(f) ~> (lost[f] \/ ~Waits(f))
=============================================================================
