--------------------------- MODULE TaskLifecycle ---------------------------
(***************************************************************************)
(* The promise of the task table, as PROTOCOL.md ("Task states") states    *)
(* it, without workers, leases' owners, processes or requests: which state *)
(* a task may go to from which, that a parked task waits for the queue to  *)
(* empty, and that every lease counts as an attempt.  Deadletter from any  *)
(* unsettled state and Retry from any state are what the code adds: a      *)
(* worker whose task was taken away still reports its infra failure.       *)
(***************************************************************************)
EXTENDS Integers

CONSTANT Tasks

VARIABLES state, attempt

vars == <<state, attempt>>

Unsettled == {"queued", "leased", "paused"}

In(S) == {t \in Tasks : state[t] \in S}

Move(T, s) ==
  /\ state' = [t \in Tasks |-> IF t \in T THEN s ELSE state[t]]
  /\ UNCHANGED attempt

Init ==
  /\ state \in [Tasks -> {"absent", "queued", "leased"}]
  /\ attempt \in [Tasks -> {0, 1}]

Enqueue(T) == T \subseteq In({"absent"}) /\ Move(T, "queued")

(* The only step that takes a paused task also finds the queue empty.      *)
Lease(t) ==
  /\ state[t] = "queued" \/ (state[t] = "paused" /\ In({"queued"}) = {})
  /\ state' = [state EXCEPT ![t] = "leased"]
  /\ attempt' = [attempt EXCEPT ![t] = @ + 1]

Settle(t, s)  == state[t] = "leased" /\ Move({t}, s)
Reclaim(T)    == T \subseteq In({"leased"}) /\ Move(T, "queued")
Park(t)       == state[t] \in {"queued", "leased"} /\ Move({t}, "paused")
Resume(t)     == state[t] = "paused" /\ Move({t}, "queued")
Cancel(t)     == state[t] \in Unsettled /\ Move({t}, "cancelled")
Deadletter(t) == state[t] \in Unsettled /\ Move({t}, "deadletter")
Retry(t)      == state[t] # "absent" /\ Move({t}, "queued")

Next ==
  \/ \E T \in SUBSET Tasks : Enqueue(T) \/ Reclaim(T)
  \/ \E t \in Tasks :
       \/ Lease(t) \/ Park(t) \/ Resume(t) \/ Cancel(t) \/ Deadletter(t) \/ Retry(t)
       \/ \E s \in {"succeeded", "failed_task", "blocked"} : Settle(t, s)

Spec == Init /\ [][Next]_vars
=============================================================================
