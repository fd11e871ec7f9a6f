---------------------------- MODULE MCLockFiles ----------------------------
(* A small instance of the two locks that are files, LiveTask and RunLock. *)
(* They share no state: each is explored while the other is at rest.  The  *)
(* tools of the one and the runners of the other have the same names, so   *)
(* that one permutation serves both.                                       *)
EXTENDS LiveTask, RunLock, TLC

Budget(attempts, calls, touches, prunes, kills, notes, forces, aborts) ==
  [attempt |-> attempts, call |-> calls, touch |-> touches, prune |-> prunes,
   kill |-> kills, note |-> notes, force |-> forces, abort |-> aborts]

Noted   == Budget(1, 1, 1, 0, 0, 3, 0, 0)
Busy    == Budget(1, 4, 2, 0, 0, 0, 1, 0)
Aborted == Budget(2, 1, 0, 0, 1, 1, 1, 2)
Pruned  == Budget(2, 1, 1, 1, 1, 1, 0, 1)

AllBudgets == {Noted, Busy, Aborted, Pruned}
Interchangeable == Permutations(Tools) \union Permutations(Handlers)

(* Whatever a task does first is paid for from its budget.                 *)
FilesInit == Init /\ LockInit
FilesNext == \/ Next /\ LockInit /\ UNCHANGED lockVars
             \/ LockNext /\ budget = Noted /\ UNCHANGED vars
FilesSpec == FilesInit /\ [][FilesNext]_<<vars, lockVars>>
=============================================================================
