------------------------------ MODULE RunLock ------------------------------
(***************************************************************************)
(* run.lock, the file that makes run-once exclusive when a campaign runs   *)
(* one task at a time (db.RunLock, cli.cmd_run_once), and the dashboard's  *)
(* clean-up of it (ui/runner._clear_run_lock).                             *)
(*                                                                         *)
(* A step is one system call.  Between them the path may come to name      *)
(* another file: what was judged stale is not what is unlinked.            *)
(* A process of either kind runs once, under a pid of its own.  The names  *)
(* of the specification begin with Lock, so that it can stand beside that  *)
(* of the other lock file (LockFileProofs).                                *)
(***************************************************************************)
EXTENDS Integers, FiniteSets

CONSTANTS
  Runners,         \* run-once processes
  Cleaners,        \* dashboard requests that clear the lock
  Nobody,
  MaxCrashes,      \* bound: runners that die
  MaxAges          \* bound: times a lock file outlives stale_seconds

ASSUME PidsAssumption ==
  Nobody \notin Runners /\ Nobody \notin Cleaners /\ Runners \intersect Cleaners = {}

Processes == Runners \union Cleaners

(* A lock file: who created it, whether the payload is in it yet, whether  *)
(* it is older than stale_seconds.                                         *)
Locks  == [owner : Runners, written : BOOLEAN, old : BOOLEAN]
NoLock == [owner |-> Nobody, written |-> FALSE, old |-> FALSE]
Steps  == {"start", "judge", "unlink", "create", "write", "work", "release", "unlinkOwn", "gone"}

VARIABLES
  lock,       \* what the path names
  pc, seen,   \* per process: step, the file it read
  used,       \* how much of each bound is spent
  swept       \* history: a clean-up unlinked the lock of a live holder

lockVars == <<lock, pc, seen, used, swept>>

Present == lock # NoLock
Alive(p) == pc[p] # "gone"

(* Between os.open and the end of release.                                 *)
Holding(p) == pc[p] \in {"write", "work", "release", "unlinkOwn"}

Goto(p, step) == pc' = [pc EXCEPT ![p] = step]

-----------------------------------------------------------------------------
(* RunLock._try_clear_stale and acquire.                                   *)

(* A runner that finds no file goes on to create it.                       *)
Read(p) ==
  /\ pc[p] = "start"
  /\ seen' = [seen EXCEPT ![p] = lock]
  /\ Goto(p, IF Present THEN "judge" ELSE IF p \in Runners THEN "create" ELSE "gone")
  /\ UNCHANGED <<lock, used, swept>>

(* The owner's pid is dead or the payload is old; an unreadable payload    *)
(* counts as stale once the file at the path is old.                       *)
Stale(view) ==
  IF view.written THEN ~Alive(view.owner) \/ view.old ELSE lock.old

Judge(p) ==
  /\ pc[p] = "judge" /\ p \in Runners
  /\ Goto(p, IF Stale(seen[p]) THEN "unlink" ELSE "create")
  /\ UNCHANGED <<lock, seen, used, swept>>

(* unlink removes whatever the path names now.                             *)
UnlinkStale(p) ==
  /\ pc[p] = "unlink" /\ lock' = NoLock
  /\ Goto(p, IF p \in Runners THEN "create" ELSE "gone")
  /\ swept' = (swept \/ \E r \in Runners : Holding(r) /\ lock.owner = r)
  /\ UNCHANGED <<seen, used>>

(* Mutant: the file is opened without O_EXCL.                              *)
CreateShared(p) ==
  /\ pc[p] = "create"
  /\ lock' = [owner |-> p, written |-> FALSE, old |-> FALSE] /\ Goto(p, "write")
  /\ UNCHANGED <<seen, used, swept>>

(* O_CREAT | O_EXCL; a file that exists ends run-once with EXIT_INFRA.     *)
Create(p) ==
  /\ pc[p] = "create"
  /\ IF Present
     THEN Goto(p, "gone") /\ UNCHANGED lock
     ELSE /\ lock' = [owner |-> p, written |-> FALSE, old |-> FALSE]
          /\ Goto(p, "write")
  /\ UNCHANGED <<seen, used, swept>>

(* The payload goes to the file that was opened, even if it is unlinked.   *)
Write(p) ==
  /\ pc[p] = "write" /\ Goto(p, "work")
  /\ lock' = IF lock.owner = p THEN [lock EXCEPT !.written = TRUE] ELSE lock
  /\ UNCHANGED <<seen, used, swept>>

FinishTask(p) ==
  /\ pc[p] = "work" /\ Goto(p, "release")
  /\ UNCHANGED <<lock, seen, used, swept>>

(* release: only a lock with the own pid in it is removed.                 *)
Release(p) ==
  /\ pc[p] = "release"
  /\ Goto(p, IF lock.owner = p /\ lock.written THEN "unlinkOwn" ELSE "gone")
  /\ UNCHANGED <<lock, seen, used, swept>>

UnlinkOwn(p) ==
  /\ pc[p] = "unlinkOwn" /\ lock' = NoLock /\ Goto(p, "gone")
  /\ UNCHANGED <<seen, used, swept>>

-----------------------------------------------------------------------------
(* ui/runner._clear_run_lock: a payload that cannot be read names no       *)
(* holder, whatever the age of the file.                                   *)
CleanerJudge(c) ==
  /\ pc[c] = "judge" /\ c \in Cleaners
  /\ Goto(c, IF lock.written /\ Alive(lock.owner) THEN "gone" ELSE "unlink")
  /\ UNCHANGED <<lock, seen, used, swept>>

-----------------------------------------------------------------------------
Crash(r) ==
  /\ pc[r] \notin {"start", "gone"} /\ used.crashes < MaxCrashes
  /\ used' = [used EXCEPT !.crashes = @ + 1]
  /\ Goto(r, "gone")
  /\ UNCHANGED <<lock, seen, swept>>

Age ==
  /\ Present /\ ~lock.old /\ used.ages < MaxAges
  /\ used' = [used EXCEPT !.ages = @ + 1]
  /\ lock' = [lock EXCEPT !.old = TRUE]
  /\ UNCHANGED <<pc, seen, swept>>

-----------------------------------------------------------------------------
LockInit ==
  /\ lock = NoLock
  /\ pc = [p \in Processes |-> "start"]
  /\ seen = [p \in Processes |-> NoLock]
  /\ used = [crashes |-> 0, ages |-> 0]
  /\ swept = FALSE

RunOnce(r) ==
  \/ Judge(r) \/ Create(r) \/ Write(r) \/ FinishTask(r) \/ Release(r) \/ UnlinkOwn(r)
  \/ Crash(r)

LockNext ==
  \/ \E p \in Processes : Read(p) \/ UnlinkStale(p)
  \/ \E r \in Runners : RunOnce(r)
  \/ \E c \in Cleaners : CleanerJudge(c)
  \/ Age

LockSpec == LockInit /\ [][LockNext]_lockVars

-----------------------------------------------------------------------------
(* Properties.                                                             *)

(* The path names no file or one that a runner created.                    *)
LockTypeOK ==
  /\ lock \in Locks \union {NoLock}
  /\ pc \in [Processes -> Steps]
  /\ seen \in [Processes -> Locks \union {NoLock}]
  /\ used \in [crashes : Nat, ages : Nat]
  /\ swept \in BOOLEAN

Working == {r \in Runners : pc[r] = "work"}

(* O_EXCL is enough, through crashes, aged locks and dashboards: two       *)
(* runners work at once only after a clean-up unlinked the lock of a live  *)
(* holder; a release never does.                                           *)
SharedOnlyAfterSweep == ~swept => \A p, q \in Working : p = q
=============================================================================
