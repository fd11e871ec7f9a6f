-------------------------- MODULE LockFileProofs --------------------------
(***************************************************************************)
(* Proofs about the two locks that are files: the lock of a task's         *)
(* snapshot and inbox (LiveTask), for any number of tools, of requests at  *)
(* a time and of notes, and for every budget; and run.lock (RunLock), for  *)
(* any number of runners and dashboards.  Both exclude as long as nobody   *)
(* unlinks the file under those who use it.                                *)
(***************************************************************************)
EXTENDS LiveTask, RunLock, FiniteSetTheorems, SequenceTheorems, TLAPS

-----------------------------------------------------------------------------
(* A free inode is always found.                                           *)
LEMMA ProcsFinite ==
  /\ IsFiniteSet(Procs) /\ Cardinality(Procs) \in Nat
<1>1. IsFiniteSet({Main, Beat, Pruner})
  <2>1. IsFiniteSet({}) /\ {Main, Beat, Pruner} = (({} \union {Main}) \union {Beat}) \union {Pruner}
    BY FS_EmptySet
  <2>2. IsFiniteSet({} \union {Main})
    BY <2>1, FS_AddElement
  <2>3. IsFiniteSet(({} \union {Main}) \union {Beat})
    BY <2>2, FS_AddElement
  <2> QED
    BY <2>1, <2>3, FS_AddElement
<1>2. IsFiniteSet({Main, Beat, Pruner} \union Tools)
  BY <1>1, FiniteAssumption, FS_Union
<1>3. IsFiniteSet(Procs)
  BY <1>2, FiniteAssumption, FS_Union DEF Procs
<1> QED
  BY <1>3, FS_CardinalityType

LEMMA InodeFree == NewInode \in Inodes /\ NewInode # 0
<1> DEFINE n    == Cardinality(Procs)
           taken == {at[p].fd : p \in Procs}
           f    == [p \in Procs |-> at[p].fd]
<1>1. IsFiniteSet(taken) /\ Cardinality(taken) <= n /\ Cardinality(taken) \in Nat
  <2>1. f \in Surjection(Procs, taken)
    <3>1. f \in [Procs -> taken]
      OBVIOUS
    <3>2. \A i \in taken : \E p \in Procs : f[p] = i
      OBVIOUS
    <3> QED
      BY <3>1, <3>2 DEF Surjection
  <2>2. IsFiniteSet(taken) /\ Cardinality(taken) <= n
    BY <2>1, ProcsFinite, FS_Surjection
  <2> QED
    BY <2>2, FS_CardinalityType
<1>2. IsFiniteSet(Inodes) /\ Cardinality(Inodes) = n + 1
  <2>1. n \in Nat
    BY ProcsFinite
  <2>2. n + 1 \in Int /\ 1 \in Int /\ ~(1 > n + 1) /\ (n + 1) - 1 + 1 = n + 1
    BY <2>1
  <2> HIDE DEF n
  <2>3. IsFiniteSet(1..(n + 1)) /\ Cardinality(1..(n + 1)) = n + 1
    BY <2>2, FS_Interval
  <2> QED
    BY <2>3 DEF Inodes, n
<1>3. ~(Inodes \subseteq taken)
  <2>1. n \in Nat
    BY ProcsFinite
  <2>2. Inodes \subseteq taken => Cardinality(Inodes) <= Cardinality(taken)
    BY <1>1, FS_Subset
  <2> HIDE DEF n, taken
  <2> QED
    BY <1>1, <1>2, <2>1, <2>2
<1>4. \E i \in Inodes : \A p \in Procs : at[p].fd # i
  BY <1>3
<1>5. NewInode \in Inodes
  BY <1>4 DEF NewInode
<1> QED
  BY <1>5 DEF Inodes

-----------------------------------------------------------------------------
(* What a process has in hand, and the inbox, have their fields.           *)
Inbox(s)  == DOMAIN s = {"notes", "force", "abort"}
Shaped(s) == DOMAIN s = {"job", "step", "fd", "steer", "snap"} /\ Inbox(s.steer)
PastOK    == DOMAIN past = {"given", "handed", "made", "pending", "late", "unlinked"}
Shapes == /\ DOMAIN at = Procs /\ \A p \in Procs : Shaped(at[p])
          /\ Inbox(steer) /\ PastOK

Locked(p) == at[p].step \in {"wait", "held"}
Held(p)   == at[p].step = "held"

(* Until something is pruned under its users: whoever has the lock file    *)
(* open has the one at the path, one of them holds it, and what the holder *)
(* read of the inbox is the inbox.                                         *)
LockInv ==
  /\ \A p \in Procs : Locked(p) => at[p].fd = file /\ file # 0
  /\ \A p, q \in Procs : Held(p) /\ Held(q) => p = q
  /\ \A p \in Procs : Held(p) => at[p].steer = steer

(* The inbox has the last notes in their order.                            *)
NotesInv ==
  /\ steer.notes \in Seq(NoteSet) /\ past.given \in Nat
  /\ Len(steer.notes) <= NotesCap
  /\ Len(steer.notes) = NotesCap \/ Len(steer.notes) = past.given
  /\ \A i \in 1..Len(steer.notes) : steer.notes[i].id + Len(steer.notes) = past.given + i

(* An abort nobody has seen is in the inbox, and after a round begun with  *)
(* it pending the main thread is not past the next boundary.               *)
AbortInv ==
  /\ past.pending => steer.abort = "asked"
  /\ past.late = 0 \/ (past.late = 1 /\ past.pending)
  /\ at[Main].job \in {"forced", "deliver", "start"} => past.late = 0

Inv == Shapes /\ (past.unlinked \/ (LockInv /\ NotesInv /\ AbortInv))

LEMMA InitInv == Init => Inv
<1> SUFFICES ASSUME Init PROVE Inv
  OBVIOUS
<1>1. \A p \in Procs : at[p] = Idle
  BY DEF Init
<1>2. Shapes
  BY <1>1 DEF Init, Shapes, Shaped, Inbox, PastOK, Idle, Nothing, NoSteer
<1>3. LockInv /\ AbortInv
  <2>1. Main \in Procs
    BY DEF Procs
  <2> QED
    BY <1>1, <2>1 DEF Init, LockInv, AbortInv, Locked, Held, Idle, Nothing
<1>4. NotesInv
  BY CapsAssumption DEF Init, NotesInv, NoSteer, Nothing
<1> QED
  BY <1>2, <1>3, <1>4 DEF Inv

-----------------------------------------------------------------------------
(* The states a process may be set to.                                     *)
LEMMA WantsShape ==
  /\ Shaped(Idle) /\ Idle.job = "idle" /\ Idle.step = "none"
  /\ \A job : /\ Shaped(Wants(job)) /\ Wants(job).job = job /\ Wants(job).step = "open"
              /\ Shaped([Idle EXCEPT !.job = job]) /\ [Idle EXCEPT !.job = job].job = job
              /\ [Idle EXCEPT !.job = job].step = "none"
BY DEF Shaped, Inbox, Idle, Wants, NoSteer

LEMMA ProcNames ==
  /\ Main \in Procs /\ Beat \in Procs /\ Pruner \in Procs /\ Beat # Main /\ Pruner # Main
  /\ Tools \subseteq Procs /\ Handlers \subseteq Procs
  /\ Main \notin Tools /\ Main \notin Handlers /\ Worker \subseteq Procs /\ Pruner \notin Worker
BY NamesAssumption DEF Procs, Worker, Main, Beat, Pruner

(* One process moves, and the holder alone writes the inbox.               *)
LEMMA StepInv ==
  ASSUME Inv, NEW p \in Procs, NEW s, Become(p, s), Shaped(s), Inbox(steer'), PastOK',
         past'.unlinked = past.unlinked,
         file' = file \/ file = 0,
         steer' = steer \/ Held(p),
         ~past.unlinked /\ s.step \in {"wait", "held"} => s.fd = file' /\ file' # 0,
         s.step = "held" => s.steer = steer' /\ (Held(p) \/ (Locked(p) /\ Granted(p))),
         ~past.unlinked => NotesInv' /\ AbortInv'
  PROVE  Inv'
<1>1. /\ DOMAIN at' = Procs /\ at'[p] = s /\ \A q \in Procs : q # p => at'[q] = at[q]
  BY DEF Inv, Shapes, Become
<1>2. Shapes'
  BY <1>1 DEF Inv, Shapes
<1>3. ASSUME ~past.unlinked PROVE LockInv'
  <2>1. LockInv
    BY <1>3 DEF Inv
  <2>2. ASSUME NEW q \in Procs, Locked(q)' PROVE at'[q].fd = file' /\ file' # 0
    <3>1. CASE q = p
      BY <1>1, <1>3, <2>2, <3>1 DEF Locked
    <3>2. CASE q # p
      <4>1. Locked(q)
        BY <1>1, <2>2, <3>2 DEF Locked
      <4> QED
        BY <1>1, <2>1, <3>2, <4>1 DEF LockInv
    <3> QED
      BY <3>1, <3>2
  <2>3. s.step = "held" => \A q \in Procs : q # p => ~Held(q)
    <3>1. Locked(p) /\ Granted(p) => \A q \in Procs : q # p => ~Held(q)
      BY <2>1 DEF LockInv, Locked, Held, Granted
    <3> QED
      BY <2>1, <3>1 DEF LockInv
  <2>4. \A q, r \in Procs : Held(q)' /\ Held(r)' => q = r
    BY <1>1, <2>1, <2>3 DEF LockInv, Held
  <2>5. ASSUME NEW q \in Procs, Held(q)' PROVE at'[q].steer = steer'
    <3>1. CASE q = p
      BY <1>1, <2>5, <3>1 DEF Held
    <3>2. CASE q # p
      BY <1>1, <2>1, <2>5, <3>2 DEF Held, LockInv
    <3> QED
      BY <3>1, <3>2
  <2> QED
    BY <2>2, <2>4, <2>5 DEF LockInv
<1> QED
  BY <1>2, <1>3 DEF Inv

(* What most steps leave of the inbox and of the history.                  *)
LEMMA NotesStay ==
  ASSUME NotesInv, steer'.notes = steer.notes, past'.given = past.given PROVE NotesInv'
BY DEF NotesInv

LEMMA AbortStays ==
  ASSUME AbortInv, steer'.abort = steer.abort, past'.pending = past.pending,
         past'.late = past.late,
         at'[Main].job \in {"forced", "deliver", "start"} =>
           past.late = 0 \/ at[Main].job \in {"forced", "deliver", "start"}
  PROVE  AbortInv'
BY DEF AbortInv

(* A step that touches neither the inbox nor the lock file.                *)
LEMMA ApartInv ==
  ASSUME Inv, NEW p \in Procs, NEW s, Become(p, s), Shaped(s), UNCHANGED <<file, steer>>, PastOK',
         past'.unlinked = past.unlinked, past'.given = past.given, past'.pending = past.pending,
         past'.late = past.late, s.step \in {"none", "open"},
         p = Main /\ s.job \in {"forced", "deliver", "start"} =>
           at[Main].job \in {"forced", "deliver", "start"}
  PROVE  Inv'
<1>1. at'[Main].job \in {"forced", "deliver", "start"} =>
        at[Main].job \in {"forced", "deliver", "start"}
  BY ProcNames DEF Inv, Shapes, Become
<1>2. ~past.unlinked => NotesInv' /\ AbortInv'
  BY <1>1, NotesStay, AbortStays DEF Inv
<1>3. Inbox(steer')
  BY DEF Inv, Shapes
<1> QED
  BY <1>2, <1>3, StepInv

-----------------------------------------------------------------------------
(* The lock.                                                               *)
LEMMA OpenInv ==
  ASSUME Inv, NEW p \in Procs, Open(p) PROVE Inv'
<1> DEFINE s == [at[p] EXCEPT !.step = "wait", !.fd = file']
<1>1. /\ Become(p, s) /\ UNCHANGED <<steer, past>>
      /\ file' = IF file = 0 THEN NewInode ELSE file
  BY DEF Open
<1>2. Shaped(at[p])
  BY DEF Inv, Shapes
<1>3. Shaped(s) /\ s.step = "wait" /\ s.fd = file' /\ s.job = at[p].job
  BY <1>2 DEF Shaped
<1> HIDE DEF s
<1>4. file' # 0 /\ (file' = file \/ file = 0)
  BY <1>1, InodeFree
<1>5. at'[Main].job = at[Main].job
  BY <1>1, <1>3, ProcNames DEF Inv, Shapes, Become
<1>6. ~past.unlinked => NotesInv' /\ AbortInv'
  BY <1>1, <1>5, NotesStay, AbortStays DEF Inv
<1>7. Inbox(steer') /\ PastOK'
  BY <1>1 DEF Inv, Shapes, PastOK
<1> QED
  BY <1>1, <1>3, <1>4, <1>6, <1>7, StepInv

LEMMA LockStepInv ==
  ASSUME Inv, NEW p \in Procs, Lock(p) PROVE Inv'
<1> DEFINE s == [at[p] EXCEPT !.step = "held", !.steer = steer, !.snap = snap]
<1>1. /\ Become(p, s) /\ UNCHANGED <<file, steer, past>> /\ Granted(p) /\ at[p].step = "wait"
  BY DEF Lock
<1>2. Shaped(at[p]) /\ Inbox(steer)
  BY DEF Inv, Shapes
<1>3. /\ Shaped(s) /\ s.step = "held" /\ s.fd = at[p].fd /\ s.job = at[p].job
      /\ s.steer = steer'
  BY <1>1, <1>2 DEF Shaped
<1> HIDE DEF s
<1>4. Locked(p)
  BY <1>1 DEF Locked
<1>5. at'[Main].job = at[Main].job
  BY <1>1, <1>3, ProcNames DEF Inv, Shapes, Become
<1>6. ~past.unlinked => NotesInv' /\ AbortInv' /\ s.fd = file' /\ file' # 0
  BY <1>1, <1>3, <1>4, <1>5, NotesStay, AbortStays DEF Inv, LockInv
<1>7. Inbox(steer') /\ PastOK'
  BY <1>1 DEF Inv, Shapes, PastOK
<1> QED
  BY <1>1, <1>3, <1>4, <1>6, <1>7, StepInv

-----------------------------------------------------------------------------
(* The steps apart from inbox and lock file.                               *)
LEMMA MainQuietInv ==
  ASSUME Inv, Attempt \/ BindTask \/ Deliver \/ UnbindTask
              \/ \E job \in {"boundary", "unbind"} : RoundEnds(job)
  PROVE  Inv'
<1>0. Main \in Procs /\ PastOK
  BY ProcNames DEF Inv, Shapes
<1>1. CASE Attempt
  <2>1. /\ Become(Main, Wants("bind")) /\ UNCHANGED <<file, steer>> /\ at[Main].step \in {"none"}
        /\ past' = [past EXCEPT !.late = 0]
    BY <1>1, WantsShape DEF Attempt
  <2>2. /\ PastOK' /\ past'.unlinked = past.unlinked /\ past'.given = past.given
        /\ past'.pending = past.pending /\ past'.late = 0
    BY <1>0, <2>1 DEF PastOK
  <2>3. at'[Main].job = "bind"
    BY <1>0, <2>1, WantsShape DEF Inv, Shapes, Become
  <2>4. ~past.unlinked => NotesInv' /\ AbortInv'
    <3>1. ~past.unlinked => NotesInv'
      BY <2>1, <2>2, NotesStay DEF Inv
    <3>2. ~past.unlinked => AbortInv'
      BY <2>1, <2>2, <2>3 DEF Inv, AbortInv
    <3> QED
      BY <3>1, <3>2
  <2>5. Inbox(steer')
    BY <2>1 DEF Inv, Shapes
  <2> QED
    BY <1>0, <2>1, <2>2, <2>4, <2>5, WantsShape, StepInv
<1>2. CASE BindTask \/ UnbindTask \/ \E job \in {"boundary", "unbind"} : RoundEnds(job)
  <2>1. PICK job \in {"boundary", "unbind", "idle"} :
          /\ Become(Main, Wants(job)) \/ Become(Main, Idle)
          /\ UNCHANGED <<file, steer, past>>
    BY <1>2 DEF BindTask, UnbindTask, RoundEnds
  <2> QED
    BY <1>0, <2>1, WantsShape, ApartInv DEF PastOK
<1>3. CASE Deliver
  <2>1. /\ Become(Main, Wants("start")) /\ UNCHANGED <<file, steer>> /\ at[Main].job = "deliver"
        /\ past' = [past EXCEPT !.handed = past'.handed]
    <3>1. /\ Become(Main, Wants("start")) /\ UNCHANGED <<file, steer>> /\ at[Main].job = "deliver"
          /\ \E v : past' = [past EXCEPT !.handed = v]
      BY <1>3 DEF Deliver
    <3>2. \A v : past' = [past EXCEPT !.handed = v] => past'.handed = v
      BY <1>0 DEF PastOK
    <3> QED
      BY <3>1, <3>2
  <2>2. /\ PastOK' /\ past'.unlinked = past.unlinked /\ past'.given = past.given
        /\ past'.pending = past.pending /\ past'.late = past.late
    BY <1>0, <2>1 DEF PastOK
  <2> QED
    BY <1>0, <2>1, <2>2, WantsShape, ApartInv
<1> QED
  BY <1>1, <1>2, <1>3

LEMMA OthersQuietInv ==
  ASSUME Inv, \/ HeartbeatDue \/ HeartbeatTouch \/ PruneLook
              \/ \E t \in Tools : RecordToolCall(t)
              \/ \E h \in Handlers, kind \in Kinds : Request(h, kind)
  PROVE  Inv'
<1>1. PICK p \in Procs \ {Main} : \E s :
        /\ Become(p, s) /\ Shaped(s) /\ s.step \in {"none", "open"} /\ UNCHANGED <<file, steer>>
        /\ past' = past \/ past' = [past EXCEPT !.made = past.made + 1]
  <2>1. CASE HeartbeatDue \/ HeartbeatTouch
    BY <2>1, ProcNames, WantsShape DEF HeartbeatDue, HeartbeatTouch
  <2>2. CASE PruneLook
    BY <2>2, ProcNames, WantsShape DEF PruneLook
  <2>3. CASE \E t \in Tools : RecordToolCall(t)
    BY <2>3, ProcNames, WantsShape DEF RecordToolCall
  <2>4. CASE \E h \in Handlers, kind \in Kinds : Request(h, kind)
    BY <2>4, ProcNames, WantsShape DEF Request
  <2> QED
    BY <2>1, <2>2, <2>3, <2>4
<1>2. PastOK
  BY DEF Inv, Shapes
<1>3. /\ PastOK' /\ past'.unlinked = past.unlinked /\ past'.given = past.given
      /\ past'.pending = past.pending /\ past'.late = past.late
  BY <1>1, <1>2 DEF PastOK
<1> QED
  BY <1>1, <1>3, ApartInv

(* A model round begins: with an abort pending it is the last.             *)
LEMMA RoundStartInv ==
  ASSUME Inv, NoteRoundStart PROVE Inv'
<1> DEFINE s == [Idle EXCEPT !.job = "model"]
<1>1. /\ Become(Main, s) /\ UNCHANGED <<file, steer>> /\ at[Main].job = "start"
      /\ \E m : past' = [past EXCEPT !.made = m,
                           !.late = IF past.pending THEN past.late + 1 ELSE past.late]
  BY DEF NoteRoundStart, Holds
<1>2. Main \in Procs /\ PastOK /\ Shaped(s) /\ s.step = "none" /\ s.job = "model"
  BY ProcNames, WantsShape DEF Inv, Shapes
<1> HIDE DEF s
<1>3. /\ PastOK' /\ past'.unlinked = past.unlinked /\ past'.given = past.given
      /\ past'.pending = past.pending
      /\ past'.late = IF past.pending THEN past.late + 1 ELSE past.late
  BY <1>1, <1>2 DEF PastOK
<1>4. at'[Main].job = "model"
  BY <1>1, <1>2 DEF Inv, Shapes, Become
<1>5. ~past.unlinked => NotesInv'
  BY <1>1, <1>3, NotesStay DEF Inv
<1>6. ~past.unlinked => AbortInv'
  BY <1>1, <1>3, <1>4 DEF Inv, AbortInv
<1>7. Inbox(steer')
  BY <1>1 DEF Inv, Shapes
<1> QED
  BY <1>1, <1>2, <1>3, <1>5, <1>6, <1>7, StepInv

(* Several threads are set going, or closed, at once.                      *)
LEMMA ManyInv ==
  ASSUME Inv, UNCHANGED <<file, steer, past>>, DOMAIN at' = Procs,
         \A p \in Procs : at'[p] = at[p] \/ (Shaped(at'[p]) /\ at'[p].step \in {"none", "open"}),
         at'[Main].job \in {"forced", "deliver", "start"} => at'[Main] = at[Main]
  PROVE  Inv'
<1>1. Shapes'
  BY DEF Inv, Shapes, PastOK
<1>2. ASSUME ~past.unlinked PROVE LockInv' /\ NotesInv' /\ AbortInv'
  <2>1. LockInv /\ NotesInv /\ AbortInv
    BY <1>2 DEF Inv
  <2>2. \A p \in Procs : (Locked(p)' => Locked(p) /\ at'[p] = at[p]) /\ (Held(p)' => Held(p))
    BY DEF Locked, Held
  <2>3. \A p \in Procs : Held(p)' => at'[p] = at[p]
    BY DEF Held
  <2>4. LockInv'
    BY <2>1, <2>2, <2>3 DEF LockInv
  <2> QED
    BY <2>1, <2>4, NotesStay, AbortStays
<1> QED
  BY <1>1, <1>2 DEF Inv

LEMMA ManyStepsInv ==
  ASSUME Inv, Killed \/ (\E T \in SUBSET Tools : ModelAnswers(T)) PROVE Inv'
<1>1. CASE Killed
  <2>1. /\ UNCHANGED <<file, steer, past>>
        /\ at' = [p \in Procs |-> IF p \in Worker THEN Idle ELSE at[p]]
    BY <1>1 DEF Killed
  <2>2. Main \in Procs /\ Main \in Worker
    BY ProcNames DEF Worker
  <2>3. at'[Main].job = "idle"
    BY <2>1, <2>2, WantsShape
  <2> QED
    BY <2>1, <2>3, WantsShape, ManyInv
<1>2. CASE \E T \in SUBSET Tools : ModelAnswers(T)
  <2>1. PICK T \in SUBSET Tools :
          /\ UNCHANGED <<file, steer, past>>
          /\ at' = [p \in Procs |->
                      IF p \in T THEN Wants("record")
                      ELSE IF p # Main THEN at[p]
                      ELSE IF T = {} THEN Wants("unbind") ELSE [Idle EXCEPT !.job = "tools"]]
    BY <1>2 DEF ModelAnswers
  <2>2. at'[Main].job \in {"unbind", "tools"}
    BY <2>1, ProcNames, WantsShape
  <2> QED
    BY <2>1, <2>2, WantsShape, ManyInv
<1> QED
  BY <1>1, <1>2

-----------------------------------------------------------------------------
(* The main thread at a boundary.                                          *)
LEMMA TakenNotes ==
  ASSUME NEW notes \in Seq(NoteSet)
  PROVE  /\ AllConsumed(notes) \in Seq(NoteSet) /\ Len(AllConsumed(notes)) = Len(notes)
         /\ \A i \in 1..Len(notes) : /\ AllConsumed(notes)[i].id = notes[i].id
                                     /\ AllConsumed(notes)[i].consumed
<1>1. \A i \in 1..Len(notes) : notes[i] \in NoteSet
  OBVIOUS
<1>2. \A i \in 1..Len(notes) : /\ [notes[i] EXCEPT !.consumed = TRUE] \in NoteSet
                               /\ [notes[i] EXCEPT !.consumed = TRUE].id = notes[i].id
                               /\ [notes[i] EXCEPT !.consumed = TRUE].consumed
  BY <1>1 DEF NoteSet
<1>3. AllConsumed(notes) = [i \in 1..Len(notes) |-> [notes[i] EXCEPT !.consumed = TRUE]]
  BY DEF AllConsumed
<1>4. Len(notes) \in Nat
  OBVIOUS
<1>5. AllConsumed(notes) \in [1..Len(notes) -> NoteSet]
  BY <1>2, <1>3
<1>6. AllConsumed(notes) \in Seq(NoteSet) /\ Len(AllConsumed(notes)) = Len(notes)
  BY <1>4, <1>5
<1> QED
  BY <1>2, <1>3, <1>6

LEMMA BoundaryInv ==
  ASSUME Inv, RoundBoundary PROVE Inv'
<1> DEFINE s == at[Main].steer
<1>1. /\ at[Main].step = "held" /\ Held(Main) /\ Locked(Main) /\ at[Main].job = "boundary"
      /\ UNCHANGED file
  BY DEF RoundBoundary, Holds, Held, Locked
<1>2. Main \in Procs /\ PastOK /\ Shaped(at[Main]) /\ Inbox(s) /\ Inbox(steer)
  BY ProcNames DEF Inv, Shapes, Shaped
<1>3. ~past.unlinked => s = steer /\ at[Main].fd = file /\ file # 0
  BY <1>1, <1>2 DEF Inv, LockInv
<1>4. CASE s.abort = "asked"
  <2>1. /\ steer' = [s EXCEPT !.abort = "seen"] /\ Become(Main, Wants("unbind"))
        /\ past' = [past EXCEPT !.pending = FALSE, !.late = 0]
    BY <1>4 DEF RoundBoundary
  <2>2. Inbox(steer') /\ steer'.notes = s.notes
    BY <1>2, <2>1 DEF Inbox
  <2>3. /\ PastOK' /\ past'.unlinked = past.unlinked /\ past'.given = past.given
        /\ ~past'.pending /\ past'.late = 0
    BY <1>2, <2>1 DEF PastOK
  <2>4. ~past.unlinked => NotesInv' /\ AbortInv'
    <3>1. ~past.unlinked => NotesInv'
      BY <1>3, <2>2, <2>3, NotesStay DEF Inv
    <3>2. AbortInv'
      BY <2>3 DEF AbortInv
    <3> QED
      BY <3>1, <3>2
  <2> QED
    BY <1>1, <1>2, <2>1, <2>2, <2>3, <2>4, WantsShape, StepInv
<1>5. CASE s.abort # "asked" /\ s.force = "asked"
  <2> DEFINE t == [at[Main] EXCEPT !.job = "forced", !.steer = steer', !.snap = snap]
  <2>1. /\ steer' = [s EXCEPT !.force = "applied"] /\ Become(Main, t) /\ UNCHANGED past
    BY <1>5 DEF RoundBoundary
  <2>2. Inbox(steer') /\ steer'.notes = s.notes /\ steer'.abort = s.abort
    BY <1>2, <2>1 DEF Inbox
  <2>3. /\ Shaped(t) /\ t.job = "forced" /\ t.steer = steer' /\ t.step = "held"
        /\ t.fd = at[Main].fd
    BY <1>1, <1>2, <2>2 DEF Shaped
  <2> HIDE DEF t
  <2>4. at'[Main].job = "forced"
    BY <1>2, <2>1, <2>3 DEF Inv, Shapes, Become
  <2>5. ~past.unlinked => NotesInv' /\ AbortInv'
    <3>1. ~past.unlinked => NotesInv'
      BY <1>3, <2>1, <2>2, NotesStay DEF Inv
    <3>2. ~past.unlinked => AbortInv'
      BY <1>3, <1>5, <2>1, <2>2 DEF Inv, AbortInv
    <3> QED
      BY <3>1, <3>2
  <2>6. PastOK'
    BY <1>2, <2>1 DEF PastOK
  <2> QED
    BY <1>1, <1>2, <1>3, <2>1, <2>2, <2>3, <2>5, <2>6, StepInv
<1>6. CASE s.abort # "asked" /\ s.force # "asked"
  <2> DEFINE t == [Idle EXCEPT !.job = "deliver", !.steer = s]
  <2>1. /\ steer' = steer \/ steer' = NotesTaken(s)
        /\ Become(Main, t) /\ UNCHANGED past
    BY <1>6 DEF RoundBoundary
  <2>2. NotesTaken(s) = [s EXCEPT !.notes = AllConsumed(s.notes)]
    BY DEF NotesTaken
  <2>3. /\ Inbox(NotesTaken(s)) /\ NotesTaken(s).notes = AllConsumed(s.notes)
        /\ NotesTaken(s).abort = s.abort
    BY <1>2, <2>2 DEF Inbox
  <2>4. /\ Shaped(t) /\ t.job = "deliver" /\ t.step = "none"
    BY <1>2, WantsShape DEF Shaped
  <2> HIDE DEF t
  <2>5. ~past.unlinked => NotesInv'
    <3>1. ASSUME ~past.unlinked PROVE NotesInv'
      <4>1. NotesInv /\ s = steer
        BY <1>3, <3>1 DEF Inv
      <4>2. /\ AllConsumed(steer.notes) \in Seq(NoteSet)
            /\ Len(AllConsumed(steer.notes)) = Len(steer.notes)
            /\ \A i \in 1..Len(steer.notes) : AllConsumed(steer.notes)[i].id = steer.notes[i].id
        BY <4>1, TakenNotes DEF NotesInv
      <4> QED
        BY <2>1, <2>3, <4>1, <4>2 DEF NotesInv
    <3> QED
      BY <3>1
  <2>6. ~past.unlinked => AbortInv'
    BY <1>3, <1>6, <2>1, <2>3 DEF Inv, AbortInv
  <2>7. Inbox(steer') /\ PastOK'
    BY <1>2, <2>1, <2>3 DEF PastOK
  <2> QED
    BY <1>1, <1>2, <2>1, <2>4, <2>5, <2>6, <2>7, StepInv
<1> QED
  BY <1>4, <1>5, <1>6

(* A forced submit_none: the holder writes back what is there.             *)
LEMMA ForcedInv ==
  ASSUME Inv, NEW ok \in BOOLEAN, ForcedNone(ok) PROVE Inv'
<1>1. /\ Held(Main) /\ at[Main].job = "forced" /\ UNCHANGED file
      /\ steer' = at[Main].steer /\ past' = [past EXCEPT !.made = past.made + 1]
      /\ \E job \in {"unbind", "start"} : Become(Main, Wants(job))
  BY DEF ForcedNone, Holds, Held
<1>2. Main \in Procs /\ PastOK /\ Inbox(steer')
  BY <1>1, ProcNames DEF Inv, Shapes, Shaped
<1>3. /\ PastOK' /\ past'.unlinked = past.unlinked /\ past'.given = past.given
      /\ past'.pending = past.pending /\ past'.late = past.late
  BY <1>1, <1>2 DEF PastOK
<1>4. ~past.unlinked => steer' = steer
  BY <1>1, <1>2 DEF Inv, LockInv
<1>5. ~past.unlinked => NotesInv' /\ AbortInv'
  BY <1>1, <1>3, <1>4, NotesStay, AbortStays DEF Inv
<1> QED
  BY <1>1, <1>2, <1>3, <1>5, WantsShape, StepInv

-----------------------------------------------------------------------------
(* The dashboard's requests.                                               *)
LEMMA HandlersHold ==
  ASSUME Inv, NEW h \in Handlers, NEW kind, Holds(h, kind)
  PROVE  /\ h \in Procs /\ h # Main /\ Held(h) /\ Inbox(at[h].steer) /\ Inbox(steer) /\ PastOK
         /\ ~past.unlinked => at[h].steer = steer /\ NotesInv /\ AbortInv
<1>1. h \in Procs /\ h # Main /\ Held(h)
  BY ProcNames DEF Holds, Held
<1> QED
  BY <1>1 DEF Inv, Shapes, Shaped, LockInv

LEMMA MainStays ==
  ASSUME Inv, NEW h \in Procs, h # Main, NEW s, Become(h, s)
  PROVE  at'[Main] = at[Main]
BY ProcNames DEF Inv, Shapes, Become

(* A note is appended; of a full inbox the oldest is dropped.              *)
LEMMA AppendedNotes ==
  ASSUME NEW notes \in Seq(NoteSet), NEW given \in Nat, Len(notes) <= NotesCap,
         Len(notes) = NotesCap \/ Len(notes) = given,
         \A i \in 1..Len(notes) : notes[i].id + Len(notes) = given + i,
         NEW new \in NoteSet, new.id = given + 1,
         NEW more, more = LastNotes(Append(notes, new))
  PROVE  /\ more \in Seq(NoteSet) /\ Len(more) <= NotesCap
         /\ Len(more) = NotesCap \/ Len(more) = given + 1
         /\ \A i \in 1..Len(more) : more[i].id + Len(more) = given + 1 + i
<1> DEFINE all == Append(notes, new)
<1>1. \A n \in NoteSet : n.id \in Nat
  BY DEF NoteSet
<1>2. /\ all \in Seq(NoteSet) /\ Len(all) = Len(notes) + 1 /\ Len(notes) \in Nat
      /\ \A i \in 1..Len(notes) : all[i] = notes[i]
      /\ all[Len(notes) + 1] = new
  OBVIOUS
<1> HIDE DEF all
<1>3. \A i \in 1..Len(all) : all[i].id \in Nat
  BY <1>1, <1>2
<1>4. \A i \in 1..Len(all) : all[i].id + Len(all) = given + 1 + i
  <2> SUFFICES ASSUME NEW i \in 1..Len(all) PROVE all[i].id + Len(all) = given + 1 + i
    OBVIOUS
  <2>1. CASE i = Len(notes) + 1
    <3>1. all[i].id = given + 1
      BY <1>2, <2>1
    <3> QED
      BY <1>2, <2>1, <3>1
  <2>2. CASE i \in 1..Len(notes)
    <3> DEFINE a == all[i].id
               l == Len(notes)
    <3>1. a + l = given + i /\ a \in Nat /\ l \in Nat /\ Len(all) = l + 1 /\ i \in Nat
      BY <1>2, <1>3, <2>2
    <3> HIDE DEF a, l
    <3>2. a + (l + 1) = given + 1 + i
      BY <3>1
    <3> QED
      BY <3>1, <3>2 DEF a
  <2> QED
    BY <1>2, <2>1, <2>2
<1>5. NotesCap \in Nat /\ NotesCap > 0
  BY CapsAssumption
<1>6. CASE Len(all) > NotesCap
  <2>1. more = Tail(all)
    BY <1>6 DEF LastNotes, all
  <2>2. all # <<>>
    BY <1>2
  <2>3. /\ Tail(all) \in Seq(NoteSet) /\ Len(Tail(all)) = Len(all) - 1
        /\ \A i \in 1..Len(Tail(all)) : i + 1 \in 1..Len(all) /\ Tail(all)[i] = all[i + 1]
    BY <1>2, <2>2
  <2>4. Len(Tail(all)) = NotesCap /\ Len(Tail(all)) <= NotesCap
    BY <1>2, <1>5, <1>6, <2>3
  <2>5. \A i \in 1..Len(Tail(all)) : Tail(all)[i].id + Len(Tail(all)) = given + 1 + i
    <3> SUFFICES ASSUME NEW i \in 1..Len(Tail(all))
                 PROVE  Tail(all)[i].id + Len(Tail(all)) = given + 1 + i
      OBVIOUS
    <3>1. i + 1 \in 1..Len(all) /\ Tail(all)[i] = all[i + 1] /\ i \in Nat
      BY <2>3
    <3>2. all[i + 1].id + Len(all) = given + 1 + (i + 1) /\ all[i + 1].id \in Nat
      BY <1>3, <1>4, <3>1
    <3>3. Len(all) \in Nat /\ Len(Tail(all)) = Len(all) - 1
      BY <1>2, <2>3
    <3> DEFINE a == all[i + 1].id
               l == Len(all)
    <3>4. /\ a \in Nat /\ l \in Nat /\ given \in Nat /\ i \in Nat
          /\ a + l = given + 1 + (i + 1)
      BY <3>1, <3>2, <3>3
    <3> HIDE DEF a, l
    <3>5. a + (l - 1) = given + 1 + i
      BY <3>4
    <3> QED
      BY <3>1, <3>3, <3>5 DEF a, l
  <2> HIDE DEF all
  <2> QED
    BY ONLY <2>1, <2>3, <2>4, <2>5
<1>7. CASE ~(Len(all) > NotesCap)
  <2>1. more = all
    BY <1>7 DEF LastNotes, all
  <2>2. Len(all) <= NotesCap
    BY <1>2, <1>5, <1>7
  <2>3. Len(all) = NotesCap \/ Len(all) = given + 1
    BY <1>2, <1>5, <2>2
  <2> QED
    BY <1>2, <1>4, <2>1, <2>2, <2>3
<1> QED
  BY <1>6, <1>7

LEMMA NoteInv ==
  ASSUME Inv, NEW h \in Handlers, AddOperatorNote(h) PROVE Inv'
<1> DEFINE more == LastNotes(Append(at[h].steer.notes, [id |-> past.given + 1, consumed |-> FALSE]))
<1>1. /\ Holds(h, "note") /\ steer' = [at[h].steer EXCEPT !.notes = more]
      /\ past' = [past EXCEPT !.given = past.given + 1] /\ Become(h, Idle) /\ UNCHANGED file
  BY DEF AddOperatorNote
<1> HIDE DEF more
<1>2. /\ h \in Procs /\ h # Main /\ Held(h) /\ Inbox(at[h].steer) /\ Inbox(steer) /\ PastOK
      /\ ~past.unlinked => at[h].steer = steer /\ NotesInv /\ AbortInv
  BY <1>1, HandlersHold
<1>3. Inbox(steer') /\ steer'.notes = more /\ steer'.abort = at[h].steer.abort
  BY <1>1, <1>2 DEF Inbox
<1>4. /\ PastOK' /\ past'.unlinked = past.unlinked /\ past'.given = past.given + 1
      /\ past'.pending = past.pending /\ past'.late = past.late
  BY <1>1, <1>2 DEF PastOK
<1>5. at'[Main] = at[Main]
  BY <1>1, <1>2, MainStays
<1>6. ASSUME ~past.unlinked PROVE NotesInv' /\ AbortInv'
  <2>1. at[h].steer = steer /\ NotesInv /\ AbortInv
    BY <1>2, <1>6
  <2>2. NotesInv'
    <3> DEFINE new == [id |-> past.given + 1, consumed |-> FALSE]
    <3>1. more = LastNotes(Append(steer.notes, new))
      BY <2>1 DEF more
    <3>3. new \in NoteSet /\ new.id = past.given + 1
      BY <2>1 DEF NoteSet, NotesInv
    <3> HIDE DEF new
    <3>2. /\ more \in Seq(NoteSet) /\ Len(more) <= NotesCap
          /\ Len(more) = NotesCap \/ Len(more) = past.given + 1
          /\ \A i \in 1..Len(more) : more[i].id + Len(more) = past.given + 1 + i
      <4>1. /\ steer.notes \in Seq(NoteSet) /\ past.given \in Nat
            /\ Len(steer.notes) <= NotesCap
            /\ Len(steer.notes) = NotesCap \/ Len(steer.notes) = past.given
            /\ \A i \in 1..Len(steer.notes) :
                 steer.notes[i].id + Len(steer.notes) = past.given + i
        BY <2>1 DEF NotesInv
      <4> DEFINE ns == steer.notes
                 g  == past.given
      <4>2. /\ ns \in Seq(NoteSet) /\ g \in Nat /\ Len(ns) <= NotesCap
            /\ Len(ns) = NotesCap \/ Len(ns) = g
            /\ \A i \in 1..Len(ns) : ns[i].id + Len(ns) = g + i
            /\ new \in NoteSet /\ new.id = g + 1 /\ more = LastNotes(Append(ns, new))
        BY <3>1, <3>3, <4>1
      <4> HIDE DEF ns, g
      <4>3. /\ more \in Seq(NoteSet) /\ Len(more) <= NotesCap
            /\ Len(more) = NotesCap \/ Len(more) = g + 1
            /\ \A i \in 1..Len(more) : more[i].id + Len(more) = g + 1 + i
        BY <4>2, AppendedNotes
      <4> QED
        BY <4>3 DEF g
    <3> QED
      BY <1>3, <1>4, <2>1, <3>2 DEF NotesInv
  <2>3. AbortInv'
    BY <1>3, <1>4, <1>5, <2>1, AbortStays
  <2> QED
    BY <2>2, <2>3
<1> QED
  BY <1>1, <1>2, <1>3, <1>4, <1>6, WantsShape, StepInv

LEMMA AskInv ==
  ASSUME Inv, NEW h \in Handlers, RequestForceSubmitNone(h) \/ RequestAbort(h) PROVE Inv'
<1>1. CASE RequestForceSubmitNone(h)
  <2>1. /\ Holds(h, "force") /\ Become(h, Idle) /\ UNCHANGED <<file, past>>
        /\ steer' = steer \/ steer' = [at[h].steer EXCEPT !.force = "asked"]
    BY <1>1 DEF RequestForceSubmitNone
  <2>2. /\ h \in Procs /\ h # Main /\ Held(h) /\ Inbox(at[h].steer) /\ Inbox(steer) /\ PastOK
        /\ ~past.unlinked => at[h].steer = steer /\ NotesInv /\ AbortInv
    BY <2>1, HandlersHold
  <2>3. /\ Inbox(steer') /\ PastOK'
        /\ ~past.unlinked => steer'.notes = steer.notes /\ steer'.abort = steer.abort
    BY <2>1, <2>2 DEF Inbox, PastOK
  <2>4. at'[Main] = at[Main]
    BY <2>1, <2>2, MainStays
  <2>5. ~past.unlinked => NotesInv' /\ AbortInv'
    BY <2>1, <2>2, <2>3, <2>4, NotesStay, AbortStays
  <2> QED
    BY <2>1, <2>2, <2>3, <2>5, WantsShape, StepInv
<1>2. CASE RequestAbort(h)
  <2>1. /\ Holds(h, "abort") /\ Become(h, Idle) /\ UNCHANGED file
        /\ past' = [past EXCEPT !.pending = TRUE]
        /\ steer' = [at[h].steer EXCEPT !.abort = "asked"]
    BY <1>2 DEF RequestAbort
  <2>2. /\ h \in Procs /\ h # Main /\ Held(h) /\ Inbox(at[h].steer) /\ Inbox(steer) /\ PastOK
        /\ ~past.unlinked => at[h].steer = steer /\ NotesInv /\ AbortInv
    BY <2>1, HandlersHold
  <2>3. Inbox(steer') /\ steer'.notes = at[h].steer.notes /\ steer'.abort = "asked"
    BY <2>1, <2>2 DEF Inbox
  <2>4. /\ PastOK' /\ past'.unlinked = past.unlinked /\ past'.given = past.given
        /\ past'.pending = TRUE /\ past'.late = past.late
    BY <2>1, <2>2 DEF PastOK
  <2>5. at'[Main] = at[Main]
    BY <2>1, <2>2, MainStays
  <2>6. ~past.unlinked => NotesInv'
    BY <2>2, <2>3, <2>4, NotesStay
  <2>7. ~past.unlinked => AbortInv'
    BY <2>2, <2>3, <2>4, <2>5 DEF AbortInv
  <2> QED
    BY <2>1, <2>2, <2>3, <2>4, <2>6, <2>7, WantsShape, StepInv
<1> QED
  BY <1>1, <1>2

(* The pruner: either nobody is there, or the history says so.             *)
LEMMA PruneInv ==
  ASSUME Inv, PruneLive \/ PruneLocks PROVE Inv'
<1>1. /\ UNCHANGED steer
      /\ past' = [past EXCEPT !.unlinked = UnderSomebody]
      /\ Become(Pruner, Idle) \/ Become(Pruner, [Idle EXCEPT !.job = "locks"])
  BY DEF PruneLive, PruneLocks
<1>2. PastOK /\ Pruner \in Procs /\ Main \in Procs /\ Pruner # Main
  BY ProcNames DEF Inv, Shapes
<1>3. /\ PastOK' /\ past'.unlinked = UnderSomebody /\ past'.given = past.given
      /\ past'.pending = past.pending /\ past'.late = past.late
  BY <1>1, <1>2 DEF PastOK
<1>4. /\ DOMAIN at' = Procs /\ Shaped(at'[Pruner]) /\ at'[Pruner].step = "none"
      /\ \A q \in Procs : q # Pruner => at'[q] = at[q]
  <2>1. \E s : Become(Pruner, s) /\ Shaped(s) /\ s.step = "none"
    BY <1>1, WantsShape
  <2>2. DOMAIN at = Procs
    BY DEF Inv, Shapes
  <2> QED
    BY <1>2, <2>1, <2>2 DEF Become
<1>5. Shapes'
  BY <1>1, <1>3, <1>4 DEF Inv, Shapes
<1>6. ASSUME ~UnderSomebody PROVE LockInv' /\ NotesInv' /\ AbortInv'
  <2>1. ~past.unlinked /\ \A q \in Procs : at'[q].step = "none"
    BY <1>4, <1>6, WantsShape DEF UnderSomebody
  <2>2. LockInv'
    BY <2>1 DEF LockInv, Locked, Held
  <2> QED
    BY <1>1, <1>2, <1>3, <1>4, <2>1, <2>2, NotesStay, AbortStays DEF Inv
<1> QED
  BY <1>3, <1>5, <1>6 DEF Inv

-----------------------------------------------------------------------------
(* Every step keeps the invariant.                                         *)
LEMMA NextInv ==
  ASSUME Inv, [Next]_vars PROVE Inv'
<1>1. CASE \E p \in Procs : Open(p) \/ Lock(p)
  BY <1>1, OpenInv, LockStepInv
<1>2. CASE Attempt \/ BindTask \/ Deliver \/ UnbindTask
           \/ \E job \in {"boundary", "unbind"} : RoundEnds(job)
  BY <1>2, MainQuietInv
<1>3. CASE \/ HeartbeatDue \/ HeartbeatTouch \/ PruneLook
           \/ \E t \in Tools : RecordToolCall(t)
           \/ \E h \in Handlers, kind \in Kinds : Request(h, kind)
  BY <1>3, OthersQuietInv
<1>4. CASE RoundBoundary \/ NoteRoundStart \/ \E ok \in BOOLEAN : ForcedNone(ok)
  BY <1>4, BoundaryInv, RoundStartInv, ForcedInv
<1>5. CASE Killed \/ \E T \in SUBSET Tools : ModelAnswers(T)
  BY <1>5, ManyStepsInv
<1>6. CASE \E h \in Handlers : \/ AddOperatorNote(h) \/ RequestForceSubmitNone(h)
                               \/ RequestAbort(h)
  BY <1>6, NoteInv, AskInv
<1>7. CASE PruneLive \/ PruneLocks
  BY <1>7, PruneInv
<1>8. CASE UNCHANGED vars
  <2>1. UNCHANGED <<file, steer, at, past>>
    BY <1>8 DEF vars
  <2>2. Shapes' /\ (LockInv => LockInv')
    BY <2>1 DEF Inv, Shapes, PastOK, LockInv, Locked, Held
  <2>3. (NotesInv => NotesInv') /\ (AbortInv => AbortInv')
    BY <2>1, NotesStay, AbortStays
  <2> QED
    BY <2>1, <2>2, <2>3 DEF Inv
<1> QED
  BY <1>1, <1>2, <1>3, <1>4, <1>5, <1>6, <1>7, <1>8 DEF Next

(* The invariant holds in every state.                                     *)
THEOREM InvAlways == Spec => []Inv
<1>1. Inv /\ [Next]_vars => Inv'
  BY NextInv
<1> QED
  BY InitInv, <1>1, PTL DEF Spec

-----------------------------------------------------------------------------
(* One thread or process at a time holds the lock of a task, and what it   *)
(* read of the inbox is still the inbox when it writes (task_lock).        *)
OneHolder ==
  past.unlinked \/
    \A p, q \in Procs : Held(p) => at[p].steer = steer /\ (Held(q) => p = q)

(* Of all notes the operator was told are queued the last NotesCap are in  *)
(* the inbox, in their order (add_operator_note).                          *)
LastNotesQueued ==
  past.unlinked \/
    \A n \in 1..past.given : n + NotesCap > past.given =>
      \E i \in 1..Len(steer.notes) : steer.notes[i].id = n

(* Until something is pruned under its users, the lock excludes, however   *)
(* many tools record at once and whoever is killed holding it.             *)
THEOREM LockExcludes == Spec => []OneHolder
<1>1. Inv => OneHolder
  BY DEF Inv, LockInv, OneHolder
<1> QED
  BY <1>1, InvAlways, PTL

(* Until something is pruned under its users, no accepted note is lost     *)
(* that the cap of the inbox does not drop.                                *)
THEOREM NotesQueued == Spec => []LastNotesQueued
<1>1. Inv => LastNotesQueued
  <2> SUFFICES ASSUME Inv, ~past.unlinked, NEW n \in 1..past.given, n + NotesCap > past.given
               PROVE  \E i \in 1..Len(steer.notes) : steer.notes[i].id = n
    BY DEF LastNotesQueued
  <2> DEFINE l == Len(steer.notes)
             g == past.given
             i == n + l - g
  <2>1. /\ steer.notes \in Seq(NoteSet) /\ g \in Nat
        /\ l = NotesCap \/ l = g
        /\ \A j \in 1..l : steer.notes[j].id + l = g + j
    BY DEF Inv, NotesInv
  <2>2. l \in Nat /\ NotesCap \in Nat /\ n \in 1..g /\ n + NotesCap > g
    BY <2>1, CapsAssumption
  <2>3. \A j \in 1..l : steer.notes[j] \in NoteSet /\ steer.notes[j].id \in Nat
    <3>1. \A j \in 1..l : steer.notes[j] \in NoteSet
      BY <2>1
    <3>2. \A m \in NoteSet : m.id \in Nat
      BY DEF NoteSet
    <3> QED
      BY <3>1, <3>2
  <2> HIDE DEF l, g
  <2>4. i \in 1..l
    BY <2>1, <2>2
  <2>5. steer.notes[i].id + l = g + i /\ steer.notes[i].id \in Nat
    BY <2>1, <2>3, <2>4
  <2>6. steer.notes[i].id = n
    BY <2>1, <2>2, <2>5
  <2> QED
    BY <2>4, <2>6 DEF l
<1> QED
  BY <1>1, InvAlways, PTL

(* Until something is pruned under its users, an accepted abort lets the   *)
(* worker begin at most one more model round, also one it forced to submit *)
(* none or that was killed and leased again (request_abort).               *)
THEOREM AbortHeeded == Spec => []AbortWithinOneRound
<1>1. Inv => AbortWithinOneRound
  BY DEF Inv, AbortInv, AbortWithinOneRound
<1> QED
  BY <1>1, InvAlways, PTL

-----------------------------------------------------------------------------
(* Numbers and sequences.  What a recursive function computes is proved by *)
(* a least counterexample: a set of numbers that is not empty has a least. *)
LEMMA Least ==
  ASSUME NEW T, T \subseteq Nat, T # {}
  PROVE  \E m \in T : \A k \in T : m <= k
<1> DEFINE Below == {0..m : m \in T}
<1>1. Below \subseteq FiniteSubsetsOf(Nat) /\ Below # {}
  <2>1. \A m \in T : 0..m \subseteq Nat /\ IsFiniteSet(0..m)
    BY FS_Interval
  <2> QED
    BY <2>1 DEF FiniteSubsetsOf
<1>2. PICK U \in Below : \A V \in Below : ~(<<V, U>> \in StrictSubsetOrdering(Nat))
  <2> HIDE DEF Below
  <2> QED
    BY <1>1, WFMin, FS_StrictSubsetOrderingWellFounded
<1>3. PICK m \in T : U = 0..m
  OBVIOUS
<1>4. ASSUME NEW k \in T, k < m
      PROVE  FALSE
  <2>1. 0..k \in Below /\ 0..k \subseteq Nat /\ 0..m \subseteq Nat
    OBVIOUS
  <2>2. 0..k \subseteq 0..m /\ 0..k # 0..m
    <3>1. m \in 0..m /\ m \notin 0..k
      BY <1>4
    <3>2. 0..k \subseteq 0..m
      BY <1>4
    <3> QED
      BY <3>1, <3>2
  <2>3. <<0..k, U>> \in StrictSubsetOrdering(Nat)
    BY <1>3, <2>1, <2>2 DEF StrictSubsetOrdering
  <2> QED
    BY <1>2, <2>1, <2>3
<1> QED
  BY <1>4

-----------------------------------------------------------------------------
(* Flattened sequences.                                                    *)
Flattens(f, s, n) == f = [i \in 1..n |-> IF i = 1 THEN s[i] ELSE f[i - 1] \o s[i]]

LEMMA FlatteningExists ==
  ASSUME NEW s, NEW n \in Nat
  PROVE  \E f : Flattens(f, s, n)
<1> DEFINE Bad == {k \in Nat : ~\E f : Flattens(f, s, k)}
<1>1. SUFFICES ASSUME Bad # {}
               PROVE  FALSE
  OBVIOUS
<1>2. PICK m \in Bad : \A k \in Bad : m <= k
  <2> HIDE DEF Bad
  <2>1. Bad \subseteq Nat
    BY DEF Bad
  <2> QED
    BY <1>1, <2>1, Least
<1>3. m # 0
  <2>1. Flattens([i \in 1..0 |-> i], s, 0)
    BY DEF Flattens
  <2> QED
    BY <2>1
<1>4. m - 1 \in Nat /\ m - 1 \notin Bad
  BY <1>2, <1>3
<1>5. PICK f : Flattens(f, s, m - 1)
  BY <1>4
<1> DEFINE g == [i \in 1..m |-> IF i = 1 THEN s[i] ELSE f[i - 1] \o s[i]]
<1>6. \A i \in 1..(m - 1) : f[i] = g[i]
  <2>1. \A i \in 1..(m - 1) : f[i] = IF i = 1 THEN s[i] ELSE f[i - 1] \o s[i]
    BY <1>5 DEF Flattens
  <2>2. \A i \in 1..(m - 1) : i \in 1..m
    BY <1>4
  <2> QED
    BY <2>1, <2>2
<1>7. \A i \in 1..m : i # 1 => f[i - 1] = g[i - 1]
  <2>1. \A i \in 1..m : i # 1 => i - 1 \in 1..(m - 1)
    BY <1>4
  <2> HIDE DEF g
  <2> QED
    BY <1>6, <2>1
<1>8. \A i \in 1..m : (IF i = 1 THEN s[i] ELSE f[i - 1] \o s[i])
                      = (IF i = 1 THEN s[i] ELSE g[i - 1] \o s[i])
  <2> HIDE DEF g
  <2> QED
    BY <1>7
<1>9. g = [i \in 1..m |-> IF i = 1 THEN s[i] ELSE g[i - 1] \o s[i]]
  BY <1>8
<1>10. Flattens(g, s, m)
  <2> HIDE DEF g
  <2> QED
    BY <1>9 DEF Flattens
<1> QED
  BY <1>10

(* The largest number of a set that has a bound.                           *)
LEMMA Largest ==
  ASSUME NEW T, T \subseteq Nat, T # {}, NEW b \in Nat, \A x \in T : x <= b
  PROVE  Max(T) \in T /\ \A x \in T : x <= Max(T)
<1> DEFINE D == {b - x : x \in T}
<1>1. D \subseteq Nat /\ D # {}
  <2>1. ASSUME NEW x \in T
        PROVE  b - x \in Nat
    <3>1. x \in Nat /\ x <= b
      OBVIOUS
    <3> QED
      BY <3>1
  <2> QED
    BY <2>1
<1>2. PICK d \in D : \A e \in D : d <= e
  <2> HIDE DEF D
  <2> QED
    BY <1>1, Least
<1>3. PICK m \in T : d = b - m
  BY <1>2
<1>4. ASSUME NEW x \in T
      PROVE  m >= x
  <2>1. b - x \in D
    OBVIOUS
  <2>2. b - m <= b - x /\ x \in Nat /\ m \in Nat
    BY <1>2, <1>3, <2>1
  <2> QED
    BY <2>2
<1>5. Max(T) \in T /\ \A x \in T : Max(T) >= x
  <2>1. \E n \in T : \A x \in T : n >= x
    BY <1>4
  <2> QED
    BY <2>1 DEF Max
<1>6. Max(T) \in Nat
  BY <1>5
<1> DEFINE M == Max(T)
<1> HIDE DEF M
<1>7. \A x \in T : x <= M
  <2> SUFFICES ASSUME NEW x \in T
               PROVE  x <= M
    OBVIOUS
  <2>1. M >= x /\ M \in Nat /\ x \in Nat
    BY <1>5, <1>6 DEF M
  <2> QED
    BY <2>1
<1> QED
  BY <1>5, <1>7 DEF M

(* The rows of a list have a bound.                                        *)
LEMMA RowsBounded ==
  ASSUME NEW steps \in Seq(RowSet)
  PROVE  \E b \in Nat : \A i \in 1..Len(steps) : steps[i].call <= b
<1> DEFINE n == Len(steps)
           Upto(k) == \E b \in Nat : \A i \in 1..k : steps[i].call <= b
           Bad == {k \in 0..n : ~Upto(k)}
<1>1. n \in Nat /\ \A i \in 1..n : steps[i] \in RowSet
  OBVIOUS
<1>2. \A i \in 1..n : steps[i].call \in Nat
  <2>1. \A x \in RowSet : x.call \in Nat
    BY DEF RowSet
  <2> QED
    BY <1>1, <2>1
<1> HIDE DEF n
<1>3. Bad = {}
  <2> SUFFICES ASSUME Bad # {}
               PROVE  FALSE
    OBVIOUS
  <2>1. PICK m \in Bad : \A k \in Bad : m <= k
    <3>1. Bad \subseteq Nat
      BY <1>1
    <3> HIDE DEF Bad
    <3> QED
      BY <3>1, Least
  <2>2. m \in 0..n /\ ~Upto(m)
    OBVIOUS
  <2>3. Upto(0)
    <3>1. 0 \in Nat /\ \A i \in 1..0 : steps[i].call <= 0
      OBVIOUS
    <3> QED
      BY <3>1
  <2>4. m # 0 /\ m \in Nat
    <3> HIDE DEF Upto
    <3> QED
      BY <1>1, <2>2, <2>3
  <2>5. m - 1 \in 0..n /\ m - 1 < m /\ m \in 1..n
    BY <1>1, <2>2, <2>4
  <2>6. Upto(m - 1)
    <3>1. m - 1 \notin Bad
      <4> HIDE DEF Bad
      <4> QED
        BY <2>1, <2>4, <2>5
    <3> HIDE DEF Upto
    <3> QED
      BY <2>5, <3>1
  <2>7. PICK b \in Nat : \A i \in 1..(m - 1) : steps[i].call <= b
    BY <2>6
  <2>8. steps[m].call \in Nat
    BY <1>2, <2>5
  <2>c. PICK c \in Nat : c = steps[m].call
    BY <2>8
  <2>9. PICK d \in Nat : b <= d /\ c <= d
    <3>1. b <= b + c /\ c <= b + c /\ b + c \in Nat
      OBVIOUS
    <3> QED
      BY <3>1
  <2>10. \A i \in 1..m : steps[i].call <= d
    <3> SUFFICES ASSUME NEW i \in 1..m
                 PROVE  steps[i].call <= d
      OBVIOUS
    <3>1. CASE i = m
      BY <2>c, <2>9, <3>1
    <3>2. CASE i # m
      <4>1. i \in 1..(m - 1) /\ i \in 1..n
        BY <1>1, <2>4, <2>5, <3>2
      <4>2. steps[i].call <= b /\ steps[i].call \in Nat
        BY <1>2, <2>7, <4>1
      <4>3. PICK a \in Nat : a = steps[i].call /\ a <= b
        BY <4>2
      <4>4. a <= b /\ b <= d
        BY <2>9, <4>3
      <4>5. a <= d
        BY ONLY <4>4, a \in Nat, b \in Nat, d \in Nat
      <4> QED
        BY <4>3, <4>5
    <3> QED
      BY <3>1, <3>2
  <2>11. Upto(m)
    BY <2>10
  <2> QED
    BY <2>2, <2>11
<1>4. n \in 0..n
  BY <1>1
<1>5. Upto(n)
  <2> HIDE DEF Upto
  <2> QED
    BY <1>3, <1>4
<1> QED
  BY <1>5 DEF n

(* The number a new call gets is above those of its round                  *)
(* (_max_call_in_round).                                                   *)
LEMMA HighestCall ==
  ASSUME NEW steps \in Seq(RowSet), NEW r
  PROVE  /\ MaxCallInRound(steps, r) \in Nat
         /\ \A i \in 1..Len(steps) :
              steps[i].round = r => steps[i].call <= MaxCallInRound(steps, r)
         /\ MaxCallInRound(steps, r) \in CallsIn(steps, r) \union {0}
<1> DEFINE T == CallsIn(steps, r) \union {0}
<1>1. DOMAIN steps = 1..Len(steps) /\ \A i \in 1..Len(steps) : steps[i] \in RowSet
  OBVIOUS
<1>2. \A x \in RowSet : x.call \in Nat
  BY DEF RowSet
<1>3. T \subseteq Nat /\ 0 \in T
  BY <1>1, <1>2 DEF CallsIn
<1>4. \A i \in 1..Len(steps) : steps[i].round = r => steps[i].call \in T
  BY <1>1 DEF CallsIn
<1>5. PICK b \in Nat : \A i \in 1..Len(steps) : steps[i].call <= b
  BY RowsBounded
<1>6. \A x \in T : x <= b
  BY <1>1, <1>5 DEF CallsIn
<1>7. MaxCallInRound(steps, r) = Max(T)
  BY DEF MaxCallInRound
<1> HIDE DEF T
<1>8. Max(T) \in T /\ \A x \in T : x <= Max(T)
  BY <1>3, <1>6, Largest
<1>9. Max(T) \in Nat
  BY <1>3, <1>8
<1>10. MaxCallInRound(steps, r) \in CallsIn(steps, r) \union {0}
  BY <1>7, <1>8 DEF T
<1> QED
  BY <1>4, <1>7, <1>8, <1>9, <1>10

-----------------------------------------------------------------------------
(* The list of steps.                                                      *)
Increasing(steps) ==
  \A i, j \in 1..Len(steps) :
    i < j /\ steps[i].round = steps[j].round => steps[i].call < steps[j].call

(* The list with a call more: the last rows of what was appended to.       *)
LEMMA TrimmedRows ==
  ASSUME NEW all \in Seq(RowSet), Len(all) <= MaxSteps + 1
  PROVE  /\ Trimmed(all) \in Seq(RowSet) /\ Len(Trimmed(all)) <= MaxSteps
         /\ \E k \in {0, 1} :
              /\ Len(Trimmed(all)) + k = Len(all) /\ (all # <<>> => Len(Trimmed(all)) # 0)
              /\ \A i \in 1..Len(Trimmed(all)) :
                   i + k \in 1..Len(all) /\ Trimmed(all)[i] = all[i + k]
<1> DEFINE new == Trimmed(all)
           Cut(k) == /\ Len(new) + k = Len(all) /\ (all # <<>> => Len(new) # 0)
                     /\ \A i \in 1..Len(new) : i + k \in 1..Len(all) /\ new[i] = all[i + k]
<1>1. MaxSteps \in Nat \ {0} /\ Len(all) \in Nat
  BY CapsAssumption
<1>2. CASE Len(all) > MaxSteps
  <2>1. new = Tail(all) /\ all # <<>>
    BY <1>1, <1>2 DEF Trimmed
  <2>2. /\ Tail(all) \in Seq(RowSet) /\ Len(Tail(all)) = Len(all) - 1
        /\ \A i \in 1..Len(Tail(all)) : i + 1 \in 1..Len(all) /\ Tail(all)[i] = all[i + 1]
    BY <2>1
  <2> HIDE DEF new
  <2>3. /\ new \in Seq(RowSet) /\ Len(new) = Len(all) - 1
        /\ \A i \in 1..Len(new) : i + 1 \in 1..Len(all) /\ new[i] = all[i + 1]
    BY <2>1, <2>2
  <2>4. Len(new) + 1 = Len(all) /\ Len(new) <= MaxSteps /\ Len(new) # 0
    <3>1. PICK n \in Nat : n = Len(all)
      BY <1>1
    <3>2. PICK t \in Nat : t = Len(new)
      BY <2>3
    <3>3. t = n - 1 /\ n <= MaxSteps + 1 /\ n > MaxSteps
      BY <1>2, <2>3, <3>1, <3>2
    <3>4. t + 1 = n /\ t <= MaxSteps /\ t # 0
      BY <1>1, <3>3
    <3> QED
      BY <3>1, <3>2, <3>4
  <2>5. Cut(1)
    BY <2>3, <2>4
  <2> HIDE DEF Cut
  <2>6. new \in Seq(RowSet) /\ Len(new) <= MaxSteps /\ \E k \in {0, 1} : Cut(k)
    BY <2>3, <2>4, <2>5
  <2> QED
    BY <2>6 DEF Cut, new
<1>3. CASE ~(Len(all) > MaxSteps)
  <2>1. new = all /\ Len(all) <= MaxSteps
    BY <1>1, <1>3 DEF Trimmed
  <2>2. all # <<>> => Len(all) # 0
    BY EmptySeq
  <2> HIDE DEF new
  <2>3. Cut(0)
    <3>1. \A i \in 1..Len(all) : i + 0 = i
      BY <1>1
    <3>2. Len(all) + 0 = Len(all)
      BY <1>1
    <3> QED
      BY <2>1, <2>2, <3>1, <3>2
  <2> HIDE DEF Cut
  <2>4. new \in Seq(RowSet) /\ Len(new) <= MaxSteps /\ \E k \in {0, 1} : Cut(k)
    BY <2>1, <2>3
  <2> QED
    BY <2>4 DEF Cut, new
<1> QED
  BY <1>2, <1>3

LEMMA RecordedRows ==
  ASSUME NEW rows \in Seq(RowSet), Len(rows) <= MaxSteps, Increasing(rows), NEW r \in Nat \ {0},
         NEW new, new = Trimmed(Append(rows, [round |-> r, call |-> 1 + MaxCallInRound(rows, r)]))
  PROVE  /\ new \in Seq(RowSet) /\ Len(new) <= MaxSteps /\ Increasing(new)
         /\ MaxCallInRound(new, r) = 1 + MaxCallInRound(rows, r)
         /\ (\A i \in 1..Len(rows) : rows[i].round <= r) =>
              \A i \in 1..Len(new) : new[i].round <= r
<1>1. /\ MaxCallInRound(rows, r) \in Nat
      /\ \A i \in 1..Len(rows) : rows[i].round = r => rows[i].call <= MaxCallInRound(rows, r)
  BY HighestCall
<1>2. PICK top \in Nat : top = MaxCallInRound(rows, r)
  BY <1>1
<1> DEFINE row == [round |-> r, call |-> 1 + top]
           all == Append(rows, row)
           n == Len(rows)
<1>3. row \in RowSet /\ row.round = r /\ row.call = 1 + top
  BY DEF RowSet
<1> HIDE DEF row
<1>4. /\ all \in Seq(RowSet) /\ Len(all) = n + 1 /\ n \in Nat /\ all[n + 1] = row
      /\ \A i \in 1..n : all[i] = rows[i]
  BY <1>3
<1>5. new = Trimmed(all)
  BY <1>2 DEF row
<1> HIDE DEF all
<1>6. MaxSteps \in Nat \ {0} /\ n <= MaxSteps
  BY CapsAssumption
<1> HIDE DEF n
<1>7. Len(all) <= MaxSteps + 1 /\ all # <<>> /\ \A i \in 1..Len(all) : i = n + 1 \/ i \in 1..n
  <2>1. Len(all) # 0 /\ Len(all) <= MaxSteps + 1
    BY <1>4, <1>6
  <2>2. \A i \in 1..Len(all) : i = n + 1 \/ i \in 1..n
    BY <1>4
  <2> QED
    BY <2>1, <2>2
<1>8. \A x \in RowSet : x.call \in Nat /\ x.round \in Nat
  BY DEF RowSet
<1>9. \A i \in 1..n : rows[i].round = r => rows[i].call < 1 + top
  <2> SUFFICES ASSUME NEW i \in 1..n, rows[i].round = r
               PROVE  rows[i].call < 1 + top
    OBVIOUS
  <2>1. rows[i] \in RowSet /\ rows[i].call <= top
    BY <1>1, <1>2 DEF n
  <2>2. PICK a \in Nat : a = rows[i].call
    BY <1>8, <2>1
  <2>3. a < 1 + top
    BY <2>1, <2>2
  <2> QED
    BY <2>2, <2>3
<1>10. \A i, j \in 1..Len(all) :
         i < j /\ all[i].round = all[j].round => all[i].call < all[j].call
  <2> SUFFICES ASSUME NEW i \in 1..Len(all), NEW j \in 1..Len(all), i < j,
                      all[i].round = all[j].round
               PROVE  all[i].call < all[j].call
    OBVIOUS
  <2>1. i \in 1..n /\ all[i] = rows[i]
    BY <1>4, <1>7
  <2>2. CASE j = n + 1
    BY <1>3, <1>4, <1>9, <2>1, <2>2
  <2>3. CASE j \in 1..n
    BY <1>4, <2>1, <2>3 DEF Increasing, n
  <2> QED
    BY <1>7, <2>2, <2>3
<1>11. \A i \in 1..Len(all) : all[i].round = r => all[i].call <= 1 + top
  <2> SUFFICES ASSUME NEW i \in 1..Len(all), all[i].round = r
               PROVE  all[i].call <= 1 + top
    OBVIOUS
  <2>1. CASE i = n + 1
    BY <1>3, <1>4, <2>1
  <2>2. CASE i \in 1..n
    <3>1. rows[i].call < 1 + top /\ rows[i] \in RowSet /\ all[i] = rows[i]
      BY <1>4, <1>9, <2>2 DEF n
    <3>2. PICK a \in Nat : a = rows[i].call
      BY <1>8, <3>1
    <3>3. a <= 1 + top
      BY <3>1, <3>2
    <3> QED
      BY <3>1, <3>2, <3>3
  <2> QED
    BY <1>7, <2>1, <2>2
<1>12. PICK k \in {0, 1} :
         /\ Len(new) + k = Len(all) /\ Len(new) # 0
         /\ \A i \in 1..Len(new) : i + k \in 1..Len(all) /\ new[i] = all[i + k]
  BY <1>4, <1>5, <1>7, TrimmedRows
<1>13. new \in Seq(RowSet) /\ Len(new) <= MaxSteps
  BY <1>4, <1>5, <1>7, TrimmedRows
<1>14. Increasing(new)
  <2> SUFFICES ASSUME NEW i \in 1..Len(new), NEW j \in 1..Len(new), i < j,
                      new[i].round = new[j].round
               PROVE  new[i].call < new[j].call
    BY DEF Increasing
  <2>1. i + k < j + k
    BY <1>12
  <2> QED
    BY <1>10, <1>12, <2>1
<1>15. MaxCallInRound(new, r) = 1 + top
  <2>1. /\ MaxCallInRound(new, r) \in Nat
        /\ \A i \in 1..Len(new) : new[i].round = r => new[i].call <= MaxCallInRound(new, r)
        /\ MaxCallInRound(new, r) \in CallsIn(new, r) \union {0}
    BY <1>13, HighestCall
  <2>2. PICK m \in Nat : m = MaxCallInRound(new, r)
    BY <2>1
  <2>3. 1 + top <= m
    <3>1. PICK l \in Nat : l = Len(new)
      BY <1>13
    <3>2. l \in 1..l /\ l + k = n + 1
      BY <1>4, <1>12, <3>1
    <3>3. new[l] = row
      BY <1>4, <1>12, <3>1, <3>2
    <3> QED
      BY <1>3, <2>1, <2>2, <3>1, <3>2, <3>3
  <2>4. m <= 1 + top
    <3>1. CASE m = 0
      BY <3>1
    <3>2. CASE m # 0
      <4>1. PICK i \in DOMAIN new : new[i].round = r /\ m = new[i].call
        BY <2>1, <2>2, <3>2 DEF CallsIn
      <4>2. i \in 1..Len(new)
        BY <1>13, <4>1
      <4> QED
        BY <1>11, <1>12, <4>1, <4>2
    <3> QED
      BY <3>1, <3>2
  <2>5. m = 1 + top
    BY <2>3, <2>4
  <2> QED
    BY <2>2, <2>5
<1>16. ASSUME \A i \in 1..Len(rows) : rows[i].round <= r
       PROVE  \A i \in 1..Len(new) : new[i].round <= r
  <2>1. \A i \in 1..Len(all) : all[i].round <= r
    <3> SUFFICES ASSUME NEW i \in 1..Len(all)
                 PROVE  all[i].round <= r
      OBVIOUS
    <3>1. CASE i = n + 1
      BY <1>3, <1>4, <3>1
    <3>2. CASE i \in 1..n
      BY <1>4, <1>16, <3>2 DEF n
    <3> QED
      BY <1>7, <3>1, <3>2
  <2> QED
    BY <1>12, <2>1
<1> QED
  BY <1>2, <1>13, <1>14, <1>15, <1>16

-----------------------------------------------------------------------------
(* The notes not consumed yet.                                             *)
Ids       == Nat \ {0}
Rising(q) == \A i, j \in 1..Len(q) : i < j => q[i] < q[j]
InOrder(notes) == \A i, j \in 1..Len(notes) : i < j => notes[i].id < notes[j].id

LEMMA RisesFurther ==
  ASSUME NEW q \in Seq(Ids), Rising(q), NEW x \in Ids, \A i \in 1..Len(q) : q[i] < x
  PROVE  Rising(q \o <<x>>)
<1> DEFINE all == q \o <<x>>
           n == Len(q)
<1>1. /\ all \in Seq(Ids) /\ Len(all) = n + 1 /\ n \in Nat /\ all[n + 1] = x
      /\ \A i \in 1..n : all[i] = q[i]
  OBVIOUS
<1> HIDE DEF all, n
<1>2. \A i \in 1..Len(all) : i = n + 1 \/ i \in 1..n
  BY <1>1
<1>3. ASSUME NEW i \in 1..Len(all), NEW j \in 1..Len(all), i < j
      PROVE  all[i] < all[j]
  <2>1. i \in 1..n /\ all[i] = q[i]
    BY <1>1, <1>2, <1>3
  <2>2. CASE j = n + 1
    BY <1>1, <2>1, <2>2 DEF n
  <2>3. CASE j \in 1..n
    BY <1>1, <1>3, <2>1, <2>3 DEF Rising, n
  <2> QED
    BY <1>2, <2>2, <2>3
<1>4. Rising(all)
  BY <1>3 DEF Rising
<1> QED
  BY <1>4 DEF all

LEMMA PendingNotes ==
  ASSUME NEW notes \in Seq(NoteSet)
  PROVE  /\ Pending(notes) \in Seq(Ids)
         /\ Pending(notes) = <<>> => \A i \in 1..Len(notes) : notes[i].consumed
         /\ \A k \in 1..Len(Pending(notes)) : \E i \in 1..Len(notes) :
              ~notes[i].consumed /\ Pending(notes)[k] = notes[i].id
         /\ InOrder(notes) => Rising(Pending(notes))
<1> DEFINE n == Len(notes)
           s == [i \in DOMAIN notes |-> IF notes[i].consumed THEN <<>> ELSE <<notes[i].id>>]
<1>1. n \in Nat /\ DOMAIN notes = 1..n /\ \A i \in 1..n : notes[i] \in NoteSet
  OBVIOUS
<1>2. \A i \in 1..n : notes[i].id \in Ids /\ notes[i].consumed \in BOOLEAN
  <2>1. \A x \in NoteSet : x.id \in Ids /\ x.consumed \in BOOLEAN
    BY DEF NoteSet, Ids
  <2> QED
    BY <1>1, <2>1
<1>3. Pending(notes) = FlattenSeq(s)
  BY DEF Pending
<1>4. /\ DOMAIN s = 1..n
      /\ \A i \in 1..n : s[i] = IF notes[i].consumed THEN <<>> ELSE <<notes[i].id>>
  BY <1>1
<1>5. s \in Seq(Seq(Ids)) /\ Len(s) = n
  <2>1. \A i \in 1..n : s[i] \in Seq(Ids)
    <3> SUFFICES ASSUME NEW i \in 1..n
                 PROVE  s[i] \in Seq(Ids)
      OBVIOUS
    <3>1. PICK x \in Ids : x = notes[i].id
      BY <1>2
    <3>2. <<>> \in Seq(Ids) /\ <<x>> \in Seq(Ids)
      OBVIOUS
    <3> HIDE DEF s
    <3> QED
      BY <1>4, <3>1, <3>2
  <2>2. s = [i \in 1..n |-> s[i]]
    BY <1>1
  <2> HIDE DEF s, n
  <2>3. s \in [1..n -> Seq(Ids)]
    BY <2>1, <2>2
  <2> QED
    BY <1>1, <2>3
<1> HIDE DEF s
<1>6. CASE n = 0
  <2>1. s = <<>>
    <3> HIDE DEF n
    <3> QED
      BY <1>5, <1>6, EmptySeq
  <2>2. Pending(notes) = <<>>
    BY <1>3, <2>1 DEF FlattenSeq
  <2>3. <<>> \in Seq(Ids) /\ Len(<<>>) = 0 /\ Rising(<<>>)
    BY DEF Rising
  <2>4. \A i \in 1..n : FALSE
    <3> HIDE DEF n
    <3> QED
      BY <1>6
  <2> QED
    BY <2>2, <2>3, <2>4
<1>7. CASE n # 0
  <2> DEFINE fl == CHOOSE f : Flattens(f, s, n)
             Upto(i) == /\ fl[i] \in Seq(Ids)
                        /\ fl[i] = <<>> => \A j \in 1..i : notes[j].consumed
                        /\ \A k \in 1..Len(fl[i]) : \E j \in 1..i :
                             ~notes[j].consumed /\ fl[i][k] = notes[j].id
                        /\ InOrder(notes) => Rising(fl[i])
             Bad == {i \in 1..n : ~Upto(i)}
  <2> HIDE DEF n
  <2>1. n \in Nat \ {0}
    BY <1>1, <1>7
  <2>2. Pending(notes) = fl[n]
    BY <1>3, <1>5, <1>7 DEF FlattenSeq, Flattens
  <2>3. Flattens(fl, s, n)
    BY <2>1, FlatteningExists
  <2> HIDE DEF fl
  <2>4. Bad = {}
    <3> SUFFICES ASSUME Bad # {}
                 PROVE  FALSE
      OBVIOUS
    <3>1. PICK m \in Bad : \A k \in Bad : m <= k
      <4>1. Bad \subseteq Nat
        BY <2>1
      <4> HIDE DEF Bad
      <4> QED
        BY <4>1, Least
    <3>2. m \in 1..n /\ ~Upto(m)
      OBVIOUS
    <3>3. fl[m] = IF m = 1 THEN s[m] ELSE fl[m - 1] \o s[m]
      BY <2>3, <3>2 DEF Flattens
    <3>4. PICK x \in Ids : x = notes[m].id
      BY <1>2, <3>2
    <3>5. s[m] = IF notes[m].consumed THEN <<>> ELSE <<x>>
      BY <1>4, <3>2, <3>4
    <3>6. CASE m = 1
      <4>1. fl[m] = s[m]
        BY <3>3, <3>6
      <4>2. CASE notes[m].consumed
        <5>1. fl[m] = <<>> /\ <<>> \in Seq(Ids) /\ Len(<<>>) = 0 /\ Rising(<<>>)
          BY <3>5, <4>1, <4>2 DEF Rising
        <5>2. \A j \in 1..m : notes[j].consumed
          BY <3>6, <4>2
        <5>3. \A k \in 1..Len(fl[m]) : FALSE
          BY <5>1
        <5> QED
          BY <3>2, <5>1, <5>2, <5>3
      <4>3. CASE ~notes[m].consumed
        <5>1. fl[m] = <<x>>
          BY <3>5, <4>1, <4>3
        <5>2. /\ <<x>> \in Seq(Ids) /\ <<x>> # <<>> /\ Rising(<<x>>) /\ m \in 1..m
              /\ \A k \in 1..Len(<<x>>) : <<x>>[k] = x
          BY <3>6 DEF Rising
        <5> QED
          BY <3>2, <3>4, <4>3, <5>1, <5>2
      <4> QED
        BY <4>2, <4>3
    <3>7. CASE m # 1
      <4>1. m - 1 \in 1..n /\ m \in Nat /\ m - 1 \in Nat /\ m - 1 < m
        BY <2>1, <3>2, <3>7
      <4>2. Upto(m - 1)
        <5>1. m - 1 \notin Bad
          <6> HIDE DEF Bad
          <6> QED
            BY <3>1, <4>1
        <5> HIDE DEF Upto
        <5> QED
          BY <4>1, <5>1
      <4>3. PICK q \in Seq(Ids) : q = fl[m - 1]
        BY <4>2
      <4>4. /\ q = <<>> => \A j \in 1..(m - 1) : notes[j].consumed
            /\ \A k \in 1..Len(q) : \E j \in 1..(m - 1) :
                 ~notes[j].consumed /\ q[k] = notes[j].id
            /\ InOrder(notes) => Rising(q)
        BY <4>2, <4>3
      <4>5. fl[m] = q \o s[m]
        BY <3>3, <3>7, <4>3
      <4>6. \A j \in 1..m : j = m \/ j \in 1..(m - 1)
        BY <4>1
      <4>7. \A j \in 1..(m - 1) : j \in 1..m /\ j \in 1..n /\ j < m
        BY <2>1, <3>2, <4>1
      <4>8. CASE notes[m].consumed
        <5>1. fl[m] = q
          <6>1. q \o <<>> = q
            BY ConcatProperties
          <6> QED
            BY <3>5, <4>5, <4>8, <6>1
        <5>2. Upto(m)
          BY <4>4, <4>6, <4>7, <4>8, <5>1
        <5> QED
          BY <3>2, <5>2
      <4>9. CASE ~notes[m].consumed
        <5> DEFINE all == q \o <<x>>
        <5>1. /\ all \in Seq(Ids) /\ Len(all) = Len(q) + 1 /\ Len(q) \in Nat /\ all[Len(q) + 1] = x
              /\ \A i \in 1..Len(q) : all[i] = q[i]
          OBVIOUS
        <5>2. all # <<>>
          OBVIOUS
        <5>3. fl[m] = all
          BY <3>5, <4>5, <4>9
        <5>4. InOrder(notes) => Rising(all)
          <6> SUFFICES ASSUME InOrder(notes)
                       PROVE  Rising(all)
            OBVIOUS
          <6>1. \A j \in 1..(m - 1) : notes[j].id < x
            BY <3>2, <3>4, <4>7 DEF InOrder, n
          <6>2. \A i \in 1..Len(q) : q[i] < x
            BY <4>4, <6>1
          <6> QED
            BY <4>4, <6>2, RisesFurther
        <5> HIDE DEF all
        <5>5. \A k \in 1..Len(all) : \E j \in 1..m : ~notes[j].consumed /\ all[k] = notes[j].id
          <6> SUFFICES ASSUME NEW k \in 1..Len(all)
                       PROVE  \E j \in 1..m : ~notes[j].consumed /\ all[k] = notes[j].id
            OBVIOUS
          <6>1. k = Len(q) + 1 \/ k \in 1..Len(q)
            BY <5>1
          <6>2. CASE k = Len(q) + 1
            <7>1. m \in 1..m
              BY <3>2, <2>1
            <7> QED
              BY <3>4, <4>9, <5>1, <6>2, <7>1
          <6>3. CASE k \in 1..Len(q)
            BY <4>4, <4>7, <5>1, <6>3
          <6> QED
            BY <6>1, <6>2, <6>3
        <5>6. Upto(m)
          BY <5>1, <5>2, <5>3, <5>4, <5>5
        <5> QED
          BY <3>2, <5>6
      <4> QED
        BY <4>8, <4>9
    <3> QED
      BY <3>6, <3>7
  <2>5. Upto(n)
    <3> HIDE DEF Upto
    <3>1. n \in 1..n
      BY <2>1
    <3> QED
      BY <2>4, <3>1
  <2> QED
    BY <2>2, <2>5 DEF n
<1> QED
  BY <1>6, <1>7

-----------------------------------------------------------------------------
(* The type invariant, with what it takes to keep it: no thread but a tool *)
(* of the round records a call, and no round begins beyond the last; and,  *)
(* in every copy of the snapshot, the calls of a round are in their order. *)
GoodSteer(s) == s \in Steers /\ Len(s.notes) <= NotesCap
GoodSnap(s)  == s \in Snaps /\ Len(s.steps) <= MaxSteps /\ Increasing(s.steps)
GoodSeat(x)  == x \in Seats /\ GoodSteer(x.steer) /\ GoodSnap(x.snap)
Limits == [Kinds \union {"attempt", "call", "touch", "prune", "kill"} -> Nat]
Pasts  == [given : Nat, handed : Seq(Nat \ {0}), made : Nat, pending : BOOLEAN,
           late : Nat, unlinked : BOOLEAN]
Before == {"bind", "boundary", "forced", "deliver", "start"}
AtRest == \A t \in Tools : at[t] = Idle

TypeInv ==
  /\ file \in Inodes \union {0} /\ round \in 0..MaxRounds
  /\ leased \in BOOLEAN /\ beating \in BOOLEAN
  /\ GoodSteer(steer) /\ GoodSnap(snap)
  /\ at \in [Procs -> Seats] /\ \A p \in Procs : GoodSeat(at[p])
  /\ budget \in Limits /\ past \in Pasts
  /\ at[Main].job \in Before => round < MaxRounds
  /\ \A t \in Tools : at[t] = Idle \/ (at[t].job = "record" /\ at[Main].job = "tools")

LEMMA GoodEmpty == GoodSteer(NoSteer) /\ GoodSnap(NoSnap)
<1>1. <<>> \in Seq(NoteSet) /\ <<>> \in Seq(RowSet) /\ Len(<<>>) = 0
  OBVIOUS
<1>2. NotesCap \in Nat /\ MaxSteps \in Nat
  BY CapsAssumption
<1> QED
  BY <1>1, <1>2 DEF GoodSteer, GoodSnap, NoSteer, NoSnap, Steers, Snaps, Increasing

LEMMA GoodIdle ==
  /\ GoodSeat(Idle) /\ Idle.job = "idle"
  /\ \A job \in Jobs : /\ GoodSeat(Wants(job)) /\ Wants(job).job = job
                       /\ GoodSeat([Idle EXCEPT !.job = job])
                       /\ [Idle EXCEPT !.job = job].job = job
<1>1. Idle = [job |-> "idle", step |-> "none", fd |-> 0, steer |-> NoSteer, snap |-> NoSnap]
  BY DEF Idle
<1>2. NoSteer \in Steers /\ NoSnap \in Snaps /\ "idle" \in Jobs
  BY GoodEmpty DEF GoodSteer, GoodSnap, Jobs
<1>3. Idle \in Seats /\ Idle.steer = NoSteer /\ Idle.snap = NoSnap
  BY <1>1, <1>2 DEF Seats
<1>4. GoodSeat(Idle)
  BY <1>3, GoodEmpty DEF GoodSeat
<1>5. ASSUME NEW job \in Jobs
      PROVE  /\ [Idle EXCEPT !.job = job] \in Seats
             /\ [Idle EXCEPT !.job = job].steer = NoSteer
             /\ [Idle EXCEPT !.job = job].snap = NoSnap
             /\ Wants(job) \in Seats /\ Wants(job).steer = NoSteer /\ Wants(job).snap = NoSnap
             /\ Wants(job).job = job /\ [Idle EXCEPT !.job = job].job = job
  BY <1>1, <1>2 DEF Seats, Wants
<1> QED
  BY <1>1, <1>4, <1>5, GoodEmpty DEF GoodSeat

(* One thread moves.                                                       *)
LEMMA TypeStep ==
  ASSUME TypeInv, NEW p \in Procs, NEW s, Become(p, s), GoodSeat(s),
         GoodSteer(steer'), GoodSnap(snap'), file' \in Inodes \union {0}, round' \in 0..MaxRounds,
         leased' \in BOOLEAN, beating' \in BOOLEAN, budget' \in Limits, past' \in Pasts,
         p # Main => round' = round,
         p = Main => \/ s.job = at[Main].job /\ round' = round
                     \/ /\ at[Main].job # "tools" \/ AtRest
                        /\ s.job \in Before => round' < MaxRounds,
         p \in Tools => s = Idle \/ (s.job = at[p].job /\ at[p] # Idle)
  PROVE  TypeInv'
<1>1. at' = [at EXCEPT ![p] = s] /\ at \in [Procs -> Seats] /\ s \in Seats
  BY DEF TypeInv, Become, GoodSeat
<1>2. at' \in [Procs -> Seats] /\ at'[p] = s /\ \A q \in Procs : q # p => at'[q] = at[q]
  BY <1>1
<1>3. \A q \in Procs : GoodSeat(at'[q])
  BY <1>2 DEF TypeInv
<1>4. Main \in Procs /\ Tools \subseteq Procs /\ Main \notin Tools
  BY ProcNames
<1>5. at'[Main].job \in Before => round' < MaxRounds
  <2>1. CASE p = Main
    BY <1>2, <2>1 DEF TypeInv
  <2>2. CASE p # Main
    BY <1>2, <1>4, <2>2 DEF TypeInv
  <2> QED
    BY <2>1, <2>2
<1>6. ASSUME NEW t \in Tools
      PROVE  at'[t] = Idle \/ (at'[t].job = "record" /\ at'[Main].job = "tools")
  <2>1. at[t] = Idle \/ (at[t].job = "record" /\ at[Main].job = "tools")
    BY DEF TypeInv
  <2>2. CASE p = Main
    <3>1. at'[t] = at[t] /\ at'[Main] = s
      BY <1>2, <1>4, <2>2
    <3> QED
      BY <2>1, <2>2, <3>1 DEF AtRest
  <2>3. CASE p # Main
    <3>1. at'[Main] = at[Main]
      BY <1>2, <1>4, <2>3
    <3>2. CASE p = t
      BY <1>2, <2>1, <3>1, <3>2
    <3>3. CASE p # t
      BY <1>2, <1>4, <2>1, <3>1, <3>3
    <3> QED
      BY <3>2, <3>3
  <2> QED
    BY <2>2, <2>3
<1> QED
  BY <1>2, <1>3, <1>5, <1>6 DEF TypeInv

LEMMA SpendTyped ==
  ASSUME budget \in Limits, NEW what \in DOMAIN budget, Spend(what) PROVE budget' \in Limits
<1>1. budget[what] \in Nat /\ budget[what] > 0
  BY DEF Limits, Spend
<1>2. PICK n \in Nat : n = budget[what] - 1
  BY <1>1
<1>3. budget' = [budget EXCEPT ![what] = n]
  BY <1>2 DEF Spend
<1> QED
  BY <1>3 DEF Limits

LEMMA LimitNames ==
  budget \in Limits =>
    DOMAIN budget = {"note", "force", "abort", "attempt", "call", "touch", "prune", "kill"}
BY DEF Limits, Kinds

(* What is written.                                                        *)
LEMMA RecordedTyped ==
  ASSUME NEW s, GoodSnap(s), round \in 0..MaxRounds
  PROVE  GoodSnap(Recorded(s)) /\ ThisRound \in Nat \ {0}
<1>1. ThisRound \in Nat \ {0}
  BY CapsAssumption DEF ThisRound
<1>2. s.steps \in Seq(RowSet) /\ Len(s.steps) <= MaxSteps /\ Increasing(s.steps)
  BY DEF GoodSnap, Snaps
<1> DEFINE rows == s.steps
           r == ThisRound
           new == Trimmed(Append(rows, [round |-> r, call |-> 1 + MaxCallInRound(rows, r)]))
<1>3. Recorded(s) = [phase |-> "running", steps |-> new]
  BY DEF Recorded
<1>4. rows \in Seq(RowSet) /\ Len(rows) <= MaxSteps /\ Increasing(rows) /\ r \in Nat \ {0}
  BY <1>1, <1>2
<1> HIDE DEF rows, r
<1>5. new \in Seq(RowSet) /\ Len(new) <= MaxSteps /\ Increasing(new)
  BY <1>4, RecordedRows
<1> HIDE DEF new
<1>6. GoodSnap([phase |-> "running", steps |-> new])
  BY <1>5 DEF GoodSnap, Snaps
<1> QED
  BY <1>1, <1>3, <1>6

LEMMA KeptNotes ==
  ASSUME NEW notes \in Seq(NoteSet), Len(notes) <= NotesCap, NEW new \in NoteSet
  PROVE  LET more == LastNotes(Append(notes, new))
         IN  /\ more \in Seq(NoteSet) /\ Len(more) <= NotesCap
             /\ \A i \in 1..Len(more) : more[i] = new \/ \E j \in 1..Len(notes) : more[i] = notes[j]
<1> DEFINE all == Append(notes, new)
           more == LastNotes(all)
<1>1. /\ all \in Seq(NoteSet) /\ Len(all) = Len(notes) + 1 /\ Len(notes) \in Nat
      /\ \A i \in 1..Len(notes) : all[i] = notes[i]
      /\ all[Len(notes) + 1] = new
  OBVIOUS
<1> HIDE DEF all
<1>2. NotesCap \in Nat \ {0}
  BY CapsAssumption
<1>3. \A i \in 1..Len(all) : all[i] = new \/ \E j \in 1..Len(notes) : all[i] = notes[j]
  <2>1. \A i \in 1..Len(all) : i = Len(notes) + 1 \/ i \in 1..Len(notes)
    BY <1>1
  <2> QED
    BY <1>1, <2>1
<1>4. CASE Len(all) > NotesCap
  <2>1. more = Tail(all) /\ all # <<>>
    BY <1>1, <1>2, <1>4 DEF LastNotes
  <2>2. /\ Tail(all) \in Seq(NoteSet) /\ Len(Tail(all)) = Len(all) - 1
        /\ \A i \in 1..Len(Tail(all)) : i + 1 \in 1..Len(all) /\ Tail(all)[i] = all[i + 1]
    BY <1>1, <2>1
  <2>3. Len(Tail(all)) <= NotesCap
    BY <1>1, <1>2, <2>2
  <2> HIDE DEF more
  <2>4. /\ more \in Seq(NoteSet) /\ Len(more) <= NotesCap
        /\ \A i \in 1..Len(more) : more[i] = new \/ \E j \in 1..Len(notes) : more[i] = notes[j]
    BY <1>3, <2>1, <2>2, <2>3
  <2> QED
    BY <2>4 DEF more, all
<1>5. CASE ~(Len(all) > NotesCap)
  <2>1. more = all /\ Len(all) <= NotesCap
    BY <1>1, <1>2, <1>5 DEF LastNotes
  <2> HIDE DEF more
  <2>2. /\ more \in Seq(NoteSet) /\ Len(more) <= NotesCap
        /\ \A i \in 1..Len(more) : more[i] = new \/ \E j \in 1..Len(notes) : more[i] = notes[j]
    BY <1>1, <1>3, <2>1
  <2> QED
    BY <2>2 DEF more, all
<1> QED
  BY <1>4, <1>5

LEMMA CallsCounted ==
  ASSUME NEW steps \in Seq(RowSet), NEW r PROVE Cardinality(CallsIn(steps, r)) \in Nat
<1> DEFINE D == {j \in DOMAIN steps : steps[j].round = r}
           C == CallsIn(steps, r)
           f == [j \in D |-> steps[j].call]
<1>1. IsFiniteSet(D)
  <2>1. Len(steps) \in Nat /\ DOMAIN steps = 1..Len(steps)
    OBVIOUS
  <2>2. IsFiniteSet(1..Len(steps))
    BY <2>1, FS_Interval
  <2>3. D \subseteq 1..Len(steps)
    BY <2>1
  <2> HIDE DEF D
  <2> QED
    BY <2>2, <2>3, FS_Subset
<1>2. C = {steps[j].call : j \in D}
  BY DEF CallsIn
<1>3. f \in Surjection(D, C)
  <2> HIDE DEF D, C
  <2>1. f \in [D -> C]
    BY <1>2
  <2>2. \A c \in C : \E j \in D : f[j] = c
    BY <1>2
  <2> QED
    BY <2>1, <2>2 DEF Surjection
<1> HIDE DEF D, C, f
<1>4. IsFiniteSet(C)
  BY <1>1, <1>3, FS_Surjection
<1>5. Cardinality(C) \in Nat
  BY <1>4, FS_CardinalityType
<1> QED
  BY <1>5 DEF C

-----------------------------------------------------------------------------
(* Every step keeps the type invariant.                                    *)
LEMMA SeatParts ==
  ASSUME TypeInv, NEW p \in Procs
  PROVE  /\ at[p] \in Seats /\ GoodSteer(at[p].steer) /\ GoodSnap(at[p].snap)
         /\ at[p].fd \in Inodes \union {0} /\ at[p].job \in Jobs
<1>1. GoodSeat(at[p])
  BY DEF TypeInv
<1> QED
  BY <1>1 DEF GoodSeat, Seats

LEMMA TypeLock ==
  ASSUME TypeInv, NEW p \in Procs, Open(p) \/ Lock(p) PROVE TypeInv'
<1> DEFINE opened == [at[p] EXCEPT !.step = "wait", !.fd = file']
           locked == [at[p] EXCEPT !.step = "held", !.steer = steer, !.snap = snap]
<1>1. /\ at[p] \in Seats /\ GoodSteer(at[p].steer) /\ GoodSnap(at[p].snap)
      /\ at[p].step # "none" /\ at[p] # Idle
      /\ UNCHANGED <<steer, snap, leased, round, beating, budget, past>>
  BY SeatParts DEF Open, Lock, Idle
<1>2. CASE Open(p)
  <2>1. Become(p, opened) /\ file' \in Inodes \union {0}
    BY <1>2, InodeFree DEF Open, TypeInv
  <2>2. /\ opened \in Seats /\ opened.job = at[p].job
        /\ opened.steer = at[p].steer /\ opened.snap = at[p].snap
    BY <1>1, <2>1 DEF Seats
  <2> HIDE DEF opened
  <2>3. GoodSeat(opened)
    BY <1>1, <2>2 DEF GoodSeat
  <2> QED
    BY <1>1, <2>1, <2>2, <2>3, TypeStep DEF TypeInv
<1>3. CASE Lock(p)
  <2>1. Become(p, locked) /\ file' = file
    BY <1>3 DEF Lock
  <2>2. GoodSteer(steer) /\ GoodSnap(snap) /\ steer \in Steers /\ snap \in Snaps
    BY DEF TypeInv, GoodSteer, GoodSnap
  <2>3. /\ locked \in Seats /\ locked.job = at[p].job
        /\ locked.steer = steer /\ locked.snap = snap
    BY <1>1, <2>2 DEF Seats
  <2> HIDE DEF locked
  <2>4. GoodSeat(locked)
    BY <2>2, <2>3 DEF GoodSeat
  <2> QED
    BY <1>1, <2>1, <2>3, <2>4, TypeStep DEF TypeInv
<1> QED
  BY <1>2, <1>3

(* Where the main thread goes.                                             *)
LEMMA MainGoes ==
  ASSUME TypeInv, NEW job \in Jobs, NEW s, s = Wants(job) \/ s = [Idle EXCEPT !.job = job],
         Become(Main, s), GoodSteer(steer'), GoodSnap(snap'), UNCHANGED file,
         round' \in 0..MaxRounds, leased' \in BOOLEAN, beating' \in BOOLEAN,
         budget' \in Limits, past' \in Pasts,
         at[Main].job # "tools" \/ AtRest,
         job \in Before => round' < MaxRounds
  PROVE  TypeInv'
<1>1. GoodSeat(s) /\ s.job = job
  BY GoodIdle
<1> QED
  BY <1>1, ProcNames, TypeStep DEF TypeInv

LEMMA PastTyped ==
  past \in Pasts =>
    /\ past.given \in Nat /\ past.handed \in Seq(Nat \ {0}) /\ past.made \in Nat
    /\ past.late \in Nat /\ past.pending \in BOOLEAN /\ past.unlinked \in BOOLEAN
    /\ [past EXCEPT !.late = 0] \in Pasts
    /\ [past EXCEPT !.pending = FALSE, !.late = 0] \in Pasts
    /\ [past EXCEPT !.pending = TRUE] \in Pasts
<1> SUFFICES ASSUME past \in Pasts
             PROVE  /\ past.given \in Nat /\ past.handed \in Seq(Nat \ {0}) /\ past.made \in Nat
                    /\ past.late \in Nat /\ past.pending \in BOOLEAN /\ past.unlinked \in BOOLEAN
                    /\ [past EXCEPT !.late = 0] \in Pasts
                    /\ [past EXCEPT !.pending = FALSE, !.late = 0] \in Pasts
                    /\ [past EXCEPT !.pending = TRUE] \in Pasts
  OBVIOUS
<1>1. /\ past.given \in Nat /\ past.handed \in Seq(Nat \ {0}) /\ past.made \in Nat
      /\ past.late \in Nat /\ past.pending \in BOOLEAN /\ past.unlinked \in BOOLEAN
  BY DEF Pasts
<1>2. [past EXCEPT !.late = 0] \in Pasts
  BY DEF Pasts
<1>3. [past EXCEPT !.pending = FALSE, !.late = 0] \in Pasts
  BY DEF Pasts
<1>4. [past EXCEPT !.pending = TRUE] \in Pasts
  BY DEF Pasts
<1> QED
  BY <1>1, <1>2, <1>3, <1>4

LEMMA PastSet ==
  ASSUME past \in Pasts, NEW n \in Nat, NEW b \in BOOLEAN, NEW q \in Seq(Nat \ {0})
  PROVE  /\ [past EXCEPT !.made = n] \in Pasts /\ [past EXCEPT !.given = n] \in Pasts
         /\ [past EXCEPT !.handed = q] \in Pasts /\ [past EXCEPT !.unlinked = b] \in Pasts
BY DEF Pasts

LEMMA TypeAttempt ==
  ASSUME TypeInv, Attempt \/ BindTask \/ Deliver PROVE TypeInv'
<1>0. /\ GoodSteer(steer) /\ GoodSnap(snap) /\ round \in 0..MaxRounds /\ past \in Pasts
      /\ budget \in Limits /\ leased \in BOOLEAN /\ beating \in BOOLEAN
      /\ at[Main].job \in Before => round < MaxRounds
  BY DEF TypeInv
<1>1. CASE Attempt
  <2>1. /\ Become(Main, Wants("bind")) /\ UNCHANGED <<file, steer, snap, beating>>
        /\ round' = 0 /\ leased' = TRUE /\ Spend("attempt") /\ at[Main] = Idle
        /\ past' = [past EXCEPT !.late = 0]
    BY <1>1 DEF Attempt
  <2>2. budget' \in Limits
    BY <1>0, <2>1, SpendTyped, LimitNames
  <2>3. past' \in Pasts
    BY <1>0, <2>1, PastTyped
  <2>4. 0 \in 0..MaxRounds /\ 0 < MaxRounds
    BY CapsAssumption
  <2>5. at[Main].job # "tools" /\ "bind" \in Jobs
    BY <2>1, GoodIdle DEF Jobs
  <2> QED
    BY <1>0, <2>1, <2>2, <2>3, <2>4, <2>5, MainGoes
<1>2. CASE BindTask
  <2>1. /\ Become(Main, Wants("boundary")) /\ at[Main].job = "bind"
        /\ snap' = [phase |-> "running", steps |-> <<>>]
        /\ UNCHANGED <<file, steer, leased, round, beating, budget, past>>
    BY <1>2 DEF BindTask, Holds
  <2>2. GoodSnap(snap')
    <3>1. <<>> \in Seq(RowSet) /\ Len(<<>>) = 0 /\ MaxSteps \in Nat /\ Len(<<>>) <= MaxSteps
      BY CapsAssumption
    <3> QED
      BY <2>1, <3>1 DEF GoodSnap, Snaps, Increasing
  <2>3. "boundary" \in Jobs /\ round < MaxRounds
    BY <1>0, <2>1 DEF Jobs, Before
  <2> QED
    BY <1>0, <2>1, <2>2, <2>3, MainGoes
<1>3. CASE Deliver
  <2>1. /\ Become(Main, Wants("start")) /\ at[Main].job = "deliver"
        /\ past' = [past EXCEPT !.handed = past.handed \o Pending(at[Main].steer.notes)]
        /\ UNCHANGED <<file, steer, snap, leased, round, beating, budget>>
    BY <1>3 DEF Deliver
  <2>2. at[Main].steer.notes \in Seq(NoteSet)
    BY SeatParts, ProcNames DEF GoodSteer, Steers
  <2>3. Pending(at[Main].steer.notes) \in Seq(Nat \ {0})
    BY <2>2, PendingNotes DEF Ids
  <2>4. past.handed \o Pending(at[Main].steer.notes) \in Seq(Nat \ {0})
    BY <1>0, <2>3, PastTyped, ConcatProperties
  <2>5. past' \in Pasts
    <3> DEFINE q == past.handed \o Pending(at[Main].steer.notes)
    <3>1. q \in Seq(Nat \ {0}) /\ past' = [past EXCEPT !.handed = q]
      BY <2>1, <2>4
    <3> HIDE DEF q
    <3> QED
      BY <1>0, <3>1, PastSet
  <2>6. "start" \in Jobs /\ round < MaxRounds
    BY <1>0, <2>1 DEF Jobs, Before
  <2> QED
    BY <1>0, <2>1, <2>5, <2>6, MainGoes
<1> QED
  BY <1>1, <1>2, <1>3

LEMMA TypeBoundary ==
  ASSUME TypeInv, RoundBoundary PROVE TypeInv'
<1> DEFINE s == at[Main].steer
<1>1. /\ at[Main].job = "boundary" /\ at[Main].step = "held"
      /\ UNCHANGED <<file, snap, leased, round, beating, budget>>
  BY DEF RoundBoundary, Holds
<1>2. /\ GoodSteer(steer) /\ GoodSnap(snap) /\ round \in 0..MaxRounds /\ past \in Pasts
      /\ file \in Inodes \union {0}
      /\ budget \in Limits /\ leased \in BOOLEAN /\ beating \in BOOLEAN /\ round < MaxRounds
  BY <1>1 DEF TypeInv, Before
<1>3. GoodSteer(s) /\ Main \in Procs /\ Main \notin Tools /\ at[Main] \in Seats
  BY SeatParts, ProcNames
<1>4. s \in Steers /\ s.notes \in Seq(NoteSet) /\ Len(s.notes) <= NotesCap
  BY <1>3 DEF GoodSteer, Steers
<1>5. CASE s.abort = "asked"
  <2>1. /\ steer' = [s EXCEPT !.abort = "seen"] /\ Become(Main, Wants("unbind"))
        /\ past' = [past EXCEPT !.pending = FALSE, !.late = 0]
    BY <1>5 DEF RoundBoundary
  <2> HIDE DEF s
  <2>2. GoodSteer(steer')
    BY <1>4, <2>1 DEF GoodSteer, Steers
  <2>3. past' \in Pasts /\ "unbind" \in Jobs /\ "unbind" \notin Before
    BY <1>2, <2>1, PastTyped DEF Jobs, Before
  <2> QED
    BY <1>1, <1>2, <2>1, <2>2, <2>3, MainGoes
<1>6. CASE s.abort # "asked" /\ s.force = "asked"
  <2> DEFINE t == [at[Main] EXCEPT !.job = "forced", !.steer = steer', !.snap = snap]
  <2>1. /\ steer' = [s EXCEPT !.force = "applied"] /\ Become(Main, t) /\ UNCHANGED past
    BY <1>6 DEF RoundBoundary
  <2> HIDE DEF s
  <2>2. GoodSteer(steer') /\ steer' \in Steers
    BY <1>4, <2>1 DEF GoodSteer, Steers
  <2>3. snap \in Snaps /\ "forced" \in Jobs
    BY <1>2 DEF GoodSnap, Jobs
  <2>4. t \in Seats /\ t.steer = steer' /\ t.snap = snap /\ t.job = "forced"
    BY <1>3, <2>2, <2>3 DEF Seats
  <2> HIDE DEF t
  <2>5. GoodSeat(t)
    BY <1>2, <2>2, <2>4 DEF GoodSeat
  <2> QED
    BY <1>1, <1>2, <1>3, <2>1, <2>2, <2>4, <2>5, TypeStep
<1>7. CASE s.abort # "asked" /\ s.force # "asked"
  <2> DEFINE t == [Idle EXCEPT !.job = "deliver", !.steer = s]
  <2>1. /\ steer' = steer \/ steer' = NotesTaken(s)
        /\ Become(Main, t) /\ UNCHANGED past
    BY <1>7 DEF RoundBoundary
  <2> HIDE DEF s
  <2>2. GoodSteer(NotesTaken(s))
    <3>1. /\ AllConsumed(s.notes) \in Seq(NoteSet)
          /\ Len(AllConsumed(s.notes)) = Len(s.notes)
      BY <1>4, TakenNotes
    <3>2. NotesTaken(s) = [s EXCEPT !.notes = AllConsumed(s.notes)]
      BY DEF NotesTaken
    <3> DEFINE done == AllConsumed(s.notes)
    <3>3. done \in Seq(NoteSet) /\ Len(done) <= NotesCap
      BY <1>4, <3>1
    <3> HIDE DEF done
    <3>4. GoodSteer([s EXCEPT !.notes = done])
      BY <1>4, <3>3 DEF GoodSteer, Steers
    <3> QED
      BY <3>2, <3>4 DEF done
  <2>3. "deliver" \in Jobs
    BY DEF Jobs
  <2>4. /\ GoodSeat([Idle EXCEPT !.job = "deliver"])
        /\ t = [[Idle EXCEPT !.job = "deliver"] EXCEPT !.steer = s]
        /\ [Idle EXCEPT !.job = "deliver"].job = "deliver"
    BY <2>3, GoodIdle DEF Idle
  <2>5. /\ t \in Seats /\ t.steer = s /\ t.snap = [Idle EXCEPT !.job = "deliver"].snap
        /\ t.job = "deliver"
    BY <1>4, <2>4 DEF GoodSeat, Seats
  <2> HIDE DEF t
  <2>6. GoodSeat(t)
    BY <1>3, <2>4, <2>5 DEF GoodSeat
  <2>7. GoodSteer(steer')
    BY <1>2, <2>1, <2>2
  <2> QED
    BY <1>1, <1>2, <1>3, <2>1, <2>5, <2>6, <2>7, TypeStep
<1> QED
  BY <1>5, <1>6, <1>7

LEMMA TypeRound ==
  ASSUME TypeInv, NoteRoundStart \/ UnbindTask \/ (\E ok \in BOOLEAN : ForcedNone(ok))
                  \/ \E job \in {"boundary", "unbind"} : RoundEnds(job)
  PROVE  TypeInv'
<1>0. /\ GoodSteer(steer) /\ GoodSnap(snap) /\ round \in 0..MaxRounds /\ past \in Pasts
      /\ budget \in Limits /\ leased \in BOOLEAN /\ beating \in BOOLEAN
      /\ at[Main].job \in Before => round < MaxRounds
      /\ GoodSteer(at[Main].steer) /\ GoodSnap(at[Main].snap) /\ MaxRounds \in Nat
  BY SeatParts, ProcNames, CapsAssumption DEF TypeInv
<1>1. CASE NoteRoundStart
  <2> DEFINE steps == at[Main].snap.steps
             made  == Cardinality(CallsIn(at[Main].snap.steps, round + 1))
             late  == IF past.pending THEN past.late + 1 ELSE past.late
  <2>1. /\ Become(Main, [Idle EXCEPT !.job = "model"]) /\ at[Main].job = "start"
        /\ round' = round + 1 /\ snap' = [at[Main].snap EXCEPT !.phase = "thinking"]
        /\ beating' = TRUE /\ past' = [past EXCEPT !.made = made, !.late = late]
        /\ UNCHANGED <<file, steer, leased, budget>>
    BY <1>1 DEF NoteRoundStart, Holds
  <2>2. round' \in 0..MaxRounds
    BY <1>0, <2>1 DEF Before
  <2>3. GoodSnap(snap')
    BY <1>0, <2>1 DEF GoodSnap, Snaps
  <2>4. made \in Nat
    <3>1. steps \in Seq(RowSet)
      BY <1>0 DEF GoodSnap, Snaps
    <3> QED
      BY <3>1, CallsCounted
  <2>5. late \in Nat
    <3>1. past.late \in Nat
      BY <1>0, PastTyped
    <3> QED
      BY <3>1
  <2> HIDE DEF made, late
  <2>6. past' \in Pasts
    <3>1. PICK m \in Nat : m = made
      BY <2>4
    <3>2. PICK n \in Nat : n = late
      BY <2>5
    <3>3. past' = [past EXCEPT !.made = m, !.late = n]
      BY <2>1, <3>1, <3>2
    <3> QED
      BY <1>0, <3>3 DEF Pasts
  <2>7. "model" \in Jobs /\ "model" \notin Before
    BY DEF Jobs, Before
  <2> QED
    BY <1>0, <2>1, <2>2, <2>3, <2>6, <2>7, MainGoes
<1>2. CASE UnbindTask
  <2>1. /\ Become(Main, Idle) /\ at[Main].job = "unbind"
        /\ snap' = [at[Main].snap EXCEPT !.phase = "ended"]
        /\ beating' = FALSE /\ leased' = FALSE
        /\ UNCHANGED <<file, steer, round, budget, past>>
    BY <1>2 DEF UnbindTask, Holds
  <2>2. GoodSnap(snap')
    BY <1>0, <2>1 DEF GoodSnap, Snaps
  <2>3. Idle.job \notin Before
    BY GoodIdle DEF Before
  <2> QED
    BY <1>0, <2>1, <2>2, <2>3, GoodIdle, ProcNames, TypeStep DEF TypeInv
<1>3. CASE \E ok \in BOOLEAN : ForcedNone(ok)
  <2>1. PICK job \in {"unbind", "start"} :
          /\ Become(Main, Wants(job)) /\ at[Main].job = "forced"
          /\ snap' = Recorded(snap) /\ steer' = at[Main].steer
          /\ past' = [past EXCEPT !.made = past.made + 1] /\ beating' = FALSE
          /\ UNCHANGED <<file, leased, round, budget>>
    BY <1>3 DEF ForcedNone, Holds
  <2>2. GoodSnap(snap')
    BY <1>0, <2>1, RecordedTyped
  <2>3. past' \in Pasts
    <3>1. PICK n \in Nat : n = past.made + 1
      BY <1>0, PastTyped
    <3>2. past' = [past EXCEPT !.made = n] /\ <<>> \in Seq(Nat \ {0}) /\ TRUE \in BOOLEAN
      BY <2>1, <3>1
    <3> QED
      BY <1>0, <3>2, PastSet
  <2>4. job \in Jobs /\ round < MaxRounds
    BY <1>0, <2>1 DEF Jobs, Before
  <2> QED
    BY <1>0, <2>1, <2>2, <2>3, <2>4, MainGoes
<1>4. CASE \E job \in {"boundary", "unbind"} : RoundEnds(job)
  <2>1. PICK job \in {"boundary", "unbind"} :
          /\ Become(Main, Wants(job)) /\ AtRest /\ (job = "boundary" => round < MaxRounds)
          /\ UNCHANGED <<file, steer, snap, leased, round, beating, budget, past>>
    BY <1>4 DEF RoundEnds, AtRest
  <2>2. job \in Jobs /\ (job \in Before => round < MaxRounds)
    BY <2>1 DEF Jobs, Before
  <2> QED
    BY <1>0, <2>1, <2>2, MainGoes
<1> QED
  BY <1>1, <1>2, <1>3, <1>4

(* Several threads are set going, or closed, at once.                      *)
LEMMA TypeAnswers ==
  ASSUME TypeInv, \E T \in SUBSET Tools : ModelAnswers(T) PROVE TypeInv'
<1>1. PICK T \in SUBSET Tools :
        /\ at[Main].job = "model" /\ Cardinality(T) <= budget["call"]
        /\ budget' = [budget EXCEPT !["call"] = budget["call"] - Cardinality(T)]
        /\ at' = [p \in Procs |->
                    IF p \in T THEN Wants("record")
                    ELSE IF p # Main THEN at[p]
                    ELSE IF T = {} THEN Wants("unbind") ELSE [Idle EXCEPT !.job = "tools"]]
        /\ UNCHANGED <<file, steer, snap, leased, round, beating, past>>
  BY DEF ModelAnswers
<1>2. /\ {"record", "unbind", "tools"} \subseteq Jobs
      /\ "unbind" \notin Before /\ "tools" \notin Before
  BY DEF Jobs, Before
<1>3. \A job \in {"record", "unbind", "tools"} :
        /\ GoodSeat(Wants(job)) /\ Wants(job).job = job
        /\ GoodSeat([Idle EXCEPT !.job = job]) /\ [Idle EXCEPT !.job = job].job = job
  BY <1>2, GoodIdle
<1>4. /\ Main \in Procs /\ Main \notin T /\ Tools \subseteq Procs /\ Main \notin Tools
  BY ProcNames
<1>5. DOMAIN at' = Procs /\ \A p \in Procs : GoodSeat(at'[p])
  BY <1>1, <1>3 DEF TypeInv
<1>6. at' \in [Procs -> Seats]
  <2>1. \A p \in Procs : at'[p] \in Seats
    BY <1>5 DEF GoodSeat
  <2>2. at' = [p \in Procs |-> at'[p]]
    BY <1>1
  <2> QED
    BY <2>1, <2>2
<1>7. at'[Main] = IF T = {} THEN Wants("unbind") ELSE [Idle EXCEPT !.job = "tools"]
  BY <1>1, <1>4
<1>8. /\ at'[Main].job \notin Before
      /\ T # {} => at'[Main].job = "tools"
  BY <1>2, <1>3, <1>7
<1>9. ASSUME NEW t \in Tools
      PROVE  at'[t] = Idle \/ (at'[t].job = "record" /\ at'[Main].job = "tools")
  <2>1. at[t] = Idle
    BY <1>1 DEF TypeInv
  <2>2. CASE t \in T
    BY <1>1, <1>3, <1>4, <1>8, <2>2
  <2>3. CASE t \notin T
    BY <1>1, <1>4, <2>1, <2>3
  <2> QED
    BY <2>2, <2>3
<1>10. budget' \in Limits
  <2>1. IsFiniteSet(T)
    BY FiniteAssumption, FS_Subset
  <2>2. Cardinality(T) \in Nat /\ budget["call"] \in Nat /\ budget \in Limits
    BY <2>1, FS_CardinalityType DEF Limits, TypeInv
  <2>3. PICK n \in Nat : n = budget["call"] - Cardinality(T)
    BY <1>1, <2>2
  <2>4. budget' = [budget EXCEPT !["call"] = n]
    BY <1>1, <2>3
  <2> QED
    BY <2>2, <2>4 DEF Limits
<1> QED
  BY <1>1, <1>5, <1>6, <1>8, <1>9, <1>10 DEF TypeInv

LEMMA TypeKilled ==
  ASSUME TypeInv, Killed PROVE TypeInv'
<1>1. /\ Spend("kill") /\ at' = [p \in Procs |-> IF p \in Worker THEN Idle ELSE at[p]]
      /\ beating' = FALSE /\ UNCHANGED <<file, steer, snap, leased, round, past>>
  BY DEF Killed
<1>2. /\ Main \in Procs /\ Tools \subseteq Procs /\ Main \in Worker /\ Tools \subseteq Worker
  BY ProcNames DEF Worker
<1>3. DOMAIN at' = Procs /\ \A p \in Procs : GoodSeat(at'[p])
  BY <1>1, GoodIdle DEF TypeInv
<1>4. at' \in [Procs -> Seats]
  <2>1. \A p \in Procs : at'[p] \in Seats
    BY <1>3 DEF GoodSeat
  <2>2. at' = [p \in Procs |-> at'[p]]
    BY <1>1
  <2> QED
    BY <2>1, <2>2
<1>5. at'[Main] = Idle /\ \A t \in Tools : at'[t] = Idle
  BY <1>1, <1>2
<1>6. at'[Main].job \notin Before
  BY <1>5, GoodIdle DEF Before
<1>7. budget' \in Limits
  BY <1>1, SpendTyped, LimitNames DEF TypeInv
<1> QED
  BY <1>1, <1>3, <1>4, <1>5, <1>6, <1>7 DEF TypeInv

(* The other threads of the worker.                                        *)
LEMMA TypeThreads ==
  ASSUME TypeInv, HeartbeatDue \/ HeartbeatTouch \/ \E t \in Tools : RecordToolCall(t)
  PROVE  TypeInv'
<1>0. /\ GoodSteer(steer) /\ GoodSnap(snap) /\ round \in 0..MaxRounds /\ past \in Pasts
      /\ file \in Inodes \union {0}
      /\ budget \in Limits /\ leased \in BOOLEAN /\ beating \in BOOLEAN
  BY DEF TypeInv
<1>1. /\ Beat \in Procs /\ Beat # Main /\ Beat \notin Tools
      /\ Tools \subseteq Procs /\ Main \notin Tools
  BY ProcNames, NamesAssumption
<1>2. CASE HeartbeatDue
  <2>1. /\ Become(Beat, Wants("touch")) /\ Spend("touch")
        /\ UNCHANGED <<file, steer, snap, leased, round, beating, past>>
    BY <1>2 DEF HeartbeatDue
  <2>2. budget' \in Limits /\ "touch" \in Jobs
    BY <1>0, <2>1, SpendTyped, LimitNames DEF Jobs
  <2>3. GoodSeat(Wants("touch"))
    BY <2>2, GoodIdle
  <2> QED
    BY <1>0, <1>1, <2>1, <2>2, <2>3, TypeStep
<1>3. CASE HeartbeatTouch
  <2>1. /\ Become(Beat, Idle) /\ (snap' = at[Beat].snap \/ snap' = snap)
        /\ UNCHANGED <<file, steer, leased, round, beating, budget, past>>
    BY <1>3 DEF HeartbeatTouch
  <2>2. GoodSnap(snap')
    BY <1>0, <1>1, <2>1, SeatParts
  <2> QED
    BY <1>0, <1>1, <2>1, <2>2, GoodIdle, TypeStep
<1>4. CASE \E t \in Tools : RecordToolCall(t)
  <2>1. PICK t \in Tools :
          /\ Become(t, Idle) /\ snap' = Recorded(at[t].snap) /\ beating' = FALSE
          /\ past' = [past EXCEPT !.made = past.made + 1]
          /\ UNCHANGED <<file, steer, leased, round, budget>>
    BY <1>4 DEF RecordToolCall
  <2>2. t \in Procs /\ t # Main /\ GoodSnap(at[t].snap)
    BY <1>1, SeatParts
  <2>3. GoodSnap(snap')
    BY <1>0, <2>1, <2>2, RecordedTyped
  <2>4. past' \in Pasts
    <3>1. PICK n \in Nat : n = past.made + 1
      BY <1>0, PastTyped
    <3>2. past' = [past EXCEPT !.made = n] /\ <<>> \in Seq(Nat \ {0}) /\ TRUE \in BOOLEAN
      BY <2>1, <3>1
    <3> QED
      BY <1>0, <3>2, PastSet
  <2> QED
    BY <1>0, <2>1, <2>2, <2>3, <2>4, GoodIdle, TypeStep
<1> QED
  BY <1>2, <1>3, <1>4

(* The dashboard.                                                          *)
LEMMA TypeDashboard ==
  ASSUME TypeInv, NEW h \in Handlers,
         \/ \E kind \in Kinds : Request(h, kind)
         \/ AddOperatorNote(h) \/ RequestForceSubmitNone(h) \/ RequestAbort(h)
  PROVE  TypeInv'
<1>0. /\ GoodSteer(steer) /\ GoodSnap(snap) /\ round \in 0..MaxRounds /\ past \in Pasts
      /\ file \in Inodes \union {0}
      /\ budget \in Limits /\ leased \in BOOLEAN /\ beating \in BOOLEAN
  BY DEF TypeInv
<1>1. h \in Procs /\ h # Main /\ h \notin Tools
  BY ProcNames, NamesAssumption
<1>2. /\ GoodSteer(at[h].steer) /\ at[h].steer \in Steers /\ at[h].steer.notes \in Seq(NoteSet)
      /\ Len(at[h].steer.notes) <= NotesCap
  BY <1>1, SeatParts DEF GoodSteer, Steers
<1>3. CASE \E kind \in Kinds : Request(h, kind)
  <2>1. PICK kind \in Kinds :
          /\ Become(h, Wants(kind)) /\ Spend(kind)
          /\ UNCHANGED <<file, steer, snap, leased, round, beating, past>>
    BY <1>3 DEF Request
  <2>2. budget' \in Limits /\ kind \in Jobs
    BY <1>0, <2>1, SpendTyped, LimitNames DEF Jobs, Kinds
  <2>3. GoodSeat(Wants(kind))
    BY <2>2, GoodIdle
  <2> QED
    BY <1>0, <1>1, <2>1, <2>2, <2>3, TypeStep
<1>4. CASE AddOperatorNote(h)
  <2> DEFINE new  == [id |-> past.given + 1, consumed |-> FALSE]
             more == LastNotes(Append(at[h].steer.notes, new))
  <2>1. /\ steer' = [at[h].steer EXCEPT !.notes = more]
        /\ past' = [past EXCEPT !.given = past.given + 1] /\ Become(h, Idle)
        /\ UNCHANGED <<file, snap, leased, round, beating, budget>>
    BY <1>4 DEF AddOperatorNote
  <2>2. PICK n \in Nat : n = past.given + 1 /\ n # 0
    BY <1>0, PastTyped
  <2>3. new \in NoteSet
    BY <2>2 DEF NoteSet
  <2> HIDE DEF new
  <2>4. more \in Seq(NoteSet) /\ Len(more) <= NotesCap
    BY <1>2, <2>3, KeptNotes
  <2> HIDE DEF more
  <2>5. GoodSteer(steer')
    BY <1>2, <2>1, <2>4 DEF GoodSteer, Steers
  <2>6. past' \in Pasts
    <3>1. past' = [past EXCEPT !.given = n] /\ <<>> \in Seq(Nat \ {0}) /\ TRUE \in BOOLEAN
      BY <2>1, <2>2
    <3> QED
      BY <1>0, <3>1, PastSet
  <2> QED
    BY <1>0, <1>1, <2>1, <2>5, <2>6, GoodIdle, TypeStep
<1>5. CASE RequestForceSubmitNone(h)
  <2>1. /\ steer' = steer \/ steer' = [at[h].steer EXCEPT !.force = "asked"]
        /\ Become(h, Idle)
        /\ UNCHANGED <<file, snap, leased, round, beating, budget, past>>
    BY <1>5 DEF RequestForceSubmitNone
  <2>2. GoodSteer([at[h].steer EXCEPT !.force = "asked"])
    BY <1>2 DEF GoodSteer, Steers
  <2>3. GoodSteer(steer')
    BY <1>0, <2>1, <2>2
  <2> QED
    BY <1>0, <1>1, <2>1, <2>3, GoodIdle, TypeStep
<1>6. CASE RequestAbort(h)
  <2>1. /\ steer' = [at[h].steer EXCEPT !.abort = "asked"]
        /\ past' = [past EXCEPT !.pending = TRUE] /\ Become(h, Idle)
        /\ UNCHANGED <<file, snap, leased, round, beating, budget>>
    BY <1>6 DEF RequestAbort
  <2>2. GoodSteer(steer')
    BY <1>2, <2>1 DEF GoodSteer, Steers
  <2>3. past' \in Pasts
    BY <1>0, <2>1, PastTyped
  <2> QED
    BY <1>0, <1>1, <2>1, <2>2, <2>3, GoodIdle, TypeStep
<1> QED
  BY <1>3, <1>4, <1>5, <1>6

LEMMA TypePruner ==
  ASSUME TypeInv, PruneLook \/ PruneLive \/ PruneLocks PROVE TypeInv'
<1>0. /\ GoodSteer(steer) /\ GoodSnap(snap) /\ round \in 0..MaxRounds /\ past \in Pasts
      /\ file \in Inodes \union {0}
      /\ budget \in Limits /\ leased \in BOOLEAN /\ beating \in BOOLEAN
  BY DEF TypeInv
<1>1. Pruner \in Procs /\ Pruner # Main /\ Pruner \notin Tools
  BY ProcNames, NamesAssumption
<1>2. PICK job \in {"live", "locks", "idle"} :
        Become(Pruner, [Idle EXCEPT !.job = job]) \/ Become(Pruner, Idle)
  BY DEF PruneLook, PruneLive, PruneLocks
<1>3. GoodSeat([Idle EXCEPT !.job = job]) /\ GoodSeat(Idle)
  <2>1. job \in Jobs
    BY DEF Jobs
  <2> QED
    BY <2>1, GoodIdle
<1>4. /\ file' \in Inodes \union {0} /\ UNCHANGED <<steer, leased, round, beating>>
      /\ snap' = snap \/ snap' = NoSnap
      /\ budget' = budget \/ Spend("prune")
      /\ past' = past \/ past' = [past EXCEPT !.unlinked = UnderSomebody]
  BY <1>0 DEF PruneLook, PruneLive, PruneLocks
<1>5. budget' \in Limits
  BY <1>0, <1>4, SpendTyped, LimitNames
<1>6. past' \in Pasts
  <2>1. UnderSomebody \in BOOLEAN
    BY <1>0, PastTyped DEF UnderSomebody
  <2> DEFINE under == UnderSomebody
  <2>2. past' = past \/ past' = [past EXCEPT !.unlinked = under]
    BY <1>4
  <2>3. under \in BOOLEAN /\ 0 \in Nat /\ <<>> \in Seq(Nat \ {0})
    BY <2>1
  <2> HIDE DEF under
  <2> QED
    BY <1>0, <2>2, <2>3, PastSet
<1>7. GoodSnap(snap')
  BY <1>0, <1>4, GoodEmpty
<1>8. PICK s : Become(Pruner, s) /\ GoodSeat(s)
  BY <1>2, <1>3
<1> QED
  BY <1>0, <1>1, <1>4, <1>5, <1>6, <1>7, <1>8, TypeStep

LEMMA TypeNext == TypeInv /\ [Next]_vars => TypeInv'
<1> SUFFICES ASSUME TypeInv, [Next]_vars
             PROVE  TypeInv'
  OBVIOUS
<1>1. CASE \E p \in Procs : Open(p) \/ Lock(p)
  BY <1>1, TypeLock
<1>2. CASE Attempt \/ BindTask \/ Deliver
  BY <1>2, TypeAttempt
<1>3. CASE RoundBoundary
  BY <1>3, TypeBoundary
<1>4. CASE NoteRoundStart \/ UnbindTask \/ (\E ok \in BOOLEAN : ForcedNone(ok))
           \/ \E job \in {"boundary", "unbind"} : RoundEnds(job)
  BY <1>4, TypeRound
<1>5. CASE \E T \in SUBSET Tools : ModelAnswers(T)
  BY <1>5, TypeAnswers
<1>6. CASE Killed
  BY <1>6, TypeKilled
<1>7. CASE HeartbeatDue \/ HeartbeatTouch \/ \E t \in Tools : RecordToolCall(t)
  BY <1>7, TypeThreads
<1>8. CASE \E h \in Handlers : \/ \E kind \in Kinds : Request(h, kind)
                               \/ AddOperatorNote(h) \/ RequestForceSubmitNone(h)
                               \/ RequestAbort(h)
  BY <1>8, TypeDashboard
<1>9. CASE PruneLook \/ PruneLive \/ PruneLocks
  BY <1>9, TypePruner
<1>10. CASE UNCHANGED vars
  BY <1>10 DEF vars, TypeInv
<1> QED
  BY <1>1, <1>2, <1>3, <1>4, <1>5, <1>6, <1>7, <1>8, <1>9, <1>10 DEF Next

LEMMA TypeInit == Init => TypeInv
<1> SUFFICES ASSUME Init
             PROVE  TypeInv
  OBVIOUS
<1>1. GoodSteer(steer) /\ GoodSnap(snap) /\ GoodSeat(Idle) /\ Idle.job \notin Before
  BY GoodEmpty, GoodIdle DEF Init, Before
<1>2. at = [p \in Procs |-> Idle] /\ Idle \in Seats
  BY <1>1 DEF Init, GoodSeat
<1>3. budget \in Limits
  BY BudgetsAssumption DEF Init, Limits
<1>4. past \in Pasts
  BY DEF Init, Nothing, Pasts
<1>5. 0 \in 0..MaxRounds
  BY CapsAssumption
<1>6. Main \in Procs /\ Tools \subseteq Procs
  BY ProcNames
<1> QED
  BY <1>1, <1>2, <1>3, <1>4, <1>5, <1>6 DEF Init, TypeInv

(* The inbox and the list of steps stay within their caps, in the files    *)
(* and in every copy that is written back, and no more rounds begin than   *)
(* llm.max_tool_rounds (add_operator_note, record_tool_call).              *)
THEOREM TypeCorrect == Spec => []TypeOK
<1>1. TypeInv => TypeOK
  <2> SUFFICES ASSUME TypeInv
               PROVE  TypeOK
    OBVIOUS
  <2>1. \A p \in Procs : Len(at[p].steer.notes) <= NotesCap /\ Len(at[p].snap.steps) <= MaxSteps
    BY SeatParts DEF GoodSteer, GoodSnap
  <2>2. /\ steer \in Steers /\ snap \in Snaps
        /\ Len(steer.notes) <= NotesCap /\ Len(snap.steps) <= MaxSteps
    BY DEF TypeInv, GoodSteer, GoodSnap
  <2> QED
    BY <2>1, <2>2 DEF TypeInv, TypeOK, Limits, Pasts
<1> QED
  BY <1>1, TypeInit, TypeNext, PTL DEF Spec

-----------------------------------------------------------------------------
(* Until something is pruned under its users: whoever holds the lock has   *)
(* read the snapshot that is on disk; an attempt's rows are of its rounds  *)
(* so far, before the first round none or the one of a forced submit_none; *)
(* and the highest call of the round is the number of calls made in it.    *)
Going == {"boundary", "forced", "deliver", "start", "model", "tools"}
First == <<[round |-> 1, call |-> 1]>>

RowsInv ==
  /\ at[Main].job \in Going =>
       /\ \A i \in 1..Len(snap.steps) : snap.steps[i].round <= ThisRound
       /\ round = 0 => \/ snap.steps = <<>>
                       \/ at[Main].job = "start" /\ snap.steps = First
  /\ at[Main].job \in {"model", "tools"} =>
       round > 0 /\ MaxCallInRound(snap.steps, round) = past.made

SnapInv == RowsInv /\ \A p \in Procs : Held(p) => at[p].snap = snap

LEMMA RowsStay ==
  ASSUME RowsInv, snap'.steps = snap.steps, round' = round, past'.made = past.made,
         at'[Main].job = at[Main].job \/ at'[Main].job \notin Going
  PROVE  RowsInv'
<1>1. {"model", "tools"} \subseteq Going
  BY DEF Going
<1>2. CASE at'[Main].job \notin Going
  BY <1>1, <1>2 DEF RowsInv
<1>3. CASE at'[Main].job = at[Main].job
  BY <1>3 DEF RowsInv, ThisRound
<1> QED
  BY <1>2, <1>3

(* Only the holder of the lock writes the snapshot.                        *)
LEMMA SnapStep ==
  ASSUME Inv, TypeInv, ~past.unlinked, SnapInv, NEW p \in Procs, NEW s, Become(p, s),
         snap' = snap \/ Held(p), s.step = "held" => s.snap = snap', RowsInv'
  PROVE  SnapInv'
<1>1. at'[p] = s /\ \A q \in Procs : q # p => at'[q] = at[q]
  BY DEF TypeInv, Become
<1>2. ASSUME NEW q \in Procs, Held(q)'
      PROVE  at'[q].snap = snap'
  <2>1. CASE q = p
    BY <1>1, <1>2, <2>1 DEF Held
  <2>2. CASE q # p
    <3>1. Held(q) /\ at'[q] = at[q]
      BY <1>1, <1>2, <2>2 DEF Held
    <3>2. ~Held(p)
      BY <2>2, <3>1 DEF Inv, LockInv
    <3> QED
      BY <3>1, <3>2 DEF SnapInv
  <2> QED
    BY <2>1, <2>2
<1> QED
  BY <1>2 DEF SnapInv

LEMMA SnapSame ==
  ASSUME Inv, TypeInv, ~past.unlinked, SnapInv, NEW p \in Procs, NEW s, Become(p, s),
         snap' = snap, s.step = "held" => s.snap = snap, round' = round, past'.made = past.made,
         p = Main => s.job = at[Main].job \/ s.job \notin Going
  PROVE  SnapInv'
<1>1. at'[p] = s /\ \A q \in Procs : q # p => at'[q] = at[q]
  BY DEF TypeInv, Become
<1>2. at'[Main].job = at[Main].job \/ at'[Main].job \notin Going
  BY <1>1, ProcNames
<1>3. RowsInv'
  BY <1>2, RowsStay DEF SnapInv
<1> QED
  BY <1>3, SnapStep

(* The threads and requests beside the main thread, and the lock.          *)
LEMMA SnapLock ==
  ASSUME Inv, TypeInv, ~past.unlinked, SnapInv, NEW p \in Procs, Open(p) \/ Lock(p)
  PROVE  SnapInv'
<1> DEFINE opened == [at[p] EXCEPT !.step = "wait", !.fd = file']
           locked == [at[p] EXCEPT !.step = "held", !.steer = steer, !.snap = snap]
<1>1. at[p] \in Seats /\ UNCHANGED <<snap, round, past>>
  BY SeatParts DEF Open, Lock
<1>2. CASE Open(p)
  <2>1. Become(p, opened)
    BY <1>2 DEF Open
  <2>2. opened.step # "held" /\ opened.job = at[p].job
    BY <1>1 DEF Seats
  <2> HIDE DEF opened
  <2> QED
    BY <1>1, <2>1, <2>2, SnapSame
<1>3. CASE Lock(p)
  <2>1. Become(p, locked)
    BY <1>3 DEF Lock
  <2>2. locked.snap = snap /\ locked.job = at[p].job
    BY <1>1 DEF Seats
  <2> HIDE DEF locked
  <2> QED
    BY <1>1, <2>1, <2>2, SnapSame
<1> QED
  BY <1>2, <1>3

LEMMA SnapOthers ==
  ASSUME Inv, TypeInv, ~past.unlinked, SnapInv,
         \/ HeartbeatDue \/ HeartbeatTouch \/ PruneLook
         \/ \E h \in Handlers : \/ \E kind \in Kinds : Request(h, kind)
                                \/ AddOperatorNote(h) \/ RequestForceSubmitNone(h)
                                \/ RequestAbort(h)
  PROVE  SnapInv'
<1>1. past \in Pasts
  BY DEF TypeInv
<1>2. PICK p \in Procs \ {Main} : \E s :
        /\ Become(p, s) /\ s.step \in {"none", "open"} /\ snap' = snap /\ round' = round
        /\ past' = past \/ (\E n : past' = [past EXCEPT !.given = n])
                        \/ past' = [past EXCEPT !.pending = TRUE]
  <2>1. CASE HeartbeatDue
    BY <2>1, ProcNames, WantsShape DEF HeartbeatDue
  <2>2. CASE HeartbeatTouch
    <3>1. Holds(Beat, "touch") /\ Become(Beat, Idle) /\ UNCHANGED <<round, past>>
      BY <2>2 DEF HeartbeatTouch
    <3>2. at[Beat].snap = snap
      BY <3>1, ProcNames DEF SnapInv, Held, Holds
    <3>3. snap' = snap
      BY <2>2, <3>2 DEF HeartbeatTouch
    <3> QED
      BY <3>1, <3>3, ProcNames, WantsShape
  <2>3. CASE PruneLook
    BY <2>3, ProcNames, WantsShape DEF PruneLook
  <2>4. CASE \E h \in Handlers, kind \in Kinds : Request(h, kind)
    BY <2>4, ProcNames, WantsShape DEF Request
  <2>5. CASE \E h \in Handlers : AddOperatorNote(h)
    BY <2>5, ProcNames, WantsShape DEF AddOperatorNote
  <2>6. CASE \E h \in Handlers : RequestForceSubmitNone(h) \/ RequestAbort(h)
    BY <2>6, ProcNames, WantsShape DEF RequestForceSubmitNone, RequestAbort
  <2> QED
    BY <2>1, <2>2, <2>3, <2>4, <2>5, <2>6
<1>3. past'.made = past.made
  BY <1>1, <1>2 DEF Pasts
<1> QED
  BY <1>2, <1>3, SnapSame

(* The main thread.                                                        *)
LEMMA MainAt ==
  ASSUME TypeInv, NEW s, Become(Main, s)
  PROVE  at'[Main] = s
BY ProcNames DEF TypeInv, Become

LEMMA SnapMain ==
  ASSUME Inv, TypeInv, ~past.unlinked, SnapInv,
         Attempt \/ BindTask \/ UnbindTask \/ RoundBoundary \/ Deliver
                 \/ \E job \in {"boundary", "unbind"} : RoundEnds(job)
  PROVE  SnapInv'
<1>0. Main \in Procs /\ past \in Pasts /\ at[Main] \in Seats
  BY SeatParts, ProcNames DEF TypeInv
<1>1. CASE Attempt \/ UnbindTask
  <2>1. PICK s \in {Wants("bind"), Idle} : Become(Main, s)
    BY <1>1 DEF Attempt, UnbindTask
  <2>2. snap' = snap \/ Held(Main)
    BY <1>1 DEF Attempt, UnbindTask, Holds, Held
  <2>3. s.job \notin Going /\ s.step # "held"
    BY WantsShape DEF Going
  <2>4. RowsInv'
    <3>1. at'[Main].job \notin Going
      BY <2>1, <2>3, MainAt
    <3> QED
      BY <3>1 DEF RowsInv, Going
  <2> QED
    BY <1>0, <2>1, <2>2, <2>3, <2>4, SnapStep
<1>2. CASE BindTask
  <2>1. /\ Become(Main, Wants("boundary")) /\ Held(Main)
        /\ snap' = [phase |-> "running", steps |-> <<>>]
    BY <1>2 DEF BindTask, Holds, Held
  <2>2. at'[Main].job = "boundary" /\ Wants("boundary").step # "held"
    BY <2>1, WantsShape, MainAt
  <2>3. snap'.steps = <<>> /\ Len(<<>>) = 0
    BY <2>1
  <2>4. RowsInv'
    BY <2>2, <2>3 DEF RowsInv
  <2> QED
    BY <1>0, <2>1, <2>2, <2>4, SnapStep
<1>3. CASE RoundBoundary
  <2> DEFINE forced == [at[Main] EXCEPT !.job = "forced", !.steer = steer', !.snap = snap]
             deliver == [Idle EXCEPT !.job = "deliver", !.steer = at[Main].steer]
  <2>1. /\ at[Main].job = "boundary" /\ UNCHANGED <<snap, round>>
        /\ past' = past \/ past' = [past EXCEPT !.pending = FALSE, !.late = 0]
        /\ \E s \in {forced, deliver, Wants("unbind")} : Become(Main, s)
    BY <1>3 DEF RoundBoundary, Holds
  <2>2. past'.made = past.made
    BY <1>0, <2>1 DEF Pasts
  <2>3. forced.job = "forced" /\ forced.snap = snap
    BY <1>0 DEF Seats
  <2>4. deliver.job = "deliver" /\ deliver.step = "none"
    BY DEF Idle
  <2>5. Wants("unbind").job = "unbind" /\ Wants("unbind").step = "open"
    BY WantsShape
  <2> HIDE DEF forced, deliver
  <2>6. PICK s \in {forced, deliver, Wants("unbind")} : Become(Main, s)
    BY <2>1
  <2>7. s.job \in {"forced", "deliver", "unbind"} /\ (s.step = "held" => s.snap = snap)
    BY <2>3, <2>4, <2>5, <2>6
  <2>8. at'[Main].job \in {"forced", "deliver", "unbind"}
    BY <2>6, <2>7, MainAt
  <2>9. RowsInv'
    BY <2>1, <2>8 DEF RowsInv, SnapInv, Going, ThisRound
  <2> QED
    BY <1>0, <2>1, <2>6, <2>7, <2>9, SnapStep
<1>4. CASE Deliver
  <2>1. /\ at[Main].job = "deliver" /\ UNCHANGED <<snap, round>> /\ Become(Main, Wants("start"))
    BY <1>4 DEF Deliver
  <2>2. Wants("start").step # "held" /\ at'[Main].job = "start"
    BY <2>1, WantsShape, MainAt
  <2>3. RowsInv'
    BY <2>1, <2>2 DEF RowsInv, SnapInv, Going, ThisRound
  <2> QED
    BY <1>0, <2>1, <2>2, <2>3, SnapStep
<1>5. CASE \E job \in {"boundary", "unbind"} : RoundEnds(job)
  <2>1. PICK job \in {"boundary", "unbind"} :
          at[Main].job = "tools" /\ UNCHANGED <<snap, round>> /\ Become(Main, Wants(job))
    BY <1>5 DEF RoundEnds
  <2>2. Wants(job).step # "held" /\ at'[Main].job = job
    BY <2>1, WantsShape, MainAt
  <2>3. round > 0 /\ round \in Nat
    BY <2>1 DEF RowsInv, SnapInv, TypeInv
  <2>4. RowsInv'
    BY <2>1, <2>2, <2>3 DEF RowsInv, SnapInv, Going, ThisRound
  <2> QED
    BY <1>0, <2>1, <2>2, <2>4, SnapStep
<1> QED
  BY <1>1, <1>2, <1>3, <1>4, <1>5

LEMMA SnapMany ==
  ASSUME Inv, TypeInv, ~past.unlinked, SnapInv,
         Killed \/ \E T \in SUBSET Tools : ModelAnswers(T)
  PROVE  SnapInv'
<1>1. CASE Killed
  <2>1. /\ UNCHANGED <<snap, past>>
        /\ at' = [p \in Procs |-> IF p \in Worker THEN Idle ELSE at[p]]
    BY <1>1 DEF Killed
  <2>2. Main \in Procs /\ Main \in Worker
    BY ProcNames DEF Worker
  <2>3. at'[Main].job \notin Going
    BY <2>1, <2>2, WantsShape DEF Going
  <2>4. \A p \in Procs : Held(p)' => Held(p) /\ at'[p] = at[p]
    BY <2>1, WantsShape DEF Held
  <2> QED
    BY <2>1, <2>3, <2>4 DEF SnapInv, RowsInv, Going
<1>2. CASE \E T \in SUBSET Tools : ModelAnswers(T)
  <2>1. PICK T \in SUBSET Tools :
          /\ at[Main].job = "model" /\ UNCHANGED <<snap, round, past>>
          /\ at' = [p \in Procs |->
                      IF p \in T THEN Wants("record")
                      ELSE IF p # Main THEN at[p]
                      ELSE IF T = {} THEN Wants("unbind") ELSE [Idle EXCEPT !.job = "tools"]]
    BY <1>2 DEF ModelAnswers
  <2>2. Main \in Procs /\ Main \notin T
    BY ProcNames
  <2>3. at'[Main].job \in {"unbind", "tools"}
    BY <2>1, <2>2, WantsShape
  <2>4. \A p \in Procs : Held(p)' => Held(p) /\ at'[p] = at[p]
    BY <2>1, WantsShape DEF Held
  <2>5. round > 0 /\ round \in Nat
    BY <2>1 DEF RowsInv, SnapInv, TypeInv
  <2>6. RowsInv'
    BY <2>1, <2>3, <2>5 DEF SnapInv, RowsInv, Going, ThisRound
  <2> QED
    BY <2>1, <2>4, <2>6 DEF SnapInv
<1> QED
  BY <1>1, <1>2

LEMMA SnapRound ==
  ASSUME Inv, TypeInv, ~past.unlinked, SnapInv, NoteRoundStart PROVE SnapInv'
<1> DEFINE steps == snap.steps
           count == Cardinality(CallsIn(steps, round + 1))
           late  == IF past.pending THEN past.late + 1 ELSE past.late
<1>1. Main \in Procs /\ past \in Pasts /\ round \in Nat /\ snap \in Snaps
  BY ProcNames DEF TypeInv, GoodSnap
<1>2. at[Main].job = "start" /\ Held(Main) /\ Become(Main, [Idle EXCEPT !.job = "model"])
  BY DEF NoteRoundStart, Holds, Held
<1>3. at[Main].snap = snap
  BY <1>1, <1>2 DEF SnapInv
<1>4. /\ round' = round + 1 /\ snap' = [snap EXCEPT !.phase = "thinking"]
      /\ past' = [past EXCEPT !.made = count, !.late = late]
  BY <1>3 DEF NoteRoundStart
<1>5. snap'.steps = steps /\ steps \in Seq(RowSet)
  BY <1>1, <1>4 DEF Snaps
<1>6. past'.made = count
  <2> HIDE DEF count, late
  <2> QED
    BY <1>1, <1>4 DEF Pasts
<1>7. [Idle EXCEPT !.job = "model"].step # "held" /\ at'[Main].job = "model"
  BY <1>2, WantsShape, MainAt
<1>8. /\ \A i \in 1..Len(steps) : steps[i].round <= ThisRound
      /\ round = 0 => steps = <<>> \/ steps = First
  BY <1>2 DEF SnapInv, RowsInv, Going
<1>9. \A i \in 1..Len(steps) : steps[i].round \in Nat
  <2>1. \A i \in 1..Len(steps) : steps[i] \in RowSet
    BY <1>5
  <2>2. \A x \in RowSet : x.round \in Nat
    BY DEF RowSet
  <2> QED
    BY <2>1, <2>2
<1> HIDE DEF steps
<1>10. \A i \in 1..Len(steps) : steps[i].round <= round + 1
  <2>1. ThisRound \in Nat /\ ThisRound <= round + 1
    BY <1>1 DEF ThisRound
  <2>2. SUFFICES ASSUME NEW i \in 1..Len(steps)
                 PROVE  steps[i].round <= round + 1
    OBVIOUS
  <2>3. PICK a \in Nat : a = steps[i].round /\ a <= ThisRound
    BY <1>8, <1>9
  <2>4. a <= round + 1
    BY <1>1, <2>1, <2>3
  <2> QED
    BY <2>3, <2>4
<1>11. Max({0}) = 0 /\ Max({1, 0}) = 1
  BY DEF Max
<1>12. MaxCallInRound(steps, round + 1) = count
  <2>1. CASE CallsIn(steps, round + 1) = {}
    <3>1. MaxCallInRound(steps, round + 1) = Max({0})
      BY <2>1 DEF MaxCallInRound
    <3>2. count = 0
      BY <2>1, FS_EmptySet
    <3> QED
      BY <1>11, <3>1, <3>2
  <2>2. CASE round = 0 /\ steps = First
    <3>1. CallsIn(steps, round + 1) = {1}
      BY <2>2 DEF CallsIn, First
    <3>2. MaxCallInRound(steps, round + 1) = Max({1, 0})
      <4>1. {1} \union {0} = {1, 0}
        OBVIOUS
      <4> QED
        BY <3>1, <4>1 DEF MaxCallInRound
    <3>3. count = 1
      BY <3>1, FS_Singleton
    <3> QED
      BY <1>11, <3>2, <3>3
  <2>3. CASE round = 0 /\ steps = <<>>
    <3>1. CallsIn(steps, round + 1) = {}
      BY <2>3 DEF CallsIn
    <3> QED
      BY <2>1, <3>1
  <2>4. CASE round # 0
    <3>1. ThisRound = round /\ round < round + 1
      BY <1>1, <2>4 DEF ThisRound
    <3>2. \A i \in 1..Len(steps) : steps[i].round # round + 1
      <4> SUFFICES ASSUME NEW i \in 1..Len(steps), steps[i].round = round + 1
                   PROVE  FALSE
        OBVIOUS
      <4>1. round + 1 <= round
        BY <1>8, <3>1
      <4> QED
        BY <1>1, <4>1
    <3>3. DOMAIN steps = 1..Len(steps)
      BY <1>5
    <3>4. CallsIn(steps, round + 1) = {}
      BY <3>2, <3>3 DEF CallsIn
    <3> QED
      BY <2>1, <3>4
  <2> QED
    BY <1>8, <2>2, <2>3, <2>4
<1>13. RowsInv'
  <2>1. round' > 0 /\ ThisRound' = round + 1 /\ round' # 0
    BY <1>1, <1>4 DEF ThisRound
  <2>2. /\ \A i \in 1..Len(snap'.steps) : snap'.steps[i].round <= ThisRound'
        /\ MaxCallInRound(snap'.steps, round') = past'.made
    BY <1>4, <1>5, <1>6, <1>10, <1>12, <2>1
  <2> QED
    BY <2>1, <2>2 DEF RowsInv
<1> QED
  BY <1>1, <1>2, <1>7, <1>13, SnapStep


(* A call is recorded.                                                     *)
LEMMA RecordedSteps ==
  ASSUME NEW s, GoodSnap(s), round \in 0..MaxRounds
  PROVE  /\ MaxCallInRound(Recorded(s).steps, ThisRound) = 1 + MaxCallInRound(s.steps, ThisRound)
         /\ (\A i \in 1..Len(s.steps) : s.steps[i].round <= ThisRound) =>
              \A i \in 1..Len(Recorded(s).steps) : Recorded(s).steps[i].round <= ThisRound
         /\ round = 0 /\ s.steps = <<>> => Recorded(s).steps = First
<1> DEFINE rows == s.steps
           r == ThisRound
           new == Trimmed(Append(rows, [round |-> r, call |-> 1 + MaxCallInRound(rows, r)]))
<1>1. Recorded(s).steps = new
  BY DEF Recorded
<1>2. rows \in Seq(RowSet) /\ Len(rows) <= MaxSteps /\ Increasing(rows) /\ r \in Nat \ {0}
  BY RecordedTyped DEF GoodSnap, Snaps
<1>3. ASSUME round = 0, rows = <<>>
      PROVE  new = First
  <2>1. r = 1
    BY <1>3 DEF ThisRound
  <2>2. CallsIn(rows, 1) = {}
    BY <1>3 DEF CallsIn
  <2>3. MaxCallInRound(rows, 1) = Max({0})
    BY <2>2 DEF MaxCallInRound
  <2>4. Max({0}) = 0
    BY DEF Max
  <2> DEFINE row == [round |-> 1, call |-> 1]
  <2>5. new = Trimmed(Append(<<>>, row))
    BY <1>3, <2>1, <2>3, <2>4
  <2>6. Append(<<>>, row) = <<row>> /\ Len(<<row>>) = 1
    OBVIOUS
  <2>7. MaxSteps \in Nat \ {0}
    BY CapsAssumption
  <2> HIDE DEF row, new
  <2>8. new = <<row>>
    BY <2>5, <2>6, <2>7 DEF Trimmed
  <2> QED
    BY <2>8 DEF First, row
<1> HIDE DEF rows, r
<1>4. /\ MaxCallInRound(new, r) = 1 + MaxCallInRound(rows, r)
      /\ (\A i \in 1..Len(rows) : rows[i].round <= r) => \A i \in 1..Len(new) : new[i].round <= r
  BY <1>2, RecordedRows
<1> QED
  BY <1>1, <1>3, <1>4 DEF rows, r

LEMMA SnapForced ==
  ASSUME Inv, TypeInv, ~past.unlinked, SnapInv, NEW ok \in BOOLEAN, ForcedNone(ok)
  PROVE  SnapInv'
<1>1. /\ at[Main].job = "forced" /\ Held(Main) /\ Main \in Procs /\ UNCHANGED round
      /\ snap' = Recorded(snap)
  BY ProcNames DEF ForcedNone, Holds, Held
<1>2. PICK job \in {"unbind", "start"} : Become(Main, Wants(job))
  BY DEF ForcedNone
<1>3. at'[Main].job = job /\ Wants(job).step # "held"
  BY <1>2, WantsShape, MainAt
<1>4. /\ \A i \in 1..Len(snap.steps) : snap.steps[i].round <= ThisRound
      /\ round = 0 => snap.steps = <<>>
  BY <1>1 DEF SnapInv, RowsInv, Going
<1>5. /\ \A i \in 1..Len(Recorded(snap).steps) : Recorded(snap).steps[i].round <= ThisRound
      /\ round = 0 => Recorded(snap).steps = First
  BY <1>4, RecordedSteps DEF TypeInv
<1>6. RowsInv'
  BY <1>1, <1>3, <1>5 DEF RowsInv, Going, ThisRound
<1> QED
  BY <1>1, <1>2, <1>3, <1>6, SnapStep

LEMMA SnapRecord ==
  ASSUME Inv, TypeInv, ~past.unlinked, SnapInv, NEW t \in Tools, RecordToolCall(t)
  PROVE  SnapInv'
<1>1. /\ Held(t) /\ t \in Procs /\ t # Main /\ at[t] # Idle /\ Become(t, Idle) /\ UNCHANGED round
      /\ snap' = Recorded(at[t].snap) /\ past' = [past EXCEPT !.made = past.made + 1]
  BY ProcNames, WantsShape DEF RecordToolCall, Holds, Held
<1>2. at[Main].job = "tools" /\ at[t].snap = snap
  BY <1>1 DEF TypeInv, SnapInv
<1>3. /\ \A i \in 1..Len(snap.steps) : snap.steps[i].round <= ThisRound
      /\ round > 0 /\ round \in Nat /\ MaxCallInRound(snap.steps, round) = past.made
  BY <1>2 DEF SnapInv, RowsInv, Going, TypeInv
<1>4. ThisRound = round
  BY <1>3 DEF ThisRound
<1>5. /\ \A i \in 1..Len(Recorded(snap).steps) : Recorded(snap).steps[i].round <= ThisRound
      /\ MaxCallInRound(Recorded(snap).steps, round) = 1 + past.made
  BY <1>3, <1>4, RecordedSteps DEF TypeInv
<1>6. past'.made = past.made + 1 /\ past.made \in Nat
  BY <1>1, PastTyped DEF TypeInv, Pasts
<1>7. at'[Main] = at[Main]
  BY <1>1, ProcNames DEF TypeInv, Become
<1>8. MaxCallInRound(snap'.steps, round') = past'.made
  <2>1. 1 + past.made = past.made + 1
    BY <1>6
  <2> QED
    BY <1>1, <1>2, <1>5, <1>6, <2>1
<1>9. RowsInv'
  <2>1. round' = round /\ round' > 0 /\ round' # 0 /\ ThisRound' = ThisRound
    BY <1>1, <1>3 DEF ThisRound
  <2>2. \A i \in 1..Len(snap'.steps) : snap'.steps[i].round <= ThisRound'
    BY <1>1, <1>2, <1>5, <2>1
  <2> QED
    BY <1>8, <2>1, <2>2 DEF RowsInv
<1> QED
  BY <1>1, <1>9, WantsShape, SnapStep

(* What is pruned is used by nobody, or the history says so.               *)
LEMMA SnapPrune ==
  ASSUME Inv, TypeInv, ~past.unlinked, SnapInv, PruneLive \/ PruneLocks
  PROVE  past'.unlinked \/ SnapInv'
<1>1. /\ past' = [past EXCEPT !.unlinked = UnderSomebody]
      /\ Become(Pruner, Idle) \/ Become(Pruner, [Idle EXCEPT !.job = "locks"])
  BY DEF PruneLive, PruneLocks
<1>2. past'.unlinked = UnderSomebody
  BY <1>1 DEF TypeInv, Pasts
<1>3. Main \in Procs /\ Pruner \in Procs /\ Main # Pruner
  BY ProcNames
<1>4. ASSUME ~UnderSomebody
      PROVE  SnapInv'
  <2>0. PICK s : Become(Pruner, s) /\ s.step = "none"
    BY <1>1, WantsShape
  <2>1. at'[Pruner].step = "none" /\ \A q \in Procs : q # Pruner => at'[q] = at[q]
    BY <1>3, <2>0 DEF TypeInv, Become
  <2>2. \A q \in Procs : q # Pruner => at[q] = Idle
    BY <1>4 DEF UnderSomebody
  <2>3. \A q \in Procs : ~Held(q)'
    BY <2>1, <2>2, WantsShape DEF Held
  <2>4. at'[Main].job \notin Going
    BY <1>3, <2>1, <2>2, WantsShape DEF Going
  <2> QED
    BY <2>3, <2>4 DEF SnapInv, RowsInv, Going
<1> QED
  BY <1>2, <1>4

LEMMA StaysUnlinked ==
  ASSUME TypeInv, past.unlinked, [Next]_vars PROVE past'.unlinked
<1>1. past \in Pasts
  BY DEF TypeInv
<1>2. CASE PruneLive \/ PruneLocks
  <2> DEFINE under == UnderSomebody
  <2>1. past' = [past EXCEPT !.unlinked = under] /\ under
    BY <1>2 DEF PruneLive, PruneLocks, UnderSomebody
  <2> HIDE DEF under
  <2> QED
    BY <1>1, <2>1 DEF Pasts
<1>3. CASE NoteRoundStart
  <2> DEFINE made == Cardinality(CallsIn(at[Main].snap.steps, round + 1))
             late == IF past.pending THEN past.late + 1 ELSE past.late
  <2>1. past' = [past EXCEPT !.made = made, !.late = late]
    BY <1>3 DEF NoteRoundStart
  <2> HIDE DEF made, late
  <2> QED
    BY <1>1, <2>1 DEF Pasts
<1>4. CASE Deliver
  <2> DEFINE given == past.handed \o Pending(at[Main].steer.notes)
  <2>1. past' = [past EXCEPT !.handed = given]
    BY <1>4 DEF Deliver
  <2> HIDE DEF given
  <2> QED
    BY <1>1, <2>1 DEF Pasts
<1>5. CASE (\E ok \in BOOLEAN : ForcedNone(ok)) \/ \E t \in Tools : RecordToolCall(t)
  BY <1>1, <1>5 DEF Pasts, ForcedNone, RecordToolCall
<1>6. CASE Attempt \/ RoundBoundary
  BY <1>1, <1>6 DEF Pasts, Attempt, RoundBoundary
<1>7. CASE \E h \in Handlers : \/ \E kind \in Kinds : Request(h, kind)
                               \/ AddOperatorNote(h) \/ RequestForceSubmitNone(h)
                               \/ RequestAbort(h)
  BY <1>1, <1>7 DEF Pasts, Request, AddOperatorNote, RequestForceSubmitNone, RequestAbort
<1>8. CASE UNCHANGED past
  BY <1>8
<1>9. CASE \/ \E p \in Procs : Open(p) \/ Lock(p)
           \/ \E T \in SUBSET Tools : ModelAnswers(T)
           \/ \E job \in {"boundary", "unbind"} : RoundEnds(job)
  <2>1. \A p \in Procs : Open(p) \/ Lock(p) => UNCHANGED past
    BY DEF Open, Lock
  <2>2. \A T \in SUBSET Tools : ModelAnswers(T) => UNCHANGED past
    BY DEF ModelAnswers
  <2>3. \A job : RoundEnds(job) => UNCHANGED past
    BY DEF RoundEnds
  <2> QED
    BY <1>8, <1>9, <2>1, <2>2, <2>3
<1>10. CASE BindTask \/ HeartbeatDue \/ HeartbeatTouch \/ UnbindTask \/ Killed \/ PruneLook
  BY <1>8, <1>10 DEF BindTask, HeartbeatDue, HeartbeatTouch, UnbindTask, Killed, PruneLook
<1>11. CASE UNCHANGED vars
  BY <1>8, <1>11 DEF vars
<1> QED
  BY <1>2, <1>3, <1>4, <1>5, <1>6, <1>7, <1>8, <1>9, <1>10, <1>11 DEF Next

LEMMA SnapNext ==
  ASSUME Inv, TypeInv, ~past.unlinked, SnapInv, [Next]_vars
  PROVE  past'.unlinked \/ SnapInv'
<1>1. CASE \E p \in Procs : Open(p) \/ Lock(p)
  BY <1>1, SnapLock
<1>2. CASE Attempt \/ BindTask \/ UnbindTask \/ RoundBoundary \/ Deliver
           \/ \E job \in {"boundary", "unbind"} : RoundEnds(job)
  BY <1>2, SnapMain
<1>3. CASE Killed \/ \E T \in SUBSET Tools : ModelAnswers(T)
  BY <1>3, SnapMany
<1>4. CASE NoteRoundStart \/ \E ok \in BOOLEAN : ForcedNone(ok)
  BY <1>4, SnapRound, SnapForced
<1>5. CASE \E t \in Tools : RecordToolCall(t)
  BY <1>5, SnapRecord
<1>6. CASE \/ HeartbeatDue \/ HeartbeatTouch \/ PruneLook
           \/ \E h \in Handlers : \/ \E kind \in Kinds : Request(h, kind)
                                  \/ AddOperatorNote(h) \/ RequestForceSubmitNone(h)
                                  \/ RequestAbort(h)
  BY <1>6, SnapOthers
<1>7. CASE PruneLive \/ PruneLocks
  BY <1>7, SnapPrune
<1>8. CASE UNCHANGED vars
  BY <1>8 DEF vars, SnapInv, RowsInv, Held, ThisRound
<1> QED
  BY <1>1, <1>2, <1>3, <1>4, <1>5, <1>6, <1>7, <1>8 DEF Next

(* Until something is pruned under its users the calls of a round are      *)
(* numbered one after the other, whichever threads record them and however *)
(* many rows have been dropped (record_tool_call).                         *)
THEOREM CallsInOrder == Spec => []CallsNumbered
<1> DEFINE Both == Inv /\ TypeInv /\ (past.unlinked \/ SnapInv)
<1>1. Init => Both
  <2> SUFFICES ASSUME Init
               PROVE  Both
    OBVIOUS
  <2>1. \A p \in Procs : at[p].job = "idle" /\ at[p].step = "none"
    BY WantsShape DEF Init
  <2>2. SnapInv
    BY <2>1, ProcNames DEF SnapInv, RowsInv, Going, Held
  <2> QED
    BY <2>2, InitInv, TypeInit
<1>2. Both /\ [Next]_vars => Both'
  <2> SUFFICES ASSUME Both, [Next]_vars
               PROVE  Both'
    OBVIOUS
  <2>1. Inv' /\ TypeInv'
    BY NextInv, TypeNext
  <2>2. past.unlinked => past'.unlinked
    BY StaysUnlinked
  <2> QED
    BY <2>1, <2>2, SnapNext
<1>3. Both => CallsNumbered
  <2> SUFFICES ASSUME TypeInv, SnapInv
               PROVE  CallsNumbered
    BY DEF CallsNumbered
  <2>1. snap.steps \in Seq(RowSet) /\ Increasing(snap.steps)
    BY DEF TypeInv, GoodSnap, Snaps
  <2>2. DOMAIN snap.steps = 1..Len(snap.steps)
    BY <2>1
  <2>3. \A i, j \in DOMAIN snap.steps :
          i < j /\ snap.steps[i].round = snap.steps[j].round =>
            snap.steps[i].call < snap.steps[j].call
    BY <2>1, <2>2 DEF Increasing
  <2> QED
    BY <2>3 DEF CallsNumbered, SnapInv, RowsInv
<1> QED
  BY <1>1, <1>2, <1>3, PTL DEF Spec

-----------------------------------------------------------------------------
(* Until something is pruned under its users: the notes handed over are in *)
(* their order, and whatever is not consumed yet, or consumed and not yet  *)
(* handed over, comes after them.                                          *)
Fresh(notes, q) ==
  \A i \in 1..Len(notes) : notes[i].consumed \/ \A k \in 1..Len(q) : q[k] < notes[i].id

HandedInv ==
  /\ Rising(past.handed) /\ \A k \in 1..Len(past.handed) : past.handed[k] <= past.given
  /\ Fresh(steer.notes, past.handed)
  /\ at[Main].job = "deliver" =>
       LET mine == at[Main].steer.notes
       IN  /\ at[Main].step = "none" /\ InOrder(mine)
           /\ Fresh(mine, past.handed) /\ Fresh(steer.notes, Pending(mine))
           /\ \A i \in 1..Len(mine) : mine[i].id <= past.given

LEMMA NoteIds ==
  \A notes \in Seq(NoteSet) : \A i \in 1..Len(notes) :
    notes[i] \in NoteSet /\ notes[i].id \in Ids /\ notes[i].consumed \in BOOLEAN
<1>1. \A x \in NoteSet : x.id \in Ids /\ x.consumed \in BOOLEAN
  BY DEF NoteSet, Ids
<1>2. \A notes \in Seq(NoteSet) : \A i \in 1..Len(notes) : notes[i] \in NoteSet
  OBVIOUS
<1> QED
  BY <1>1, <1>2

LEMMA InboxTyped ==
  TypeInv => /\ steer \in Steers /\ steer.notes \in Seq(NoteSet)
             /\ past \in Pasts /\ past.handed \in Seq(Ids) /\ past.given \in Nat
             /\ \A p \in Procs : at[p].steer.notes \in Seq(NoteSet)
<1> SUFFICES ASSUME TypeInv
             PROVE  /\ steer \in Steers /\ steer.notes \in Seq(NoteSet)
                    /\ past \in Pasts /\ past.handed \in Seq(Ids) /\ past.given \in Nat
                    /\ \A p \in Procs : at[p].steer.notes \in Seq(NoteSet)
  OBVIOUS
<1>1. \A p \in Procs : at[p].steer.notes \in Seq(NoteSet)
  BY SeatParts DEF GoodSteer, Steers
<1>2. past \in Pasts
  BY DEF TypeInv
<1> QED
  BY <1>1, <1>2, PastTyped DEF TypeInv, GoodSteer, Steers, Ids

(* Most steps leave notes and history, and the main thread does not start  *)
(* to deliver.                                                             *)
LEMMA HandedStep ==
  ASSUME TypeInv, HandedInv, NEW p \in Procs, NEW s, Become(p, s),
         p = Main => s.job # "deliver", steer'.notes = steer.notes,
         past'.given = past.given, past'.handed = past.handed
  PROVE  HandedInv'
<1>1. at'[p] = s /\ \A q \in Procs : q # p => at'[q] = at[q]
  BY DEF TypeInv, Become
<1>2. at'[Main] = at[Main] \/ at'[Main].job # "deliver"
  BY <1>1, ProcNames
<1>3. CASE at'[Main] = at[Main]
  BY <1>3 DEF HandedInv
<1>4. CASE at'[Main].job # "deliver"
  BY <1>4 DEF HandedInv
<1> QED
  BY <1>2, <1>3, <1>4

(* Nobody else comes between the read and the write of a holder.           *)
LEMMA HandedMain ==
  ASSUME Inv, TypeInv, ~past.unlinked, HandedInv,
         Attempt \/ BindTask \/ UnbindTask \/ NoteRoundStart
                 \/ (\E ok \in BOOLEAN : ForcedNone(ok))
                 \/ \E job \in {"boundary", "unbind"} : RoundEnds(job)
  PROVE  HandedInv'
<1>0. past \in Pasts /\ Main \in Procs
  BY InboxTyped, ProcNames
<1>1. /\ Wants("bind").job = "bind" /\ Wants("start").job = "start" /\ Idle.job = "idle"
      /\ Wants("boundary").job = "boundary" /\ Wants("unbind").job = "unbind"
      /\ [Idle EXCEPT !.job = "model"].job = "model"
  BY WantsShape
<1>2. CASE Attempt
  <2>1. /\ Become(Main, Wants("bind")) /\ UNCHANGED steer
        /\ past' = [past EXCEPT !.late = 0]
    BY <1>2 DEF Attempt
  <2>2. past'.given = past.given /\ past'.handed = past.handed
    BY <1>0, <2>1 DEF Pasts
  <2> QED
    BY <1>0, <1>1, <2>1, <2>2, HandedStep
<1>3. CASE BindTask \/ UnbindTask
  <2>1. /\ Become(Main, Wants("boundary")) \/ Become(Main, Idle)
        /\ UNCHANGED <<steer, past>>
    BY <1>3 DEF BindTask, UnbindTask
  <2> QED
    BY <1>0, <1>1, <2>1, HandedStep
<1>4. CASE NoteRoundStart
  <2> DEFINE made == Cardinality(CallsIn(at[Main].snap.steps, round + 1))
             late == IF past.pending THEN past.late + 1 ELSE past.late
  <2>1. /\ Become(Main, [Idle EXCEPT !.job = "model"]) /\ UNCHANGED steer
        /\ past' = [past EXCEPT !.made = made, !.late = late]
    BY <1>4 DEF NoteRoundStart
  <2> HIDE DEF made, late
  <2>2. past'.given = past.given /\ past'.handed = past.handed
    BY <1>0, <2>1 DEF Pasts
  <2> QED
    BY <1>0, <1>1, <2>1, <2>2, HandedStep
<1>5. CASE \E ok \in BOOLEAN : ForcedNone(ok)
  <2>1. /\ Become(Main, Wants("unbind")) \/ Become(Main, Wants("start"))
        /\ Held(Main) /\ steer' = at[Main].steer
        /\ past' = [past EXCEPT !.made = past.made + 1]
    BY <1>5 DEF ForcedNone, Holds, Held
  <2>2. past'.given = past.given /\ past'.handed = past.handed
    BY <1>0, <2>1 DEF Pasts
  <2>3. steer' = steer
    BY <1>0, <2>1 DEF Inv, LockInv
  <2> QED
    BY <1>0, <1>1, <2>1, <2>2, <2>3, HandedStep
<1>6. CASE \E job \in {"boundary", "unbind"} : RoundEnds(job)
  <2>1. /\ Become(Main, Wants("unbind")) \/ Become(Main, Wants("boundary"))
        /\ UNCHANGED <<steer, past>>
    BY <1>6 DEF RoundEnds
  <2> QED
    BY <1>0, <1>1, <2>1, HandedStep
<1> QED
  BY <1>2, <1>3, <1>4, <1>5, <1>6

LEMMA HandedOthers ==
  ASSUME Inv, TypeInv, ~past.unlinked, HandedInv,
         \/ HeartbeatDue \/ HeartbeatTouch \/ PruneLook \/ PruneLive \/ PruneLocks
         \/ \E t \in Tools : RecordToolCall(t)
         \/ \E h \in Handlers : \/ \E kind \in Kinds : Request(h, kind)
                                \/ RequestForceSubmitNone(h) \/ RequestAbort(h)
  PROVE  HandedInv'
<1>0. past \in Pasts
  BY InboxTyped
<1>1. CASE HeartbeatDue \/ HeartbeatTouch \/ PruneLook
  <2>1. PICK p \in Procs \ {Main} : \E s : Become(p, s) /\ UNCHANGED <<steer, past>>
    BY <1>1, ProcNames DEF HeartbeatDue, HeartbeatTouch, PruneLook
  <2> QED
    BY <2>1, HandedStep
<1>2. CASE PruneLive \/ PruneLocks
  <2> DEFINE under == UnderSomebody
  <2>1. PICK s : /\ Become(Pruner, s) /\ UNCHANGED steer
                 /\ past' = [past EXCEPT !.unlinked = under]
    BY <1>2 DEF PruneLive, PruneLocks
  <2> HIDE DEF under
  <2>2. past'.given = past.given /\ past'.handed = past.handed
    BY <1>0, <2>1 DEF Pasts
  <2> QED
    BY <2>1, <2>2, ProcNames, HandedStep
<1>3. CASE \E t \in Tools : RecordToolCall(t)
  <2>1. PICK t \in Tools : /\ Become(t, Idle) /\ UNCHANGED steer
                           /\ past' = [past EXCEPT !.made = past.made + 1]
    BY <1>3 DEF RecordToolCall
  <2>2. past'.given = past.given /\ past'.handed = past.handed
    BY <1>0, <2>1 DEF Pasts
  <2> QED
    BY <2>1, <2>2, ProcNames, HandedStep
<1>4. CASE \E h \in Handlers, kind \in Kinds : Request(h, kind)
  <2>1. PICK h \in Handlers : \E s : Become(h, s) /\ UNCHANGED <<steer, past>>
    BY <1>4 DEF Request
  <2> QED
    BY <2>1, ProcNames, HandedStep
<1>5. CASE \E h \in Handlers : RequestForceSubmitNone(h) \/ RequestAbort(h)
  <2>1. PICK h \in Handlers :
          /\ Become(h, Idle) /\ \E kind : Holds(h, kind)
          /\ \/ steer' = steer \/ steer' = [at[h].steer EXCEPT !.force = "asked"]
             \/ steer' = [at[h].steer EXCEPT !.abort = "asked"]
          /\ past' = past \/ past' = [past EXCEPT !.pending = TRUE]
    BY <1>5 DEF RequestForceSubmitNone, RequestAbort
  <2>2. past'.given = past.given /\ past'.handed = past.handed
    BY <1>0, <2>1 DEF Pasts
  <2>3. at[h].steer = steer /\ h \in Procs /\ h # Main /\ steer \in Steers
    BY <2>1, HandlersHold, InboxTyped
  <2>4. steer'.notes = steer.notes
    BY <2>1, <2>3 DEF Steers
  <2> QED
    BY <2>1, <2>2, <2>3, <2>4, HandedStep
<1> QED
  BY <1>1, <1>2, <1>3, <1>4, <1>5

LEMMA HandedLock ==
  ASSUME TypeInv, HandedInv, NEW p \in Procs, Open(p) \/ Lock(p) PROVE HandedInv'
<1> DEFINE opened == [at[p] EXCEPT !.step = "wait", !.fd = file']
           locked == [at[p] EXCEPT !.step = "held", !.steer = steer, !.snap = snap]
<1>1. at[p] \in Seats /\ UNCHANGED <<steer, past>> /\ at[p].step # "none"
  BY SeatParts DEF Open, Lock
<1>2. p = Main => at[p].job # "deliver"
  BY <1>1 DEF HandedInv
<1>3. opened.job = at[p].job /\ locked.job = at[p].job
  BY <1>1 DEF Seats
<1>4. Become(p, opened) \/ Become(p, locked)
  BY DEF Open, Lock
<1> HIDE DEF opened, locked
<1> QED
  BY <1>1, <1>2, <1>3, <1>4, HandedStep

LEMMA HandedMany ==
  ASSUME TypeInv, HandedInv, Killed \/ \E T \in SUBSET Tools : ModelAnswers(T)
  PROVE  HandedInv'
<1>1. UNCHANGED <<steer, past>>
  BY DEF Killed, ModelAnswers
<1>2. CASE Killed
  <2>1. at' = [p \in Procs |-> IF p \in Worker THEN Idle ELSE at[p]]
    BY <1>2 DEF Killed
  <2>2. at'[Main].job # "deliver"
    BY <2>1, ProcNames, WantsShape DEF Worker
  <2> QED
    BY <1>1, <2>2 DEF HandedInv
<1>3. CASE \E T \in SUBSET Tools : ModelAnswers(T)
  <2>1. PICK T \in SUBSET Tools :
          at' = [p \in Procs |->
                   IF p \in T THEN Wants("record")
                   ELSE IF p # Main THEN at[p]
                   ELSE IF T = {} THEN Wants("unbind") ELSE [Idle EXCEPT !.job = "tools"]]
    BY <1>3 DEF ModelAnswers
  <2>2. at'[Main].job # "deliver"
    BY <2>1, ProcNames, WantsShape
  <2> QED
    BY <1>1, <2>2 DEF HandedInv
<1> QED
  BY <1>2, <1>3

(* The inbox is consumed.                                                  *)
LEMMA InboxInOrder ==
  ASSUME TypeInv, NotesInv
  PROVE  InOrder(steer.notes) /\ \A i \in 1..Len(steer.notes) : steer.notes[i].id <= past.given
<1> DEFINE ns == steer.notes
           g == past.given
<1>1. /\ ns \in Seq(NoteSet) /\ g \in Nat /\ Len(ns) \in Nat
      /\ \A i \in 1..Len(ns) : ns[i].id + Len(ns) = g + i
  BY DEF NotesInv
<1>2. \A i \in 1..Len(ns) : ns[i].id \in Nat
  BY <1>1, NoteIds DEF Ids
<1> HIDE DEF ns, g
<1>3. ASSUME NEW i \in 1..Len(ns), NEW j \in 1..Len(ns), i < j
      PROVE  ns[i].id < ns[j].id
  <2>1. PICK a \in Nat : a = ns[i].id
    BY <1>2
  <2>2. PICK b \in Nat : b = ns[j].id
    BY <1>2
  <2>3. a + Len(ns) = g + i /\ b + Len(ns) = g + j
    BY <1>1, <2>1, <2>2
  <2>4. a < b
    BY <1>1, <1>3, <2>3
  <2> QED
    BY <2>1, <2>2, <2>4
<1>4. ASSUME NEW i \in 1..Len(ns)
      PROVE  ns[i].id <= g
  <2>1. PICK a \in Nat : a = ns[i].id
    BY <1>2
  <2>2. a + Len(ns) = g + i
    BY <1>1, <2>1
  <2>3. a <= g
    BY <1>1, <2>2
  <2> QED
    BY <2>1, <2>3
<1> QED
  BY <1>3, <1>4 DEF InOrder, ns, g

LEMMA HandedBoundary ==
  ASSUME Inv, TypeInv, ~past.unlinked, HandedInv, RoundBoundary PROVE HandedInv'
<1> DEFINE s == at[Main].steer
<1>1. Main \in Procs /\ at[Main].step = "held" /\ at[Main] \in Seats
  BY ProcNames, SeatParts DEF RoundBoundary, Holds
<1>2. s = steer /\ NotesInv
  BY <1>1 DEF Inv, LockInv, Held
<1>3. s \in Steers /\ s.notes \in Seq(NoteSet) /\ past \in Pasts
  BY <1>2, InboxTyped
<1>4. CASE s.abort = "asked"
  <2>1. /\ steer' = [s EXCEPT !.abort = "seen"] /\ Become(Main, Wants("unbind"))
        /\ past' = [past EXCEPT !.pending = FALSE, !.late = 0]
    BY <1>4 DEF RoundBoundary
  <2> HIDE DEF s
  <2>2. steer'.notes = steer.notes
    BY <1>2, <1>3, <2>1 DEF Steers
  <2>3. past'.given = past.given /\ past'.handed = past.handed
    BY <1>3, <2>1 DEF Pasts
  <2>4. Wants("unbind").job = "unbind"
    BY WantsShape
  <2> QED
    BY <1>1, <2>1, <2>2, <2>3, <2>4, HandedStep
<1>5. CASE s.abort # "asked" /\ s.force = "asked"
  <2> DEFINE t == [at[Main] EXCEPT !.job = "forced", !.steer = steer', !.snap = snap]
  <2>1. /\ steer' = [s EXCEPT !.force = "applied"] /\ Become(Main, t) /\ UNCHANGED past
    BY <1>5 DEF RoundBoundary
  <2> HIDE DEF s
  <2>2. steer'.notes = steer.notes
    BY <1>2, <1>3, <2>1 DEF Steers
  <2>3. t.job = "forced"
    BY <1>1 DEF Seats
  <2> HIDE DEF t
  <2> QED
    BY <1>1, <2>1, <2>2, <2>3, HandedStep
<1>6. CASE s.abort # "asked" /\ s.force # "asked"
  <2> DEFINE t == [Idle EXCEPT !.job = "deliver", !.steer = s]
             mine == steer.notes
  <2>1. /\ steer' = IF Pending(s.notes) = <<>> THEN steer ELSE NotesTaken(s)
        /\ Become(Main, t) /\ UNCHANGED past
    BY <1>6 DEF RoundBoundary
  <2>2. t.job = "deliver" /\ t.step = "none" /\ t.steer = s
    BY DEF Idle
  <2>3. at'[Main] = t
    BY <2>1, MainAt
  <2>4. at'[Main].job = "deliver" /\ at'[Main].step = "none" /\ at'[Main].steer.notes = mine
    BY <1>2, <2>2, <2>3
  <2>5. mine \in Seq(NoteSet)
    BY <1>2, <1>3
  <2>6. \/ steer' = steer /\ Pending(mine) = <<>>
        \/ steer'.notes = AllConsumed(mine)
    <3>1. NotesTaken(s).notes = AllConsumed(mine)
      BY <1>2, <1>3 DEF NotesTaken, Steers
    <3> QED
      BY <1>2, <2>1, <3>1
  <2> HIDE DEF mine, t, s
  <2>7. Fresh(mine, past.handed)
    BY DEF HandedInv, mine
  <2>8. Fresh(steer'.notes, past.handed) /\ Fresh(steer'.notes, Pending(mine))
    <3>1. CASE steer' = steer /\ Pending(mine) = <<>>
      <4>1. steer'.notes = mine
        BY <3>1 DEF mine
      <4>2. Len(Pending(mine)) = 0
        BY <3>1
      <4> QED
        BY <2>7, <4>1, <4>2 DEF Fresh
    <3>2. CASE steer'.notes = AllConsumed(mine)
      <4>1. \A i \in 1..Len(steer'.notes) : steer'.notes[i].consumed
        BY <2>5, <3>2, TakenNotes
      <4> QED
        BY <4>1 DEF Fresh
    <3> QED
      BY <2>6, <3>1, <3>2
  <2>9. InOrder(mine) /\ \A i \in 1..Len(mine) : mine[i].id <= past.given
    BY <1>2, InboxInOrder DEF mine
  <2> QED
    BY <2>1, <2>4, <2>7, <2>8, <2>9 DEF HandedInv
<1> QED
  BY <1>4, <1>5, <1>6

(* What was consumed is handed over.                                       *)
LEMMA RisingOn ==
  ASSUME NEW a \in Seq(Ids), NEW b \in Seq(Ids), Rising(a), Rising(b),
         \A i \in 1..Len(a), j \in 1..Len(b) : a[i] < b[j]
  PROVE  /\ Rising(a \o b)
         /\ \A k \in 1..Len(a \o b) : \/ \E i \in 1..Len(a) : (a \o b)[k] = a[i]
                                      \/ \E j \in 1..Len(b) : (a \o b)[k] = b[j]
<1> DEFINE all == a \o b
           m == Len(a)
           n == Len(b)
<1>1. /\ all \in Seq(Ids) /\ m \in Nat /\ n \in Nat /\ Len(all) = m + n
      /\ \A k \in 1..Len(all) : all[k] = IF k <= m THEN a[k] ELSE b[k - m]
  OBVIOUS
<1>2. \A k \in 1..(m + n) : k \in 1..m \/ (~(k <= m) /\ k - m \in 1..n)
  BY <1>1
<1> HIDE DEF all, m, n
<1>3. \A k \in 1..Len(all) : \/ k \in 1..m /\ all[k] = a[k]
                             \/ ~(k <= m) /\ k - m \in 1..n /\ all[k] = b[k - m]
  <2> SUFFICES ASSUME NEW k \in 1..Len(all)
               PROVE  \/ k \in 1..m /\ all[k] = a[k]
                      \/ ~(k <= m) /\ k - m \in 1..n /\ all[k] = b[k - m]
    OBVIOUS
  <2>1. k \in 1..(m + n)
    BY <1>1
  <2>2. CASE k \in 1..m
    <3>1. k <= m
      BY <1>1, <2>2
    <3> QED
      BY <1>1, <2>2, <3>1
  <2>3. CASE ~(k <= m) /\ k - m \in 1..n
    BY <1>1, <2>3
  <2> QED
    BY <1>2, <2>1, <2>2, <2>3
<1>4. ASSUME NEW i \in 1..Len(all), NEW j \in 1..Len(all), i < j
      PROVE  all[i] < all[j]
  <2>1. CASE i \in 1..m /\ all[i] = a[i]
    <3>1. CASE j \in 1..m /\ all[j] = a[j]
      BY <1>4, <2>1, <3>1 DEF Rising, m
    <3>2. CASE j - m \in 1..n /\ all[j] = b[j - m]
      BY <2>1, <3>2 DEF m, n
    <3> QED
      BY <1>3, <3>1, <3>2
  <2>2. CASE ~(i <= m) /\ i - m \in 1..n /\ all[i] = b[i - m]
    <3>1. ~(j \in 1..m)
      BY <1>1, <1>4, <2>2
    <3>2. j - m \in 1..n /\ all[j] = b[j - m]
      BY <1>3, <3>1
    <3>3. i - m < j - m
      BY <1>1, <1>4
    <3>4. b[i - m] < b[j - m]
      BY <2>2, <3>2, <3>3 DEF Rising, n
    <3> QED
      BY <2>2, <3>2, <3>4
  <2> QED
    BY <1>3, <2>1, <2>2
<1>5. Rising(all)
  BY <1>4 DEF Rising
<1>6. \A k \in 1..Len(all) : \/ \E i \in 1..m : all[k] = a[i]
                             \/ \E j \in 1..n : all[k] = b[j]
  BY <1>3
<1> QED
  BY <1>5, <1>6 DEF all, m, n

LEMMA HandedDeliver ==
  ASSUME TypeInv, HandedInv, Deliver PROVE HandedInv'
<1> DEFINE mine == at[Main].steer.notes
           new == Pending(mine)
           old == past.handed
           all == old \o new
           g == past.given
<1>1. /\ at[Main].job = "deliver" /\ UNCHANGED steer /\ Become(Main, Wants("start"))
      /\ past' = [past EXCEPT !.handed = all]
  BY DEF Deliver
<1>2. /\ mine \in Seq(NoteSet) /\ old \in Seq(Ids) /\ g \in Nat /\ past \in Pasts
      /\ steer.notes \in Seq(NoteSet)
  BY InboxTyped, ProcNames
<1>3. /\ InOrder(mine) /\ Fresh(mine, old) /\ Fresh(steer.notes, new) /\ Fresh(steer.notes, old)
      /\ \A i \in 1..Len(mine) : mine[i].id <= g
      /\ Rising(old) /\ \A k \in 1..Len(old) : old[k] <= g
  BY <1>1 DEF HandedInv
<1>4. /\ new \in Seq(Ids) /\ Rising(new)
      /\ \A k \in 1..Len(new) : \E i \in 1..Len(mine) : ~mine[i].consumed /\ new[k] = mine[i].id
  BY <1>2, <1>3, PendingNotes
<1>5. at'[Main].job = "start"
  BY <1>1, MainAt, WantsShape
<1> HIDE DEF mine, new, old, all, g
<1>6. past'.handed = all /\ past'.given = g
  BY <1>1, <1>2 DEF Pasts, g
<1>7. \A i \in 1..Len(old), j \in 1..Len(new) : old[i] < new[j]
  BY <1>3, <1>4 DEF Fresh
<1>8. /\ Rising(all)
      /\ \A k \in 1..Len(all) : \/ \E i \in 1..Len(old) : all[k] = old[i]
                                \/ \E j \in 1..Len(new) : all[k] = new[j]
  BY <1>2, <1>3, <1>4, <1>7, RisingOn DEF all
<1>9. \A k \in 1..Len(all) : all[k] <= g
  <2>1. \A k \in 1..Len(new) : new[k] <= g
    BY <1>3, <1>4
  <2> QED
    BY <1>3, <1>8, <2>1
<1>10. Fresh(steer.notes, all)
  BY <1>3, <1>8 DEF Fresh
<1> QED
  BY <1>1, <1>5, <1>6, <1>8, <1>9, <1>10 DEF HandedInv

(* A note more.                                                            *)
LEMMA HandedNote ==
  ASSUME Inv, TypeInv, ~past.unlinked, HandedInv, NEW h \in Handlers, AddOperatorNote(h)
  PROVE  HandedInv'
<1> DEFINE new == [id |-> past.given + 1, consumed |-> FALSE]
           more == LastNotes(Append(steer.notes, new))
           g == past.given
           ns == steer.notes
<1>1. /\ Holds(h, "note") /\ Become(h, Idle)
      /\ steer' = [at[h].steer EXCEPT !.notes = LastNotes(Append(at[h].steer.notes, new))]
      /\ past' = [past EXCEPT !.given = g + 1]
  BY DEF AddOperatorNote
<1>2. h \in Procs /\ h # Main /\ at[h].steer = steer /\ NotesInv
  BY <1>1, HandlersHold
<1>3. /\ steer \in Steers /\ ns \in Seq(NoteSet) /\ past \in Pasts /\ g \in Nat
      /\ past.handed \in Seq(Ids) /\ Len(ns) <= NotesCap
  BY <1>2, InboxTyped DEF NotesInv
<1>4. at'[Main] = at[Main]
  BY <1>1, <1>2, MainStays
<1>5. steer' = [steer EXCEPT !.notes = more]
  BY <1>1, <1>2
<1>6. new \in NoteSet /\ new.id = g + 1 /\ g + 1 \in Nat
  BY <1>3 DEF NoteSet
<1> HIDE DEF new
<1>7. \A i \in 1..Len(more) : more[i] = new \/ \E j \in 1..Len(ns) : more[i] = ns[j]
  BY <1>3, <1>6, KeptNotes
<1> HIDE DEF more
<1>8. steer'.notes = more
  BY <1>3, <1>5 DEF Steers
<1>9. past'.given = g + 1 /\ past'.handed = past.handed
  BY <1>1, <1>3 DEF Pasts
<1> HIDE DEF g, ns
<1>10. ASSUME NEW q \in Seq(Ids), Fresh(ns, q), \A k \in 1..Len(q) : q[k] <= g
       PROVE  Fresh(more, q)
  <2> SUFFICES ASSUME NEW i \in 1..Len(more), ~more[i].consumed, NEW k \in 1..Len(q)
               PROVE  q[k] < more[i].id
    BY DEF Fresh
  <2>1. CASE more[i] = new
    <3>1. q[k] \in Nat /\ q[k] <= g
      BY <1>10 DEF Ids
    <3>2. q[k] < g + 1
      BY <1>3, <3>1 DEF g
    <3> QED
      BY <1>6, <2>1, <3>2
  <2>2. CASE \E j \in 1..Len(ns) : more[i] = ns[j]
    BY <1>10, <2>2 DEF Fresh
  <2> QED
    BY <1>7, <2>1, <2>2
<1>11. \A n \in Nat : n <= g => n <= g + 1
  BY <1>3 DEF g
<1>12. /\ Rising(past.handed) /\ \A k \in 1..Len(past.handed) : past.handed[k] <= g
       /\ Fresh(ns, past.handed)
  BY DEF HandedInv, g, ns
<1>13. \A k \in 1..Len(past.handed) : past.handed[k] <= g + 1
  BY <1>3, <1>11, <1>12 DEF Ids
<1>14. Fresh(more, past.handed)
  BY <1>3, <1>10, <1>12
<1>15. CASE at[Main].job = "deliver"
  <2> DEFINE mine == at[Main].steer.notes
  <2>1. mine \in Seq(NoteSet)
    BY InboxTyped, ProcNames
  <2>2. /\ at[Main].step = "none" /\ InOrder(mine) /\ Fresh(mine, past.handed)
        /\ Fresh(ns, Pending(mine)) /\ \A i \in 1..Len(mine) : mine[i].id <= g
    BY <1>15 DEF HandedInv, g, ns
  <2>3. at'[Main].steer.notes = mine /\ at'[Main].step = "none"
    BY <1>4, <2>2
  <2> HIDE DEF mine
  <2>4. /\ Pending(mine) \in Seq(Ids)
        /\ \A k \in 1..Len(Pending(mine)) : Pending(mine)[k] <= g
    BY <2>1, <2>2, PendingNotes
  <2>5. Fresh(more, Pending(mine))
    BY <1>10, <2>2, <2>4
  <2>6. \A i \in 1..Len(mine) : mine[i].id <= g + 1
    BY <1>11, <2>1, <2>2, NoteIds DEF Ids
  <2> QED
    BY <1>8, <1>9, <1>12, <1>13, <1>14, <2>2, <2>3, <2>5, <2>6 DEF HandedInv
<1>16. CASE at[Main].job # "deliver"
  BY <1>4, <1>8, <1>9, <1>12, <1>13, <1>14, <1>16 DEF HandedInv
<1> QED
  BY <1>15, <1>16

LEMMA HandedNext ==
  ASSUME Inv, TypeInv, ~past.unlinked, HandedInv, [Next]_vars
  PROVE  HandedInv'
<1>1. CASE \E p \in Procs : Open(p) \/ Lock(p)
  BY <1>1, HandedLock
<1>2. CASE Attempt \/ BindTask \/ UnbindTask \/ NoteRoundStart
           \/ (\E ok \in BOOLEAN : ForcedNone(ok))
           \/ \E job \in {"boundary", "unbind"} : RoundEnds(job)
  BY <1>2, HandedMain
<1>3. CASE RoundBoundary \/ Deliver
  BY <1>3, HandedBoundary, HandedDeliver
<1>4. CASE Killed \/ \E T \in SUBSET Tools : ModelAnswers(T)
  BY <1>4, HandedMany
<1>5. CASE \/ HeartbeatDue \/ HeartbeatTouch \/ PruneLook \/ PruneLive \/ PruneLocks
           \/ \E t \in Tools : RecordToolCall(t)
           \/ \E h \in Handlers : \/ \E kind \in Kinds : Request(h, kind)
                                  \/ RequestForceSubmitNone(h) \/ RequestAbort(h)
  BY <1>5, HandedOthers
<1>6. CASE \E h \in Handlers : AddOperatorNote(h)
  BY <1>6, HandedNote
<1>7. CASE UNCHANGED vars
  BY <1>7 DEF vars, HandedInv
<1> QED
  BY <1>1, <1>2, <1>3, <1>4, <1>5, <1>6, <1>7 DEF Next

(* Until something is pruned under its users, whatever the worker's deaths *)
(* and the requests that come between: the last NotesCap notes accepted    *)
(* are in the inbox, and the agent gets notes in their order and none of   *)
(* them twice (add_operator_note, apply_round_boundary).                   *)
THEOREM NotesInTheirOrder == Spec => []NotesKept
<1> DEFINE Both == Inv /\ TypeInv /\ (past.unlinked \/ HandedInv)
<1>1. Init => Both
  <2> SUFFICES ASSUME Init
               PROVE  Both
    OBVIOUS
  <2>1. at[Main].job = "idle"
    BY ProcNames, WantsShape DEF Init
  <2>2. past.handed = <<>> /\ steer.notes = <<>>
    BY DEF Init, Nothing, NoSteer
  <2>3. HandedInv
    BY <2>1, <2>2 DEF HandedInv, Rising, Fresh
  <2> QED
    BY <2>3, InitInv, TypeInit
<1>2. Both /\ [Next]_vars => Both'
  <2> SUFFICES ASSUME Both, [Next]_vars
               PROVE  Both'
    OBVIOUS
  <2>1. Inv' /\ TypeInv'
    BY NextInv, TypeNext
  <2>2. past.unlinked => past'.unlinked
    BY StaysUnlinked
  <2> QED
    BY <2>1, <2>2, HandedNext
<1>3. Both /\ LastNotesQueued => NotesKept
  <2> SUFFICES ASSUME TypeInv, HandedInv, LastNotesQueued, ~past.unlinked
               PROVE  NotesKept
    BY DEF NotesKept
  <2>1. steer.notes \in Seq(NoteSet) /\ past.handed \in Seq(Ids)
    BY InboxTyped
  <2>2. DOMAIN steer.notes = 1..Len(steer.notes) /\ DOMAIN past.handed = 1..Len(past.handed)
    BY <2>1
  <2> QED
    BY <2>2 DEF NotesKept, LastNotesQueued, HandedInv, Rising
<1> QED
  BY <1>1, <1>2, <1>3, NotesQueued, PTL DEF Spec
-----------------------------------------------------------------------------
(* run.lock.                                                               *)

(* Every variable keeps its type.                                          *)
THEOREM LockTypeCorrect == LockSpec => []LockTypeOK
<1>1. LockInit => LockTypeOK
  <2> SUFFICES ASSUME LockInit PROVE LockTypeOK
    OBVIOUS
  <2>1. used \in [crashes : Nat, ages : Nat]
    BY DEF LockInit
  <2>2. pc \in [Processes -> Steps]
    BY DEF LockInit, Steps
  <2>3. seen \in [Processes -> Locks \union {NoLock}]
    BY DEF LockInit
  <2> QED
    BY <2>1, <2>2, <2>3 DEF LockInit, LockTypeOK
<1>2. LockTypeOK /\ [LockNext]_lockVars => LockTypeOK'
  <2> SUFFICES ASSUME LockTypeOK, [LockNext]_lockVars PROVE LockTypeOK'
    OBVIOUS
  <2> USE DEF LockTypeOK, Processes, Steps, Goto
  <2>1. ASSUME NEW p \in Processes, Read(p) PROVE LockTypeOK'
    BY <2>1 DEF Read
  <2>2. ASSUME NEW p \in Processes, UnlinkStale(p) PROVE LockTypeOK'
    BY <2>2 DEF UnlinkStale
  <2>3. ASSUME NEW r \in Runners, Judge(r) PROVE LockTypeOK'
    BY <2>3 DEF Judge
  <2>4. ASSUME NEW r \in Runners, Create(r) PROVE LockTypeOK'
    <3>1. [owner |-> r, written |-> FALSE, old |-> FALSE] \in Locks
      BY DEF Locks
    <3> QED
      BY <2>4, <3>1 DEF Create
  <2>5. ASSUME NEW r \in Runners, Write(r) PROVE LockTypeOK'
    <3>1. lock.owner = r => lock \in Locks
      BY PidsAssumption DEF NoLock
    <3>2. lock \in Locks => [lock EXCEPT !.written = TRUE] \in Locks
      BY DEF Locks
    <3> QED
      BY <2>5, <3>1, <3>2 DEF Write
  <2>6. ASSUME NEW r \in Runners, FinishTask(r) \/ Release(r) PROVE LockTypeOK'
    BY <2>6 DEF FinishTask, Release
  <2>7. ASSUME NEW r \in Runners, UnlinkOwn(r) PROVE LockTypeOK'
    BY <2>7 DEF UnlinkOwn
  <2>8. ASSUME NEW r \in Runners, Crash(r) PROVE LockTypeOK'
    BY <2>8 DEF Crash
  <2>9. ASSUME NEW c \in Cleaners, CleanerJudge(c) PROVE LockTypeOK'
    BY <2>9 DEF CleanerJudge
  <2>10. CASE Age
    <3>1. lock \in Locks => [lock EXCEPT !.old = TRUE] \in Locks
      BY DEF Locks
    <3>2. [used EXCEPT !.ages = @ + 1] \in [crashes : Nat, ages : Nat]
      OBVIOUS
    <3> QED
      BY <2>10, <3>1, <3>2 DEF Age, Present
  <2>11. CASE UNCHANGED lockVars
    BY <2>11 DEF lockVars
  <2> QED
    BY <2>1, <2>2, <2>3, <2>4, <2>5, <2>6, <2>7, <2>8, <2>9, <2>10, <2>11 DEF LockNext, RunOnce
<1> QED
  BY <1>1, <1>2, PTL DEF LockSpec

-----------------------------------------------------------------------------
(* As long as no live holder lost its lock, the path names the lock of     *)
(* every runner that is past os.open.                                      *)
HolderNamed == ~swept => \A r \in Runners : Holding(r) => lock.owner = r

(* Two runners work at once only after a clean-up unlinked the lock of a   *)
(* live holder: O_EXCL does the rest.                                      *)
THEOREM ExclusiveUnlessSwept == LockSpec => []SharedOnlyAfterSweep
<1>1. LockInit => HolderNamed
  BY DEF LockInit, HolderNamed, Holding, Processes
<1>2. LockTypeOK /\ HolderNamed /\ [LockNext]_lockVars => HolderNamed'
  <2> SUFFICES ASSUME LockTypeOK, HolderNamed, [LockNext]_lockVars PROVE HolderNamed'
    OBVIOUS
  <2> USE DEF HolderNamed, Holding, Goto, LockTypeOK, Processes
  <2>1. ASSUME NEW p \in Processes, Read(p) PROVE HolderNamed'
    BY <2>1 DEF Read
  <2>2. ASSUME NEW p \in Processes, UnlinkStale(p) PROVE HolderNamed'
    BY <2>2 DEF UnlinkStale
  <2>3. ASSUME NEW r \in Runners, Judge(r) PROVE HolderNamed'
    BY <2>3 DEF Judge
  <2>4. ASSUME NEW r \in Runners, Create(r) PROVE HolderNamed'
    BY <2>4, PidsAssumption DEF Create, Present, NoLock
  <2>5. ASSUME NEW r \in Runners, Write(r) PROVE HolderNamed'
    BY <2>5 DEF Write, Locks, NoLock
  <2>6. ASSUME NEW r \in Runners, FinishTask(r) \/ Release(r) PROVE HolderNamed'
    BY <2>6 DEF FinishTask, Release
  <2>7. ASSUME NEW r \in Runners, UnlinkOwn(r) PROVE HolderNamed'
    BY <2>7 DEF UnlinkOwn
  <2>8. ASSUME NEW r \in Runners, Crash(r) PROVE HolderNamed'
    BY <2>8 DEF Crash
  <2>9. ASSUME NEW c \in Cleaners, CleanerJudge(c) PROVE HolderNamed'
    BY <2>9 DEF CleanerJudge
  <2>10. CASE Age
    BY <2>10 DEF Age, Locks, NoLock
  <2>11. CASE UNCHANGED lockVars
    BY <2>11 DEF lockVars
  <2> QED
    BY <2>1, <2>2, <2>3, <2>4, <2>5, <2>6, <2>7, <2>8, <2>9, <2>10, <2>11 DEF LockNext, RunOnce
<1>3. HolderNamed => SharedOnlyAfterSweep
  BY DEF HolderNamed, SharedOnlyAfterSweep, Working, Holding
<1> QED
  BY <1>1, <1>2, <1>3, LockTypeCorrect, PTL DEF LockSpec
=============================================================================
