--------------------------- MODULE PocPackProofs ---------------------------
(***************************************************************************)
(* Proofs about PocPack, for every set of workers and requests, every      *)
(* number of cycles and every value of the bounds.                         *)
(***************************************************************************)
EXTENDS PocPack, TLAPS

Bodies == [marker : BOOLEAN, verdict : BOOLEAN]
Steps  == {"idle", "enter"} \union TaskSteps \union PhaseSteps \union AskSteps
Jobs   == {""} \union Kinds \union Requests
Locals == [step : Steps, job : Jobs, body : Bodies, seq : Nat]

(* The conjuncts of TypeOK, and what it takes to keep them: the log of     *)
(* steers has a highest number, a cycle is entered below the limit, and a  *)
(* request that enqueues names a kind of task.                             *)
PackOK  == /\ ready \in BOOLEAN /\ runFile \in BOOLEAN /\ stop \in BOOLEAN
           /\ body \in Bodies /\ file \in {"none", "live", "ended"}
SteerOK == steers \in Seq(Nat \ {0})
QueueOK == queue \in [Kinds -> Nat]
AtOK    == at \in [Procs -> Locals]
MemOK   == mem \in [Workers -> Sessions]
PastOK  == /\ shots \in Nat /\ disturbed \in BOOLEAN
           /\ used \in [{"requests", "faults"} -> Nat]
LockOK  == /\ lock \in Procs \union {Nobody}
           /\ \A p \in Procs : lock = p <=> at[p].step = "append"

Topped  == steers # <<>> =>
             \E i \in DOMAIN steers : \A j \in DOMAIN steers : steers[j] <= steers[i]
Below   == \A w \in Workers : at[w].step = "cycle" => mem[w].cycles < MaxCycles
Asked   == \A h \in Procs : at[h].step = "enqueue" => at[h].job \in Kinds
Waited  == \A p \in Procs : at[p].step = "append" => at[p].seq \in Nat \ {0}

Typed == PackOK /\ SteerOK /\ QueueOK /\ AtOK /\ MemOK /\ PastOK /\ LockOK
TypeInv == Typed /\ Topped /\ Below /\ Asked /\ Waited

LEMMA TypedIsTypeOK == Typed <=> TypeOK
BY DEF Typed, TypeOK, PackOK, SteerOK, QueueOK, AtOK, MemOK, PastOK, LockOK, Bodies, Steps,
       Jobs, Locals

-----------------------------------------------------------------------------
(* The highest number of a set that has one.                               *)
LEMMA MaxOfTop ==
  ASSUME NEW S \in SUBSET Nat, NEW m \in S, \A n \in S : n <= m
  PROVE  MaxOf(S) = m
<1> DEFINE Top(n) == \A k \in S : k <= n
<1> DEFINE t == CHOOSE n \in S : Top(n)
<1>1. MaxOf(S) = t
  BY DEF MaxOf
<1>2. \E n \in S : Top(n)
  OBVIOUS
<1>3. t \in S /\ Top(t)
  BY <1>2
<1>4. t <= m /\ m <= t
  BY <1>3
<1> HIDE DEF t
<1> QED
  BY <1>1, <1>3, <1>4

LEMMA MaxOfPair ==
  ASSUME NEW a \in Nat, NEW b \in Nat PROVE MaxOf({a, b}) \in Nat /\ MaxOf({a, b}) >= a
<1>1. CASE a <= b
  BY <1>1, MaxOfTop, MaxOf({a, b}) = b
<1>2. CASE b <= a
  BY <1>2, MaxOfTop, MaxOf({a, b}) = a
<1> QED
  BY <1>1, <1>2

(* The numbers above n of a log with a highest number.                     *)
LEMMA MaxAbove ==
  ASSUME SteerOK, Topped, NEW n \in Nat
  PROVE  MaxOf({k \in SeqsIn(steers) : k > n}) \in Nat
<1> DEFINE S == {k \in SeqsIn(steers) : k > n}
<1>1. \A i \in DOMAIN steers : steers[i] \in Nat
  BY DEF SteerOK
<1>2. CASE S = {}
  BY <1>2 DEF MaxOf
<1>3. CASE S # {}
  <2>1. PICK i \in DOMAIN steers : \A j \in DOMAIN steers : steers[j] <= steers[i]
    BY <1>3 DEF Topped, SeqsIn, SteerOK
  <2>2. steers[i] \in S /\ \A k \in S : k <= steers[i]
    BY <1>1, <1>3, <2>1 DEF SeqsIn
  <2>3. S \in SUBSET Nat
    BY <1>1 DEF SeqsIn
  <2> QED
    BY <2>2, <2>3, MaxOfTop
<1> QED
  BY <1>2, <1>3

(* A new number is above every number in the log.                          *)
LEMMA NextSeqFresh ==
  ASSUME SteerOK, Topped
  PROVE  NextSeq \in Nat \ {0} /\ \A i \in DOMAIN steers : steers[i] < NextSeq
<1>1. \A i \in DOMAIN steers : steers[i] \in Nat
  BY DEF SteerOK
<1>2. CASE steers = <<>>
  BY <1>2 DEF NextSeq, MaxOf, SeqsIn
<1>3. CASE steers # <<>>
  <2>1. PICK i \in DOMAIN steers : \A j \in DOMAIN steers : steers[j] <= steers[i]
    BY <1>3 DEF Topped
  <2>2. MaxOf(SeqsIn(steers)) = steers[i]
    <3>1. SeqsIn(steers) \in SUBSET Nat /\ steers[i] \in SeqsIn(steers)
      BY <1>1 DEF SeqsIn
    <3>2. \A k \in SeqsIn(steers) : k <= steers[i]
      BY <2>1 DEF SeqsIn
    <3> QED
      BY <3>1, <3>2, MaxOfTop
  <2> QED
    BY <1>1, <2>1, <2>2 DEF NextSeq
<1> QED
  BY <1>2, <1>3

-----------------------------------------------------------------------------
(* What going to another step does to the locals.                          *)
LEMMA GoTyped ==
  ASSUME AtOK, NEW p \in Procs, NEW step \in Steps, NEW b \in Bodies, NEW n \in Nat,
         Go(p, step, b, n)
  PROVE  /\ AtOK' /\ at'[p].step = step
         /\ step # "idle" => at'[p].job = at[p].job /\ at'[p].seq = n /\ at'[p].body = b
         /\ \A q \in Procs \ {p} : at'[q] = at[q]
<1>1. Idle \in Locals
  BY DEF Idle, Locals, Steps, Jobs, NoBody, Bodies
<1>2. at[p].job \in Jobs
  BY DEF AtOK, Locals
<1>3. [step |-> step, job |-> at[p].job, body |-> b, seq |-> n] \in Locals
  BY <1>2 DEF Locals
<1>4. at' = [at EXCEPT ![p] = IF step = "idle" THEN Idle
                              ELSE [step |-> step, job |-> at[p].job, body |-> b, seq |-> n]]
  BY DEF Go
<1>5. AtOK'
  BY <1>1, <1>3, <1>4 DEF AtOK
<1> QED
  BY <1>4, <1>5 DEF AtOK, Idle

LEMMA GotoTyped ==
  ASSUME AtOK, NEW p \in Procs, NEW step \in Steps, Goto(p, step)
  PROVE  /\ AtOK' /\ at'[p].step = step
         /\ step # "idle" => at'[p].job = at[p].job /\ at'[p].seq = 0 /\ at'[p].body = at[p].body
         /\ \A q \in Procs \ {p} : at'[q] = at[q]
<1>1. at[p].body \in Bodies
  BY DEF AtOK, Locals
<1>2. Go(p, step, at[p].body, 0)
  BY DEF Goto
<1> QED
  BY <1>1, <1>2, GoTyped

LEMMA BlankTyped == NoSession \in Sessions /\ NoBody \in Bodies
BY CyclesAssumption DEF NoSession, Sessions, NoBody, Bodies

LEMMA FinishedTyped ==
  ASSUME AtOK, MemOK, NEW w \in Workers, Finished(w)
  PROVE  /\ AtOK' /\ MemOK' /\ at'[w].step = "idle"
         /\ \A q \in Procs \ {w} : at'[q] = at[q]
         /\ mem' = [mem EXCEPT ![w] = NoSession]
<1>1. Goto(w, "idle") /\ "idle" \in Steps /\ w \in Procs
  BY DEF Finished, Steps, Procs
<1>2. MemOK'
  BY BlankTyped DEF Finished, MemOK
<1> QED
  BY <1>1, <1>2, GotoTyped DEF Finished

LEMMA SpentTyped ==
  ASSUME PastOK, NEW what \in {"requests", "faults"}, NEW limit, Spend(what, limit)
  PROVE  used' \in [{"requests", "faults"} -> Nat]
BY DEF PastOK, Spend

LEMMA EnqueueTyped ==
  ASSUME QueueOK, NEW k \in Kinds, Enqueue(k)
  PROVE  QueueOK'
BY DEF QueueOK, Enqueue

LEMMA WriteTyped ==
  ASSUME PackOK, NEW b \in Bodies, WriteBody(b)
  PROVE  body' \in Bodies /\ disturbed' \in BOOLEAN
BY DEF PackOK, WriteBody, Bodies

(* The step of one process changes, to or from nothing that holds the lock *)
(* or asks for a task.                                                     *)
Plain == (Steps \ {"append", "cycle", "enqueue"})

LEMMA PlainMove ==
  ASSUME TypeInv, NEW p \in Procs, at[p].step # "append", AtOK', at'[p].step \in Plain,
         \A q \in Procs \ {p} : at'[q] = at[q],
         UNCHANGED <<steers, lock>>,
         \A v \in Workers \ {p} : mem'[v] = mem[v]
  PROVE  LockOK' /\ Topped' /\ Below' /\ Asked' /\ Waited' /\ SteerOK'
BY DEF TypeInv, Typed, LockOK, Topped, Below, Asked, Waited, SteerOK, Plain, Procs

(* A process moves on, and the files, the tasks and the history stay typed. *)
LEMMA PlainGo ==
  ASSUME TypeInv, NEW p \in Procs, at[p].step # "append", NEW step \in Plain,
         NEW b \in Bodies, NEW n \in Nat, Go(p, step, b, n),
         UNCHANGED <<steers, lock, mem>>, PackOK', QueueOK', PastOK'
  PROVE  TypeInv'
<1>1. AtOK /\ step \in Steps /\ MemOK'
  BY DEF TypeInv, Typed, Plain, MemOK
<1>2. AtOK' /\ at'[p].step = step /\ \A q \in Procs \ {p} : at'[q] = at[q]
  BY <1>1, GoTyped
<1>3. LockOK' /\ Topped' /\ Below' /\ Asked' /\ Waited' /\ SteerOK'
  BY <1>2, PlainMove
<1> QED
  BY <1>1, <1>2, <1>3 DEF TypeInv, Typed

LEMMA PlainGoto ==
  ASSUME TypeInv, NEW p \in Procs, at[p].step # "append", NEW step \in Plain,
         Goto(p, step), UNCHANGED <<steers, lock, mem>>, PackOK', QueueOK', PastOK'
  PROVE  TypeInv'
<1>1. at[p].body \in Bodies
  BY DEF TypeInv, Typed, AtOK, Locals
<1>2. Go(p, step, at[p].body, 0)
  BY DEF Goto
<1> QED
  BY <1>1, <1>2, PlainGo

LEMMA PlainFinished ==
  ASSUME TypeInv, NEW w \in Workers, at[w].step # "append", Finished(w),
         UNCHANGED <<steers, lock>>, PackOK', QueueOK', PastOK'
  PROVE  TypeInv'
<1>1. AtOK /\ MemOK /\ w \in Procs /\ "idle" \in Plain
  BY DEF TypeInv, Typed, Plain, Procs, Steps
<1>2. /\ AtOK' /\ MemOK' /\ at'[w].step = "idle"
      /\ \A q \in Procs \ {w} : at'[q] = at[q]
      /\ mem' = [mem EXCEPT ![w] = NoSession]
  BY <1>1, FinishedTyped
<1>3. \A v \in Workers \ {w} : mem'[v] = mem[v]
  BY <1>1, <1>2 DEF MemOK
<1>4. LockOK' /\ Topped' /\ Below' /\ Asked' /\ Waited' /\ SteerOK'
  BY <1>1, <1>2, <1>3, PlainMove
<1> QED
  BY <1>2, <1>4 DEF TypeInv, Typed

LEMMA Parts == TypeInv => /\ PackOK /\ SteerOK /\ QueueOK /\ AtOK /\ MemOK /\ PastOK
                          /\ LockOK /\ Topped /\ Below /\ Asked /\ Waited
BY DEF TypeInv, Typed

-----------------------------------------------------------------------------
(* Each operation on the log and on the session keeps the types.           *)
LEMMA BeginSteerTyped ==
  ASSUME TypeInv, NEW p \in Procs, BeginSteer(p)
  PROVE  TypeInv'
<1>1. /\ at[p].step # "append" /\ PackOK' /\ QueueOK' /\ PastOK' /\ MemOK' /\ SteerOK'
      /\ Topped'
  BY Parts DEF BeginSteer, PackOK, QueueOK, PastOK, MemOK, SteerOK, Topped, history
<1>2. CASE /\ lock = Nobody /\ file = "ended"
           /\ Goto(p, After(p)) /\ UNCHANGED lock
  <2>1. After(p) \in Plain
    BY DEF After, Plain, Steps, TaskSteps, SessionSteps
  <2>2. UNCHANGED <<steers, lock, mem>>
    BY <1>2 DEF BeginSteer
  <2> QED
    BY <1>1, <1>2, <2>1, <2>2, PlainGoto
<1>3. CASE /\ file # "ended" /\ TakeLock(p)
           /\ Go(p, "append", at[p].body, NextSeq)
  <2>1. AtOK /\ at[p].body \in Bodies /\ NextSeq \in Nat \ {0} /\ "append" \in Steps
    BY Parts, NextSeqFresh DEF AtOK, Locals, Steps, AskSteps
  <2>2. /\ AtOK' /\ at'[p].step = "append" /\ at'[p].seq = NextSeq
        /\ \A q \in Procs \ {p} : at'[q] = at[q]
    BY <1>3, <2>1, GoTyped
  <2>3. \A q \in Procs : at[q].step # "append"
    BY <1>3, Parts, NamesAssumption DEF TakeLock, LockOK
  <2>4. LockOK'
    BY <1>3, <2>2, <2>3, NamesAssumption DEF TakeLock, LockOK
  <2>5. Asked' /\ Waited'
    BY <2>1, <2>2, Parts DEF Asked, Waited
  <2>6. Below'
    BY <2>2, Parts DEF Below, Procs, BeginSteer
  <2> QED
    BY <1>1, <2>2, <2>4, <2>5, <2>6 DEF TypeInv, Typed
<1> QED
  BY <1>2, <1>3 DEF BeginSteer

LEMMA AppendSteerTyped ==
  ASSUME TypeInv, NEW p \in Procs, AppendSteer(p)
  PROVE  TypeInv'
<1>1. /\ at[p].step = "append" /\ PackOK' /\ QueueOK' /\ PastOK' /\ MemOK'
      /\ lock = p
  BY Parts DEF AppendSteer, PackOK, QueueOK, PastOK, MemOK, LockOK, history
<1>2. SteerOK' /\ Topped'
  <2>1. at[p].seq \in Nat \ {0} /\ steers \in Seq(Nat \ {0})
    BY <1>1, Parts DEF Waited, SteerOK
  <2>2. /\ Len(steers') = Len(steers) + 1 /\ steers'[Len(steers) + 1] = at[p].seq
        /\ \A i \in DOMAIN steers : steers'[i] = steers[i]
        /\ DOMAIN steers = 1..Len(steers) /\ DOMAIN steers' = 1..Len(steers')
        /\ Len(steers) \in Nat /\ steers' \in Seq(Nat \ {0})
    BY <2>1 DEF AppendSteer
  <2>3. CASE \A i \in DOMAIN steers : steers[i] <= at[p].seq
    <3>1. Len(steers) + 1 \in DOMAIN steers' /\ DOMAIN steers' = DOMAIN steers \union {Len(steers) + 1}
      BY <2>2
    <3>2. \A j \in DOMAIN steers' : steers'[j] <= steers'[Len(steers) + 1]
      BY <2>1, <2>2, <2>3, <3>1
    <3> QED
      BY <2>2, <3>1, <3>2 DEF SteerOK, Topped
  <2>4. CASE \E i \in DOMAIN steers : ~(steers[i] <= at[p].seq)
    <3>1. PICK i \in DOMAIN steers : \A j \in DOMAIN steers : steers[j] <= steers[i]
      BY <2>4, <2>1, Parts DEF Topped
    <3>2. at[p].seq <= steers'[i] /\ i \in DOMAIN steers'
      BY <2>1, <2>2, <2>4, <3>1
    <3>3. \A j \in DOMAIN steers' : steers'[j] <= steers'[i]
      BY <2>2, <3>1, <3>2
    <3> QED
      BY <2>2, <3>2, <3>3 DEF SteerOK, Topped
  <2> QED
    BY <2>3, <2>4
<1>3. /\ AtOK' /\ at'[p].step = After(p)
      /\ \A q \in Procs \ {p} : at'[q] = at[q]
  <2>1. After(p) \in Steps /\ AtOK
    BY Parts DEF After, Steps, TaskSteps, SessionSteps
  <2> QED
    BY <2>1, GotoTyped DEF AppendSteer
<1>4. LockOK'
  <2>1. lock' = Nobody
    BY <1>1 DEF AppendSteer
  <2>2. \A q \in Procs : at'[q].step # "append"
    BY <1>1, <1>3, Parts DEF LockOK, After
  <2> QED
    BY <2>1, <2>2, NamesAssumption DEF LockOK
<1>5. Below' /\ Asked' /\ Waited'
  <2>1. After(p) \in {"boot", "idle"}
    BY DEF After
  <2> QED
    BY <1>3, <2>1, Parts DEF Below, Asked, Waited, Procs, AppendSteer
<1> QED
  BY <1>1, <1>2, <1>3, <1>4, <1>5 DEF TypeInv, Typed

LEMMA LoopHeadTyped ==
  ASSUME TypeInv, NEW w \in Workers, LoopHead(w)
  PROVE  TypeInv'
<1>1. w \in Procs /\ at[w].step # "append" /\ QueueOK' /\ PastOK'
  BY Parts DEF LoopHead, QueueOK, PastOK, history, Procs
<1>2. PICK timeout \in BOOLEAN :
        IF EndsAtHead(w, timeout)
        THEN Save(FALSE) /\ Goto(w, "close") /\ UNCHANGED mem
        ELSE /\ mem' = [mem EXCEPT ![w].upto =
                          MaxOf({n \in SeqsIn(steers) : n > mem[w].applied})]
             /\ Goto(w, "cycle") /\ UNCHANGED file
  BY DEF LoopHead
<1>3. PackOK' /\ UNCHANGED <<steers, lock>>
  BY <1>2, Parts DEF LoopHead, Save, PackOK
<1>4. CASE EndsAtHead(w, timeout)
  <2>1. "close" \in Plain /\ UNCHANGED mem /\ Goto(w, "close")
    BY <1>2, <1>4 DEF Plain, Steps, TaskSteps, SessionSteps
  <2> QED
    BY <1>1, <1>3, <2>1, PlainGoto
<1>5. CASE ~EndsAtHead(w, timeout)
  <2> DEFINE new == MaxOf({n \in SeqsIn(steers) : n > mem[w].applied})
  <2>1. mem[w] \in Sessions /\ mem[w].applied \in Nat
    BY Parts DEF MemOK, Sessions
  <2>2. new \in Nat
    BY <2>1, Parts, MaxAbove
  <2>3. mem' = [mem EXCEPT ![w].upto = new] /\ Goto(w, "cycle") /\ "cycle" \in Steps
    BY <1>2, <1>5 DEF Steps, TaskSteps, SessionSteps
  <2> HIDE DEF new
  <2>4. mem[w].cycles < MaxCycles
    BY <1>5, <2>1, CyclesAssumption DEF EndsAtHead, Sessions
  <2>5. MemOK' /\ mem'[w].cycles = mem[w].cycles /\ \A v \in Workers \ {w} : mem'[v] = mem[v]
    BY <2>1, <2>2, <2>3, Parts DEF MemOK, Sessions
  <2>6. /\ AtOK' /\ at'[w].step = "cycle"
        /\ \A q \in Procs \ {w} : at'[q] = at[q]
    BY <1>1, <2>3, Parts, GotoTyped
  <2>7. LockOK'
    BY <1>1, <1>3, <2>6, Parts DEF LockOK
  <2>8. Below'
    BY <2>4, <2>5, <2>6, Parts DEF Below, Procs
  <2>9. SteerOK' /\ Topped' /\ Asked' /\ Waited'
    BY <1>3, <2>6, Parts DEF SteerOK, Topped, Asked, Waited
  <2> QED
    BY <1>1, <1>3, <2>5, <2>6, <2>7, <2>8, <2>9 DEF TypeInv, Typed
<1> QED
  BY <1>4, <1>5

LEMMA CycleTyped ==
  ASSUME TypeInv, NEW w \in Workers, Cycle(w)
  PROVE  TypeInv'
<1>1. w \in Procs /\ at[w].step = "cycle" /\ QueueOK' /\ UNCHANGED <<steers, lock>> /\ PastOK'
  BY Parts DEF Cycle, QueueOK, PastOK, Procs
<1>2. {"close", "head"} \subseteq Plain
  BY DEF Plain, Steps, TaskSteps, SessionSteps
<1>3. CASE TooLate(w)
  <2>1. PackOK' /\ Goto(w, "close") /\ UNCHANGED mem
    BY <1>3, Parts DEF TooLate, Cycle, Save, PackOK
  <2> QED
    BY <1>1, <1>2, <2>1, PlainGoto
<1>4. ASSUME NEW verdict \in CycleVerdicts, RunCycle(w, verdict) PROVE TypeInv'
  <2> DEFINE live == ~LastCycle(verdict)
  <2> DEFINE step == IF live THEN "head" ELSE "close"
  <2> DEFINE top == MaxOf({mem[w].applied, mem[w].upto})
  <2>1. /\ mem' = [mem EXCEPT ![w] = [cycles |-> @.cycles + 1, upto |-> 0, applied |-> top,
                                      late |-> IF stop THEN @.late + 1 ELSE @.late]]
        /\ Save(live) /\ Goto(w, step)
    BY <1>4 DEF RunCycle
  <2>2. PackOK' /\ step \in Plain
    BY <1>2, <2>1, Parts DEF Cycle, Save, PackOK
  <2>3. mem[w] \in Sessions /\ mem[w].cycles < MaxCycles
    BY <1>1, Parts DEF MemOK, Below
  <2>4. top \in Nat
    BY <2>3, MaxOfPair DEF Sessions
  <2> HIDE DEF top, step, live
  <2>5. MemOK' /\ \A v \in Workers \ {w} : mem'[v] = mem[v]
    <3> DEFINE next == [cycles |-> mem[w].cycles + 1, upto |-> 0, applied |-> top,
                        late |-> IF stop THEN mem[w].late + 1 ELSE mem[w].late]
    <3>1. next \in Sessions
      BY <2>3, <2>4, CyclesAssumption DEF Sessions
    <3>2. mem' = [mem EXCEPT ![w] = next]
      BY <2>1
    <3> HIDE DEF next
    <3> QED
      BY <3>1, <3>2, Parts DEF MemOK
  <2>6. step \in Steps
    BY <2>2 DEF Plain
  <2>7. AtOK' /\ at'[w].step = step /\ \A q \in Procs \ {w} : at'[q] = at[q]
    BY <1>1, <2>1, <2>6, Parts, GotoTyped
  <2>8. LockOK' /\ Topped' /\ Below' /\ Asked' /\ Waited' /\ SteerOK'
    BY <1>1, <2>2, <2>5, <2>7, PlainMove
  <2> QED
    BY <1>1, <2>2, <2>5, <2>7, <2>8 DEF TypeInv, Typed
<1> QED
  BY <1>3, <1>4 DEF Cycle

-----------------------------------------------------------------------------
(* A session opens, boots, closes or fails.                                *)
LEMMA SessionTyped ==
  ASSUME TypeInv, NEW w \in Workers, Open(w) \/ Boot(w) \/ Close(w) \/ Raise(w)
  PROVE  TypeInv'
<1>1. w \in Procs /\ {"note", "boot", "head", "close", "writeRun"} \subseteq Plain
  BY DEF Procs, Plain, Steps, TaskSteps, SessionSteps
<1>2. CASE Open(w)
  <2>1. PackOK' /\ QueueOK' /\ PastOK' /\ UNCHANGED <<steers, lock, mem>>
    BY <1>2, Parts DEF Open, pack, history, PackOK, QueueOK, PastOK
  <2>2. PICK notes \in BOOLEAN : Goto(w, IF notes THEN "note" ELSE "boot")
    BY <1>2 DEF Open
  <2>3. (IF notes THEN "note" ELSE "boot") \in Plain /\ at[w].step # "append"
    BY <1>1, <1>2 DEF Open
  <2> QED
    BY <1>1, <2>1, <2>2, <2>3, PlainGoto
<1>3. CASE Boot(w)
  <2>1. PICK started \in BOOLEAN : Save(started) /\ Goto(w, IF started THEN "head" ELSE "close")
    BY <1>3 DEF Boot
  <2>2. PackOK' /\ QueueOK' /\ PastOK' /\ UNCHANGED <<steers, lock, mem>>
    BY <1>3, <2>1, Parts DEF Boot, Save, history, PackOK, QueueOK, PastOK
  <2>3. (IF started THEN "head" ELSE "close") \in Plain /\ at[w].step # "append"
    BY <1>1, <1>3 DEF Boot
  <2> QED
    BY <1>1, <2>1, <2>2, <2>3, PlainGoto
<1>4. CASE Close(w)
  <2>1. /\ PackOK' /\ QueueOK' /\ PastOK' /\ UNCHANGED <<steers, lock>>
        /\ Goto(w, "writeRun") /\ mem' = [mem EXCEPT ![w] = NoSession]
        /\ at[w].step # "append"
    BY <1>4, Parts DEF Close, Save, history, PackOK, QueueOK, PastOK
  <2>2. MemOK' /\ \A v \in Workers \ {w} : mem'[v] = mem[v]
    BY <2>1, Parts, BlankTyped DEF MemOK
  <2>3. "writeRun" \in Steps
    BY <1>1 DEF Plain
  <2>4. AtOK' /\ at'[w].step = "writeRun" /\ \A q \in Procs \ {w} : at'[q] = at[q]
    BY <1>1, <2>1, <2>3, Parts, GotoTyped
  <2>5. LockOK' /\ Topped' /\ Below' /\ Asked' /\ Waited' /\ SteerOK'
    BY <1>1, <2>1, <2>2, <2>4, PlainMove
  <2> QED
    BY <2>1, <2>2, <2>4, <2>5 DEF TypeInv, Typed
<1>5. CASE Raise(w)
  <2>1. /\ PackOK' /\ QueueOK' /\ PastOK' /\ UNCHANGED <<steers, lock>>
        /\ Finished(w) /\ at[w].step # "append"
    BY <1>5, Parts DEF Raise, Save, history, PackOK, QueueOK, PastOK
  <2> QED
    BY <2>1, PlainFinished
<1> QED
  BY <1>2, <1>3, <1>4, <1>5

(* A task is leased, fails, is queued again, runs and is recorded.         *)
LEMMA TaskTyped ==
  ASSUME TypeInv, NEW w \in Workers,
         \/ FailTask(w) \/ RetryTask(w) \/ Validate(w) \/ WriteRun(w) \/ RecordVerdict(w)
         \/ Develop(w) \/ RecordDeveloped(w)
  PROVE  TypeInv'
<1>1. /\ w \in Procs /\ {"writeRun", "writeBody", "enter"} \subseteq Plain
      /\ at[w].body \in Bodies
  BY Parts DEF Procs, Plain, Steps, TaskSteps, AtOK, Locals
<1>2. CASE FailTask(w)
  BY <1>2, Parts, PlainFinished DEF FailTask, pack, history, PackOK, QueueOK, PastOK
<1>3. CASE RetryTask(w)
  <2>1. /\ Finished(w) /\ Spend("faults", MaxFaults) /\ Enqueue(at[w].job)
        /\ at[w].job \in Kinds /\ at[w].step # "append"
        /\ PackOK' /\ UNCHANGED <<steers, lock, shots, disturbed>>
    BY <1>3, Parts DEF RetryTask, pack, history, PackOK, Kinds
  <2>2. QueueOK' /\ PastOK'
    BY <2>1, Parts, EnqueueTyped, SpentTyped DEF PastOK
  <2> QED
    BY <2>1, <2>2, PlainFinished
<1>4. CASE Validate(w)
  BY <1>1, <1>4, Parts, PlainGoto DEF Validate, pack, history, PackOK, QueueOK, PastOK
<1>5. CASE WriteRun(w)
  BY <1>1, <1>5, Parts, PlainGoto DEF WriteRun, history, PackOK, QueueOK, PastOK
<1>6. CASE RecordVerdict(w)
  <2>1. [at[w].body EXCEPT !.verdict = TRUE] \in Bodies
    BY <1>1 DEF Bodies
  <2>2. /\ Finished(w) /\ WriteBody([at[w].body EXCEPT !.verdict = TRUE])
        /\ at[w].step # "append" /\ UNCHANGED <<pack, queue, shots, used>>
    BY <1>6 DEF RecordVerdict
  <2>3. body' \in Bodies /\ disturbed' \in BOOLEAN
    BY <2>1, <2>2, Parts, WriteTyped
  <2>4. PackOK' /\ QueueOK' /\ PastOK'
    BY <2>2, <2>3, Parts DEF pack, PackOK, QueueOK, PastOK
  <2> QED
    BY <2>2, <2>4, PlainFinished DEF pack
<1>7. CASE Develop(w)
  BY <1>1, <1>7, Parts, PlainGoto DEF Develop, history, PackOK, QueueOK, PastOK
<1>8. CASE RecordDeveloped(w)
  <2>1. /\ WriteBody(at[w].body) /\ at[w].step # "append"
        /\ UNCHANGED <<pack, queue, shots, used>>
    BY <1>8 DEF RecordDeveloped
  <2>2. body' \in Bodies /\ disturbed' \in BOOLEAN
    BY <1>1, <2>1, Parts, WriteTyped
  <2>3. PackOK' /\ QueueOK' /\ PastOK'
    BY <2>1, <2>2, Parts DEF pack, PackOK, QueueOK, PastOK
  <2>4. CASE OneShot
    BY <1>1, <1>8, <2>1, <2>3, <2>4, PlainGoto DEF RecordDeveloped, pack
  <2>5. CASE ~OneShot
    BY <1>8, <2>1, <2>3, <2>5, PlainFinished DEF RecordDeveloped, pack
  <2> QED
    BY <2>4, <2>5
<1> QED
  BY <1>2, <1>3, <1>4, <1>5, <1>6, <1>7, <1>8

LEMMA LeaseTyped ==
  ASSUME TypeInv, NEW w \in Workers, NEW k \in Kinds, Lease(w, k)
  PROVE  TypeInv'
<1> DEFINE leased == [Idle EXCEPT !.step = "begin", !.job = k, !.body = body]
<1>1. leased \in Locals /\ leased.step = "begin"
  BY Parts DEF Idle, Locals, Steps, TaskSteps, Jobs, PackOK
<1>2. at' = [at EXCEPT ![w] = leased] /\ w \in Procs /\ at[w].step # "append"
  BY DEF Lease, Procs
<1> HIDE DEF leased
<1>3. AtOK' /\ at'[w].step = "begin" /\ \A q \in Procs \ {w} : at'[q] = at[q]
  BY <1>1, <1>2, Parts DEF AtOK
<1>4. /\ PackOK' /\ PastOK' /\ QueueOK' /\ MemOK'
      /\ UNCHANGED <<steers, lock, mem>>
  BY Parts DEF Lease, pack, history, PackOK, PastOK, QueueOK, MemOK
<1>5. "begin" \in Plain
  BY DEF Plain, Steps, TaskSteps
<1>6. LockOK' /\ Topped' /\ Below' /\ Asked' /\ Waited' /\ SteerOK'
  BY <1>2, <1>3, <1>4, <1>5, PlainMove
<1> QED
  BY <1>3, <1>4, <1>6 DEF TypeInv, Typed

(* The one-shot phase.                                                     *)
LEMMA PhaseTyped ==
  ASSUME TypeInv, NEW w \in Workers, PhaseStep(w)
  PROVE  TypeInv'
<1>1. /\ w \in Procs /\ PhaseSteps \subseteq Plain /\ body \in Bodies
      /\ at[w].body \in Bodies /\ at[w].step # "append"
  BY Parts DEF Procs, Plain, Steps, PhaseSteps, PackOK, AtOK, Locals, PhaseStep, EnterPhase, Look,
               Shoot, Reread, Stamp
<1>2. CASE EnterPhase(w)
  <2>1. PackOK' /\ QueueOK' /\ PastOK' /\ UNCHANGED <<steers, lock, mem>> /\ Go(w, "look", body, 0)
    BY <1>2, Parts DEF EnterPhase, pack, history, PackOK, QueueOK, PastOK
  <2>2. "look" \in Plain
    BY <1>1 DEF PhaseSteps
  <2> QED
    BY <1>1, <2>1, <2>2, PlainGo
<1>3. CASE Look(w)
  <2>1. PackOK' /\ QueueOK' /\ PastOK' /\ UNCHANGED <<steers, lock>> /\ "shoot" \in Plain
    BY <1>1, <1>3, Parts DEF Look, pack, history, PackOK, QueueOK, PastOK, PhaseSteps
  <2>2. Finished(w) \/ (Goto(w, "shoot") /\ UNCHANGED mem)
    BY <1>3 DEF Look
  <2> QED
    BY <1>1, <2>1, <2>2, PlainGoto, PlainFinished
<1>4. CASE Shoot(w)
  <2>1. /\ Enqueue("validate") /\ Goto(w, "reread") /\ shots' = shots + 1
        /\ disturbed' \in BOOLEAN /\ UNCHANGED <<pack, body, mem, used>>
    BY <1>4, Parts DEF Shoot, PastOK
  <2>2. PackOK' /\ QueueOK' /\ PastOK' /\ "reread" \in Plain
    BY <1>1, <2>1, Parts, EnqueueTyped DEF pack, PackOK, PastOK, PhaseSteps, Kinds
  <2> QED
    BY <1>1, <2>1, <2>2, PlainGoto DEF pack
<1>5. CASE Reread(w)
  <2>1. PackOK' /\ QueueOK' /\ PastOK' /\ UNCHANGED <<steers, lock, mem>> /\ Go(w, "stamp", body, 0)
    BY <1>5, Parts DEF Reread, pack, history, PackOK, QueueOK, PastOK
  <2>2. "stamp" \in Plain
    BY <1>1 DEF PhaseSteps
  <2> QED
    BY <1>1, <2>1, <2>2, PlainGo
<1>6. CASE Stamp(w)
  <2>1. [at[w].body EXCEPT !.marker = TRUE] \in Bodies
    BY <1>1 DEF Bodies
  <2>2. /\ Finished(w) /\ WriteBody([at[w].body EXCEPT !.marker = TRUE])
        /\ UNCHANGED <<pack, queue, shots, used>>
    BY <1>6 DEF Stamp
  <2>3. body' \in Bodies /\ disturbed' \in BOOLEAN
    BY <2>1, <2>2, Parts, WriteTyped
  <2>4. PackOK' /\ QueueOK' /\ PastOK'
    BY <2>2, <2>3, Parts DEF pack, PackOK, QueueOK, PastOK
  <2> QED
    BY <1>1, <2>2, <2>4, PlainFinished DEF pack
<1> QED
  BY <1>2, <1>3, <1>4, <1>5, <1>6 DEF PhaseStep

(* The dashboard requests, and a worker that dies.                         *)
LEMMA AskTyped ==
  ASSUME TypeInv, NEW h \in Handlers, NEW kind \in RequestKinds, Ask(h, kind)
  PROVE  TypeInv'
<1> DEFINE step == IF kind \in Kinds THEN "enqueue" ELSE kind
<1> DEFINE asked == [Idle EXCEPT !.job = kind, !.body = body, !.step = step]
<1>1. kind \in Requests /\ h \in Procs
  BY RequestsAssumption DEF Procs
<1>2. step \in Steps \ {"append", "cycle"} /\ (step = "enqueue" => kind \in Kinds)
  BY <1>1 DEF Requests, Kinds, Steps, AskSteps
<1>3. /\ asked \in Locals /\ asked.step = step /\ asked.job = kind
  <2> HIDE DEF step
  <2> QED
    BY <1>1, <1>2, Parts DEF Idle, Locals, Jobs, PackOK
<1>4. at' = [at EXCEPT ![h] = asked] /\ at[h].step # "append"
  BY DEF Ask
<1> HIDE DEF asked, step
<1>5. AtOK' /\ at'[h] = asked /\ \A q \in Procs \ {h} : at'[q] = at[q]
  BY <1>1, <1>3, <1>4, Parts DEF AtOK
<1>6. /\ PackOK' /\ QueueOK' /\ MemOK' /\ SteerOK' /\ Topped'
      /\ UNCHANGED <<steers, lock, mem>>
  BY Parts DEF Ask, pack, PackOK, QueueOK, MemOK, SteerOK, Topped
<1>7. PastOK'
  <2>1. Spend("requests", MaxRequests) /\ UNCHANGED <<shots, disturbed>>
    BY DEF Ask, history
  <2> QED
    BY <2>1, Parts, SpentTyped DEF PastOK
<1>8. LockOK' /\ Below' /\ Asked' /\ Waited'
  BY <1>1, <1>2, <1>3, <1>4, <1>5, <1>6, Parts DEF LockOK, Below, Asked, Waited, Procs
<1> QED
  BY <1>5, <1>6, <1>7, <1>8 DEF TypeInv, Typed

LEMMA RequestTyped ==
  ASSUME TypeInv, NEW h \in Handlers,
         \/ RequestStop(h) \/ EnqueueRequest(h) \/ RewriteRequest(h)
         \/ SaveHub(h) \/ SaveBody(h) \/ SaveAgain(h)
  PROVE  TypeInv'
<1>1. /\ h \in Procs /\ {"idle", "rewrite", "saveBody", "saveAgain"} \subseteq Plain
      /\ at[h].body \in Bodies
  BY Parts DEF Procs, Plain, Steps, AskSteps, AtOK, Locals
<1>2. CASE RequestStop(h)
  BY <1>1, <1>2, Parts, PlainGoto DEF RequestStop, history, PackOK, QueueOK, PastOK
<1>3. CASE EnqueueRequest(h)
  <2>1. /\ Enqueue(at[h].job) /\ at[h].job \in Kinds /\ Goto(h, "rewrite")
        /\ at[h].step # "append" /\ UNCHANGED <<pack, body, mem, history, used>>
    BY <1>1, <1>3, Parts DEF EnqueueRequest, Asked
  <2>2. PackOK' /\ QueueOK' /\ PastOK'
    BY <2>1, Parts, EnqueueTyped DEF pack, history, PackOK, PastOK
  <2> QED
    BY <1>1, <2>1, <2>2, PlainGoto DEF pack
<1>4. CASE RewriteRequest(h)
  <2>1. [at[h].body EXCEPT !.verdict = FALSE] \in Bodies
    BY <1>1 DEF Bodies
  <2>2. /\ Goto(h, "idle") /\ WriteBody([at[h].body EXCEPT !.verdict = FALSE])
        /\ at[h].step # "append" /\ UNCHANGED <<pack, queue, mem, shots, used>>
    BY <1>4 DEF RewriteRequest
  <2>3. body' \in Bodies /\ disturbed' \in BOOLEAN
    BY <2>1, <2>2, Parts, WriteTyped
  <2>4. PackOK' /\ QueueOK' /\ PastOK'
    BY <2>2, <2>3, Parts DEF pack, PackOK, QueueOK, PastOK
  <2> QED
    BY <1>1, <2>2, <2>4, PlainGoto DEF pack
<1>5. CASE SaveHub(h)
  BY <1>1, <1>5, Parts, PlainGoto DEF SaveHub, history, PackOK, QueueOK, PastOK
<1>6. CASE SaveBody(h) \/ SaveAgain(h)
  <2>1. /\ WriteBody(at[h].body) /\ at[h].step # "append"
        /\ UNCHANGED <<pack, mem, shots, used>>
        /\ \E step \in {"idle", "saveAgain"} : Goto(h, step)
        /\ UNCHANGED queue \/ Enqueue("develop")
    BY <1>6 DEF SaveBody, SaveAgain
  <2>2. body' \in Bodies /\ disturbed' \in BOOLEAN
    BY <1>1, <2>1, Parts, WriteTyped
  <2>3. QueueOK'
    BY <2>1, Parts, EnqueueTyped DEF QueueOK, Kinds
  <2>4. PackOK' /\ PastOK'
    BY <2>1, <2>2, Parts DEF pack, PackOK, PastOK
  <2> QED
    BY <1>1, <2>1, <2>3, <2>4, PlainGoto DEF pack
<1> QED
  BY <1>2, <1>3, <1>4, <1>5, <1>6

LEMMA CrashTyped ==
  ASSUME TypeInv, NEW w \in Workers, Crash(w)
  PROVE  TypeInv'
<1>1. /\ AtOK' /\ MemOK' /\ at'[w].step = "idle"
      /\ \A q \in Procs \ {w} : at'[q] = at[q]
      /\ mem' = [mem EXCEPT ![w] = NoSession]
  BY Parts, FinishedTyped DEF Crash
<1>2. PackOK' /\ QueueOK' /\ SteerOK' /\ Topped'
  BY Parts DEF Crash, PackOK, QueueOK, SteerOK, Topped
<1>3. PastOK'
  <2>1. Spend("faults", MaxFaults) /\ shots' = shots /\ disturbed' \in BOOLEAN
    BY Parts DEF Crash, PastOK
  <2> QED
    BY <2>1, Parts, SpentTyped DEF PastOK
<1>4. LockOK'
  <2>1. w \in Procs /\ lock' = IF lock = w THEN Nobody ELSE lock
    BY DEF Crash, Procs
  <2>2. \A q \in Procs \ {w} : lock' = q <=> lock = q
    BY <2>1, NamesAssumption
  <2>3. lock' # w
    BY <2>1, NamesAssumption
  <2> QED
    BY <1>1, <2>1, <2>2, <2>3, Parts DEF LockOK
<1>5. Below' /\ Asked' /\ Waited'
  BY <1>1, Parts DEF Below, Asked, Waited, Procs, MemOK
<1> QED
  BY <1>1, <1>2, <1>3, <1>4, <1>5 DEF TypeInv, Typed

LEMMA InitTyped == Init => TypeInv
<1> SUFFICES ASSUME Init PROVE TypeInv
  OBVIOUS
<1>1. PackOK /\ SteerOK /\ QueueOK /\ PastOK
  <2>1. PackOK /\ SteerOK
    <3>1. ready \in BOOLEAN /\ runFile \in BOOLEAN /\ stop \in BOOLEAN /\ body \in Bodies
      BY BlankTyped DEF Init
    <3>2. file \in {"none", "live", "ended"} /\ steers \in Seq(Nat \ {0})
      BY DEF Init
    <3> QED
      BY <3>1, <3>2 DEF PackOK, SteerOK
  <2>2. QueueOK
    BY DEF Init, QueueOK
  <2>3. PastOK
    BY DEF Init, PastOK
  <2> QED
    BY <2>1, <2>2, <2>3
<1>2. AtOK /\ \A p \in Procs : at[p].step = "idle"
  BY DEF Init, AtOK, Idle, Locals, Steps, Jobs, NoBody, Bodies
<1>3. MemOK
  BY BlankTyped DEF Init, MemOK
<1>4. LockOK /\ Topped /\ Below /\ Asked /\ Waited
  BY <1>2, NamesAssumption DEF Init, LockOK, Topped, Below, Asked, Waited, Procs
<1> QED
  BY <1>1, <1>2, <1>3, <1>4 DEF TypeInv, Typed

LEMMA StepTyped == TypeInv /\ [Next]_vars => TypeInv'
<1> SUFFICES ASSUME TypeInv, [Next]_vars PROVE TypeInv'
  OBVIOUS
<1>1. ASSUME NEW w \in Workers, TaskStep(w) PROVE TypeInv'
  BY <1>1, SessionTyped, TaskTyped, BeginSteerTyped, AppendSteerTyped, LoopHeadTyped, CycleTyped
     DEF TaskStep, SessionStep, Procs
<1>2. ASSUME NEW w \in Workers, PhaseStep(w) \/ Crash(w) PROVE TypeInv'
  BY <1>2, PhaseTyped, CrashTyped
<1>3. ASSUME NEW w \in Workers, NEW k \in Kinds, Lease(w, k) PROVE TypeInv'
  BY <1>3, LeaseTyped
<1>4. ASSUME NEW h \in Handlers, RequestStep(h) PROVE TypeInv'
  BY <1>4, RequestTyped, BeginSteerTyped, AppendSteerTyped DEF RequestStep, Procs
<1>5. ASSUME NEW h \in Handlers, NEW kind \in RequestKinds, Ask(h, kind) PROVE TypeInv'
  BY <1>5, AskTyped
<1>6. CASE UNCHANGED vars
  BY <1>6 DEF vars, pack, locals, history, TypeInv, Typed, PackOK, SteerOK, QueueOK, AtOK, MemOK,
              PastOK, LockOK, Topped, Below, Asked, Waited
<1> QED
  BY <1>1, <1>2, <1>3, <1>4, <1>5, <1>6 DEF Next

(* The variables of the pack, of the tasks and of the requests have their  *)
(* types in every reachable state, and the lock of the session is held     *)
(* from one step to the next only by who appends a steer.                  *)
THEOREM TypeCorrect == Spec => []TypeOK
<1>1. TypeInv => TypeOK
  BY TypedIsTypeOK DEF TypeInv
<1> QED
  BY <1>1, InitTyped, StepTyped, PTL DEF Spec

-----------------------------------------------------------------------------
(* What a step of p leaves alone, unless p takes the lock, appends a       *)
(* steer, passes the head of the loop or runs a cycle: the log and every   *)
(* other process; a stop stays asked for, a session gains no late cycle,   *)
(* and between the enqueue of the one-shot task and its stamp p only goes  *)
(* from the one to the other.                                              *)
Frame(p) ==
  /\ UNCHANGED steers /\ (stop => stop')
  /\ \A q \in Procs \ {p} : at'[q] = at[q]
  /\ at'[p].step \notin {"append", "cycle"}
  /\ \A w \in Workers : mem'[w].late \in {0, mem[w].late}
Phase(p) ==
  /\ UNCHANGED shots \/ (p \in Workers /\ Shoot(p))
  /\ \A q \in Procs \ {p} : at'[q] = at[q]
  /\ disturbed => disturbed'
  /\ ~disturbed' => /\ body.marker => body'.marker
                    /\ at[p].step \in {"reread", "stamp"} =>
                         body'.marker \/ at'[p].step = "stamp"

LEMMA MarkerKept ==
  ASSUME NEW b \in Bodies, WriteBody(b)
  PROVE  /\ disturbed => disturbed'
         /\ ~disturbed' => (body.marker => body'.marker)
BY DEF WriteBody, Bodies

(* A worker or a request that goes to a step outside the loop.             *)
LEMMA GotoFrame ==
  ASSUME TypeInv, NEW p \in Procs, NEW step \in Plain, NEW b \in Bodies, NEW n \in Nat,
         Go(p, step, b, n) \/ Goto(p, step),
         UNCHANGED steers, stop => stop', \A w \in Workers : mem'[w].late \in {0, mem[w].late}
  PROVE  Frame(p) /\ at'[p].step = step
<1>1. step \in Steps \ {"append", "cycle"} /\ AtOK
  BY Parts DEF Plain
<1>2. at'[p].step = step /\ \A q \in Procs \ {p} : at'[q] = at[q]
  BY <1>1, GoTyped, GotoTyped
<1> QED
  BY <1>1, <1>2 DEF Frame

LEMMA MemFrame ==
  ASSUME TypeInv, NEW w \in Workers, UNCHANGED mem \/ mem' = [mem EXCEPT ![w] = NoSession]
  PROVE  \A v \in Workers : mem'[v].late \in {0, mem[v].late}
BY Parts DEF MemOK, NoSession

LEMMA WorkerFrame ==
  ASSUME TypeInv, NEW w \in Workers,
         \/ Open(w) \/ Boot(w) \/ Close(w) \/ Raise(w)
         \/ FailTask(w) \/ RetryTask(w) \/ Validate(w) \/ WriteRun(w) \/ RecordVerdict(w)
         \/ Develop(w) \/ RecordDeveloped(w) \/ PhaseStep(w) \/ Crash(w)
  PROVE  Frame(w)
<1>1. UNCHANGED steers /\ UNCHANGED stop
  BY DEF Open, Boot, Close, Raise, FailTask, RetryTask, Validate, WriteRun, RecordVerdict,
         Develop, RecordDeveloped, PhaseStep, EnterPhase, Look, Shoot, Reread, Stamp, Crash, pack
<1>2. UNCHANGED mem \/ mem' = [mem EXCEPT ![w] = NoSession]
  BY DEF Open, Boot, Close, Raise, FailTask, RetryTask, Validate, WriteRun, RecordVerdict,
         Develop, RecordDeveloped, PhaseStep, EnterPhase, Look, Shoot, Reread, Stamp, Crash,
         Finished
<1>3. \E step \in {"note", "boot", "head", "close", "writeRun", "writeBody", "idle", "enter",
                    "look", "shoot", "reread", "stamp"} :
        Goto(w, step) \/ Go(w, step, body, 0)
  BY DEF Open, Boot, Close, Raise, FailTask, RetryTask, Validate, WriteRun, RecordVerdict,
         Develop, RecordDeveloped, PhaseStep, EnterPhase, Look, Shoot, Reread, Stamp, Crash,
         Finished
<1>4. {"note", "boot", "head", "close", "writeRun", "writeBody", "idle", "enter",
       "look", "shoot", "reread", "stamp"} \subseteq Plain
  BY DEF Plain, Steps, TaskSteps, SessionSteps, PhaseSteps
<1>5. w \in Procs /\ body \in Bodies /\ 0 \in Nat
  BY Parts DEF Procs, PackOK
<1>6. PICK step \in Plain : Goto(w, step) \/ Go(w, step, body, 0)
  BY <1>3, <1>4
<1>7. \A v \in Workers : mem'[v].late \in {0, mem[v].late}
  BY <1>2, MemFrame
<1> QED
  BY <1>1, <1>5, <1>6, <1>7, GotoFrame

LEMMA RequestFrame ==
  ASSUME TypeInv, NEW h \in Handlers,
         \/ RequestStop(h) \/ EnqueueRequest(h) \/ RewriteRequest(h)
         \/ SaveHub(h) \/ SaveBody(h) \/ SaveAgain(h)
  PROVE  Frame(h)
<1>1. UNCHANGED steers /\ UNCHANGED mem /\ (stop => stop')
  <2>1. UNCHANGED steers /\ UNCHANGED mem
    BY DEF RequestStop, EnqueueRequest, RewriteRequest, SaveHub, SaveBody, SaveAgain, pack
  <2>2. CASE RequestStop(h)
    BY <2>2, ZenonT(20) DEF RequestStop
  <2>3. CASE ~RequestStop(h)
    BY <2>3 DEF EnqueueRequest, RewriteRequest, SaveHub, SaveBody, SaveAgain, pack
  <2> QED
    BY <2>1, <2>2, <2>3
<1>2. \E step \in {"idle", "rewrite", "saveBody", "saveAgain"} : Goto(h, step)
  BY DEF RequestStop, EnqueueRequest, RewriteRequest, SaveHub, SaveBody, SaveAgain
<1>3. {"idle", "rewrite", "saveBody", "saveAgain"} \subseteq Plain
  BY DEF Plain, Steps, AskSteps
<1>4. h \in Procs /\ body \in Bodies /\ 0 \in Nat
  BY Parts DEF Procs, PackOK
<1>5. PICK step \in Plain : Goto(h, step)
  BY <1>2, <1>3
<1> QED
  BY <1>1, <1>4, <1>5, GotoFrame

LEMMA LeaseFrame ==
  ASSUME TypeInv, NEW w \in Workers, NEW k \in Kinds, Lease(w, k)
  PROVE  Frame(w)
<1> DEFINE leased == [Idle EXCEPT !.step = "begin", !.job = k, !.body = body]
<1>1. leased.step = "begin" /\ at' = [at EXCEPT ![w] = leased] /\ w \in Procs
  BY DEF Lease, Idle, Procs
<1> HIDE DEF leased
<1>2. UNCHANGED <<steers, stop, mem>>
  BY DEF Lease, pack
<1> QED
  BY <1>1, <1>2, Parts DEF Frame, AtOK

LEMMA AskFrame ==
  ASSUME TypeInv, NEW h \in Handlers, NEW kind \in RequestKinds, Ask(h, kind)
  PROVE  Frame(h)
<1> DEFINE step == IF kind \in Kinds THEN "enqueue" ELSE kind
<1> DEFINE asked == [Idle EXCEPT !.job = kind, !.body = body, !.step = step]
<1>1. step \notin {"append", "cycle"}
  BY RequestsAssumption DEF Requests, Kinds
<1>2. asked.step = step /\ at' = [at EXCEPT ![h] = asked] /\ h \in Procs
  BY DEF Ask, Idle, Procs
<1> HIDE DEF asked, step
<1>3. UNCHANGED <<steers, stop, mem>>
  BY DEF Ask, pack
<1> QED
  BY <1>1, <1>2, <1>3, Parts DEF Frame, AtOK

(* Every step is one of the four of the log and the loop, or has a frame.  *)
LEMMA StepFrame ==
  ASSUME TypeInv, [Next]_vars
  PROVE  \/ \E p \in Procs : BeginSteer(p) \/ AppendSteer(p) \/ Frame(p)
         \/ \E w \in Workers : LoopHead(w) \/ Cycle(w)
         \/ UNCHANGED vars
<1>1. ASSUME NEW w \in Workers, TaskStep(w) \/ PhaseStep(w) \/ Crash(w)
      PROVE  BeginSteer(w) \/ AppendSteer(w) \/ Frame(w) \/ LoopHead(w) \/ Cycle(w)
  BY <1>1, WorkerFrame DEF TaskStep, SessionStep
<1>2. ASSUME NEW h \in Handlers, RequestStep(h)
      PROVE  BeginSteer(h) \/ AppendSteer(h) \/ Frame(h)
  BY <1>2, RequestFrame DEF RequestStep
<1> QED
  BY <1>1, <1>2, LeaseFrame, AskFrame DEF Next, Procs

-----------------------------------------------------------------------------
(* A process that is about to append holds a number above all in the log.  *)
AheadOfLog ==
  \A p \in Procs : at[p].step = "append" =>
                     \A i \in DOMAIN steers : steers[i] < at[p].seq

LEMMA SteersStep == TypeInv /\ SteersKept /\ AheadOfLog /\ [Next]_vars
                      => SteersKept' /\ AheadOfLog'
<1> SUFFICES ASSUME TypeInv, SteersKept, AheadOfLog, [Next]_vars
             PROVE  SteersKept' /\ AheadOfLog'
  OBVIOUS
<1>1. CASE \E p \in Procs : BeginSteer(p)
  <2>1. PICK p \in Procs : BeginSteer(p)
    BY <1>1
  <2>2. UNCHANGED steers
    BY <2>1 DEF BeginSteer
  <2>3. CASE Goto(p, After(p))
    <3>1. After(p) \in Steps \ {"append"} /\ AtOK
      BY Parts DEF After, Steps, TaskSteps, SessionSteps
    <3>2. at'[p].step # "append" /\ \A q \in Procs \ {p} : at'[q] = at[q]
      BY <2>3, <3>1, GotoTyped
    <3> QED
      BY <2>2, <3>2 DEF SteersKept, AheadOfLog
  <2>4. CASE Go(p, "append", at[p].body, NextSeq)
    <3>1. at[p].body \in Bodies /\ NextSeq \in Nat \ {0} /\ "append" \in Steps /\ AtOK
      BY Parts, NextSeqFresh DEF AtOK, Locals, Steps, AskSteps
    <3>2. at'[p].seq = NextSeq /\ \A q \in Procs \ {p} : at'[q] = at[q]
      BY <2>4, <3>1, GoTyped
    <3>3. \A i \in DOMAIN steers : steers[i] < NextSeq
      BY Parts, NextSeqFresh
    <3> QED
      BY <2>2, <3>2, <3>3 DEF SteersKept, AheadOfLog
  <2> QED
    BY <2>1, <2>3, <2>4 DEF BeginSteer
<1>2. CASE \E p \in Procs : AppendSteer(p)
  <2>1. PICK p \in Procs : AppendSteer(p)
    BY <1>2
  <2>2. /\ at[p].seq \in Nat \ {0} /\ steers \in Seq(Nat \ {0})
        /\ \A i \in DOMAIN steers : steers[i] < at[p].seq
    BY <2>1, Parts DEF AppendSteer, Waited, SteerOK, AheadOfLog
  <2>3. /\ Len(steers) + 1 \in DOMAIN steers' /\ steers'[Len(steers) + 1] = at[p].seq
        /\ \A i \in DOMAIN steers' : i # Len(steers) + 1 =>
              i \in DOMAIN steers /\ steers'[i] = steers[i] /\ steers[i] \in Nat
    BY <2>1, <2>2 DEF AppendSteer
  <2>4. SteersKept'
    BY <2>2, <2>3 DEF SteersKept
  <2>5. \A q \in Procs : at'[q].step # "append"
    <3>1. After(p) \in Steps \ {"append"} /\ AtOK
      BY Parts DEF After, Steps, TaskSteps, SessionSteps
    <3>2. at'[p].step # "append" /\ \A q \in Procs \ {p} : at'[q] = at[q]
      BY <2>1, <3>1, GotoTyped DEF AppendSteer
    <3>3. \A q \in Procs \ {p} : at[q].step # "append"
      BY <2>1, Parts DEF AppendSteer, LockOK
    <3> QED
      BY <3>2, <3>3
  <2> QED
    BY <2>4, <2>5 DEF AheadOfLog
<1>3. CASE \E p \in Procs : Frame(p)
  BY <1>3 DEF Frame, SteersKept, AheadOfLog
<1>4. CASE \E w \in Workers : LoopHead(w) \/ Cycle(w)
  <2>1. PICK w \in Workers : LoopHead(w) \/ Cycle(w)
    BY <1>4
  <2>2. UNCHANGED steers /\ w \in Procs /\ AtOK
    BY <2>1, Parts DEF LoopHead, Cycle, Procs
  <2>3. \E step \in {"close", "cycle", "head"} : Goto(w, step)
    BY <2>1 DEF LoopHead, Cycle, TooLate, RunCycle
  <2>4. {"close", "cycle", "head"} \subseteq Steps \ {"append"}
    BY DEF Steps, TaskSteps, SessionSteps
  <2>5. at'[w].step # "append" /\ \A q \in Procs \ {w} : at'[q] = at[q]
    BY <2>2, <2>3, <2>4, GotoTyped
  <2> QED
    BY <2>2, <2>5 DEF SteersKept, AheadOfLog
<1>5. CASE UNCHANGED vars
  BY <1>5 DEF vars, pack, locals, SteersKept, AheadOfLog
<1> QED
  BY <1>1, <1>2, <1>3, <1>4, <1>5, StepFrame

(* No two steers that append_steer accepted bear the same number, whatever *)
(* requests and sessions append at once and wherever a worker dies.        *)
THEOREM SteersDistinct == Spec => []SteersKept
<1>1. Init => SteersKept /\ AheadOfLog
  BY DEF Init, SteersKept, AheadOfLog
<1> QED
  BY <1>1, InitTyped, StepTyped, SteersStep, PTL DEF Spec

-----------------------------------------------------------------------------
(* A session with a late cycle has been asked to stop, and is not in one.  *)
LateStopped ==
  \A w \in Workers : mem[w].late > 0 => mem[w].late = 1 /\ stop /\ at[w].step # "cycle"

LEMMA LateStep == TypeInv /\ LateStopped /\ [Next]_vars => LateStopped'
<1> SUFFICES ASSUME TypeInv, LateStopped, [Next]_vars PROVE LateStopped'
  OBVIOUS
<1> USE DEF LateStopped
<1>1. CASE \E p \in Procs : BeginSteer(p) \/ AppendSteer(p)
  <2>1. PICK p \in Procs : BeginSteer(p) \/ AppendSteer(p)
    BY <1>1
  <2>2. /\ UNCHANGED <<stop, mem>> /\ AtOK /\ at[p].body \in Bodies
        /\ \/ Goto(p, After(p))
           \/ Go(p, "append", at[p].body, NextSeq)
    BY <2>1, Parts DEF BeginSteer, AppendSteer, AtOK, Locals
  <2>3. {After(p), "append"} \subseteq Steps \ {"cycle"} /\ NextSeq \in Nat
    BY Parts, NextSeqFresh DEF After, Steps, TaskSteps, SessionSteps, AskSteps
  <2>4. at'[p].step # "cycle" /\ \A q \in Procs \ {p} : at'[q] = at[q]
    BY <2>2, <2>3, GoTyped, GotoTyped
  <2> QED
    BY <2>2, <2>4 DEF Procs
<1>2. CASE \E p \in Procs : Frame(p)
  <2>1. PICK p \in Procs : Frame(p)
    BY <1>2
  <2>2. SUFFICES ASSUME NEW w \in Workers, mem'[w].late > 0
                 PROVE  mem'[w].late = 1 /\ stop' /\ at'[w].step # "cycle"
    OBVIOUS
  <2>3. mem'[w].late = mem[w].late
    BY <2>1, <2>2 DEF Frame
  <2>4. mem[w].late = 1 /\ stop /\ at[w].step # "cycle"
    BY <2>2, <2>3
  <2>5. w \in Procs /\ at'[w].step # "cycle"
    BY <2>1, <2>4 DEF Frame, Procs
  <2> QED
    BY <2>1, <2>3, <2>4, <2>5 DEF Frame
<1>3. ASSUME NEW w \in Workers, LoopHead(w) PROVE LateStopped'
  <2>1. w \in Procs /\ UNCHANGED stop /\ AtOK /\ {"close", "cycle"} \subseteq Steps
    BY <1>3, Parts DEF LoopHead, Procs, Steps, TaskSteps, SessionSteps
  <2>2. CASE UNCHANGED mem /\ Goto(w, "close")
    <3>1. at'[w].step = "close" /\ \A q \in Procs \ {w} : at'[q] = at[q]
      BY <2>1, <2>2, GotoTyped
    <3> QED
      BY <2>1, <2>2, <3>1 DEF Procs
  <2>3. CASE /\ ~stop /\ Goto(w, "cycle")
             /\ \E n : mem' = [mem EXCEPT ![w].upto = n]
    <3>1. \A v \in Workers : mem'[v].late = mem[v].late
      BY <2>3, Parts DEF MemOK, Sessions
    <3>2. \A v \in Workers : mem[v] \in Sessions
      BY Parts DEF MemOK
    <3>3. \A v \in Workers : ~(mem[v].late > 0)
      BY <2>3
    <3> QED
      BY <3>1, <3>3
  <2> QED
    BY <1>3, <2>2, <2>3 DEF LoopHead, EndsAtHead
<1>4. ASSUME NEW w \in Workers, Cycle(w) PROVE LateStopped'
  <2>1. /\ w \in Procs /\ UNCHANGED stop /\ AtOK /\ {"close", "head"} \subseteq Steps
        /\ at[w].step = "cycle"
    BY <1>4, Parts DEF Cycle, Procs, Steps, TaskSteps, SessionSteps
  <2>2. \E step \in {"close", "head"} : Goto(w, step)
    BY <1>4 DEF Cycle, TooLate, RunCycle
  <2>3. at'[w].step # "cycle" /\ \A q \in Procs \ {w} : at'[q] = at[q]
    BY <2>1, <2>2, GotoTyped
  <2>4. mem[w] \in Sessions /\ ~(mem[w].late > 0)
    BY <2>1, Parts DEF MemOK
  <2>5. mem[w].late = 0
    BY <2>4 DEF Sessions
  <2>6. CASE TooLate(w)
    BY <2>1, <2>3, <2>6 DEF TooLate, Procs
  <2>7. ASSUME NEW verdict \in CycleVerdicts, RunCycle(w, verdict) PROVE LateStopped'
    <3>1. /\ mem'[w].late = IF stop THEN 1 ELSE 0
          /\ \A v \in Workers \ {w} : mem'[v] = mem[v]
      BY <2>5, <2>7, Parts DEF RunCycle, MemOK
    <3> QED
      BY <2>1, <2>3, <3>1 DEF Procs
  <2> QED
    BY <1>4, <2>6, <2>7 DEF Cycle
<1>5. CASE UNCHANGED vars
  BY <1>5 DEF vars, pack, locals
<1> QED
  BY <1>1, <1>2, <1>3, <1>4, <1>5, StepFrame

(* Once a stop is on file no session finishes more than the cycle it is    *)
(* in, for every number of cycles, steers and requests.                    *)
THEOREM StopHeeded == Spec => []StopWithinOneCycle
<1>1. Init => LateStopped
  BY DEF Init, LateStopped, NoSession
<1>2. TypeInv /\ LateStopped => StopWithinOneCycle
  <2> SUFFICES ASSUME TypeInv, LateStopped, NEW w \in Workers PROVE mem[w].late <= 1
    BY DEF StopWithinOneCycle
  <2>1. mem[w].late \in Nat
    BY Parts DEF MemOK, Sessions
  <2> QED
    BY <2>1 DEF LateStopped
<1> QED
  BY <1>1, <1>2, InitTyped, StepTyped, LateStep, PTL DEF Spec

-----------------------------------------------------------------------------
(* Of every step: the one-shot tasks, the marker and who is stamping.      *)
LEMMA Alone ==
  ASSUME TypeInv, NEW p \in Procs,
         \/ BeginSteer(p) \/ AppendSteer(p) \/ Frame(p)
         \/ (p \in Workers /\ (LoopHead(p) \/ Cycle(p)))
  PROVE  \A q \in Procs \ {p} : at'[q] = at[q]
<1>1. AtOK /\ at[p].body \in Bodies /\ NextSeq \in Nat
  BY Parts, NextSeqFresh DEF AtOK, Locals
<1>2. {After(p), "append", "close", "cycle", "head"} \subseteq Steps
  BY DEF After, Steps, TaskSteps, SessionSteps, AskSteps
<1>3. CASE BeginSteer(p) \/ AppendSteer(p)
  <2>1. Goto(p, After(p)) \/ Go(p, "append", at[p].body, NextSeq)
    BY <1>3 DEF BeginSteer, AppendSteer
  <2> QED
    BY <1>1, <1>2, <2>1, GoTyped, GotoTyped
<1>4. CASE p \in Workers /\ (LoopHead(p) \/ Cycle(p))
  <2>1. \E step \in {"close", "cycle", "head"} : Goto(p, step)
    BY <1>4 DEF LoopHead, Cycle, TooLate, RunCycle
  <2> QED
    BY <1>1, <1>2, <2>1, GotoTyped
<1> QED
  BY <1>3, <1>4 DEF Frame

LEMMA WorkerPhase ==
  ASSUME TypeInv, NEW w \in Workers,
         \/ TaskStep(w) \/ PhaseStep(w) \/ Crash(w) \/ \E k \in Kinds : Lease(w, k)
  PROVE  Phase(w)
<1>1. w \in Procs /\ at[w].body \in Bodies /\ AtOK
  BY Parts DEF Procs, AtOK, Locals
<1>2. \A q \in Procs \ {w} : at'[q] = at[q]
  BY <1>1, WorkerFrame, LeaseFrame, Alone DEF TaskStep, SessionStep
<1>3. CASE Stamp(w)
  <2>1. [at[w].body EXCEPT !.marker = TRUE] \in Bodies
    BY <1>1 DEF Bodies
  <2>2. WriteBody([at[w].body EXCEPT !.marker = TRUE]) /\ UNCHANGED shots
    BY <1>3 DEF Stamp
  <2>3. (disturbed => disturbed') /\ (~disturbed' => (body.marker => body'.marker))
    BY <2>1, <2>2, MarkerKept
  <2>4. body'.marker
    BY <1>1, <2>2 DEF WriteBody, Bodies
  <2> QED
    BY <1>2, <2>2, <2>3, <2>4 DEF Phase
<1>4. CASE Reread(w)
  <2>1. Go(w, "stamp", body, 0) /\ UNCHANGED <<body, shots, disturbed>>
    BY <1>4 DEF Reread, history
  <2>2. "stamp" \in Steps /\ body \in Bodies /\ 0 \in Nat
    BY Parts DEF Steps, PhaseSteps, PackOK
  <2>3. at'[w].step = "stamp"
    BY <1>1, <2>1, <2>2, GoTyped
  <2> QED
    BY <1>2, <2>1, <2>3 DEF Phase
<1>5. CASE Crash(w)
  BY <1>2, <1>5 DEF Phase, Crash
<1>6. CASE Shoot(w)
  BY <1>1, <1>2, <1>6 DEF Phase, Shoot
<1>7. CASE RecordVerdict(w) \/ RecordDeveloped(w)
  <2>1. PICK b \in Bodies : WriteBody(b)
    <3>1. [at[w].body EXCEPT !.verdict = TRUE] \in Bodies
      BY <1>1 DEF Bodies
    <3> QED
      BY <1>1, <1>7, <3>1 DEF RecordVerdict, RecordDeveloped
  <2>2. UNCHANGED shots /\ at[w].step \notin {"reread", "stamp"}
    BY <1>7 DEF RecordVerdict, RecordDeveloped
  <2> QED
    BY <1>2, <2>1, <2>2, MarkerKept DEF Phase
<1>8. CASE \/ Open(w) \/ SessionStep(w) \/ Raise(w)
           \/ FailTask(w) \/ RetryTask(w) \/ Validate(w) \/ WriteRun(w) \/ Develop(w)
           \/ EnterPhase(w) \/ Look(w) \/ \E k \in Kinds : Lease(w, k)
  <2>1. UNCHANGED <<body, shots, disturbed>> /\ at[w].step \notin {"reread", "stamp"}
    BY <1>8 DEF Open, SessionStep, BeginSteer, AppendSteer, Boot, LoopHead, Cycle, Close, Raise,
                FailTask, RetryTask, Validate, WriteRun, Develop, EnterPhase, Look, Lease, history
  <2> QED
    BY <1>2, <2>1 DEF Phase
<1> QED
  BY <1>3, <1>4, <1>5, <1>6, <1>7, <1>8 DEF TaskStep, PhaseStep

LEMMA RequestPhase ==
  ASSUME TypeInv, NEW h \in Handlers, RequestStep(h) \/ \E kind \in RequestKinds : Ask(h, kind)
  PROVE  Phase(h)
<1>1. h \in Procs /\ at[h].body \in Bodies /\ AtOK
  BY Parts DEF Procs, AtOK, Locals
<1>2. \A q \in Procs \ {h} : at'[q] = at[q]
  BY <1>1, RequestFrame, AskFrame, Alone DEF RequestStep, Frame
<1>3. UNCHANGED shots /\ at[h].step \notin {"reread", "stamp"}
  BY DEF RequestStep, BeginSteer, AppendSteer, RequestStop, EnqueueRequest, RewriteRequest,
         SaveHub, SaveBody, SaveAgain, Ask, history
<1>4. UNCHANGED <<body, disturbed>> \/ \E b \in Bodies : WriteBody(b)
  <2>1. [at[h].body EXCEPT !.verdict = FALSE] \in Bodies
    BY <1>1 DEF Bodies
  <2> QED
    BY <1>1, <2>1 DEF RequestStep, BeginSteer, AppendSteer, RequestStop, EnqueueRequest,
         RewriteRequest, SaveHub, SaveBody, SaveAgain, Ask, history
<1> QED
  BY <1>2, <1>3, <1>4, MarkerKept DEF Phase

(* An undisturbed pack has had no one-shot task, or has had one and either *)
(* bears its marker or has a worker on the way to stamp it.                *)
Marked == ~disturbed =>
            \/ shots = 0
            \/ /\ shots = 1
               /\ body.marker \/ \E w \in Workers : at[w].step \in {"reread", "stamp"}

LEMMA MarkedStep == TypeInv /\ Marked /\ [Next]_vars => Marked'
<1> SUFFICES ASSUME TypeInv, Marked, [Next]_vars PROVE Marked'
  OBVIOUS
<1>1. ASSUME NEW w \in Workers, Shoot(w) PROVE Marked'
  <2> SUFFICES ASSUME ~disturbed' PROVE Marked'
    BY DEF Marked
  <2>1. /\ ~disturbed /\ ~body.marker
        /\ \A v \in Workers \ {w} : at[v].step \notin PhaseSteps
    BY <1>1 DEF Shoot
  <2>2. \A v \in Workers : at[v].step \notin {"reread", "stamp"}
    BY <1>1, <2>1 DEF Shoot, PhaseSteps
  <2>3. shots' = 1
    BY <1>1, <2>1, <2>2 DEF Shoot, Marked
  <2>4. w \in Procs /\ AtOK /\ "reread" \in Steps /\ Goto(w, "reread")
    BY <1>1, Parts DEF Procs, Steps, PhaseSteps, Shoot
  <2>5. at'[w].step = "reread"
    BY <2>4, GotoTyped
  <2> QED
    BY <2>3, <2>5 DEF Marked
<1>2. ASSUME NEW p \in Procs, Phase(p), ~(p \in Workers /\ Shoot(p)) PROVE Marked'
  <2> SUFFICES ASSUME ~disturbed' PROVE Marked'
    BY DEF Marked
  <2>1. UNCHANGED shots /\ ~disturbed
    BY <1>2 DEF Phase
  <2>2. CASE shots = 0
    BY <2>1, <2>2 DEF Marked
  <2>3. CASE shots = 1 /\ body.marker
    BY <1>2, <2>1, <2>3 DEF Marked, Phase
  <2>4. ASSUME shots = 1, NEW w \in Workers, at[w].step \in {"reread", "stamp"}
        PROVE  Marked'
    <3>1. w \in Procs
      BY DEF Procs
    <3>2. CASE w = p
      BY <1>2, <2>1, <2>4, <3>2 DEF Phase, Marked
    <3>3. CASE w # p
      BY <1>2, <2>1, <2>4, <3>1, <3>3 DEF Phase, Marked
    <3> QED
      BY <3>2, <3>3
  <2> QED
    BY <2>1, <2>2, <2>3, <2>4 DEF Marked
<1>3. CASE UNCHANGED vars
  BY <1>3 DEF vars, history, locals, Marked
<1> QED
  BY <1>1, <1>2, <1>3, WorkerPhase, RequestPhase DEF Next, Procs

(* A second one-shot task is enqueued only after two phases overlapped, a  *)
(* worker died before it stamped the finding, or a stale body erased the   *)
(* stamp; for every number of workers and requests.                        *)
THEOREM OneShotOnce == Spec => []OneShotUndisturbed
<1>1. Init => Marked
  BY DEF Init, Marked
<1>2. Marked => OneShotUndisturbed
  BY DEF Marked, OneShotUndisturbed
<1> QED
  BY <1>1, <1>2, InitTyped, StepTyped, MarkedStep, PTL DEF Spec

-----------------------------------------------------------------------------
(* The sandbox: what a host can run, stated without the order in which the *)
(* harness asks.                                                           *)
Usable(host) ==
  {r \in Isolated :
     /\ r = "kata-fc" => host.docker /\ r \in host.runtimes /\ host.kvm /\ host.patched
     /\ r \in {"kata", "runsc"} => host.docker /\ r \in host.runtimes
     /\ r = "firecracker" => host.image /\ host.kvm /\ host.patched}

(* Whatever the operator sets as runner and network, a PoC is sent to at   *)
(* most one runtime, an isolating one that the host has; plain runc, a     *)
(* local process and the host's network are always refused; and the full   *)
(* ladder of "sandbox" refuses only a host that has no such runtime.       *)
THEOREM NoRunWithoutIsolation ==
  ASSUME NEW runner \in Runners, NEW network \in Networks, NEW host \in Hosts
  PROVE  /\ SelectIsolation(runner, network, host) \subseteq Usable(host)
         /\ \A r, q \in SelectIsolation(runner, network, host) : r = q
         /\ runner \in {"local_subprocess", "runc"} \/ network = "host" =>
              SelectIsolation(runner, network, host) = {}
         /\ runner = "sandbox" /\ network # "host" /\ Usable(host) # {} =>
              SelectIsolation(runner, network, host) # {}
<1> DEFINE chosen == SelectIsolation(runner, network, host)
           micro  == PickMicrovm(host)
           fire   == PickFirecracker(host)
           gvisor == PickGvisor(host)
<1>1. /\ host.docker \in BOOLEAN /\ host.kvm \in BOOLEAN /\ host.patched \in BOOLEAN
      /\ host.image \in BOOLEAN
  BY DEF Hosts
<1>2. /\ micro \subseteq {"kata-fc", "kata"} /\ micro \subseteq Usable(host)
      /\ \A r, q \in micro : r = q
      /\ "kata-fc" \in Usable(host) \/ "kata" \in Usable(host) => micro # {}
  BY <1>1 DEF PickMicrovm, Usable, Isolated, SessionRuntimes
<1>3. /\ fire \subseteq {"firecracker"} /\ fire \subseteq Usable(host)
      /\ "firecracker" \in Usable(host) => fire # {}
  BY <1>1 DEF PickFirecracker, Usable, Isolated, SessionRuntimes
<1>4. /\ gvisor \subseteq {"runsc"} /\ gvisor \subseteq Usable(host)
      /\ "runsc" \in Usable(host) => gvisor # {}
  BY <1>1 DEF PickGvisor, Usable, Isolated, SessionRuntimes
<1>5. Usable(host) \subseteq {"kata-fc", "kata", "runsc", "firecracker"}
  BY DEF Usable, Isolated, SessionRuntimes
<1> HIDE DEF micro, fire, gvisor
<1>6. CASE runner \in {"local_subprocess", "runc"} \/ network = "host"
  <2>1. chosen = {}
    BY <1>6 DEF SelectIsolation
  <2> QED
    BY <1>6, <2>1
<1>7. CASE ~(runner \in {"local_subprocess", "runc"} \/ network = "host")
  <2>1. runner \in {"sandbox", "microvm", "firecracker", "gvisor"}
    BY <1>7 DEF Runners
  <2>2. CASE runner = "gvisor"
    <3>1. chosen = gvisor
      BY <1>7, <2>2 DEF SelectIsolation, gvisor
    <3> QED
      BY <1>4, <1>7, <2>2, <3>1
  <2>3. CASE runner = "firecracker"
    <3>1. chosen = fire
      BY <1>7, <2>3 DEF SelectIsolation, fire
    <3> QED
      BY <1>3, <1>7, <2>3, <3>1
  <2>4. CASE runner = "microvm"
    <3>1. chosen = FirstOf(micro, fire)
      BY <1>7, <2>4 DEF SelectIsolation, micro, fire
    <3>2. chosen = micro \/ chosen = fire
      BY <3>1 DEF FirstOf
    <3>3. /\ micro \subseteq Usable(host) /\ \A r, q \in micro : r = q
          /\ fire \subseteq Usable(host) /\ \A r, q \in fire : r = q
      BY <1>2, <1>3
    <3>4. chosen \subseteq Usable(host) /\ \A r, q \in chosen : r = q
      <4> HIDE DEF chosen
      <4> QED
        BY <3>2, <3>3
    <3> QED
      BY <1>7, <2>4, <3>4
  <2>5. CASE runner = "sandbox"
    <3>1. chosen = FirstOf(micro, FirstOf(fire, gvisor))
      BY <1>7, <2>5 DEF SelectIsolation, micro, fire, gvisor
    <3>2. chosen = micro \/ chosen = fire \/ chosen = gvisor
      BY <3>1 DEF FirstOf
    <3>3. micro # {} \/ fire # {} \/ gvisor # {} => chosen # {}
      BY <3>1 DEF FirstOf
    <3>4. Usable(host) # {} => micro # {} \/ fire # {} \/ gvisor # {}
      BY <1>2, <1>3, <1>4, <1>5
    <3>5. /\ micro \subseteq Usable(host) /\ \A r, q \in micro : r = q
          /\ fire \subseteq Usable(host) /\ \A r, q \in fire : r = q
          /\ gvisor \subseteq Usable(host) /\ \A r, q \in gvisor : r = q
      BY <1>2, <1>3, <1>4
    <3>6. chosen \subseteq Usable(host) /\ \A r, q \in chosen : r = q
      <4> HIDE DEF chosen
      <4> QED
        BY <3>2, <3>5
    <3> QED
      BY <1>7, <3>3, <3>4, <3>6
  <2> QED
    BY <2>1, <2>2, <2>3, <2>4, <2>5
<1> QED
  BY <1>6, <1>7

(* A verdict of signal_observed is never made of a run that timed out, did *)
(* not start or was refused by docker, nor of a PoC without a regex; a run *)
(* in a container that asks for the host's network gives unsafe_skipped.   *)
THEOREM SignalWasSeen ==
  ASSUME NEW runtime \in Isolated, NEW network \in Networks, NEW hasRegex \in BOOLEAN,
         NEW run \in RunIsolated(runtime, network, hasRegex)
  PROVE  /\ CycleVerdict(run) \in Verdicts
         /\ CycleVerdict(run) = "signal_observed" =>
              /\ run.error = "none" /\ run.daemon = "none" /\ run.signal = "matched"
              /\ hasRegex
              /\ network = "host" => runtime = "firecracker"
         /\ network = "host" /\ runtime # "firecracker" => CycleVerdict(run) = "unsafe_skipped"
<1>1. /\ run.error \in {"none", "timeout", "spawn", "no_docker", "mount", "host_network"}
      /\ run.zero \in BOOLEAN /\ run.daemon \in {"none", "no_image", "no_runtime"}
      /\ run.signal \in {"none", "matched", "absent"}
  BY DEF RunIsolated, Captured, Outcomes
<1>2. /\ run.signal = "none" <=> ~hasRegex
      /\ run.daemon # "none" => run.signal # "matched"
      /\ network = "host" /\ runtime # "firecracker" <=> run.error = "host_network"
  BY DEF RunIsolated, Captured
<1>3. CycleVerdict(run) = IF run.error \in {"mount", "host_network"} THEN "unsafe_skipped"
                           ELSE IF BuildFailed(run)    THEN "build_failed"
                           ELSE IF MissingRuntime(run) THEN "sandbox_unavailable"
                           ELSE Classify(run)
  BY DEF CycleVerdict, Verdict
<1>4. CASE run.error \in {"mount", "host_network"}
  <2>1. CycleVerdict(run) = "unsafe_skipped"
    BY <1>1, <1>3, <1>4 DEF BuildFailed, MissingRuntime
  <2> QED
    BY <2>1 DEF Verdicts
<1>5. CASE run.error \notin {"mount", "host_network"} /\ (BuildFailed(run) \/ MissingRuntime(run))
  <2>1. CycleVerdict(run) \in {"build_failed", "sandbox_unavailable"}
    BY <1>1, <1>3, <1>5 DEF BuildFailed, MissingRuntime
  <2> QED
    BY <1>2, <1>5, <2>1 DEF Verdicts
<1>6. CASE ~(run.error \in {"mount", "host_network"} \/ BuildFailed(run) \/ MissingRuntime(run))
  <2>1. CycleVerdict(run) = Classify(run) /\ run.daemon = "none"
    BY <1>1, <1>3, <1>6 DEF BuildFailed, MissingRuntime
  <2>2. /\ Classify(run) \in Verdicts
        /\ Classify(run) = "signal_observed" => run.error = "none" /\ run.signal = "matched"
    BY <1>1 DEF Classify, Verdicts
  <2> QED
    BY <1>2, <1>6, <2>1, <2>2
<1> QED
  BY <1>4, <1>5, <1>6

=============================================================================
