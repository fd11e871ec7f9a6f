--------------------------- MODULE HuntTreeProofs ---------------------------
(***************************************************************************)
(* Proofs about HuntTree, for every set of workers, classes and            *)
(* configurations, and for every value of the caps.                        *)
(***************************************************************************)
EXTENDS HuntTree, FiniteSetTheorems, TLAPS

Steps == {"idle", "rounds", "request", "continue", "none", "count", "split", "done"}
Sessions == [candidate : BOOLEAN, none : BOOLEAN, forced : BOOLEAN, child : BOOLEAN]
Seats == [step : Steps, id : Nat, slot : Nat,
          session : Sessions, calls : Nat, loop : {"open", "round", "closed"},
          spawned : SUBSET Classes, ask : Classes, left : Nat,
          rows : SUBSET Outcomes, kept : BOOLEAN, outcome : Outcomes \union {"open"}]

-----------------------------------------------------------------------------
(* The invariant.                                                          *)

Idle(w) == at[w].step = "idle"

HuntsOK == /\ IsFiniteSet(DOMAIN hunts) /\ DOMAIN hunts \subseteq Ids
           /\ \A i \in DOMAIN hunts : /\ hunts[i] \in Payloads
                                      /\ IsFiniteSet(hunts[i].chain)
                                      /\ Cardinality(hunts[i].chain) < MaxChain

Typed == /\ cfg \in Configs /\ table \in {"short", "long", "longer"}
         /\ splits \in [made : Nat, counted : Nat] /\ faults \in 0..cfg.faults
         /\ doubled \in BOOLEAN /\ raced \in BOOLEAN
         /\ at \in [Workers -> Seats]

(* A worker at work has a lease of a live hunt, of its own.                *)
Leasing == /\ \A w \in Workers : IF Idle(w) THEN at[w].id = 0
                                            ELSE at[w].id \in DOMAIN hunts
           /\ \A v, w \in Workers : at[v].id = at[w].id /\ ~Idle(v) => v = w

(* What was tested when a step was taken up still holds of the hunt.       *)
Tested(w) ==
  /\ at[w].calls > 0 => at[w].step = "rounds" /\ Payload(w).gen < cfg.generations
  /\ at[w].step = "continue" => Payload(w).gen < cfg.generations
  /\ at[w].step = "request" => Cardinality(Payload(w).chain) + 1 < MaxChain
  /\ at[w].step = "split" => Payload(w).split < cfg.depth /\ at[w].left > 0

(* Where an accepted candidate is remembered.                              *)
Remembered(w) ==
  /\ ~Idle(w) => at[w].slot \in 1..cfg.slots
  /\ at[w].rows # {} => at[w].slot > 1
  /\ at[w].kept =>
       \/ at[w].step \in {"rounds", "request", "continue"} /\ "candidate" \in at[w].rows
       \/ at[w].step = "done" /\ at[w].outcome \in {"candidate", "continued", "infra", "refused"}
  /\ at[w].step = "none" => at[w].outcome = "none"

(* Unless two aborts raced, one worker at a time splits, and what it will  *)
(* still enqueue fits into the budget.                                     *)
Splitting(w) == at[w].step = "split"
Budgeted ==
  ~raced /\ table # "longer" =>
    /\ splits.counted = splits.made /\ splits.made <= SplitBudget
    /\ \A v, w \in Workers : Splitting(v) /\ Splitting(w) => v = w
    /\ \A w \in Workers : Splitting(w) => splits.made + at[w].left <= SplitBudget

(* A hunt stands for its parent's continuation until its worker may have   *)
(* enqueued a repetition of it; a call between look and enqueue saw none.  *)
Standing(i) == \A w \in Workers : at[w].id = i =>
                 ~(at[w].step = "done" /\ at[w].outcome = "none")
OneStanding == \A i, j \in DOMAIN hunts :
             /\ hunts[i].from # 0 /\ hunts[i].from = hunts[j].from
             /\ Standing(i) /\ Standing(j)
             => i = j
Looked(w) == /\ at[w].calls <= 1
             /\ at[w].calls > 0 => Children(w) = {}
Continued == ~doubled => OneStanding /\ \A w \in Workers : Looked(w)

Inv == /\ Typed /\ HuntsOK /\ Leasing /\ Budgeted /\ Continued
       /\ \A w \in Workers : Tested(w) /\ Remembered(w)

-----------------------------------------------------------------------------
(* A new hunt gets a number of its own, and the others keep theirs.        *)
LEMMA NewIdFree ==
  ASSUME HuntsOK
  PROVE  /\ NewId \in Ids
         /\ \A j \in DOMAIN hunts : NewId # j /\ NewId # hunts[j].from
<1> DEFINE D == DOMAIN hunts
           F == {hunts[j].from : j \in D}
           n == Cardinality(D)
           Choices == 1..(2 * n + 1)
<1>1. IsFiniteSet(D) /\ n \in Nat
  BY FS_CardinalityType DEF HuntsOK
<1>2. IsFiniteSet(F) /\ Cardinality(F) \in Nat /\ Cardinality(F) <= n
  <2> DEFINE f == [j \in D |-> hunts[j].from]
  <2>1. f \in Surjection(D, F)
    <3>1. f \in [D -> F]
      OBVIOUS
    <3>2. \A x \in F : \E j \in D : f[j] = x
      OBVIOUS
    <3> QED
      BY <3>1, <3>2 DEF Surjection
  <2>2. IsFiniteSet(F) /\ Cardinality(F) <= Cardinality(D)
    BY <1>1, <2>1, FS_Surjection
  <2> QED
    BY <2>2, FS_CardinalityType
<1>3. IsFiniteSet(D \union F) /\ Cardinality(D \union F) <= 2 * n
  <2>1. /\ IsFiniteSet(D \union F)
        /\ Cardinality(D \union F) = n + Cardinality(F) - Cardinality(D \cap F)
    BY <1>1, <1>2, FS_Union
  <2>2. Cardinality(D \cap F) \in Nat
    <3>1. IsFiniteSet(D \cap F)
      BY <1>1, FS_Subset
    <3> QED
      BY <3>1, FS_CardinalityType
  <2> HIDE DEF D, F, n
  <2> QED
    BY <1>1, <1>2, <2>1, <2>2
<1>4. IsFiniteSet(Choices) /\ Cardinality(Choices) = 2 * n + 1
  <2> HIDE DEF D, n
  <2>1. 2 * n + 1 \in Int /\ 1 \in Int /\ ~(1 > 2 * n + 1) /\ (2 * n + 1) - 1 + 1 = 2 * n + 1
    BY <1>1
  <2> QED
    BY <2>1, FS_Interval
<1>5. ~(Choices \subseteq D \union F)
  <2>1. Choices \subseteq D \union F => Cardinality(Choices) <= Cardinality(D \union F)
    BY <1>3, FS_Subset
  <2>2. Cardinality(D \union F) \in Nat
    BY <1>3, FS_CardinalityType
  <2> HIDE DEF D, F, n, Choices
  <2> QED
    BY <1>1, <1>3, <1>4, <2>1, <2>2
<1>6. PICK i \in Choices : i \notin D \union F
  BY <1>5
<1>7. \A j \in D : i # j /\ i # hunts[j].from
  BY <1>6
<1>8. /\ NewId \in Choices
      /\ \A j \in D : NewId # j /\ NewId # hunts[j].from
  BY <1>6, <1>7 DEF NewId
<1>9. Choices \subseteq Ids
  <2> HIDE DEF n
  <2> QED
    BY <1>1 DEF Ids
<1> QED
  BY <1>8, <1>9

LEMMA EnqueueKeeps ==
  ASSUME HuntsOK, UNCHANGED cfg, NEW p \in Payloads, IsFiniteSet(p.chain),
         Cardinality(p.chain) < MaxChain, Enqueue(p)
  PROVE  /\ HuntsOK'
         /\ NewId \notin DOMAIN hunts /\ NewId # 0
         /\ DOMAIN hunts' = DOMAIN hunts \union {NewId}
         /\ hunts'[NewId].from = p.from
         /\ \A i \in DOMAIN hunts : hunts'[i] = hunts[i] /\ NewId # hunts[i].from
<1>1. /\ NewId \in Ids
      /\ \A j \in DOMAIN hunts : NewId # j /\ NewId # hunts[j].from
  BY NewIdFree
<1> DEFINE k == NewId
           q == Row(p)
<1>0. q \in Payloads /\ q.chain = p.chain /\ q.from = p.from
  <2> DEFINE listed == (table = "short")
  <2>1. listed \in BOOLEAN /\ q = [p EXCEPT !.listed = listed, !.paused = FALSE]
    BY DEF Row
  <2> HIDE DEF listed, q
  <2> QED
    BY <2>1 DEF Payloads
<1>2. /\ DOMAIN hunts' = DOMAIN hunts \union {k}
      /\ hunts'[k] = q
      /\ \A i \in DOMAIN hunts : hunts'[i] = hunts[i]
  <2> HIDE DEF k
  <2>1. hunts' = [i \in DOMAIN hunts \union {k} |-> IF i = k THEN q ELSE hunts[i]]
    BY DEF Enqueue, k, q
  <2> HIDE DEF q
  <2> QED
    BY <1>1, <2>1 DEF k
<1> HIDE DEF q
<1>3. HuntsOK'
  <2>1. Payloads' = Payloads
    BY DEF Payloads
  <2>2. IsFiniteSet(DOMAIN hunts')
    BY <1>2, FS_AddElement DEF HuntsOK
  <2> HIDE DEF k
  <2>3. k \in Ids
    BY <1>1 DEF k
  <2> QED
    BY <1>0, <1>2, <2>1, <2>2, <2>3 DEF HuntsOK
<1> QED
  BY <1>0, <1>1, <1>2, <1>3 DEF Ids

LEMMA ForgetKeeps ==
  ASSUME HuntsOK, UNCHANGED cfg, NEW id \in DOMAIN hunts, hunts' = Forget(id)
  PROVE  /\ HuntsOK'
         /\ DOMAIN hunts' = DOMAIN hunts \ {id}
         /\ \A i \in DOMAIN hunts' :
              hunts'[i] = [hunts[i] EXCEPT !.from = IF @ = id THEN 0 ELSE @]
<1>1. /\ DOMAIN hunts' = DOMAIN hunts \ {id}
      /\ \A i \in DOMAIN hunts' :
           hunts'[i] = [hunts[i] EXCEPT !.from = IF @ = id THEN 0 ELSE @]
  BY DEF Forget
<1>2. Payloads' = Payloads
  BY DEF Payloads
<1>3. IsFiniteSet(DOMAIN hunts')
  BY <1>1, FS_Subset DEF HuntsOK
<1>4. ASSUME NEW i \in DOMAIN hunts'
      PROVE  hunts'[i] \in Payloads /\ hunts'[i].chain = hunts[i].chain
  BY <1>1 DEF HuntsOK, Payloads
<1>5. HuntsOK'
  BY <1>1, <1>2, <1>3, <1>4 DEF HuntsOK
<1> QED
  BY <1>1, <1>5

-----------------------------------------------------------------------------
(* What a step leaves alone.                                               *)

(* The hunts of the workers that do not move stay what they are, but for   *)
(* whom they continue.                                                     *)
Carried(w) == \A i \in DOMAIN hunts : i # at[w].id =>
                /\ i \in DOMAIN hunts'
                /\ hunts'[i].gen = hunts[i].gen /\ hunts'[i].split = hunts[i].split
                /\ hunts'[i].chain = hunts[i].chain

LEMMA OthersKept ==
  ASSUME Inv, NEW w \in Workers, NEW s \in Seats, Become(w, s), UNCHANGED cfg, Carried(w),
         IF s.step = "idle" THEN s.id = 0
         ELSE s.id \in DOMAIN hunts' /\ (s.id = at[w].id \/ ~Leased(s.id)),
         s.step # "idle" => s.id # 0,
         Tested(w)', Remembered(w)'
  PROVE  /\ at' \in [Workers -> Seats] /\ Leasing'
         /\ \A v \in Workers : (Tested(v) /\ Remembered(v))'
<1>1. /\ at' \in [Workers -> Seats] /\ at'[w] = s
      /\ \A v \in Workers \ {w} : at'[v] = at[v]
  BY DEF Inv, Typed, Become
<1>2. ASSUME NEW v \in Workers \ {w}, ~Idle(v)
      PROVE  /\ at[v].id \in DOMAIN hunts /\ at[v].id # at[w].id
             /\ at[v].id \in DOMAIN hunts' /\ at[v].id # s.id
             /\ Payload(v)'.gen = Payload(v).gen /\ Payload(v)'.split = Payload(v).split
             /\ Payload(v)'.chain = Payload(v).chain
  <2>1. at[v].id \in DOMAIN hunts /\ at[v].id # at[w].id /\ at[v].id # 0
    BY <1>2 DEF Inv, Leasing, HuntsOK, Ids
  <2>2. at[v].id # s.id
    BY <2>1 DEF Leased
  <2> QED
    BY <1>1, <2>1, <2>2 DEF Carried, Payload
<1>3. ASSUME NEW v \in Workers \ {w}
      PROVE  (Tested(v) /\ Remembered(v))'
  <2>1. Tested(v) /\ Remembered(v)
    BY DEF Inv
  <2>2. CASE Idle(v)
    BY <1>1, <2>1, <2>2 DEF Tested, Remembered, Idle, Payload
  <2>3. CASE ~Idle(v)
    BY <1>1, <1>2, <2>1, <2>3 DEF Tested, Remembered, Idle
  <2> QED
    BY <2>2, <2>3
<1>4. Leasing'
  <2>1. \A v \in Workers : IF Idle(v)' THEN at'[v].id = 0 ELSE at'[v].id \in DOMAIN hunts'
    BY <1>1, <1>2 DEF Inv, Leasing, Idle
  <2>2. ASSUME NEW u \in Workers, NEW v \in Workers, at'[u].id = at'[v].id, ~Idle(u)', u # v
        PROVE  FALSE
    <3>1. CASE u = w
      <4>1. s.id = at[v].id /\ s.id # 0
        BY <1>1, <2>2, <3>1 DEF Idle
      <4> QED
        BY <1>2, <2>2, <3>1, <4>1 DEF Inv, Leasing
    <3>2. CASE v = w
      BY <1>1, <1>2, <2>2, <3>2 DEF Idle
    <3>3. CASE u # w /\ v # w
      BY <1>1, <2>2, <3>3 DEF Inv, Leasing, Idle
    <3> QED
      BY <3>1, <3>2, <3>3
  <2> QED
    BY <2>1, <2>2 DEF Leasing
<1> QED
  BY <1>1, <1>3, <1>4

LEMMA BudgetKept ==
  ASSUME Inv, NEW w \in Workers, NEW s \in Seats, Become(w, s), s.step # "split",
         UNCHANGED <<table, splits, raced>>
  PROVE  Budgeted'
<1>1. /\ at'[w] = s /\ \A v \in Workers \ {w} : at'[v] = at[v]
  BY DEF Inv, Typed, Become
<1>2. \A v \in Workers : Splitting(v)' => Splitting(v) /\ at'[v].left = at[v].left
  BY <1>1 DEF Splitting
<1> QED
  BY <1>2 DEF Inv, Budgeted

(* No hunt is enqueued or forgotten, at most parked or let go again.       *)
Parked(i, b) == hunts' = [hunts EXCEPT ![i].paused = b]
SameHunts == /\ DOMAIN hunts' = DOMAIN hunts
             /\ \A i \in DOMAIN hunts : hunts'[i].from = hunts[i].from

LEMMA ParkedKeeps ==
  ASSUME HuntsOK, UNCHANGED cfg, NEW i \in DOMAIN hunts, NEW b \in BOOLEAN, Parked(i, b)
  PROVE  /\ HuntsOK' /\ SameHunts
         /\ \A j \in DOMAIN hunts :
              /\ hunts'[j].gen = hunts[j].gen /\ hunts'[j].split = hunts[j].split
              /\ hunts'[j].chain = hunts[j].chain
<1>1. /\ DOMAIN hunts' = DOMAIN hunts
      /\ \A j \in DOMAIN hunts \ {i} : hunts'[j] = hunts[j]
      /\ hunts'[i] = [hunts[i] EXCEPT !.paused = b]
  BY DEF Parked
<1>2. /\ hunts'[i] \in Payloads /\ hunts'[i].gen = hunts[i].gen
      /\ hunts'[i].split = hunts[i].split /\ hunts'[i].chain = hunts[i].chain
      /\ hunts'[i].from = hunts[i].from
  <2>1. hunts[i] \in Payloads
    BY DEF HuntsOK
  <2> QED
    BY <1>1, <2>1 DEF Payloads
<1>3. Payloads' = Payloads
  BY DEF Payloads
<1> QED
  BY <1>1, <1>2, <1>3 DEF HuntsOK, SameHunts

(* No hunt comes to stand again.                                           *)
LEMMA ContinuedKept ==
  ASSUME Inv, NEW w \in Workers, NEW s \in Seats, Become(w, s),
         UNCHANGED hunts \/ SameHunts, UNCHANGED doubled,
         ~(at[w].step = "done" /\ at[w].outcome = "none"),
         s.calls = 0 \/ (s.calls = at[w].calls /\ s.id = at[w].id)
  PROVE  Continued'
<1> SUFFICES ASSUME ~doubled
             PROVE  OneStanding' /\ \A v \in Workers : Looked(v)'
  BY DEF Continued
<1>1. /\ at'[w] = s /\ \A v \in Workers \ {w} : at'[v] = at[v]
  BY DEF Inv, Typed, Become
<1>2. ASSUME NEW v \in Workers
      PROVE  Looked(v)'
  <2>1. Looked(v)
    BY DEF Inv, Continued
  <2>2. at[v].id = at'[v].id => Children(v)' = Children(v)
    BY DEF Children, SameHunts
  <2> QED
    BY <1>1, <2>1, <2>2 DEF Looked
<1>3. \A i \in DOMAIN hunts : Standing(i)' => Standing(i)
  <2> SUFFICES ASSUME NEW i \in DOMAIN hunts, Standing(i)', NEW v \in Workers, at[v].id = i,
                      at[v].step = "done", at[v].outcome = "none"
               PROVE  FALSE
    BY DEF Standing
  <2> QED
    BY <1>1 DEF Standing
<1> QED
  BY <1>2, <1>3 DEF Inv, Continued, OneStanding, SameHunts

LEMMA Quiet ==
  ASSUME Inv, NEW w \in Workers, NEW s \in Seats, Become(w, s),
         UNCHANGED <<cfg, table, hunts, splits, doubled, raced>>,
         UNCHANGED faults \/ faults' \in 0..cfg.faults,
         ~Idle(w), at[w].step # "done",
         s.id = at[w].id, s.step \notin {"idle", "split"}, s.calls \in {0, at[w].calls},
         Tested(w)', Remembered(w)'
  PROVE  Inv'
<1>1. at[w].id \in DOMAIN hunts /\ at[w].id # 0 /\ Carried(w)
  BY DEF Inv, Leasing, HuntsOK, Ids, Carried
<1>2. /\ at' \in [Workers -> Seats] /\ Leasing'
      /\ \A v \in Workers : (Tested(v) /\ Remembered(v))'
  BY <1>1, OthersKept
<1>3. Budgeted'
  BY BudgetKept
<1>4. Continued'
  BY ContinuedKept
<1>5. Typed' /\ HuntsOK'
  BY <1>2 DEF Inv, Typed, HuntsOK, Payloads
<1> QED
  BY <1>2, <1>3, <1>4, <1>5 DEF Inv

(* The seat that a step of worker w leaves it in.                          *)
LEMMA Seat ==
  ASSUME Inv, NEW w \in Workers
  PROVE  /\ at[w] \in Seats /\ Tested(w) /\ Remembered(w)
         /\ ~Idle(w) => at[w].id \in DOMAIN hunts /\ at[w].id # 0
         /\ \A s : Become(w, s) => at'[w] = s
         /\ at[w].calls \in Nat /\ at[w].slot \in Nat /\ at[w].left \in Nat
<1>1. at[w] \in Seats
  BY DEF Inv, Typed
<1>2. at[w].calls \in Nat /\ at[w].slot \in Nat /\ at[w].left \in Nat
  BY <1>1 DEF Seats
<1> QED
  BY <1>1, <1>2 DEF Inv, Typed, Leasing, HuntsOK, Ids, Become

LEMMA StoreKeeps ==
  ASSUME Inv, NEW w \in Workers, at[w].step = "rounds",
         NEW s \in Sessions,
         NEW loop \in {"open", "round", "closed"}, Store(w, s, loop),
         UNCHANGED <<cfg, table, hunts, splits, doubled, raced>>,
         UNCHANGED faults \/ faults' \in 0..cfg.faults
  PROVE  Inv'
<1> DEFINE t == [at[w] EXCEPT !.session = s, !.loop = loop]
<1>1. /\ at[w] \in Seats /\ Tested(w) /\ Remembered(w)
      /\ at[w].id \in DOMAIN hunts /\ at[w].id # 0
  BY Seat DEF Idle
<1>2. Become(w, t) /\ t \in Seats
  BY <1>1 DEF Store, Seats
<1>3. /\ t.step = at[w].step /\ t.calls = at[w].calls /\ t.id = at[w].id /\ t.slot = at[w].slot
      /\ t.rows = at[w].rows /\ t.kept = at[w].kept /\ t.outcome = at[w].outcome
  BY <1>1 DEF Seats
<1>4. at'[w] = t
  BY <1>2, Seat
<1> HIDE DEF t
<1>5. Tested(w)' /\ Remembered(w)'
  BY <1>1, <1>3, <1>4 DEF Tested, Remembered, Idle, Payload
<1> QED
  BY <1>2, <1>3, <1>5, Quiet DEF Idle

-----------------------------------------------------------------------------
(* The rounds.                                                             *)
LEMMA LookCounted ==
  ASSUME Inv, NEW raised \in BOOLEAN, Look(raised)
  PROVE  faults' \in 0..cfg.faults
<1>1. cfg.faults \in Nat /\ faults \in 0..cfg.faults
  BY ConfigsAssumption DEF Inv, Typed
<1> DEFINE limit == cfg.faults
<1>2. CASE raised
  <2>1. faults < limit /\ faults' = faults + 1
    BY <1>2 DEF Look
  <2> HIDE DEF limit
  <2> QED
    BY <1>1, <2>1 DEF limit
<1>3. CASE ~raised
  <2>1. faults' = faults + 0
    BY <1>3 DEF Look
  <2> QED
    BY <1>1, <2>1
<1> QED
  BY <1>2, <1>3

LEMMA SessionsTyped ==
  ASSUME Inv, NEW w \in Workers
  PROVE  /\ Session(w) \in Sessions
         /\ [Session(w) EXCEPT !.candidate = TRUE] \in Sessions
         /\ [Session(w) EXCEPT !.none = TRUE] \in Sessions
         /\ [Session(w) EXCEPT !.none = TRUE, !.forced = TRUE] \in Sessions
         /\ [Session(w) EXCEPT !.child = TRUE] \in Sessions
BY Seat DEF Seats, Session, Sessions

LEMMA Submits ==
  ASSUME Inv, NEW w \in Workers, SubmitCandidate(w) \/ SubmitNone(w) \/ ForceNone(w)
  PROVE  Inv'
BY SessionsTyped, StoreKeeps DEF SubmitCandidate, SubmitNone, ForceNone, MayCall

LEMMA Asks ==
  ASSUME Inv, NEW w \in Workers, RequestHunt(w)
  PROVE  Inv'
<1>1. PICK c \in Classes, raised \in BOOLEAN :
        Look(raised) /\ Become(w, [at[w] EXCEPT !.step = "request", !.ask = c])
  BY DEF RequestHunt
<1> DEFINE t == [at[w] EXCEPT !.step = "request", !.ask = c]
<1>2. /\ at[w] \in Seats /\ Tested(w) /\ Remembered(w)
      /\ at[w].id \in DOMAIN hunts /\ at'[w] = t
  BY <1>1, Seat DEF Idle, RequestHunt
<1>3. t \in Seats
  BY <1>2 DEF Seats, Steps
<1>4. /\ t.step = "request" /\ t.calls = at[w].calls /\ t.id = at[w].id /\ t.slot = at[w].slot
      /\ t.rows = at[w].rows /\ t.kept = at[w].kept
  BY <1>2 DEF Seats
<1>5. at[w].step = "rounds" /\ at[w].calls = 0 /\ Cardinality(Payload(w).chain) + 1 < MaxChain
  BY DEF RequestHunt
<1>6. /\ UNCHANGED <<cfg, table, hunts, splits, doubled, raced>>
      /\ faults' \in 0..cfg.faults
  BY <1>1, LookCounted DEF RequestHunt
<1>7. Become(w, t)
  BY <1>1
<1> HIDE DEF t
<1>8. Tested(w)' /\ Remembered(w)'
  BY <1>2, <1>4, <1>5, <1>6 DEF Tested, Remembered, Idle, Payload
<1> QED
  BY <1>3, <1>4, <1>5, <1>6, <1>7, <1>8, Quiet DEF Idle

LEMMA Calls ==
  ASSUME Inv, NEW w \in Workers, CallContinue(w)
  PROVE  Inv'
<1>0. PICK raised \in BOOLEAN :
        /\ Look(raised)
        /\ IF ExistingChild(w) /\ ~raised
           THEN Store(w, [Session(w) EXCEPT !.child = TRUE], "round") /\ UNCHANGED doubled
           ELSE /\ Become(w, [at[w] EXCEPT !.calls = @ + 1])
                /\ doubled' = (doubled \/ at[w].calls > 0 \/ Missed(w, raised))
  BY DEF CallContinue
<1>1. /\ at[w].step = "rounds" /\ Payload(w).gen < cfg.generations
      /\ UNCHANGED <<cfg, table, hunts, splits, raced>> /\ faults' \in 0..cfg.faults
  BY <1>0, LookCounted DEF CallContinue, MayCall, MayContinue
<1>2. CASE ExistingChild(w) /\ ~raised
  BY <1>0, <1>1, <1>2, SessionsTyped, StoreKeeps
<1>3. CASE ~(ExistingChild(w) /\ ~raised)
  <2> DEFINE n == at[w].calls + 1
             t == [at[w] EXCEPT !.calls = n]
  <2>1. /\ Become(w, t) /\ doubled' = (doubled \/ at[w].calls > 0 \/ Missed(w, raised))
        /\ UNCHANGED <<cfg, table, hunts, splits, raced>> /\ faults' \in 0..cfg.faults
    BY <1>0, <1>1, <1>3
  <2>2. /\ at[w] \in Seats /\ Tested(w) /\ Remembered(w)
        /\ at[w].id \in DOMAIN hunts /\ at[w].id # 0 /\ at'[w] = t
    BY <1>1, <2>1, Seat DEF Idle
  <2>3. n \in Nat /\ n > 0
    BY Seat
  <2>4. at[w].calls = 0 => n = 1
    OBVIOUS
  <2> HIDE DEF n
  <2>5. /\ t \in Seats /\ t.step = at[w].step /\ t.calls = n /\ t.id = at[w].id
        /\ t.slot = at[w].slot /\ t.rows = at[w].rows /\ t.kept = at[w].kept
    BY <2>2, <2>3 DEF Seats
  <2> HIDE DEF t
  <2>6. Tested(w)' /\ Remembered(w)'
    BY <1>1, <2>1, <2>2, <2>3, <2>5 DEF Tested, Remembered, Idle, Payload
  <2>7. Carried(w) /\ HuntsOK'
    BY <2>1 DEF Carried, Inv, HuntsOK, Payloads
  <2>8. /\ at' \in [Workers -> Seats] /\ Leasing'
        /\ \A v \in Workers : (Tested(v) /\ Remembered(v))'
    BY <1>1, <2>1, <2>2, <2>5, <2>6, <2>7, OthersKept DEF Idle
  <2>9. Budgeted'
    BY <1>1, <2>1, <2>5, BudgetKept
  <2>10. Continued'
    <3> SUFFICES ASSUME ~doubled'
                 PROVE  OneStanding' /\ \A v \in Workers : Looked(v)'
      BY DEF Continued
    <3>1. ~doubled /\ ~(at[w].calls > 0) /\ Children(w) = {}
      BY <1>3, <2>1 DEF Missed, ExistingChild
    <3>2. at[w].calls = 0
      BY <3>1, Seat
    <3>3. \A v \in Workers \ {w} : at'[v] = at[v]
      BY <2>1 DEF Inv, Typed, Become
    <3>4. \A v \in Workers : Looked(v)'
      BY <2>1, <2>2, <2>4, <2>5, <3>1, <3>2, <3>3 DEF Inv, Continued, Looked, Children
    <3>5. \A i \in DOMAIN hunts : Standing(i)' => Standing(i)
      BY <1>1, <2>2, <3>3 DEF Standing
    <3> QED
      BY <2>1, <3>1, <3>4, <3>5 DEF Inv, Continued, OneStanding
  <2>11. Typed'
    <3>1. doubled' \in BOOLEAN
      BY <2>1
    <3> QED
      BY <2>1, <2>8, <3>1 DEF Inv, Typed
  <2> QED
    BY <2>7, <2>8, <2>9, <2>10, <2>11 DEF Inv
<1> QED
  BY <1>2, <1>3

-----------------------------------------------------------------------------
(* The end of a loop.                                                      *)
LEMMA SingleTyped ==
  ASSUME NEW w, NEW result \in LoopErrors \union {"ok"}
  PROVE  Single(w, result) \in Outcomes
BY DEF Single, Failure, LoopErrors, Thrash, Outcomes

LEMMA SettleKeeps ==
  ASSUME Inv, NEW w \in Workers, at[w].step = "rounds", at[w].calls = 0,
         NEW result \in LoopErrors \union {"ok"}, Settle(w, result),
         UNCHANGED <<cfg, table, hunts, splits, doubled, raced, faults>>
  PROVE  Inv'
<1> DEFINE single == Single(w, result)
           rows   == at[w].rows \union {single}
           panel  == IF cfg.slots = 1 \/ single \in {"continued", "infra"}
                     THEN single ELSE Panel(rows, single)
           kept   == at[w].kept \/ single = "candidate"
           after  == [at[w] EXCEPT !.rows = rows, !.kept = kept]
           slot   == at[w].slot + 1
           next   == [after EXCEPT !.slot = slot, !.step = "rounds", !.loop = "open",
                                   !.session = Clean]
           gone   == [after EXCEPT !.outcome = "refused", !.step = "done", !.rows = {},
                                   !.session = Clean]
           end    == [after EXCEPT !.outcome = panel, !.step = StepOf(panel), !.rows = {},
                                   !.session = [Clean EXCEPT !.forced = Session(w).forced]]
<1>1. /\ at[w] \in Seats /\ Tested(w) /\ Remembered(w)
      /\ at[w].id \in DOMAIN hunts /\ at[w].id # 0 /\ cfg.slots \in Nat \ {0}
  BY Seat, ConfigsAssumption DEF Idle, Inv, Typed
<1>2. single \in Outcomes /\ rows \subseteq Outcomes /\ kept \in BOOLEAN
  <2>1. single \in Outcomes
    BY SingleTyped
  <2>2. at[w].rows \subseteq Outcomes
    BY <1>1 DEF Seats
  <2>3. kept \in BOOLEAN
    OBVIOUS
  <2> QED
    BY <2>1, <2>2, <2>3
<1>3. after \in Seats
  BY <1>1, <1>2 DEF Seats
<1>4. slot \in Nat /\ after.slot = at[w].slot
  <2>1. slot \in Nat
    BY Seat
  <2>2. after.slot = at[w].slot
    BY <1>1 DEF Seats
  <2> QED
    BY <2>1, <2>2
<1>5. CASE Become(w, next) /\ at[w].slot < cfg.slots
  <2>1. Clean \in Sessions
    BY DEF Clean, Sessions
  <2> HIDE DEF slot, rows, kept
  <2>2. /\ next \in Seats /\ next.step = "rounds" /\ next.slot = slot
        /\ next.rows = rows /\ next.kept = kept /\ next.id = at[w].id /\ next.calls = 0
    BY <1>1, <1>2, <1>3, <1>4, <2>1 DEF Seats, Steps
  <2>3. at'[w] = next
    BY <1>5, Seat
  <2>4. kept => "candidate" \in rows
    BY <1>1 DEF Remembered, kept, rows
  <2>5. at[w].slot \in 1..cfg.slots
    BY <1>1 DEF Remembered, Idle
  <2>6. slot = at[w].slot + 1
    BY DEF slot
  <2> HIDE DEF next
  <2>7. Tested(w)' /\ Remembered(w)'
    BY <1>1, <1>5, <2>2, <2>3, <2>4, <2>5, <2>6 DEF Tested, Remembered, Idle
  <2> QED
    BY <1>5, <2>2, <2>7, Quiet DEF Idle
<1>6. CASE Become(w, gone)
  <2>1. Clean \in Sessions
    BY DEF Clean, Sessions
  <2> HIDE DEF rows, kept
  <2>2. /\ gone \in Seats /\ gone.step = "done" /\ gone.slot = at[w].slot /\ gone.rows = {}
        /\ gone.outcome = "refused" /\ gone.id = at[w].id /\ gone.calls = 0
    BY <1>1, <1>2, <1>3, <1>4, <2>1 DEF Seats, Steps, Outcomes
  <2>3. at'[w] = gone
    BY <1>6, Seat
  <2> HIDE DEF gone
  <2>4. Tested(w)' /\ Remembered(w)'
    BY <1>1, <2>2, <2>3 DEF Tested, Remembered, Idle
  <2> QED
    BY <1>6, <2>2, <2>4, Quiet DEF Idle
<1>7. CASE Become(w, end)
  <2>1. panel \in Outcomes
    BY <1>2 DEF Panel, Outcomes
  <2>2. kept => panel \in {"candidate", "continued", "infra"}
    <3>1. cfg.slots = 1 => ~at[w].kept
      BY <1>1 DEF Remembered, Idle
    <3>2. kept => "candidate" \in rows
      BY <1>1 DEF Remembered
    <3> QED
      BY <3>1, <3>2 DEF Panel
  <2>3. Session(w).forced \in BOOLEAN
    BY SessionsTyped DEF Sessions
  <2>4. [Clean EXCEPT !.forced = Session(w).forced] \in Sessions
    BY <2>3 DEF Clean, Sessions
  <2> HIDE DEF panel, rows, kept
  <2>5. /\ end \in Seats /\ end.step = StepOf(panel) /\ end.rows = {} /\ end.kept = kept
        /\ end.id = at[w].id /\ end.calls = 0 /\ end.slot = at[w].slot /\ end.outcome = panel
    BY <1>1, <1>2, <2>1, <2>4 DEF Seats, StepOf, Steps
  <2>6. at'[w] = end
    BY <1>7, Seat
  <2>7. /\ StepOf(panel) \in {"none", "count", "done"}
        /\ StepOf(panel) = "none" => panel = "none"
        /\ panel \in {"candidate", "continued", "infra"} => StepOf(panel) = "done"
    BY DEF StepOf
  <2> HIDE DEF end
  <2>8. Tested(w)' /\ Remembered(w)'
    BY <1>1, <2>2, <2>5, <2>6, <2>7 DEF Tested, Remembered, Idle
  <2> QED
    BY <1>7, <2>5, <2>7, <2>8, Quiet DEF Idle
<1> QED
  BY <1>1, <1>4, <1>5, <1>6, <1>7 DEF Settle

LEMMA LoopEnds ==
  ASSUME Inv, NEW w \in Workers, EndLoop(w)
  PROVE  Inv'
<1>1. /\ at[w].step = "rounds" /\ at[w].calls = 0
      /\ UNCHANGED <<cfg, table, hunts, splits, doubled, raced, faults>>
  BY DEF EndLoop
<1>2. CASE \E result \in LoopErrors \union {"ok"} : Settle(w, result)
  BY <1>1, <1>2, SettleKeeps
<1>3. CASE Goto(w, "continue") /\ MayContinue(w)
  <2> DEFINE t == [at[w] EXCEPT !.step = "continue"]
  <2>1. /\ at[w] \in Seats /\ Tested(w) /\ Remembered(w) /\ at'[w] = t /\ Become(w, t)
    BY <1>3, Seat DEF Goto
  <2>2. /\ t \in Seats /\ t.step = "continue" /\ t.calls = 0 /\ t.id = at[w].id
        /\ t.slot = at[w].slot /\ t.rows = at[w].rows /\ t.kept = at[w].kept
    BY <1>1, <2>1 DEF Seats, Steps
  <2> HIDE DEF t
  <2>3. Tested(w)' /\ Remembered(w)'
    BY <1>1, <1>3, <2>1, <2>2 DEF Tested, Remembered, Idle, MayContinue, Payload
  <2> QED
    BY <1>1, <2>1, <2>2, <2>3, Quiet DEF Idle
<1>4. CASE Store(w, [Session(w) EXCEPT !.none = TRUE], "closed")
  BY <1>1, <1>4, SessionsTyped, StoreKeeps
<1> QED
  BY <1>2, <1>3, <1>4 DEF EndLoop

-----------------------------------------------------------------------------
(* What a hunt leaves behind.                                              *)

(* The three kinds of new hunts: of no parent; the continuation of this    *)
(* one, when none was seen; a repetition, which takes this one's place.    *)
Rightful(w, s, p) ==
  \/ p.from = 0 /\ s.calls \in {0, at[w].calls}
  \/ p.from = at[w].id /\ s.calls = 0 /\ Children(w) = {}
  \/ p.from = Payload(w).from /\ s.step = "done" /\ s.outcome = "none" /\ s.calls = 0

LEMMA EnqueueContinues ==
  ASSUME Inv, NEW w \in Workers, NEW s \in Seats, Become(w, s), UNCHANGED <<cfg, table>>,
         doubled => doubled',
         ~Idle(w), at[w].step # "done", s.id = at[w].id,
         NEW p \in Payloads, IsFiniteSet(p.chain), Cardinality(p.chain) < MaxChain, Enqueue(p),
         ~doubled' => Rightful(w, s, p)
  PROVE  Continued'
<1> SUFFICES ASSUME ~doubled, ~doubled'
             PROVE  OneStanding' /\ \A v \in Workers : Looked(v)'
  BY DEF Continued
<1> DEFINE k == NewId
           n == at[w].id
<1>1. /\ k \notin DOMAIN hunts /\ k # 0
      /\ DOMAIN hunts' = DOMAIN hunts \union {k}
      /\ hunts'[k].from = p.from
      /\ \A i \in DOMAIN hunts : hunts'[i] = hunts[i] /\ k # hunts[i].from
  BY EnqueueKeeps DEF Inv
<1>2. /\ at'[w] = s /\ \A v \in Workers \ {w} : at'[v] = at[v]
      /\ n \in DOMAIN hunts /\ n # 0
  BY Seat DEF Inv, Typed, Become
<1>3. \A v \in Workers : v # w => at[v].id # n
  BY DEF Inv, Leasing
<1>4. \A v \in Workers : Looked(v)
  BY DEF Inv, Continued
<1>5. \A i \in DOMAIN hunts : Standing(i)' => Standing(i)
  BY <1>2 DEF Standing
<1> HIDE DEF k, n
<1>6. OneStanding
  BY DEF Inv, Continued
<1>7. ASSUME NEW v \in Workers
      PROVE  Looked(v)'
  <2>1. CASE v = w
    <3>1. s.calls = 0 \/ (p.from = 0 /\ s.calls = at[w].calls)
      BY DEF Rightful
    <3>2. CASE s.calls = 0
      BY <1>2, <2>1, <3>2 DEF Looked
    <3>3. CASE p.from = 0 /\ s.calls = at[w].calls
      <4>1. at'[w].id = n
        BY <1>2 DEF n
      <4>2. Children(w) = {} => Children(w)' = {}
        BY <1>1, <1>2, <3>3, <4>1 DEF Children, n
      <4> QED
        BY <1>2, <1>4, <2>1, <3>3, <4>2 DEF Looked
    <3> QED
      BY <3>1, <3>2, <3>3
  <2>2. CASE v # w
    <3> SUFFICES ASSUME at[v].calls > 0
                 PROVE  Children(v)' = {}
      BY <1>2, <1>4, <2>2 DEF Looked
    <3>1. at[v].step = "rounds"
      BY DEF Inv, Tested
    <3>2. at[v].id # 0 /\ Children(v) = {}
      BY <1>4, <3>1, Seat DEF Looked, Idle
    <3>3. p.from # at[v].id
      <4>1. p.from = 0 \/ p.from = n \/ p.from = Payload(w).from
        BY DEF Rightful, n
      <4>2. Payload(w).from # at[v].id
        BY <1>2, <3>2 DEF Children, Payload, n
      <4> QED
        BY <1>3, <2>2, <3>2, <4>1, <4>2
    <3> QED
      BY <1>1, <1>2, <2>2, <3>2, <3>3 DEF Children
  <2> QED
    BY <2>1, <2>2
<1>8. ASSUME NEW j \in DOMAIN hunts, hunts[j].from = p.from, p.from # 0, Standing(j)'
      PROVE  FALSE
  <2>1. CASE p.from = n /\ Children(w) = {}
    BY <1>8, <2>1 DEF Children, n
  <2>2. CASE p.from = Payload(w).from /\ s.step = "done" /\ s.outcome = "none"
    <3>1. j # n
      BY <1>2, <1>8, <2>2 DEF Standing, n
    <3>2. Standing(n)
      BY <1>3 DEF Standing, n
    <3>3. hunts[n].from = p.from
      BY <2>2 DEF Payload, n
    <3> QED
      BY <1>2, <1>5, <1>6, <1>8, <3>1, <3>2, <3>3 DEF OneStanding, Standing
  <2> QED
    BY <1>8, <2>1, <2>2 DEF Rightful, n
<1>9. OneStanding'
  <2> SUFFICES ASSUME NEW i \in DOMAIN hunts', NEW j \in DOMAIN hunts', hunts'[i].from # 0,
                      hunts'[i].from = hunts'[j].from, Standing(i)', Standing(j)', i # j
               PROVE  FALSE
    BY DEF OneStanding
  <2>1. CASE i = k
    BY <1>1, <1>8, <2>1
  <2>2. CASE j = k
    BY <1>1, <1>8, <2>2
  <2>3. CASE i # k /\ j # k
    BY <1>1, <1>5, <1>6, <2>3 DEF OneStanding
  <2> QED
    BY <2>1, <2>2, <2>3
<1> QED
  BY <1>7, <1>9

LEMMA Enqueues ==
  ASSUME Inv, NEW w \in Workers, NEW s \in Seats, Become(w, s),
         UNCHANGED <<cfg, table, raced>>, UNCHANGED faults \/ faults' \in 0..cfg.faults,
         doubled => doubled', doubled' \in BOOLEAN,
         splits' \in [made : Nat, counted : Nat], Budgeted',
         ~Idle(w), at[w].step # "done", s.id = at[w].id, s.step # "idle",
         NEW p \in Payloads, IsFiniteSet(p.chain), Cardinality(p.chain) < MaxChain, Enqueue(p),
         ~doubled' => Rightful(w, s, p),
         s.calls > 0 => s.step = "rounds" /\ Payload(w).gen < cfg.generations,
         s.step \notin {"continue", "request"},
         s.step = "split" => Payload(w).split < cfg.depth /\ s.left > 0,
         Remembered(w)'
  PROVE  Inv'
<1>1. /\ HuntsOK'
      /\ DOMAIN hunts' = DOMAIN hunts \union {NewId}
      /\ \A i \in DOMAIN hunts : hunts'[i] = hunts[i]
  BY EnqueueKeeps DEF Inv
<1>2. /\ at'[w] = s /\ at[w].id \in DOMAIN hunts /\ at[w].id # 0
  BY Seat
<1>3. Payload(w)' = Payload(w)
  BY <1>1, <1>2 DEF Payload
<1>4. Carried(w)
  BY <1>1 DEF Carried
<1>5. Tested(w)'
  BY <1>2, <1>3 DEF Tested
<1>6. /\ at' \in [Workers -> Seats] /\ Leasing'
      /\ \A v \in Workers : (Tested(v) /\ Remembered(v))'
  BY <1>1, <1>2, <1>4, <1>5, OthersKept
<1>7. Continued'
  BY EnqueueContinues
<1>8. Typed'
  BY <1>6 DEF Inv, Typed
<1> QED
  BY <1>1, <1>6, <1>7, <1>8 DEF Inv

LEMMA PayloadTyped ==
  ASSUME Inv, NEW w \in Workers, ~Idle(w)
  PROVE  /\ Payload(w) \in Payloads /\ IsFiniteSet(Payload(w).chain)
         /\ Cardinality(Payload(w).chain) \in Nat /\ Cardinality(Payload(w).chain) < MaxChain
<1>1. Payload(w) \in Payloads /\ IsFiniteSet(Payload(w).chain)
  BY Seat DEF Payload, Inv, HuntsOK
<1> QED
  BY <1>1, Seat, FS_CardinalityType DEF Payload, Inv, HuntsOK

(* The numbers and sets that hunts are made of.                            *)
LEMMA Ranges ==
  ASSUME Inv
  PROVE  /\ cfg.generations \in Nat /\ cfg.depth \in Nat /\ cfg.deep \in BOOLEAN
         /\ Parts \subseteq 1..MaxParts
         /\ \A c \in Classes : Fresh(c) \in Payloads
         /\ \A c : Fresh(c).chain = {} /\ Fresh(c).from = 0 /\ Fresh(c).split = 0
<1>1. cfg.generations \in Nat /\ cfg.depth \in Nat /\ cfg.deep \in BOOLEAN
  BY ConfigsAssumption DEF Inv, Typed
<1>2. Parts \subseteq 1..MaxParts
  BY CapsAssumption DEF Parts
<1>3. 0 \in 0..cfg.generations /\ 0 \in 0..cfg.depth /\ MaxParts \in 1..MaxParts
  BY <1>1, CapsAssumption
<1>4. \A c \in Classes : Fresh(c) \in Payloads
  BY <1>3 DEF Payloads, Fresh
<1> QED
  BY <1>1, <1>2, <1>4 DEF Fresh

LEMMA Requested ==
  ASSUME Inv, NEW w \in Workers, EnqueueRequest(w)
  PROVE  Inv'
<1>1. PICK parts \in Parts, deep \in BOOLEAN :
        Enqueue([Fresh(at[w].ask) EXCEPT !.chain = Lineage(w), !.parts = parts,
                                         !.deep = deep])
  BY DEF EnqueueRequest
<1> DEFINE asked == at[w].spawned \union {at[w].ask}
           t == [at[w] EXCEPT !.step = "rounds", !.spawned = asked, !.ask = Root]
           p == [Fresh(at[w].ask) EXCEPT !.chain = Lineage(w), !.parts = parts, !.deep = deep]
<1>2. /\ at[w] \in Seats /\ Tested(w) /\ Remembered(w) /\ at'[w] = t /\ Become(w, t)
      /\ at[w].step = "request" /\ UNCHANGED <<cfg, table, splits, doubled, raced, faults>>
  BY Seat DEF EnqueueRequest
<1>3. /\ Payload(w) \in Payloads /\ IsFiniteSet(Payload(w).chain)
      /\ Cardinality(Payload(w).chain) \in Nat /\ Cardinality(Payload(w).chain) + 1 < MaxChain
  BY <1>2, PayloadTyped DEF Tested, Idle
<1>4. at[w].ask \in Classes /\ asked \subseteq Classes
  BY <1>2 DEF Seats
<1> HIDE DEF asked
<1>5. t \in Seats
  BY <1>2, <1>4, RootAssumption DEF Seats, Steps
<1>6. /\ t.step = "rounds" /\ t.calls = at[w].calls /\ t.id = at[w].id /\ t.slot = at[w].slot
      /\ t.rows = at[w].rows /\ t.kept = at[w].kept
  BY <1>2 DEF Seats
<1>7. /\ Lineage(w) \subseteq Classes /\ IsFiniteSet(Lineage(w))
      /\ Cardinality(Lineage(w)) < MaxChain
  <2>1. /\ IsFiniteSet(Lineage(w))
        /\ Cardinality(Lineage(w)) \in {Cardinality(Payload(w).chain),
                                        Cardinality(Payload(w).chain) + 1}
    BY <1>3, FS_AddElement DEF Lineage
  <2>2. Lineage(w) \subseteq Classes
    BY <1>3 DEF Lineage, Payloads
  <2> DEFINE a == Cardinality(Payload(w).chain)
             b == Cardinality(Lineage(w))
  <2>3. a \in Nat /\ a + 1 < MaxChain /\ b \in {a, a + 1}
    BY <1>3, <2>1
  <2> HIDE DEF a, b
  <2>4. b < MaxChain
    BY <2>3, CapsAssumption
  <2> QED
    BY <2>1, <2>2, <2>4 DEF b
<1>8. p \in Payloads /\ p.chain = Lineage(w) /\ p.from = 0
  <2>1. Fresh(at[w].ask) \in Payloads /\ Fresh(at[w].ask).from = 0 /\ parts \in 1..MaxParts
    BY <1>4, Ranges
  <2> QED
    BY <1>7, <2>1 DEF Payloads
<1>9. Enqueue(p)
  BY <1>1
<1> HIDE DEF t, p
<1>10. Remembered(w)'
  BY <1>2, <1>6 DEF Remembered, Idle
<1>11. at[w].calls = 0
  BY <1>2, Seat DEF Tested
<1>12. Budgeted'
  BY <1>2, <1>5, <1>6, BudgetKept
<1>13. Rightful(w, t, p)
  BY <1>6, <1>8 DEF Rightful
<1> QED
  BY <1>2, <1>5, <1>6, <1>7, <1>8, <1>9, <1>10, <1>11, <1>12, <1>13, Enqueues
    DEF Idle, Inv, Typed

LEMMA ContinuationTyped ==
  ASSUME Inv, NEW w \in Workers, ~Idle(w), Payload(w).gen < cfg.generations,
         NEW parts \in 1..MaxParts
  PROVE  /\ Continuation(w, parts) \in Payloads
         /\ Continuation(w, parts).chain = Payload(w).chain
         /\ Continuation(w, parts).from = at[w].id
<1>1. Payload(w) \in Payloads /\ at[w].id \in Nat
  BY PayloadTyped, Seat DEF Seats
<1> DEFINE g == Payload(w).gen + 1
<1>2. g \in 0..cfg.generations
  <2>1. Payload(w).gen \in 0..cfg.generations
    BY <1>1 DEF Payloads
  <2> QED
    BY <2>1, Ranges
<1>3. 0 \in 0..cfg.depth
  BY Ranges
<1>4. Continuation(w, parts) =
        [Payload(w) EXCEPT !.gen = g, !.split = 0, !.parts = parts, !.from = at[w].id]
  BY <1>1 DEF Continuation, Payloads
<1> HIDE DEF g
<1> QED
  BY <1>1, <1>2, <1>3, <1>4 DEF Payloads

LEMMA ChildEnqueued ==
  ASSUME Inv, NEW w \in Workers, EnqueueChild(w)
  PROVE  Inv'
<1>1. PICK parts \in Parts : Enqueue(Continuation(w, parts))
  BY DEF EnqueueChild
<1> DEFINE n == at[w].calls - 1
           c == [at[w].session EXCEPT !.child = TRUE]
           t == [at[w] EXCEPT !.calls = n, !.loop = "round", !.session = c]
           p == Continuation(w, parts)
<1>2. /\ at[w] \in Seats /\ Tested(w) /\ Remembered(w) /\ at[w].calls \in Nat
      /\ at[w].step = "rounds" /\ at[w].calls > 0
      /\ UNCHANGED <<cfg, table, splits, doubled, raced, faults>>
  BY Seat DEF EnqueueChild
<1>3. Become(w, t)
  BY <1>2 DEF EnqueueChild, Seats
<1>4. n \in Nat /\ (at[w].calls <= 1 => n = 0)
  BY <1>2
<1>5. c \in Sessions
  BY SessionsTyped DEF Session
<1> HIDE DEF n, c
<1>6. /\ t \in Seats /\ t.step = "rounds" /\ t.calls = n /\ t.id = at[w].id
      /\ t.slot = at[w].slot /\ t.rows = at[w].rows /\ t.kept = at[w].kept
  BY <1>2, <1>4, <1>5 DEF Seats
<1>7. at'[w] = t
  BY <1>3, Seat
<1>8. Payload(w).gen < cfg.generations
  BY <1>2 DEF Tested
<1>9. p \in Payloads /\ p.chain = Payload(w).chain /\ p.from = at[w].id
  BY <1>1, <1>2, <1>8, ContinuationTyped, Ranges DEF Idle
<1>10. Enqueue(p)
  BY <1>1
<1> HIDE DEF t, p
<1>11. Remembered(w)'
  BY <1>2, <1>6, <1>7 DEF Remembered, Idle
<1>12. Budgeted'
  BY <1>2, <1>3, <1>6, BudgetKept
<1>13. ~doubled' => Rightful(w, t, p)
  BY <1>2, <1>4, <1>6, <1>9 DEF Rightful, Inv, Continued, Looked
<1>14. IsFiniteSet(p.chain) /\ Cardinality(p.chain) < MaxChain
  BY <1>2, <1>9, PayloadTyped DEF Idle
<1> QED
  BY <1>2, <1>3, <1>6, <1>8, <1>9, <1>10, <1>11, <1>12, <1>13, <1>14, Enqueues
    DEF Idle, Inv, Typed

LEMMA Forced ==
  ASSUME Inv, NEW w \in Workers, ForceContinue(w)
  PROVE  Inv'
<1> DEFINE c == [at[w].session EXCEPT !.child = TRUE]
           t == [at[w] EXCEPT !.step = "rounds", !.loop = "closed", !.session = c]
           p == Continuation(w, Payload(w).parts)
<1>0. PICK raised \in BOOLEAN :
        /\ Look(raised)
        /\ \/ UNCHANGED <<hunts, doubled>>
           \/ /\ ~(ExistingChild(w) /\ ~raised) /\ Enqueue(p)
              /\ doubled' = (doubled \/ Missed(w, raised))
  BY DEF ForceContinue
<1>1. /\ at[w] \in Seats /\ Tested(w) /\ Remembered(w) /\ at[w].calls \in Nat
      /\ at[w].step = "continue" /\ UNCHANGED <<cfg, table, splits, raced>>
      /\ faults' \in 0..cfg.faults
  BY <1>0, Seat, LookCounted DEF ForceContinue
<1>2. Become(w, t)
  BY <1>1 DEF ForceContinue, Seats
<1>3. c \in Sessions
  BY SessionsTyped DEF Session
<1>4. at[w].calls = 0
  BY <1>1 DEF Tested
<1> HIDE DEF c
<1>5. /\ t \in Seats /\ t.step = "rounds" /\ t.calls = 0 /\ t.id = at[w].id
      /\ t.slot = at[w].slot /\ t.rows = at[w].rows /\ t.kept = at[w].kept
  BY <1>1, <1>3, <1>4 DEF Seats, Steps
<1>6. at'[w] = t
  BY <1>2, Seat
<1> HIDE DEF t
<1>7. Remembered(w)'
  BY <1>1, <1>5, <1>6 DEF Remembered, Idle
<1>8. CASE UNCHANGED <<hunts, doubled>>
  <2>1. Tested(w)'
    BY <1>5, <1>6 DEF Tested
  <2> QED
    BY <1>1, <1>2, <1>5, <1>7, <1>8, <2>1, Quiet DEF Idle
<1>9. CASE /\ ~(ExistingChild(w) /\ ~raised) /\ Enqueue(p)
           /\ doubled' = (doubled \/ Missed(w, raised))
  <2>1. Payload(w).gen < cfg.generations /\ Payload(w).parts \in 1..MaxParts
    BY <1>1, PayloadTyped DEF Tested, Idle, Payloads
  <2>2. p \in Payloads /\ p.chain = Payload(w).chain /\ p.from = at[w].id
    BY <1>1, <2>1, ContinuationTyped DEF Idle
  <2>3. IsFiniteSet(p.chain) /\ Cardinality(p.chain) < MaxChain
    BY <1>1, <2>2, PayloadTyped DEF Idle
  <2> HIDE DEF p
  <2>4. ~doubled' => Rightful(w, t, p)
    BY <1>5, <1>9, <2>2 DEF Rightful, Missed, ExistingChild
  <2>6. (doubled => doubled') /\ doubled' \in BOOLEAN
    BY <1>9
  <2>5. Budgeted'
    BY <1>1, <1>2, <1>5, BudgetKept
  <2> QED
    BY <1>1, <1>2, <1>5, <1>7, <1>9, <2>2, <2>3, <2>4, <2>5, <2>6, Enqueues DEF Idle, Inv, Typed
<1> QED
  BY <1>0, <1>8, <1>9

LEMMA NoneFinished ==
  ASSUME Inv, NEW w \in Workers, FinishNone(w)
  PROVE  Inv'
<1> DEFINE t == [at[w] EXCEPT !.step = "done"]
           p == Deeper(Payload(w))
<1>1. /\ at[w] \in Seats /\ Tested(w) /\ Remembered(w) /\ at[w].calls \in Nat
      /\ at[w].step = "none" /\ UNCHANGED <<cfg, table, splits, doubled, raced, faults>>
      /\ Become(w, t) /\ at'[w] = t
  BY Seat DEF FinishNone, Goto
<1>2. at[w].calls = 0 /\ at[w].outcome = "none" /\ ~at[w].kept
  BY <1>1 DEF Tested, Remembered
<1>3. /\ t \in Seats /\ t.step = "done" /\ t.calls = 0 /\ t.id = at[w].id
      /\ t.slot = at[w].slot /\ t.rows = at[w].rows /\ t.kept = at[w].kept
      /\ t.outcome = "none"
  BY <1>1, <1>2 DEF Seats, Steps
<1> HIDE DEF t
<1>4. Remembered(w)'
  BY <1>1, <1>2, <1>3 DEF Remembered, Idle
<1>5. CASE UNCHANGED hunts
  <2>1. Tested(w)'
    BY <1>1, <1>3 DEF Tested
  <2> QED
    BY <1>1, <1>3, <1>4, <1>5, <2>1, Quiet DEF Idle
<1>6. CASE Enqueue(p)
  <2>1. /\ Payload(w) \in Payloads /\ IsFiniteSet(Payload(w).chain)
        /\ Cardinality(Payload(w).chain) < MaxChain
    BY <1>1, PayloadTyped DEF Idle
  <2>2. p \in Payloads /\ p.chain = Payload(w).chain /\ p.from = Payload(w).from
    BY <2>1 DEF Payloads, Deeper
  <2> HIDE DEF p
  <2>3. Rightful(w, t, p)
    BY <1>3, <2>2 DEF Rightful
  <2>4. Budgeted'
    BY <1>1, <1>3, BudgetKept
  <2> QED
    BY <1>1, <1>3, <1>4, <1>6, <2>1, <2>2, <2>3, <2>4, Enqueues DEF Idle, Inv, Typed
<1> QED
  BY <1>5, <1>6 DEF FinishNone

LEMMA ChunksFit ==
  ASSUME NEW parts \in Nat \ {0}, NEW room \in Nat \ {0}
  PROVE  Chunks(parts, room) \in Nat \ {0} /\ Chunks(parts, room) <= room
<1>1. \E n \in {parts, 4, room} : \A m \in {parts, 4, room} : n <= m
  <2>1. CASE parts <= 4 /\ parts <= room
    BY <2>1
  <2>2. CASE 4 <= parts /\ 4 <= room
    BY <2>2
  <2>3. CASE room <= parts /\ room <= 4
    BY <2>3
  <2> QED
    BY <2>1, <2>2, <2>3
<1>2. Chunks(parts, room) \in {parts, 4, room} /\ Chunks(parts, room) <= room
  BY <1>1 DEF Chunks
<1> QED
  BY <1>2

LEMMA Counts ==
  ASSUME Inv, NEW w \in Workers, CountSplits(w)
  PROVE  Inv'
<1>1. /\ at[w] \in Seats /\ Tested(w) /\ Remembered(w) /\ at[w].id \in DOMAIN hunts
      /\ at[w].id # 0 /\ at[w].step = "count"
      /\ UNCHANGED <<cfg, table, hunts, splits, doubled, faults>>
  BY Seat DEF CountSplits, Idle
<1>2. at[w].calls = 0 /\ ~at[w].kept
  BY <1>1, Seat DEF Tested, Remembered
<1>3. CASE Splittable(w) /\ Counted < SplitBudget
  <2> DEFINE n == Chunks(Payload(w).parts, SplitBudget - Counted)
             t == [at[w] EXCEPT !.step = "split", !.left = n]
  <2>1. /\ Become(w, t) /\ at'[w] = t
        /\ raced' = (raced \/ \E v \in Workers : at[v].step = "split")
    BY <1>3, Seat DEF CountSplits
  <2>2. n \in Nat \ {0} /\ splits.counted + n <= SplitBudget
    <3>1. Payload(w).parts \in 1..MaxParts
      BY <1>1, PayloadTyped DEF Idle, Payloads
    <3>2. splits.counted \in Nat /\ splits.counted < SplitBudget
      BY <1>3 DEF Counted, Inv, Typed
    <3> DEFINE room == SplitBudget - splits.counted
    <3>3. room \in Nat \ {0} /\ Payload(w).parts \in Nat \ {0}
      BY <3>1, <3>2, CapsAssumption
    <3> HIDE DEF room
    <3>4. Chunks(Payload(w).parts, room) \in Nat \ {0}
          /\ Chunks(Payload(w).parts, room) <= room
      BY <3>3, ChunksFit
    <3>5. n \in Nat \ {0} /\ n <= room
      BY <3>4 DEF Counted, room
    <3> DEFINE counted == splits.counted
    <3>6. counted \in Nat /\ room = SplitBudget - counted
      BY <3>2 DEF room
    <3> HIDE DEF n, room, counted
    <3>7. counted + n <= SplitBudget
      BY <3>5, <3>6, CapsAssumption
    <3> QED
      BY <3>5, <3>7 DEF counted
  <2> HIDE DEF n
  <2>3. /\ t \in Seats /\ t.step = "split" /\ t.calls = 0 /\ t.id = at[w].id
        /\ t.slot = at[w].slot /\ t.rows = at[w].rows /\ t.kept = at[w].kept /\ t.left = n
    BY <1>1, <1>2, <2>2 DEF Seats, Steps
  <2> HIDE DEF t
  <2>4. Tested(w)'
    BY <1>1, <1>3, <2>1, <2>2, <2>3 DEF Tested, Payload, Splittable
  <2>5. Remembered(w)'
    BY <1>1, <1>2, <2>1, <2>3 DEF Remembered, Idle
  <2>6. Carried(w)
    BY <1>1 DEF Carried
  <2>7. /\ at' \in [Workers -> Seats] /\ Leasing'
        /\ \A v \in Workers : (Tested(v) /\ Remembered(v))'
    BY <1>1, <2>1, <2>3, <2>4, <2>5, <2>6, OthersKept
  <2>8. Continued'
    BY <1>1, <2>1, <2>3, ContinuedKept
  <2>9. Budgeted'
    <3> SUFFICES ASSUME ~raced', table # "longer"
                 PROVE  /\ splits.counted = splits.made /\ splits.made <= SplitBudget
                        /\ \A v \in Workers : Splitting(v)' => v = w
                        /\ splits.made + n <= SplitBudget
      BY <1>1, <2>1, <2>3 DEF Budgeted, Splitting
    <3>1. ~raced /\ \A v \in Workers : ~Splitting(v)
      BY <2>1 DEF Splitting
    <3>2. \A v \in Workers : Splitting(v)' => v = w
      BY <2>1, <3>1 DEF Become, Splitting, Inv, Typed
    <3> QED
      BY <2>2, <3>1, <3>2 DEF Inv, Budgeted
  <2>10. Typed' /\ HuntsOK'
    <3>1. raced' \in BOOLEAN
      BY <2>1
    <3>2. HuntsOK'
      BY <1>1 DEF Inv, HuntsOK, Payloads
    <3> QED
      BY <1>1, <2>7, <3>1, <3>2 DEF Inv, Typed
  <2> QED
    BY <2>7, <2>8, <2>9, <2>10 DEF Inv
<1>4. CASE ~(Splittable(w) /\ Counted < SplitBudget)
  <2> DEFINE t == [at[w] EXCEPT !.step = "done"]
  <2>1. Become(w, t) /\ at'[w] = t /\ UNCHANGED raced
    BY <1>4, Seat DEF CountSplits, Goto
  <2>2. /\ t \in Seats /\ t.step = "done" /\ t.calls = 0 /\ t.id = at[w].id
        /\ t.slot = at[w].slot /\ t.rows = at[w].rows /\ t.kept = at[w].kept
    BY <1>1, <1>2 DEF Seats, Steps
  <2> HIDE DEF t
  <2>3. Tested(w)' /\ Remembered(w)'
    BY <1>1, <1>2, <2>1, <2>2 DEF Tested, Remembered, Idle
  <2> QED
    BY <1>1, <2>1, <2>2, <2>3, Quiet DEF Idle
<1> QED
  BY <1>3, <1>4

LEMMA Splits ==
  ASSUME Inv, NEW w \in Workers, Split(w)
  PROVE  Inv'
<1>1. PICK parts \in 1..MaxParts :
        Enqueue([Fresh(Payload(w).class) EXCEPT
                   !.split = Payload(w).split + 1, !.parts = parts, !.deep = TRUE])
  BY DEF Split
<1> DEFINE d == Payload(w).split + 1
           n == at[w].left - 1
           next == IF at[w].left = 1 THEN "done" ELSE "split"
           t == [at[w] EXCEPT !.left = n, !.step = next]
           p == [Fresh(Payload(w).class) EXCEPT !.split = d, !.parts = parts, !.deep = TRUE]
<1>2. /\ at[w] \in Seats /\ Tested(w) /\ Remembered(w) /\ at[w].step = "split"
      /\ at[w].calls \in Nat /\ at[w].left \in Nat
      /\ UNCHANGED <<cfg, table, doubled, raced, faults>>
      /\ splits' = [made |-> splits.made + 1,
                    counted |-> splits.counted + (IF table = "longer" THEN 0 ELSE 1)]
  BY Seat DEF Split
<1>3. Become(w, t)
  BY <1>2 DEF Split, Seats
<1>4. at[w].calls = 0 /\ ~at[w].kept /\ at[w].left > 0 /\ Payload(w).split < cfg.depth
  BY <1>2 DEF Tested, Remembered
<1>5. n \in Nat /\ (next = "split" => n > 0) /\ next \in {"done", "split"}
  BY <1>2, <1>4
<1>6. Payload(w).class \in Classes /\ d \in 0..cfg.depth
  <2>1. Payload(w) \in Payloads
    BY <1>2, PayloadTyped DEF Idle
  <2>2. Payload(w).class \in Classes /\ Payload(w).split \in 0..cfg.depth
    BY <2>1 DEF Payloads
  <2> QED
    BY <1>4, <2>2, Ranges
<1>7. /\ splits.made \in Nat /\ splits.counted \in Nat
      /\ splits' \in [made : Nat, counted : Nat]
      /\ splits'.made = splits.made + 1
      /\ table # "longer" => splits'.counted = splits.counted + 1
  <2>1. splits.made \in Nat /\ splits.counted \in Nat
    BY DEF Inv, Typed
  <2> QED
    BY <1>2, <2>1
<1>8. splits.made + 1 + n = splits.made + at[w].left
  <2> DEFINE made == splits.made
             left == at[w].left
  <2>1. made \in Nat /\ left \in Nat
    BY <1>2, <1>7
  <2> HIDE DEF made, left
  <2>2. made + 1 + (left - 1) = made + left
    BY <2>1
  <2> QED
    BY <2>2 DEF made, left
<1>9. Enqueue(p)
  BY <1>1
<1> HIDE DEF n, next, d
<1>10. /\ t \in Seats /\ t.step = next /\ t.calls = 0 /\ t.id = at[w].id /\ t.left = n
       /\ t.slot = at[w].slot /\ t.rows = at[w].rows /\ t.kept = at[w].kept
  BY <1>2, <1>4, <1>5 DEF Seats, Steps
<1>11. at'[w] = t
  BY <1>3, Seat
<1>12. p \in Payloads /\ p.chain = {} /\ p.from = 0
  <2>1. /\ Fresh(Payload(w).class) \in Payloads
        /\ Fresh(Payload(w).class).chain = {} /\ Fresh(Payload(w).class).from = 0
    BY <1>6, Ranges
  <2> QED
    BY <1>6, <2>1 DEF Payloads
<1> HIDE DEF t, p
<1>13. Remembered(w)'
  BY <1>2, <1>4, <1>5, <1>10, <1>11 DEF Remembered, Idle
<1>14. IsFiniteSet(p.chain) /\ Cardinality(p.chain) < MaxChain
  BY <1>12, FS_EmptySet, CapsAssumption
<1>15. Rightful(w, t, p)
  BY <1>10, <1>12 DEF Rightful
<1>16. Budgeted'
  <2> DEFINE made == splits.made
             left == at[w].left
  <2> SUFFICES ASSUME ~raced, table # "longer"
               PROVE  /\ splits.counted = made
                      /\ made + 1 <= SplitBudget /\ made + 1 + n <= SplitBudget
                      /\ \A v \in Workers : Splitting(v)' => v = w
    BY <1>2, <1>7, <1>10, <1>11 DEF Budgeted, Splitting
  <2>1. /\ made + left <= SplitBudget /\ splits.counted = made
        /\ \A v \in Workers : Splitting(v) => v = w
    BY <1>2 DEF Inv, Budgeted, Splitting
  <2>2. made + 1 <= SplitBudget
    <3>1. made \in Nat /\ left \in Nat /\ left > 0
      BY <1>2, <1>4, <1>7
    <3> HIDE DEF made, left
    <3> QED
      BY <2>1, <3>1, CapsAssumption
  <2>3. \A v \in Workers : Splitting(v)' => v = w
    BY <1>3, <2>1 DEF Become, Splitting, Inv, Typed
  <2> QED
    BY <1>8, <2>1, <2>2, <2>3
<1>17. /\ ~Idle(w) /\ at[w].step # "done" /\ t.step \notin {"idle", "continue", "request"}
       /\ ~(t.calls > 0) /\ (t.step = "split" => t.left > 0)
  BY <1>2, <1>5, <1>10 DEF Idle
<1>18. (doubled => doubled') /\ doubled' \in BOOLEAN
  BY <1>2 DEF Inv, Typed
<1> QED
  BY <1>2, <1>3, <1>4, <1>7, <1>9, <1>10, <1>12, <1>13, <1>14, <1>15, <1>16, <1>17, <1>18,
     Enqueues

-----------------------------------------------------------------------------
(* Leases begin and end.                                                   *)
LEMMA FreeSeat == /\ Free \in Seats /\ Free.step = "idle" /\ Free.id = 0 /\ Free.calls = 0
                  /\ Free.rows = {} /\ Free.kept = FALSE
BY RootAssumption DEF Free, Clean, Sessions, Seats, Steps, Outcomes

LEMMA Leases ==
  ASSUME Inv, NEW w \in Workers, NEW i \in DOMAIN hunts, Lease(w, i)
  PROVE  Inv'
<1> DEFINE t == [Free EXCEPT !.step = "rounds", !.id = i, !.slot = 1]
<1>1. /\ Become(w, t) /\ at'[w] = t /\ ~Leased(i) /\ at[w].step = "idle"
      /\ UNCHANGED <<cfg, table, splits, doubled, raced, faults>> /\ Parked(i, FALSE)
  BY Seat DEF Lease, Parked
<1>2. i \in Nat /\ i # 0
  BY DEF Inv, HuntsOK, Ids
<1>3. /\ t \in Seats /\ t.step = "rounds" /\ t.id = i /\ t.slot = 1 /\ t.calls = 0
      /\ t.rows = {} /\ t.kept = FALSE
  BY <1>2, FreeSeat DEF Seats, Steps
<1> HIDE DEF t
<1>4. 1 \in 1..cfg.slots
  BY ConfigsAssumption DEF Inv, Typed
<1>5. Tested(w)' /\ Remembered(w)'
  BY <1>1, <1>3, <1>4 DEF Tested, Remembered, Idle
<1>6. Carried(w) /\ HuntsOK' /\ SameHunts /\ i \in DOMAIN hunts'
  BY <1>1, ParkedKeeps DEF Carried, Inv, SameHunts
<1>7. /\ at' \in [Workers -> Seats] /\ Leasing'
      /\ \A v \in Workers : (Tested(v) /\ Remembered(v))'
  BY <1>1, <1>2, <1>3, <1>5, <1>6, OthersKept
<1>8. Budgeted' /\ Continued'
  BY <1>1, <1>3, <1>6, BudgetKept, ContinuedKept
<1>9. Typed'
  BY <1>1, <1>7 DEF Inv, Typed
<1> QED
  BY <1>6, <1>7, <1>8, <1>9 DEF Inv

(* A worker lets go of its hunt, which waits again or is gone.             *)
LEMMA LetGo ==
  ASSUME Inv, NEW w \in Workers, Become(w, Free), UNCHANGED <<cfg, table, splits, raced>>,
         Carried(w)
  PROVE  /\ at' \in [Workers -> Seats] /\ Leasing' /\ Budgeted'
         /\ \A v \in Workers : (Tested(v) /\ Remembered(v))'
<1>1. at'[w] = Free
  BY Seat
<1>2. Tested(w)' /\ Remembered(w)'
  BY <1>1, FreeSeat DEF Tested, Remembered, Idle
<1> QED
  BY <1>1, <1>2, FreeSeat, OthersKept, BudgetKept

LEMMA FaultCounted ==
  ASSUME Inv, faults < cfg.faults, faults' = faults + 1, UNCHANGED cfg
  PROVE  faults' \in 0..cfg'.faults
BY ConfigsAssumption DEF Inv, Typed

LEMMA Crashes ==
  ASSUME Inv, NEW w \in Workers, Crash(w)
  PROVE  Inv'
<1>1. /\ Become(w, Free) /\ faults < cfg.faults /\ faults' = faults + 1
      /\ doubled' = (doubled \/ at[w].step = "done")
      /\ UNCHANGED <<cfg, table, hunts, splits, raced>>
  BY DEF Crash
<1>2. Carried(w) /\ HuntsOK'
  BY <1>1 DEF Carried, Inv, HuntsOK, Payloads
<1>3. /\ at' \in [Workers -> Seats] /\ Leasing' /\ Budgeted'
      /\ \A v \in Workers : (Tested(v) /\ Remembered(v))'
  BY <1>1, <1>2, LetGo
<1>4. Continued'
  <2>1. CASE doubled'
    BY <2>1 DEF Continued
  <2>2. CASE ~doubled'
    <3>1. ~doubled /\ at[w].step # "done"
      BY <1>1, <2>2
    <3>2. doubled = FALSE /\ doubled' = FALSE
      BY <1>1, <3>1 DEF Inv, Typed
    <3> QED
      BY <1>1, <3>1, <3>2, FreeSeat, ContinuedKept
  <2> QED
    BY <2>1, <2>2
<1>5. Typed'
  <2>1. doubled' \in BOOLEAN
    BY <1>1
  <2>2. faults' \in 0..cfg'.faults
    BY <1>1, FaultCounted
  <2> QED
    BY <1>1, <1>3, <2>1, <2>2 DEF Inv, Typed
<1> QED
  BY <1>2, <1>3, <1>4, <1>5 DEF Inv

LEMMA Finishes ==
  ASSUME Inv, NEW w \in Workers, Finish(w)
  PROVE  Inv'
<1>1. /\ Become(w, Free) /\ at[w].step = "done"
      /\ UNCHANGED <<cfg, table, splits, doubled, raced>>
  BY DEF Finish
<1>2. CASE /\ at[w].outcome = "infra" /\ faults < cfg.faults
           /\ faults' = faults + 1 /\ UNCHANGED hunts
  <2>1. Carried(w) /\ HuntsOK'
    BY <1>1, <1>2 DEF Carried, Inv, HuntsOK, Payloads
  <2>2. /\ at' \in [Workers -> Seats] /\ Leasing' /\ Budgeted'
        /\ \A v \in Workers : (Tested(v) /\ Remembered(v))'
    BY <1>1, <2>1, LetGo
  <2>3. Continued'
    BY <1>1, <1>2, FreeSeat, ContinuedKept
  <2>4. Typed'
    <3>1. faults' \in 0..cfg'.faults
      BY <1>1, <1>2, FaultCounted
    <3> QED
      BY <1>1, <2>2, <3>1 DEF Inv, Typed
  <2> QED
    BY <2>1, <2>2, <2>3, <2>4 DEF Inv
<1>3. CASE hunts' = Forget(at[w].id) /\ UNCHANGED faults
  <2> DEFINE n == at[w].id
  <2>1. n \in DOMAIN hunts
    BY <1>1, Seat DEF Idle
  <2>2. /\ HuntsOK' /\ DOMAIN hunts' = DOMAIN hunts \ {n}
        /\ \A i \in DOMAIN hunts' :
             hunts'[i] = [hunts[i] EXCEPT !.from = IF @ = n THEN 0 ELSE @]
    BY <1>1, <1>3, <2>1, ForgetKeeps DEF Inv
  <2>3. \A i \in DOMAIN hunts' :
          /\ hunts'[i].from = IF hunts[i].from = n THEN 0 ELSE hunts[i].from
          /\ hunts'[i].gen = hunts[i].gen /\ hunts'[i].split = hunts[i].split
          /\ hunts'[i].chain = hunts[i].chain
    BY <2>2 DEF Inv, HuntsOK, Payloads
  <2>4. Carried(w)
    BY <2>2, <2>3 DEF Carried
  <2>5. /\ at' \in [Workers -> Seats] /\ Leasing' /\ Budgeted'
        /\ \A v \in Workers : (Tested(v) /\ Remembered(v))'
    BY <1>1, <2>4, LetGo
  <2>6. Continued'
    <3> SUFFICES ASSUME ~doubled
                 PROVE  OneStanding' /\ \A v \in Workers : Looked(v)'
      BY <1>1 DEF Continued
    <3>1. at'[w] = Free /\ \A v \in Workers \ {w} : at'[v] = at[v]
      BY <1>1, Seat DEF Become, Inv, Typed
    <3>2. OneStanding /\ \A v \in Workers : Looked(v)
      BY DEF Inv, Continued
    <3>3. \A i \in DOMAIN hunts' : Standing(i)' => Standing(i)
      BY <2>2, <3>1 DEF Standing
    <3>4. OneStanding'
      BY <2>2, <2>3, <3>2, <3>3 DEF OneStanding
    <3>5. ASSUME NEW v \in Workers
          PROVE  Looked(v)'
      <4>1. CASE v = w
        BY <3>1, <4>1, FreeSeat DEF Looked
      <4>2. CASE v # w
        <5> SUFFICES ASSUME at[v].calls > 0
                     PROVE  Children(v)' = {}
          BY <3>1, <3>2, <4>2 DEF Looked
        <5>1. at[v].id # 0 /\ Children(v) = {}
          BY <3>2, Seat DEF Looked, Inv, Tested, Idle
        <5> QED
          BY <2>2, <2>3, <3>1, <4>2, <5>1 DEF Children
      <4> QED
        BY <4>1, <4>2
    <3> QED
      BY <3>4, <3>5
  <2>7. Typed'
    BY <1>1, <1>3, <2>5 DEF Inv, Typed
  <2> QED
    BY <2>2, <2>5, <2>6, <2>7 DEF Inv
<1> QED
  BY <1>2, <1>3 DEF Finish

-----------------------------------------------------------------------------
(* The table.                                                              *)
LEMMA TableGrows ==
  ASSUME Inv, Grow
  PROVE  Inv'
<1>1. /\ table' \in {"short", "long", "longer"} /\ (table' # "longer" => table # "longer")
      /\ UNCHANGED <<cfg, hunts, splits, at, doubled, raced, faults>>
  BY DEF Grow
<1>2. Typed' /\ HuntsOK' /\ Leasing'
  BY <1>1 DEF Inv, Typed, HuntsOK, Payloads, Leasing, Idle
<1>3. Budgeted' /\ Continued'
  BY <1>1 DEF Inv, Budgeted, Splitting, Continued, OneStanding, Standing, Looked, Children
<1>4. \A w \in Workers : (Tested(w) /\ Remembered(w))'
  BY <1>1 DEF Inv, Tested, Remembered, Idle, Payload
<1> QED
  BY <1>2, <1>3, <1>4 DEF Inv

LEMMA Parks ==
  ASSUME Inv, NEW i \in DOMAIN hunts, Pause(i) \/ Resume(i)
  PROVE  Inv'
<1>1. /\ \E b \in BOOLEAN : Parked(i, b)
      /\ UNCHANGED <<cfg, table, splits, at, doubled, raced>>
  BY DEF Pause, Resume, Parked
<1>2. faults' \in 0..cfg.faults
  <2>1. UNCHANGED faults \/ (faults < cfg.faults /\ faults' = faults + 1)
    BY DEF Pause, Resume
  <2>2. UNCHANGED cfg
    BY <1>1
  <2> QED
    BY <2>1, <2>2, FaultCounted DEF Inv, Typed
<1>3. /\ HuntsOK' /\ SameHunts
      /\ \A j \in DOMAIN hunts :
           /\ hunts'[j].gen = hunts[j].gen /\ hunts'[j].split = hunts[j].split
           /\ hunts'[j].chain = hunts[j].chain
  BY <1>1, ParkedKeeps DEF Inv
<1>4. Typed' /\ Leasing' /\ Budgeted'
  BY <1>1, <1>2, <1>3 DEF Inv, Typed, Leasing, Idle, SameHunts, Budgeted, Splitting
<1>5. ASSUME NEW w \in Workers
      PROVE  (Tested(w) /\ Remembered(w))'
  <2>1. Tested(w) /\ Remembered(w)
    BY DEF Inv
  <2>2. CASE Idle(w)
    BY <1>1, <2>1, <2>2 DEF Tested, Remembered, Idle
  <2>3. CASE ~Idle(w)
    <3>1. at[w].id \in DOMAIN hunts
      BY <2>3, Seat
    <3> QED
      BY <1>1, <1>3, <2>1, <3>1 DEF Tested, Remembered, Idle, Payload
  <2> QED
    BY <2>2, <2>3
<1>6. Continued'
  <2> SUFFICES ASSUME ~doubled
               PROVE  OneStanding' /\ \A w \in Workers : Looked(w)'
    BY <1>1 DEF Continued
  <2>1. OneStanding /\ \A w \in Workers : Looked(w)
    BY DEF Inv, Continued
  <2>2. \A w \in Workers : Children(w)' = Children(w)
    BY <1>1, <1>3 DEF Children, SameHunts
  <2>3. \A j : Standing(j)' <=> Standing(j)
    BY <1>1 DEF Standing
  <2> QED
    BY <1>1, <1>3, <2>1, <2>2, <2>3 DEF OneStanding, SameHunts, Looked
<1> QED
  BY <1>3, <1>4, <1>5, <1>6 DEF Inv

-----------------------------------------------------------------------------
(* The theorems.                                                           *)
LEMMA InitInv == Init => Inv
<1> SUFFICES ASSUME Init
             PROVE  Inv
  OBVIOUS
<1>1. cfg \in Configs /\ 0 \in 0..cfg.faults /\ cfg.deep \in BOOLEAN
  BY ConfigsAssumption DEF Init
<1>2. Typed
  BY <1>1, FreeSeat DEF Init, Typed
<1>3. /\ DOMAIN hunts = {1} /\ hunts[1] = [Fresh(Root) EXCEPT !.deep = cfg.deep]
      /\ \A w \in Workers : at[w] = Free
  BY DEF Init
<1>4. /\ hunts[1] \in Payloads /\ hunts[1].chain = {} /\ hunts[1].from = 0
  <2>1. 0 \in 0..cfg.generations /\ 0 \in 0..cfg.depth /\ MaxParts \in 1..MaxParts
    BY <1>1, ConfigsAssumption, CapsAssumption
  <2>2. Fresh(Root) \in Payloads
    BY <2>1, RootAssumption DEF Fresh, Payloads
  <2> QED
    BY <1>1, <1>3, <2>2 DEF Fresh, Payloads
<1>5. HuntsOK
  <2>1. IsFiniteSet(DOMAIN hunts)
    BY <1>3, FS_Singleton
  <2>2. IsFiniteSet({}) /\ Cardinality({}) < MaxChain
    BY FS_EmptySet, CapsAssumption
  <2>3. DOMAIN hunts \subseteq Ids
    BY <1>3 DEF Ids
  <2>4. \A i \in DOMAIN hunts : hunts[i] \in Payloads /\ hunts[i].chain = {}
    BY <1>3, <1>4
  <2> QED
    BY <2>1, <2>2, <2>3, <2>4 DEF HuntsOK
<1>6. Leasing
  BY <1>3, FreeSeat DEF Leasing, Idle
<1>7. Budgeted /\ Continued
  BY <1>3, <1>4, FreeSeat, CapsAssumption
    DEF Init, Budgeted, Continued, OneStanding, Looked, Splitting
<1>8. \A w \in Workers : Tested(w) /\ Remembered(w)
  BY <1>3, FreeSeat DEF Tested, Remembered, Idle
<1> QED
  BY <1>2, <1>5, <1>6, <1>7, <1>8 DEF Inv

LEMMA NextInv == Inv /\ [Next]_vars => Inv'
<1> SUFFICES ASSUME Inv, [Next]_vars
             PROVE  Inv'
  OBVIOUS
<1>1. ASSUME NEW w \in Workers, Rounds(w)
      PROVE  Inv'
  BY <1>1, Submits, Calls, ChildEnqueued, Asks, Requested DEF Rounds
<1>2. ASSUME NEW w \in Workers, Ending(w)
      PROVE  Inv'
  BY <1>2, LoopEnds, Forced, NoneFinished, Counts, Splits, Finishes DEF Ending
<1>3. CASE UNCHANGED vars
  BY <1>3 DEF vars, Inv, Typed, HuntsOK, Payloads, Leasing, Idle, Budgeted, Splitting,
              Continued, OneStanding, Standing, Looked, Children, Tested, Remembered, Payload
<1> QED
  BY <1>1, <1>2, <1>3, Crashes, Leases, Parks, TableGrows DEF Next

THEOREM InvAlways == Spec => []Inv
BY InitInv, NextInv, PTL DEF Spec

(* No hunt exceeds the caps on generation, split depth and lineage.        *)
THEOREM TypeCorrect == Spec => []TypeOK
<1>1. Inv => TypeOK
  BY DEF Inv, Typed, HuntsOK, Leasing, TypeOK, Idle
<1> QED
  BY <1>1, InvAlways, PTL

(* Splits stay in their budget while the count reads the whole table,      *)
(* unless two aborts count before either has split (maybe_auto_split).     *)
THEOREM SplitsBudgeted == Spec => []WithinSplitBudget
<1>1. Inv => WithinSplitBudget
  BY DEF Inv, Budgeted, WithinSplitBudget
<1> QED
  BY <1>1, InvAlways, PTL

(* A hunt has at most one continuation, unless two calls of one round      *)
(* overlap, a look misses a child that is there, or a worker dies just     *)
(* before its last transition (enqueue_continuation).                      *)
THEOREM ContinuedOnce == Spec => []OneContinuation
<1>1. ASSUME Inv
      PROVE  OneContinuation
  <2>1. \A i : (\A w \in Workers : at[w].id = i => at[w].step # "done") => Standing(i)
    BY DEF Standing
  <2> QED
    BY <1>1, <2>1 DEF Inv, Continued, OneStanding, OneContinuation
<1> QED
  BY <1>1, InvAlways, PTL

(* A candidate that one slot of a panel ended with is not lost to what the *)
(* others found (_finish_hunt_moa); the exits of _run_hunt_moa before that *)
(* (continued, infra, refused) are the exceptions.                         *)
THEOREM CandidatesKept == Spec => []CandidateKept
<1>1. Inv => CandidateKept
  BY DEF Inv, Remembered, CandidateKept
<1> QED
  BY <1>1, InvAlways, PTL
=============================================================================
