-------------------------- MODULE LiveBenchProofs --------------------------
(***************************************************************************)
(* Proofs about LiveBench, for every set of hunts and of requests, every   *)
(* configuration and every budget of Ralph.                                *)
(***************************************************************************)
EXTENDS LiveBench, TLAPS

-----------------------------------------------------------------------------
(* What a thread is about to do: where it is, or where it will be when it  *)
(* has written the row it is at.                                           *)
Patching(p) == at[p].step \in {"finish", "write"}
Due(p)      == IF Patching(p) THEN at[p].then ELSE at[p].step

Hunting   == {"open", "mark", "resolve", "init", "record", "enqueue", "start", "wait"}
HuntSteps == Hunting \union {"score", "close", "alive", "queued", "fail", "done"}
Thens     == Hunting \union {"score", "done", "idle", "loop", "parent", "kid", "spawn"}
SuiteSteps == {"loop", "parent", "kids", "kid", "create", "suiteFail"}

(* What the locals of a thread say of one another.                         *)
AtOK       == at \in [Threads -> Locals]
Lined(p)   == (at[p].job = "drive" /\ Due(p) \in Hunting) =>
                 at[p].line \in 1..19 /\ Script[at[p].line] = Due(p)
Driven(p)  == /\ Due(p) \in Hunting \union {"loop", "suiteFail"} => at[p].job = "drive"
              /\ Due(p) \in {"kid", "kill"} => at[p].job = "stop"
              /\ at[p].step \in {"parent", "kids"} =>
                    /\ at[p].then \in {"idle", "loop"}
                    /\ at[p].then = "loop" => at[p].job = "drive"
OnHunt(p)  == Due(p) \in HuntSteps => at[p].run \in Hunts
Tasked(p)  == (at[p].job = "drive" /\ cfg.suite /\ Due(p) \in HuntSteps) => at[p].todo # <<>>
Returns(p) == /\ at[p].then \in Thens
              /\ (Patching(p) /\ at[p].job = "drive" /\ at[p].run \in Hunts) =>
                    at[p].then \in HuntSteps
Listing(p) == /\ at[p].step = "create" => at[p].todo # <<>>
              /\ at[p].step = "kids" => at[p].kids # <<>> /\ at[p].run = Suite
Placed(p)  == /\ (Patching(p) /\ at[p].put = "harness") => at[p].run \in Hunts
              /\ (at[p].step = "write" /\ at[p].run = Suite) => ~at[p].raw.harness
Suited(p)  == Due(p) \in SuiteSteps => cfg.suite

(* What a thread has last seen of the run it is at.                        *)
Heeds(p)   == /\ at[p].step \in {"alive", "queued", "kill", "create"} => ~Ended(at[p].seen)
              /\ (at[p].job = "drive" /\ Due(p) \in Hunting /\ at[p].line > 1) => ~Ended(at[p].seen)
              /\ Patching(p) => ~Ended(at[p].seen) \/ at[p].put = at[p].seen.status
              /\ ~Ended(at[p].top)

RowOK  == row \in [Runs -> Rows] /\ ~row[Suite].harness
HarOK  == harness \in [Hunts -> [work : Nat, ralph : Nat \union {NoRalph}, found : BOOLEAN]]
RestOK == /\ cfg \in Configs /\ old \in BOOLEAN
          /\ used \in [{"stops", "restarts", "faults"} -> Nat]
PastOK == past \in [fed : SUBSET Hunts, ran : SUBSET Hunts, early : SUBSET Hunts,
                    polled : BOOLEAN, reopened : BOOLEAN, collided : BOOLEAN]

Local(p) == /\ Lined(p) /\ Driven(p) /\ OnHunt(p) /\ Tasked(p) /\ Returns(p) /\ Listing(p)
            /\ Placed(p) /\ Suited(p) /\ Heeds(p)
Typed    == AtOK /\ RowOK /\ HarOK /\ RestOK /\ PastOK
TypeInv  == Typed /\ \A p \in Threads : Local(p)

-----------------------------------------------------------------------------
(* The runs that have been created stay created, and who is at a run is at *)
(* one of them.                                                            *)
Created(r) == row[r].status # "none"
AllBorn    == \A i \in DOMAIN Members : Created(Members[i])

Jobbed(p) == /\ at[p].job = "none" => at[p] = Idle
             /\ Due(p) \in {"create", "spawn"} => at[p].job = "start"
             /\ at[p].job = "start" => at[p].run = First /\ Due(p) \in {"create", "spawn", "idle"}
             /\ at[p].job \in {"drive", "dying"} => p = Drive
             /\ p = Drive => at[p].job \in {"none", "drive", "dying"}
Born(p)   == /\ at[p].job # "none" => Created(at[p].run) /\ Created(First)
             /\ at[p].step = "write" => at[p].raw.status # "none"
ToDo(p)   == at[p].job \in {"drive", "stop"} => \A i \in DOMAIN at[p].todo : Created(at[p].todo[i])
Birth(p)  == at[p].step = "create" =>
               /\ \A i \in DOMAIN at[p].todo : ~Created(at[p].todo[i])
               /\ \A i, j \in DOMAIN at[p].todo : at[p].todo[i] = at[p].todo[j] => i = j
               /\ \A j \in DOMAIN Members :
                    Created(Members[j]) \/ \E i \in DOMAIN at[p].todo : at[p].todo[i] = Members[j]
Listed(p) == /\ (Patching(p) /\ at[p].put = "list") => cfg.suite /\ at[p].run = Suite /\ AllBorn
             /\ (at[p].step = "write" /\ at[p].raw.listed) =>
                    cfg.suite /\ at[p].run = Suite /\ AllBorn
             /\ at[p].top # Blank => cfg.suite /\ AllBorn
             /\ Due(p) = "kid" => at[p].top # Blank
             /\ at[p].step = "close" => at[p].put \notin {"harness", "list"}
             /\ (cfg.suite /\ (at[p].job = "drive" \/ Due(p) = "spawn")) => AllBorn

Started == (\E r \in Runs : Created(r)) => Created(First)
RowList == \A r \in Runs : row[r].listed => cfg.suite /\ r = Suite /\ AllBorn
OneStart == \A p \in Threads : at[p].job = "start" =>
              at[Drive].job = "none" /\ \A q \in Threads : at[q].job = "start" => q = p

Grown(p) == Jobbed(p) /\ Born(p) /\ ToDo(p) /\ Birth(p) /\ Listed(p)
BirthInv == Started /\ RowList /\ OneStart /\ \A p \in Threads : Grown(p)

(* A hunt is scored after it ran, or by who found it empty.                *)
Scores   == {"passed", "failed"}
Ran(h)   == h \in past.ran \union past.early
RanLocal(p) ==
  /\ (Patching(p) /\ at[p].run \in Hunts /\ at[p].put \in Scores) => Ran(at[p].run)
  /\ (at[p].step = "write" /\ at[p].run \in Hunts /\ at[p].raw.status \in Scores) =>
        Ran(at[p].run)
  /\ Due(p) \in {"score", "close"} => Ran(at[p].run)
  /\ (at[p].job = "drive" /\ Due(p) \in Hunting /\ at[p].line > 14) => at[p].run \in past.ran
RanHunt(h) == /\ row[h].status \in Scores => Ran(h)
              /\ Alive(h) => h \in past.ran /\ Created(First)
              /\ (h \in past.fed /\ h \notin past.ran) => harness[h].work > 0
RanInv == (\A h \in Hunts : RanHunt(h)) /\ (\A p \in Threads : RanLocal(p))

(* The verdict of a suite, as long as no end was overwritten.              *)
BackedBy(s) == \A i \in DOMAIN Members :
                 Ended(row[Members[i]]) /\ (s = "passed" => row[Members[i]].status = "passed")
Looked(p) == Len(Members) - Len(at[p].kids)
Summing(p) ==
  at[p].step = "kids" =>
    /\ at[p].seen.status \in Scores => BackedBy(at[p].seen.status)
    /\ Len(at[p].kids) <= Len(Members)
    /\ \A i \in 1..Len(at[p].kids) : at[p].kids[i] = Members[Looked(p) + i]
    /\ \A j \in 1..Looked(p) : \E s \in at[p].tally :
          s \in Terminal => row[Members[j]].status = s
VerdictLocal(p) ==
  /\ (at[p].step = "write" /\ at[p].run = Suite /\ at[p].raw.status \in Scores) =>
        BackedBy(at[p].raw.status)
  /\ (Patching(p) /\ at[p].run = Suite /\ at[p].put \in Scores) => BackedBy(at[p].put)
  /\ Summing(p)
VerdictInv == ~past.reopened =>
                /\ row[Suite].status \in Scores => BackedBy(row[Suite].status)
                /\ \A p \in Threads : VerdictLocal(p)

(* Until a poll starts a Ralph, only the driver does, and it waits for the *)
(* end of each; or the dashboard was restarted and there is no driver.     *)
NoDriver == Created(First) /\ \A p \in Threads : at[p].job \notin {"start", "drive"}
RalphInv == ~past.polled =>
              /\ \A h \in Hunts : Alive(h) => \/ at[Drive].step = "wait" /\ at[Drive].run = h
                                             \/ NoDriver
              /\ \A g, h \in Hunts : Alive(g) /\ Alive(h) => g = h

Inv == TypeInv /\ BirthInv /\ RanInv /\ VerdictInv /\ RalphInv

LEMMA TypedIsTypeOK == Typed => TypeOK
BY DEF Typed, TypeOK, AtOK, RowOK, HarOK, RestOK, PastOK

-----------------------------------------------------------------------------
(* The script of a hunt.                                                   *)
LEMMA ScriptFacts ==
  /\ Len(Script) = 19
  /\ \A i \in 1..17 : Script[i] \in Hunting /\ i + 1 \in 1..19
  /\ Script[1] = "open" /\ Script[18] = "score" /\ Script[19] = "close"
  /\ \A i \in 1..19 : Script[i] \in Hunting => i \in 1..17
  /\ \A i \in 1..19 : Script[i] \in Steps
  /\ \A i \in 1..17 : Script[i + 1] \in Hunting \union {"score"}
  /\ \A i \in 1..19 : /\ Script[i] \in {"start", "wait"} => i > 1
                      /\ Script[i] = "wait" => i = 15
                      /\ Script[i] = "start" => i = 14
<1>1. Len(Script) = 19
  BY DEF Script
<1>2. /\ Script[1] = "open" /\ Script[2] = "mark" /\ Script[3] = "open" /\ Script[4] = "resolve"
      /\ Script[5] = "mark" /\ Script[6] = "open" /\ Script[7] = "init" /\ Script[8] = "record"
      /\ Script[9] = "mark" /\ Script[10] = "open" /\ Script[11] = "enqueue"
      /\ Script[12] = "mark" /\ Script[13] = "open" /\ Script[14] = "start"
      /\ Script[15] = "wait" /\ Script[16] = "open" /\ Script[17] = "mark"
      /\ Script[18] = "score" /\ Script[19] = "close"
  BY DEF Script
<1>3. \A i \in 1..19 : Script[i] \in Steps
  <2>1. \A i \in 1..Len(Script) : Script[i] \in {Script[j] : j \in 1..Len(Script)}
    OBVIOUS
  <2> QED
    BY <1>1, <2>1 DEF Steps
<1>4. \A i \in 1..17 : i \in {1,2,3,4,5,6,7,8,9,10,11,12,13,14,15,16,17}
  OBVIOUS
<1>5. \A i \in 1..17 : Script[i] \in Hunting
  BY <1>2, <1>4 DEF Hunting
<1>6. \A i \in 1..19 : i \in 1..17 \/ i = 18 \/ i = 19
  OBVIOUS
<1>7. \A i \in 1..17 : i + 1 \in 1..17 \/ i + 1 = 18
  OBVIOUS
<1>8. \A i \in 1..19 : /\ Script[i] = "wait" => i = 15
                       /\ Script[i] = "start" => i = 14
  BY <1>2, <1>4, <1>6
<1>9. "score" \notin Hunting /\ "close" \notin Hunting
  BY DEF Hunting
<1> QED
  BY <1>1, <1>2, <1>3, <1>5, <1>6, <1>7, <1>8, <1>9

LEMMA StepNames ==
  /\ Steps = {"open", "mark", "resolve", "init", "record", "enqueue", "start", "wait", "score",
              "close", "idle", "done", "loop", "parent", "kids", "finish", "write", "fail",
              "suiteFail", "alive", "queued", "create", "spawn", "kid", "kill"}
<1>1. {Script[i] : i \in 1..Len(Script)} = Hunting \union {"score", "close"}
  <2>1. \A i \in 1..Len(Script) : Script[i] \in Hunting \union {"score", "close"}
    <3>1. \A i \in 1..19 : i \in 1..17 \/ i = 18 \/ i = 19
      OBVIOUS
    <3> QED
      BY <3>1, ScriptFacts
  <2>2. \A s \in Hunting \union {"score", "close"} : \E i \in 1..Len(Script) : s = Script[i]
    <3>1. /\ Script[1] = "open" /\ Script[2] = "mark" /\ Script[4] = "resolve"
          /\ Script[7] = "init" /\ Script[8] = "record" /\ Script[11] = "enqueue"
          /\ Script[14] = "start" /\ Script[15] = "wait" /\ Script[18] = "score"
          /\ Script[19] = "close"
      BY DEF Script
    <3>2. {1, 2, 4, 7, 8, 11, 14, 15, 18, 19} \subseteq 1..Len(Script)
      BY ScriptFacts
    <3> QED
      BY <3>1, <3>2 DEF Hunting
  <2> QED
    BY <2>1, <2>2
<1> QED
  BY <1>1 DEF Steps, Hunting

-----------------------------------------------------------------------------
(* What every step leaves: created runs, hunts that ran, and, as long as   *)
(* nothing is reopened, the ends of runs.                                  *)
Onward ==
  /\ cfg' = cfg
  /\ \A r \in Runs : Created(r) => row'[r].status # "none"
  /\ past.ran \subseteq past'.ran /\ past.early \subseteq past'.early
  /\ ~past'.reopened =>
       /\ ~past.reopened
       /\ \A r \in Runs : Ended(row[r]) => row'[r].status = row[r].status

(* Nothing is created.                                                     *)
Steady == \A r \in Runs : ~Created(r) => row'[r].status = "none"

LEMMA UnchangedOnward ==
  ASSUME UNCHANGED <<cfg, row, past>> PROVE Onward /\ Steady
BY DEF Onward, Steady, Created

LEMMA MembersTyped ==
  ASSUME RestOK
  PROVE  /\ Members \in Seq(Hunts) /\ Members # <<>> /\ Head(Members) \in Hunts
         /\ First \in Runs /\ Len(Members) \in Nat /\ Len(Members) > 0
         /\ \A i \in DOMAIN Members : Members[i] \in Hunts
         /\ \A i, j \in DOMAIN Members : Members[i] = Members[j] => i = j
         /\ cfg.pages \subseteq Requests /\ cfg.hints \in Nat \ {0} /\ cfg.suite \in BOOLEAN
         /\ (~cfg.suite => Len(Members) = 1)
<1>1. Members \in Seq(Hunts) /\ Members # <<>>
  BY ConfigsAssumption DEF RestOK, Members
<1>2. /\ cfg.pages \subseteq Requests /\ cfg.hints \in Nat \ {0} /\ cfg.suite \in BOOLEAN
      /\ (~cfg.suite => Len(Members) = 1)
      /\ \A i, j \in DOMAIN Members : Members[i] = Members[j] => i = j
  BY ConfigsAssumption DEF RestOK, Members
<1> HIDE DEF Members
<1>3. Head(Members) \in Hunts /\ Len(Members) \in Nat /\ Len(Members) > 0
  BY <1>1
<1>4. First \in Runs
  BY <1>3 DEF First, Runs
<1> QED
  BY <1>1, <1>2, <1>3, <1>4

LEMMA SeqFacts ==
  ASSUME NEW S, NEW s \in Seq(S), s # <<>>
  PROVE  /\ Head(s) \in S /\ Tail(s) \in Seq(S) /\ s[1] = Head(s)
         /\ Len(s) \in Nat \ {0} /\ 1 \in DOMAIN s
         /\ Len(Tail(s)) = Len(s) - 1 /\ (Tail(s) = <<>> => Len(s) = 1)
         /\ \A i \in DOMAIN Tail(s) : i + 1 \in DOMAIN s /\ Tail(s)[i] = s[i + 1] /\ i \in Nat
         /\ \A i \in DOMAIN s : i = 1 \/ (i - 1 \in DOMAIN Tail(s) /\ Tail(s)[i - 1] = s[i])
<1>1. Len(Tail(s)) = Len(s) - 1 /\ Len(s) \in Nat \ {0}
  OBVIOUS
<1>2. Tail(s) = <<>> => Len(s) = 1
  <2>1. Len(<<>>) = 0
    OBVIOUS
  <2>2. Tail(s) = <<>> => Len(Tail(s)) = Len(<<>>)
    OBVIOUS
  <2> QED
    BY <1>1, <2>1, <2>2
<1>3. /\ Head(s) \in S /\ Tail(s) \in Seq(S) /\ s[1] = Head(s) /\ 1 \in DOMAIN s
      /\ \A i \in DOMAIN Tail(s) : i + 1 \in DOMAIN s /\ Tail(s)[i] = s[i + 1] /\ i \in Nat
      /\ \A i \in DOMAIN s : i = 1 \/ (i - 1 \in DOMAIN Tail(s) /\ Tail(s)[i - 1] = s[i])
  OBVIOUS
<1> QED
  BY <1>1, <1>2, <1>3

LEMMA IdleFacts ==
  /\ Idle.job = "none" /\ Idle.step = "idle" /\ Idle.line = 0 /\ Idle.run = Suite
  /\ Idle.seen = Blank /\ Idle.raw = Blank /\ Idle.put = "keep" /\ Idle.then = "idle"
  /\ Idle.todo = <<>> /\ Idle.kids = <<>> /\ Idle.tally = {} /\ Idle.top = Blank
  /\ Blank.status = "none" /\ Blank.harness = FALSE /\ Blank.listed = FALSE
  /\ Blank \in Rows /\ ~Ended(Blank) /\ Idle \in Locals
<1>1. Blank \in Rows /\ ~Ended(Blank)
  BY DEF Blank, Rows, Ended, Terminal, Statuses
<1>2. /\ "idle" \in Steps /\ "keep" \in Puts /\ "none" \in Jobs /\ Suite \in Runs
      /\ 0 \in 0..Len(Script)
  BY StepNames, ScriptFacts DEF Puts, Jobs, Runs
<1>3. <<>> \in Seq(Hunts) /\ {} \in SUBSET Statuses
  OBVIOUS
<1>4. Idle \in Locals
  BY <1>1, <1>2, <1>3 DEF Idle, Locals
<1> QED
  BY <1>1, <1>4 DEF Idle, Blank

LEMMA SetFacts ==
  ASSUME AtOK, NEW p \in Threads, NEW t \in Locals, Set(p, t)
  PROVE  AtOK' /\ at'[p] = t /\ \A q \in Threads : q # p => at'[q] = at[q]
BY DEF AtOK, Set

LEMMA LocalTyped ==
  ASSUME AtOK, NEW p \in Threads
  PROVE  /\ at[p] \in Locals /\ at[p].job \in Jobs /\ at[p].step \in Steps
         /\ at[p].line \in 0..19 /\ at[p].run \in Runs /\ at[p].seen \in Rows
         /\ at[p].raw \in Rows /\ at[p].put \in Puts /\ at[p].then \in Steps
         /\ at[p].todo \in Seq(Hunts) /\ at[p].kids \in Seq(Hunts)
         /\ at[p].tally \in SUBSET Statuses /\ at[p].top \in Rows
<1>1. at[p] \in Locals
  BY DEF AtOK
<1> QED
  BY <1>1, ScriptFacts DEF Locals

-----------------------------------------------------------------------------
(* Who does not move keeps what is said of its locals.                     *)
LEMMA OthersLocal ==
  ASSUME NEW q \in Threads, Local(q), at'[q] = at[q], cfg' = cfg
  PROVE  Local(q)'
BY DEF Local, Lined, Driven, OnHunt, Tasked, Returns, Listing, Placed, Suited, Heeds, Due,
       Patching

LEMMA BornOnward ==
  ASSUME RestOK, Onward
  PROVE  /\ AllBorn => AllBorn'
         /\ Members' = Members /\ First' = First
         /\ Created(First) => Created(First)'
<1>1. Members' = Members /\ First' = First
  BY DEF Onward, Members, First
<1>2. First \in Runs /\ \A i \in DOMAIN Members : Members[i] \in Runs
  BY MembersTyped DEF Runs
<1> QED
  BY <1>1, <1>2 DEF Onward, AllBorn, Created

LEMMA OthersGrown ==
  ASSUME RestOK, AtOK, NEW q \in Threads, Grown(q), at'[q] = at[q], Onward,
         at[q].step = "create" => \A r \in Hunts : ~Created(r) => ~Created(r)'
  PROVE  Grown(q)'
<1>1. /\ AllBorn => AllBorn'
      /\ Members' = Members /\ First' = First
      /\ Created(First) => Created(First)'
  BY BornOnward
<1>2. at[q].run \in Runs /\ at[q].todo \in Seq(Hunts)
  BY LocalTyped
<1>3. \A i \in DOMAIN at[q].todo : at[q].todo[i] \in Hunts /\ at[q].todo[i] \in Runs
  BY <1>2 DEF Runs
<1>4. Due(q)' = Due(q) /\ Patching(q)' = Patching(q)
  BY DEF Due, Patching
<1>5. Jobbed(q)'
  BY <1>1, <1>4 DEF Grown, Jobbed
<1>6. Born(q)'
  BY <1>1, <1>2 DEF Grown, Born, Onward, Created
<1>7. ToDo(q)'
  BY <1>3 DEF Grown, ToDo, Onward, Created
<1>8. Birth(q)'
  <2> SUFFICES ASSUME at[q].step = "create" PROVE Birth(q)'
    BY DEF Birth
  <2>1. \A i \in DOMAIN at[q].todo : ~Created(at[q].todo[i])'
    BY <1>3 DEF Grown, Birth
  <2>2. \A j \in DOMAIN Members : Created(Members[j]) => Created(Members[j])'
    <3>1. \A j \in DOMAIN Members : Members[j] \in Runs
      BY MembersTyped DEF Runs
    <3> QED
      BY <1>1, <3>1 DEF Onward, Created
  <2> QED
    BY <1>1, <2>1, <2>2 DEF Grown, Birth, Created
<1>9. Listed(q)'
  BY <1>1, <1>4 DEF Grown, Listed, Onward
<1> QED
  BY <1>5, <1>6, <1>7, <1>8, <1>9 DEF Grown

LEMMA OthersRan ==
  ASSUME NEW q \in Threads, RanLocal(q), at'[q] = at[q], Onward
  PROVE  RanLocal(q)'
BY DEF RanLocal, Onward, Ran, Due, Patching

LEMMA BackedOnward ==
  ASSUME RestOK, RowOK, Onward, ~past'.reopened, NEW s, BackedBy(s)
  PROVE  BackedBy(s)'
<1>1. Members' = Members /\ \A i \in DOMAIN Members : Members[i] \in Runs
  BY BornOnward, MembersTyped DEF Runs
<1> QED
  BY <1>1 DEF BackedBy, Onward, Ended

LEMMA OthersVerdict ==
  ASSUME RestOK, RowOK, AtOK, NEW q \in Threads, VerdictLocal(q), at'[q] = at[q], Onward,
         ~past'.reopened
  PROVE  VerdictLocal(q)'
<1>1. Members' = Members /\ \A i \in DOMAIN Members : Members[i] \in Runs
  BY BornOnward, MembersTyped DEF Runs
<1>2. \A s \in Scores : BackedBy(s) => BackedBy(s)'
  BY BackedOnward
<1>3. Patching(q)' = Patching(q)
  BY DEF Patching
<1>4. Summing(q)'
  <2> SUFFICES ASSUME at[q].step = "kids" PROVE Summing(q)'
    BY DEF Summing
  <2>1. Looked(q)' = Looked(q) /\ Looked(q) <= Len(Members) /\ Looked(q) \in Int
    <3>1. Len(at[q].kids) \in Nat /\ Len(Members) \in Nat
      BY LocalTyped, MembersTyped
    <3> QED
      BY <1>1, <3>1 DEF Looked
  <2>2. \A j \in 1..Looked(q) : Members[j] \in Runs
    BY <1>1, <2>1, MembersTyped
  <2>3. \A j \in 1..Looked(q) : \A s \in Terminal :
           row[Members[j]].status = s => row'[Members[j]].status = s
    BY <2>2 DEF Onward, Ended
  <2>4. \A j \in 1..Looked(q) : \E s \in at[q].tally :
          s \in Terminal => row'[Members[j]].status = s
    BY <2>3 DEF VerdictLocal, Summing
  <2> QED
    BY <1>1, <1>2, <2>1, <2>4 DEF VerdictLocal, Summing, Scores
<1> QED
  BY <1>2, <1>3, <1>4 DEF VerdictLocal

-----------------------------------------------------------------------------
(* A step, and what is left to show of it: the threads that move.          *)
Good(p) == Local(p) /\ Grown(p) /\ RanLocal(p) /\ (~past.reopened => VerdictLocal(p))

RunsGood == /\ Started /\ RowList /\ \A h \in Hunts : RanHunt(h)
            /\ (~past.reopened /\ row[Suite].status \in Scores) => BackedBy(row[Suite].status)

LEMMA InvParts ==
  ASSUME Inv
  PROVE  /\ Typed /\ AtOK /\ RowOK /\ HarOK /\ RestOK /\ PastOK
         /\ \A p \in Threads : Good(p) /\ Local(p) /\ Grown(p) /\ RanLocal(p)
         /\ RunsGood /\ OneStart /\ RalphInv
BY DEF Inv, TypeInv, BirthInv, RanInv, VerdictInv, Typed, Good, RunsGood

LEMMA InvOfParts ==
  ASSUME Typed', \A p \in Threads : Good(p)', RunsGood', OneStart', RalphInv'
  PROVE  Inv'
BY DEF Inv, TypeInv, BirthInv, RanInv, VerdictInv, Good, RunsGood

LEMMA OthersGood ==
  ASSUME Inv, NEW q \in Threads, at'[q] = at[q], Onward,
         at[q].step = "create" => \A r \in Hunts : ~Created(r) => ~Created(r)'
  PROVE  Good(q)'
<1>1. /\ AtOK /\ RowOK /\ RestOK /\ Local(q) /\ Grown(q) /\ RanLocal(q)
      /\ ~past.reopened => VerdictLocal(q)
  BY InvParts DEF Good
<1>2. Local(q)'
  BY <1>1, OthersLocal DEF Onward
<1>3. Grown(q)'
  BY <1>1, OthersGrown
<1>4. RanLocal(q)'
  BY <1>1, OthersRan
<1>5. ~past'.reopened => VerdictLocal(q)'
  BY <1>1, OthersVerdict DEF Onward
<1> QED
  BY <1>2, <1>3, <1>4, <1>5 DEF Good

(* Runs, harnesses and history as they were.                               *)
LEMMA RunsAsTheyWere ==
  ASSUME Inv, UNCHANGED <<cfg, row, harness, past>>
  PROVE  RunsGood' /\ RowOK' /\ HarOK' /\ PastOK' /\ Onward /\ Steady
<1>1. RunsGood /\ RowOK /\ HarOK /\ PastOK
  BY InvParts
<1>2. RowOK' /\ HarOK' /\ PastOK'
  BY <1>1 DEF RowOK, HarOK, PastOK
<1>3. \A r : Created(r)' = Created(r)
  BY DEF Created
<1>4. AllBorn' = AllBorn /\ First' = First /\ Members' = Members
  BY DEF AllBorn, Created, First, Members
<1>5. Started' /\ RowList'
  BY <1>1, <1>3, <1>4 DEF RunsGood, Started, RowList
<1>6. \A h \in Hunts : RanHunt(h)'
  BY <1>1, <1>3, <1>4 DEF RunsGood, RanHunt, Ran, Alive
<1>7. \A s : BackedBy(s)' = BackedBy(s)
  BY <1>4 DEF BackedBy, Ended
<1> QED
  BY <1>1, <1>2, <1>5, <1>6, <1>7, UnchangedOnward DEF RunsGood

(* Threads move; they start nothing, and none leaves a Ralph.              *)
LEMMA StartsKept ==
  ASSUME Inv,
         \A q \in Threads : at'[q].job = "start" => at[q].job = "start",
         at[Drive].job = "none" => at'[Drive].job = "none"
  PROVE  OneStart'
BY InvParts DEF OneStart

LEMMA JobsKept ==
  ASSUME Inv, Onward, \A h \in Hunts : Alive(h)' => Alive(h), past'.polled = past.polled,
         \A q \in Threads : at'[q].job \in {"start", "drive"} => at'[q].job = at[q].job,
         at[Drive].job = "none" => at'[Drive].job = "none",
         at[Drive].step = "wait" => at'[Drive] = at[Drive] \/ ~Alive(at[Drive].run)
  PROVE  OneStart' /\ RalphInv'
<1>1. RalphInv /\ RestOK
  BY InvParts
<1>2. OneStart'
  BY StartsKept
<1>3. RalphInv'
  <2>1. NoDriver => NoDriver'
    <3>1. First' = First /\ (Created(First) => Created(First)')
      BY <1>1, BornOnward
    <3> QED
      BY <3>1 DEF NoDriver
  <2> QED
    BY <1>1, <2>1 DEF RalphInv
<1> QED
  BY <1>2, <1>3

-----------------------------------------------------------------------------
(* Where threads come to rest, or return.                                  *)
LEMMA IdleGood ==
  ASSUME NEW p \in Threads, at'[p] = Idle
  PROVE  Good(p)'
<1>1. ~Patching(p)' /\ Due(p)' = "idle"
  BY IdleFacts DEF Patching, Due
<1>2. Local(p)'
  BY <1>1, IdleFacts DEF Local, Lined, Driven, OnHunt, Tasked, Returns, Listing, Placed, Suited,
       Heeds, Hunting, HuntSteps, Thens, SuiteSteps
<1>3. Grown(p)'
  BY <1>1, IdleFacts DEF Grown, Jobbed, Born, ToDo, Birth, Listed
<1>4. RanLocal(p)' /\ VerdictLocal(p)'
  BY <1>1, IdleFacts DEF RanLocal, VerdictLocal, Summing, Hunting
<1> QED
  BY <1>2, <1>3, <1>4 DEF Good

LEMMA DoneGood ==
  ASSUME Inv, Onward, NEW p \in Threads, NEW t \in Locals, t.job = at[p].job,
         t.todo = at[p].todo, (t.job = "drive" /\ cfg.suite) => t.todo # <<>>,
         at'[p] = Done(t)
  PROVE  /\ Done(t) \in Locals /\ Good(p)' /\ Done(t).job \in {"none", at[p].job}
         /\ Done(t).step # "wait"
<1>1. CASE ~(t.job = "drive" /\ cfg.suite)
  <2>1. Done(t) = Idle
    BY <1>1 DEF Done
  <2> QED
    BY <2>1, IdleGood, IdleFacts
<1>2. CASE t.job = "drive" /\ cfg.suite
  <2> DEFINE u == Done(t)
  <2>1. u = [Idle EXCEPT !.job = "drive", !.step = "parent", !.then = "loop",
                         !.todo = Tail(t.todo)]
    BY <1>2 DEF Done
  <2>2. /\ u.job = "drive" /\ u.step = "parent" /\ u.line = 0 /\ u.run = Suite /\ u.seen = Blank
        /\ u.raw = Blank /\ u.put = "keep" /\ u.then = "loop" /\ u.todo = Tail(t.todo)
        /\ u.kids = <<>> /\ u.tally = {} /\ u.top = Blank
    BY <2>1, IdleFacts DEF Idle
  <2>3. t.todo \in Seq(Hunts) /\ t.todo # <<>>
    BY <1>2 DEF Locals
  <2>4. u \in Locals
    <3>1. Tail(t.todo) \in Seq(Hunts) /\ "drive" \in Jobs /\ "parent" \in Steps /\ "loop" \in Steps
      BY <2>3, StepNames DEF Jobs
    <3> QED
      BY <3>1, <2>1, IdleFacts DEF Locals, Idle
  <2> HIDE DEF u
  <2>5. at'[p] = u
    BY DEF u
  <2>6. ~Patching(p)' /\ Due(p)' = "parent" /\ cfg' = cfg
    BY <2>2, <2>5 DEF Patching, Due, Onward
  <2>7. Local(p)'
    BY <1>2, <2>2, <2>5, <2>6, IdleFacts DEF Local, Lined, Driven, OnHunt, Tasked, Returns, Listing,
         Placed, Suited, Heeds, Hunting, HuntSteps, Thens, SuiteSteps
  <2>8. Grown(p) /\ RestOK
    BY InvParts
  <2>9. /\ AllBorn => AllBorn'
        /\ Members' = Members /\ First' = First
        /\ Created(First) => Created(First)'
    BY <2>8, BornOnward
  <2>10. Jobbed(p)' /\ Birth(p)' /\ Listed(p)'
    BY <1>2, <2>2, <2>5, <2>6, <2>8, <2>9 DEF Grown, Jobbed, Birth, Listed
  <2>11. Born(p)'
    <3>1. First = Suite
      BY <1>2 DEF First
    <3> QED
      BY <1>2, <3>1, <2>2, <2>5, <2>8, <2>9 DEF Grown, Born
  <2>12. ToDo(p)'
    <3>1. \A i \in DOMAIN t.todo : Created(t.todo[i]) /\ t.todo[i] \in Runs
      BY <1>2, <2>3, <2>8 DEF Grown, ToDo, Runs
    <3>2. \A i \in DOMAIN Tail(t.todo) : Created(Tail(t.todo)[i]) /\ Tail(t.todo)[i] \in Runs
      BY <3>1, <2>3, SeqFacts
    <3> QED
      BY <3>2, <2>2, <2>5 DEF ToDo, Onward, Created
  <2>13. RanLocal(p)' /\ VerdictLocal(p)'
    BY <2>2, <2>5, <2>6, IdleFacts DEF RanLocal, VerdictLocal, Summing, Hunting
  <2> QED
    BY <1>2, <2>2, <2>4, <2>7, <2>10, <2>11, <2>12, <2>13 DEF Good, Grown, u
<1> QED
  BY <1>1, <1>2

(* After a write: the thread is where it was to go on.                     *)
LEMMA AfterGood ==
  ASSUME Inv, Onward, NEW p \in Threads, at[p].step = "write", at'[p] = After(at[p])
  PROVE  /\ After(at[p]) \in Locals /\ Good(p)' /\ After(at[p]).job \in {"none", at[p].job}
<1> DEFINE t == at[p]
           u == After(t)
<1>1. /\ t \in Locals /\ Due(p) = t.then /\ Patching(p) /\ t.then \in Thens /\ t.job # "none"
      /\ Local(p) /\ Grown(p) /\ RanLocal(p) /\ RestOK
  BY InvParts, LocalTyped, IdleFacts
     DEF Due, Patching, Local, Returns, Grown, Jobbed
<1>2. CASE t.then = "idle"
  BY <1>2, IdleGood, IdleFacts DEF After
<1>3. CASE t.then = "done"
  <2>1. u = Done(t)
    BY <1>3 DEF After
  <2>2. (t.job = "drive" /\ cfg.suite) => t.todo # <<>>
    BY <1>1, <1>3 DEF Local, Tasked, HuntSteps
  <2> QED
    BY <1>1, <2>1, <2>2, DoneGood
<1>4. CASE t.then \notin {"idle", "done"}
  <2>1. u = [t EXCEPT !.step = t.then, !.then = "idle", !.raw = Blank, !.put = "keep"]
    BY <1>4 DEF After
  <2>2. /\ u.job = t.job /\ u.step = t.then /\ u.line = t.line /\ u.run = t.run /\ u.seen = t.seen
        /\ u.raw = Blank /\ u.put = "keep" /\ u.then = "idle" /\ u.todo = t.todo
        /\ u.kids = t.kids /\ u.tally = t.tally /\ u.top = t.top
    BY <1>1, <2>1 DEF Locals
  <2>3. u \in Locals
    <3>1. "keep" \in Puts /\ "idle" \in Steps /\ Blank \in Rows /\ t.then \in Steps
      BY <1>1, IdleFacts, StepNames DEF Puts, Locals
    <3> QED
      BY <1>1, <2>1, <3>1 DEF Locals
  <2> HIDE DEF u
  <2>4. at'[p] = u
    BY DEF u
  <2>5. ~Patching(p)' /\ Due(p)' = Due(p) /\ cfg' = cfg /\ t.then # "create" /\ t.then # "kids"
        /\ t.then \notin {"alive", "queued", "kill", "create", "write", "finish", "close"}
    BY <1>1, <2>2, <2>4 DEF Patching, Due, Onward, Thens, Hunting
  <2>6. Local(p)'
    <3>1. Lined(p)' /\ Driven(p)' /\ OnHunt(p)' /\ Tasked(p)' /\ Suited(p)'
      BY <1>1, <2>2, <2>4, <2>5 DEF Local, Lined, Driven, OnHunt, Tasked, Suited
    <3>2. Returns(p)' /\ Listing(p)' /\ Placed(p)'
      BY <1>1, <2>2, <2>4, <2>5 DEF Returns, Listing, Placed, Patching, Thens
    <3>3. Heeds(p)'
      BY <1>1, <2>2, <2>4, <2>5 DEF Local, Heeds
    <3> QED
      BY <3>1, <3>2, <3>3 DEF Local
  <2>7. /\ AllBorn => AllBorn'
        /\ Members' = Members /\ First' = First
        /\ Created(First) => Created(First)'
    BY <1>1, BornOnward
  <2>8. Grown(p)'
    <3>1. Jobbed(p)' /\ Birth(p)' /\ Listed(p)'
      BY <1>1, <2>2, <2>4, <2>5, <2>7, IdleFacts DEF Grown, Jobbed, Birth, Listed
    <3>2. Born(p)'
      BY <1>1, <2>2, <2>4, <2>5, <2>7, IdleFacts DEF Grown, Born, Onward, Created, Locals
    <3>3. ToDo(p)'
      <4>1. \A i \in DOMAIN t.todo : t.todo[i] \in Runs
        BY <1>1 DEF Locals, Runs
      <4> QED
        BY <1>1, <2>2, <2>4, <4>1 DEF Grown, ToDo, Onward, Created
    <3> QED
      BY <3>1, <3>2, <3>3 DEF Grown
  <2>9. RanLocal(p)'
    BY <1>1, <2>2, <2>4, <2>5 DEF RanLocal, Ran, Onward
  <2>10. VerdictLocal(p)'
    BY <2>2, <2>4, <2>5 DEF VerdictLocal, Summing, Patching
  <2> QED
    BY <2>2, <2>3, <2>6, <2>8, <2>9, <2>10 DEF Good, u
<1> QED
  BY <1>2, <1>3, <1>4

LEMMA RaisedGood ==
  ASSUME Inv, Onward, NEW p \in Threads, at[p].step = "write", at'[p] = Raised(at[p])
  PROVE  /\ Raised(at[p]) \in Locals /\ Good(p)' /\ Raised(at[p]).job \in {"none", at[p].job}
<1> DEFINE t == at[p]
           u == Raised(t)
<1>1. /\ t \in Locals /\ Due(p) = t.then /\ Patching(p) /\ t.then \in Thens /\ t.job # "none"
      /\ Local(p) /\ Grown(p) /\ RanLocal(p) /\ RestOK
  BY InvParts, LocalTyped, IdleFacts
     DEF Due, Patching, Local, Returns, Grown, Jobbed
<1>2. CASE u = Idle
  BY <1>2, IdleGood, IdleFacts
<1>3. CASE u # Idle
  <2>1. PICK s \in {"fail", "suiteFail"} :
          /\ u = [t EXCEPT !.step = s, !.raw = Blank, !.put = "keep"]
          /\ t.job = "drive"
          /\ s = "fail" => t.run \in Hunts
          /\ s = "suiteFail" => cfg.suite
    BY <1>3 DEF Raised
  <2>2. /\ u.job = t.job /\ u.step = s /\ u.line = t.line /\ u.run = t.run /\ u.seen = t.seen
        /\ u.raw = Blank /\ u.put = "keep" /\ u.then = t.then /\ u.todo = t.todo
        /\ u.kids = t.kids /\ u.tally = t.tally /\ u.top = t.top
    BY <1>1, <2>1 DEF Locals
  <2>3. u \in Locals
    <3>1. t \in Locals /\ "keep" \in Puts /\ Blank \in Rows /\ s \in Steps
      BY <1>1, IdleFacts, StepNames DEF Puts
    <3>2. u = [t EXCEPT !.step = s, !.raw = Blank, !.put = "keep"]
      BY <2>1
    <3> HIDE DEF t, u
    <3> QED
      BY <3>1, <3>2 DEF Locals
  <2> HIDE DEF u
  <2>4. at'[p] = u
    BY DEF u
  <2>5. ~Patching(p)' /\ Due(p)' = s /\ cfg' = cfg
    BY <2>2, <2>4 DEF Patching, Due, Onward
  <2>6. (s = "fail" /\ cfg.suite) => t.todo # <<>>
    BY <1>1, <2>1 DEF Local, Returns, Tasked
  <2>7. Local(p)'
    <3>1. Lined(p)' /\ Driven(p)' /\ OnHunt(p)' /\ Tasked(p)' /\ Suited(p)'
      BY <2>1, <2>2, <2>4, <2>5, <2>6
         DEF Lined, Driven, OnHunt, Tasked, Suited, Hunting, HuntSteps, SuiteSteps
    <3>2. Returns(p)' /\ Listing(p)' /\ Placed(p)'
      BY <1>1, <2>1, <2>2, <2>4, <2>5 DEF Returns, Listing, Placed
    <3>3. Heeds(p)'
      BY <1>1, <2>1, <2>2, <2>4, <2>5 DEF Local, Heeds, Hunting
    <3> QED
      BY <3>1, <3>2, <3>3 DEF Local
  <2>8. /\ AllBorn => AllBorn'
        /\ Members' = Members /\ First' = First
        /\ Created(First) => Created(First)'
    BY <1>1, BornOnward
  <2>9. Grown(p)'
    <3>1. Jobbed(p)' /\ Birth(p)' /\ Listed(p)'
      BY <1>1, <2>1, <2>2, <2>4, <2>5, <2>8, IdleFacts DEF Grown, Jobbed, Birth, Listed
    <3>2. Born(p)'
      BY <1>1, <2>1, <2>2, <2>4, <2>5, <2>8, IdleFacts DEF Grown, Born, Onward, Created, Locals
    <3>3. ToDo(p)'
      <4>1. \A i \in DOMAIN t.todo : t.todo[i] \in Runs
        BY <1>1 DEF Locals, Runs
      <4> QED
        BY <1>1, <2>1, <2>2, <2>4, <4>1 DEF Grown, ToDo, Onward, Created
    <3> QED
      BY <3>1, <3>2, <3>3 DEF Grown
  <2>10. RanLocal(p)'
    BY <2>1, <2>2, <2>4, <2>5 DEF RanLocal, Hunting
  <2>11. VerdictLocal(p)'
    BY <2>1, <2>2, <2>4, <2>5 DEF VerdictLocal, Summing
  <2> QED
    BY <2>2, <2>3, <2>7, <2>9, <2>10, <2>11 DEF Good, u
<1> QED
  BY <1>2, <1>3

-----------------------------------------------------------------------------
(* What update_run writes.                                                 *)
LEMMA PatchedFacts ==
  ASSUME NEW raw \in Rows, NEW put \in Puts
  PROVE  LET new == Patched(raw, put)
         IN  /\ new \in Rows
             /\ \/ put \in {"keep", "harness", "list"} /\ new.status = raw.status
                \/ put \in Terminal \union {"running"} /\ new.status = put
             /\ new.harness => raw.harness \/ put = "harness"
             /\ new.listed => raw.listed \/ put = "list"
<1> DEFINE new == Patched(raw, put)
<1>0. /\ raw.status \in Statuses /\ raw.harness \in BOOLEAN /\ raw.listed \in BOOLEAN
      /\ raw = [status |-> raw.status, harness |-> raw.harness, listed |-> raw.listed]
  BY DEF Rows
<1>1. CASE put = "keep"
  BY <1>1 DEF Patched
<1>2. CASE put = "harness"
  <2>1. new = [raw EXCEPT !.harness = TRUE]
    BY <1>2 DEF Patched
  <2>2. new \in Rows /\ new.status = raw.status /\ new.listed = raw.listed
    BY <2>1, <1>0 DEF Rows
  <2> QED
    BY <1>2, <2>2
<1>3. CASE put = "list"
  <2>1. new = [raw EXCEPT !.listed = TRUE]
    BY <1>3 DEF Patched
  <2>2. new \in Rows /\ new.status = raw.status /\ new.harness = raw.harness
    BY <2>1, <1>0 DEF Rows
  <2> QED
    BY <1>3, <2>2
<1>4. CASE put \notin {"keep", "harness", "list"}
  <2>1. new = [raw EXCEPT !.status = put]
    BY <1>4 DEF Patched
  <2>2. put \in Terminal \union {"running"} /\ put \in Statuses
    BY <1>4 DEF Puts, Statuses
  <2>3. new \in Rows /\ new.status = put /\ new.harness = raw.harness /\ new.listed = raw.listed
    BY <2>1, <2>2, <1>0 DEF Rows
  <2> QED
    BY <2>2, <2>3
<1> QED
  BY <1>1, <1>2, <1>3, <1>4

LEMMA PublishGood ==
  ASSUME Inv, NEW q \in Threads, at[q].step = "write", NEW c \in BOOLEAN, Publish(at[q], c),
         UNCHANGED <<cfg, harness>>
  PROVE  /\ Onward /\ Steady /\ RowOK' /\ PastOK' /\ HarOK' /\ RunsGood'
         /\ past'.polled = past.polled
<1> DEFINE t   == at[q]
           me  == t.run
           new == Patched(t.raw, t.put)
<1>1. /\ t \in Locals /\ me \in Runs /\ t.raw \in Rows /\ t.put \in Puts /\ Patching(q)
      /\ Local(q) /\ Grown(q) /\ RanLocal(q) /\ RestOK /\ RowOK /\ PastOK /\ HarOK
      /\ RunsGood
      /\ ~past.reopened => VerdictLocal(q)
  BY InvParts, LocalTyped DEF Patching, Good
<1>2. /\ new \in Rows
      /\ \/ t.put \in {"keep", "harness", "list"} /\ new.status = t.raw.status
         \/ t.put \in Terminal \union {"running"} /\ new.status = t.put
      /\ new.harness => t.raw.harness \/ t.put = "harness"
      /\ new.listed => t.raw.listed \/ t.put = "list"
  BY <1>1, PatchedFacts
<1>3. row' = [row EXCEPT ![me] = new]
  BY DEF Publish
<1>4. past' = [past EXCEPT !.collided = @ \/ c,
                 !.reopened = @ \/ (Ended(row[me]) /\ new.status # row[me].status)]
  BY DEF Publish
<1> HIDE DEF new, me
<1>5. row'[me] = new /\ \A s \in Runs : s # me => row'[s] = row[s]
  BY <1>1, <1>3 DEF RowOK
<1>6. /\ past'.fed = past.fed /\ past'.ran = past.ran /\ past'.early = past.early
      /\ past'.polled = past.polled /\ PastOK'
  BY <1>1, <1>4 DEF PastOK
<1>7. ~past'.reopened => ~past.reopened /\ (Ended(row[me]) => new.status = row[me].status)
  <2>1. past'.reopened = (past.reopened \/ (Ended(row[me]) /\ new.status # row[me].status))
    BY <1>1, <1>4, Zenon DEF PastOK
  <2> QED
    BY <2>1, Zenon
<1>8. new.status # "none"
  BY <1>1, <1>2 DEF Grown, Born, Terminal
<1>9. Onward
  BY <1>5, <1>6, <1>7, <1>8 DEF Onward, Created
<1>10. Steady
  BY <1>1, <1>5 DEF Steady, Grown, Born, Jobbed, Idle, me, Created
<1>11. RowOK'
  <2>1. ~row'[Suite].harness
    BY <1>1, <1>2, <1>5, NamesAssumption DEF RowOK, Local, Placed, me, Runs
  <2> QED
    BY <1>1, <1>2, <1>3, <2>1 DEF RowOK
<1>12. HarOK'
  BY <1>1 DEF HarOK
<1>13. /\ AllBorn => AllBorn'
       /\ Members' = Members /\ First' = First /\ First \in Runs
       /\ Created(First) => Created(First)'
  BY <1>1, <1>9, BornOnward, MembersTyped
<1>14. Started'
  <2>1. Created(me) /\ Created(First)
    BY <1>1 DEF Grown, Born, Jobbed, Idle, me
  <2> QED
    BY <1>13, <2>1 DEF Started
<1>15. RowList'
  <2>1. new.listed => cfg.suite /\ me = Suite /\ AllBorn
    BY <1>1, <1>2 DEF Grown, Listed, me
  <2> QED
    BY <1>1, <1>5, <1>13, <2>1 DEF RowList, RunsGood
<1>16. \A h \in Hunts : RanHunt(h)'
  <2> SUFFICES ASSUME NEW h \in Hunts PROVE RanHunt(h)'
    OBVIOUS
  <2>1. /\ Ran(h) => Ran(h)'
        /\ Alive(h)' => Alive(h)
        /\ h \in Runs /\ RanHunt(h)
    BY <1>1, <1>6 DEF Ran, Alive, Runs, RunsGood
  <2>2. row'[h].status \in Scores => Ran(h)
    BY <1>1, <1>2, <1>5, <2>1 DEF RanHunt, RanLocal, me, Scores
  <2> QED
    BY <1>6, <1>13, <2>1, <2>2 DEF RanHunt
<1>17. (~past'.reopened /\ row'[Suite].status \in Scores) => BackedBy(row[Suite].status)'
  <2> SUFFICES ASSUME ~past'.reopened, row'[Suite].status \in Scores
               PROVE  BackedBy(row[Suite].status)'
    OBVIOUS
  <2>1. ~past.reopened /\ Suite \in Runs
    BY <1>7 DEF Runs
  <2>2. BackedBy(row'[Suite].status)
    <3>1. CASE me = Suite
      <4>1. row'[Suite].status = new.status /\ VerdictLocal(q) /\ t.run = Suite
        BY <1>1, <1>5, <2>1, <3>1 DEF me
      <4>2. CASE new.status = t.raw.status
        BY <1>1, <4>1, <4>2 DEF VerdictLocal
      <4>3. CASE new.status = t.put
        BY <1>1, <4>1, <4>3 DEF VerdictLocal
      <4> QED
        BY <1>2, <4>2, <4>3
    <3>2. CASE me # Suite
      BY <1>1, <1>5, <2>1, <3>2 DEF RunsGood
    <3> QED
      BY <3>1, <3>2
  <2>3. \A i \in DOMAIN Members : Members[i] \in Runs
    BY <1>1, MembersTyped DEF Runs
  <2> QED
    BY <1>9, <1>13, <2>2, <2>3 DEF BackedBy, Onward, Ended
<1> QED
  BY <1>6, <1>9, <1>10, <1>11, <1>12, <1>14, <1>15, <1>16, <1>17 DEF RunsGood

LEMMA WriteRowInv ==
  ASSUME Inv, NEW p \in Threads, WriteRow(p) PROVE Inv'
<1>1. at[p].step = "write" /\ Publish(at[p], FALSE) /\ UNCHANGED <<cfg, harness, old, used>>
      /\ Set(p, After(at[p]))
  BY DEF WriteRow
<1>2. /\ Onward /\ Steady /\ RowOK' /\ PastOK' /\ HarOK' /\ RunsGood'
      /\ past'.polled = past.polled
  BY <1>1, PublishGood
<1>3. at'[p] = After(at[p]) /\ \A q \in Threads : q # p => at'[q] = at[q]
  BY <1>1, InvParts DEF Set, AtOK
<1>4. After(at[p]) \in Locals /\ Good(p)' /\ After(at[p]).job \in {"none", at[p].job}
  BY <1>1, <1>2, <1>3, AfterGood
<1>5. AtOK'
  BY <1>1, <1>4, InvParts, SetFacts
<1>6. RestOK'
  BY <1>1, InvParts DEF RestOK
<1>7. \A q \in Threads : Good(q)'
  <2>1. \A r \in Hunts : ~Created(r) => ~Created(r)'
    BY <1>2 DEF Steady, Created, Runs
  <2> QED
    BY <1>2, <1>3, <1>4, <2>1, OthersGood
<1>8. OneStart' /\ RalphInv'
  <2>1. at[Drive].job = "none" => at'[Drive].job = "none"
    BY <1>3, <1>4 DEF Threads
  <2>2. at[Drive].step = "wait" => at'[Drive] = at[Drive]
    BY <1>1, <1>3 DEF Threads
  <2> QED
    BY <1>1, <1>2, <1>3, <1>4, <2>1, <2>2, JobsKept DEF Alive
<1> QED
  BY <1>2, <1>5, <1>6, <1>7, <1>8, InvOfParts DEF Typed

LEMMA CollideInv ==
  ASSUME Inv, NEW p \in Threads, NEW q \in Threads, Collide(p, q) PROVE Inv'
<1>1. /\ p # q /\ at[p].step = "write" /\ at[q].step = "write"
      /\ Fault /\ Publish(at[q], TRUE) /\ UNCHANGED <<cfg, harness, old>>
      /\ at' = [at EXCEPT ![p] = After(at[p]), ![q] = Raised(at[q])]
  BY DEF Collide
<1>2. /\ Onward /\ Steady /\ RowOK' /\ PastOK' /\ HarOK' /\ RunsGood'
      /\ past'.polled = past.polled
  BY <1>1, PublishGood
<1>3. /\ at'[p] = After(at[p]) /\ at'[q] = Raised(at[q])
      /\ \A s \in Threads : s # p /\ s # q => at'[s] = at[s]
  BY <1>1, InvParts DEF AtOK
<1>4. /\ After(at[p]) \in Locals /\ Good(p)' /\ After(at[p]).job \in {"none", at[p].job}
      /\ Raised(at[q]) \in Locals /\ Good(q)' /\ Raised(at[q]).job \in {"none", at[q].job}
  BY <1>1, <1>2, <1>3, AfterGood, RaisedGood
<1>5. AtOK'
  BY <1>1, <1>4, InvParts DEF AtOK
<1>6. RestOK'
  BY <1>1, InvParts DEF RestOK, Fault, Spend
<1>7. \A s \in Threads : Good(s)'
  <2>1. \A r \in Hunts : ~Created(r) => ~Created(r)'
    BY <1>2 DEF Steady, Created, Runs
  <2> QED
    BY <1>2, <1>3, <1>4, <2>1, OthersGood
<1>8. OneStart' /\ RalphInv'
  <2>1. at[Drive].job = "none" => at'[Drive].job = "none"
    BY <1>3, <1>4 DEF Threads
  <2>2. at[Drive].step = "wait" => at'[Drive] = at[Drive]
    BY <1>1, <1>3 DEF Threads
  <2> QED
    BY <1>1, <1>2, <1>3, <1>4, <2>1, <2>2, JobsKept DEF Alive
<1> QED
  BY <1>2, <1>5, <1>6, <1>7, <1>8, InvOfParts DEF Typed

-----------------------------------------------------------------------------
(* A thread moves and nothing else changes.                                *)
LEMMA QuietInv ==
  ASSUME Inv, NEW p \in Threads, NEW t \in Locals, Set(p, t),
         UNCHANGED <<cfg, row, harness, past>>, RestOK', Good(p)',
         t.job \in {"none", at[p].job} \/ (t.job = "dying" /\ at[p].job # "none")
           \/ (t.job \in {"poll", "stop"} /\ p # Drive),
         at[p].step = "wait" => ~Alive(at[p].run)
  PROVE  Inv'
<1>1. /\ Onward /\ Steady /\ RowOK' /\ PastOK' /\ HarOK' /\ RunsGood'
      /\ past'.polled = past.polled
  BY RunsAsTheyWere
<1>2. AtOK' /\ at'[p] = t /\ \A q \in Threads : q # p => at'[q] = at[q]
  BY InvParts, SetFacts
<1>3. \A q \in Threads : Good(q)'
  <2>1. \A r \in Hunts : ~Created(r) => ~Created(r)'
    BY DEF Created
  <2> QED
    BY <1>1, <1>2, <2>1, OthersGood
<1>4. OneStart' /\ RalphInv'
  <2>1. at[Drive].job = "none" => at'[Drive].job = "none"
    BY <1>2 DEF Threads
  <2>2. at[Drive].step = "wait" => at'[Drive] = at[Drive] \/ ~Alive(at[Drive].run)
    BY <1>2 DEF Threads
  <2>3. \A q \in Threads : at'[q].job \in {"start", "drive"} => at'[q].job = at[q].job
    BY <1>2
  <2> QED
    BY <1>1, <2>1, <2>2, <2>3, JobsKept DEF Alive
<1> QED
  BY <1>1, <1>2, <1>3, <1>4, InvOfParts DEF Typed

(* A write is to come, of a row read now or later.                         *)
LEMMA ReadRowInv ==
  ASSUME Inv, NEW p \in Threads, ReadRow(p) PROVE Inv'
<1> DEFINE t == [at[p] EXCEPT !.step = "write", !.raw = row[at[p].run], !.put = at[p].put,
                              !.then = at[p].then]
<1>1. at[p].step = "finish" /\ Set(p, t) /\ UNCHANGED <<cfg, row, harness, old, used, past>>
  BY DEF ReadRow, ReadFor
<1>2. /\ at[p] \in Locals /\ Patching(p) /\ at[p].job # "none" /\ at[p].run \in Runs
      /\ Local(p) /\ Grown(p) /\ RanLocal(p) /\ RestOK /\ RowOK /\ AtOK
      /\ RunsGood
      /\ ~past.reopened => VerdictLocal(p)
  BY <1>1, InvParts, LocalTyped, IdleFacts DEF Patching, Good, Grown, Jobbed
<1>3. /\ t.job = at[p].job /\ t.step = "write" /\ t.line = at[p].line /\ t.run = at[p].run
      /\ t.seen = at[p].seen /\ t.raw = row[at[p].run] /\ t.put = at[p].put
      /\ t.then = at[p].then /\ t.todo = at[p].todo /\ t.kids = at[p].kids
      /\ t.tally = at[p].tally /\ t.top = at[p].top
  BY <1>2 DEF Locals
<1>4. t \in Locals
  <2>1. row[at[p].run] \in Rows /\ "write" \in Steps
    BY <1>2, StepNames DEF RowOK
  <2> QED
    BY <1>2, <2>1 DEF Locals
<1> HIDE DEF t
<1>5. at'[p] = t
  BY <1>1, <1>2, <1>4, SetFacts
<1>6. Patching(p)' /\ Due(p)' = Due(p)
  BY <1>1, <1>3, <1>5 DEF Patching, Due
<1>7. Local(p)'
  <2>1. Lined(p)' /\ Driven(p)' /\ OnHunt(p)' /\ Tasked(p)' /\ Suited(p)'
    BY <1>1, <1>2, <1>3, <1>5, <1>6 DEF Local, Lined, Driven, OnHunt, Tasked, Suited
  <2>2. Returns(p)' /\ Listing(p)' /\ Placed(p)'
    BY <1>1, <1>2, <1>3, <1>5, <1>6 DEF Local, Returns, Listing, Placed, RowOK
  <2>3. Heeds(p)'
    BY <1>1, <1>2, <1>3, <1>5, <1>6 DEF Local, Heeds
  <2> QED
    BY <2>1, <2>2, <2>3 DEF Local
<1>8. Grown(p)'
  <2>1. First' = First /\ Members' = Members /\ AllBorn' = AllBorn
    BY <1>1 DEF First, Members, AllBorn, Created
  <2>2. Jobbed(p)' /\ Birth(p)'
    BY <1>1, <1>2, <1>3, <1>5, <1>6, <2>1 DEF Grown, Jobbed, Birth
  <2>3. Born(p)' /\ ToDo(p)'
    BY <1>1, <1>2, <1>3, <1>5, <2>1 DEF Grown, Born, ToDo, Created
  <2>4. Listed(p)'
    BY <1>1, <1>2, <1>3, <1>5, <1>6, <2>1 DEF Grown, Listed, RunsGood, RowList
  <2> QED
    BY <2>2, <2>3, <2>4 DEF Grown
<1>9. RanLocal(p)'
  BY <1>1, <1>2, <1>3, <1>5, <1>6 DEF RanLocal, Ran, RunsGood, RanHunt
<1>10. ~past'.reopened => VerdictLocal(p)'
  BY <1>1, <1>2, <1>3, <1>5, <1>6 DEF VerdictLocal, Summing, RunsGood, BackedBy, Members
<1>11. RestOK'
  BY <1>1, <1>2 DEF RestOK
<1> QED
  BY <1>1, <1>3, <1>4, <1>7, <1>8, <1>9, <1>10, <1>11, QuietInv DEF Good

-----------------------------------------------------------------------------
(* The driver goes down the script of a hunt.                              *)
LEMMA HuntingFacts ==
  ASSUME Inv, NEW p \in Threads, at[p].step \in Hunting
  PROVE  /\ at[p] \in Locals /\ ~Patching(p) /\ Due(p) = at[p].step /\ at[p].job = "drive"
         /\ at[p].line \in 1..17 /\ Script[at[p].line] = at[p].step
         /\ at[p].run \in Hunts /\ (cfg.suite => at[p].todo # <<>>)
         /\ at[p].step # "open" => at[p].line > 1 /\ ~Ended(at[p].seen)
         /\ at[p].step = "wait" => at[p].line = 15
         /\ at[p].step = "start" => at[p].line = 14
<1>1. ~Patching(p) /\ Due(p) = at[p].step
  BY DEF Patching, Due, Hunting
<1>2. Local(p) /\ at[p] \in Locals
  BY InvParts, LocalTyped
<1>3. at[p].job = "drive" /\ at[p].run \in Hunts /\ (cfg.suite => at[p].todo # <<>>)
  BY <1>1, <1>2 DEF Local, Driven, OnHunt, Tasked, HuntSteps
<1>4. at[p].line \in 1..19 /\ Script[at[p].line] = at[p].step
  BY <1>1, <1>2, <1>3 DEF Local, Lined
<1>5. at[p].line \in 1..17
  BY <1>4, ScriptFacts
<1>6. at[p].step # "open" => at[p].line > 1
  BY <1>4, <1>5, ScriptFacts
<1>7. at[p].step # "open" => ~Ended(at[p].seen)
  BY <1>1, <1>2, <1>3, <1>6 DEF Local, Heeds
<1>8. (at[p].step = "wait" => at[p].line = 15) /\ (at[p].step = "start" => at[p].line = 14)
  BY <1>4, ScriptFacts
<1> QED
  BY <1>1, <1>2, <1>3, <1>4, <1>5, <1>6, <1>7, <1>8

LEMMA FollowingFacts ==
  ASSUME NEW u \in Locals, u.line \in 1..17
  PROVE  /\ Following(u) \in Locals
         /\ Following(u).line = u.line + 1
         /\ Following(u).step = Script[u.line + 1]
         /\ Following(u).step \in Hunting \union {"score"}
         /\ Following(u).step = "score" => u.line = 17
         /\ \A f \in {"job", "run", "seen", "raw", "put", "then", "todo", "kids", "tally", "top"} :
              Following(u)[f] = u[f]
<1>1. Following(u) = [u EXCEPT !.line = u.line + 1, !.step = Script[u.line + 1]]
  BY DEF Following, Locals
<1>2. /\ u.line + 1 \in 0..Len(Script) /\ Script[u.line + 1] \in Steps
      /\ Script[u.line + 1] \in Hunting \union {"score"}
  BY ScriptFacts
<1>3. Script[u.line + 1] = "score" => u.line = 17
  <2>1. u.line # 17 => u.line + 1 \in 1..17
    OBVIOUS
  <2> QED
    BY <2>1, ScriptFacts DEF Hunting
<1> QED
  BY <1>1, <1>2, <1>3 DEF Locals

LEMMA FollowGood ==
  ASSUME Inv, Onward, NEW p \in Threads, at[p].step \in Hunting, NEW u \in Locals, ~Ended(u.seen),
         u = [at[p] EXCEPT !.seen = u.seen], at'[p] = Following(u),
         at[p].step = "start" => at[p].run \in past'.ran
  PROVE  Following(u) \in Locals /\ Good(p)' /\ Following(u).job = at[p].job
<1> DEFINE t == Following(u)
<1>1. /\ at[p] \in Locals /\ ~Patching(p) /\ Due(p) = at[p].step /\ at[p].job = "drive"
      /\ at[p].line \in 1..17 /\ Script[at[p].line] = at[p].step
      /\ at[p].run \in Hunts /\ (cfg.suite => at[p].todo # <<>>)
      /\ at[p].step = "start" => at[p].line = 14
  BY HuntingFacts
<1>2. /\ Local(p) /\ Grown(p) /\ RanLocal(p) /\ RestOK
      /\ ~past.reopened => VerdictLocal(p)
  BY InvParts DEF Good
<1>3. /\ u.job = at[p].job /\ u.line = at[p].line /\ u.run = at[p].run
      /\ u.raw = at[p].raw /\ u.put = at[p].put /\ u.then = at[p].then /\ u.todo = at[p].todo
      /\ u.kids = at[p].kids /\ u.tally = at[p].tally /\ u.top = at[p].top
  BY <1>1 DEF Locals
<1>4. /\ t \in Locals
      /\ t.step \in Hunting \union {"score"}
      /\ t.step = Script[t.line]
      /\ t.step = "score" => at[p].line = 17
      /\ t.job = "drive" /\ t.line = at[p].line + 1 /\ t.run = at[p].run
      /\ t.raw = at[p].raw /\ t.put = at[p].put /\ t.then = at[p].then /\ t.todo = at[p].todo
      /\ t.kids = at[p].kids /\ t.tally = at[p].tally /\ t.top = at[p].top
      /\ t.seen = u.seen
  BY <1>1, <1>3, FollowingFacts
<1> HIDE DEF t
<1>5. at'[p] = t
  BY DEF t
<1>6. t.step \notin {"finish", "write", "alive", "queued", "kill", "create", "kids", "kid", "spawn",
                    "parent", "loop", "suiteFail"}
  BY <1>4 DEF Hunting
<1>7. ~Patching(p)' /\ Due(p)' = t.step /\ cfg' = cfg /\ t.line \in 1..19 /\ "score" \notin Hunting
      /\ t.step \notin SuiteSteps
  BY <1>1, <1>4, <1>5, <1>6 DEF Patching, Due, Onward, Hunting, SuiteSteps
<1>8. Local(p)'
  <2>1. Lined(p)' /\ Driven(p)' /\ OnHunt(p)' /\ Tasked(p)' /\ Suited(p)'
    BY <1>1, <1>4, <1>5, <1>6, <1>7 DEF Lined, Driven, OnHunt, Tasked, Suited
  <2>2. Returns(p)' /\ Listing(p)' /\ Placed(p)'
    BY <1>2, <1>4, <1>5, <1>6, <1>7 DEF Local, Returns, Listing, Placed
  <2>3. Heeds(p)'
    BY <1>2, <1>4, <1>5, <1>6, <1>7 DEF Local, Heeds
  <2> QED
    BY <2>1, <2>2, <2>3 DEF Local
<1>9. Grown(p)'
  <2>1. /\ AllBorn => AllBorn'
        /\ Members' = Members /\ First' = First
        /\ Created(First) => Created(First)'
    BY <1>2, BornOnward
  <2>2. Jobbed(p)' /\ Birth(p)' /\ Listed(p)'
    BY <1>1, <1>2, <1>4, <1>5, <1>6, <1>7, <2>1 DEF Grown, Jobbed, Birth, Listed, Hunting
  <2>3. Born(p)'
    BY <1>1, <1>2, <1>4, <1>5, <1>6, <1>7, <2>1 DEF Grown, Born, Onward, Created, Locals
  <2>4. ToDo(p)'
    <3>1. \A i \in DOMAIN at[p].todo : at[p].todo[i] \in Runs
      BY <1>1 DEF Locals, Runs
    <3> QED
      BY <1>1, <1>2, <1>4, <1>5, <3>1 DEF Grown, ToDo, Onward, Created
  <2> QED
    BY <2>2, <2>3, <2>4 DEF Grown
<1>10. RanLocal(p)'
  <2>1. at[p].line > 14 => at[p].run \in past.ran
    BY <1>1, <1>2 DEF RanLocal
  <2>2. t.line > 14 => at[p].run \in past'.ran
    <3>1. at[p].line \in Int
      BY <1>1
    <3>2. CASE at[p].line > 14
      BY <2>1, <3>2 DEF Onward
    <3>3. CASE at[p].line = 14
      <4>1. at[p].step = "start"
        BY <1>1, <3>3, ScriptFacts DEF Script
      <4> QED
        BY <4>1
    <3> QED
      BY <1>4, <3>1, <3>2, <3>3
  <2>3. t.step = "score" => t.line > 14
    BY <1>4
  <2>4. t.step # "close"
    BY <1>4 DEF Hunting
  <2> QED
    BY <1>4, <1>5, <1>6, <1>7, <2>2, <2>3, <2>4 DEF RanLocal, Ran
<1>11. VerdictLocal(p)'
  BY <1>5, <1>6, <1>7 DEF VerdictLocal, Summing
<1> QED
  BY <1>1, <1>4, <1>8, <1>9, <1>10, <1>11 DEF Good, t

LEMMA PrepareInv ==
  ASSUME Inv, NEW p \in Threads, Prepare(p) \/ WaitIdle(p) PROVE Inv'
<1>1. /\ at[p].step \in {"resolve", "init", "wait"}
      /\ at[p].step = "wait" => ~Alive(at[p].run)
      /\ Set(p, Following(at[p])) /\ UNCHANGED <<cfg, row, harness, old, used, past>>
  BY DEF Prepare, WaitIdle
<1>2. at[p].step \in Hunting /\ at[p].step # "open" /\ at[p].step # "start"
  BY <1>1 DEF Hunting
<1>3. /\ at[p] \in Locals /\ at[p].line \in 1..17 /\ ~Ended(at[p].seen)
  BY <1>2, HuntingFacts
<1>4. at[p] = [at[p] EXCEPT !.seen = at[p].seen]
  BY <1>3 DEF Locals
<1>5. Following(at[p]) \in Locals
  BY <1>3, FollowingFacts
<1>6. at'[p] = Following(at[p]) /\ Onward
  BY <1>1, <1>5, InvParts, SetFacts, UnchangedOnward
<1>7. Good(p)' /\ Following(at[p]).job = at[p].job
  BY <1>2, <1>3, <1>4, <1>6, FollowGood
<1>8. RestOK'
  BY <1>1, InvParts DEF RestOK
<1> QED
  BY <1>1, <1>5, <1>7, <1>8, QuietInv

LEMMA OpenLiveInv ==
  ASSUME Inv, NEW p \in Threads, OpenLive(p) PROVE Inv'
<1> DEFINE u == [at[p] EXCEPT !.seen = row[at[p].run]]
<1>1. /\ at[p].step = "open"
      /\ Set(p, IF Ended(u.seen) THEN Done(u) ELSE Following(u))
      /\ UNCHANGED <<cfg, row, harness, old, used, past>>
  BY DEF OpenLive
<1>2. at[p].step \in Hunting /\ at[p].step # "start"
  BY <1>1 DEF Hunting
<1>3. /\ at[p] \in Locals /\ at[p].line \in 1..17 /\ at[p].job = "drive" /\ at[p].run \in Hunts
      /\ (cfg.suite => at[p].todo # <<>>)
  BY <1>2, HuntingFacts
<1>4. row[at[p].run] \in Rows
  BY <1>3, InvParts DEF RowOK, Runs
<1>5. /\ u \in Locals /\ u.job = at[p].job /\ u.line = at[p].line /\ u.todo = at[p].todo
      /\ u.seen = row[at[p].run] /\ u = [at[p] EXCEPT !.seen = u.seen]
  BY <1>3, <1>4 DEF Locals
<1> HIDE DEF u
<1>6. Onward /\ RestOK'
  BY <1>1, InvParts, UnchangedOnward DEF RestOK
<1>7. at'[p] = (IF Ended(u.seen) THEN Done(u) ELSE Following(u))
  BY <1>1, InvParts DEF Set, AtOK
<1>8. CASE Ended(u.seen)
  <2>1. /\ Done(u) \in Locals /\ Good(p)' /\ Done(u).job \in {"none", at[p].job}
    BY <1>3, <1>5, <1>6, <1>7, <1>8, DoneGood
  <2> QED
    BY <1>1, <1>6, <1>8, <2>1, QuietInv
<1>9. CASE ~Ended(u.seen)
  <2>1. Following(u) \in Locals /\ Good(p)' /\ Following(u).job = at[p].job
    BY <1>2, <1>5, <1>6, <1>7, <1>9, FollowGood
  <2> QED
    BY <1>1, <1>6, <1>9, <2>1, QuietInv
<1> QED
  BY <1>8, <1>9

LEMMA MarkInv ==
  ASSUME Inv, NEW p \in Threads, Mark(p) PROVE Inv'
<1> DEFINE n == Following(at[p])
           w == IF at[p].step = "mark" THEN "keep" ELSE "harness"
           t == [n EXCEPT !.step = "write", !.raw = row[n.run], !.put = w, !.then = n.step]
<1>1. /\ at[p].step \in {"mark", "record"} /\ Set(p, t)
      /\ UNCHANGED <<cfg, row, harness, old, used, past>>
  BY DEF Mark, ReadFor
<1>2. at[p].step \in Hunting /\ at[p].step # "open" /\ at[p].step # "start" /\ at[p].step # "wait"
  BY <1>1 DEF Hunting
<1>3. /\ at[p] \in Locals /\ at[p].line \in 1..17 /\ at[p].job = "drive" /\ at[p].run \in Hunts
      /\ (cfg.suite => at[p].todo # <<>>) /\ ~Ended(at[p].seen) /\ Script[at[p].line] = at[p].step
      /\ ~Patching(p) /\ Due(p) = at[p].step
  BY <1>2, HuntingFacts
<1>4. /\ n \in Locals /\ n.line = at[p].line + 1 /\ n.step = Script[at[p].line + 1]
      /\ n.step \in Hunting \union {"score"}
      /\ n.step = "score" => at[p].line = 17
      /\ n.job = at[p].job /\ n.run = at[p].run /\ n.seen = at[p].seen /\ n.todo = at[p].todo
      /\ n.kids = at[p].kids /\ n.tally = at[p].tally /\ n.top = at[p].top
  BY <1>3, FollowingFacts
<1>5. /\ Local(p) /\ Grown(p) /\ RanLocal(p) /\ RestOK /\ RowOK /\ RunsGood
      /\ row[at[p].run] \in Rows
  BY <1>3, InvParts DEF RowOK, Runs
<1> HIDE DEF n
<1>6. /\ t.job = "drive" /\ t.step = "write" /\ t.line = at[p].line + 1 /\ t.run = at[p].run
      /\ t.seen = at[p].seen /\ t.raw = row[at[p].run] /\ t.put = w /\ t.then = n.step
      /\ t.todo = at[p].todo /\ t.kids = at[p].kids /\ t.tally = at[p].tally /\ t.top = at[p].top
  BY <1>3, <1>4 DEF Locals
<1>7. t \in Locals
  <2>1. "write" \in Steps /\ w \in Puts /\ n.step \in Steps
    BY <1>4, StepNames DEF Puts, Locals
  <2> QED
    BY <1>4, <1>5, <2>1 DEF Locals
<1>8. w \in {"keep", "harness"}
  OBVIOUS
<1> HIDE DEF t, w
<1>9. at'[p] = t /\ Onward /\ RestOK'
  BY <1>1, <1>5, <1>7, InvParts, SetFacts, UnchangedOnward DEF RestOK
<1>10. /\ Patching(p)' /\ Due(p)' = n.step /\ cfg' = cfg /\ t.line \in 1..19
       /\ "score" \notin Hunting /\ n.step \notin SuiteSteps /\ n.step \in Thens
       /\ n.step \notin {"create", "spawn", "kid", "kill", "close", "loop", "suiteFail"}
  BY <1>1, <1>3, <1>4, <1>6, <1>9 DEF Patching, Due, Hunting, SuiteSteps, Thens
<1>11. Local(p)'
  <2>1. Lined(p)' /\ Driven(p)' /\ OnHunt(p)' /\ Tasked(p)' /\ Suited(p)'
    BY <1>3, <1>4, <1>6, <1>9, <1>10 DEF Lined, Driven, OnHunt, Tasked, Suited, HuntSteps
  <2>2. Returns(p)' /\ Listing(p)' /\ Placed(p)'
    BY <1>3, <1>4, <1>5, <1>6, <1>9, <1>10, NamesAssumption
       DEF Returns, Listing, Placed, HuntSteps
  <2>3. Heeds(p)'
    BY <1>3, <1>5, <1>6, <1>9, <1>10 DEF Local, Heeds
  <2> QED
    BY <2>1, <2>2, <2>3 DEF Local
<1>12. Grown(p)'
  <2>1. First' = First /\ Members' = Members /\ AllBorn' = AllBorn
    BY <1>1 DEF First, Members, AllBorn, Created
  <2>2. Jobbed(p)' /\ Birth(p)'
    BY <1>3, <1>5, <1>6, <1>9, <1>10, <2>1 DEF Grown, Jobbed, Birth
  <2>3. Born(p)' /\ ToDo(p)'
    BY <1>1, <1>3, <1>5, <1>6, <1>9, <2>1 DEF Grown, Born, ToDo, Created
  <2>4. Listed(p)'
    BY <1>1, <1>3, <1>5, <1>6, <1>8, <1>9, <1>10, <2>1
       DEF Grown, Listed, RunsGood, RowList, Runs
  <2> QED
    BY <2>2, <2>3, <2>4 DEF Grown
<1>13. RanLocal(p)'
  <2>1. t.line > 14 => at[p].run \in past.ran
    <3>1. at[p].line # 14
      BY <1>2, <1>3 DEF Script
    <3>2. t.line > 14 => at[p].line > 14
      BY <1>3, <1>6, <3>1
    <3> QED
      BY <1>2, <1>3, <1>5, <3>2 DEF RanLocal
  <2>2. n.step = "score" => t.line > 14
    BY <1>4, <1>6
  <2>3. w \notin Scores
    BY <1>8 DEF Scores
  <2> QED
    BY <1>1, <1>3, <1>5, <1>6, <1>9, <1>10, <2>1, <2>2, <2>3
       DEF RanLocal, Ran, RunsGood, RanHunt
<1>14. VerdictLocal(p)'
  BY <1>3, <1>6, <1>9, NamesAssumption DEF VerdictLocal, Summing
<1> QED
  BY <1>1, <1>2, <1>3, <1>6, <1>7, <1>9, <1>11, <1>12, <1>13, <1>14, QuietInv DEF Good

LEMMA LineFailsInv ==
  ASSUME Inv, NEW p \in Threads, LineFails(p) PROVE Inv'
<1> DEFINE t == [at[p] EXCEPT !.step = "fail"]
<1>1. /\ at[p].step \in {"resolve", "init", "enqueue", "start"} /\ Fault /\ Set(p, t)
      /\ UNCHANGED <<cfg, row, harness, old, past>>
  BY DEF LineFails, Goto
<1>2. at[p].step \in Hunting /\ at[p].step # "wait"
  BY <1>1 DEF Hunting
<1>3. /\ at[p] \in Locals /\ at[p].job = "drive" /\ at[p].run \in Hunts
      /\ (cfg.suite => at[p].todo # <<>>) /\ ~Patching(p) /\ Due(p) = at[p].step
  BY <1>2, HuntingFacts
<1>4. Local(p) /\ Grown(p) /\ RestOK
  BY InvParts
<1>5. /\ t.job = "drive" /\ t.step = "fail" /\ t.line = at[p].line /\ t.run = at[p].run
      /\ t.seen = at[p].seen /\ t.raw = at[p].raw /\ t.put = at[p].put /\ t.then = at[p].then
      /\ t.todo = at[p].todo /\ t.kids = at[p].kids /\ t.tally = at[p].tally /\ t.top = at[p].top
  BY <1>3 DEF Locals
<1>6. t \in Locals
  BY <1>3, StepNames DEF Locals
<1> HIDE DEF t
<1>7. at'[p] = t /\ RestOK' /\ cfg' = cfg
  BY <1>1, <1>4, <1>6, InvParts, SetFacts DEF RestOK, Fault, Spend
<1>8. ~Patching(p)' /\ Due(p)' = "fail" /\ "fail" \notin Hunting /\ "fail" \notin SuiteSteps
  BY <1>5, <1>7 DEF Patching, Due, Hunting, SuiteSteps
<1>9. Local(p)'
  BY <1>3, <1>4, <1>5, <1>7, <1>8 DEF Local, Lined, Driven, OnHunt, Tasked, Returns, Listing,
     Placed, Suited, Heeds
<1>10. Grown(p)'
  BY <1>1, <1>3, <1>4, <1>5, <1>7, <1>8 DEF Grown, Jobbed, Born, ToDo, Birth, Listed,
     First, Members, AllBorn, Created
<1>11. RanLocal(p)' /\ VerdictLocal(p)'
  BY <1>5, <1>7, <1>8 DEF RanLocal, VerdictLocal, Summing
<1> QED
  BY <1>1, <1>2, <1>3, <1>5, <1>6, <1>7, <1>9, <1>10, <1>11, QuietInv DEF Good

-----------------------------------------------------------------------------
(* A hunt is scored and closed.                                            *)
LEMMA ScoreInv ==
  ASSUME Inv, NEW p \in Threads, Score(p) PROVE Inv'
<1> DEFINE w == IF harness[at[p].run].found THEN "passed" ELSE "failed"
           t == [at[p] EXCEPT !.step = "close", !.put = w]
<1>1. at[p].step = "score" /\ Set(p, t) /\ UNCHANGED <<cfg, row, harness, old, used, past>>
  BY DEF Score
<1>2. /\ at[p] \in Locals /\ Local(p) /\ Grown(p) /\ RanLocal(p) /\ RestOK
      /\ ~Patching(p) /\ Due(p) = "score"
  BY <1>1, InvParts, LocalTyped DEF Patching, Due
<1>3. w \in {"passed", "failed"}
  OBVIOUS
<1> HIDE DEF w
<1>4. /\ t.job = at[p].job /\ t.step = "close" /\ t.line = at[p].line /\ t.run = at[p].run
      /\ t.seen = at[p].seen /\ t.raw = at[p].raw /\ t.put = w /\ t.then = at[p].then
      /\ t.todo = at[p].todo /\ t.kids = at[p].kids /\ t.tally = at[p].tally /\ t.top = at[p].top
  BY <1>2 DEF Locals
<1>5. t \in Locals
  <2>1. w \in Puts /\ "close" \in Steps
    BY <1>3, StepNames DEF Puts, Terminal
  <2> QED
    BY <1>2, <2>1 DEF Locals
<1> HIDE DEF t
<1>6. at'[p] = t /\ RestOK' /\ cfg' = cfg
  BY <1>1, <1>2, <1>5, InvParts, SetFacts DEF RestOK
<1>7. /\ ~Patching(p)' /\ Due(p)' = "close" /\ "close" \notin Hunting /\ "close" \notin SuiteSteps
      /\ {"score", "close"} \subseteq HuntSteps
  BY <1>4, <1>6 DEF Patching, Due, Hunting, SuiteSteps, HuntSteps
<1>8. Local(p)'
  <2>1. Lined(p)' /\ Driven(p)' /\ OnHunt(p)' /\ Tasked(p)' /\ Suited(p)'
    BY <1>2, <1>4, <1>6, <1>7 DEF Local, Lined, Driven, OnHunt, Tasked, Suited
  <2>2. Returns(p)' /\ Listing(p)' /\ Placed(p)' /\ Heeds(p)'
    BY <1>2, <1>4, <1>6, <1>7 DEF Local, Returns, Listing, Placed, Heeds
  <2> QED
    BY <2>1, <2>2 DEF Local
<1>9. Grown(p)'
  BY <1>1, <1>2, <1>3, <1>4, <1>6, <1>7, IdleFacts DEF Grown, Jobbed, Born, ToDo, Birth, Listed,
     First, Members, AllBorn, Created
<1>10. RanLocal(p)' /\ VerdictLocal(p)'
  BY <1>1, <1>2, <1>4, <1>6, <1>7 DEF RanLocal, VerdictLocal, Summing, Ran
<1> QED
  BY <1>1, <1>4, <1>5, <1>6, <1>8, <1>9, <1>10, QuietInv DEF Good

(* A thread is about to write a status it may write.                       *)
LEMMA FinishFacts ==
  ASSUME NEW t \in Locals, NEW put \in Puts, NEW then \in Steps
  PROVE  LET f == Finish(t, put, then)
         IN  /\ f \in Locals /\ f.job = t.job /\ f.step = "finish" /\ f.line = t.line
             /\ f.run = t.run /\ f.seen = t.seen /\ f.raw = t.raw /\ f.put = put
             /\ f.then = then /\ f.todo = t.todo /\ f.kids = t.kids /\ f.tally = t.tally
             /\ f.top = t.top
<1>1. "finish" \in Steps
  BY StepNames
<1> QED
  BY <1>1 DEF Finish, Locals

LEMMA FinishGood ==
  ASSUME Inv, UNCHANGED <<cfg, row, past>>, NEW p \in Threads, NEW t \in Locals,
         NEW put \in Puts, NEW then \in Thens, then \notin Hunting, put \notin {"harness", "list"},
         t.job # "none", t.job # "start",
         (t.job = "drive" /\ t.run \in Hunts) => then = "done",
         (t.job = "drive" /\ cfg.suite /\ then = "done") => t.todo # <<>>,
         then = "done" => t.run \in Hunts,
         then \notin {"score", "spawn"},
         then = "loop" => t.job = "drive",
         then = "kid" => t.job = "stop" /\ t.top # Blank,
         then \in {"loop", "parent", "kid"} => cfg.suite,
         ~Ended(t.seen) \/ put = t.seen.status,
         ~Ended(t.top),
         t.job \in {"drive", "dying"} <=> p = Drive,
         Created(t.run) /\ Created(First),
         t.job \in {"drive", "stop"} => \A i \in DOMAIN t.todo : Created(t.todo[i]),
         t.top # Blank => cfg.suite /\ AllBorn,
         (cfg.suite /\ t.job = "drive") => AllBorn,
         (t.run \in Hunts /\ put \in Scores) => Ran(t.run),
         (~past.reopened /\ t.run = Suite /\ put \in Scores) => BackedBy(put),
         at'[p] = Finish(t, put, then)
  PROVE  Good(p)'
<1> DEFINE f == Finish(t, put, then)
<1>1. /\ f.job = t.job /\ f.step = "finish" /\ f.line = t.line
      /\ f.run = t.run /\ f.seen = t.seen /\ f.raw = t.raw /\ f.put = put
      /\ f.then = then /\ f.todo = t.todo /\ f.kids = t.kids /\ f.tally = t.tally
      /\ f.top = t.top
  BY DEF Finish, Locals
<1> HIDE DEF f
<1>2. at'[p] = f
  BY DEF f
<1>3. /\ Patching(p)' /\ Due(p)' = then /\ cfg' = cfg
      /\ then \in HuntSteps => then = "done"
      /\ then \in SuiteSteps => then \in {"loop", "parent", "kid"}
      /\ then \notin {"create", "spawn", "kill", "suiteFail", "close", "score"}
  BY <1>1, <1>2 DEF Patching, Due, Thens, HuntSteps, SuiteSteps, Hunting
<1>4. Local(p)'
  <2>1. Lined(p)' /\ Driven(p)' /\ OnHunt(p)' /\ Tasked(p)' /\ Suited(p)'
    BY <1>1, <1>2, <1>3 DEF Lined, Driven, OnHunt, Tasked, Suited
  <2>2. Returns(p)' /\ Listing(p)' /\ Placed(p)' /\ Heeds(p)'
    BY <1>1, <1>2, <1>3 DEF Returns, Listing, Placed, Heeds, HuntSteps, Ended
  <2> QED
    BY <2>1, <2>2 DEF Local
<1>5. Grown(p)'
  <2>1. First' = First /\ Members' = Members /\ (AllBorn => AllBorn')
    BY DEF First, Members, AllBorn, Created
  <2>2. Jobbed(p)' /\ Birth(p)' /\ Listed(p)'
    BY <1>1, <1>2, <1>3, <2>1 DEF Jobbed, Birth, Listed
  <2>3. Born(p)' /\ ToDo(p)'
    BY <1>1, <1>2, <2>1 DEF Born, ToDo, Created
  <2> QED
    BY <2>2, <2>3 DEF Grown
<1>6. RanLocal(p)'
  BY <1>1, <1>2, <1>3 DEF RanLocal, Ran
<1>7. ~past'.reopened => VerdictLocal(p)'
  BY <1>1, <1>2, <1>3 DEF VerdictLocal, Summing, BackedBy, Members
<1> QED
  BY <1>4, <1>5, <1>6, <1>7 DEF Good

LEMMA CloseHuntInv ==
  ASSUME Inv, NEW p \in Threads, CloseHunt(p) PROVE Inv'
<1> DEFINE u == [at[p] EXCEPT !.seen = row[at[p].run]]
<1>1. /\ at[p].step = "close"
      /\ Set(p, IF Ended(u.seen) THEN Done(u) ELSE Finish(u, u.put, "done"))
      /\ UNCHANGED <<cfg, row, harness, old, used, past>>
  BY DEF CloseHunt
<1>2. /\ at[p] \in Locals /\ Local(p) /\ Grown(p) /\ RanLocal(p) /\ RestOK /\ RowOK
      /\ ~Patching(p) /\ Due(p) = "close" /\ at[p].job # "none"
  BY <1>1, InvParts, LocalTyped, IdleFacts DEF Patching, Due, Grown, Jobbed
<1>3. /\ at[p].run \in Hunts /\ row[at[p].run] \in Rows
      /\ (at[p].job = "drive" /\ cfg.suite) => at[p].todo # <<>>
  BY <1>2 DEF Local, OnHunt, Tasked, HuntSteps, RowOK, Runs
<1>4. /\ u \in Locals /\ u.job = at[p].job /\ u.run = at[p].run /\ u.todo = at[p].todo
      /\ u.seen = row[at[p].run] /\ u.put = at[p].put /\ u.top = at[p].top
  BY <1>2, <1>3 DEF Locals
<1> HIDE DEF u
<1>5. Onward /\ RestOK'
  BY <1>1, <1>2, UnchangedOnward DEF RestOK
<1>6. at'[p] = (IF Ended(u.seen) THEN Done(u) ELSE Finish(u, u.put, "done"))
  BY <1>1, InvParts DEF Set, AtOK
<1>7. CASE Ended(u.seen)
  <2>1. Done(u) \in Locals /\ Good(p)' /\ Done(u).job \in {"none", at[p].job}
    BY <1>3, <1>4, <1>5, <1>6, <1>7, DoneGood
  <2> QED
    BY <1>1, <1>5, <1>7, <2>1, QuietInv
<1>8. CASE ~Ended(u.seen)
  <2>1. u.put \in Puts /\ "done" \in Steps /\ "done" \in Thens
    BY <1>4, StepNames DEF Locals, Thens
  <2>2. Finish(u, u.put, "done") \in Locals /\ Finish(u, u.put, "done").job = at[p].job
    BY <1>4, <2>1, FinishFacts
  <2>3. /\ at[p].job # "start" /\ at[p].put \notin {"harness", "list"}
        /\ at[p].job \in {"drive", "dying"} <=> p = Drive
    BY <1>1, <1>2, <1>3 DEF Grown, Jobbed, Listed
  <2>4. /\ Created(at[p].run) /\ Created(First)
        /\ at[p].job \in {"drive", "stop"} =>
             \A i \in DOMAIN at[p].todo : Created(at[p].todo[i])
        /\ at[p].top # Blank => cfg.suite /\ AllBorn
        /\ (cfg.suite /\ at[p].job = "drive") => AllBorn
    BY <1>2 DEF Grown, Born, ToDo, Listed
  <2>5. Ran(at[p].run) /\ ~Ended(at[p].top) /\ at[p].run # Suite
    BY <1>2, <1>3, NamesAssumption DEF RanLocal, Local, Heeds
  <2>6. Good(p)'
    BY <1>1, <1>2, <1>3, <1>4, <1>6, <1>8, <2>1, <2>3, <2>4, <2>5, FinishGood DEF Hunting
  <2> QED
    BY <1>1, <1>5, <1>8, <2>2, <2>6, QuietInv
<1> QED
  BY <1>7, <1>8

LEMMA FailInv ==
  ASSUME Inv, NEW p \in Threads, Fail(p) PROVE Inv'
<1> DEFINE r == IF at[p].step = "fail" THEN at[p].run ELSE Suite
           u == [at[p] EXCEPT !.run = r, !.seen = row[r]]
           d == [u EXCEPT !.job = "dying"]
<1>1. /\ at[p].step \in {"fail", "suiteFail"}
      /\ Set(p, IF at[p].step = "fail"
                THEN IF Ended(u.seen) THEN Done(u) ELSE Finish(u, "error", "done")
                ELSE IF Ended(u.seen) THEN Idle ELSE Finish(d, "error", "idle"))
      /\ UNCHANGED <<cfg, row, harness, old, used, past>>
  BY DEF Fail
<1>2. /\ at[p] \in Locals /\ Local(p) /\ Grown(p) /\ RestOK /\ RowOK
      /\ ~Patching(p) /\ Due(p) = at[p].step /\ at[p].job # "none" /\ at[p].step # "wait"
  BY <1>1, InvParts, LocalTyped, IdleFacts DEF Patching, Due, Grown, Jobbed
<1>3. r \in Runs /\ row[r] \in Rows
  BY <1>2 DEF RowOK, Runs, Locals
<1>4. /\ u \in Locals /\ u.job = at[p].job /\ u.run = r /\ u.todo = at[p].todo
      /\ u.seen = row[r] /\ u.top = at[p].top
  BY <1>2, <1>3 DEF Locals
<1>5. /\ d \in Locals /\ d.job = "dying" /\ d.run = r /\ d.seen = row[r] /\ d.top = at[p].top
  <2>1. "dying" \in Jobs
    BY DEF Jobs
  <2> QED
    BY <1>4, <2>1 DEF Locals
<1> HIDE DEF u, d
<1>6. /\ Onward /\ RestOK'
      /\ "error" \in Puts /\ {"done", "idle"} \subseteq Steps /\ {"done", "idle"} \subseteq Thens
      /\ "error" \notin Scores /\ "done" \notin Hunting /\ "idle" \notin Hunting
  BY <1>1, <1>2, UnchangedOnward, StepNames
     DEF RestOK, Puts, Terminal, Thens, Scores, Hunting
<1>7. /\ at[p].top # Blank => cfg.suite /\ AllBorn
      /\ ~Ended(at[p].top) /\ Created(First) /\ Created(at[p].run)
      /\ at[p].job \in {"drive", "stop"} =>
           \A i \in DOMAIN at[p].todo : Created(at[p].todo[i])
      /\ (cfg.suite /\ at[p].job = "drive") => AllBorn
      /\ at[p].job \in {"drive", "dying"} <=> p = Drive
  BY <1>2 DEF Grown, Jobbed, Born, ToDo, Listed, Local, Heeds
<1>8. CASE at[p].step = "fail"
  <2>1. /\ at[p].run \in Hunts /\ r = at[p].run /\ r # Suite
        /\ (at[p].job = "drive" /\ cfg.suite) => at[p].todo # <<>>
        /\ at[p].job # "start"
    BY <1>2, <1>8, NamesAssumption DEF Local, OnHunt, Tasked, HuntSteps, Grown, Jobbed
  <2>2. CASE Ended(u.seen)
    <3>1. at'[p] = Done(u) /\ Set(p, Done(u))
      BY <1>1, <1>8, <2>2, InvParts DEF Set, AtOK
    <3>2. Done(u) \in Locals /\ Good(p)' /\ Done(u).job \in {"none", at[p].job}
      BY <1>4, <1>6, <2>1, <3>1, DoneGood
    <3> QED
      BY <1>1, <1>2, <1>6, <3>1, <3>2, QuietInv
  <2>3. CASE ~Ended(u.seen)
    <3>1. at'[p] = Finish(u, "error", "done") /\ Set(p, Finish(u, "error", "done"))
      BY <1>1, <1>8, <2>3, InvParts DEF Set, AtOK
    <3>2. /\ Finish(u, "error", "done") \in Locals
          /\ Finish(u, "error", "done").job = at[p].job
      BY <1>4, <1>6, FinishFacts
    <3>3. Good(p)'
      BY <1>1, <1>2, <1>4, <1>6, <1>7, <2>1, <2>3, <3>1, FinishGood
    <3> QED
      BY <1>1, <1>2, <1>6, <3>1, <3>2, <3>3, QuietInv
  <2> QED
    BY <2>2, <2>3
<1>9. CASE at[p].step = "suiteFail"
  <2>1. cfg.suite /\ at[p].job = "drive" /\ r = Suite /\ First = Suite /\ Suite \notin Hunts
    BY <1>2, <1>9, NamesAssumption DEF Local, Suited, Driven, SuiteSteps, First
  <2>2. CASE Ended(u.seen)
    <3>1. at'[p] = Idle /\ Set(p, Idle)
      BY <1>1, <1>9, <2>2, InvParts DEF Set, AtOK
    <3> QED
      BY <1>1, <1>2, <1>6, <3>1, IdleGood, IdleFacts, QuietInv
  <2>3. CASE ~Ended(u.seen)
    <3>1. at'[p] = Finish(d, "error", "idle") /\ Set(p, Finish(d, "error", "idle"))
      BY <1>1, <1>9, <2>3, InvParts DEF Set, AtOK
    <3>2. /\ Finish(d, "error", "idle") \in Locals
          /\ Finish(d, "error", "idle").job = "dying"
      BY <1>5, <1>6, FinishFacts
    <3>3. Good(p)'
      BY <1>1, <1>2, <1>4, <1>5, <1>6, <1>7, <2>1, <2>3, <3>1, FinishGood
    <3> QED
      BY <1>1, <1>2, <1>6, <3>1, <3>2, <3>3, QuietInv
  <2> QED
    BY <2>2, <2>3
<1> QED
  BY <1>1, <1>8, <1>9

-----------------------------------------------------------------------------
(* The members of a suite are driven and summed up.                        *)
LEMMA LoopInv ==
  ASSUME Inv, NEW p \in Threads, Loop(p) PROVE Inv'
<1>1. at[p].step = "loop" /\ UNCHANGED <<cfg, row, harness, old, used, past>>
  BY DEF Loop
<1>2. /\ at[p] \in Locals /\ Local(p) /\ Grown(p) /\ RestOK
      /\ ~Patching(p) /\ Due(p) = "loop" /\ at[p].job # "none" /\ at[p].step # "wait"
  BY <1>1, InvParts, LocalTyped, IdleFacts DEF Patching, Due, Grown, Jobbed
<1>3. cfg.suite /\ at[p].job = "drive" /\ at[p].todo \in Seq(Hunts)
  BY <1>2 DEF Local, Suited, Driven, SuiteSteps, Locals
<1>4. PICK t : /\ Set(p, t)
               /\ \/ t = [at[p] EXCEPT !.step = "parent", !.then = "idle"]
                  \/ /\ at[p].todo # <<>>
                     /\ t = [at[p] EXCEPT !.step = Script[1], !.line = 1, !.run = Head(at[p].todo)]
  BY <1>1 DEF Loop
<1>5. RestOK' /\ cfg' = cfg
  BY <1>1, <1>2 DEF RestOK
<1>6. CASE t = [at[p] EXCEPT !.step = "parent", !.then = "idle"]
  <2>1. /\ t.job = "drive" /\ t.step = "parent" /\ t.line = at[p].line /\ t.run = at[p].run
        /\ t.seen = at[p].seen /\ t.raw = at[p].raw /\ t.put = at[p].put /\ t.then = "idle"
        /\ t.todo = at[p].todo /\ t.kids = at[p].kids /\ t.tally = at[p].tally
        /\ t.top = at[p].top
    BY <1>2, <1>3, <1>6 DEF Locals
  <2>2. t \in Locals
    <3>1. "parent" \in Steps /\ "idle" \in Steps
      BY StepNames
    <3> QED
      BY <1>2, <1>6, <3>1 DEF Locals
  <2>3. at'[p] = t
    BY <1>4, <2>2, InvParts, SetFacts
  <2>4. /\ ~Patching(p)' /\ Due(p)' = "parent" /\ "parent" \notin HuntSteps
        /\ "parent" \notin Hunting
    BY <2>1, <2>3 DEF Patching, Due, HuntSteps, Hunting
  <2>5. Local(p)'
    BY <1>2, <1>3, <1>5, <2>1, <2>3, <2>4 DEF Local, Lined, Driven, OnHunt, Tasked, Returns,
       Listing, Placed, Suited, Heeds, Thens
  <2>6. Grown(p)'
    BY <1>1, <1>2, <1>3, <1>5, <2>1, <2>3, <2>4 DEF Grown, Jobbed, Born, ToDo, Birth, Listed, First,
       Members, AllBorn, Created
  <2>7. RanLocal(p)' /\ VerdictLocal(p)'
    BY <2>1, <2>3, <2>4 DEF RanLocal, VerdictLocal, Summing
  <2> QED
    BY <1>1, <1>2, <1>3, <1>4, <1>5, <2>1, <2>2, <2>5, <2>6, <2>7, QuietInv DEF Good
<1>7. CASE /\ at[p].todo # <<>>
           /\ t = [at[p] EXCEPT !.step = Script[1], !.line = 1, !.run = Head(at[p].todo)]
  <2>1. Head(at[p].todo) \in Hunts /\ at[p].todo[1] = Head(at[p].todo) /\ 1 \in DOMAIN at[p].todo
    BY <1>3, <1>7, SeqFacts
  <2>2. /\ Script[1] = "open" /\ "open" \in Steps /\ 1 \in 0..Len(Script) /\ 1 \in 1..19
        /\ Head(at[p].todo) \in Runs
    BY <2>1, ScriptFacts, StepNames DEF Runs
  <2>3. /\ t.job = "drive" /\ t.step = "open" /\ t.line = 1 /\ t.run = Head(at[p].todo)
        /\ t.seen = at[p].seen /\ t.raw = at[p].raw /\ t.put = at[p].put /\ t.then = at[p].then
        /\ t.todo = at[p].todo /\ t.kids = at[p].kids /\ t.tally = at[p].tally
        /\ t.top = at[p].top
    BY <1>2, <1>3, <1>7, <2>2 DEF Locals
  <2>4. t \in Locals
    BY <1>2, <1>7, <2>2 DEF Locals
  <2>5. at'[p] = t
    BY <1>4, <2>4, InvParts, SetFacts
  <2>6. ~Patching(p)' /\ Due(p)' = "open" /\ "open" \in Hunting /\ "open" \notin SuiteSteps
    BY <2>3, <2>5 DEF Patching, Due, SuiteSteps, Hunting
  <2>7. Local(p)'
    BY <1>2, <1>3, <1>5, <1>7, <2>1, <2>2, <2>3, <2>5, <2>6 DEF Local, Lined, Driven, OnHunt,
       Tasked, Returns, Listing, Placed, Suited, Heeds
  <2>8. Created(Head(at[p].todo))
    BY <1>2, <1>3, <2>1 DEF Grown, ToDo
  <2>9. Grown(p)'
    BY <1>1, <1>2, <1>3, <1>5, <2>3, <2>5, <2>6, <2>8 DEF Grown, Jobbed, Born, ToDo, Birth, Listed,
       First, Members, AllBorn, Created
  <2>10. RanLocal(p)' /\ VerdictLocal(p)'
    BY <2>3, <2>5, <2>6 DEF RanLocal, VerdictLocal, Summing
  <2> QED
    BY <1>1, <1>2, <1>3, <1>4, <1>5, <2>3, <2>4, <2>7, <2>9, <2>10, QuietInv DEF Good
<1> QED
  BY <1>4, <1>6, <1>7

LEMMA ParentInv ==
  ASSUME Inv, NEW p \in Threads, Parent(p) PROVE Inv'
<1> DEFINE t == [at[p] EXCEPT !.step = "kids", !.run = Suite, !.seen = row[Suite], !.kids = Members]
<1>1. at[p].step = "parent" /\ Set(p, t) /\ UNCHANGED <<cfg, row, harness, old, used, past>>
  BY DEF Parent
<1>2. /\ at[p] \in Locals /\ Local(p) /\ Grown(p) /\ RestOK /\ RowOK /\ RunsGood
      /\ ~Patching(p) /\ Due(p) = "parent" /\ at[p].job # "none" /\ at[p].step # "wait"
  BY <1>1, InvParts, LocalTyped, IdleFacts DEF Patching, Due, Grown, Jobbed
<1>3. /\ cfg.suite /\ Members \in Seq(Hunts) /\ Members # <<>> /\ First = Suite /\ Suite \in Runs
      /\ Suite \notin Hunts /\ row[Suite] \in Rows /\ Len(Members) \in Nat
  BY <1>2, MembersTyped, NamesAssumption DEF Local, Suited, SuiteSteps, First, Runs, RowOK
<1>4. /\ t.job = at[p].job /\ t.step = "kids" /\ t.line = at[p].line /\ t.run = Suite
      /\ t.seen = row[Suite] /\ t.raw = at[p].raw /\ t.put = at[p].put /\ t.then = at[p].then
      /\ t.todo = at[p].todo /\ t.kids = Members /\ t.tally = at[p].tally
      /\ t.top = at[p].top
  BY <1>2 DEF Locals
<1>5. t \in Locals
  <2>1. "kids" \in Steps
    BY StepNames
  <2> QED
    BY <1>2, <1>3, <2>1 DEF Locals
<1> HIDE DEF t
<1>6. at'[p] = t /\ RestOK' /\ cfg' = cfg
  BY <1>1, <1>2, <1>5, InvParts, SetFacts DEF RestOK
<1>7. ~Patching(p)' /\ Due(p)' = "kids" /\ "kids" \notin Hunting /\ "kids" \notin HuntSteps
  BY <1>4, <1>6 DEF Patching, Due, Hunting, HuntSteps
<1>8. Local(p)'
  BY <1>1, <1>2, <1>3, <1>4, <1>6, <1>7 DEF Local, Lined, Driven, OnHunt, Tasked, Returns, Listing,
     Placed, Suited, Heeds
<1>9. Grown(p)'
  <2>1. First' = First /\ Members' = Members /\ AllBorn' = AllBorn
    BY <1>1 DEF First, Members, AllBorn, Created
  <2>2. Jobbed(p)' /\ Birth(p)' /\ Listed(p)'
    <3>1. at[p].job # "start"
      BY <1>2 DEF Grown, Jobbed
    <3> QED
      BY <1>2, <1>4, <1>6, <1>7, <2>1, <3>1 DEF Grown, Jobbed, Birth, Listed
  <2>3. Born(p)' /\ ToDo(p)'
    BY <1>1, <1>2, <1>3, <1>4, <1>6, <2>1 DEF Grown, Born, ToDo, Created
  <2> QED
    BY <2>2, <2>3 DEF Grown
<1>10. RanLocal(p)'
  BY <1>4, <1>6, <1>7 DEF RanLocal
<1>11. ~past'.reopened => VerdictLocal(p)'
  <2>1. Members' = Members /\ past' = past /\ row' = row
    BY <1>1 DEF Members
  <2>2. Looked(p)' = 0
    BY <1>3, <1>4, <1>6, <2>1 DEF Looked
  <2>3. \A j \in 1..0 : FALSE
    OBVIOUS
  <2>4. ~past.reopened => (row[Suite].status \in Scores => BackedBy(row[Suite].status)')
    BY <1>2, <2>1 DEF RunsGood, BackedBy
  <2>5. ~past.reopened => Summing(p)'
    BY <1>3, <1>4, <1>6, <2>1, <2>2, <2>3, <2>4 DEF Summing
  <2> QED
    BY <1>4, <1>6, <1>7, <2>1, <2>5 DEF VerdictLocal
<1> QED
  BY <1>1, <1>2, <1>4, <1>5, <1>6, <1>8, <1>9, <1>10, <1>11, QuietInv DEF Good

LEMMA VerdictFacts ==
  ASSUME NEW parent \in Rows, NEW tally \in SUBSET Statuses
  PROVE  LET v == Verdict(parent, tally)
         IN  /\ v \in Terminal \union {"running"}
             /\ Ended(parent) => v = parent.status
             /\ (~Ended(parent) /\ v \in Scores) => tally \subseteq Terminal
             /\ (~Ended(parent) /\ v = "passed") => tally = {"passed"}
<1>1. CASE Ended(parent)
  <2>1. Verdict(parent, tally) = parent.status
    BY <1>1 DEF Verdict
  <2> QED
    BY <1>1, <2>1 DEF Ended
<1>2. CASE ~Ended(parent) /\ ~(tally \subseteq Terminal)
  <2>1. tally # {"passed"} /\ tally # {"error"}
    BY <1>2 DEF Terminal
  <2>2. Verdict(parent, tally) = "running"
    BY <1>2, <2>1 DEF Verdict
  <2> QED
    BY <1>2, <2>2 DEF Scores
<1>3. CASE ~Ended(parent) /\ tally \subseteq Terminal
  <2>1. Verdict(parent, tally) = (CASE tally = {"passed"} -> "passed"
                                    [] tally = {"error"}  -> "error"
                                    [] OTHER              -> "failed")
    BY <1>3 DEF Verdict
  <2> QED
    BY <1>3, <2>1 DEF Terminal
<1> QED
  BY <1>1, <1>2, <1>3

LEMMA NextKidInv ==
  ASSUME Inv, NEW p \in Threads, NextKid(p) PROVE Inv'
<1> DEFINE t     == at[p]
           k     == Head(t.kids)
           tally == t.tally \union {row[k].status}
           next  == [t EXCEPT !.kids = Tail(t.kids)]
           more  == [next EXCEPT !.tally = tally]
           last  == [next EXCEPT !.tally = {}]
           v     == Verdict(next.seen, tally)
<1>1. /\ t.step = "kids" /\ UNCHANGED <<cfg, row, harness, old, used, past>>
      /\ Set(p, IF next.kids # <<>> THEN more ELSE Finish(last, Verdict(t.seen, tally), t.then))
  BY DEF NextKid
<1>2. /\ t \in Locals /\ Local(p) /\ Grown(p) /\ RestOK /\ RowOK /\ RunsGood
      /\ ~Patching(p) /\ Due(p) = "kids" /\ t.job # "none" /\ t.step # "wait"
      /\ ~past.reopened => Summing(p)
  BY <1>1, InvParts, LocalTyped, IdleFacts
     DEF Patching, Due, Grown, Jobbed, Good, VerdictLocal
<1>3. /\ cfg.suite /\ t.kids \in Seq(Hunts) /\ t.kids # <<>> /\ t.run = Suite /\ First = Suite
      /\ Suite \notin Hunts
  BY <1>1, <1>2, NamesAssumption
     DEF Local, Suited, SuiteSteps, Listing, Locals, First
<1>4. /\ k \in Hunts /\ k = t.kids[1] /\ Tail(t.kids) \in Seq(Hunts)
      /\ Len(t.kids) \in Nat \ {0} /\ Len(Tail(t.kids)) = Len(t.kids) - 1
      /\ \A i \in DOMAIN Tail(t.kids) : i + 1 \in DOMAIN t.kids /\ Tail(t.kids)[i] = t.kids[i + 1]
  BY <1>3, SeqFacts
<1>5. tally \in SUBSET Statuses /\ row[k].status \in tally /\ t.tally \subseteq tally
  <2>1. row[k].status \in Statuses
    BY <1>2, <1>4 DEF RowOK, Runs, Rows
  <2> QED
    BY <1>2, <2>1 DEF Locals
<1> HIDE DEF k, tally
<1>6. /\ next \in Locals /\ next.kids = Tail(t.kids) /\ next.job = t.job /\ next.step = t.step
      /\ next.line = t.line /\ next.run = t.run /\ next.seen = t.seen /\ next.raw = t.raw
      /\ next.put = t.put /\ next.then = t.then /\ next.todo = t.todo /\ next.top = t.top
  BY <1>2, <1>4 DEF Locals
<1> HIDE DEF next
<1>7. /\ RestOK' /\ cfg' = cfg
      /\ at'[p] = (IF next.kids # <<>> THEN more ELSE Finish(last, Verdict(t.seen, tally), t.then))
  BY <1>1, <1>2, InvParts DEF RestOK, Set, AtOK
<1>8. /\ Members \in Seq(Hunts) /\ Members' = Members /\ Len(Members) \in Nat
      /\ \A i \in DOMAIN Members : i \in 1..Len(Members)
  BY <1>1, <1>2, MembersTyped DEF Members
<1>9. CASE next.kids # <<>>
  <2>1. /\ more \in Locals /\ more.kids = Tail(t.kids) /\ more.job = t.job /\ more.step = t.step
        /\ more.line = t.line /\ more.run = t.run /\ more.seen = t.seen /\ more.raw = t.raw
        /\ more.put = t.put /\ more.then = t.then /\ more.todo = t.todo /\ more.top = t.top
        /\ more.tally = tally
    BY <1>5, <1>6 DEF Locals
  <2> HIDE DEF more
  <2>2. at'[p] = more /\ Set(p, more)
    BY <1>1, <1>7, <1>9
  <2>3. ~Patching(p)' /\ Due(p)' = "kids" /\ "kids" \notin Hunting /\ "kids" \notin HuntSteps
    BY <1>1, <2>1, <2>2 DEF Patching, Due, Hunting, HuntSteps
  <2>4. Local(p)'
    BY <1>1, <1>2, <1>3, <1>6, <1>7, <1>9, <2>1, <2>2, <2>3 DEF Local, Lined, Driven, OnHunt,
       Tasked, Returns, Listing, Placed, Suited, Heeds
  <2>5. Grown(p)'
    <3>1. First' = First /\ Members' = Members /\ AllBorn' = AllBorn
      BY <1>1 DEF First, Members, AllBorn, Created
    <3>2. Jobbed(p)' /\ Birth(p)' /\ Listed(p)'
      BY <1>1, <1>2, <1>7, <2>1, <2>2, <2>3, <3>1 DEF Grown, Jobbed, Birth, Listed
    <3>3. Born(p)' /\ ToDo(p)'
      BY <1>1, <1>2, <2>1, <2>2, <3>1 DEF Grown, Born, ToDo, Created
    <3> QED
      BY <3>2, <3>3 DEF Grown
  <2>6. ASSUME ~past.reopened PROVE Summing(p)'
    <3>1. Summing(p)
      BY <1>2, <2>6
    <3>2. /\ t.seen.status \in Scores => BackedBy(t.seen.status)
          /\ Len(t.kids) <= Len(Members)
          /\ \A i \in 1..Len(t.kids) : t.kids[i] = Members[Looked(p) + i]
          /\ \A j \in 1..Looked(p) : \E s \in t.tally : s \in Terminal => row[Members[j]].status = s
      BY <1>1, <3>1 DEF Summing
    <3>3. Looked(p)' = Looked(p) + 1 /\ Looked(p) \in Nat
      <4>1. Looked(p) = Len(Members) - Len(t.kids)
        BY DEF Looked
      <4>2. Looked(p)' = Len(Members) - (Len(t.kids) - 1)
        BY <1>4, <1>8, <2>1, <2>2 DEF Looked
      <4>3. Len(t.kids) \in Nat /\ Len(Members) \in Nat /\ Len(t.kids) <= Len(Members)
        BY <1>4, <1>8, <3>2
      <4> QED
        BY <4>1, <4>2, <4>3
    <3>4. \A i \in 1..Len(Tail(t.kids)) : Tail(t.kids)[i] = Members[(Looked(p) + 1) + i]
      <4> SUFFICES ASSUME NEW i \in 1..Len(Tail(t.kids))
                   PROVE  Tail(t.kids)[i] = Members[(Looked(p) + 1) + i]
        OBVIOUS
      <4>1. Tail(t.kids)[i] = t.kids[i + 1] /\ i + 1 \in 1..Len(t.kids)
        BY <1>3, <1>4
      <4>2. Looked(p) + (i + 1) = (Looked(p) + 1) + i
        BY <3>3
      <4> QED
        BY <3>2, <4>1, <4>2
    <3>5. \A j \in 1..(Looked(p) + 1) :
            \E s \in tally : s \in Terminal => row[Members[j]].status = s
      <4> SUFFICES ASSUME NEW j \in 1..(Looked(p) + 1)
                   PROVE  \E s \in tally : s \in Terminal => row[Members[j]].status = s
        OBVIOUS
      <4>1. CASE j \in 1..Looked(p)
        BY <1>5, <3>2, <4>1
      <4>2. CASE j = Looked(p) + 1
        <5>1. 1 \in 1..Len(t.kids)
          BY <1>4
        <5>2. Members[j] = k
          BY <1>4, <3>2, <4>2, <5>1
        <5> QED
          BY <1>5, <5>2
      <4> QED
        BY <3>3, <4>1, <4>2
    <3>6. t.seen.status \in Scores => BackedBy(at[p].seen.status)'
      <4>1. at'[p].seen.status = t.seen.status
        BY <2>1, <2>2
      <4> QED
        BY <1>1, <1>8, <3>2, <4>1 DEF BackedBy
    <3> QED
      <4>1. at'[p].kids = Tail(t.kids) /\ at'[p].tally = tally
            /\ at'[p].seen.status = t.seen.status /\ row' = row
        BY <1>1, <2>1, <2>2
      <4>2. Len(Tail(t.kids)) <= Len(Members)
        BY <1>4, <1>8, <3>2
      <4> QED
        BY <1>8, <3>3, <3>4, <3>5, <3>6, <4>1, <4>2 DEF Summing
  <2>7. RanLocal(p)' /\ (~past'.reopened => VerdictLocal(p)')
    BY <1>1, <2>1, <2>2, <2>3, <2>6 DEF RanLocal, VerdictLocal
  <2> QED
    BY <1>1, <1>2, <1>7, <2>1, <2>2, <2>4, <2>5, <2>7, QuietInv DEF Good
<1>10. CASE next.kids = <<>>
  <2>1. /\ last \in Locals /\ last.job = t.job /\ last.run = Suite /\ last.seen = t.seen
        /\ last.todo = t.todo /\ last.top = t.top
    BY <1>3, <1>6 DEF Locals
  <2> HIDE DEF last
  <2>2. at'[p] = Finish(last, v, t.then) /\ Set(p, Finish(last, v, t.then))
    BY <1>1, <1>6, <1>7, <1>10
  <2>3. /\ v \in Terminal \union {"running"}
        /\ Ended(t.seen) => v = t.seen.status
        /\ (~Ended(t.seen) /\ v \in Scores) => tally \subseteq Terminal
        /\ (~Ended(t.seen) /\ v = "passed") => tally = {"passed"}
    <3>1. t.seen \in Rows
      BY <1>2 DEF Locals
    <3> QED
      BY <1>5, <1>6, <3>1, VerdictFacts
  <2> HIDE DEF v
  <2>4. /\ v \in Puts /\ v \notin {"harness", "list"}
        /\ t.then \in {"idle", "loop"} /\ t.then \in Steps /\ t.then \in Thens
        /\ t.then \notin Hunting /\ (t.then = "loop" => t.job = "drive")
    BY <1>1, <1>2, <2>3 DEF Puts, Terminal, Local, Driven, Thens, Hunting, Locals
  <2>5. /\ t.top # Blank => cfg.suite /\ AllBorn
        /\ ~Ended(t.top) /\ Created(First) /\ Created(t.run)
        /\ t.job \in {"drive", "stop"} => \A i \in DOMAIN t.todo : Created(t.todo[i])
        /\ (cfg.suite /\ t.job = "drive") => AllBorn
        /\ t.job \in {"drive", "dying"} <=> p = Drive
        /\ t.job # "start"
    BY <1>2 DEF Grown, Jobbed, Born, ToDo, Listed, Local, Heeds
  <2>6. (~past.reopened /\ v \in Scores) => BackedBy(v)
    <3> SUFFICES ASSUME ~past.reopened, v \in Scores PROVE BackedBy(v)
      OBVIOUS
    <3>1. Summing(p)
      BY <1>2
    <3>2. /\ t.seen.status \in Scores => BackedBy(t.seen.status)
          /\ Len(t.kids) <= Len(Members)
          /\ \A i \in 1..Len(t.kids) : t.kids[i] = Members[Looked(p) + i]
          /\ \A j \in 1..Looked(p) : \E s \in t.tally : s \in Terminal => row[Members[j]].status = s
      BY <1>1, <3>1 DEF Summing
    <3>3. CASE Ended(t.seen)
      BY <2>3, <3>2, <3>3
    <3>4. CASE ~Ended(t.seen)
      <4>1. Len(t.kids) = 1 /\ Looked(p) + 1 = Len(Members) /\ Looked(p) \in Nat
        <5>1. Len(t.kids) = 1
          BY <1>3, <1>6, <1>10, SeqFacts
        <5> QED
          BY <1>8, <3>2, <5>1 DEF Looked
      <4>2. \A j \in 1..Len(Members) : row[Members[j]].status \in tally
        <5> SUFFICES ASSUME NEW j \in 1..Len(Members) PROVE row[Members[j]].status \in tally
          OBVIOUS
        <5>1. CASE j \in 1..Looked(p)
          BY <1>5, <2>3, <3>2, <3>4, <5>1
        <5>2. CASE j = Looked(p) + 1
          BY <1>4, <1>5, <3>2, <4>1, <5>2
        <5> QED
          BY <4>1, <5>1, <5>2
      <4>3. tally \subseteq Terminal /\ (v = "passed" => tally = {"passed"})
        BY <2>3, <3>4
      <4> QED
        BY <1>8, <4>2, <4>3 DEF BackedBy, Ended
    <3> QED
      BY <3>3, <3>4
  <2>7. Finish(last, v, t.then) \in Locals /\ Finish(last, v, t.then).job = t.job
    BY <2>1, <2>4, FinishFacts
  <2>8. Good(p)'
    <3>1. ~Ended(t.seen) \/ v = t.seen.status
      BY <2>3
    <3>2. t.then \notin {"done", "score", "spawn", "kid", "parent"}
      BY <2>4
    <3> QED
      BY <1>1, <1>2, <1>3, <2>1, <2>2, <2>4, <2>5, <2>6, <3>1, <3>2, FinishGood
  <2> QED
    BY <1>1, <1>2, <1>7, <2>2, <2>7, <2>8, QuietInv
<1> QED
  BY <1>9, <1>10

-----------------------------------------------------------------------------
(* A page asks.                                                            *)
LEMMA LookFacts ==
  ASSUME Inv, NEW p \in Requests, NEW r \in Runs, row[r].status \in {"queued", "running"}
  PROVE  /\ p \in Threads /\ p # Drive /\ row[r] \in Rows /\ ~Ended(row[r])
         /\ Created(r) /\ Created(First)
         /\ row[r].harness => r \in Hunts
         /\ row[r].listed => cfg.suite /\ r = Suite /\ AllBorn
         /\ row[r] # Blank
<1>1. RowOK /\ RunsGood
  BY InvParts
<1>2. Created(r) /\ ~Ended(row[r]) /\ row[r] # Blank
  BY DEF Created, Ended, Terminal, Blank
<1> QED
  BY <1>1, <1>2, NamesAssumption DEF RowOK, RunsGood, Started, RowList, Runs, Threads

(* A request begins with a look at the harness, at the members, or at the  *)
(* process it is to stop.                                                  *)
LEMMA BeginGood ==
  ASSUME Inv, UNCHANGED <<cfg, row, past>>, NEW p \in Requests, NEW t \in Locals,
         at'[p] = t, NEW r \in Runs, row[r].status \in {"queued", "running"},
         t.job \in {"poll", "stop"}, t.run = r, t.seen = row[r], t.raw = Blank, t.put = "keep",
         t.then = "idle", t.kids = <<>>, t.tally = {},
         t.step \in {"alive", "parent", "kid", "kill"},
         t.step = "alive" => r \in Hunts,
         t.step \in {"kid", "kill"} => t.job = "stop",
         t.step \in {"parent", "kid"} => cfg.suite,
         t.step = "kid" => t.top # Blank,
         t.top # Blank => cfg.suite /\ AllBorn,
         ~Ended(t.top),
         \A i \in DOMAIN t.todo : Created(t.todo[i])
  PROVE  Good(p)'
<1>1. /\ p \in Threads /\ p # Drive /\ row[r] \in Rows /\ ~Ended(row[r])
      /\ Created(r) /\ Created(First)
  BY LookFacts
<1>2. /\ ~Patching(p)' /\ Due(p)' = t.step /\ cfg' = cfg /\ t.step \notin Hunting
      /\ "idle" \in Thens
  BY DEF Patching, Due, Hunting, Thens
<1>3. Local(p)'
  BY <1>1, <1>2 DEF Local, Lined, Driven, OnHunt, Tasked, Returns, Listing, Placed, Suited, Heeds,
     HuntSteps, SuiteSteps
<1>4. Grown(p)'
  <2>1. First' = First /\ Members' = Members /\ AllBorn' = AllBorn
    BY DEF First, Members, AllBorn, Created
  <2>2. Jobbed(p)' /\ Birth(p)' /\ Listed(p)'
    BY <1>1, <1>2, <2>1 DEF Jobbed, Birth, Listed
  <2>3. Born(p)' /\ ToDo(p)'
    BY <1>1, <1>2, <2>1 DEF Born, ToDo, Created
  <2> QED
    BY <2>2, <2>3 DEF Grown
<1>5. RanLocal(p)' /\ VerdictLocal(p)'
  BY <1>2 DEF RanLocal, VerdictLocal, Summing
<1> QED
  BY <1>3, <1>4, <1>5 DEF Good

LEMMA LookInv ==
  ASSUME Inv, NEW p \in Requests, NEW r \in Runs, Look(p, r) PROVE Inv'
<1> DEFINE u == [Idle EXCEPT !.job = "poll", !.run = r, !.seen = row[r]]
<1>1. /\ at[p] = Idle /\ row[r].status \in {"queued", "running"}
      /\ UNCHANGED <<cfg, row, harness, old, used, past>>
      /\ \/ row[r].listed /\ Set(p, [u EXCEPT !.step = "parent"])
         \/ row[r].harness /\ Set(p, [u EXCEPT !.step = "alive"])
         \/ Set(p, Finish(u, "error", "idle"))
  BY DEF Look
<1>2. /\ p \in Threads /\ p # Drive /\ row[r] \in Rows /\ ~Ended(row[r])
      /\ Created(r) /\ Created(First)
      /\ row[r].harness => r \in Hunts
      /\ row[r].listed => cfg.suite /\ r = Suite /\ AllBorn
  BY <1>1, LookFacts
<1>3. /\ u \in Locals /\ u.job = "poll" /\ u.run = r /\ u.seen = row[r]
      /\ u.step = "idle" /\ u.line = 0 /\ u.raw = Blank /\ u.put = "keep"
      /\ u.then = "idle" /\ u.todo = <<>> /\ u.kids = <<>> /\ u.tally = {}
      /\ u.top = Blank
  <2>1. "poll" \in Jobs /\ row[r] \in Rows
    BY <1>2 DEF Jobs
  <2>2. u = [Idle EXCEPT !.job = "poll", !.run = r, !.seen = row[r]]
    OBVIOUS
  <2>3. /\ Idle \in Locals /\ Idle.step = "idle" /\ Idle.line = 0 /\ Idle.raw = Blank
        /\ Idle.put = "keep" /\ Idle.then = "idle" /\ Idle.todo = <<>> /\ Idle.kids = <<>>
        /\ Idle.tally = {} /\ Idle.top = Blank
    BY IdleFacts
  <2> HIDE DEF u
  <2> QED
    BY <2>1, <2>2, <2>3 DEF Locals
<1> HIDE DEF u
<1>4. /\ RestOK' /\ {"parent", "alive", "idle"} \subseteq Steps /\ at[p].step # "wait"
      /\ AtOK /\ ~Ended(Blank) /\ \A i \in DOMAIN u.todo : FALSE
  BY <1>1, <1>3, InvParts, StepNames, IdleFacts DEF RestOK
<1>5. ASSUME NEW s \in {"parent", "alive"}, Set(p, [u EXCEPT !.step = s]),
             s = "parent" => cfg.suite, s = "alive" => r \in Hunts
      PROVE  Inv'
  <2> DEFINE t == [u EXCEPT !.step = s]
  <2>1. /\ t \in Locals /\ t.job = "poll" /\ t.run = r /\ t.seen = row[r]
        /\ t.step = s /\ t.raw = Blank /\ t.put = "keep"
        /\ t.then = "idle" /\ t.todo = u.todo /\ t.kids = <<>> /\ t.tally = {}
        /\ t.top = Blank
    BY <1>3, <1>4 DEF Locals
  <2> HIDE DEF t
  <2>2. Set(p, t)
    BY <1>5 DEF t
  <2>3. at'[p] = t
    BY <1>2, <1>4, <2>1, <2>2, SetFacts
  <2>4. Good(p)'
    BY <1>1, <1>4, <1>5, <2>1, <2>3, BeginGood
  <2> QED
    BY <1>1, <1>2, <1>4, <2>1, <2>2, <2>4, QuietInv
<1>6. CASE Set(p, Finish(u, "error", "idle"))
  <2>1. "error" \in Puts /\ "idle" \in Thens /\ "idle" \notin Hunting /\ "error" \notin Scores
    BY DEF Puts, Terminal, Thens, Hunting, Scores
  <2>2. Finish(u, "error", "idle") \in Locals /\ Finish(u, "error", "idle").job = "poll"
    BY <1>3, <1>4, <2>1, FinishFacts
  <2>3. at'[p] = Finish(u, "error", "idle")
    BY <1>2, <1>4, <1>6, <2>2, SetFacts
  <2>4. Good(p)'
    BY <1>1, <1>2, <1>3, <1>4, <2>1, <2>3, FinishGood
  <2> QED
    BY <1>1, <1>2, <1>4, <1>6, <2>2, <2>4, QuietInv
<1> QED
  BY <1>1, <1>2, <1>5, <1>6

LEMMA StopInv ==
  ASSUME Inv, NEW p \in Requests, NEW r \in Runs, Stop(p, r) PROVE Inv'
<1> DEFINE u == [Idle EXCEPT !.job = "stop", !.run = r, !.seen = row[r]]
<1>1. /\ at[p] = Idle /\ row[r].status \in {"queued", "running"}
      /\ Spend("stops", cfg.stops) /\ UNCHANGED <<cfg, row, harness, old, past>>
      /\ \/ row[r].listed /\ Set(p, [u EXCEPT !.step = "kid", !.todo = Members, !.top = row[r]])
         \/ Set(p, [u EXCEPT !.step = "kill"])
  BY DEF Stop
<1>2. /\ p \in Threads /\ p # Drive /\ row[r] \in Rows /\ ~Ended(row[r])
      /\ Created(r) /\ Created(First) /\ row[r] # Blank
      /\ row[r].listed => cfg.suite /\ r = Suite /\ AllBorn
  BY <1>1, LookFacts
<1>3. /\ u \in Locals /\ u.job = "stop" /\ u.run = r /\ u.seen = row[r]
      /\ u.raw = Blank /\ u.put = "keep"
      /\ u.then = "idle" /\ u.todo = <<>> /\ u.kids = <<>> /\ u.tally = {}
      /\ u.top = Blank
  <2>1. "stop" \in Jobs /\ row[r] \in Rows
    BY <1>2 DEF Jobs
  <2>2. u = [Idle EXCEPT !.job = "stop", !.run = r, !.seen = row[r]]
    OBVIOUS
  <2>3. /\ Idle \in Locals /\ Idle.step = "idle" /\ Idle.line = 0 /\ Idle.raw = Blank
        /\ Idle.put = "keep" /\ Idle.then = "idle" /\ Idle.todo = <<>> /\ Idle.kids = <<>>
        /\ Idle.tally = {} /\ Idle.top = Blank
    BY IdleFacts
  <2> HIDE DEF u
  <2> QED
    BY <2>1, <2>2, <2>3 DEF Locals
<1> HIDE DEF u
<1>4. /\ RestOK' /\ {"kid", "kill"} \subseteq Steps /\ at[p].step # "wait"
      /\ AtOK /\ ~Ended(Blank) /\ Members \in Seq(Hunts)
      /\ \A i \in DOMAIN u.todo : FALSE
  BY <1>1, <1>3, InvParts, StepNames, IdleFacts, MembersTyped DEF RestOK, Spend
<1>5. CASE Set(p, [u EXCEPT !.step = "kill"])
  <2> DEFINE t == [u EXCEPT !.step = "kill"]
  <2>1. /\ t \in Locals /\ t.job = "stop" /\ t.run = r /\ t.seen = row[r]
        /\ t.step = "kill" /\ t.raw = Blank /\ t.put = "keep"
        /\ t.then = "idle" /\ t.todo = u.todo /\ t.kids = <<>> /\ t.tally = {}
        /\ t.top = Blank
    BY <1>3, <1>4 DEF Locals
  <2> HIDE DEF t
  <2>2. Set(p, t)
    BY <1>5 DEF t
  <2>3. at'[p] = t
    BY <1>2, <1>4, <2>1, <2>2, SetFacts
  <2>4. Good(p)'
    BY <1>1, <1>4, <2>1, <2>3, BeginGood
  <2> QED
    BY <1>1, <1>2, <1>4, <2>1, <2>2, <2>4, QuietInv
<1>6. CASE row[r].listed /\ Set(p, [u EXCEPT !.step = "kid", !.todo = Members, !.top = row[r]])
  <2> DEFINE t == [u EXCEPT !.step = "kid", !.todo = Members, !.top = row[r]]
  <2>1. /\ t \in Locals /\ t.job = "stop" /\ t.run = r /\ t.seen = row[r]
        /\ t.step = "kid" /\ t.raw = Blank /\ t.put = "keep"
        /\ t.then = "idle" /\ t.todo = Members /\ t.kids = <<>> /\ t.tally = {}
        /\ t.top = row[r]
    BY <1>2, <1>3, <1>4 DEF Locals
  <2> HIDE DEF t
  <2>2. Set(p, t)
    BY <1>6 DEF t
  <2>3. at'[p] = t
    BY <1>2, <1>4, <2>1, <2>2, SetFacts
  <2>4. \A i \in DOMAIN t.todo : Created(t.todo[i])
    BY <1>2, <1>6, <2>1 DEF AllBorn
  <2>5. Good(p)'
    BY <1>1, <1>2, <1>6, <2>1, <2>3, <2>4, BeginGood
  <2> QED
    BY <1>1, <1>2, <1>4, <2>1, <2>2, <2>5, QuietInv
<1> QED
  BY <1>1, <1>5, <1>6

LEMMA LookAliveInv ==
  ASSUME Inv, NEW p \in Threads, LookAlive(p) PROVE Inv'
<1> DEFINE t == [at[p] EXCEPT !.step = "queued"]
<1>1. /\ at[p].step = "alive" /\ UNCHANGED <<cfg, row, harness, old, used, past>>
      /\ Set(p, Idle) \/ Set(p, t)
  BY DEF LookAlive
<1>2. /\ at[p] \in Locals /\ Local(p) /\ Grown(p) /\ RestOK /\ AtOK
      /\ ~Patching(p) /\ Due(p) = "alive" /\ at[p].job # "none"
  BY <1>1, InvParts, LocalTyped, IdleFacts DEF Patching, Due, Grown, Jobbed
<1>3. /\ t.job = at[p].job /\ t.step = "queued" /\ t.line = at[p].line /\ t.run = at[p].run
      /\ t.seen = at[p].seen /\ t.raw = at[p].raw /\ t.put = at[p].put /\ t.then = at[p].then
      /\ t.todo = at[p].todo /\ t.kids = at[p].kids /\ t.tally = at[p].tally /\ t.top = at[p].top
  BY <1>2 DEF Locals
<1>4. t \in Locals
  BY <1>2, StepNames DEF Locals
<1> HIDE DEF t
<1>5. RestOK' /\ cfg' = cfg
  BY <1>1, <1>2 DEF RestOK
<1>6. CASE Set(p, Idle)
  <2>1. at'[p] = Idle
    BY <1>2, <1>6, IdleFacts, SetFacts
  <2> QED
    BY <1>1, <1>5, <1>6, <2>1, IdleGood, IdleFacts, QuietInv
<1>7. CASE Set(p, t)
  <2>1. at'[p] = t
    BY <1>2, <1>4, <1>7, SetFacts
  <2>2. /\ ~Patching(p)' /\ Due(p)' = "queued" /\ "queued" \notin Hunting
        /\ "queued" \notin SuiteSteps /\ {"alive", "queued"} \subseteq HuntSteps
    BY <1>3, <2>1 DEF Patching, Due, Hunting, SuiteSteps, HuntSteps
  <2>3. Local(p)'
    BY <1>1, <1>2, <1>3, <1>5, <2>1, <2>2 DEF Local, Lined, Driven, OnHunt, Tasked, Returns,
       Listing, Placed, Suited, Heeds
  <2>4. Grown(p)'
    <3>1. First' = First /\ Members' = Members /\ AllBorn' = AllBorn
      BY <1>1 DEF First, Members, AllBorn, Created
    <3>2. Jobbed(p)' /\ Birth(p)' /\ Listed(p)'
      BY <1>2, <1>3, <1>5, <2>1, <2>2, <3>1 DEF Grown, Jobbed, Birth, Listed
    <3>3. Born(p)' /\ ToDo(p)'
      BY <1>1, <1>2, <1>3, <2>1, <2>2, <3>1 DEF Grown, Born, ToDo, Created
    <3> QED
      BY <3>2, <3>3 DEF Grown
  <2>5. RanLocal(p)' /\ VerdictLocal(p)'
    BY <1>3, <2>1, <2>2 DEF RanLocal, VerdictLocal, Summing
  <2> QED
    BY <1>1, <1>3, <1>4, <1>5, <1>7, <2>3, <2>4, <2>5, QuietInv DEF Good
<1> QED
  BY <1>1, <1>6, <1>7

(* The operator's stop, of a suite member after member.                    *)
LEMMA StopKidInv ==
  ASSUME Inv, NEW p \in Threads, StopKid(p) PROVE Inv'
<1> DEFINE r    == Head(at[p].todo)
           last == [at[p] EXCEPT !.run = Suite, !.seen = at[p].top]
           next == [at[p] EXCEPT !.todo = Tail(at[p].todo)]
           kill == [next EXCEPT !.step = "kill", !.run = r, !.seen = row[r]]
<1>1. /\ at[p].step = "kid" /\ UNCHANGED <<cfg, row, harness, old, used, past>>
      /\ \/ Set(p, Finish(last, "cancelled", "parent"))
         \/ at[p].todo # <<>> /\ Set(p, next)
         \/ at[p].todo # <<>> /\ ~Ended(row[r]) /\ Set(p, kill)
  BY DEF StopKid
<1>2. /\ at[p] \in Locals /\ Local(p) /\ Grown(p) /\ RestOK /\ AtOK /\ RowOK
      /\ ~Patching(p) /\ Due(p) = "kid" /\ at[p].job # "none"
  BY <1>1, InvParts, LocalTyped, IdleFacts DEF Patching, Due, Grown, Jobbed
<1>3. /\ at[p].job = "stop" /\ cfg.suite /\ at[p].top # Blank /\ ~Ended(at[p].top) /\ AllBorn
      /\ p # Drive /\ Created(First) /\ First = Suite /\ Created(Suite) /\ Suite \notin Hunts
      /\ \A i \in DOMAIN at[p].todo : Created(at[p].todo[i])
  BY <1>2, NamesAssumption DEF Local, Driven, Suited, SuiteSteps, Heeds, Grown, Jobbed, Born, ToDo,
     Listed, First
<1>4. RestOK' /\ cfg' = cfg
  BY <1>1, <1>2 DEF RestOK
<1>5. CASE Set(p, Finish(last, "cancelled", "parent"))
  <2>1. /\ last \in Locals /\ last.job = "stop" /\ last.run = Suite /\ last.seen = at[p].top
        /\ last.todo = at[p].todo /\ last.top = at[p].top
    BY <1>2, <1>3 DEF Locals, Runs
  <2> HIDE DEF last
  <2>2. /\ "cancelled" \in Puts /\ "cancelled" \notin Scores /\ "parent" \in Thens
        /\ "parent" \notin Hunting /\ "parent" \in Steps
    BY StepNames DEF Puts, Terminal, Scores, Thens, Hunting
  <2>3. /\ Finish(last, "cancelled", "parent") \in Locals
        /\ Finish(last, "cancelled", "parent").job = "stop"
    BY <2>1, <2>2, FinishFacts
  <2>4. at'[p] = Finish(last, "cancelled", "parent")
    BY <1>2, <1>5, <2>3, SetFacts
  <2>5. Good(p)'
    BY <1>1, <1>3, <2>1, <2>2, <2>4, FinishGood
  <2> QED
    BY <1>1, <1>3, <1>4, <1>5, <2>3, <2>5, QuietInv
<1>6. ASSUME at[p].todo # <<>>
      PROVE  /\ next \in Locals /\ next.todo = Tail(at[p].todo)
             /\ r \in Hunts /\ r \in Runs /\ Created(r) /\ row[r] \in Rows
             /\ \A i \in DOMAIN Tail(at[p].todo) : Created(Tail(at[p].todo)[i])
  <2>1. at[p].todo \in Seq(Hunts)
    BY <1>2 DEF Locals
  <2>2. /\ r \in Hunts /\ Tail(at[p].todo) \in Seq(Hunts) /\ at[p].todo[1] = r
        /\ 1 \in DOMAIN at[p].todo
        /\ \A i \in DOMAIN Tail(at[p].todo) :
             i + 1 \in DOMAIN at[p].todo /\ Tail(at[p].todo)[i] = at[p].todo[i + 1]
    BY <1>6, <2>1, SeqFacts
  <2>3. r \in Runs /\ Created(r) /\ row[r] \in Rows
    BY <1>2, <1>3, <2>2 DEF Runs, RowOK
  <2> QED
    BY <1>2, <1>3, <2>2, <2>3 DEF Locals
<1>7. ASSUME NEW t, Set(p, t), at[p].todo # <<>>, ~Ended(row[r]) \/ t = next,
             t \in {next, kill}
      PROVE  Inv'
  <2>1. /\ next \in Locals /\ next.todo = Tail(at[p].todo) /\ r \in Hunts /\ r \in Runs
        /\ Created(r) /\ row[r] \in Rows
        /\ \A i \in DOMAIN Tail(at[p].todo) : Created(Tail(at[p].todo)[i])
    BY <1>6, <1>7
  <2>2. /\ next.job = at[p].job /\ next.step = at[p].step /\ next.line = at[p].line
        /\ next.run = at[p].run /\ next.seen = at[p].seen /\ next.raw = at[p].raw
        /\ next.put = at[p].put /\ next.then = at[p].then /\ next.kids = at[p].kids
        /\ next.tally = at[p].tally /\ next.top = at[p].top
    BY <1>2 DEF Locals
  <2> HIDE DEF next
  <2>3. /\ kill \in Locals /\ kill.job = at[p].job /\ kill.step = "kill" /\ kill.line = at[p].line
        /\ kill.run = r /\ kill.seen = row[r] /\ kill.raw = at[p].raw
        /\ kill.put = at[p].put /\ kill.then = at[p].then /\ kill.kids = at[p].kids
        /\ kill.tally = at[p].tally /\ kill.top = at[p].top /\ kill.todo = Tail(at[p].todo)
    <3>1. "kill" \in Steps
      BY StepNames
    <3> QED
      BY <2>1, <2>2, <3>1 DEF Locals
  <2> HIDE DEF kill, r
  <2>4. /\ t \in Locals /\ t.job = "stop" /\ t.step \in {"kid", "kill"}
        /\ t.step = "kill" => t.run = r /\ ~Ended(t.seen)
        /\ t.step = "kid" => t.run = at[p].run
        /\ t.then = at[p].then /\ t.top = at[p].top /\ t.todo = Tail(at[p].todo)
    BY <1>1, <1>3, <1>7, <2>1, <2>2, <2>3
  <2>5. at'[p] = t
    BY <1>2, <1>7, <2>4, SetFacts
  <2>6. /\ ~Patching(p)' /\ Due(p)' = t.step /\ t.step \notin Hunting /\ t.step \notin HuntSteps
    BY <2>4, <2>5 DEF Patching, Due, Hunting, HuntSteps
  <2>7. Local(p)'
    BY <1>2, <1>3, <1>4, <2>4, <2>5, <2>6 DEF Local, Lined, Driven, OnHunt, Tasked, Returns,
       Listing, Placed, Suited, Heeds
  <2>8. Grown(p)'
    <3>1. First' = First /\ Members' = Members /\ (AllBorn => AllBorn')
      BY <1>1 DEF First, Members, AllBorn, Created
    <3>2. Jobbed(p)' /\ Birth(p)' /\ Listed(p)'
      BY <1>3, <1>4, <2>4, <2>5, <2>6, <3>1 DEF Jobbed, Birth, Listed
    <3>3. Created(t.run)
      BY <1>2, <2>1, <2>4 DEF Grown, Born
    <3>4. Born(p)' /\ ToDo(p)'
      BY <1>1, <1>3, <2>1, <2>4, <2>5, <3>1, <3>3 DEF Born, ToDo, Created
    <3> QED
      BY <3>2, <3>4 DEF Grown
  <2>9. RanLocal(p)' /\ VerdictLocal(p)'
    BY <2>4, <2>5, <2>6 DEF RanLocal, VerdictLocal, Summing
  <2> QED
    BY <1>1, <1>3, <1>4, <1>7, <2>4, <2>7, <2>8, <2>9, QuietInv DEF Good
<1> QED
  BY <1>1, <1>5, <1>7

-----------------------------------------------------------------------------
(* A thread moves, and harnesses or their history change.                  *)
LEMMA LoudInv ==
  ASSUME Inv, NEW p \in Threads, NEW t \in Locals, Set(p, t), UNCHANGED <<cfg, row>>, Onward,
         RestOK', HarOK', PastOK', past'.reopened = past.reopened, Good(p)',
         \A h \in Hunts : RanHunt(h)', OneStart', RalphInv'
  PROVE  Inv'
<1>1. RunsGood /\ RowOK
  BY InvParts
<1>2. RowOK'
  BY <1>1 DEF RowOK
<1>3. AtOK' /\ at'[p] = t /\ \A q \in Threads : q # p => at'[q] = at[q]
  BY InvParts, SetFacts
<1>4. \A q \in Threads : Good(q)'
  <2>1. \A r \in Hunts : ~Created(r) => ~Created(r)'
    BY DEF Created
  <2> QED
    BY <1>3, <2>1, OthersGood
<1>5. RunsGood'
  <2>1. Members' = Members /\ First' = First /\ (AllBorn => AllBorn')
    BY DEF Members, First, AllBorn, Created
  <2>2. Started' /\ RowList'
    BY <1>1, <2>1 DEF RunsGood, Started, RowList, Created
  <2>3. (~past'.reopened /\ row'[Suite].status \in Scores) => BackedBy(row[Suite].status)'
    BY <1>1, <2>1 DEF RunsGood, BackedBy
  <2> QED
    BY <2>2, <2>3 DEF RunsGood
<1> QED
  BY <1>2, <1>3, <1>4, <1>5, InvOfParts DEF Typed

LEMMA KillInv ==
  ASSUME Inv, NEW p \in Threads, Kill(p) PROVE Inv'
<1> DEFINE then == IF at[p].top = Blank THEN "idle" ELSE "kid"
           t    == Finish(at[p], "cancelled", then)
<1>1. /\ at[p].step = "kill" /\ UNCHANGED <<cfg, row, old, used, past>> /\ Set(p, t)
      /\ \/ harness' = harness
         \/ harness' = [harness EXCEPT ![at[p].run].ralph = NoRalph]
  BY DEF Kill
<1>2. /\ at[p] \in Locals /\ Local(p) /\ Grown(p) /\ RestOK /\ AtOK /\ HarOK /\ PastOK /\ RunsGood
      /\ ~Patching(p) /\ Due(p) = "kill" /\ at[p].job # "none"
  BY <1>1, InvParts, LocalTyped, IdleFacts DEF Patching, Due, Grown, Jobbed
<1>3. /\ at[p].job = "stop" /\ ~Ended(at[p].top) /\ ~Ended(at[p].seen) /\ p # Drive
      /\ Created(First) /\ Created(at[p].run)
      /\ at[p].top # Blank => cfg.suite /\ AllBorn
      /\ \A i \in DOMAIN at[p].todo : Created(at[p].todo[i])
  BY <1>1, <1>2 DEF Local, Driven, Heeds, Grown, Jobbed, Born, ToDo, Listed
<1>4. /\ then \in {"idle", "kid"} /\ then \in Thens /\ then \in Steps /\ then \notin Hunting
      /\ then = "kid" => at[p].top # Blank
      /\ "cancelled" \in Puts /\ "cancelled" \notin Scores
  BY StepNames DEF Thens, Hunting, Puts, Terminal, Scores
<1> HIDE DEF then
<1>5. t \in Locals /\ t.job = "stop"
  BY <1>2, <1>3, <1>4, FinishFacts
<1>6. at'[p] = t /\ \A q \in Threads : q # p => at'[q] = at[q]
  BY <1>1, <1>2, <1>5, SetFacts
<1>7. Good(p)'
  BY <1>1, <1>2, <1>3, <1>4, <1>6, FinishGood
<1>8. HarOK' /\ \A h \in Hunts : harness'[h].work = harness[h].work /\ (Alive(h)' => Alive(h))
  BY <1>1, <1>2 DEF HarOK, Alive
<1>9. RestOK' /\ PastOK' /\ Onward
  BY <1>1, <1>2, UnchangedOnward DEF RestOK, PastOK
<1>10. \A h \in Hunts : RanHunt(h)'
  <2>1. First' = First
    BY <1>1 DEF First, Members
  <2> QED
    BY <1>1, <1>2, <1>8, <2>1 DEF RunsGood, RanHunt, Ran, Created
<1>11. OneStart' /\ RalphInv'
  <2>1. at'[Drive] = at[Drive]
    BY <1>3, <1>6 DEF Threads
  <2> QED
    BY <1>1, <1>5, <1>6, <1>8, <1>9, <2>1, JobsKept
<1> HIDE DEF t
<1> QED
  BY <1>1, <1>5, <1>7, <1>8, <1>9, <1>10, <1>11, LoudInv

(* What a poll does with a harness whose Ralph has left.                   *)
LEMMA LookQueuedInv ==
  ASSUME Inv, NEW p \in Threads, LookQueued(p) PROVE Inv'
<1> DEFINE r == at[p].run
           t == [at[p] EXCEPT !.step = "score"]
<1>1. /\ at[p].step = "queued" /\ UNCHANGED <<cfg, row, old, used>>
      /\ \/ Set(p, Idle) /\ UNCHANGED <<harness, past>>
         \/ /\ Set(p, Idle) /\ ~Alive(r) /\ harness' = [harness EXCEPT ![r].ralph = 0]
            /\ past' = [past EXCEPT !.ran = @ \union {r}, !.polled = TRUE]
         \/ /\ ~(harness[r].work > 0) /\ Set(p, t) /\ UNCHANGED harness
            /\ past' = [past EXCEPT !.early = IF r \in past.fed THEN @ ELSE @ \union {r}]
  BY DEF LookQueued, Goto, StartRalph
<1>2. /\ at[p] \in Locals /\ Local(p) /\ Grown(p) /\ RestOK /\ AtOK /\ HarOK /\ PastOK /\ RunsGood
      /\ ~Patching(p) /\ Due(p) = "queued" /\ at[p].job # "none"
  BY <1>1, InvParts, LocalTyped, IdleFacts DEF Patching, Due, Grown, Jobbed
<1>3. /\ r \in Hunts /\ ~Ended(at[p].seen) /\ Created(First) /\ Created(r) /\ RestOK'
      /\ cfg' = cfg /\ First' = First
  BY <1>1, <1>2 DEF Local, OnHunt, Heeds, HuntSteps, Grown, Born, RestOK, First, Members
<1>4. CASE Set(p, Idle) /\ UNCHANGED <<harness, past>>
  <2>1. at'[p] = Idle
    BY <1>2, <1>4, IdleFacts, SetFacts
  <2> QED
    BY <1>1, <1>3, <1>4, <2>1, IdleGood, IdleFacts, QuietInv
<1>5. CASE /\ Set(p, Idle) /\ ~Alive(r) /\ harness' = [harness EXCEPT ![r].ralph = 0]
           /\ past' = [past EXCEPT !.ran = @ \union {r}, !.polled = TRUE]
  <2>1. /\ past'.ran = past.ran \union {r} /\ past'.early = past.early
        /\ past'.fed = past.fed /\ past'.reopened = past.reopened /\ past'.polled = TRUE
        /\ PastOK'
    BY <1>2, <1>3, <1>5 DEF PastOK
  <2>2. /\ HarOK' /\ \A h \in Hunts : /\ harness'[h].work = harness[h].work
                                      /\ h # r => harness'[h] = harness[h]
    BY <1>2, <1>3, <1>5 DEF HarOK
  <2>3. Onward
    BY <1>1, <2>1 DEF Onward, Created
  <2>4. at'[p] = Idle /\ \A q \in Threads : q # p => at'[q] = at[q]
    BY <1>2, <1>5, IdleFacts, SetFacts
  <2>5. OneStart' /\ RalphInv'
    <3>1. at[Drive].job = "none" => at'[Drive].job = "none"
      BY <2>4, IdleFacts DEF Threads
    <3> QED
      BY <2>1, <2>4, <3>1, IdleFacts, StartsKept DEF RalphInv
  <2>6. \A h \in Hunts : RanHunt(h)'
    BY <1>1, <1>2, <1>3, <2>1, <2>2 DEF RunsGood, RanHunt, Ran, Created, Alive
  <2> QED
    BY <1>1, <1>3, <1>5, <2>1, <2>2, <2>3, <2>4, <2>5, <2>6, IdleGood, IdleFacts, LoudInv
<1>6. CASE /\ ~(harness[r].work > 0) /\ Set(p, t) /\ UNCHANGED harness
           /\ past' = [past EXCEPT !.early = IF r \in past.fed THEN @ ELSE @ \union {r}]
  <2>1. /\ past'.ran = past.ran /\ past'.fed = past.fed /\ past'.reopened = past.reopened
        /\ past'.polled = past.polled /\ PastOK' /\ past.early \subseteq past'.early
        /\ r \notin past.fed => r \in past'.early
    BY <1>2, <1>3, <1>6 DEF PastOK
  <2>2. r \in past'.ran \union past'.early
    BY <1>2, <1>3, <1>6, <2>1 DEF RunsGood, RanHunt
  <2>3. /\ t.job = at[p].job /\ t.step = "score" /\ t.line = at[p].line /\ t.run = r
        /\ t.seen = at[p].seen /\ t.raw = at[p].raw /\ t.put = at[p].put /\ t.then = at[p].then
        /\ t.todo = at[p].todo /\ t.kids = at[p].kids /\ t.tally = at[p].tally
        /\ t.top = at[p].top
    BY <1>2 DEF Locals
  <2>4. t \in Locals
    BY <1>2, StepNames DEF Locals
  <2> HIDE DEF t
  <2>5. at'[p] = t /\ \A q \in Threads : q # p => at'[q] = at[q]
    BY <1>2, <1>6, <2>4, SetFacts
  <2>6. Onward /\ HarOK'
    BY <1>1, <1>2, <1>6, <2>1 DEF Onward, Created, HarOK
  <2>7. /\ ~Patching(p)' /\ Due(p)' = "score" /\ "score" \notin Hunting
        /\ "score" \notin SuiteSteps /\ {"queued", "score"} \subseteq HuntSteps
    BY <2>3, <2>5 DEF Patching, Due, Hunting, SuiteSteps, HuntSteps
  <2>8. Local(p)'
    BY <1>2, <1>3, <2>3, <2>5, <2>7 DEF Local, Lined, Driven, OnHunt, Tasked, Returns,
       Listing, Placed, Suited, Heeds
  <2>9. Grown(p)'
    <3>1. First' = First /\ Members' = Members /\ AllBorn' = AllBorn
      BY <1>1 DEF First, Members, AllBorn, Created
    <3>2. Jobbed(p)' /\ Birth(p)' /\ Listed(p)'
      BY <1>2, <1>3, <2>3, <2>5, <2>7, <3>1 DEF Grown, Jobbed, Birth, Listed
    <3>3. Born(p)' /\ ToDo(p)'
      BY <1>1, <1>2, <2>3, <2>5, <2>7, <3>1 DEF Grown, Born, ToDo, Created
    <3> QED
      BY <3>2, <3>3 DEF Grown
  <2>10. RanLocal(p)' /\ VerdictLocal(p)'
    BY <2>2, <2>3, <2>5, <2>7 DEF RanLocal, VerdictLocal, Summing, Ran
  <2>11. OneStart' /\ RalphInv'
    <3>1. at[Drive].job = "none" => at'[Drive].job = "none"
      BY <2>3, <2>5 DEF Threads
    <3>2. at[Drive].step = "wait" => at'[Drive] = at[Drive]
      BY <1>1, <2>5 DEF Threads
    <3>3. \A h \in Hunts : Alive(h)' => Alive(h)
      BY <1>6 DEF Alive
    <3> QED
      BY <2>1, <2>3, <2>5, <2>6, <3>1, <3>2, <3>3, JobsKept
  <2>12. \A h \in Hunts : RanHunt(h)'
    BY <1>1, <1>2, <1>3, <1>6, <2>1 DEF RunsGood, RanHunt, Ran, Created, Alive
  <2> QED
    BY <1>1, <1>3, <1>6, <2>1, <2>4, <2>6, <2>8, <2>9, <2>10, <2>11, <2>12, LoudInv DEF Good
<1> QED
  BY <1>1, <1>4, <1>5, <1>6

LEMMA EnqueueHintsInv ==
  ASSUME Inv, NEW p \in Threads, EnqueueHints(p) PROVE Inv'
<1> DEFINE r == at[p].run
           t == Following(at[p])
<1>1. /\ at[p].step = "enqueue" /\ UNCHANGED <<cfg, row, old, used>> /\ Set(p, t)
      /\ harness' = [harness EXCEPT ![r].work = @ + cfg.hints]
      /\ past' = [past EXCEPT !.fed = @ \union {r}]
  BY DEF EnqueueHints
<1>2. at[p].step \in Hunting /\ at[p].step # "open" /\ at[p].step # "start" /\ at[p].step # "wait"
  BY <1>1 DEF Hunting
<1>3. /\ at[p] \in Locals /\ at[p].line \in 1..17 /\ ~Ended(at[p].seen) /\ r \in Hunts
      /\ at[p].job = "drive"
  BY <1>2, HuntingFacts
<1>4. RestOK /\ AtOK /\ HarOK /\ PastOK /\ RunsGood /\ cfg.hints \in Nat \ {0}
  BY InvParts, MembersTyped
<1>5. /\ past'.ran = past.ran /\ past'.early = past.early /\ past'.fed = past.fed \union {r}
      /\ past'.reopened = past.reopened /\ past'.polled = past.polled /\ PastOK'
  BY <1>1, <1>3, <1>4 DEF PastOK
<1>6. /\ HarOK' /\ harness'[r].work > 0
      /\ \A h \in Hunts : h # r => harness'[h] = harness[h]
      /\ \A h \in Hunts : Alive(h)' => Alive(h)
  <2> DEFINE n == harness[r].work + cfg.hints
  <2>1. harness[r] \in [work : Nat, ralph : Nat \union {NoRalph}, found : BOOLEAN]
    BY <1>3, <1>4 DEF HarOK
  <2>2. n \in Nat /\ n > 0
    BY <1>4, <2>1
  <2>3. harness' = [harness EXCEPT ![r].work = n]
    BY <1>1
  <2> HIDE DEF n
  <2>4. /\ HarOK' /\ harness'[r].work = n /\ harness'[r].ralph = harness[r].ralph
        /\ \A h \in Hunts : h # r => harness'[h] = harness[h]
    BY <1>3, <1>4, <2>2, <2>3 DEF HarOK
  <2> QED
    BY <2>2, <2>4 DEF Alive
<1>7. Onward /\ RestOK'
  BY <1>1, <1>4, <1>5 DEF Onward, Created, RestOK
<1>8. at[p] = [at[p] EXCEPT !.seen = at[p].seen]
  BY <1>3 DEF Locals
<1>9. t \in Locals
  BY <1>3, FollowingFacts
<1>10. at'[p] = t /\ \A q \in Threads : q # p => at'[q] = at[q]
  BY <1>1, <1>4, <1>9, SetFacts
<1>11. Good(p)' /\ t.job = at[p].job
  BY <1>2, <1>3, <1>7, <1>8, <1>10, FollowGood
<1> HIDE DEF t
<1>12. OneStart' /\ RalphInv'
  <2>1. at[Drive].job = "none" => at'[Drive].job = "none"
    BY <1>3, <1>10 DEF Threads
  <2>2. at[Drive].step = "wait" => at'[Drive] = at[Drive]
    BY <1>2, <1>10 DEF Threads
  <2> QED
    BY <1>5, <1>6, <1>7, <1>10, <1>11, <2>1, <2>2, JobsKept
<1>13. \A h \in Hunts : RanHunt(h)'
  <2>1. First' = First
    BY <1>1 DEF First, Members
  <2> QED
    BY <1>1, <1>4, <1>5, <1>6, <2>1 DEF RunsGood, RanHunt, Ran, Created
<1> QED
  BY <1>1, <1>5, <1>6, <1>7, <1>9, <1>11, <1>12, <1>13, LoudInv

(* The driver starts a Ralph; it has waited for the one before.            *)
LEMMA StartOneInv ==
  ASSUME Inv, NEW p \in Threads, StartOne(p) PROVE Inv'
<1> DEFINE r == at[p].run
           t == Following(at[p])
<1>1. /\ at[p].step = "start" /\ UNCHANGED <<cfg, row, old, used>> /\ Set(p, t)
      /\ \/ Alive(r) /\ UNCHANGED <<harness, past>>
         \/ /\ ~Alive(r) /\ harness' = [harness EXCEPT ![r].ralph = 0]
            /\ past' = [past EXCEPT !.ran = @ \union {r}]
  BY DEF StartOne, StartRalph
<1>2. at[p].step \in Hunting /\ at[p].step # "open" /\ at[p].step # "wait"
  BY <1>1 DEF Hunting
<1>3. /\ at[p] \in Locals /\ at[p].line \in 1..17 /\ ~Ended(at[p].seen) /\ r \in Hunts
      /\ at[p].job = "drive" /\ at[p].line = 14
  BY <1>1, <1>2, HuntingFacts
<1>4. RestOK /\ AtOK /\ HarOK /\ PastOK /\ RunsGood /\ RalphInv /\ Grown(p)
  BY InvParts
<1>5. p = Drive /\ Created(First) /\ First' = First
  BY <1>1, <1>3, <1>4 DEF Grown, Jobbed, Born, First, Members
<1>6. /\ past'.ran = past.ran \union {r} /\ past'.early = past.early /\ past'.fed = past.fed
      /\ past'.reopened = past.reopened /\ past'.polled = past.polled /\ PastOK'
  <2>1. CASE Alive(r) /\ UNCHANGED <<harness, past>>
    BY <1>3, <1>4, <2>1 DEF PastOK, RunsGood, RanHunt
  <2>2. CASE past' = [past EXCEPT !.ran = @ \union {r}]
    BY <1>3, <1>4, <2>2 DEF PastOK
  <2> QED
    BY <1>1, <2>1, <2>2
<1>7. /\ HarOK' /\ \A h \in Hunts : /\ h # r => harness'[h] = harness[h]
                                    /\ harness'[h].work = harness[h].work
  BY <1>1, <1>3, <1>4 DEF HarOK
<1>8. Onward /\ RestOK'
  BY <1>1, <1>4, <1>6 DEF Onward, Created, RestOK
<1>9. at[p] = [at[p] EXCEPT !.seen = at[p].seen]
  BY <1>3 DEF Locals
<1>10. t \in Locals /\ t.run = r /\ t.step = "wait"
  <2>1. t \in Locals /\ t.step = Script[at[p].line + 1] /\ t.run = r
    BY <1>3, FollowingFacts
  <2>2. Script[14 + 1] = "wait"
    BY DEF Script
  <2> QED
    BY <1>3, <2>1, <2>2
<1>11. at'[p] = t /\ \A q \in Threads : q # p => at'[q] = at[q]
  BY <1>1, <1>4, <1>10, SetFacts
<1>12. Good(p)' /\ t.job = at[p].job
  BY <1>2, <1>3, <1>6, <1>8, <1>9, <1>11, FollowGood
<1> HIDE DEF t
<1>13. OneStart'
  BY <1>3, <1>5, <1>11, <1>12, StartsKept
<1>14. RalphInv'
  <2> SUFFICES ASSUME ~past.polled PROVE RalphInv'
    BY <1>6 DEF RalphInv
  <2>1. ~NoDriver
    BY <1>3 DEF NoDriver
  <2>2. \A h \in Hunts : ~Alive(h)
    BY <1>1, <1>4, <1>5, <2>1 DEF RalphInv
  <2>3. \A h \in Hunts : Alive(h)' => h = r
    BY <1>7, <2>2 DEF Alive
  <2> QED
    BY <1>5, <1>10, <1>11, <2>3 DEF RalphInv
<1>15. \A h \in Hunts : RanHunt(h)'
  BY <1>1, <1>4, <1>5, <1>6, <1>7 DEF RunsGood, RanHunt, Ran, Created, Alive
<1> QED
  BY <1>1, <1>6, <1>7, <1>8, <1>10, <1>12, <1>13, <1>14, <1>15, LoudInv

-----------------------------------------------------------------------------
(* No thread moves.                                                        *)
LEMMA StillInv ==
  ASSUME Inv, UNCHANGED <<cfg, row, at, past>>, RestOK', HarOK',
         \A h \in Hunts : Alive(h)' => Alive(h), \A h \in Hunts : RanHunt(h)'
  PROVE  Inv'
<1>1. RunsGood /\ RowOK /\ AtOK /\ PastOK /\ Onward
  BY InvParts, UnchangedOnward
<1>2. RowOK' /\ AtOK' /\ PastOK'
  BY <1>1 DEF RowOK, AtOK, PastOK
<1>3. \A q \in Threads : Good(q)'
  <2>1. \A r \in Hunts : ~Created(r) => ~Created(r)'
    BY DEF Created
  <2> QED
    BY <1>1, <2>1, OthersGood
<1>4. RunsGood'
  <2>1. Members' = Members /\ First' = First /\ (AllBorn => AllBorn')
    BY DEF Members, First, AllBorn, Created
  <2>2. Started' /\ RowList'
    BY <1>1, <2>1 DEF RunsGood, Started, RowList, Created
  <2>3. (~past'.reopened /\ row'[Suite].status \in Scores) => BackedBy(row[Suite].status)'
    BY <1>1, <2>1 DEF RunsGood, BackedBy
  <2> QED
    BY <2>2, <2>3 DEF RunsGood
<1>5. OneStart' /\ RalphInv'
  BY <1>1, JobsKept
<1> QED
  BY <1>2, <1>3, <1>4, <1>5, InvOfParts DEF Typed

LEMMA RalphStepsInv ==
  ASSUME Inv, NEW h \in Hunts, RalphWorks(h) \/ RalphLeaves(h) PROVE Inv'
<1>1. HarOK /\ RestOK /\ RunsGood /\ RanHunt(h)
  BY InvParts DEF RunsGood
<1>2. /\ UNCHANGED <<cfg, row, old, at, past>> /\ Alive(h)
      /\ \/ /\ harness[h].work > 0 /\ UNCHANGED used
            /\ \E hit \in BOOLEAN :
                 harness' = [harness EXCEPT ![h] = [work  |-> harness[h].work - 1,
                                                    ralph |-> harness[h].ralph + 1,
                                                    found |-> harness[h].found \/ hit]]
         \/ /\ harness' = [harness EXCEPT ![h].ralph = NoRalph]
            /\ UNCHANGED used \/ Fault
  BY DEF RalphWorks, RalphLeaves
<1>3. RestOK' /\ First' = First
  BY <1>1, <1>2 DEF RestOK, Fault, Spend, First, Members
<1>4. harness[h].ralph \in Nat /\ harness[h].work \in Nat /\ harness[h].found \in BOOLEAN
  BY <1>1, <1>2 DEF HarOK, Alive
<1>5. HarOK'
  BY <1>1, <1>2, <1>4 DEF HarOK
<1>6. \A g \in Hunts : g # h => harness'[g] = harness[g]
  BY <1>1, <1>2 DEF HarOK
<1>7. \A g \in Hunts : Alive(g)' => Alive(g)
  BY <1>2, <1>6 DEF Alive
<1>8. \A g \in Hunts : RanHunt(g)'
  <2>1. h \in past.ran
    BY <1>1, <1>2 DEF RanHunt
  <2> QED
    BY <1>1, <1>2, <1>3, <1>6, <1>7, <2>1 DEF RunsGood, RanHunt, Ran, Created
<1> QED
  BY <1>2, <1>3, <1>5, <1>7, <1>8, StillInv

LEMMA AgeInv ==
  ASSUME Inv, Age \/ UNCHANGED vars PROVE Inv'
<1>1. UNCHANGED <<cfg, row, harness, at, used, past>> /\ (old' = TRUE \/ UNCHANGED old)
  BY DEF Age, vars
<1>2. HarOK /\ RestOK
  BY InvParts
<1>3. RestOK' /\ HarOK' /\ \A h \in Hunts : Alive(h)' => Alive(h)
  BY <1>1, <1>2 DEF RestOK, HarOK, Alive
<1>4. RunsGood'
  BY <1>1, RunsAsTheyWere
<1> QED
  BY <1>1, <1>3, <1>4, StillInv DEF RunsGood

LEMMA RestartInv ==
  ASSUME Inv, Restart PROVE Inv'
<1>1. at' = [p \in Threads |-> Idle] /\ UNCHANGED <<cfg, row, harness, old, past>>
  BY DEF Restart
<1>2. RestOK /\ RunsGood /\ RalphInv
  BY InvParts
<1>3. RunsGood' /\ RowOK' /\ HarOK' /\ PastOK'
  BY <1>1, RunsAsTheyWere
<1>4. AtOK' /\ \A p \in Threads : at'[p] = Idle
  BY <1>1, IdleFacts DEF AtOK
<1>5. RestOK'
  BY <1>1, <1>2 DEF RestOK, Restart, Spend
<1>6. \A p \in Threads : Good(p)'
  BY <1>4, IdleGood
<1>7. OneStart'
  BY <1>4, IdleFacts DEF OneStart
<1>8. RalphInv'
  <2>1. \A h \in Hunts : Alive(h)' => Alive(h)
    BY <1>1 DEF Alive
  <2>2. \A h \in Hunts : Alive(h) => Created(First)
    BY <1>2 DEF RunsGood, RanHunt
  <2>3. (\E h \in Hunts : Alive(h)) => NoDriver'
    <3>1. Created(First) => Created(First)'
      BY <1>1 DEF Created, First, Members
    <3> QED
      BY <1>4, <2>2, <3>1, IdleFacts DEF NoDriver
  <2> QED
    BY <1>1, <1>2, <2>1, <2>3 DEF RalphInv
<1> QED
  BY <1>3, <1>4, <1>5, <1>6, <1>7, <1>8, InvOfParts DEF Typed

-----------------------------------------------------------------------------
(* A start: nothing was created before, and nobody is at work.             *)
LEMMA StartInv ==
  ASSUME Inv, NEW p \in Requests, Start(p) PROVE Inv'
<1> DEFINE u == [Idle EXCEPT !.job = "start", !.run = First]
           c == [u EXCEPT !.step = "create", !.todo = Members]
<1>1. /\ \A r \in Runs : row[r].status = "none"
      /\ row' = [row EXCEPT ![First].status = "running"]
      /\ UNCHANGED <<cfg, harness, old, past>>
      /\ \/ Fault /\ Set(p, Finish(u, "error", "idle"))
         \/ cfg.suite /\ Set(p, c) /\ UNCHANGED used
         \/ ~cfg.suite /\ Set(p, Finish(u, "keep", "spawn")) /\ UNCHANGED used
  BY DEF Start
<1>2. /\ RowOK /\ AtOK /\ HarOK /\ RestOK /\ PastOK /\ RunsGood
      /\ \A q \in Threads : Grown(q) /\ Local(q)
  BY InvParts
<1>3. /\ First \in Runs /\ Members \in Seq(Hunts) /\ Members # <<>> /\ p \in Threads /\ p # Drive
      /\ \A i \in DOMAIN Members : Members[i] \in Hunts /\ Members[i] \in Runs
      /\ \A i, j \in DOMAIN Members : Members[i] = Members[j] => i = j
      /\ Suite \notin Hunts /\ Suite \in Runs /\ Drive \in Threads
  BY <1>2, MembersTyped, NamesAssumption DEF Threads, Runs
<1>4. \A q \in Threads : at[q] = Idle
  BY <1>1, <1>2, LocalTyped DEF Grown, Jobbed, Born, Created
<1>5. \A h \in Hunts : ~Alive(h) /\ row[h].status = "none"
  BY <1>1, <1>2, <1>3 DEF RunsGood, RanHunt, Created, Runs
<1>6. /\ RowOK' /\ row'[First].status = "running"
      /\ \A r \in Runs : r # First => row'[r] = row[r]
      /\ \A r \in Runs : row'[r].listed = row[r].listed
  <2>1. row[First] \in Rows /\ "running" \in Statuses
    BY <1>2, <1>3 DEF RowOK, Statuses
  <2>2. /\ row' \in [Runs -> Rows] /\ row'[First].status = "running"
        /\ \A r \in Runs : r # First => row'[r] = row[r]
        /\ row'[First].listed = row[First].listed /\ row'[First].harness = row[First].harness
    BY <1>1, <1>2, <1>3, <2>1 DEF RowOK, Rows
  <2> QED
    BY <1>2, <1>3, <2>2 DEF RowOK
<1>7. Members' = Members /\ First' = First
  BY <1>1 DEF Members, First
<1>8. /\ u \in Locals /\ u.job = "start" /\ u.run = First /\ u.seen = Blank
      /\ u.step = "idle" /\ u.raw = Blank /\ u.put = "keep" /\ u.then = "idle"
      /\ u.todo = <<>> /\ u.kids = <<>> /\ u.tally = {} /\ u.top = Blank
  <2>1. /\ Idle \in Locals /\ Idle.step = "idle" /\ Idle.seen = Blank /\ Idle.raw = Blank
        /\ Idle.put = "keep" /\ Idle.then = "idle" /\ Idle.todo = <<>> /\ Idle.kids = <<>>
        /\ Idle.tally = {} /\ Idle.top = Blank
    BY IdleFacts
  <2>2. "start" \in Jobs
    BY DEF Jobs
  <2>3. u = [Idle EXCEPT !.job = "start", !.run = First]
    OBVIOUS
  <2> HIDE DEF u
  <2> QED
    BY <1>3, <2>1, <2>2, <2>3 DEF Locals
<1> HIDE DEF u
<1>9. /\ {"error", "keep"} \subseteq Puts /\ {"idle", "spawn", "create"} \subseteq Steps
      /\ {"idle", "spawn"} \subseteq Thens /\ ~Ended(Blank) /\ Blank.status = "none"
      /\ \A s \in {"idle", "spawn", "create"} : s \notin Hunting /\ s \notin HuntSteps
      /\ "idle" \notin SuiteSteps /\ "spawn" \notin SuiteSteps
  BY StepNames, IdleFacts DEF Puts, Terminal, Thens, Hunting, HuntSteps, SuiteSteps
<1>10. PICK t \in Locals :
         /\ Set(p, t) /\ t.job = "start" /\ t.run = First /\ t.seen = Blank /\ t.raw = Blank
         /\ t.kids = <<>> /\ t.top = Blank
         /\ \/ t.step = "finish" /\ t.put = "error" /\ t.then = "idle"
            \/ t.step = "finish" /\ t.put = "keep" /\ t.then = "spawn" /\ ~cfg.suite
            \/ t.step = "create" /\ t.then = "idle" /\ t.todo = Members /\ cfg.suite
  <2>1. CASE Set(p, Finish(u, "error", "idle"))
    <3>1. "error" \in Puts /\ "idle" \in Steps
      BY <1>9
    <3> QED
      BY <1>8, <2>1, <3>1, FinishFacts
  <2>2. CASE ~cfg.suite /\ Set(p, Finish(u, "keep", "spawn"))
    <3>1. "keep" \in Puts /\ "spawn" \in Steps
      BY <1>9
    <3> QED
      BY <1>8, <2>2, <3>1, FinishFacts
  <2>3. CASE cfg.suite /\ Set(p, c)
    <3>1. "create" \in Steps
      BY <1>9
    <3>2. /\ c \in Locals /\ c.job = "start" /\ c.run = First /\ c.seen = Blank /\ c.raw = Blank
          /\ c.kids = <<>> /\ c.top = Blank /\ c.step = "create" /\ c.then = "idle"
          /\ c.todo = Members
      BY <1>3, <1>8, <3>1 DEF Locals
    <3> QED
      BY <2>3, <3>2
  <2> QED
    BY <1>1, <2>1, <2>2, <2>3
<1>11. AtOK' /\ at'[p] = t /\ \A q \in Threads : q # p => at'[q] = at[q]
  BY <1>2, <1>3, <1>10, SetFacts
<1>12. RestOK' /\ HarOK' /\ PastOK' /\ cfg' = cfg
  BY <1>1, <1>2 DEF RestOK, HarOK, PastOK, Fault, Spend
<1>13. /\ Patching(p)' <=> t.step = "finish"
       /\ Due(p)' \in {"idle", "spawn", "create"}
       /\ Due(p)' = "spawn" => ~cfg.suite
       /\ Due(p)' = "create" => t.step = "create"
       /\ t.step = "create" => Due(p)' = "create"
  BY <1>10, <1>11 DEF Patching, Due
<1>14. Local(p)'
  BY <1>3, <1>9, <1>10, <1>11, <1>12, <1>13 DEF Local, Lined, Driven, OnHunt, Tasked, Returns,
     Listing, Placed, Suited, Heeds, SuiteSteps, Ended
<1>15. Grown(p)'
  <2>1. Created(First)'
    BY <1>6, <1>7 DEF Created
  <2>2. t.step = "create" => First = Suite
    BY <1>10 DEF First
  <2>3. Jobbed(p)' /\ Listed(p)'
    BY <1>3, <1>7, <1>9, <1>10, <1>11, <1>12, <1>13 DEF Jobbed, Listed
  <2>4. Born(p)' /\ ToDo(p)'
    BY <1>7, <1>10, <1>11, <2>1 DEF Born, ToDo, Created
  <2>5. Birth(p)'
    <3> SUFFICES ASSUME t.step = "create" PROVE Birth(p)'
      BY <1>11 DEF Birth
    <3>1. \A i \in DOMAIN Members : row'[Members[i]].status = "none"
      BY <1>1, <1>3, <1>6, <2>2
    <3> QED
      BY <1>3, <1>7, <1>10, <1>11, <3>1 DEF Birth, Created
  <2> QED
    BY <2>3, <2>4, <2>5 DEF Grown
<1>16. RanLocal(p)'
  <2>1. t.put \notin Scores \/ t.step = "create"
    BY <1>10 DEF Scores
  <2> QED
    BY <1>9, <1>10, <1>11, <1>13, <2>1 DEF RanLocal
<1>17. VerdictLocal(p)'
  <2>1. t.put \notin Scores \/ t.step = "create"
    BY <1>10 DEF Scores
  <2> QED
    BY <1>10, <1>11, <1>13, <2>1 DEF VerdictLocal, Summing
<1>18. \A q \in Threads : Good(q)'
  BY <1>4, <1>11, <1>14, <1>15, <1>16, <1>17, IdleGood DEF Good
<1>19. RunsGood'
  <2>1. Started' /\ RowList'
    <3>1. \A r \in Runs : ~row[r].listed
      BY <1>1, <1>2, <1>3 DEF RunsGood, RowList, AllBorn, Created
    <3> QED
      BY <1>6, <1>7, <3>1 DEF Started, RowList, Created
  <2>2. \A h \in Hunts : RanHunt(h)'
    <3>1. \A h \in Hunts : row'[h].status \notin Scores
      BY <1>1, <1>3, <1>6 DEF Runs, Scores
    <3>2. \A h \in Hunts : ~Alive(h)'
      BY <1>1, <1>5 DEF Alive
    <3> QED
      BY <1>1, <1>2, <3>1, <3>2 DEF RanHunt, RunsGood
  <2>3. row'[Suite].status \notin Scores
    BY <1>1, <1>3, <1>6 DEF Scores
  <2> QED
    BY <2>1, <2>2, <2>3 DEF RunsGood
<1>20. OneStart'
  BY <1>3, <1>4, <1>11, IdleFacts DEF OneStart
<1>21. RalphInv'
  <2>1. \A h \in Hunts : ~Alive(h)'
    BY <1>1, <1>5 DEF Alive
  <2> QED
    BY <2>1 DEF RalphInv
<1> QED
  BY <1>6, <1>11, <1>12, <1>18, <1>19, <1>20, <1>21, InvOfParts DEF Typed

(* The members of a suite are created one after the other.                 *)
LEMMA CreateFacts ==
  ASSUME Inv, NEW p \in Threads, at[p].step = "create"
  PROVE  /\ at[p] \in Locals /\ at[p].job = "start" /\ at[p].run = First /\ cfg.suite
         /\ First = Suite /\ Suite \in Runs /\ Suite \notin Hunts
         /\ at[p].todo \in Seq(Hunts) /\ at[p].todo # <<>>
         /\ ~Ended(at[p].seen) /\ ~Ended(at[p].top) /\ Created(First) /\ p # Drive
         /\ \A q \in Threads : q # p => at[q].job # "start"
         /\ at[p].top # Blank => AllBorn
         /\ \A i \in DOMAIN at[p].todo : ~Created(at[p].todo[i])
         /\ \A i, j \in DOMAIN at[p].todo : at[p].todo[i] = at[p].todo[j] => i = j
         /\ \A j \in DOMAIN Members :
              Created(Members[j]) \/ \E i \in DOMAIN at[p].todo : at[p].todo[i] = Members[j]
<1>1. /\ at[p] \in Locals /\ Local(p) /\ Grown(p) /\ Due(p) = "create" /\ OneStart
  BY InvParts, LocalTyped DEF Patching, Due
<1>2. at[p].job = "start" /\ at[p].run = First /\ cfg.suite
  BY <1>1 DEF Grown, Jobbed, Local, Suited, SuiteSteps
<1>3. First = Suite /\ Suite \in Runs /\ Suite \notin Hunts
  BY <1>2, NamesAssumption DEF First, Runs
<1>4. /\ at[p].todo \in Seq(Hunts) /\ at[p].todo # <<>>
      /\ ~Ended(at[p].seen) /\ ~Ended(at[p].top) /\ Created(First) /\ p # Drive
      /\ at[p].top # Blank => AllBorn
  BY <1>1, <1>2 DEF Locals, Local, Listing, Heeds, Grown, Jobbed, Born, Listed
<1> QED
  BY <1>1, <1>2, <1>3, <1>4 DEF OneStart, Grown, Birth

(* What the starting thread is at after a member, or a failure.            *)
LEMMA CreatedGood ==
  ASSUME Inv, Onward, NEW p \in Threads, at[p].step = "create", NEW f \in Locals, at'[p] = f,
         f.job = "start", f.run = First, f.seen = at[p].seen, f.top = at[p].top,
         f.kids = at[p].kids,
         \/ f.step = "finish" /\ f.put = "error" /\ f.then = "idle"
         \/ f.step = "finish" /\ f.put = "list" /\ f.then = "spawn" /\ AllBorn'
         \/ /\ f.step = "create" /\ f.todo # <<>> /\ f.then = at[p].then
            /\ Birth(p)'
  PROVE  Good(p)'
<1>1. /\ at[p] \in Locals /\ at[p].job = "start" /\ at[p].run = First /\ cfg.suite
      /\ First = Suite /\ Suite \in Runs /\ Suite \notin Hunts
      /\ ~Ended(at[p].seen) /\ ~Ended(at[p].top) /\ Created(First) /\ p # Drive
      /\ at[p].top # Blank => AllBorn
  BY CreateFacts
<1>2. Local(p) /\ RestOK /\ cfg' = cfg
  BY InvParts DEF Onward
<1>3. /\ Members' = Members /\ First' = First /\ Created(First)' /\ (AllBorn => AllBorn')
  BY <1>1, <1>2, BornOnward
<1>4. /\ Patching(p)' <=> f.step = "finish"
      /\ Due(p)' \in {"idle", "spawn", "create"}
      /\ Due(p)' = "spawn" => AllBorn'
      /\ Due(p)' = "create" <=> f.step = "create"
      /\ f.step \in {"finish", "create"}
  BY DEF Patching, Due
<1>5. /\ {"idle", "spawn"} \subseteq Thens
      /\ \A s \in {"idle", "spawn", "create"} : s \notin Hunting /\ s \notin HuntSteps
      /\ "error" \notin Scores /\ "list" \notin Scores
  BY DEF Thens, Hunting, HuntSteps, Scores
<1>6. Local(p)'
  BY <1>1, <1>2, <1>4, <1>5 DEF Local, Lined, Driven, OnHunt, Tasked, Returns, Listing, Placed,
     Suited, Heeds
<1>7. Grown(p)'
  <2>1. Jobbed(p)' /\ Listed(p)'
    BY <1>1, <1>2, <1>3, <1>4 DEF Jobbed, Listed
  <2>2. Born(p)' /\ ToDo(p)'
    BY <1>3, <1>4 DEF Born, ToDo, Created
  <2>3. Birth(p)'
    BY DEF Birth
  <2> QED
    BY <2>1, <2>2, <2>3 DEF Grown
<1>8. RanLocal(p)' /\ VerdictLocal(p)'
  BY <1>1, <1>4, <1>5 DEF RanLocal, VerdictLocal, Summing
<1> QED
  BY <1>6, <1>7, <1>8 DEF Good

LEMMA CreateInv ==
  ASSUME Inv, NEW p \in Threads, Create(p) PROVE Inv'
<1> DEFINE t    == at[p]
           k    == Head(t.todo)
           next == [t EXCEPT !.todo = Tail(t.todo)]
<1>1. /\ t.step = "create" /\ UNCHANGED <<cfg, harness, old, past>>
      /\ \/ Fault /\ Set(p, Finish(t, "error", "idle")) /\ UNCHANGED row
         \/ /\ row' = [row EXCEPT ![k].status = "queued"]
            /\ Set(p, IF next.todo # <<>> THEN next ELSE Finish(next, "list", "spawn"))
            /\ UNCHANGED used
  BY DEF Create
<1>2. /\ t \in Locals /\ t.job = "start" /\ t.run = First /\ cfg.suite
      /\ First = Suite /\ Suite \in Runs /\ Suite \notin Hunts
      /\ t.todo \in Seq(Hunts) /\ t.todo # <<>> /\ Created(First) /\ p # Drive
      /\ \A q \in Threads : q # p => at[q].job # "start"
      /\ \A i \in DOMAIN t.todo : ~Created(t.todo[i])
      /\ \A i, j \in DOMAIN t.todo : t.todo[i] = t.todo[j] => i = j
      /\ \A j \in DOMAIN Members :
           Created(Members[j]) \/ \E i \in DOMAIN t.todo : t.todo[i] = Members[j]
  BY <1>1, CreateFacts
<1>3. /\ RowOK /\ AtOK /\ HarOK /\ RestOK /\ PastOK /\ RunsGood /\ RalphInv
      /\ \A q \in Threads : Grown(q)
  BY InvParts
<1>4. /\ k \in Hunts /\ t.todo[1] = k /\ 1 \in DOMAIN t.todo /\ Tail(t.todo) \in Seq(Hunts)
      /\ \A i \in DOMAIN Tail(t.todo) :
           i + 1 \in DOMAIN t.todo /\ Tail(t.todo)[i] = t.todo[i + 1] /\ i \in Nat
      /\ \A i \in DOMAIN t.todo :
           i = 1 \/ (i - 1 \in DOMAIN Tail(t.todo) /\ Tail(t.todo)[i - 1] = t.todo[i])
      /\ k \in Runs /\ k # First /\ ~Created(k)
  <2>1. /\ k \in Hunts /\ t.todo[1] = k /\ 1 \in DOMAIN t.todo /\ Tail(t.todo) \in Seq(Hunts)
        /\ \A i \in DOMAIN Tail(t.todo) :
             i + 1 \in DOMAIN t.todo /\ Tail(t.todo)[i] = t.todo[i + 1] /\ i \in Nat
        /\ \A i \in DOMAIN t.todo :
             i = 1 \/ (i - 1 \in DOMAIN Tail(t.todo) /\ Tail(t.todo)[i - 1] = t.todo[i])
    BY <1>2, SeqFacts
  <2> QED
    BY <1>2, <2>1 DEF Runs
<1>5. /\ {"error", "list"} \subseteq Puts /\ {"idle", "spawn"} \subseteq Steps
  BY StepNames DEF Puts, Terminal
<1> HIDE DEF k
<1>6. CASE Fault /\ Set(p, Finish(t, "error", "idle")) /\ UNCHANGED row
  <2> DEFINE f == Finish(t, "error", "idle")
  <2>1. /\ f \in Locals /\ f.job = "start" /\ f.step = "finish" /\ f.run = First
        /\ f.seen = t.seen /\ f.top = t.top /\ f.kids = t.kids /\ f.put = "error"
        /\ f.then = "idle"
    <3>1. "error" \in Puts /\ "idle" \in Steps
      BY <1>5
    <3> QED
      BY <1>2, <3>1, FinishFacts
  <2> HIDE DEF f
  <2>2. Set(p, f)
    BY <1>6 DEF f
  <2>3. at'[p] = f /\ Onward /\ RestOK'
    BY <1>1, <1>3, <1>6, <2>1, <2>2, SetFacts, UnchangedOnward DEF RestOK, Fault, Spend
  <2>4. Good(p)'
    BY <1>1, <2>1, <2>3, CreatedGood
  <2> QED
    BY <1>1, <1>2, <1>6, <2>1, <2>2, <2>3, <2>4, QuietInv
<1>7. CASE /\ row' = [row EXCEPT ![k].status = "queued"]
           /\ Set(p, IF next.todo # <<>> THEN next ELSE Finish(next, "list", "spawn"))
           /\ UNCHANGED used
  <2>1. /\ RowOK' /\ row'[k].status = "queued"
        /\ \A r \in Runs : r # k => row'[r] = row[r]
        /\ \A r \in Runs : row'[r].listed = row[r].listed
    <3>1. row[k] \in Rows /\ "queued" \in Statuses /\ k # Suite
      BY <1>2, <1>3, <1>4 DEF RowOK, Statuses
    <3>2. /\ row' \in [Runs -> Rows] /\ row'[k].status = "queued"
          /\ \A r \in Runs : r # k => row'[r] = row[r]
          /\ row'[k].listed = row[k].listed
      BY <1>3, <1>4, <1>7, <3>1 DEF RowOK, Rows
    <3> QED
      BY <1>2, <1>3, <3>1, <3>2 DEF RowOK
  <2>2. Onward /\ RestOK' /\ HarOK' /\ PastOK' /\ cfg' = cfg
    <3>1. ~Ended(row[k])
      BY <1>4 DEF Created, Ended, Terminal
    <3> QED
      BY <1>1, <1>3, <1>4, <1>7, <2>1, <3>1 DEF Onward, Created, RestOK, HarOK, PastOK
  <2>3. /\ Members' = Members /\ First' = First /\ Created(First)' /\ (AllBorn => AllBorn')
        /\ \A i \in DOMAIN Members : Members[i] \in Hunts /\ Members[i] \in Runs
    BY <1>2, <1>3, <2>2, BornOnward, MembersTyped DEF Runs
  <2>4. /\ next \in Locals /\ next.job = "start" /\ next.step = "create" /\ next.run = First
        /\ next.seen = t.seen /\ next.top = t.top /\ next.kids = t.kids
        /\ next.then = t.then /\ next.todo = Tail(t.todo)
    BY <1>1, <1>2, <1>4 DEF Locals
  <2> HIDE DEF next
  <2>5. row'[k].status # "none" /\ \A r \in Runs : r # k => row'[r].status = row[r].status
    BY <2>1
  <2>6. PICK f \in Locals :
          /\ Set(p, f) /\ f.job = "start" /\ f.run = First
          /\ f.seen = t.seen /\ f.top = t.top /\ f.kids = t.kids
          /\ \/ next.todo = <<>> /\ f.step = "finish" /\ f.put = "list" /\ f.then = "spawn"
             \/ f.step = "create" /\ f.todo = Tail(t.todo) /\ f.todo # <<>> /\ f.then = t.then
    <3>1. CASE next.todo # <<>>
      <4>1. Set(p, next)
        BY <1>7, <3>1
      <4> QED
        BY <2>4, <3>1, <4>1
    <3>2. CASE next.todo = <<>>
      <4>1. Set(p, Finish(next, "list", "spawn"))
        BY <1>7, <3>2
      <4>2. "list" \in Puts /\ "spawn" \in Steps
        BY <1>5
      <4>3. /\ Finish(next, "list", "spawn") \in Locals
            /\ Finish(next, "list", "spawn").job = "start"
            /\ Finish(next, "list", "spawn").run = First
            /\ Finish(next, "list", "spawn").seen = t.seen
            /\ Finish(next, "list", "spawn").top = t.top
            /\ Finish(next, "list", "spawn").kids = t.kids
            /\ Finish(next, "list", "spawn").step = "finish"
            /\ Finish(next, "list", "spawn").put = "list"
            /\ Finish(next, "list", "spawn").then = "spawn"
        BY <2>4, <4>2, FinishFacts
      <4> QED
        BY <3>2, <4>1, <4>3
    <3> QED
      BY <3>1, <3>2
  <2>7. AtOK' /\ at'[p] = f /\ \A q \in Threads : q # p => at'[q] = at[q]
    BY <1>3, <2>6, SetFacts
  <2>8. next.todo = <<>> => AllBorn'
    <3> SUFFICES ASSUME next.todo = <<>>, NEW j \in DOMAIN Members
                 PROVE  row'[Members[j]].status # "none"
      BY <2>3 DEF AllBorn, Created
    <3>1. Len(t.todo) = 1
      BY <1>2, <2>4, SeqFacts
    <3>2. \A i \in DOMAIN t.todo : i = 1
      BY <1>2, <3>1
    <3>3. Created(Members[j]) \/ Members[j] = k
      BY <1>2, <1>4, <3>2
    <3> QED
      BY <2>3, <2>5, <3>3 DEF Created
  <2>9. f.step = "create" => Birth(p)'
    <3> SUFFICES ASSUME f.step = "create" PROVE Birth(p)'
      OBVIOUS
    <3>1. f.todo = Tail(t.todo)
      BY <2>6
    <3>2. \A i \in DOMAIN Tail(t.todo) : row'[Tail(t.todo)[i]].status = "none"
      <4> SUFFICES ASSUME NEW i \in DOMAIN Tail(t.todo)
                   PROVE  row'[Tail(t.todo)[i]].status = "none"
        OBVIOUS
      <4>1. i + 1 \in DOMAIN t.todo /\ Tail(t.todo)[i] = t.todo[i + 1] /\ i \in Nat
        BY <1>4
      <4>2. i \in 1..Len(Tail(t.todo))
        BY <1>4
      <4>3. i + 1 # 1
        BY <4>2
      <4>4. t.todo[i + 1] # k
        BY <1>2, <1>4, <4>1, <4>3
      <4>5. t.todo[i + 1] \in Runs /\ ~Created(t.todo[i + 1])
        BY <1>2, <4>1 DEF Runs
      <4>6. row'[t.todo[i + 1]].status = "none"
        BY <2>5, <4>4, <4>5 DEF Created
      <4> QED
        BY <4>1, <4>6
    <3>3. ASSUME NEW i \in DOMAIN Tail(t.todo), NEW j \in DOMAIN Tail(t.todo),
                 Tail(t.todo)[i] = Tail(t.todo)[j]
          PROVE  i = j
      <4>1. /\ i + 1 \in DOMAIN t.todo /\ Tail(t.todo)[i] = t.todo[i + 1] /\ i \in Nat
            /\ j + 1 \in DOMAIN t.todo /\ Tail(t.todo)[j] = t.todo[j + 1] /\ j \in Nat
        BY <1>4
      <4>2. i + 1 = j + 1
        BY <1>2, <3>3, <4>1
      <4> QED
        BY <4>1, <4>2
    <3>4. ASSUME NEW j \in DOMAIN Members, row'[Members[j]].status = "none"
          PROVE  \E i \in DOMAIN Tail(t.todo) : Tail(t.todo)[i] = Members[j]
      <4>1. ~Created(Members[j]) /\ Members[j] # k
        BY <2>3, <2>5, <3>4 DEF Created
      <4>2. PICK i \in DOMAIN t.todo : t.todo[i] = Members[j]
        BY <1>2, <4>1
      <4>3. i # 1
        BY <1>4, <4>1, <4>2
      <4> QED
        BY <1>4, <4>2, <4>3
    <3>5. at'[p].todo = Tail(t.todo)
      BY <2>7, <3>1
    <3> QED
      BY <2>3, <3>2, <3>3, <3>4, <3>5 DEF Birth, Created
  <2>10. Good(p)'
    BY <1>1, <2>2, <2>6, <2>7, <2>8, <2>9, CreatedGood
  <2>11. \A q \in Threads : Good(q)'
    <3>1. ASSUME NEW q \in Threads, q # p PROVE at[q].step # "create"
      <4>1. at[q].step = "create" => Due(q) = "create"
        BY DEF Due, Patching
      <4> QED
        BY <1>2, <1>3, <3>1, <4>1 DEF Grown, Jobbed
    <3> QED
      BY <2>2, <2>7, <2>10, <3>1, OthersGood
  <2>12. RunsGood'
    <3>1. Started' /\ RowList'
      BY <1>3, <2>1, <2>2, <2>3 DEF Started, RowList, RunsGood
    <3>2. \A h \in Hunts : RanHunt(h)'
      <4>1. \A h \in Hunts : h \in Runs /\ (row'[h].status \in Scores => row'[h] = row[h])
        BY <2>1 DEF Runs, Scores
      <4> QED
        BY <1>1, <1>3, <2>3, <4>1 DEF RunsGood, RanHunt, Ran, Alive
    <3>3. (~past'.reopened /\ row'[Suite].status \in Scores) => BackedBy(row[Suite].status)'
      <4>1. row'[Suite] = row[Suite]
        BY <1>2, <1>4, <2>1
      <4>2. ASSUME ~past'.reopened, row'[Suite].status \in Scores
            PROVE  BackedBy(row[Suite].status)'
        <5>1. BackedBy(row[Suite].status)
          BY <1>1, <1>3, <4>1, <4>2 DEF RunsGood
        <5> QED
          BY <2>2, <2>3, <4>1, <4>2, <5>1 DEF BackedBy, Onward, Ended
      <4> QED
        BY <4>2
    <3> QED
      BY <3>1, <3>2, <3>3 DEF RunsGood
  <2>13. OneStart' /\ RalphInv'
    <3>1. at'[Drive] = at[Drive]
      BY <1>2, <2>7 DEF Threads
    <3>2. \A h \in Hunts : Alive(h)' => Alive(h)
      BY <1>1 DEF Alive
    <3> QED
      BY <1>1, <1>2, <2>2, <2>6, <2>7, <3>1, <3>2, JobsKept
  <2> QED
    BY <2>1, <2>2, <2>7, <2>11, <2>12, <2>13, InvOfParts DEF Typed
<1> QED
  BY <1>1, <1>6, <1>7

(* The driver is started: it has the one hunt, or all the members.         *)
LEMMA SpawnInv ==
  ASSUME Inv, NEW p \in Threads, Spawn(p) PROVE Inv'
<1> DEFINE u == [Idle EXCEPT !.job = "drive", !.todo = Members]
           f == IF cfg.suite THEN [u EXCEPT !.step = "loop"]
                ELSE [u EXCEPT !.run = First, !.line = 1, !.step = Script[1]]
<1>1. /\ at[p].step = "spawn" /\ UNCHANGED <<cfg, row, harness, old, used, past>>
      /\ at' = [at EXCEPT ![p] = Idle, ![Drive] = f]
  BY DEF Spawn
<1>2. /\ at[p] \in Locals /\ Grown(p) /\ Due(p) = "spawn" /\ AtOK /\ RestOK /\ OneStart
      /\ RalphInv /\ RunsGood /\ Drive \in Threads /\ Grown(Drive)
  BY <1>1, InvParts, LocalTyped DEF Patching, Due, Threads
<1>3. /\ at[p].job = "start" /\ p # Drive /\ at[Drive] = Idle
      /\ \A q \in Threads : q # p => at[q].job # "start"
      /\ Created(First) /\ (cfg.suite => AllBorn)
  <2>1. at[p].job = "start" /\ p # Drive
    BY <1>2 DEF Grown, Jobbed
  <2> QED
    BY <1>2, <2>1 DEF Grown, Jobbed, Born, Listed, OneStart
<1>4. /\ Members \in Seq(Hunts) /\ Members # <<>> /\ First \in Runs /\ Len(Members) \in Nat
      /\ cfg.suite \in BOOLEAN /\ (~cfg.suite => Len(Members) = 1)
      /\ \A i \in DOMAIN Members : Members[i] \in Hunts
  <2>1. /\ Members \in Seq(Hunts) /\ Members # <<>> /\ First \in Runs /\ Len(Members) \in Nat
        /\ cfg.suite \in BOOLEAN /\ (~cfg.suite => Len(Members) = 1)
        /\ \A i \in DOMAIN Members : Members[i] \in Hunts
    BY <1>2, MembersTyped
  <2> QED
    BY <2>1
<1>5. /\ RunsGood' /\ RowOK' /\ HarOK' /\ PastOK' /\ Onward /\ Steady
  BY <1>1, RunsAsTheyWere
<1>6. Members' = Members /\ First' = First /\ Created(First)' /\ (AllBorn => AllBorn')
  BY <1>2, <1>3, <1>5, BornOnward
<1>7. ~cfg.suite => First \in Hunts /\ First = Members[1] /\ \A i \in DOMAIN Members : i = 1
  <2> HIDE DEF Members
  <2>1. Head(Members) = Members[1] /\ 1 \in DOMAIN Members
    BY <1>4
  <2> QED
    BY <1>4, <2>1 DEF First
<1>8. \A i \in DOMAIN Members : Created(Members[i])'
  <2>1. AllBorn
    BY <1>3, <1>4, <1>7 DEF AllBorn
  <2> QED
    BY <1>6, <2>1 DEF AllBorn, Created
<1>9. /\ f \in Locals /\ f.job = "drive" /\ f.todo = Members /\ f.seen = Blank /\ f.raw = Blank
      /\ f.put = "keep" /\ f.then = "idle" /\ f.kids = <<>> /\ f.top = Blank
      /\ \/ cfg.suite /\ f.step = "loop" /\ f.run = Suite
         \/ ~cfg.suite /\ f.step = "open" /\ f.run = First /\ f.line = 1
  <2>1. /\ "drive" \in Jobs /\ {"loop", "open"} \subseteq Steps /\ 1 \in 0..Len(Script)
        /\ Script[1] = "open"
    BY StepNames, ScriptFacts DEF Jobs
  <2>2. /\ Idle \in Locals /\ Idle.seen = Blank /\ Idle.raw = Blank /\ Idle.put = "keep"
        /\ Idle.then = "idle" /\ Idle.kids = <<>> /\ Idle.top = Blank /\ Idle.run = Suite
    BY IdleFacts
  <2>3. /\ u \in Locals /\ u.seen = Blank /\ u.raw = Blank /\ u.put = "keep"
        /\ u.then = "idle" /\ u.kids = <<>> /\ u.top = Blank /\ u.run = Suite
        /\ u.job = "drive" /\ u.todo = Members
    BY <1>4, <2>1, <2>2 DEF Locals
  <2> HIDE DEF u
  <2> QED
    BY <1>4, <2>1, <2>3 DEF Locals
<1> HIDE DEF f
<1>10. /\ AtOK' /\ at'[p] = Idle /\ at'[Drive] = f
       /\ \A q \in Threads : q # p /\ q # Drive => at'[q] = at[q]
  BY <1>1, <1>2, <1>3, <1>9, IdleFacts DEF AtOK
<1>11. ~Patching(Drive)' /\ Due(Drive)' = f.step
  BY <1>9, <1>10 DEF Patching, Due
<1>12. Local(Drive)'
  <2>1. /\ "idle" \in Thens /\ ~Ended(Blank) /\ "open" \in Hunting /\ "open" \in HuntSteps
        /\ "open" \notin SuiteSteps /\ "loop" \notin HuntSteps /\ "loop" \notin Hunting
        /\ 1 \in 1..19 /\ Script[1] = "open" /\ cfg' = cfg
    BY <1>1, IdleFacts, ScriptFacts DEF Thens, Hunting, HuntSteps, SuiteSteps
  <2> QED
    BY <1>4, <1>7, <1>9, <1>10, <1>11, <2>1 DEF Local, Lined, Driven, OnHunt, Tasked, Returns,
       Listing, Placed, Suited, Heeds
<1>13. Grown(Drive)'
  <2>1. Created(at[Drive].run)'
    BY <1>6, <1>9, <1>10 DEF First, Created
  <2>2. cfg' = cfg /\ ~Ended(Blank)
    BY <1>1, IdleFacts
  <2>3. Jobbed(Drive)' /\ Listed(Drive)'
    BY <1>3, <1>6, <1>9, <1>10, <1>11, <2>2 DEF Jobbed, Listed
  <2>4. Born(Drive)' /\ ToDo(Drive)' /\ Birth(Drive)'
    BY <1>6, <1>8, <1>9, <1>10, <2>1 DEF Born, ToDo, Birth, Created
  <2> QED
    BY <2>3, <2>4 DEF Grown
<1>14. RanLocal(Drive)' /\ VerdictLocal(Drive)'
  BY <1>9, <1>10, <1>11 DEF RanLocal, VerdictLocal, Summing, Hunting
<1>15. \A q \in Threads : Good(q)'
  <2>1. Good(p)' /\ Good(Drive)'
    BY <1>10, <1>12, <1>13, <1>14, IdleGood DEF Good
  <2>2. \A r \in Hunts : ~Created(r) => ~Created(r)'
    BY <1>1 DEF Created
  <2> QED
    BY <1>5, <1>10, <2>1, <2>2, OthersGood
<1>16. OneStart'
  BY <1>3, <1>9, <1>10, IdleFacts DEF OneStart
<1>17. RalphInv'
  <2>1. past.polled \/ \A h \in Hunts : ~Alive(h)
    BY <1>2, <1>3, IdleFacts DEF RalphInv, NoDriver
  <2> QED
    BY <1>1, <2>1 DEF RalphInv, Alive
<1>18. RestOK'
  BY <1>1, <1>2 DEF RestOK
<1> QED
  BY <1>5, <1>10, <1>15, <1>16, <1>17, <1>18, InvOfParts DEF Typed

-----------------------------------------------------------------------------
(* The invariant holds at the start and after every step.                  *)
LEMMA InitInv == Init => Inv
<1> SUFFICES ASSUME Init PROVE Inv
  OBVIOUS
<1>1. /\ cfg \in Configs /\ row = [r \in Runs |-> Blank] /\ harness = [h \in Hunts |-> Empty]
      /\ at = [p \in Threads |-> Idle] /\ old = FALSE /\ past = Nothing
      /\ used = [what \in {"stops", "restarts", "faults"} |-> 0]
  BY DEF Init
<1>2. /\ \A r \in Runs : row[r] = Blank /\ ~Created(r)
      /\ \A h \in Hunts : ~Alive(h) /\ row[h] = Blank
      /\ \A p \in Threads : at[p] = Idle
      /\ Suite \in Runs
  BY <1>1, IdleFacts DEF Created, Alive, Empty, Runs
<1>3. Typed
  <2>1. AtOK /\ RowOK
    BY <1>1, <1>2, IdleFacts DEF AtOK, RowOK
  <2>2. HarOK /\ RestOK /\ PastOK
    BY <1>1 DEF HarOK, RestOK, PastOK, Empty, Nothing, NoRalph
  <2> QED
    BY <2>1, <2>2 DEF Typed
<1>4. \A p \in Threads : Good(p)
  <2> SUFFICES ASSUME NEW p \in Threads PROVE Good(p)
    OBVIOUS
  <2>1. at[p] = Idle /\ ~Patching(p) /\ Due(p) = "idle"
    BY <1>2, IdleFacts DEF Patching, Due
  <2>2. Local(p)
    BY <2>1, IdleFacts DEF Local, Lined, Driven, OnHunt, Tasked, Returns, Listing, Placed, Suited,
       Heeds, Hunting, HuntSteps, Thens, SuiteSteps
  <2>3. Grown(p)
    BY <2>1, IdleFacts DEF Grown, Jobbed, Born, ToDo, Birth, Listed
  <2>4. RanLocal(p) /\ VerdictLocal(p)
    BY <2>1, IdleFacts DEF RanLocal, VerdictLocal, Summing, Hunting
  <2> QED
    BY <2>2, <2>3, <2>4 DEF Good
<1>5. RunsGood
  <2>1. Started /\ RowList
    BY <1>2, IdleFacts DEF Started, RowList
  <2>2. \A h \in Hunts : RanHunt(h)
    BY <1>1, <1>2, IdleFacts DEF RanHunt, Nothing, Scores
  <2>3. row[Suite].status \notin Scores
    BY <1>2, IdleFacts DEF Scores
  <2> QED
    BY <2>1, <2>2, <2>3 DEF RunsGood
<1>6. OneStart /\ RalphInv
  BY <1>2, IdleFacts DEF OneStart, RalphInv
<1> QED
  BY <1>3, <1>4, <1>5, <1>6 DEF Inv, TypeInv, BirthInv, RanInv, VerdictInv, Good, RunsGood

LEMMA ThreadInv ==
  ASSUME Inv, NEW p \in Threads, ThreadStep(p) PROVE Inv'
<1>1. CASE UpdateStep(p)
  BY <1>1, ReadRowInv, WriteRowInv DEF UpdateStep
<1>2. CASE DriveStep(p)
  BY <1>2, LoopInv, OpenLiveInv, MarkInv, LineFailsInv, PrepareInv, EnqueueHintsInv, StartOneInv,
     FailInv DEF DriveStep
<1>3. CASE SharedStep(p)
  BY <1>3, ScoreInv, CloseHuntInv, ParentInv, NextKidInv DEF SharedStep
<1>4. CASE RequestStep(p)
  BY <1>4, LookAliveInv, LookQueuedInv, StopKidInv, KillInv, CreateInv, SpawnInv DEF RequestStep
<1> QED
  BY <1>1, <1>2, <1>3, <1>4 DEF ThreadStep

LEMMA NextInv ==
  ASSUME Inv, [Next]_vars PROVE Inv'
<1>1. CASE \E p \in Threads : ThreadStep(p)
  BY <1>1, ThreadInv
<1>2. CASE \E p, q \in Threads : Collide(p, q)
  BY <1>2, CollideInv
<1>3. CASE \E p \in Requests, r \in Runs : Look(p, r) \/ Stop(p, r)
  BY <1>3, LookInv, StopInv
<1>4. CASE \E p \in Requests : Start(p)
  BY <1>4, StartInv
<1>5. CASE \E h \in Hunts : RalphWorks(h) \/ RalphLeaves(h)
  BY <1>5, RalphStepsInv
<1>6. CASE Restart
  BY <1>6, RestartInv
<1>7. CASE Age \/ UNCHANGED vars
  BY <1>7, AgeInv
<1> QED
  BY <1>1, <1>2, <1>3, <1>4, <1>5, <1>6, <1>7 DEF Next

(* Inv holds in every state the runs, the driver and the requests reach.   *)
THEOREM InvAlways == Spec => []Inv
<1>1. Inv /\ [Next]_vars => Inv'
  BY NextInv
<1> QED
  BY InitInv, <1>1, PTL DEF Spec

-----------------------------------------------------------------------------
(* Rows, harnesses and locals always have their types (result.json as      *)
(* update_run writes it, the locals of drive_live_hunt and of the          *)
(* handlers).                                                              *)
THEOREM TypeCorrect == Spec => []TypeOK
<1>1. Inv => TypeOK
  BY InvParts, TypedIsTypeOK
<1> QED
  BY <1>1, InvAlways, PTL

(* No hunt is ever closed as scored of which nobody started a Ralph or     *)
(* found the harness empty before its first hint was in                    *)
(* (drive_live_hunt, reconcile_live_run).                                  *)
THEOREM HuntRanAlways == Spec => []HuntRan
<1>1. Inv => HuntRan
  BY InvParts DEF RunsGood, RanHunt, HuntRan, Ran, Scores
<1> QED
  BY <1>1, InvAlways, PTL

(* The verdict of a suite is backed by the ends of its members as long as  *)
(* no overlapping write has changed an end (project_suite_parent).         *)
THEOREM VerdictsBacked == Spec => []VerdictBacked
<1>1. Inv => VerdictBacked
  BY InvParts DEF RunsGood, VerdictBacked, BackedBy, Scores
<1> QED
  BY <1>1, InvAlways, PTL

(* Until a poll starts a Ralph, at most one Ralph of a live run and its    *)
(* members is alive (drive_live_suite waits for each before the next).     *)
THEOREM OneRalphAtATime == Spec => []OneRalph
<1>1. Inv => OneRalph
  BY InvParts DEF RalphInv, OneRalph
<1> QED
  BY <1>1, InvAlways, PTL

-----------------------------------------------------------------------------
(* Ends are heeded.  A row changes when it is written, and when runs are   *)
(* created; a Ralph is started by the driver and by a poll.                *)
RowHeeded(r) ==
  Ended(row[r]) /\ row'[r].status # row[r].status =>
    \E p \in Threads : /\ at[p].step = "write" /\ at[p].run = r
                       /\ ~Ended(at[p].seen) \/ at[p].put = at[p].seen.status
RalphHeeded(h) ==
  ~Alive(h) /\ Alive(h)' =>
    \E p \in Threads : /\ at[p].step \in {"start", "queued"} /\ at[p].run = h
                       /\ ~Ended(at[p].seen)
Heeded == (\A r \in Runs : RowHeeded(r)) /\ (\A h \in Hunts : RalphHeeded(h))

LEMMA PublishHeeded ==
  ASSUME Inv, NEW p \in Threads, at[p].step = "write", NEW c \in BOOLEAN, Publish(at[p], c)
  PROVE  \A r \in Runs : RowHeeded(r)
<1>1. /\ RowOK /\ Heeds(p) /\ Patching(p) /\ at[p].run \in Runs
  BY InvParts, LocalTyped DEF Local, Patching
<1>2. ~Ended(at[p].seen) \/ at[p].put = at[p].seen.status
  BY <1>1 DEF Heeds
<1>3. \A r \in Runs : r # at[p].run => row'[r] = row[r]
  BY <1>1 DEF Publish, RowOK
<1> QED
  BY <1>2, <1>3 DEF RowHeeded

LEMMA CreateHeeded ==
  ASSUME Inv, NEW p \in Threads, Create(p) PROVE Heeded
<1>1. /\ at[p].step = "create" /\ UNCHANGED harness
      /\ row' = row \/ row' = [row EXCEPT ![Head(at[p].todo)].status = "queued"]
  BY DEF Create
<1>2. /\ at[p].todo \in Seq(Hunts) /\ at[p].todo # <<>> /\ RowOK
      /\ \A i \in DOMAIN at[p].todo : ~Created(at[p].todo[i])
  BY <1>1, CreateFacts, InvParts
<1>3. ~Created(Head(at[p].todo))
  <2>1. 1 \in DOMAIN at[p].todo /\ at[p].todo[1] = Head(at[p].todo)
    BY <1>2, SeqFacts
  <2> QED
    BY <1>2, <2>1
<1>4. ~Ended(row[Head(at[p].todo)])
  BY <1>3 DEF Created, Ended, Terminal
<1>5. \A r \in Runs : r # Head(at[p].todo) => row'[r] = row[r]
  BY <1>1, <1>2 DEF RowOK
<1> QED
  BY <1>1, <1>4, <1>5 DEF Heeded, RowHeeded, RalphHeeded, Alive

LEMMA StartedHeeded ==
  ASSUME Inv, NEW p \in Threads, StartOne(p) \/ LookQueued(p) PROVE Heeded
<1>1. /\ at[p].step \in {"start", "queued"} /\ UNCHANGED row
      /\ harness' = harness \/ StartRalph(at[p].run)
  BY DEF StartOne, LookQueued
<1>2. ~Ended(at[p].seen)
  <2>1. CASE at[p].step = "start"
    BY <2>1, HuntingFacts DEF Hunting
  <2>2. CASE at[p].step = "queued"
    BY <2>2, InvParts DEF Local, Heeds
  <2> QED
    BY <1>1, <2>1, <2>2
<1>3. \A h \in Hunts : h # at[p].run => harness'[h] = harness[h]
  BY <1>1, InvParts DEF StartRalph, HarOK
<1> QED
  BY <1>1, <1>2, <1>3 DEF Heeded, RowHeeded, RalphHeeded, Alive

LEMMA NextHeeded ==
  ASSUME Inv, Next PROVE Heeded
<1>1. ASSUME row' = row, \A h \in Hunts : Alive(h)' => Alive(h) PROVE Heeded
  BY <1>1 DEF Heeded, RowHeeded, RalphHeeded
<1>2. ASSUME UNCHANGED <<row, harness>> PROVE Heeded
  BY <1>1, <1>2 DEF Alive
<1>3. ASSUME NEW p \in Threads, at[p].step = "write", NEW c \in BOOLEAN, Publish(at[p], c),
             UNCHANGED harness
      PROVE  Heeded
  <2>1. \A r \in Runs : RowHeeded(r)
    BY <1>3, PublishHeeded
  <2> QED
    BY <1>3, <2>1 DEF Heeded, RalphHeeded, Alive
<1>4. ASSUME NEW p \in Threads, ThreadStep(p) PROVE Heeded
  <2>1. CASE ReadRow(p)
    BY <1>2, <2>1 DEF ReadRow
  <2>2. CASE WriteRow(p)
    BY <1>3, <2>2 DEF WriteRow
  <2>3. CASE DriveStep(p) /\ ~EnqueueHints(p) /\ ~StartOne(p)
    BY <1>2, <2>3 DEF DriveStep, Loop, OpenLive, Mark, LineFails, Prepare, WaitIdle, Fail
  <2>4. CASE EnqueueHints(p)
    <3>1. /\ UNCHANGED row /\ HarOK
          /\ harness' = [harness EXCEPT ![at[p].run].work = @ + cfg.hints]
      BY <2>4, InvParts DEF EnqueueHints
    <3>2. \A h \in Hunts : harness'[h].ralph = harness[h].ralph
      BY <3>1 DEF HarOK
    <3> QED
      BY <1>1, <3>1, <3>2 DEF Alive
  <2>5. CASE SharedStep(p)
    BY <1>2, <2>5 DEF SharedStep, Score, CloseHunt, Parent, NextKid
  <2>6. CASE LookAlive(p) \/ StopKid(p) \/ Spawn(p)
    BY <1>2, <2>6 DEF LookAlive, StopKid, Spawn
  <2>7. CASE Kill(p)
    <3>1. /\ UNCHANGED row /\ HarOK
          /\ harness' = harness \/ harness' = [harness EXCEPT ![at[p].run].ralph = NoRalph]
      BY <2>7, InvParts DEF Kill
    <3>2. \A h \in Hunts : harness'[h].ralph \in {harness[h].ralph, NoRalph}
      BY <3>1 DEF HarOK
    <3> QED
      BY <1>1, <3>1, <3>2 DEF Alive
  <2>8. CASE Create(p)
    BY <2>8, CreateHeeded
  <2>9. CASE StartOne(p) \/ LookQueued(p)
    BY <2>9, StartedHeeded
  <2> QED
    BY <1>4, <2>1, <2>2, <2>3, <2>4, <2>5, <2>6, <2>7, <2>8, <2>9
       DEF ThreadStep, UpdateStep, RequestStep
<1>5. CASE \E p, q \in Threads : Collide(p, q)
  BY <1>3, <1>5 DEF Collide
<1>6. CASE \E p \in Requests, r \in Runs : Look(p, r) \/ Stop(p, r)
  BY <1>2, <1>6 DEF Look, Stop
<1>7. CASE \E p \in Requests : Start(p)
  <2>1. /\ \A r \in Runs : row[r].status = "none"
        /\ UNCHANGED harness
    BY <1>7 DEF Start
  <2> QED
    BY <2>1 DEF Heeded, RowHeeded, RalphHeeded, Alive, Ended, Terminal
<1>8. CASE \E h \in Hunts : RalphWorks(h) \/ RalphLeaves(h)
  <2>1. PICK h \in Hunts : RalphWorks(h) \/ RalphLeaves(h)
    BY <1>8
  <2>2. UNCHANGED row /\ Alive(h) /\ HarOK
    BY <2>1, InvParts DEF RalphWorks, RalphLeaves
  <2>3. \A g \in Hunts : g # h => harness'[g] = harness[g]
    BY <2>1, <2>2 DEF RalphWorks, RalphLeaves, HarOK
  <2> QED
    BY <1>1, <2>2, <2>3 DEF Alive
<1>9. CASE Restart \/ Age
  BY <1>2, <1>9 DEF Restart, Age
<1> QED
  BY <1>4, <1>5, <1>6, <1>7, <1>8, <1>9 DEF Next

(* A run that has ended gets no other end, and no Ralph, from a thread     *)
(* that has seen its end (_open_live, _close_hunt, cancel_live_run,        *)
(* reconcile_live_run).                                                    *)
THEOREM EndsHeeded == Spec => EndHeeded
<1>1. Inv /\ [Next]_vars => [Heeded]_vars
  BY NextHeeded
<1>2. [][Heeded]_vars => EndHeeded
  <2>1. [Heeded]_vars =>
          [/\ \A r \in Runs :
                Ended(row[r]) /\ row'[r].status # row[r].status =>
                  \E p \in Threads : /\ at[p].step = "write" /\ at[p].run = r
                                     /\ ~Ended(at[p].seen) \/ at[p].put = at[p].seen.status
           /\ \A h \in Hunts :
                ~Alive(h) /\ Alive(h)' =>
                  \E p \in Threads : /\ at[p].step \in {"start", "queued"} /\ at[p].run = h
                                     /\ ~Ended(at[p].seen)]_vars
    BY DEF Heeded, RowHeeded, RalphHeeded
  <2> QED
    BY <2>1, PTL DEF EndHeeded
<1> QED
  BY <1>1, <1>2, InvAlways, PTL DEF Spec
=============================================================================
