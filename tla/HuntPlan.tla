------------------------------ MODULE HuntPlan ------------------------------
(***************************************************************************)
(* Which hunts a finished recon asks for: plan_hunt_tasks and the two      *)
(* orders it relies on.  A hunt is an area and a class; path hints, class  *)
(* aliases, areas taken from the codemap for want of components, and the   *)
(* routing of one pair of classes by sinks are left out: the maps are such *)
(* that have a component.                                                  *)
(***************************************************************************)
EXTENDS Naturals, SequencesExt

Hunt(a, c) == [area |-> a, class |-> c]

(* Areas x classes: first the diagonal, so that few hunts still touch many *)
(* areas, then what is missing, class by class.                            *)
BalancedProduct(areas, classes) ==
  LET n == Len(areas)
      m == Len(classes)
      waves == (IF n > m THEN n ELSE m) + n * m
      Cell(i, j) == Hunt(areas[(i % n) + 1], classes[(j % m) + 1])
      Wave(k) == IF k <= waves - n * m THEN Cell(k - 1, k - 1)
                 ELSE LET r == k - 1 - (waves - n * m) IN Cell(r % n, r \div n)
      Once(k) == IF \E j \in 1..(k - 1) : Wave(j) = Wave(k) THEN <<>> ELSE <<Wave(k)>>
  IN  IF n * m = 0 THEN <<>> ELSE FlattenSeq([k \in 1..waves |-> Once(k)])

(* How many of the chosen positions of the plan name h's field f.          *)
Named(plan, chosen, h, f) == Cardinality({k \in chosen : plan[k][f] = h[f]})

(* Position i goes before j: its area is the rarer one among the chosen,   *)
(* or its class is, or it comes first.                                     *)
Precedes(plan, chosen, i, j) ==
  LET area(k)  == Named(plan, chosen, plan[k], "area")
      class(k) == Named(plan, chosen, plan[k], "class")
  IN  \/ area(i) < area(j)
      \/ area(i) = area(j) /\ class(i) < class(j)
      \/ area(i) = area(j) /\ class(i) = class(j) /\ i <= j

Best(plan, chosen) ==
  LET left == DOMAIN plan \ chosen
  IN  CHOOSE i \in left : \A j \in left : Precedes(plan, chosen, i, j)

(* Mutant: the first hunts of the plan, whatever they are.                 *)
FirstHunts(plan, max) == SubSeq(plan, 1, IF Len(plan) < max THEN Len(plan) ELSE max)
DiversifyClip(plan, max) ==
  LET pick[k \in 1..max] == Best(plan, {pick[j] : j \in 1..(k - 1)})
  IN  IF Len(plan) <= max THEN plan ELSE [k \in 1..max |-> plan[pick[k]]]

(* The map's own focus where its classes are accepted, or else every       *)
(* allowed class in each of the first areas.                               *)
Offered(areas, focus, accepted, allowed, maxAreas) ==
  LET usable == FlattenSeq([k \in DOMAIN focus |->
                              IF focus[k].class \in accepted THEN <<focus[k]>> ELSE <<>>])
      few    == SubSeq(areas, 1, IF Len(areas) < maxAreas THEN Len(areas) ELSE maxAreas)
  IN  IF usable # <<>> THEN usable ELSE BalancedProduct(few, allowed)
=============================================================================
