------------------------------- MODULE MCLanes -------------------------------
(***************************************************************************)
(* Small instances of Lanes. Forked has two units that compete for one     *)
(* permit and one that depends on both, and no skeleton; Tree has a        *)
(* walking skeleton the others depend on; Chained may be retaken. What a   *)
(* promotion makes of small lists of units is compared with what Lanes     *)
(* assumes of a plan.                                                      *)
(***************************************************************************)
EXTENDS Promotion

CONSTANTS a, b, c

Forked  == [units |-> {a, b, c}, skeleton |-> Off, waves |-> <<{a, b}, {c}>>,
            dependsOn |-> [u \in Units |-> IF u = c THEN {a, b} ELSE {}]]
Tree    == [units |-> {a, b, c}, skeleton |-> a, waves |-> <<{a}, {b, c}>>,
            dependsOn |-> [u \in Units |-> IF u = a THEN {} ELSE {a}]]
Chained == [units |-> {a, b}, skeleton |-> a, waves |-> <<{a}, {b}>>,
            dependsOn |-> [u \in Units |-> IF u = b THEN {a} ELSE {}]]

AllPlans     == {Forked, Tree, Chained}
RunsOfPlan   == [p \in Plans |-> IF p = Chained THEN 2 ELSE 1]
ExtrasOfPlan == [p \in Plans |-> IF p = Chained THEN 0 ELSE 1]

-----------------------------------------------------------------------------
(* Promotion: lists of up to three entries, with repeated, missing and     *)
(* cyclic names among them.                                                *)

Sorted     == <<a, b, c>>
AllSlugs   == Units \cup {"unlisted"}
SmallLists == UNION {[1 .. n -> Entries] : n \in 0 .. 3}

=============================================================================
