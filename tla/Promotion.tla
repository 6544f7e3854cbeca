------------------------------ MODULE Promotion ------------------------------
(***************************************************************************)
(* The plans Lanes walks are those UnitPlan makes: the units stage writes  *)
(* a list, possibly again, each list is promoted after whatever promotion  *)
(* there was before, a human approves it with any override, and the        *)
(* section schedules the result. Lists that make sense are distinguished   *)
(* from others here without following the code.                            *)
(***************************************************************************)
EXTENDS Lanes, UnitPlan

CONSTANTS
  Slugs,  \* the names a list or a human may use, of units or of nothing
  Lists   \* the lists of units the artifact may hold

Entries == [name : Units, depends_on : SUBSET Slugs]

ASSUME PromotionAssumption ==
  /\ NameOrder \in Seq(Units) /\ \A n \in Units : \E k \in DOMAIN NameOrder : NameOrder[k] = n
  /\ NoChoice \notin Units
  /\ Lists \subseteq Seq(Entries)

\* What the section schedules: with the ceremony off, no skeleton at all.
scheduled(p, off) == [p EXCEPT !.skeleton = IF off THEN Off ELSE effectiveSkeleton(p)]

\* Every plan a list can become: promoted after a promotion that left any skeleton,
\* approved with any override.
Chosen   == Slugs \cup {NoChoice}
Accepted == {dag \in {parseBoltDag(list) : list \in Lists} : dag.ok}
Approved == {fanoutDecision(promoteUnits(dag, prior), override) :
               dag \in Accepted, prior \in Chosen, override \in Chosen}
Scheduled == {scheduled(p, off) : p \in Approved, off \in BOOLEAN}

-----------------------------------------------------------------------------
(* Correctness.                                                            *)

\* A list that names its units once and depends on listed units is accepted unless
\* some of its units depend on each other in a circle.
Sensible(list) ==
  LET names == {list[i].name : i \in DOMAIN list}
  IN  /\ list # <<>> /\ \A i, j \in DOMAIN list : list[i].name = list[j].name => i = j
      /\ \A i \in DOMAIN list : list[i].depends_on \subseteq names
      /\ \A S \in (SUBSET names) \ {{}} : \E i \in DOMAIN list :
           list[i].name \in S /\ list[i].depends_on \cap S = {}

\* A unit is in the first wave, or in the one after the last of its dependencies.
InEarliestWave(p) ==
  \A i \in DOMAIN p.waves : \A n \in p.waves[i] :
    IF i = 1 THEN p.dependsOn[n] = {} ELSE p.dependsOn[n] \cap p.waves[i - 1] # {}

PromotionIsSound ==
  /\ \A list \in Lists : parseBoltDag(list).ok <=> Sensible(list)
  /\ \A p \in Approved : \A off \in BOOLEAN : ~sectionRefuses(p, off)
  /\ \A p \in Scheduled : PlanOK(p) /\ p.waves \in Seq(SUBSET Units) /\ InEarliestWave(p)

\* "Choose a valid default BEFORE the normal fan-out approval": whatever list the
\* units stage produced again, and whatever skeleton the earlier promotion or the
\* human chose, what is promoted is a plan the section does not refuse and the
\* scheduler can walk; the plan being walked is one of these.
PlanIsPromoted == plan \in Scheduled /\ PromotionIsSound

=============================================================================
