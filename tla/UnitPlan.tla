------------------------------- MODULE UnitPlan -------------------------------
(***************************************************************************)
(* From an approved list of units of work to the plan a section schedules: *)
(* the list is checked and split into waves, a walking skeleton is chosen, *)
(* a human may choose another, and the section checks the choice again.    *)
(* Pure operators; a module that schedules plans instantiates them.        *)
(***************************************************************************)
EXTENDS Integers, FiniteSets, Sequences, FiniteSetsExt

CONSTANTS
  NameOrder,  \* the names of units, in the order they sort in
  NoChoice    \* no walking skeleton is recorded, or no override was given

Names == Range(NameOrder)

-----------------------------------------------------------------------------
(* parseBoltDag                                                            *)

Refused(reason) == [ok |-> FALSE, reason |-> reason]

\* What remains after each wave: a wave takes the names that depend on none of the
\* remaining ones.
Remaining(deps) ==
  LET remaining[i \in 0 .. Cardinality(DOMAIN deps)] ==
        IF i = 0 THEN DOMAIN deps
        ELSE {n \in remaining[i - 1] : deps[n] \cap remaining[i - 1] # {}}
  IN  remaining

\* No waves hold all names of a graph with a cycle.
computeBatches(deps) ==
  LET remaining == Remaining(deps)
      done == {i \in DOMAIN remaining : remaining[i] = {}}
  IN  IF done = {} THEN Refused("cyclic")
      ELSE [ok |-> TRUE, deps |-> deps,
            batches |-> [i \in 1 .. Min(done) |-> remaining[i - 1] \ remaining[i]]]

parseBoltDag(list) ==
  LET names == {list[i].name : i \in DOMAIN list}
      deps  == [n \in names |-> (CHOOSE unit \in Range(list) : unit.name = n).depends_on]
  IN  IF \/ list = <<>>
         \/ Cardinality(names) # Len(list)
         \/ \E n \in names : n \in deps[n] \/ ~(deps[n] \subseteq names)
      THEN Refused("malformed")
      ELSE computeBatches(deps)

-----------------------------------------------------------------------------
(* The walking skeleton.                                                   *)

\* The units that depend on nothing; the first of them is that of the earliest wave
\* that sorts first there.
skeletonCandidates(p) ==
  {n \in UNION Range(p.waves) : p.dependsOn[n] = {}}

FirstCandidate(p) ==
  LET candidates == skeletonCandidates(p)
      wave == p.waves[Min({i \in DOMAIN p.waves : p.waves[i] \cap candidates # {}})]
  IN  NameOrder[Min({k \in DOMAIN NameOrder : NameOrder[k] \in wave \cap candidates})]

effectiveSkeleton(p) ==
  IF p.skeleton # NoChoice \/ skeletonCandidates(p) = {} THEN p.skeleton ELSE FirstCandidate(p)

\* It must be a unit of the plan, and run first and alone.
skeletonProblem(p, skeleton, off) ==
  ~off /\ (skeleton \in p.units => p.dependsOn[skeleton] # {})

\* Mutant: the skeleton of the earlier promotion is kept without a check.
PromoteOnTrust(dag, prior) ==
  LET p == [units |-> DOMAIN dag.deps, waves |-> dag.batches, skeleton |-> prior,
            dependsOn |-> [n \in Names |-> IF n \in DOMAIN dag.deps THEN dag.deps[n] ELSE {}]]
  IN  [p EXCEPT !.skeleton = effectiveSkeleton(p)]

\* The UNITPLAN row of a parsed list, after a promotion that left the skeleton
\* prior: a choice that is still valid is kept.
promoteUnits(dag, prior) ==
  LET p == [units |-> DOMAIN dag.deps, waves |-> dag.batches, skeleton |-> NoChoice,
            dependsOn |-> [n \in Names |-> IF n \in DOMAIN dag.deps THEN dag.deps[n] ELSE {}]]
      kept == IF prior # NoChoice /\ skeletonProblem(p, prior, FALSE) THEN NoChoice ELSE prior
  IN  [p EXCEPT !.skeleton = effectiveSkeleton([p EXCEPT !.skeleton = kept])]

\* The walking skeleton an approving answer decides on: a valid override, or what
\* the plan has.
validateFanoutOverrides(p, override) ==
  IF override \in p.units /\ p.dependsOn[override] = {} THEN override ELSE NoChoice

fanoutDecision(p, override) ==
  LET valid == validateFanoutOverrides(p, override)
  IN  [p EXCEPT !.skeleton = IF valid # NoChoice THEN valid ELSE effectiveSkeleton(p)]

\* The run fails at the approval and at the section on an invalid skeleton, and at
\* the section without units, or when the waves do not hold every unit once.
sectionRefuses(p, off) ==
  LET times(n) == Cardinality({i \in DOMAIN p.waves : n \in p.waves[i]})
  IN  \/ p.units = {}
      \/ skeletonProblem(p, effectiveSkeleton(p), off)
      \/ \E n \in p.units : times(n) # 1

=============================================================================
