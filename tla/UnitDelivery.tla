---------------------------- MODULE UnitDelivery ----------------------------
(***************************************************************************)
(* What a parallel section promises of the units of work of a plan,        *)
(* however its lanes are scheduled, fail, are retried, or are taken over   *)
(* by a later run: a unit enters the intent branch only after the units it *)
(* depends on, what is integrated stays so, and the section is resolved    *)
(* only when every unit is integrated or was omitted by a human.           *)
(***************************************************************************)

CONSTANT Units

VARIABLES
  dependsOn,   \* of each unit of the plan, the units it depends on
  integrated,  \* the units merged into the intent branch of every repository
  omitted,     \* the units a human chose to leave out
  resolved     \* whether the section ended with all its units accounted for

vars == <<dependsOn, integrated, omitted, resolved>>

Init ==
  /\ \E S \in SUBSET Units : dependsOn \in [S -> SUBSET S]
  /\ integrated = {}
  /\ omitted = {}
  /\ resolved = FALSE

Integrate(u) ==
  /\ u \in DOMAIN dependsOn
  /\ dependsOn[u] \subseteq integrated
  /\ integrated' = integrated \cup {u}
  /\ UNCHANGED <<dependsOn, omitted, resolved>>

Omit(S) ==
  /\ ~resolved
  /\ omitted' = omitted \cup S
  /\ UNCHANGED <<dependsOn, integrated, resolved>>

Resolve ==
  /\ DOMAIN dependsOn \subseteq integrated \cup omitted
  /\ resolved' = TRUE
  /\ UNCHANGED <<dependsOn, integrated, omitted>>

(* The execution is restarted: what the humans left out is asked again, or *)
(* kept as far as it was recorded.                                         *)
Restart ==
  /\ omitted' \in SUBSET DOMAIN dependsOn
  /\ resolved' = FALSE
  /\ UNCHANGED <<dependsOn, integrated>>

Next ==
  \/ \E u \in Units : Integrate(u)
  \/ \E S \in SUBSET DOMAIN dependsOn : Omit(S)
  \/ Resolve
  \/ Restart

Spec == Init /\ [][Next]_vars

=============================================================================
