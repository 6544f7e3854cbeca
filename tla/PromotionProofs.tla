--------------------------- MODULE PromotionProofs ---------------------------
(***************************************************************************)
(* Proofs about UnitPlan and Promotion, for lists of any length: waves     *)
(* exist just when a list makes sense, they put every unit after its       *)
(* dependencies and no later than that, and what a promotion and an        *)
(* approval make of them is a plan Lanes can walk. Induction over the      *)
(* waves is by the least wave that would be an exception.                  *)
(***************************************************************************)
EXTENDS Promotion, LanesProofs

-----------------------------------------------------------------------------
(* Least numbers.                                                          *)

LEMMA LeastMember ==
  ASSUME NEW S \in SUBSET Nat, S # {}
  PROVE  Min(S) \in S /\ \A j \in S : Min(S) <= j
<1> DEFINE Less == {ss \in Nat \X Nat : ss[1] < ss[2]}
<1>1. IsWellFoundedOn(Less, Nat)
  BY NatLessThanWellFounded DEF OpToRel
<1>2. \A i, j \in Nat : <<j, i>> \in Less <=> j < i
  OBVIOUS
<1> HIDE DEF Less
<1>3. PICK i \in S : \A j \in S : ~(<<j, i>> \in Less)
  BY <1>1, WFMin
<1>4. ASSUME NEW j \in S PROVE i <= j
  <2>1. i \in Nat /\ j \in Nat
    OBVIOUS
  <2>2. ~(j < i)
    BY <1>2, <1>3, <2>1
  <2>3. QED BY <2>1, <2>2
<1>5. QED BY <1>4 DEF Min

\* What holds of some number holds of a first one.
LEMMA FirstMember ==
  ASSUME NEW S \in SUBSET Nat, S # {}
  PROVE  \E i \in S : i = 0 \/ i - 1 \in Nat \ S
<1>1. Min(S) \in S /\ \A j \in S : Min(S) <= j
  BY LeastMember
<1> DEFINE m == Min(S)
<1>2. m \in Nat /\ \A j \in S : j \in Nat
  BY <1>1
<1>3. m - 1 \notin S
  BY <1>1, <1>2
<1>4. QED BY <1>1, <1>2, <1>3

-----------------------------------------------------------------------------
(* The waves of a graph of dependencies.                                   *)

Graph(deps) ==
  IsFiniteSet(DOMAIN deps) /\ deps \in [DOMAIN deps -> SUBSET DOMAIN deps]

\* What is left of S after its wave.
After(deps, S) == {n \in S : deps[n] \cap S # {}}

\* A sequence of waves, k of them.
Waves(deps, k) ==
  {f \in [0 .. k -> SUBSET DOMAIN deps] :
     f[0] = DOMAIN deps /\ \A i \in 1 .. k : f[i] = After(deps, f[i - 1])}

\* Waves may be computed for as long as one likes.
LEMMA WavesExist ==
  ASSUME NEW deps, NEW k \in Nat
  PROVE  Waves(deps, k) # {}
<1> DEFINE Bad == {i \in Nat : Waves(deps, i) = {}}
<1> SUFFICES ASSUME Bad # {} PROVE FALSE
  OBVIOUS
<1>1. PICK i \in Bad : i = 0 \/ i - 1 \in Nat \ Bad
  BY FirstMember
<1>2. CASE i = 0
  <2>1. [j \in 0 .. 0 |-> DOMAIN deps] \in Waves(deps, 0)
    BY DEF Waves
  <2>2. QED BY <1>1, <1>2, <2>1
<1>3. CASE i # 0
  <2>1. PICK f \in Waves(deps, i - 1) : TRUE
    BY <1>1, <1>3
  <2> DEFINE g == [j \in 0 .. i |-> IF j = i THEN After(deps, f[i - 1]) ELSE f[j]]
  <2>2. /\ f \in [0 .. i - 1 -> SUBSET DOMAIN deps] /\ f[0] = DOMAIN deps
        /\ \A j \in 1 .. i - 1 : f[j] = After(deps, f[j - 1])
    BY <2>1 DEF Waves
  <2>3. i \in Nat /\ i - 1 \in 0 .. i - 1 /\ f[i - 1] \subseteq DOMAIN deps
    BY <1>1, <1>3, <2>2
  <2>4. g \in [0 .. i -> SUBSET DOMAIN deps]
    BY <2>2, <2>3 DEF After
  <2>5. g[0] = DOMAIN deps
    BY <1>3, <2>2, <2>3
  <2>6. ASSUME NEW j \in 1 .. i PROVE g[j] = After(deps, g[j - 1])
    <3>1. j - 1 \in 0 .. i /\ j - 1 # i /\ g[j - 1] = f[j - 1]
      BY <2>3
    <3>2. CASE j = i
      BY <3>1, <3>2, <2>3
    <3>3. CASE j # i
      BY <3>1, <3>3, <2>2, <2>3
    <3>4. QED BY <3>2, <3>3
  <2> HIDE DEF g
  <2>7. g \in Waves(deps, i)
    BY <2>4, <2>5, <2>6 DEF Waves
  <2>8. QED BY <1>1, <2>7
<1>4. QED BY <1>2, <1>3

LEMMA RemainingIsWaves ==
  ASSUME NEW deps, Graph(deps)
  PROVE  Remaining(deps) \in Waves(deps, Cardinality(DOMAIN deps))
<1> DEFINE N == Cardinality(DOMAIN deps)
           Equation(f) ==
             f = [i \in 0 .. N |->
                    IF i = 0 THEN DOMAIN deps
                    ELSE {n \in f[i - 1] : deps[n] \cap f[i - 1] # {}}]
<1>1. N \in Nat
  BY FS_CardinalityType DEF Graph
<1>2. PICK f \in Waves(deps, N) : TRUE
  BY <1>1, WavesExist
<1>3. Equation(f)
  <2>1. f \in [0 .. N -> SUBSET DOMAIN deps] /\ f[0] = DOMAIN deps
    BY <1>2 DEF Waves
  <2>2. ASSUME NEW i \in 0 .. N, i # 0
        PROVE  f[i] = {n \in f[i - 1] : deps[n] \cap f[i - 1] # {}}
    BY <1>1, <1>2, <2>2 DEF Waves, After
  <2>3. QED BY <2>1, <2>2
<1>4. Remaining(deps) = CHOOSE g : Equation(g)
  BY DEF Remaining
<1> DEFINE r == Remaining(deps)
<1>5. Equation(r)
  <2> HIDE DEF Equation
  <2>1. QED BY <1>3, <1>4
<1> HIDE DEF r
<1>6. DOMAIN r = 0 .. N /\ r[0] = DOMAIN deps
  BY <1>1, <1>5
<1>7. ASSUME NEW i \in 1 .. N PROVE r[i] = After(deps, r[i - 1])
  <2>1. i \in 0 .. N /\ i # 0
    BY <1>1
  <2>2. QED BY <1>5, <2>1 DEF After
<1> DEFINE Bad == {i \in 0 .. N : ~(r[i] \subseteq DOMAIN deps)}
<1>8. Bad = {}
  <2> SUFFICES ASSUME Bad # {} PROVE FALSE
    OBVIOUS
  <2>1. PICK i \in Bad : i = 0 \/ i - 1 \in Nat \ Bad
    <3>1. Bad \in SUBSET Nat
      BY <1>1
    <3> HIDE DEF Bad
    <3>2. QED BY <3>1, FirstMember
  <2>2. i # 0 /\ i \in 1 .. N /\ i - 1 \in 0 .. N
    BY <1>1, <1>6, <2>1
  <2>3. r[i] \subseteq r[i - 1] /\ r[i - 1] \subseteq DOMAIN deps
    BY <1>7, <2>1, <2>2 DEF After
  <2>4. QED BY <2>1, <2>3
<1>9. r = [i \in 0 .. N |-> r[i]]
  BY <1>5, <1>6
<1>10. r \in [0 .. N -> SUBSET DOMAIN deps]
  BY <1>8, <1>9
<1>11. QED BY <1>6, <1>7, <1>10 DEF Waves, r

\* A wave takes names away and brings none back.
LEMMA RemainingShrinks ==
  ASSUME NEW deps, NEW k \in Nat, NEW r \in Waves(deps, k), NEW i \in 0 .. k, NEW j \in i .. k
  PROVE  r[j] \subseteq r[i]
<1> DEFINE Bad == {l \in i .. k : ~(r[l] \subseteq r[i])}
<1>1. Bad = {}
  <2> SUFFICES ASSUME Bad # {} PROVE FALSE
    OBVIOUS
  <2>1. PICK l \in Bad : l = 0 \/ l - 1 \in Nat \ Bad
    <3>1. Bad \in SUBSET Nat
      OBVIOUS
    <3> HIDE DEF Bad
    <3>2. QED BY <3>1, FirstMember
  <2>2. l # i /\ l \in i .. k
    OBVIOUS
  <2>3. l \in 1 .. k /\ l - 1 \in i .. k
    BY <2>2
  <2>4. r[l] \subseteq r[l - 1]
    BY <2>3 DEF Waves, After
  <2>5. r[l - 1] \subseteq r[i]
    BY <2>1, <2>2, <2>3
  <2>6. QED BY <2>4, <2>5
<1>2. QED BY <1>1

\* Names that depend on each other in a circle are never taken.
LEMMA CirclesRemain ==
  ASSUME NEW deps, NEW k \in Nat, NEW r \in Waves(deps, k),
         NEW S \in SUBSET DOMAIN deps, \A n \in S : deps[n] \cap S # {},
         NEW i \in 0 .. k
  PROVE  S \subseteq r[i]
<1> DEFINE Bad == {l \in 0 .. k : ~(S \subseteq r[l])}
<1>1. Bad = {}
  <2> SUFFICES ASSUME Bad # {} PROVE FALSE
    OBVIOUS
  <2>1. PICK l \in Bad : l = 0 \/ l - 1 \in Nat \ Bad
    <3>1. Bad \in SUBSET Nat
      OBVIOUS
    <3> HIDE DEF Bad
    <3>2. QED BY <3>1, FirstMember
  <2>2. l # 0 /\ l \in 0 .. k
    BY DEF Waves
  <2>3. l \in 1 .. k /\ l - 1 \in 0 .. k
    BY <2>2
  <2>4. S \subseteq r[l - 1]
    BY <2>1, <2>2, <2>3
  <2>5. r[l] = {n \in r[l - 1] : deps[n] \cap r[l - 1] # {}}
    BY <2>3 DEF Waves, After
  <2>6. S \subseteq r[l]
    BY <2>4, <2>5
  <2>7. QED BY <2>1, <2>6
<1>2. QED BY <1>1

\* Without a circle every wave takes a name, so that as many waves as names are enough.
LEMMA AllAreTaken ==
  ASSUME NEW deps, Graph(deps), NEW r \in Waves(deps, Cardinality(DOMAIN deps)),
         \A S \in (SUBSET DOMAIN deps) \ {{}} : \E n \in S : deps[n] \cap S = {}
  PROVE  r[Cardinality(DOMAIN deps)] = {}
<1> DEFINE N == Cardinality(DOMAIN deps)
           Bad == {l \in 0 .. N : ~(Cardinality(r[l]) <= N - l)}
<1>1. N \in Nat /\ IsFiniteSet(DOMAIN deps)
  BY FS_CardinalityType DEF Graph
<1>2. ASSUME NEW l \in 0 .. N
      PROVE  r[l] \in SUBSET DOMAIN deps /\ IsFiniteSet(r[l]) /\ Cardinality(r[l]) \in Nat
  <2>1. r[l] \in SUBSET DOMAIN deps
    BY DEF Waves
  <2>2. QED BY <1>1, <2>1, FS_Subset, FS_CardinalityType
<1>3. Bad = {}
  <2> SUFFICES ASSUME Bad # {} PROVE FALSE
    OBVIOUS
  <2>1. PICK l \in Bad : l = 0 \/ l - 1 \in Nat \ Bad
    <3>1. Bad \in SUBSET Nat
      BY <1>1
    <3> HIDE DEF Bad
    <3>2. QED BY <3>1, FirstMember
  <2>2. l # 0 /\ l \in 0 .. N
    BY <1>1 DEF Waves
  <2>3. l \in 1 .. N /\ l - 1 \in 0 .. N
    BY <1>1, <2>2
  <2>4. Cardinality(r[l - 1]) <= N - (l - 1)
    BY <2>1, <2>2, <2>3
  <2>5. r[l] = {n \in r[l - 1] : deps[n] \cap r[l - 1] # {}}
    BY <2>3 DEF Waves, After
  <2>6. CASE r[l - 1] = {}
    <3>1. Cardinality(r[l]) = 0
      BY <2>5, <2>6, FS_EmptySet
    <3>2. QED BY <1>1, <2>1, <2>2, <3>1
  <2>7. CASE r[l - 1] # {}
    <3>1. r[l - 1] \in SUBSET DOMAIN deps /\ IsFiniteSet(r[l - 1])
      BY <1>2, <2>3
    <3>2. r[l] # r[l - 1] /\ r[l] \in SUBSET r[l - 1]
      BY <2>5, <2>7, <3>1
    <3>3. Cardinality(r[l]) <= Cardinality(r[l - 1]) /\ Cardinality(r[l - 1]) # Cardinality(r[l])
      BY <3>1, <3>2, FS_Subset
    <3>4. Cardinality(r[l]) \in Nat /\ Cardinality(r[l - 1]) \in Nat
      BY <1>2, <2>2, <2>3
    <3>5. Cardinality(r[l]) <= N - l
      BY <1>1, <2>2, <2>4, <3>3, <3>4
    <3>6. QED BY <2>1, <3>5
  <2>8. QED BY <2>6, <2>7
<1>4. N \in 0 .. N /\ Cardinality(r[N]) <= N - N
  BY <1>1, <1>3
<1>5. IsFiniteSet(r[N]) /\ Cardinality(r[N]) = 0
  BY <1>1, <1>2, <1>4
<1>6. QED BY <1>5, FS_EmptySet

\* Waves that hold every name once, after the names it depends on and no later.
Layers(deps, b) ==
  /\ b \in Seq(SUBSET DOMAIN deps)
  /\ \A n \in DOMAIN deps : \E i \in DOMAIN b :
       /\ n \in b[i] /\ \A j \in DOMAIN b : n \in b[j] => i = j
       /\ deps[n] \subseteq UNION {b[j] : j \in 1 .. i - 1}
  /\ \A i \in DOMAIN b : \A n \in b[i] :
       IF i = 1 THEN deps[n] = {} ELSE deps[n] \cap b[i - 1] # {}

\* A name is taken by one wave.
LEMMA TakenOnce ==
  ASSUME NEW deps, NEW k \in Nat, NEW r \in Waves(deps, k), NEW m \in 0 .. k, r[m] = {},
         NEW n \in DOMAIN deps
  PROVE  \E i \in 1 .. m : n \in r[i - 1] /\ \A j \in 0 .. k : n \in r[j] <=> j < i
<1> DEFINE Gone == {l \in 0 .. k : n \notin r[l]}
<1>1. m \in Gone
  OBVIOUS
<1>2. PICK i \in Gone : i = 0 \/ i - 1 \in Nat \ Gone
  <2>1. Gone \in SUBSET Nat /\ Gone # {}
    BY <1>1
  <2> HIDE DEF Gone
  <2>2. QED BY <2>1, FirstMember
<1>3. i # 0 /\ i \in 1 .. k /\ i - 1 \in 0 .. k
  BY DEF Waves
<1>4. n \in r[i - 1] /\ n \notin r[i]
  BY <1>2, <1>3
<1>5. ASSUME NEW j \in 0 .. k PROVE n \in r[j] <=> j < i
  <2>1. CASE j < i
    <3>1. i - 1 \in j .. k
      BY <1>3, <2>1
    <3>2. QED BY <1>4, <2>1, <3>1, RemainingShrinks
  <2>2. CASE i <= j
    <3>1. j \in i .. k /\ i \in 0 .. k
      BY <1>3, <2>2
    <3>2. QED BY <1>3, <1>4, <2>2, <3>1, RemainingShrinks
  <2>3. QED BY <1>3, <2>1, <2>2
<1>6. i \in 1 .. m
  BY <1>3, <1>5
<1>7. QED BY <1>4, <1>5, <1>6

LEMMA WavesAreLayers ==
  ASSUME NEW deps, Graph(deps), NEW k \in Nat, NEW r \in Waves(deps, k),
         NEW m \in 0 .. k, r[m] = {}
  PROVE  Layers(deps, [i \in 1 .. m |-> r[i - 1] \ r[i]])
<1> DEFINE b == [i \in 1 .. m |-> r[i - 1] \ r[i]]
<1>1. \A i \in 1 .. m : i \in 0 .. k /\ i - 1 \in 0 .. k /\ b[i] = r[i - 1] \ r[i]
  OBVIOUS
<1>2. \A i \in 0 .. k : r[i] \subseteq DOMAIN deps
  BY DEF Waves
<1>3. m \in Nat /\ DOMAIN b = 1 .. m
  OBVIOUS
<1>4. b \in Seq(SUBSET DOMAIN deps)
  <2>1. \A i \in 1 .. m : r[i - 1] \ r[i] \in SUBSET DOMAIN deps
    BY <1>1, <1>2
  <2>2. QED BY <1>3, <2>1
<1> HIDE DEF b
<1>5. ASSUME NEW i \in 1 .. m, NEW n \in b[i]
      PROVE  /\ n \in DOMAIN deps /\ n \in r[i - 1] /\ n \notin r[i]
             /\ deps[n] \subseteq DOMAIN deps /\ deps[n] \cap r[i - 1] = {}
  <2>1. n \in r[i - 1] /\ n \notin r[i] /\ n \in DOMAIN deps
    BY <1>1, <1>2
  <2>2. r[i] = {l \in r[i - 1] : deps[l] \cap r[i - 1] # {}}
    BY <1>1 DEF Waves, After
  <2>3. deps[n] \subseteq DOMAIN deps
    BY <2>1 DEF Graph
  <2>4. QED BY <2>1, <2>2, <2>3
<1>6. ASSUME NEW n \in DOMAIN deps
      PROVE  \E i \in DOMAIN b :
               /\ n \in b[i] /\ \A j \in DOMAIN b : n \in b[j] => i = j
               /\ deps[n] \subseteq UNION {b[j] : j \in 1 .. i - 1}
  <2>1. PICK i \in 1 .. m : n \in r[i - 1] /\ \A j \in 0 .. k : n \in r[j] <=> j < i
    BY TakenOnce
  <2>2. n \in b[i]
    BY <1>1, <2>1
  <2>3. ASSUME NEW j \in 1 .. m, n \in b[j] PROVE i = j
    <3>1. n \in r[j - 1] /\ n \notin r[j] /\ j \in 0 .. k /\ j - 1 \in 0 .. k
      BY <1>1, <2>3
    <3>2. j - 1 < i /\ ~(j < i)
      BY <2>1, <3>1
    <3>3. QED BY <3>2
  <2>4. ASSUME NEW d \in deps[n] PROVE \E j \in 1 .. i - 1 : d \in b[j]
    <3>1. d \in DOMAIN deps /\ d \notin r[i - 1]
      BY <1>5, <2>2
    <3>2. PICK j \in 1 .. m : d \in r[j - 1] /\ \A l \in 0 .. k : d \in r[l] <=> l < j
      BY <3>1, TakenOnce
    <3>3. d \in b[j]
      BY <1>1, <3>2
    <3>4. ~(i - 1 < j)
      BY <1>1, <3>1, <3>2
    <3>5. QED BY <3>3, <3>4
  <2>5. QED BY <1>3, <2>2, <2>3, <2>4
<1>7. ASSUME NEW i \in 1 .. m, NEW n \in b[i], i = 1 PROVE deps[n] = {}
  <2>1. r[i - 1] = DOMAIN deps
    BY <1>7 DEF Waves
  <2>2. QED BY <1>5, <2>1
<1>8. ASSUME NEW i \in 1 .. m, NEW n \in b[i], i # 1 PROVE deps[n] \cap b[i - 1] # {}
  <2>1. i - 1 \in 1 .. m /\ i - 1 \in 1 .. k
    BY <1>8
  <2>2. r[i - 1] = {l \in r[i - 1 - 1] : deps[l] \cap r[i - 1 - 1] # {}}
    BY <2>1 DEF Waves, After
  <2>3. b[i - 1] = r[i - 1 - 1] \ r[i - 1]
    BY <1>1, <2>1
  <2>4. n \in r[i - 1] /\ deps[n] \cap r[i - 1] = {}
    BY <1>5
  <2>5. QED BY <2>2, <2>3, <2>4
<1>9. Layers(deps, b)
  BY <1>3, <1>4, <1>6, <1>7, <1>8 DEF Layers
<1>10. QED BY <1>9 DEF b

\* computeBatches finds waves just when no names depend on each other in a circle.
LEMMA BatchesExist ==
  ASSUME NEW deps, Graph(deps)
  PROVE  /\ computeBatches(deps).ok <=>
              \A S \in (SUBSET DOMAIN deps) \ {{}} : \E n \in S : deps[n] \cap S = {}
         /\ computeBatches(deps).ok =>
              /\ computeBatches(deps).deps = deps
              /\ Layers(deps, computeBatches(deps).batches)
<1> DEFINE N == Cardinality(DOMAIN deps)
           r == Remaining(deps)
           done == {i \in DOMAIN r : r[i] = {}}
           Dag == [ok |-> TRUE, deps |-> deps,
                   batches |-> [i \in 1 .. Min(done) |-> r[i - 1] \ r[i]]]
<1>1. N \in Nat
  BY FS_CardinalityType DEF Graph
<1>2. r \in Waves(deps, N)
  BY RemainingIsWaves
<1>3. computeBatches(deps) = IF done = {} THEN Refused("cyclic") ELSE Dag
  BY DEF computeBatches
<1> HIDE DEF r
<1>4. DOMAIN r = 0 .. N
  BY <1>2 DEF Waves
<1>5. CASE done = {}
  <2>1. r[N] # {}
    BY <1>1, <1>4, <1>5
  <2>2. ~\A S \in (SUBSET DOMAIN deps) \ {{}} : \E n \in S : deps[n] \cap S = {}
    BY <1>2, <2>1, AllAreTaken
  <2>3. computeBatches(deps).ok = FALSE
    BY <1>3, <1>5 DEF Refused
  <2>4. QED BY <2>2, <2>3
<1>6. CASE done # {}
  <2>1. done \in SUBSET Nat
    BY <1>1, <1>4
  <2>2. Min(done) \in done
    BY <1>6, <2>1, LeastMember
  <2> DEFINE m == Min(done)
  <2>3. m \in 0 .. N /\ r[m] = {}
    BY <1>4, <2>2
  <2>4. /\ computeBatches(deps).ok = TRUE /\ computeBatches(deps).deps = deps
        /\ computeBatches(deps).batches = [i \in 1 .. m |-> r[i - 1] \ r[i]]
    <3>1. computeBatches(deps) = Dag
      BY <1>3, <1>6
    <3> HIDE DEF done
    <3>2. QED BY <3>1
  <2> HIDE DEF m
  <2>5. Layers(deps, computeBatches(deps).batches)
    BY <1>1, <1>2, <2>3, <2>4, WavesAreLayers
  <2>6. ASSUME NEW S \in (SUBSET DOMAIN deps) \ {{}}, \A n \in S : deps[n] \cap S # {}
        PROVE  FALSE
    <3>1. S \in SUBSET DOMAIN deps /\ S # {}
      OBVIOUS
    <3>2. S \subseteq r[m]
      <4> HIDE DEF N, done
      <4>1. \A i \in 0 .. N : S \subseteq r[i]
        BY <1>1, <1>2, <2>6, <3>1, CirclesRemain
      <4>2. QED BY <2>3, <4>1
    <3>3. QED BY <2>3, <3>1, <3>2
  <2>7. QED BY <2>4, <2>5, <2>6
<1>7. QED BY <1>5, <1>6

-----------------------------------------------------------------------------
(* Lists.                                                                  *)

NamesOf(list) == {list[i].name : i \in DOMAIN list}

LEMMA ListsOfEntries ==
  ASSUME NEW list \in Seq(Entries)
  PROVE  /\ Len(list) \in Nat /\ DOMAIN list = 1 .. Len(list)
         /\ \A i \in DOMAIN list : list[i].name \in Units /\ list[i].depends_on \in SUBSET Slugs
         /\ NamesOf(list) \subseteq Units
<1>1. Len(list) \in Nat /\ DOMAIN list = 1 .. Len(list) /\ \A i \in DOMAIN list : list[i] \in Entries
  OBVIOUS
<1>2. QED BY <1>1 DEF Entries, NamesOf

\* There are as many names as entries just when no name is used twice.
LEMMA NamesAreDistinct ==
  ASSUME NEW list \in Seq(Entries)
  PROVE  /\ IsFiniteSet(NamesOf(list))
         /\ Cardinality(NamesOf(list)) = Len(list) <=>
              \A i, j \in DOMAIN list : list[i].name = list[j].name => i = j
<1> DEFINE L == Len(list)
           f == [i \in 1 .. L |-> list[i].name]
<1>1. L \in Nat /\ DOMAIN list = 1 .. L
  BY ListsOfEntries
<1>2. IsFiniteSet(1 .. L) /\ Cardinality(1 .. L) = L
  BY <1>1, FS_Interval
<1>3. f \in Surjection(1 .. L, NamesOf(list))
  BY <1>1 DEF Surjection, NamesOf
<1>4. /\ IsFiniteSet(NamesOf(list))
      /\ Cardinality(NamesOf(list)) = Cardinality(1 .. L) <=> f \in Injection(1 .. L, NamesOf(list))
  <2> HIDE DEF f
  <2>1. QED BY <1>2, <1>3, FS_Surjection
<1>5. f \in Injection(1 .. L, NamesOf(list)) <=>
        \A i, j \in DOMAIN list : list[i].name = list[j].name => i = j
  <2>1. \A i \in 1 .. L : f[i] = list[i].name
    OBVIOUS
  <2>2. f \in [1 .. L -> NamesOf(list)]
    BY <1>3 DEF Surjection
  <2> HIDE DEF f
  <2>3. QED BY <1>1, <2>1, <2>2 DEF Injection, IsInjective
<1>6. QED BY <1>2, <1>4, <1>5

\* The graph of a list whose names are distinct.
DepsOf(list) ==
  [n \in NamesOf(list) |-> (CHOOSE unit \in Range(list) : unit.name = n).depends_on]

LEMMA DepsAreListed ==
  ASSUME NEW list \in Seq(Entries),
         \A i, j \in DOMAIN list : list[i].name = list[j].name => i = j,
         NEW i \in DOMAIN list
  PROVE  list[i].name \in NamesOf(list) /\ DepsOf(list)[list[i].name] = list[i].depends_on
<1> DEFINE n == list[i].name
           u == CHOOSE unit \in Range(list) : unit.name = n
<1>1. n \in NamesOf(list)
  BY DEF NamesOf
<1>2. list[i] \in Range(list) /\ list[i].name = n
  BY DEF Range
<1>3. u \in Range(list) /\ u.name = n
  BY <1>2
<1> HIDE DEF u
<1>4. PICK j \in DOMAIN list : u = list[j]
  BY <1>3 DEF Range
<1>5. u = list[i]
  BY <1>3, <1>4
<1>6. QED BY <1>1, <1>5 DEF DepsOf, u

\* A list is accepted just when it makes sense, and its waves are layers of its graph.
LEMMA ParsedIsSensible ==
  ASSUME NEW list \in Seq(Entries)
  PROVE  /\ parseBoltDag(list).ok <=> Sensible(list)
         /\ parseBoltDag(list).ok =>
              LET dag == parseBoltDag(list) IN
                /\ DOMAIN dag.deps \subseteq Units /\ DOMAIN dag.deps # {} /\ Graph(dag.deps)
                /\ Layers(dag.deps, dag.batches)
                /\ \E n \in DOMAIN dag.deps : dag.deps[n] = {}
<1> DEFINE names == NamesOf(list)
           deps == DepsOf(list)
           Distinct == \A i, j \in DOMAIN list : list[i].name = list[j].name => i = j
           Bad == \/ list = <<>> \/ Cardinality(names) # Len(list)
                  \/ \E n \in names : n \in deps[n] \/ ~(deps[n] \subseteq names)
           Listed == \A i \in DOMAIN list : list[i].depends_on \subseteq names
           NoCircle == \A S \in (SUBSET names) \ {{}} : \E i \in DOMAIN list :
                         list[i].name \in S /\ list[i].depends_on \cap S = {}
<1>1. parseBoltDag(list) = IF Bad THEN Refused("malformed") ELSE computeBatches(deps)
  BY DEF parseBoltDag, NamesOf, DepsOf
<1>2. Sensible(list) <=> list # <<>> /\ Distinct /\ Listed /\ NoCircle
  BY DEF Sensible, NamesOf
<1>3. Cardinality(names) = Len(list) <=> Distinct
  BY NamesAreDistinct
<1>4. \A n \in names : \E i \in DOMAIN list : list[i].name = n
  BY DEF NamesOf
<1>5. Distinct => \A i \in DOMAIN list : list[i].name \in names /\ deps[list[i].name] = list[i].depends_on
  BY DepsAreListed
<1>6. DOMAIN deps = names /\ IsFiniteSet(names) /\ names \subseteq Units
  BY NamesAreDistinct, ListsOfEntries DEF DepsOf
<1> HIDE DEF names, deps
<1>7. CASE Bad
  <2>1. parseBoltDag(list).ok = FALSE
    BY <1>1, <1>7 DEF Refused
  <2>2. ~Sensible(list)
    <3> SUFFICES ASSUME list # <<>>, Distinct, Listed, NoCircle PROVE FALSE
      BY <1>2
    <3>1. PICK n \in names : n \in deps[n] \/ ~(deps[n] \subseteq names)
      BY <1>3, <1>7
    <3>2. PICK i \in DOMAIN list : list[i].name = n
      BY <1>4
    <3>3. deps[n] = list[i].depends_on /\ n \in deps[n]
      BY <1>5, <3>1, <3>2
    <3>4. PICK j \in DOMAIN list : list[j].name \in {n} /\ list[j].depends_on \cap {n} = {}
      BY <3>1
    <3>5. QED BY <3>2, <3>3, <3>4
  <2>3. QED BY <2>1, <2>2
<1>8. CASE ~Bad
  <2>1. Distinct /\ list # <<>> /\ \A n \in names : deps[n] \subseteq names
    BY <1>3, <1>8
  <2>2. Graph(deps)
    <3>1. deps = [n \in names |-> deps[n]]
      BY <1>6 DEF deps, names, DepsOf
    <3>2. QED BY <1>6, <2>1, <3>1 DEF Graph
  <2>3. parseBoltDag(list) = computeBatches(deps)
    BY <1>1, <1>8
  <2>4. Listed
    BY <1>5, <2>1
  <2>5. NoCircle <=> \A S \in (SUBSET names) \ {{}} : \E n \in S : deps[n] \cap S = {}
    <3>1. ASSUME NEW S \in SUBSET names
          PROVE  (\E i \in DOMAIN list : list[i].name \in S /\ list[i].depends_on \cap S = {})
                   <=> \E n \in S : deps[n] \cap S = {}
      BY <1>4, <1>5, <2>1
    <3>2. QED BY <3>1
  <2>6. /\ parseBoltDag(list).ok <=> NoCircle
        /\ parseBoltDag(list).ok => /\ parseBoltDag(list).deps = deps
                                    /\ Layers(deps, parseBoltDag(list).batches)
    BY <1>6, <2>2, <2>3, <2>5, BatchesExist
  <2>7. names # {}
    <3>1. 1 \in DOMAIN list
      BY <2>1, ListsOfEntries
    <3>2. QED BY <1>5, <2>1, <3>1
  <2>8. NoCircle => \E n \in names : deps[n] = {}
    <3>1. ASSUME NEW n \in names, deps[n] \cap names = {} PROVE deps[n] = {}
      BY <2>1, <3>1
    <3>2. names \in (SUBSET names) \ {{}}
      BY <2>7
    <3>3. QED BY <2>5, <3>1, <3>2
  <2>9. QED BY <1>2, <1>6, <2>1, <2>2, <2>4, <2>6, <2>7, <2>8
<1>9. QED BY <1>7, <1>8

-----------------------------------------------------------------------------
(* Plans.                                                                  *)

PlanRecords ==
  [units : SUBSET Units, waves : Seq(SUBSET Units), skeleton : Slugs \cup Units \cup {NoChoice},
   dependsOn : [Units -> SUBSET Units]]

\* A plan made of the layers of a graph, with a unit that depends on nothing.
Layered(p) ==
  LET deps == [n \in p.units |-> p.dependsOn[n]]
  IN  /\ p \in PlanRecords /\ p.dependsOn \in [Units -> SUBSET p.units]
      /\ Layers(deps, p.waves)
      /\ \E n \in p.units : p.dependsOn[n] = {}

\* Its skeleton, if any, is a unit that depends on nothing.
Led(p) == p.skeleton \in p.units /\ p.dependsOn[p.skeleton] = {}

\* The units of a layered plan are those of its waves.
LEMMA WavesHoldUnits ==
  ASSUME NEW p, Layered(p)
  PROVE  /\ p.units \subseteq Units /\ p.waves \in Seq(SUBSET p.units)
         /\ DOMAIN p.waves = 1 .. Len(p.waves) /\ Len(p.waves) \in Nat
         /\ \A i \in DOMAIN p.waves : p.waves[i] \subseteq p.units
         /\ \A n \in p.units : \E i \in DOMAIN p.waves :
              /\ n \in p.waves[i] /\ \A j \in DOMAIN p.waves : n \in p.waves[j] => i = j
              /\ p.dependsOn[n] \subseteq UNION {p.waves[j] : j \in 1 .. i - 1}
<1> DEFINE deps == [n \in p.units |-> p.dependsOn[n]]
<1>1. Layers(deps, p.waves) /\ DOMAIN deps = p.units /\ p.units \subseteq Units
  BY DEF Layered, PlanRecords
<1>2. \A n \in p.units : deps[n] = p.dependsOn[n]
  OBVIOUS
<1> HIDE DEF deps
<1>3. p.waves \in Seq(SUBSET p.units)
  BY <1>1 DEF Layers
<1>4. /\ DOMAIN p.waves = 1 .. Len(p.waves) /\ Len(p.waves) \in Nat
      /\ \A i \in DOMAIN p.waves : p.waves[i] \subseteq p.units
  BY <1>3
<1>5. \A n \in p.units : \E i \in DOMAIN p.waves :
        /\ n \in p.waves[i] /\ \A j \in DOMAIN p.waves : n \in p.waves[j] => i = j
        /\ p.dependsOn[n] \subseteq UNION {p.waves[j] : j \in 1 .. i - 1}
  BY <1>1, <1>2 DEF Layers
<1>6. QED BY <1>1, <1>3, <1>4, <1>5

LEMMA CandidatesExist ==
  ASSUME NEW p, Layered(p)
  PROVE  /\ skeletonCandidates(p) = {n \in p.units : p.dependsOn[n] = {}}
         /\ skeletonCandidates(p) # {}
<1>1. UNION Range(p.waves) = p.units
  <2>1. /\ \A i \in DOMAIN p.waves : p.waves[i] \subseteq p.units
        /\ \A n \in p.units : \E i \in DOMAIN p.waves : n \in p.waves[i]
    BY WavesHoldUnits
  <2>2. QED BY <2>1 DEF Range
<1>2. QED BY <1>1 DEF skeletonCandidates, Layered

LEMMA FirstIsCandidate ==
  ASSUME NEW p, Layered(p)
  PROVE  FirstCandidate(p) \in skeletonCandidates(p)
<1> DEFINE C == skeletonCandidates(p)
           I == {i \in DOMAIN p.waves : p.waves[i] \cap C # {}}
           wave == p.waves[Min(I)]
           K == {k \in DOMAIN NameOrder : NameOrder[k] \in wave \cap C}
<1>1. FirstCandidate(p) = NameOrder[Min(K)]
  BY DEF FirstCandidate
<1>2. C # {} /\ C \subseteq p.units
  BY CandidatesExist
<1> HIDE DEF C
<1>3. I \in SUBSET Nat /\ I # {}
  <2>1. DOMAIN p.waves \subseteq Nat
    <3>1. DOMAIN p.waves = 1 .. Len(p.waves) /\ Len(p.waves) \in Nat
      BY WavesHoldUnits
    <3>2. QED BY <3>1
  <2>2. \A n \in p.units : \E i \in DOMAIN p.waves : n \in p.waves[i]
    BY WavesHoldUnits
  <2>3. QED BY <1>2, <2>1, <2>2
<1>4. Min(I) \in I
  BY <1>3, LeastMember
<1>5. wave \cap C # {} /\ C \subseteq Units
  BY <1>2, <1>4, WavesHoldUnits
<1> HIDE DEF wave, I
<1>6. K \in SUBSET Nat /\ K # {}
  BY <1>5, PromotionAssumption
<1>7. Min(K) \in K
  BY <1>6, LeastMember
<1>8. QED BY <1>1, <1>7 DEF C

\* A layered plan without a skeleton gets one that leads it, and one with a skeleton
\* that leads it keeps that.
LEMMA EffectiveLeads ==
  ASSUME NEW p, Layered(p), p.skeleton = NoChoice \/ Led(p)
  PROVE  /\ effectiveSkeleton(p) \in p.units /\ p.dependsOn[effectiveSkeleton(p)] = {}
         /\ Led(p) => effectiveSkeleton(p) = p.skeleton
<1>1. p.units \subseteq Units /\ NoChoice \notin p.units
  BY PromotionAssumption, WavesHoldUnits
<1>2. CASE Led(p)
  BY <1>1, <1>2 DEF Led, effectiveSkeleton
<1>3. CASE p.skeleton = NoChoice
  <2>1. effectiveSkeleton(p) = FirstCandidate(p)
    BY <1>3, CandidatesExist DEF effectiveSkeleton
  <2>2. FirstCandidate(p) \in p.units /\ p.dependsOn[FirstCandidate(p)] = {}
    BY FirstIsCandidate, CandidatesExist
  <2>3. QED BY <1>1, <1>3, <2>1, <2>2 DEF Led
<1>4. QED BY <1>2, <1>3

\* What a layered plan is does not depend on its skeleton.
LEMMA LayeredWith ==
  ASSUME NEW p, Layered(p), NEW s \in Slugs \cup Units \cup {NoChoice}
  PROVE  LET q == [p EXCEPT !.skeleton = s]
         IN  /\ Layered(q) /\ q.units = p.units /\ q.waves = p.waves
             /\ q.dependsOn = p.dependsOn /\ q.skeleton = s
<1> DEFINE q == [p EXCEPT !.skeleton = s]
<1>1. p \in PlanRecords
  BY DEF Layered
<1>2. /\ q.units = p.units /\ q.waves = p.waves /\ q.dependsOn = p.dependsOn
      /\ q.skeleton = s /\ q \in PlanRecords
  BY <1>1 DEF PlanRecords
<1> HIDE DEF q
<1>3. Layered(q)
  BY <1>2 DEF Layered
<1>4. QED BY <1>2, <1>3 DEF q

\* A promotion makes a layered plan that is led.
LEMMA PromotedIsLed ==
  ASSUME NEW dag \in Accepted, NEW prior \in Chosen
  PROVE  Layered(promoteUnits(dag, prior)) /\ Led(promoteUnits(dag, prior))
<1> DEFINE p == [units |-> DOMAIN dag.deps, waves |-> dag.batches, skeleton |-> NoChoice,
                 dependsOn |-> [n \in Names |-> IF n \in DOMAIN dag.deps THEN dag.deps[n] ELSE {}]]
           kept == IF prior # NoChoice /\ skeletonProblem(p, prior, FALSE) THEN NoChoice ELSE prior
           q == [p EXCEPT !.skeleton = kept]
<1>1. /\ DOMAIN dag.deps \subseteq Units /\ Graph(dag.deps) /\ Layers(dag.deps, dag.batches)
      /\ \E n \in DOMAIN dag.deps : dag.deps[n] = {}
  <2>1. PICK list \in Lists : dag = parseBoltDag(list) /\ parseBoltDag(list).ok
    BY DEF Accepted
  <2>2. list \in Seq(Entries)
    BY PromotionAssumption
  <2>3. QED BY <2>1, <2>2, ParsedIsSensible
<1>2. Names = Units
  BY PromotionAssumption DEF Names, Range
<1>3. Layered(p)
  <2>1. /\ p.units = DOMAIN dag.deps /\ p.waves = dag.batches /\ p.skeleton = NoChoice
        /\ p.dependsOn \in [Units -> SUBSET DOMAIN dag.deps]
        /\ \A n \in DOMAIN dag.deps : p.dependsOn[n] = dag.deps[n]
    BY <1>1, <1>2 DEF Graph
  <2>2. [n \in p.units |-> p.dependsOn[n]] = dag.deps
    BY <1>1, <2>1 DEF Graph
  <2>3. dag.batches \in Seq(SUBSET Units)
    <3>1. dag.batches \in Seq(SUBSET DOMAIN dag.deps)
      BY <1>1 DEF Layers
    <3>2. QED BY <1>1, <3>1
  <2>4. p \in PlanRecords
    BY <1>1, <1>2, <2>1, <2>3 DEF PlanRecords
  <2> HIDE DEF p
  <2>5. QED BY <1>1, <2>1, <2>2, <2>4 DEF Layered
<1>4. promoteUnits(dag, prior) = [p EXCEPT !.skeleton = effectiveSkeleton(q)]
  BY DEF promoteUnits
<1>5. p.skeleton = NoChoice
  OBVIOUS
<1> HIDE DEF p
<1>6. kept \in Slugs \cup Units \cup {NoChoice}
  BY DEF Chosen
<1>7. kept # NoChoice => kept \in p.units /\ p.dependsOn[kept] = {}
  BY DEF skeletonProblem
<1>8. /\ Layered(q) /\ q.units = p.units /\ q.dependsOn = p.dependsOn /\ q.skeleton = kept
  <2> HIDE DEF kept
  <2>1. QED BY <1>3, <1>6, LayeredWith
<1> HIDE DEF kept, q
<1>9. effectiveSkeleton(q) \in p.units /\ p.dependsOn[effectiveSkeleton(q)] = {}
  BY <1>7, <1>8, EffectiveLeads DEF Led
<1>10. effectiveSkeleton(q) \in Units
  BY <1>3, <1>9, WavesHoldUnits
<1>11. QED BY <1>3, <1>4, <1>9, <1>10, LayeredWith DEF Led

\* An approval leaves it so, whatever was overridden.
LEMMA ApprovedIsLed ==
  ASSUME NEW p \in Approved
  PROVE  Layered(p) /\ Led(p)
<1>1. PICK dag \in Accepted, prior \in Chosen, override \in Chosen :
        p = fanoutDecision(promoteUnits(dag, prior), override)
  BY DEF Approved
<1> DEFINE q == promoteUnits(dag, prior)
           valid == validateFanoutOverrides(q, override)
           s == IF valid # NoChoice THEN valid ELSE effectiveSkeleton(q)
<1>2. Layered(q) /\ Led(q)
  BY PromotedIsLed
<1>3. p = [q EXCEPT !.skeleton = s]
  BY <1>1 DEF fanoutDecision
<1> HIDE DEF q
<1>4. s \in q.units /\ q.dependsOn[s] = {}
  BY <1>2, EffectiveLeads DEF validateFanoutOverrides
<1>5. s \in Units
  BY <1>2, <1>4, WavesHoldUnits
<1> HIDE DEF s
<1>6. QED BY <1>2, <1>3, <1>4, <1>5, LayeredWith DEF Led

\* The section refuses no plan that is layered and led.
LEMMA LedIsNotRefused ==
  ASSUME NEW p, Layered(p), Led(p), NEW off \in BOOLEAN
  PROVE  ~sectionRefuses(p, off)
<1>1. p.units # {}
  BY DEF Led
<1>2. ~skeletonProblem(p, effectiveSkeleton(p), off)
  BY EffectiveLeads DEF skeletonProblem
<1>3. ASSUME NEW n \in p.units
      PROVE  Cardinality({i \in DOMAIN p.waves : n \in p.waves[i]}) = 1
  <2>1. PICK i \in DOMAIN p.waves :
          n \in p.waves[i] /\ \A j \in DOMAIN p.waves : n \in p.waves[j] => i = j
    BY WavesHoldUnits
  <2>2. {j \in DOMAIN p.waves : n \in p.waves[j]} = {i}
    BY <2>1
  <2>3. QED BY <2>2, FS_Singleton
<1>4. QED BY <1>1, <1>2, <1>3 DEF sectionRefuses

\* It is a plan Lanes can walk, its units in the earliest waves.
LEMMA LedIsWalkable ==
  ASSUME NEW p, Layered(p), Led(p), NEW off \in BOOLEAN
  PROVE  LET q == scheduled(p, off)
         IN  PlanOK(q) /\ q.waves \in Seq(SUBSET Units) /\ InEarliestWave(q)
<1> DEFINE s == IF off THEN Off ELSE effectiveSkeleton(p)
           q == [p EXCEPT !.skeleton = s]
<1>1. scheduled(p, off) = q
  BY DEF scheduled
<1>2. /\ q.units = p.units /\ q.waves = p.waves /\ q.dependsOn = p.dependsOn /\ q.skeleton = s
  BY DEF Layered, PlanRecords
<1> HIDE DEF q
<1>3. s \in p.units \cup {Off} /\ (s # Off => p.dependsOn[s] = {})
  BY EffectiveLeads
<1> HIDE DEF s
<1>4. PlanOK(q)
  <2>1. p.units \subseteq Units /\ p.dependsOn \in [Units -> SUBSET p.units]
    BY WavesHoldUnits DEF Layered
  <2>2. /\ \A i \in DOMAIN p.waves : p.waves[i] \subseteq p.units
        /\ \A n \in p.units : \E i \in DOMAIN p.waves :
             /\ n \in p.waves[i] /\ \A j \in DOMAIN p.waves : n \in p.waves[j] => i = j
             /\ p.dependsOn[n] \subseteq UNION {p.waves[j] : j \in 1 .. i - 1}
    BY WavesHoldUnits
  <2>3. QED BY <1>2, <1>3, <2>1, <2>2 DEF PlanOK
<1>5. q.waves \in Seq(SUBSET Units)
  BY <1>2 DEF Layered, PlanRecords
<1>6. InEarliestWave(q)
  <2>1. \A i \in DOMAIN p.waves : p.waves[i] \subseteq p.units
    BY WavesHoldUnits
  <2>2. ASSUME NEW i \in DOMAIN p.waves, NEW n \in p.waves[i]
        PROVE  IF i = 1 THEN p.dependsOn[n] = {} ELSE p.dependsOn[n] \cap p.waves[i - 1] # {}
    BY <2>1 DEF Layered, Layers
  <2>3. QED BY <1>2, <2>2 DEF InEarliestWave
<1>7. QED BY <1>1, <1>4, <1>5, <1>6

\* Whatever lists, earlier choices and overrides there are: a list is accepted just
\* when it makes sense (parseBoltDag, computeBatches), and what its promotion and its
\* approval make of it is a plan the section does not refuse and the scheduler can walk.
THEOREM PromotionSound == PromotionIsSound
<1>1. ASSUME NEW list \in Lists PROVE parseBoltDag(list).ok <=> Sensible(list)
  BY PromotionAssumption, ParsedIsSensible
<1>2. ASSUME NEW p \in Approved, NEW off \in BOOLEAN PROVE ~sectionRefuses(p, off)
  BY ApprovedIsLed, LedIsNotRefused
<1>3. ASSUME NEW p \in Scheduled
      PROVE  PlanOK(p) /\ p.waves \in Seq(SUBSET Units) /\ InEarliestWave(p)
  <2>1. PICK q \in Approved, off \in BOOLEAN : p = scheduled(q, off)
    BY DEF Scheduled
  <2>2. QED BY <2>1, ApprovedIsLed, LedIsWalkable
<1>4. QED BY <1>1, <1>2, <1>3 DEF PromotionIsSound

\* A section that walks promoted plans only walks such a plan in every state: nothing
\* it does changes the plan of the UNITPLAN row.
THEOREM PromotedIsWalked ==
  ASSUME Plans \subseteq Scheduled
  PROVE  Spec => []PlanIsPromoted
<1>1. TypeOK => PlanIsPromoted
  BY PromotionSound DEF TypeOK, PlanIsPromoted
<1>2. QED BY <1>1, TypeCorrect, PTL

=============================================================================
