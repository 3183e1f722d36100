---------------------------- MODULE EvidenceProofs ----------------------------
(***************************************************************************)
(* Proofs about what is made of results: the patches of a repair           *)
(* (RequestPatch), the ranking of candidates (Objectives), the chain from  *)
(* a state file to its conclusion (EvidenceChain) and the loop of          *)
(* Sentaurus patches (PatchLoop), for all requests, cases, results and     *)
(* decks.                                                                  *)
(***************************************************************************)
EXTENDS EvidenceChain, Outcomes, Objectives, PatchLoop, RequestPatch, FiniteSetTheorems, WellFoundedInduction, TLAPS

-----------------------------------------------------------------------------
(***************************************************************************)
(* Patched requests.  The patches that keep a request valid, and what the  *)
(* extension of a reverse sweep needs besides: it moves the end of the     *)
(* sweep down without a look at its start, so a sweep that rises from      *)
(* below -1 V may be left with no range at all.                            *)
(***************************************************************************)
SafePatches ==
    Patches \subseteq {"halve", "continuation", "mesh_relax", "mesh_refine", "densify", "reverse_range", "geometry"}

Descends(r) == r.start > r.stop \/ r.start >= -Volt
Extensible == "reverse_range" \in Patches => \A r \in Sweeps : Descends(r)

PatchInv == PatchInvariant /\ ("reverse_range" \in Patches => Descends(request))

\* What a patch of the steps leaves: half the step, and a least step that fits.
LEMMA HalvedFits ==
  ASSUME NEW r \in Request, Validates(r)
  PROVE  /\ halve_step_patch(r) \in Request /\ Validates(halve_step_patch(r))
         /\ halve_step_patch(r).start = r.start /\ halve_step_patch(r).stop = r.stop
         /\ halve_step_patch(r).x_divisions = r.x_divisions /\ halve_step_patch(r).attempts = r.attempts
<1> DEFINE half == Greater(r.step \div 2, r.min_step)
           least == Lesser(r.min_step, Greater(half \div 4, 1))
           h == [[r EXCEPT !.step = half] EXCEPT !.min_step = least]
<1>1. halve_step_patch(r) = h
  BY DEF halve_step_patch
<1>2. r.step \in Nat /\ r.min_step \in Nat /\ 0 < r.min_step /\ r.min_step <= r.step
  BY DEF Request, Validates, ValidSteps
<1>3. half \in Nat /\ r.min_step <= half
  BY <1>2 DEF Greater
<1>4. least \in Nat /\ 0 < least /\ least <= half
  BY <1>2, <1>3 DEF Greater, Lesser
<1> HIDE DEF half, least
<1>5. h \in Request /\ h.step = half /\ h.min_step = least
      /\ \A field \in {"start", "stop", "length", "junction", "depth", "silicon", "source", "x_divisions", "attempts"} :
            h[field] = r[field]
  BY <1>3, <1>4 DEF Request
<1>6. h.start = r.start /\ h.stop = r.stop /\ h.length = r.length /\ h.junction = r.junction /\ h.depth = r.depth
      /\ h.silicon = r.silicon /\ h.source = r.source /\ h.x_divisions = r.x_divisions /\ h.attempts = r.attempts
  BY <1>5
<1> HIDE DEF h
<1>7. Validates(h)
  BY <1>4, <1>5, <1>6 DEF Validates, ValidSteps, ValidRange, ValidGeometry
<1>8. QED
  BY <1>1, <1>5, <1>6, <1>7

\* The mesh may be as fine, and the attempts as many, as one likes.
LEMMA MeshKeeps ==
  ASSUME NEW r \in Request, Validates(r), NEW x \in Nat, x >= 4
  PROVE  LET t == [r EXCEPT !.x_divisions = x]
         IN  t \in Request /\ Validates(t) /\ t.start = r.start /\ t.stop = r.stop
<1> DEFINE t == [r EXCEPT !.x_divisions = x]
<1>1. t \in Request /\ t.x_divisions = x
      /\ t.start = r.start /\ t.stop = r.stop /\ t.step = r.step /\ t.min_step = r.min_step /\ t.length = r.length
      /\ t.junction = r.junction /\ t.depth = r.depth /\ t.silicon = r.silicon /\ t.source = r.source
  BY DEF Request
<1> HIDE DEF t
<1>2. Validates(t)
  BY <1>1 DEF Validates, ValidSteps, ValidRange, ValidGeometry
<1>3. QED
  BY <1>1, <1>2 DEF t

LEMMA AttemptsKeep ==
  ASSUME NEW r \in Request, Validates(r), NEW n \in Nat
  PROVE  LET t == [r EXCEPT !.attempts = n]
         IN  t \in Request /\ Validates(t) /\ t.start = r.start /\ t.stop = r.stop
<1> DEFINE t == [r EXCEPT !.attempts = n]
<1>1. t \in Request /\ t.x_divisions = r.x_divisions
      /\ t.start = r.start /\ t.stop = r.stop /\ t.step = r.step /\ t.min_step = r.min_step /\ t.length = r.length
      /\ t.junction = r.junction /\ t.depth = r.depth /\ t.silicon = r.silicon /\ t.source = r.source
  BY DEF Request
<1> HIDE DEF t
<1>2. Validates(t)
  BY <1>1 DEF Validates, ValidSteps, ValidRange, ValidGeometry
<1>3. QED
  BY <1>1, <1>2 DEF t

\* The extension of the reverse range of a sweep that descends, or starts at -1 V or above.
LEMMA ExtensionFits ==
  ASSUME NEW r \in Request, Validates(r), Descends(r)
  PROVE  LET t == reverse_range_extension_patch(r) IN t \in Request /\ Validates(t) /\ Descends(t)
<1> DEFINE stop == IF r.stop >= -Volt THEN -10 * Volt ELSE Lesser((3 * r.stop) \div 2, r.stop - 5 * Volt)
           step == Lesser(r.step, Greater(Size(stop - r.start) \div 40, Volt \div 20))
           least == Greater(Lesser(r.step \div 4, Volt \div 20), 1)
           t == [[[r EXCEPT !.stop = stop] EXCEPT !.step = step] EXCEPT !.min_step = least]
<1>1. reverse_range_extension_patch(r) = t
  BY DEF reverse_range_extension_patch
<1>2. r.start \in Int /\ r.stop \in Int /\ r.step \in Nat /\ 0 < r.step
  BY DEF Request, Validates, ValidSteps
<1>3. stop \in Int /\ stop < r.start
  BY <1>2 DEF Descends, Volt, Lesser
<1>4. Volt \div 20 = 4
  BY DEF Volt
<1>5. step \in Nat /\ least \in Nat /\ 0 < least /\ least <= step
  <2>1. Size(stop - r.start) \div 40 \in Int
    BY <1>2, <1>3 DEF Size
  <2>2. QED
    BY <1>2, <1>4, <2>1 DEF Lesser, Greater
<1> HIDE DEF stop, step, least
<1>6. t \in Request /\ t.stop = stop /\ t.step = step /\ t.min_step = least
      /\ t.start = r.start /\ t.length = r.length /\ t.junction = r.junction /\ t.depth = r.depth
      /\ t.silicon = r.silicon /\ t.source = r.source /\ t.x_divisions = r.x_divisions
  BY <1>3, <1>5 DEF Request
<1> HIDE DEF t
<1>7. Validates(t) /\ Descends(t)
  BY <1>2, <1>3, <1>5, <1>6 DEF Validates, ValidSteps, ValidRange, ValidGeometry, Descends
<1>8. QED
  BY <1>1, <1>6, <1>7

\* A valid geometry is left alone.
LEMMA GeometryStays ==
  ASSUME NEW r \in Request, Validates(r)
  PROVE  geometry_sanity_patch(r) = r
<1>1. ~(r.junction >= r.length) /\ ~(r.depth >= r.silicon) /\ ~(2 * r.source >= r.length)
  BY DEF Request, Validates, ValidGeometry
<1>2. QED
  BY <1>1 DEF geometry_sanity_patch, Request

LEMMA PatchKeeps ==
  ASSUME NEW r \in Request, Validates(r), NEW patch \in Patches, SafePatches
  PROVE  /\ patch # "reverse_range" => LET t == patched_request(patch, r)
                                       IN  t \in Request /\ Validates(t) /\ t.start = r.start /\ t.stop = r.stop
         /\ patch = "reverse_range" => patched_request(patch, r) = reverse_range_extension_patch(r)
<1> DEFINE h == halve_step_patch(r)
<1>h. h \in Request /\ Validates(h) /\ h.start = r.start /\ h.stop = r.stop /\ h.x_divisions = r.x_divisions
      /\ h.attempts = r.attempts
  BY HalvedFits
<1>r. r.x_divisions \in Nat /\ r.x_divisions >= 4 /\ r.attempts \in Nat
  BY DEF Request, Validates, ValidGeometry
<1>x. Greater(r.x_divisions \div 2, 4) \in Nat /\ Greater(r.x_divisions \div 2, 4) >= 4
      /\ (3 * r.x_divisions) \div 2 + 1 \in Nat /\ (3 * r.x_divisions) \div 2 + 1 >= 4
  BY <1>r DEF Greater
<1>n. Greater(r.attempts, 3) \in Nat /\ Greater(r.attempts + 2, 5) \in Nat
  BY <1>r DEF Greater
<1> HIDE DEF h
<1>1. CASE patch = "halve"
  <2>1. patched_request(patch, r) = [h EXCEPT !.attempts = Greater(r.attempts, 3)]
    BY <1>1, <1>h DEF patched_request, h
  <2>2. QED
    BY <1>1, <2>1, <1>h, <1>n, AttemptsKeep
<1>2. CASE patch = "continuation"
  <2>1. patched_request(patch, r) = [h EXCEPT !.attempts = Greater(r.attempts + 2, 5)]
    BY <1>2, <1>h DEF patched_request, h
  <2>2. QED
    BY <1>2, <2>1, <1>h, <1>n, AttemptsKeep
<1>3. CASE patch = "mesh_relax"
  <2>1. patched_request(patch, r) = [r EXCEPT !.x_divisions = Greater(r.x_divisions \div 2, 4)]
    BY <1>3 DEF patched_request
  <2>2. QED
    BY <1>3, <2>1, <1>x, MeshKeeps
<1>4. CASE patch = "mesh_refine"
  <2>1. patched_request(patch, r) = [r EXCEPT !.x_divisions = (3 * r.x_divisions) \div 2 + 1]
    BY <1>4 DEF patched_request
  <2>2. QED
    BY <1>4, <2>1, <1>x, MeshKeeps
<1>5. CASE patch = "densify"
  <2>1. patched_request(patch, r) = [h EXCEPT !.x_divisions = (3 * r.x_divisions) \div 2 + 1]
    BY <1>5, <1>h DEF patched_request, h
  <2>2. QED
    BY <1>5, <2>1, <1>h, <1>x, MeshKeeps
<1>6. CASE patch = "reverse_range"
  BY <1>6 DEF patched_request
<1>7. CASE patch = "geometry"
  BY <1>7, GeometryStays DEF patched_request
<1>8. QED
  BY <1>1, <1>2, <1>3, <1>4, <1>5, <1>6, <1>7 DEF SafePatches

\* The patches a repair carries, but for two, never make a request its tool
\* refuses, in whatever order and however often they are applied.
THEOREM PatchesKeepRequestsValid ==
  SafePatches /\ Extensible => (PatchSpec => []PatchInvariant)
<1> SUFFICES ASSUME SafePatches, Extensible PROVE PatchSpec => []PatchInvariant
  OBVIOUS
<1>1. PatchInit => PatchInv
  BY SweepsAssumption, PatchAssumption
  DEF PatchInit, PatchInv, PatchInvariant, PatchTypeOK, PatchedRequestValid, Extensible
<1>2. PatchInv /\ [PatchNext]_patchVars => PatchInv'
  <2> SUFFICES ASSUME PatchInv, [PatchNext]_patchVars PROVE PatchInv'
    OBVIOUS
  <2>1. CASE UNCHANGED patchVars
    BY <2>1 DEF patchVars, PatchInv, PatchInvariant, PatchTypeOK, PatchedRequestValid
  <2>2. CASE Patch
    <3>1. PICK patch \in Patches : request' = patched_request(patch, request)
      BY <2>2 DEF Patch
    <3>2. request \in Request /\ Validates(request) /\ ("reverse_range" \in Patches => Descends(request))
      BY DEF PatchInv, PatchInvariant, PatchTypeOK, PatchedRequestValid
    <3>3. request' \in Request /\ Validates(request') /\ ("reverse_range" \in Patches => Descends(request'))
      BY <3>1, <3>2, PatchKeeps, ExtensionFits DEF Descends
    <3>4. patched' \in 0 .. MaxPatches
      BY <2>2, PatchAssumption DEF Patch, PatchInv, PatchInvariant, PatchTypeOK
    <3>5. QED
      BY <3>3, <3>4 DEF PatchInv, PatchInvariant, PatchTypeOK, PatchedRequestValid
  <2>3. QED
    BY <2>1, <2>2 DEF PatchNext
<1>3. PatchInv => PatchInvariant
  BY DEF PatchInv
<1>4. QED
  BY <1>1, <1>2, <1>3, PTL DEF PatchSpec

-----------------------------------------------------------------------------
(***************************************************************************)
(* The ranking.  Dominance is an order, so a candidate that is dominated   *)
(* is dominated by one of the front; and with positive weights what        *)
(* dominates has the lower score, so the best is on the front.             *)
(***************************************************************************)
Case == [Metrics_ -> Seq(Int)]

LEMMA Below ==
  ASSUME NEW below, IsWellFoundedOn(below, Nat),
         \A i, j \in Nat : j < i => <<j, i>> \in below,
         NEW T \in SUBSET Nat, T # {}
  PROVE  \E i \in T : \A j \in T : i <= j
<1>1. PICK i \in T : \A j \in T : ~(<<j, i>> \in below)
  BY WFMin
<1>2. \A j \in T : i \in Nat /\ j \in Nat /\ ~(j < i)
  BY <1>1, Zenon
<1>3. QED
  BY <1>2

\* A set of natural numbers has a least one.
LEMMA LeastNumber ==
  ASSUME NEW T \in SUBSET Nat, T # {}
  PROVE  \E i \in T : \A j \in T : i <= j
<1>1. \A i, j \in Nat : j < i => <<j, i>> \in OpToRel(<, Nat)
  BY DEF OpToRel
<1>2. QED
  BY <1>1, NatLessThanWellFounded, Below, Zenon

\* A number that follows whenever those below it do.
LEMMA EveryNumber ==
  ASSUME NEW last \in Nat, NEW Good \in SUBSET Nat, 0 \in Good,
         \A n \in 1 .. last : n - 1 \in Good => n \in Good
  PROVE  \A n \in 0 .. last : n \in Good
<1> DEFINE Bad == {n \in 0 .. last : n \notin Good}
<1> SUFFICES ASSUME Bad # {} PROVE FALSE
  OBVIOUS
<1>1. Bad \in SUBSET Nat
  OBVIOUS
<1>2. PICK n \in Bad : \A k \in Bad : n <= k
  BY <1>1, LeastNumber
<1>3. n \in 1 .. last /\ n - 1 \in 0 .. last /\ n \notin Good /\ n \in Nat
  BY DEF Bad
<1>4. n - 1 \notin Bad
  <2> HIDE DEF Bad
  <2>1. QED
    BY <1>2, <1>3
<1>5. QED
  BY <1>3, <1>4

\* What an objective looks at is a number.
LEMMA ValueType ==
  ASSUME goals \in Goals, NEW c \in Case, NEW metric \in DOMAIN goals, Known_(c, metric)
  PROVE  Value(c, metric) \in Int
<1>1. metric \in Metrics_ /\ goals[metric].direction \in {"minimize", "maximize", "minimize_abs", "maximize_abs"}
  BY ObjectivesAssumption
<1>2. c[metric] \in Seq(Int) /\ c[metric] # << >>
  BY <1>1 DEF Case, Known_
<1>3. c[metric][1] \in Int
  BY <1>2
<1>4. QED
  BY <1>1, <1>3 DEF Value, transformed_objective_value, Magnitude

LEMMA DominanceIsAnOrder ==
  ASSUME goals \in Goals, NEW a \in Case, NEW b \in Case, NEW c \in Case
  PROVE  /\ ~dominates(a, a)
         /\ dominates(a, b) /\ dominates(b, c) => dominates(a, c)
<1>1. \A x \in Case : Complete(x) => \A metric \in DOMAIN goals : Value(x, metric) \in Int
  BY ValueType DEF Complete
<1>2. ~dominates(a, a)
  BY <1>1 DEF dominates
<1>3. ASSUME dominates(a, b), dominates(b, c) PROVE dominates(a, c)
  <2>1. \A metric \in DOMAIN goals :
           /\ Value(a, metric) \in Int /\ Value(b, metric) \in Int /\ Value(c, metric) \in Int
           /\ Value(a, metric) <= Value(b, metric) /\ Value(b, metric) <= Value(c, metric)
    BY <1>1, <1>3 DEF dominates
  <2>2. \A metric \in DOMAIN goals : Value(a, metric) <= Value(c, metric)
    BY <2>1
  <2>3. PICK metric \in DOMAIN goals : Value(a, metric) < Value(b, metric)
    BY <1>3 DEF dominates
  <2>4. Value(a, metric) < Value(c, metric)
    BY <2>1, <2>3
  <2>5. QED
    BY <1>3, <2>2, <2>4 DEF dominates
<1>4. QED
  BY <1>2, <1>3

\* Of those that dominate a candidate, or are it, one with the fewest above it
\* has none above it.
LEMMA FrontBeatsTheRest ==
  ASSUME goals \in Goals, NEW cs \in Seq(Case), NEW i \in DOMAIN cs, feasible(cs[i])
  PROVE  i \in assign_pareto_front(cs) \/ \E j \in assign_pareto_front(cs) : dominates(cs[j], cs[i])
<1> DEFINE Above(j) == {k \in DOMAIN cs : dominates(cs[k], cs[j])}
           Best_ == {j \in DOMAIN cs : j = i \/ dominates(cs[j], cs[i])}
           Counts == {Cardinality(Above(j)) : j \in Best_}
<1>1. IsFiniteSet(DOMAIN cs) /\ \A j \in DOMAIN cs : cs[j] \in Case
  <2>1. DOMAIN cs = 1 .. Len(cs) /\ Len(cs) \in Nat
    OBVIOUS
  <2>2. QED
    BY <2>1, FS_Interval
<1>2. \A j \in DOMAIN cs : IsFiniteSet(Above(j)) /\ Cardinality(Above(j)) \in Nat
  BY <1>1, FS_Subset, FS_CardinalityType
<1>3. \A j, k \in DOMAIN cs : dominates(cs[k], cs[j]) => Cardinality(Above(k)) < Cardinality(Above(j))
  <2> SUFFICES ASSUME NEW j \in DOMAIN cs, NEW k \in DOMAIN cs, dominates(cs[k], cs[j])
               PROVE  Cardinality(Above(k)) < Cardinality(Above(j))
    OBVIOUS
  <2>1. Above(k) \subseteq Above(j) /\ k \in Above(j) /\ k \notin Above(k)
    BY <1>1, DominanceIsAnOrder
  <2>2. Cardinality(Above(k)) <= Cardinality(Above(j)) /\ Cardinality(Above(k)) # Cardinality(Above(j))
    BY <1>2, <2>1, FS_Subset
  <2>3. Cardinality(Above(k)) \in Nat /\ Cardinality(Above(j)) \in Nat
    BY <1>2
  <2> HIDE DEF Above
  <2>4. QED
    BY <2>2, <2>3
<1>4. Counts \in SUBSET Nat /\ Counts # {}
  BY <1>2
<1>5. PICK n \in Counts : \A m \in Counts : n <= m
  BY <1>4, LeastNumber
<1>6. PICK j \in Best_ : n = Cardinality(Above(j))
  BY <1>5
<1>7. feasible(cs[j])
  BY <1>6 DEF dominates
<1>8. \A k \in DOMAIN cs : ~dominates(cs[k], cs[j])
  <2> SUFFICES ASSUME NEW k \in DOMAIN cs, dominates(cs[k], cs[j]) PROVE FALSE
    OBVIOUS
  <2>1. k \in Best_
    BY <1>1, <1>6, DominanceIsAnOrder
  <2>2. Cardinality(Above(k)) < n /\ n <= Cardinality(Above(k))
    BY <1>3, <1>5, <1>6, <2>1
  <2>3. Cardinality(Above(k)) \in Nat /\ n \in Nat
    BY <1>2, <1>4
  <2> HIDE DEF Above, Counts
  <2>4. QED
    BY <2>2, <2>3
<1>9. j \in assign_pareto_front(cs)
  BY <1>6, <1>7, <1>8 DEF assign_pareto_front
<1>10. QED
  BY <1>6, <1>9

-----------------------------------------------------------------------------
(***************************************************************************)
(* The score.  It is a fold over the objectives, which exists and goes     *)
(* down to the empty set one metric after the other, the same ones for     *)
(* all candidates.                                                         *)
(***************************************************************************)
Pick(s) == CHOOSE x \in s : TRUE
\* A total adds the terms f has of a set of metrics, for every set in S.
IsTotal(total, f, S) ==
    total = [s \in S |-> IF s = {} THEN 0 ELSE f[Pick(s)] + total[s \ {Pick(s)}]]

\* From a total of the sets of up to n metrics one of those with one more is made.
LEMMA TotalGrows ==
  ASSUME NEW D, NEW f, NEW S \in SUBSET SUBSET D, NEW R \in SUBSET S,
         NEW total, IsTotal(total, f, R),
         \A s \in S : s # {} => s \ {Pick(s)} \in R
  PROVE  \E t : IsTotal(t, f, S)
<1> DEFINE t == [s \in S |-> IF s = {} THEN 0 ELSE f[Pick(s)] + total[s \ {Pick(s)}]]
<1>1. \A s \in R : t[s] = total[s]
  <2>1. \A s \in R : total[s] = IF s = {} THEN 0 ELSE f[Pick(s)] + total[s \ {Pick(s)}]
    BY DEF IsTotal
  <2>2. \A s \in R : t[s] = IF s = {} THEN 0 ELSE f[Pick(s)] + total[s \ {Pick(s)}]
    OBVIOUS
  <2>3. QED
    BY <2>1, <2>2
<1>2. t = [s \in S |-> IF s = {} THEN 0 ELSE f[Pick(s)] + t[s \ {Pick(s)}]]
  <2>1. \A s \in S : s # {} => t[s \ {Pick(s)}] = total[s \ {Pick(s)}]
    BY <1>1
  <2> DEFINE u == t
  <2> HIDE DEF u
  <2>2. \A s \in S : s # {} => u[s \ {Pick(s)}] = total[s \ {Pick(s)}]
    BY <2>1 DEF u
  <2>3. [s \in S |-> IF s = {} THEN 0 ELSE f[Pick(s)] + u[s \ {Pick(s)}]] = t
    BY <2>2
  <2>4. QED
    BY <2>3 DEF u
<1>3. QED
  BY <1>2 DEF IsTotal

\* A set of metrics without one of them.
LEMMA OneLess ==
  ASSUME NEW D, IsFiniteSet(D)
  PROVE  \A s \in SUBSET D : /\ IsFiniteSet(s) /\ Cardinality(s) \in Nat
                             /\ s # {} => /\ Pick(s) \in s /\ s \ {Pick(s)} \in SUBSET D
                                          /\ Cardinality(s \ {Pick(s)}) = Cardinality(s) - 1
<1> SUFFICES ASSUME NEW s \in SUBSET D
             PROVE  /\ IsFiniteSet(s) /\ Cardinality(s) \in Nat
                    /\ s # {} => /\ Pick(s) \in s /\ s \ {Pick(s)} \in SUBSET D
                                 /\ Cardinality(s \ {Pick(s)}) = Cardinality(s) - 1
  OBVIOUS
<1>1. IsFiniteSet(s) /\ Cardinality(s) \in Nat
  BY FS_Subset, FS_CardinalityType
<1>2. s # {} => Pick(s) \in s
  BY DEF Pick
<1>3. s # {} => Cardinality(s \ {Pick(s)}) = Cardinality(s) - 1
  BY <1>1, <1>2, FS_RemoveElement
<1>4. QED
  BY <1>1, <1>2, <1>3

LEMMA TotalExists ==
  ASSUME NEW D, IsFiniteSet(D), NEW f
  PROVE  \E t : IsTotal(t, f, SUBSET D)
<1> DEFINE Small(n) == {s \in SUBSET D : Cardinality(s) <= n}
           Good == {n \in Nat : \E t : IsTotal(t, f, Small(n))}
           size == Cardinality(D)
<1>1. \A s \in SUBSET D : /\ IsFiniteSet(s) /\ Cardinality(s) \in Nat
                          /\ s # {} => /\ s \ {Pick(s)} \in SUBSET D
                                       /\ Cardinality(s \ {Pick(s)}) = Cardinality(s) - 1
  BY OneLess
<1>2. size \in Nat /\ \A s \in SUBSET D : Cardinality(s) <= size
  BY FS_Subset, FS_CardinalityType
<1>3. 0 \in Good
  <2>1. \A s \in Small(0) : s = {}
    <3> SUFFICES ASSUME NEW s \in SUBSET D, Cardinality(s) <= 0 PROVE s = {}
      OBVIOUS
    <3>1. IsFiniteSet(s) /\ Cardinality(s) \in Nat
      BY <1>1
    <3>2. Cardinality(s) = 0
      BY <3>1
    <3>3. QED
      BY <3>1, <3>2, FS_EmptySet
  <2>2. IsTotal([s \in {} |-> 0], f, {})
    BY DEF IsTotal
  <2>3. Small(0) \in SUBSET SUBSET D /\ {} \in SUBSET Small(0)
    OBVIOUS
  <2> HIDE DEF Small
  <2>4. \E t : IsTotal(t, f, Small(0))
    BY <2>1, <2>2, <2>3, TotalGrows
  <2>5. QED
    BY <2>4
<1>4. ASSUME NEW n \in 1 .. size, n - 1 \in Good PROVE n \in Good
  <2>1. PICK t : IsTotal(t, f, Small(n - 1))
    BY <1>4
  <2>2. \A s \in Small(n) : s # {} => s \ {Pick(s)} \in Small(n - 1)
    <3> SUFFICES ASSUME NEW s \in SUBSET D, Cardinality(s) <= n, s # {} PROVE Cardinality(s \ {Pick(s)}) <= n - 1
      BY <1>1
    <3>1. Cardinality(s) \in Nat /\ Cardinality(s \ {Pick(s)}) = Cardinality(s) - 1
      BY <1>1
    <3>2. QED
      BY <1>2, <3>1
  <2>3. Small(n) \in SUBSET SUBSET D /\ Small(n - 1) \in SUBSET Small(n)
    <3>1. ASSUME NEW s \in SUBSET D, Cardinality(s) <= n - 1 PROVE Cardinality(s) <= n
      <4>1. Cardinality(s) \in Nat
        BY <1>1
      <4>2. n \in Nat
        OBVIOUS
      <4>3. QED
        BY <3>1, <4>1, <4>2
    <3>2. QED
      BY <3>1
  <2> HIDE DEF Small
  <2>4. \E u : IsTotal(u, f, Small(n))
    BY <2>1, <2>2, <2>3, TotalGrows
  <2>5. QED
    BY <1>2, <2>4
<1>5. size \in Good
  <2>1. Good \in SUBSET Nat /\ size \in 0 .. size
    BY <1>2
  <2> HIDE DEF Good, size
  <2>2. QED
    BY <1>2, <1>3, <1>4, <2>1, EveryNumber
<1>6. Small(size) = SUBSET D
  BY <1>2
<1>7. QED
  BY <1>5, <1>6

\* The greater terms give the greater total.
LEMMA TotalsKeepOrder ==
  ASSUME NEW D, IsFiniteSet(D), NEW f \in [D -> Int], NEW g \in [D -> Int], \A metric \in D : f[metric] <= g[metric],
         NEW x, IsTotal(x, f, SUBSET D), NEW y, IsTotal(y, g, SUBSET D)
  PROVE  /\ x[D] \in Int /\ y[D] \in Int /\ x[D] <= y[D]
         /\ (\E metric \in D : f[metric] < g[metric]) => x[D] < y[D]
<1> DEFINE Gains(s) == \E metric \in s : f[metric] < g[metric]
           Ordered(s) == /\ x[s] \in Int /\ y[s] \in Int /\ x[s] <= y[s]
                         /\ Gains(s) => x[s] < y[s]
           Good == {n \in Nat : \A s \in SUBSET D : Cardinality(s) = n => Ordered(s)}
           size == Cardinality(D)
<1>1. \A s \in SUBSET D : /\ IsFiniteSet(s) /\ Cardinality(s) \in Nat
                          /\ s # {} => /\ Pick(s) \in s /\ s \ {Pick(s)} \in SUBSET D
                                       /\ Cardinality(s \ {Pick(s)}) = Cardinality(s) - 1
  BY OneLess
<1>2. \A s \in SUBSET D : /\ x[s] = IF s = {} THEN 0 ELSE f[Pick(s)] + x[s \ {Pick(s)}]
                          /\ y[s] = IF s = {} THEN 0 ELSE g[Pick(s)] + y[s \ {Pick(s)}]
  BY DEF IsTotal
<1>3. ASSUME NEW s \in SUBSET D, s # {}, Ordered(s \ {Pick(s)}) PROVE Ordered(s)
  <2>1. Pick(s) \in s /\ Pick(s) \in D
    BY <1>1, <1>3
  <2>2. f[Pick(s)] \in Int /\ g[Pick(s)] \in Int /\ f[Pick(s)] <= g[Pick(s)]
    BY <2>1
  <2>3. x[s] = f[Pick(s)] + x[s \ {Pick(s)}] /\ y[s] = g[Pick(s)] + y[s \ {Pick(s)}]
    BY <1>2, <1>3
  <2>4. Gains(s) => f[Pick(s)] < g[Pick(s)] \/ Gains(s \ {Pick(s)})
    OBVIOUS
  <2>5. QED
    BY <1>3, <2>2, <2>3, <2>4
<1>4. Ordered({})
  <2>1. x[{}] = 0 /\ y[{}] = 0
    BY <1>2
  <2>2. ~Gains({})
    OBVIOUS
  <2> HIDE DEF Gains
  <2>3. QED
    BY <2>1, <2>2
<1> HIDE DEF Ordered
<1>5. 0 \in Good
  <2> SUFFICES ASSUME NEW s \in SUBSET D, Cardinality(s) = 0 PROVE Ordered(s)
    OBVIOUS
  <2>1. s = {}
    BY <1>1, FS_EmptySet
  <2>2. QED
    BY <1>4, <2>1
<1>6. ASSUME NEW n \in 1 .. size, n - 1 \in Good PROVE n \in Good
  <2>0. n \in Nat /\ n # 0
    OBVIOUS
  <2> SUFFICES ASSUME NEW s \in SUBSET D, Cardinality(s) = n PROVE Ordered(s)
    BY <2>0
  <2>1. s # {}
    BY <2>0, FS_EmptySet
  <2>2. Ordered(s \ {Pick(s)})
    BY <1>1, <1>6, <2>1
  <2>3. QED
    BY <1>3, <2>1, <2>2
<1>7. size \in Good
  <2>0. D \in SUBSET D
    OBVIOUS
  <2>1. size \in Nat
    BY <1>1, <2>0
  <2>2. Good \in SUBSET Nat
    OBVIOUS
  <2> HIDE DEF Good, size
  <2>3. size \in 0 .. size
    BY <2>1
  <2>4. QED
    BY <1>5, <1>6, <2>1, <2>2, <2>3, EveryNumber
<1>8. Ordered(D)
  BY <1>7
<1>9. QED
  BY <1>8 DEF Ordered

Terms(c) == [metric \in DOMAIN goals |-> goals[metric].weight * Value(c, metric)]

LEMMA ScoreIsTotal ==
  ASSUME goals \in Goals, NEW c
  PROVE  /\ IsFiniteSet(DOMAIN goals)
         /\ \E t : IsTotal(t, Terms(c), SUBSET DOMAIN goals) /\ score(c) = t[DOMAIN goals]
<1> DEFINE D == DOMAIN goals
           IsSum(total) ==
             total = [s \in SUBSET D |->
                        IF s = {} THEN 0 ELSE goals[Pick(s)].weight * Value(c, Pick(s)) + total[s \ {Pick(s)}]]
<1>1. IsFiniteSet(D)
  <2>1. D \in SUBSET Metrics_ /\ IsFiniteSet(Metrics_)
    BY ObjectivesAssumption
  <2>2. QED
    BY <2>1, FS_Subset
<1>2. score(c) = (CHOOSE total : IsSum(total))[D]
  BY DEF score, MapThenSumSet, MapThenFoldSet, Pick
<1>3. ASSUME NEW total PROVE IsSum(total) <=> IsTotal(total, Terms(c), SUBSET D)
  <2>1. \A s \in SUBSET D : s # {} => Terms(c)[Pick(s)] = goals[Pick(s)].weight * Value(c, Pick(s))
    BY DEF Terms, Pick
  <2> DEFINE Sum_(s) == IF s = {} THEN 0 ELSE goals[Pick(s)].weight * Value(c, Pick(s)) + total[s \ {Pick(s)}]
             Tot_(s) == IF s = {} THEN 0 ELSE Terms(c)[Pick(s)] + total[s \ {Pick(s)}]
  <2>2. \A s \in SUBSET D : Sum_(s) = Tot_(s)
    BY <2>1
  <2> HIDE DEF Sum_, Tot_
  <2>3. [s \in SUBSET D |-> Sum_(s)] = [s \in SUBSET D |-> Tot_(s)]
    BY <2>2
  <2>4. QED
    BY <2>3 DEF Sum_, Tot_, IsTotal
<1> HIDE DEF IsSum
<1>4. IsSum(CHOOSE total : IsSum(total))
  BY <1>1, <1>3, TotalExists
<1>5. QED
  BY <1>1, <1>2, <1>3, <1>4

LEMMA WeightKeepsOrder ==
  ASSUME NEW w \in Nat \ {0}, NEW u \in Int, NEW v \in Int
  PROVE  /\ w * u \in Int /\ w * v \in Int
         /\ u <= v => w * u <= w * v
         /\ u < v => w * u < w * v
<1>1. w * u \in Int /\ w * v \in Int
  OBVIOUS
<1>2. v - u \in Int /\ w * (v - u) = w * v - w * u
  OBVIOUS
<1>3. \A d \in Nat : w * d \in Nat /\ (d > 0 => w * d > 0)
  OBVIOUS
<1>4. u <= v => v - u \in Nat /\ (u < v => v - u > 0)
  OBVIOUS
<1>5. QED
  BY <1>1, <1>2, <1>3, <1>4

\* What dominates has the lower score.
LEMMA DominatorScoresLess ==
  ASSUME goals \in Goals, \A metric \in DOMAIN goals : goals[metric].weight \in Nat \ {0},
         NEW a \in Case, NEW b \in Case, dominates(a, b)
  PROVE  score(a) \in Int /\ score(b) \in Int /\ score(a) < score(b)
<1> DEFINE D == DOMAIN goals
           f == Terms(a)
           g == Terms(b)
<1>1. \A metric \in D : /\ Value(a, metric) \in Int /\ Value(b, metric) \in Int
                        /\ Value(a, metric) <= Value(b, metric)
  BY ValueType DEF dominates, Complete
<1>2. f = [metric \in D |-> f[metric]] /\ g = [metric \in D |-> g[metric]]
  BY DEF Terms
<1>3. \A metric \in D : /\ f[metric] \in Int /\ g[metric] \in Int /\ f[metric] <= g[metric]
                        /\ Value(a, metric) < Value(b, metric) => f[metric] < g[metric]
  BY <1>1, WeightKeepsOrder DEF Terms
<1>4. IsFiniteSet(D)
  BY ScoreIsTotal
<1>5. PICK x : IsTotal(x, f, SUBSET D) /\ score(a) = x[D]
  BY ScoreIsTotal
<1>6. PICK y : IsTotal(y, g, SUBSET D) /\ score(b) = y[D]
  BY ScoreIsTotal
<1>7. \E metric \in D : Value(a, metric) < Value(b, metric)
  BY DEF dominates
<1> HIDE DEF D, f, g
<1>8. f \in [D -> Int] /\ g \in [D -> Int]
  BY <1>2, <1>3
<1>9. x[D] \in Int /\ y[D] \in Int /\ x[D] < y[D]
  BY <1>3, <1>4, <1>5, <1>6, <1>7, <1>8, TotalsKeepOrder
<1>10. QED
  BY <1>5, <1>6, <1>9

\* Every weight is positive.  The code does not ask for it.
PositiveWeights == \A g \in Goals : \A metric \in DOMAIN g : g[metric].weight > 0

RankingTypes ==
    /\ goals \in Goals /\ limits \in SUBSET Limits /\ candidates \in Seq(Case)
    /\ judged.cases \in 0 .. Len(candidates) /\ Len(candidates) <= MaxCandidates
    /\ judged.front \cup judged.best \subseteq 1 .. judged.cases

RankingInv == RankingTypes /\ RankingInvariant

\* The judgement of the cases there are.
LEMMA JudgementIsFair ==
  ASSUME PositiveWeights, RankingTypes
  PROVE  LET best == Best(candidates)
             front == assign_pareto_front(candidates)
             action == build_objective_decision(candidates, best)
         IN  /\ best \subseteq front /\ front \subseteq DOMAIN candidates
             /\ \A i \in DOMAIN candidates : feasible(candidates[i]) =>
                   i \in front \/ \E j \in front : dominates(candidates[j], candidates[i])
             /\ action = "continue_with_best_candidate" =>
                   best # {} /\ \A i \in DOMAIN candidates : feasible(candidates[i])
             /\ action \in {"collect_candidates", "reject_or_collect_more_evidence", "review_constraints",
                            "continue_with_best_candidate"}
<1> DEFINE cs == candidates
<1>1. goals \in Goals /\ cs \in Seq(Case) /\ \A i \in DOMAIN cs : cs[i] \in Case
  BY DEF RankingTypes
<1>2. \A metric \in DOMAIN goals : goals[metric].weight \in Nat \ {0}
  BY <1>1, ObjectivesAssumption DEF PositiveWeights
<1>3. Best(cs) \subseteq assign_pareto_front(cs)
  <2> SUFFICES ASSUME NEW i \in Best(cs), NEW j \in DOMAIN cs \ {i}, dominates(cs[j], cs[i]) PROVE FALSE
    BY DEF Best, assign_pareto_front
  <2>1. i \in DOMAIN cs
    BY DEF Best
  <2>2. score(cs[j]) \in Int /\ score(cs[i]) \in Int /\ score(cs[j]) < score(cs[i])
    BY <1>1, <1>2, <2>1, DominatorScoresLess
  <2>3. feasible(cs[j]) /\ Complete(cs[j])
    BY DEF dominates
  <2>4. score(cs[i]) < score(cs[j]) \/ score(cs[i]) = score(cs[j])
    BY <2>3 DEF Best
  <2>5. QED
    BY <2>2, <2>4
<1>4. \A i \in DOMAIN cs : feasible(cs[i]) =>
         i \in assign_pareto_front(cs) \/ \E j \in assign_pareto_front(cs) : dominates(cs[j], cs[i])
  BY <1>1, FrontBeatsTheRest
<1>5. QED
  BY <1>3, <1>4 DEF build_objective_decision, assign_pareto_front

\* The ranking of a study can be followed, whatever its cases, objectives and
\* constraints: its best candidate is on the front, the front beats what it
\* leaves out, and a study goes on unreviewed only when no case breaks a bound.
THEOREM RankingCanBeFollowed ==
  PositiveWeights => (ObjectivesSpec => []RankingInvariant)
<1> SUFFICES ASSUME PositiveWeights PROVE ObjectivesSpec => []RankingInvariant
  OBVIOUS
<1>1. ObjectivesInit => RankingInv
  <2> SUFFICES ASSUME ObjectivesInit PROVE RankingInv
    OBVIOUS
  <2>1. judged = NoJudgement /\ candidates = << >> /\ MaxCandidates \in Nat
    BY ObjectivesAssumption DEF ObjectivesInit
  <2>2. RankingTypes
    BY <2>1 DEF ObjectivesInit, NoJudgement, RankingTypes
  <2>3. QED
    BY <2>1, <2>2 DEF NoJudgement, RankingTypes, RankingInv, RankingInvariant, ObjectivesTypeOK, DominatedByTheFront,
                      BestIsOnTheFront, ContinuesUnviolated
<1>2. RankingInv /\ [ObjectivesNext]_objectiveVars => RankingInv'
  <2> SUFFICES ASSUME RankingInv, [ObjectivesNext]_objectiveVars PROVE RankingInv'
    OBVIOUS
  <2> USE DEF RankingInv
  <2>0. MaxCandidates \in Nat /\ goals \in Goals /\ limits \in SUBSET Limits
    BY ObjectivesAssumption DEF RankingTypes
  <2>1. ASSUME UNCHANGED <<goals, limits, judged>>, candidates' \in Seq(Case), Len(candidates') <= MaxCandidates,
               Len(candidates) <= Len(candidates'), \A i \in 1 .. judged.cases : candidates'[i] = candidates[i]
        PROVE  RankingInv'
    <3>1. RankingTypes'
      BY <2>1 DEF RankingTypes
    <3>2. ObjectivesTypeOK' /\ BestIsOnTheFront'
      BY <2>1 DEF RankingTypes, RankingInvariant, ObjectivesTypeOK, BestIsOnTheFront
    <3>3. DominatedByTheFront'
      <4>1. \A c : feasible(c)' <=> feasible(c)
        BY <2>1 DEF feasible, Violations, Known_
      <4>2. \A c, d : dominates(c, d)' <=> dominates(c, d)
        BY <2>1, <4>1 DEF dominates, feasible, Violations, Complete, Known_, Value
      <4>3. judged'.front \subseteq 1 .. judged.cases
        BY <2>1 DEF RankingTypes
      <4>4. SUFFICES ASSUME judged'.status = "completed", NEW i \in 1 .. judged'.cases, feasible(candidates[i])',
                            i \notin judged'.front
                     PROVE  \E j \in judged'.front : dominates(candidates[j], candidates[i])'
        BY DEF DominatedByTheFront
      <4>5. i \in 1 .. judged.cases /\ candidates'[i] = candidates[i] /\ i \notin judged.front
        BY <2>1, <4>4
      <4>6. feasible(candidates[i])
        BY <4>1, <4>4, <4>5 DEF feasible, Violations, Known_
      <4>7. PICK j \in judged.front : dominates(candidates[j], candidates[i])
        BY <2>1, <4>4, <4>5, <4>6 DEF RankingInvariant, DominatedByTheFront
      <4>8. candidates'[j] = candidates[j] /\ j \in judged'.front
        BY <2>1, <4>3, <4>7
      <4>9. dominates(candidates[j], candidates[i])'
        BY <2>1, <4>1, <4>5, <4>7, <4>8 DEF dominates, feasible, Violations, Complete, Known_, Value
      <4>10. QED
        BY <4>8, <4>9
    <3>4. ContinuesUnviolated'
      BY <2>1 DEF RankingTypes, RankingInvariant, ContinuesUnviolated, Known_
    <3>5. QED
      BY <3>1, <3>2, <3>3, <3>4 DEF RankingInvariant
  <2>2. CASE UNCHANGED objectiveVars
    BY <2>1, <2>2 DEF objectiveVars, RankingTypes
  <2>3. CASE AddCase
    <3>1. PICK v \in Values : candidates' = Append(candidates, v)
      BY <2>3 DEF AddCase
    <3>2. v \in Case /\ candidates \in Seq(Case) /\ judged.cases \in 0 .. Len(candidates)
      BY <3>1, ObjectivesAssumption DEF Case, RankingTypes
    <3>3. /\ candidates' \in Seq(Case) /\ Len(candidates') = Len(candidates) + 1
          /\ \A i \in 1 .. Len(candidates) : candidates'[i] = candidates[i]
      BY <3>1, <3>2
    <3>4. Len(candidates) \in Nat /\ Len(candidates) < MaxCandidates
      BY <2>3, <3>2 DEF AddCase
    <3>5. QED
      BY <2>0, <2>1, <2>3, <3>2, <3>3, <3>4 DEF AddCase
  <2>4. CASE Evaluate
    <3> DEFINE best == Best(candidates)
               front == assign_pareto_front(candidates)
               action == build_objective_decision(candidates, best)
    <3>1. /\ best \subseteq front /\ front \subseteq DOMAIN candidates
          /\ \A i \in DOMAIN candidates : feasible(candidates[i]) =>
                i \in front \/ \E j \in front : dominates(candidates[j], candidates[i])
          /\ action = "continue_with_best_candidate" =>
                best # {} /\ \A i \in DOMAIN candidates : feasible(candidates[i])
          /\ action \in {"collect_candidates", "reject_or_collect_more_evidence", "review_constraints",
                         "continue_with_best_candidate"}
      BY JudgementIsFair
    <3>2. /\ judged'.status = "completed" /\ judged'.cases = Len(candidates) /\ judged'.front = front
          /\ judged'.best = best /\ judged'.action = action
          /\ UNCHANGED <<goals, limits, candidates>>
      BY <2>4 DEF Evaluate
    <3> HIDE DEF best, front, action
    <3>3. candidates \in Seq(Case) /\ DOMAIN candidates = 1 .. Len(candidates) /\ Len(candidates) \in Nat
      BY DEF RankingTypes
    <3>4. RankingTypes' /\ ObjectivesTypeOK' /\ BestIsOnTheFront'
      BY <2>0, <3>1, <3>2, <3>3 DEF RankingTypes, ObjectivesTypeOK, BestIsOnTheFront
    <3>5. DominatedByTheFront'
      <4>1. \A c : feasible(c)' <=> feasible(c)
        BY <3>2 DEF feasible, Violations, Known_
      <4>2. QED
        BY <3>1, <3>2, <3>3, <4>1 DEF DominatedByTheFront, feasible, Violations, dominates, Complete, Known_, Value
    <3>6. ContinuesUnviolated'
      <4>1. ASSUME NEW i \in 1 .. Len(candidates), NEW l \in limits, l.required, feasible(candidates[i])
            PROVE  Known_(candidates[i], l.metric) /\ candidates[i][l.metric][1] >= l.bound
        <5>1. candidates[i] \in Case /\ l.metric \in Metrics_ /\ l.bound \in Int
          BY <2>0, <3>3, ObjectivesAssumption
        <5>2. Known_(candidates[i], l.metric) /\ ~(candidates[i][l.metric][1] < l.bound)
          BY <4>1 DEF feasible, Violations
        <5>3. candidates[i][l.metric] \in Seq(Int) /\ candidates[i][l.metric] # << >>
          BY <5>1, <5>2 DEF Case, Known_
        <5>4. candidates[i][l.metric][1] \in Int
          BY <5>3
        <5>5. QED
          BY <5>1, <5>2, <5>4
      <4>2. QED
        BY <3>1, <3>2, <3>3, <4>1 DEF ContinuesUnviolated, Known_
    <3>7. QED
      BY <3>4, <3>5, <3>6 DEF RankingInvariant
  <2>5. QED
    BY <2>2, <2>3, <2>4 DEF ObjectivesNext
<1>3. RankingInv => RankingInvariant
  BY DEF RankingInv
<1>4. QED
  BY <1>1, <1>2, <1>3, PTL DEF ObjectivesSpec

-----------------------------------------------------------------------------
(***************************************************************************)
(* The checks of a benchmark.  Every table of rules and every rule of      *)
(* several facts gives findings with a code and a severity, and the one    *)
(* code that bars a device without a runner comes as an error only.        *)
(***************************************************************************)
PlannedCode == "planned_industrial_template_runner_missing"
Honest(checks) ==
    \A c \in checks : DOMAIN c = {"code", "severity", "best"} /\ (c.code = PlannedCode => c.severity = "error")
HonestRows(rows) == \A r \in rows : r[3] = PlannedCode => r[4] = "error"

LEMMA FindingsAreHonest ==
  ASSUME NEW rows, HonestRows(rows), NEW f
  PROVE  Honest(Findings(rows, f))
BY DEF Honest, HonestRows, Findings

LEMMA WhenIsHonest ==
  ASSUME NEW cond, NEW code, NEW severity, code = PlannedCode => severity = "error"
  PROVE  Honest(When(cond, code, severity))
BY DEF Honest, When

LEMMA RangesAreHonest ==
  ASSUME NEW fact, NEW code \in RangeCodes, NEW inside, NEW below, NEW above, NEW missing
  PROVE  HonestRows(range_check(fact, code, inside, below, above, missing))
<1>1. code # PlannedCode
  BY DEF RangeCodes, PlannedCode
<1>2. code \o "_below_range" # PlannedCode /\ code \o "_above_range" # PlannedCode /\ code \o "_missing" # PlannedCode
  BY CodesAssumption DEF PlannedCode
<1>3. \A v : /\ Pass(fact, v, code)[3] = code
             /\ Warn(fact, v, code \o "_below_range")[3] = code \o "_below_range"
             /\ Warn(fact, v, code \o "_above_range")[3] = code \o "_above_range"
             /\ Warn(fact, "none", code \o "_missing")[3] = code \o "_missing"
  BY DEF Pass, Warn
<1>4. \A r \in range_check(fact, code, inside, below, above, missing) : r[3] # PlannedCode
  BY <1>1, <1>2, <1>3, Zenon DEF range_check
<1>5. QED
  BY <1>4 DEF HonestRows

LEMMA FlagsAreHonest ==
  ASSUME NEW fact, NEW present, NEW missing, NEW severity, present # PlannedCode, missing # PlannedCode
  PROVE  HonestRows(Flag(fact, present, missing, severity))
BY DEF HonestRows, Flag, Pass

LEMMA SignsAreHonest ==
  ASSUME NEW fact, NEW ok, NEW wrong, ok # PlannedCode
  PROVE  HonestRows(SignCheck(fact, ok, wrong))
BY DEF HonestRows, SignCheck, Pass, Err

LEMMA GoldenIsHonest ==
  ASSUME NEW fact \in {"requested", "barrier", "ideality", "beta", "early", "bv", "ron", "threshold", "swing",
                       "dibl", "max_field", "density", "on_state"},
         NEW side
  PROVE  Honest(golden_check(fact, side))
<1>1. PICK t \in {"none", "ok", "outside", "far"} : golden_check(fact, side) = golden_check(fact, t)
  <2>1. "far" \in FarSides(fact) /\ "outside" \notin FarSides(fact) /\ "none" \notin FarSides(fact)
        /\ "ok" \notin FarSides(fact)
    BY DEF FarSides
  <2>2. CASE side = "none" \/ side = "ok"
    BY <2>2
  <2>3. CASE side # "none" /\ side # "ok" /\ side \in FarSides(fact)
    BY <2>1, <2>3 DEF golden_check
  <2>4. CASE side # "none" /\ side # "ok" /\ side \notin FarSides(fact)
    BY <2>1, <2>4 DEF golden_check
  <2>5. QED
    BY <2>2, <2>3, <2>4
<1>2. \A c \in golden_check(fact, side) : c.code \in GoldenMetricCodes
  BY <1>1 DEF GoldenMetricCodes, Codes
<1>3. \A c \in golden_check(fact, side) : c.code # PlannedCode
  BY <1>2, CodesAssumption DEF PlannedCode
<1>4. \A c \in golden_check(fact, side) : DOMAIN c = {"code", "severity", "best"}
  BY DEF golden_check, When
<1>5. QED
  BY <1>3, <1>4 DEF Honest

LEMMA UnionIsHonest ==
  ASSUME NEW R, NEW S
  PROVE  /\ HonestRows(R) /\ HonestRows(S) => HonestRows(R \cup S)
         /\ Honest(R) /\ Honest(S) => Honest(R \cup S)
BY DEF HonestRows, Honest

\* The tables of the sweep tools, of calibrations and of comparisons ...
LEMMA SweepTablesAreHonest ==
  ASSUME NEW f
  PROVE  /\ HonestRows(benchmark_pn) /\ Honest(benchmark_mos_capacitor(f)) /\ Honest(benchmark_diode_breakdown(f))
         /\ Honest(benchmark_mosfet(f)) /\ Honest(Thermal)
<1>1. HonestRows(benchmark_pn)
  <2>1. HonestRows(range_check("turnOn", "pn_turn_on_voltage", {"ok"}, {"below"}, {"above"}, FALSE))
    BY RangesAreHonest DEF RangeCodes
  <2> DEFINE rows == {Pass("ideality", "good", "pn_ideality_factor_broad_silicon_range"),
                      Warn("ideality", "marginal", "pn_ideality_factor_marginal"),
                      Err("ideality", "unphysical", "pn_ideality_factor_unphysical"),
                      Pass("rectification", "ok", "pn_rectification_ratio_ok"),
                      Warn("rectification", "low", "pn_rectification_ratio_low"),
                      Warn("rectification", "low_no_forward", "pn_rectification_ratio_low")}
  <2>2. HonestRows(rows)
    BY DEF HonestRows, Pass, Warn, Err, PlannedCode
  <2>3. benchmark_pn = rows \cup range_check("turnOn", "pn_turn_on_voltage", {"ok"}, {"below"}, {"above"}, FALSE)
    BY Zenon DEF benchmark_pn
  <2> HIDE DEF rows
  <2>4. QED
    BY <2>1, <2>2, <2>3, UnionIsHonest
<1>2. Honest(Thermal)
  BY WhenIsHonest DEF Thermal, PlannedCode
<1>3. Honest(benchmark_mos_capacitor(f))
  <2>1. Honest(moscap_capacitance(f))
    BY DEF moscap_capacitance, Honest, When, PlannedCode
  <2>2. HonestRows({Warn("shift", "exceeds", "moscap_fixed_charge_shift_exceeds_sweep"),
                    Pass("shift", "within", "moscap_fixed_charge_shift_recorded")})
    BY DEF HonestRows, Pass, Warn, PlannedCode
  <2>3. Honest(Findings({Warn("shift", "exceeds", "moscap_fixed_charge_shift_exceeds_sweep"),
                         Pass("shift", "within", "moscap_fixed_charge_shift_recorded")}, f))
    BY <2>2, FindingsAreHonest
  <2>4. QED
    BY <2>1, <2>3, WhenIsHonest, UnionIsHonest DEF benchmark_mos_capacitor, PlannedCode
<1>4. Honest(benchmark_diode_breakdown(f))
  <2> DEFINE rows == {Pass("leakage", "ok", "diode_leakage_below_policy"),
                      Warn("leakage", "above_policy", "diode_leakage_above_policy"),
                      Warn("leakage", "above_maximum", "diode_leakage_above_policy"),
                      Pass("breakdown", "negative", "diode_breakdown_voltage_reverse_polarity"),
                      Err("breakdown", "positive", "diode_breakdown_voltage_wrong_polarity"),
                      Pass("reverse", "ok", "diode_reverse_current_shape_ok"),
                      Warn("reverse", "dips", "diode_reverse_current_shape_nonmonotonic")}
  <2>1. HonestRows(rows)
    BY DEF HonestRows, Pass, Warn, Err, PlannedCode
  <2> HIDE DEF rows
  <2>2. Honest(Findings(benchmark_pn \cup rows, f))
    BY <1>1, <2>1, UnionIsHonest, FindingsAreHonest
  <2>3. QED
    BY <1>2, <2>2, WhenIsHonest, UnionIsHonest DEF benchmark_diode_breakdown, rows, PlannedCode
<1>5. Honest(benchmark_mosfet(f))
  <2>1. HonestRows(mosfet_transfer)
    BY DEF HonestRows, mosfet_transfer, Pass, Warn, PlannedCode
  <2>2. HonestRows({Warn("segments", "falling", "mosfet_idvd_negative_differential_segments"),
                    Warn("kink", "jumps", "mosfet_idvd_kink_suspected")})
    BY DEF HonestRows, Warn, PlannedCode
  <2>3. Honest(mosfet_output(f))
    BY <2>2, FindingsAreHonest, WhenIsHonest, UnionIsHonest DEF mosfet_output, PlannedCode
  <2>4. QED
    BY <2>1, <2>3, FindingsAreHonest, UnionIsHonest DEF benchmark_mosfet
<1>6. QED
  BY <1>1, <1>2, <1>3, <1>4, <1>5

LEMMA OtherTablesAreHonest ==
  /\ HonestRows(benchmark_schottky_calibration) /\ HonestRows(benchmark_golden_curve_comparison)
  /\ HonestRows(benchmark_convergence) /\ HonestRows(benchmark_sentaurus) /\ HonestRows(physics_1d_promotion)
<1>1. HonestRows(benchmark_schottky_calibration)
  <2>1. /\ HonestRows(range_check("barrier", "schottky_calibration_barrier_height", {"ok"}, {"below"}, {"above"}, TRUE))
        /\ HonestRows(range_check("ideality", "schottky_calibration_ideality_factor", {"ok"}, {"below"}, {"above"}, TRUE))
    BY RangesAreHonest DEF RangeCodes
  <2> DEFINE rows == {Pass("series", "ok", "schottky_calibration_series_resistance_nonnegative"),
                      Err("series", "negative", "schottky_calibration_series_resistance_negative"),
                      Pass("rmse", "ok", "schottky_calibration_rmse_within_threshold"),
                      Warn("rmse", "marginal", "schottky_calibration_rmse_marginal"),
                      Err("rmse", "far", "schottky_calibration_rmse_far_above_threshold")}
  <2>2. HonestRows(rows)
    BY DEF HonestRows, Pass, Warn, Err, PlannedCode
  <2>3. benchmark_schottky_calibration =
           range_check("barrier", "schottky_calibration_barrier_height", {"ok"}, {"below"}, {"above"}, TRUE) \cup
           range_check("ideality", "schottky_calibration_ideality_factor", {"ok"}, {"below"}, {"above"}, TRUE) \cup rows
    BY Zenon DEF benchmark_schottky_calibration
  <2> HIDE DEF rows
  <2>4. QED
    BY <2>1, <2>2, <2>3, UnionIsHonest
<1>2. HonestRows(benchmark_golden_curve_comparison) /\ HonestRows(benchmark_convergence)
  BY DEF benchmark_golden_curve_comparison, benchmark_convergence, HonestRows, Pass, Warn, Err, PlannedCode
<1>3. HonestRows(benchmark_sentaurus)
  <2>1. HonestRows(Flag("solver", "sentaurus_external_solver_invoked", "sentaurus_external_solver_not_confirmed",
                        "warning"))
    BY FlagsAreHonest DEF PlannedCode
  <2>2. QED
    BY <2>1 DEF benchmark_sentaurus, HonestRows, Pass, Warn, PlannedCode
<1>4. HonestRows(physics_1d_promotion)
  BY DEF physics_1d_promotion, HonestRows, Pass, Warn, PlannedCode
<1>5. QED
  BY <1>1, <1>2, <1>3, <1>4

\* ... of the devices ...
LEMMA DeviceTablesAreHonest ==
  ASSUME NEW fidelity, NEW f
  PROVE  /\ Honest(benchmark_schottky(fidelity, f)) /\ HonestRows(benchmark_bjt(fidelity))
         /\ HonestRows(benchmark_power_mosfet(fidelity)) /\ HonestRows(benchmark_finfet(fidelity))
         /\ HonestRows(benchmark_sic(fidelity)) /\ HonestRows(benchmark_gan(fidelity))
         /\ HonestRows(benchmark_igbt(fidelity))
<1>0. HonestRows({})
  BY DEF HonestRows
<1>1. Honest(benchmark_schottky(fidelity, f))
  <2> DEFINE barrier == range_check("barrier", "schottky_barrier_height", {"ok", "outside", "far"}, {"below"}, {"above"}, TRUE)
             ideality == range_check("ideality", "schottky_ideality_factor", {"ok", "outside", "far"}, {"below"}, {"above"}, FALSE)
             coupled == IF fidelity # "devsim_1d" THEN {} ELSE
                          Flag("contact", "schottky_thermionic_contact_model_registered",
                               "schottky_thermionic_contact_model_not_confirmed", "warning") \cup
                          Flag("residual", "schottky_thermionic_residual_coupled",
                               "schottky_thermionic_residual_not_coupled", "warning")
             solved == IF fidelity # "devsim_1d" THEN {}
                       ELSE IF f.solver = "yes" /\ f.backend # "none"
                       THEN When(TRUE, "schottky_devsim_solver_invoked", "pass")
                       ELSE When(TRUE, "schottky_devsim_solver_missing", "error")
  <2>1. HonestRows(barrier) /\ HonestRows(ideality)
    BY RangesAreHonest DEF RangeCodes
  <2>2. HonestRows(coupled)
    BY <1>0, FlagsAreHonest, UnionIsHonest DEF PlannedCode
  <2>3. Honest(solved)
    BY WhenIsHonest DEF PlannedCode, Honest
  <2>4. benchmark_schottky(fidelity, f) = Findings(barrier \cup ideality \cup coupled, f) \cup solved
    BY Zenon DEF benchmark_schottky
  <2> HIDE DEF barrier, ideality, coupled, solved
  <2>5. QED
    BY <2>1, <2>2, <2>3, <2>4, UnionIsHonest, FindingsAreHonest
<1>2. HonestRows(benchmark_bjt(fidelity))
  <2> DEFINE gain == range_check("beta", "bjt_current_gain", {"ok", "outside", "far"}, {"below"}, {"above"}, TRUE)
             rows == {Pass("leakage", "ok", "bjt_collector_leakage_below_drive_current")}
             physics == Flag("transport", "bjt_physics_transport_coupled", "bjt_physics_transport_missing", "error") \cup
                        Flag("family", "bjt_three_terminal_output_family_present", "bjt_output_family_missing", "warning") \cup
                        Flag("resolved", "bjt_mesh_resolved_deck_present", "bjt_mesh_resolved_deck_missing", "error") \cup rows
  <2>1. HonestRows(gain)
    BY RangesAreHonest DEF RangeCodes
  <2>2. HonestRows(rows)
    BY DEF HonestRows, Pass, PlannedCode
  <2> HIDE DEF rows
  <2>3. HonestRows(physics)
    BY <2>2, FlagsAreHonest, UnionIsHonest DEF PlannedCode
  <2>4. benchmark_bjt(fidelity) = gain \cup (IF fidelity # "physics_1d" THEN {} ELSE physics)
    BY Zenon DEF benchmark_bjt, rows
  <2> HIDE DEF gain, physics
  <2>5. QED
    BY <1>0, <2>1, <2>3, <2>4, UnionIsHonest
<1>3. HonestRows(benchmark_power_mosfet(fidelity))
  <2> DEFINE rows == {Warn("bv", "none", "power_mos_breakdown_missing"),
                      Err("bv", "wrong", "power_mos_breakdown_voltage_wrong_sign")}
                     \cup {Pass("bv", v, "power_mos_breakdown_voltage_sign_ok") : v \in {"ok", "outside", "far"}}
                     \cup {Pass("ron", v, "power_mos_specific_ron_positive") : v \in {"ok", "outside", "far"}}
             plate == Flag("solver", "power_mos_devsim_2d_field_plate_runner_invoked", "power_mos_devsim_2d_solver_missing", "error")
                      \cup {Pass("layout", "yes", "power_mos_2d_field_plate_layout_present"),
                            Warn("gaps", "some", "power_mos_2d_signoff_gaps_remaining")}
             flags == Flag("avalanche", "power_mos_impact_ionization_coupled", "power_mos_impact_ionization_missing", "error") \cup
                      Flag("resolved", "power_mos_mesh_resolved_deck_present", "power_mos_mesh_resolved_deck_missing", "error")
             physics == {Pass("solver", "yes", "power_mos_devsim_solver_invoked"),
                         Warn("bias_points", "failed", "power_mos_devsim_bias_convergence_gaps"),
                         Pass("field", "within", "power_mos_field_peak_within_critical_margin"),
                         Warn("field", "above", "power_mos_field_peak_above_critical_margin"),
                         Pass("components", "yes", "power_mos_ron_components_present")}
  <2>1. HonestRows(rows) /\ HonestRows(physics)
    BY DEF HonestRows, Pass, Warn, Err, PlannedCode
  <2>2. HonestRows({Pass("layout", "yes", "power_mos_2d_field_plate_layout_present"),
                    Warn("gaps", "some", "power_mos_2d_signoff_gaps_remaining")})
    BY DEF HonestRows, Pass, Warn, PlannedCode
  <2>3. HonestRows(plate) /\ HonestRows(flags)
    BY <2>2, FlagsAreHonest, UnionIsHonest DEF PlannedCode
  <2>4. benchmark_power_mosfet(fidelity) =
           rows \cup CASE fidelity = "devsim_2d_field_plate" -> plate
                       [] fidelity = "physics_1d" -> flags \cup physics
                       [] OTHER -> {}
    BY Zenon DEF benchmark_power_mosfet
  <2> DEFINE own == CASE fidelity = "devsim_2d_field_plate" -> plate
                      [] fidelity = "physics_1d" -> flags \cup physics
                      [] OTHER -> {}
  <2> HIDE DEF rows, plate, flags, physics
  <2>5. HonestRows(flags \cup physics)
    BY <2>1, <2>3, UnionIsHonest
  <2>6. HonestRows(own)
    BY <1>0, <2>3, <2>5
  <2> HIDE DEF own
  <2>7. QED
    BY <2>1, <2>4, <2>6, UnionIsHonest DEF own
<1>4. HonestRows(benchmark_finfet(fidelity))
  <2> DEFINE swing == range_check("swing", "finfet_subthreshold_swing_range", {"ok", "outside"}, {"below"}, {"above", "far"}, TRUE)
             ratio == {Pass("ratio", "ok", "finfet_ion_ioff_positive_margin")}
             flags == Flag("fin", "finfet_geometry_surrogate_resolved", "finfet_geometry_surrogate_missing", "error") \cup
                      Flag("quantum", "finfet_density_gradient_coupled", "finfet_quantum_correction_missing", "error")
             capacitance == {Pass("capacitance", "yes", "finfet_capacitance_extracted")}
  <2>1. HonestRows(swing)
    BY RangesAreHonest DEF RangeCodes
  <2>2. HonestRows(ratio) /\ HonestRows(capacitance)
    BY DEF HonestRows, Pass, PlannedCode
  <2>3. HonestRows(flags)
    BY FlagsAreHonest, UnionIsHonest DEF PlannedCode
  <2>4. benchmark_finfet(fidelity) = swing \cup ratio \cup (IF fidelity # "physics_1d" THEN {} ELSE flags \cup capacitance)
    BY Zenon DEF benchmark_finfet
  <2> HIDE DEF swing, ratio, flags, capacitance
  <2>5. QED
    BY <1>0, <2>1, <2>2, <2>3, <2>4, UnionIsHonest
<1>5. HonestRows(benchmark_sic(fidelity))
  <2> DEFINE signs == SignCheck("bv", "sic_breakdown_voltage_sign_ok", "sic_breakdown_voltage_wrong_sign")
             flag == Flag("avalanche", "sic_impact_ionization_coupled", "sic_impact_ionization_missing", "error")
             rows == {Pass("field", "within", "sic_field_peak_within_critical_margin"),
                      Pass("thermal", "yes", "sic_temperature_corner_recorded")}
  <2>1. HonestRows(signs) /\ HonestRows(flag)
    BY SignsAreHonest, FlagsAreHonest DEF PlannedCode
  <2>2. HonestRows(rows)
    BY DEF HonestRows, Pass, PlannedCode
  <2>3. benchmark_sic(fidelity) = signs \cup (IF fidelity # "physics_1d" THEN {} ELSE flag \cup rows)
    BY Zenon DEF benchmark_sic
  <2> HIDE DEF signs, flag, rows
  <2>4. QED
    BY <1>0, <2>1, <2>2, <2>3, UnionIsHonest
<1>6. HonestRows(benchmark_gan(fidelity))
  <2> DEFINE signs == SignCheck("density", "gan_2deg_density_positive", "gan_2deg_density_missing")
             flags == Flag("polarization", "gan_polarization_charge_coupled", "gan_polarization_charge_missing", "error") \cup
                      Flag("trap_coupling", "gan_trap_current_collapse_coupled", "gan_trap_current_collapse_missing", "error")
             rows == {Pass("dynamic_ron", "yes", "gan_dynamic_ron_factor_recorded")}
  <2>1. HonestRows(signs) /\ HonestRows(flags)
    BY SignsAreHonest, FlagsAreHonest, UnionIsHonest DEF PlannedCode
  <2>2. HonestRows(rows)
    BY DEF HonestRows, Pass, PlannedCode
  <2>3. benchmark_gan(fidelity) = signs \cup (IF fidelity # "physics_1d" THEN {} ELSE flags \cup rows)
    BY Zenon DEF benchmark_gan
  <2> HIDE DEF signs, flags, rows
  <2>4. QED
    BY <1>0, <2>1, <2>2, <2>3, UnionIsHonest
<1>7. HonestRows(benchmark_igbt(fidelity))
  <2> DEFINE signs == SignCheck("bv", "igbt_blocking_voltage_sign_ok", "igbt_blocking_voltage_wrong_sign")
             flags == Flag("bipolar", "igbt_bipolar_transport_coupled", "igbt_bipolar_transport_missing", "error") \cup
                      Flag("turnoff", "igbt_transient_turnoff_simulated", "igbt_transient_turnoff_missing", "warning")
  <2>1. HonestRows(signs) /\ HonestRows(flags)
    BY SignsAreHonest, FlagsAreHonest, UnionIsHonest DEF PlannedCode
  <2>2. benchmark_igbt(fidelity) = signs \cup (IF fidelity # "physics_1d" THEN {} ELSE flags)
    BY Zenon DEF benchmark_igbt
  <2> HIDE DEF signs, flags
  <2>3. QED
    BY <1>0, <2>1, <2>2, UnionIsHonest
<1>8. QED
  BY <1>1, <1>2, <1>3, <1>4, <1>5, <1>6, <1>7

LEMMA DevicesAreHonest ==
  ASSUME NEW device \in DOMAIN DEFAULT_GOLDEN_PROFILES, NEW fidelity, NEW f
  PROVE  Honest(benchmark_extended_device(device, fidelity, f))
<1> DEFINE boundary == CapabilityBoundary(device, fidelity)
           promotion == IF device \in PHYSICS_1D_PROMOTION_DEVICE_TYPES /\ fidelity = "physics_1d"
                        THEN Findings(physics_1d_promotion, f) ELSE {}
           own == CASE device = "schottky_diode" -> benchmark_schottky(fidelity, f)
                    [] device = "bjt_gummel_output" -> Findings(benchmark_bjt(fidelity), f)
                    [] device = "power_mosfet_bv_ron" -> Findings(benchmark_power_mosfet(fidelity), f)
                    [] device = "finfet_id_cv" -> Findings(benchmark_finfet(fidelity), f)
                    [] device = "sic_power_diode_bv_leakage" -> Findings(benchmark_sic(fidelity), f)
                    [] device = "gan_hemt_id_bv" -> Findings(benchmark_gan(fidelity), f)
                    [] device = "igbt_output_turnoff" -> Findings(benchmark_igbt(fidelity), f)
<1>0. Honest({})
  BY DEF Honest
<1>1. Honest(boundary)
  <2>1. /\ Honest(When(TRUE, "planned_industrial_template_runner_missing", "error"))
        /\ Honest(When(TRUE, "compact_baseline_not_signoff_evidence", "warning"))
    BY WhenIsHonest DEF PlannedCode
  <2>2. QED
    BY <1>0, <2>1 DEF CapabilityBoundary
<1>2. Honest(promotion)
  BY <1>0, OtherTablesAreHonest, FindingsAreHonest
<1>3. Honest(own)
  <2>1. device \in {"schottky_diode", "bjt_gummel_output", "power_mosfet_bv_ron", "finfet_id_cv",
                    "sic_power_diode_bv_leakage", "gan_hemt_id_bv", "igbt_output_turnoff"}
    BY DEF DEFAULT_GOLDEN_PROFILES
  <2>2. /\ Honest(benchmark_schottky(fidelity, f)) /\ Honest(Findings(benchmark_bjt(fidelity), f))
        /\ Honest(Findings(benchmark_power_mosfet(fidelity), f)) /\ Honest(Findings(benchmark_finfet(fidelity), f))
        /\ Honest(Findings(benchmark_sic(fidelity), f)) /\ Honest(Findings(benchmark_gan(fidelity), f))
        /\ Honest(Findings(benchmark_igbt(fidelity), f))
    BY DeviceTablesAreHonest, FindingsAreHonest
  <2>3. QED
    BY <2>1, <2>2
<1>4. benchmark_extended_device(device, fidelity, f) = boundary \cup promotion \cup own
  BY Zenon DEF benchmark_extended_device
<1> HIDE DEF boundary, promotion, own
<1>5. QED
  BY <1>1, <1>2, <1>3, <1>4, UnionIsHonest

\* ... and all of them, for the results and the best cases there are.
LEMMA SingleIsHonest ==
  ASSUME NEW s, KnownDevice(s)
  PROVE  Honest(benchmark_single(s))
<1> DEFINE f == s.facts
           quality == generic_quality_checks(s.quality)
           golden == benchmark_golden_metrics(s.tool, s.device, f)
           deck == benchmark_deck_signoff(s.tool, f)
           own == CASE s.tool = "pn_junction_iv_sweep" -> Findings(benchmark_pn, f) \cup Thermal
                    [] s.tool = "mos_capacitor_cv_sweep" -> benchmark_mos_capacitor(f)
                    [] s.tool = "diode_breakdown_leakage_sweep" -> benchmark_diode_breakdown(f)
                    [] s.tool = "mosfet_2d_id_sweep" -> benchmark_mosfet(f)
                    [] s.tool = Extended -> benchmark_extended_device(s.device, s.fidelity, f)
                    [] s.tool = "schottky_iv_calibration" -> Findings(benchmark_schottky_calibration, f)
                    [] s.tool = "golden_curve_comparison" -> Findings(benchmark_golden_curve_comparison, f)
                    [] s.tool = "sentaurus_run" -> Findings(benchmark_sentaurus, f)
                    [] s.tool \in Studies_ -> Findings(benchmark_convergence, f)
                    [] OTHER -> {}
<1>0. Honest({})
  BY DEF Honest
<1>1. Honest(quality)
  <2>1. /\ Honest(When(TRUE, "quality_report_passed", "pass")) /\ Honest(When(TRUE, "quality_report_failed", "error"))
        /\ Honest(When(TRUE, "quality_report_suspicious", "warning"))
    BY WhenIsHonest DEF PlannedCode
  <2>2. QED
    BY <1>0, <2>1 DEF generic_quality_checks
<1>2. Honest(golden)
  <2>1. golden_profile(s.tool, s.device) \subseteq
          {"requested", "barrier", "ideality", "beta", "early", "bv", "ron", "threshold", "swing",
           "dibl", "max_field", "density", "on_state"}
    BY DEF golden_profile, KnownDevice, DEFAULT_GOLDEN_PROFILES
  <2>2. \A fact \in golden_profile(s.tool, s.device) : Honest(golden_check(fact, f[fact]))
    BY <2>1, GoldenIsHonest
  <2>3. QED
    BY <2>2 DEF benchmark_golden_metrics, Honest
<1>3. Honest(deck)
  BY <1>0, WhenIsHonest, UnionIsHonest DEF benchmark_deck_signoff, PlannedCode
<1>4. Honest(own)
  <2>1. Honest(Findings(benchmark_pn, f) \cup Thermal)
    BY SweepTablesAreHonest, FindingsAreHonest, UnionIsHonest
  <2>2. /\ Honest(benchmark_mos_capacitor(f)) /\ Honest(benchmark_diode_breakdown(f)) /\ Honest(benchmark_mosfet(f))
        /\ s.tool = Extended => Honest(benchmark_extended_device(s.device, s.fidelity, f))
    BY SweepTablesAreHonest, DevicesAreHonest DEF KnownDevice
  <2>3. /\ Honest(Findings(benchmark_schottky_calibration, f)) /\ Honest(Findings(benchmark_golden_curve_comparison, f))
        /\ Honest(Findings(benchmark_sentaurus, f)) /\ Honest(Findings(benchmark_convergence, f))
    BY OtherTablesAreHonest, FindingsAreHonest
  <2>4. QED
    BY <1>0, <2>1, <2>2, <2>3
<1>5. benchmark_single(s) = quality \cup golden \cup deck \cup own
  BY Zenon DEF benchmark_single
<1> HIDE DEF quality, golden, deck, own
<1>6. QED
  BY <1>1, <1>2, <1>3, <1>4, <1>5, UnionIsHonest

LEMMA StateIsHonest ==
  ASSUME NEW s, SoundResult(s)
  PROVE  Honest(benchmark_state(s)) /\ benchmark_single(s) \subseteq benchmark_state(s)
<1> DEFINE rows == {Pass("items", "completed", "aggregate_has_completed_cases"),
                    Warn("items", "none", "aggregate_has_no_completed_cases"),
                    Warn("suspicious_items", "some", "aggregate_contains_suspicious_cases"),
                    Warn("failed_items", "failed", "aggregate_contains_failed_cases"),
                    Warn("failed_items", "judged", "aggregate_contains_failed_cases"),
                    Warn("best", "lost", "aggregate_best_state_missing")}
           best == IF s.facts.best = "kept" THEN AsBest(benchmark_single(s.child)) ELSE {}
<1>1. Honest(benchmark_single(s))
  BY SingleIsHonest DEF SoundResult
<1>2. Honest(Findings(rows, s.facts))
  <2>1. HonestRows(rows)
    BY DEF HonestRows, Pass, Warn, PlannedCode
  <2>2. QED
    BY <2>1, FindingsAreHonest
<1>3. s.tool \in Aggregates => Honest(best)
  <2>1. ASSUME NEW checks, Honest(checks) PROVE Honest(AsBest(checks))
    BY <2>1 DEF Honest, AsBest
  <2>2. CASE s.facts.best = "kept" /\ s.tool \in Aggregates
    BY <2>1, <2>2, SingleIsHonest DEF SoundResult
  <2>3. CASE s.facts.best # "kept"
    BY <2>3 DEF Honest
  <2>4. QED
    BY <2>2, <2>3
<1>4. benchmark_aggregate(s) = Findings(rows, s.facts) \cup best
  BY Zenon DEF benchmark_aggregate
<1> HIDE DEF rows, best
<1>5. s.tool \in Aggregates => Honest(benchmark_aggregate(s))
  BY <1>2, <1>3, <1>4, UnionIsHonest
<1>6. QED
  BY <1>1, <1>5, UnionIsHonest DEF benchmark_state

-----------------------------------------------------------------------------
(***************************************************************************)
(* What the tools leave.  A state built by a tool's own functions keeps to *)
(* the assumption the chain is started from.                               *)
(***************************************************************************)
\* The state file of a run, a study or a search, judged or failed, is a sound
\* result: what state_of, aggregate_of and failed_state put together.
THEOREM StatesAreSound ==
  ASSUME NEW tool, NEW device, NEW fidelity, NEW f, NEW child,
         tool = Extended => device \in DOMAIN DEFAULT_GOLDEN_PROFILES,
         tool \in Aggregates => ~Has(f, "executed", "no") /\ (f.best = "kept" => KnownDevice(child))
  PROVE  /\ SoundResult(state_of(tool, device, fidelity, f, child))
         /\ \A domain, departures, reason :
               tool \notin Aggregates => SoundResult(failed_state(tool, device, fidelity, domain, departures, reason))
<1> DEFINE issues == issues_of(tool, device, fidelity, f)
           quality == IF tool \in Aggregates THEN "none"
                      ELSE IF Has(f, "executed", "no") THEN "suspicious" ELSE choose_status(issues)
           s == state_of(tool, device, fidelity, f, child)
<1>1. /\ s.tool = tool /\ s.device = device /\ s.status = status_of(tool, f, quality) /\ s.quality = quality
      /\ s.issues = Codes(issues) /\ s.facts = f /\ s.child = child
  BY DEF state_of
<1> HIDE DEF s
<1>2. choose_status(issues) \in {"failed", "suspicious", "passed"} /\ (choose_status(issues) # "passed" => issues # {})
      /\ (choose_status(issues) = "passed" => issues = {})
  BY DEF choose_status, HasError
<1>3. issues = {} <=> Codes(issues) = {}
  BY DEF Codes
<1>4. status_of(tool, f, quality) \in {"planned", "failed", "completed"}
      /\ (status_of(tool, f, quality) = "planned" <=> Has(f, "executed", "no"))
  BY DEF status_of
<1>5. tool = Extended => tool \notin Aggregates
  BY DEF Aggregates, Extended
<1> HIDE DEF issues
<1>6. SoundResult(s)
  BY <1>1, <1>2, <1>3, <1>4, <1>5 DEF SoundResult, KnownDevice
<1>7. ASSUME NEW domain, NEW departures, NEW reason, tool \notin Aggregates
      PROVE  SoundResult(failed_state(tool, device, fidelity, domain, departures, reason))
  BY <1>7 DEF failed_state, SoundResult, KnownDevice
<1>8. QED
  BY <1>6, <1>7 DEF s

-----------------------------------------------------------------------------
(***************************************************************************)
(* What a benchmark says of a result.                                      *)
(***************************************************************************)
Marked(s, severity) == Of(benchmark_state(s), severity) # {}

LEMMA CheckThere ==
  ASSUME NEW checks, NEW code, NEW severity, When(TRUE, code, severity) \subseteq checks
  PROVE  code \in Named(Of(checks, severity)) /\ Of(checks, severity) # {}
<1> DEFINE c == [code |-> code, severity |-> severity, best |-> FALSE]
<1>1. c \in checks
  BY DEF When
<1>2. c.code = code /\ c.severity = severity /\ c.best = FALSE
  OBVIOUS
<1> HIDE DEF c
<1>3. QED
  BY <1>1, <1>2 DEF Named, Of

\* The quality report, the deck and the boundary of a device without a runner
\* are among the checks of every result that has them.
LEMMA ChecksThere ==
  ASSUME NEW s, SoundResult(s)
  PROVE  /\ s.quality = "failed" => Marked(s, "error")
         /\ s.quality \in {"suspicious", "planned"} => Marked(s, "warning")
         /\ Strict(s.facts) /\ ~HasConvergence(s.tool, s.facts) => Marked(s, "warning")
         /\ s.tool = Extended /\ s.device \in PLANNED_INDUSTRIAL_DEVICE_TYPES /\ s.fidelity = "compact" =>
               PlannedCode \in Named(Of(benchmark_state(s), "error"))
<1>1. benchmark_single(s) \subseteq benchmark_state(s)
  BY StateIsHonest
<1>2. /\ generic_quality_checks(s.quality) \subseteq benchmark_single(s)
      /\ benchmark_deck_signoff(s.tool, s.facts) \subseteq benchmark_single(s)
  BY Zenon DEF benchmark_single
<1>3. s.tool = Extended => benchmark_extended_device(s.device, s.fidelity, s.facts) \subseteq benchmark_single(s)
  <2>1. SUFFICES ASSUME s.tool = Extended PROVE benchmark_extended_device(s.device, s.fidelity, s.facts) \subseteq benchmark_single(s)
    OBVIOUS
  <2> DEFINE own == CASE s.tool = "pn_junction_iv_sweep" -> Findings(benchmark_pn, s.facts) \cup Thermal
                      [] s.tool = "mos_capacitor_cv_sweep" -> benchmark_mos_capacitor(s.facts)
                      [] s.tool = "diode_breakdown_leakage_sweep" -> benchmark_diode_breakdown(s.facts)
                      [] s.tool = "mosfet_2d_id_sweep" -> benchmark_mosfet(s.facts)
                      [] s.tool = Extended -> benchmark_extended_device(s.device, s.fidelity, s.facts)
                      [] s.tool = "schottky_iv_calibration" -> Findings(benchmark_schottky_calibration, s.facts)
                      [] s.tool = "golden_curve_comparison" -> Findings(benchmark_golden_curve_comparison, s.facts)
                      [] s.tool = "sentaurus_run" -> Findings(benchmark_sentaurus, s.facts)
                      [] s.tool \in Studies_ -> Findings(benchmark_convergence, s.facts)
                      [] OTHER -> {}
  <2>2. own = benchmark_extended_device(s.device, s.fidelity, s.facts)
    BY <2>1 DEF Extended, Studies_
  <2>3. benchmark_single(s) = generic_quality_checks(s.quality) \cup benchmark_golden_metrics(s.tool, s.device, s.facts)
                              \cup benchmark_deck_signoff(s.tool, s.facts) \cup own
    BY Zenon DEF benchmark_single
  <2> HIDE DEF own
  <2>4. QED
    BY <2>2, <2>3
<1>5. s.quality = "failed" => Marked(s, "error")
  <2>1. s.quality = "failed" => generic_quality_checks(s.quality) = When(TRUE, "quality_report_failed", "error")
    BY DEF generic_quality_checks
  <2>2. QED
    BY <1>1, <1>2, <2>1, CheckThere DEF Marked
<1>6. s.quality \in {"suspicious", "planned"} => Marked(s, "warning")
  <2>1. s.quality \in {"suspicious", "planned"} =>
          generic_quality_checks(s.quality) = When(TRUE, "quality_report_suspicious", "warning")
    BY DEF generic_quality_checks
  <2>2. QED
    BY <1>1, <1>2, <2>1, CheckThere DEF Marked
<1>7. Strict(s.facts) /\ ~HasConvergence(s.tool, s.facts) => Marked(s, "warning")
  <2>1. SUFFICES ASSUME Strict(s.facts), ~HasConvergence(s.tool, s.facts) PROVE Marked(s, "warning")
    OBVIOUS
  <2>2. When(Strict(s.facts) /\ ~HasConvergence(s.tool, s.facts), "deck_signoff_convergence_evidence_missing", "warning")
          \subseteq benchmark_deck_signoff(s.tool, s.facts)
    <3>1. HasDeck(s.facts)
      BY <2>1 DEF HasDeck, Strict
    <3>2. QED
      BY <3>1, Zenon DEF benchmark_deck_signoff
  <2>3. When(TRUE, "deck_signoff_convergence_evidence_missing", "warning") \subseteq benchmark_deck_signoff(s.tool, s.facts)
    BY <2>1, <2>2 DEF When
  <2>4. QED
    BY <1>1, <1>2, <2>3, CheckThere DEF Marked
<1>8. ASSUME s.tool = Extended, s.device \in PLANNED_INDUSTRIAL_DEVICE_TYPES, s.fidelity = "compact"
      PROVE  PlannedCode \in Named(Of(benchmark_state(s), "error"))
  <2>1. CapabilityBoundary(s.device, s.fidelity) = When(TRUE, PlannedCode, "error")
    BY <1>8 DEF CapabilityBoundary, PlannedCode
  <2>2. CapabilityBoundary(s.device, s.fidelity) \subseteq benchmark_extended_device(s.device, s.fidelity, s.facts)
    BY Zenon DEF benchmark_extended_device
  <2>3. When(TRUE, PlannedCode, "error") \subseteq benchmark_state(s)
    BY <1>1, <1>3, <1>8, <2>1, <2>2
  <2>4. QED
    BY <2>3, CheckThere
<1>9. QED
  BY <1>5, <1>6, <1>7, <1>8

\* The status, the signoff status, the credibility level and the verdict of the
\* pack follow the worst severity there is.
LEMMA VerdictsFollow ==
  ASSUME NEW s, SoundResult(s), NEW b, b = run_physical_benchmark(s)
  PROVE  /\ b.checks = benchmark_state(s) /\ b.missing = MissingEvidence(s, benchmark_state(s))
         /\ b.status \in {"unsupported", "passed", "suspicious", "failed"}
         /\ b.level \in {"blocked", "conditional", "ready", "limited"}
         /\ (b.status = "failed" <=> Marked(s, "error"))
         /\ (b.signoff = "blocked" <=> Marked(s, "error"))
         /\ (b.level = "blocked" <=> Marked(s, "error"))
         /\ (b.pack = "blocked" <=> Marked(s, "error"))
         /\ b.status \in {"passed", "unsupported"} => ~Marked(s, "warning") /\ ~Marked(s, "error")
         /\ ~Marked(s, "warning") /\ ~Marked(s, "error") => b.status \in {"passed", "unsupported"}
         /\ b.pack = "ready" => ~Marked(s, "warning") /\ MissingEvidence(s, benchmark_state(s)) = {}
         /\ b.level = "ready" => b.signoff = "ready" /\ b.status = "passed"
<1> DEFINE checks == benchmark_state(s)
<1>1. /\ b.checks = checks /\ b.status = status_from_checks(checks) /\ b.signoff = summarize_checks(checks)
      /\ b.level = credibility_assessment(s, checks) /\ b.pack = build_signoff_evidence_pack(s, checks)
      /\ b.missing = MissingEvidence(s, checks)
  BY DEF run_physical_benchmark
<1>2. HasError(checks) <=> Marked(s, "error")
  BY DEF HasError, Marked, Of
<1>3. (\E c \in checks : c.severity = "warning") <=> Marked(s, "warning")
  BY DEF Marked, Of
<1>4. Of(checks, "warning") # {} <=> Marked(s, "warning")
  BY DEF Marked
<1>5. Marked(s, "error") \/ Marked(s, "warning") => checks # {}
  BY DEF Marked, Of
<1>6. Honest(checks)
  BY StateIsHonest
<1> HIDE DEF checks
<1>7. /\ b.status \in {"unsupported", "passed", "suspicious", "failed"} /\ (b.status = "failed" <=> Marked(s, "error"))
      /\ (b.status \in {"passed", "unsupported"} <=> (~Marked(s, "warning") /\ ~Marked(s, "error")))
      /\ (checks # {} => b.status # "unsupported")
  BY <1>1, <1>2, <1>3, <1>5 DEF status_from_checks
<1>8. (b.signoff = "blocked" <=> Marked(s, "error"))
  BY <1>1, <1>2 DEF summarize_checks
<1>9. /\ b.level \in {"blocked", "conditional", "ready", "limited"} /\ (b.level = "blocked" <=> Marked(s, "error"))
      /\ (b.level = "ready" => ~Marked(s, "error") /\ ~Marked(s, "warning") /\ Cardinality(checks) >= 2)
  BY <1>1, <1>2, <1>4 DEF credibility_assessment
<1>10. b.level = "ready" => b.signoff = "ready" /\ b.status = "passed"
  <2>1. SUFFICES ASSUME b.level = "ready" PROVE b.signoff = "ready" /\ b.status = "passed"
    OBVIOUS
  <2>2. Cardinality(checks) >= 2 /\ ~Marked(s, "error") /\ ~Marked(s, "warning")
    BY <1>9, <2>1
  <2>3. b.signoff = "ready"
    BY <1>1, <1>2, <1>4, <2>2 DEF summarize_checks
  <2>4. checks # {}
    BY <2>2, FS_EmptySet
  <2>5. QED
    BY <1>7, <2>2, <2>3, <2>4
<1>11. evidence_matrix(s, checks).capability_boundary = "planned_runner_missing" => Marked(s, "error")
  <2>1. SUFFICES ASSUME PlannedCode \in Codes(Own(checks)) PROVE Marked(s, "error")
    BY DEF evidence_matrix, PlannedCode
  <2>2. QED
    BY <1>2, <1>6, <2>1 DEF Codes, Own, Honest, HasError
<1>12. (b.pack = "blocked" <=> Marked(s, "error"))
  BY <1>1, <1>2, <1>11 DEF build_signoff_evidence_pack
<1>13. b.pack = "ready" => ~Marked(s, "warning") /\ MissingEvidence(s, checks) = {}
  <2>1. SUFFICES ASSUME b.pack = "ready" PROVE Of(checks, "warning") = {} /\ MissingEvidence(s, checks) = {}
    BY <1>4
  <2>2. MissingEvidence(s, checks) = {} /\ RiskNotes(s, checks) = {}
    BY <1>1, <2>1 DEF build_signoff_evidence_pack
  <2>3. Codes(Of(checks, "warning")) = {}
    BY <2>2 DEF RiskNotes
  <2>4. QED
    BY <2>2, <2>3 DEF Codes
<1>14. QED
  BY <1>1, <1>7, <1>8, <1>9, <1>10, <1>12, <1>13 DEF checks

\* What a deck that demands signoff asks for besides is missing until it is there.
LEMMA MissingIsListed ==
  ASSUME NEW s, NEW checks
  PROVE  /\ Strict(s.facts) /\ ~HasConvergence(s.tool, s.facts) => "convergence_evidence" \in MissingEvidence(s, checks)
         /\ MissingEvidence(s, checks) = {} =>
               /\ s.quality \notin {"none", "failed"} /\ HasDeck(s.facts)
               /\ Strict(s.facts) => HasConvergence(s.tool, s.facts)
               /\ Strict(s.facts) \/ s.facts.measured # "no" => evidence_matrix(s, checks).golden_or_measured_comparison
<1> DEFINE matrix == evidence_matrix(s, checks)
<1>1. matrix.convergence_evidence = HasConvergence(s.tool, s.facts) /\ matrix.deck_spec = HasDeck(s.facts)
  BY DEF evidence_matrix
<1>2. /\ HasEvidence("quality_report", s, checks) = (s.quality \notin {"none", "failed"})
      /\ HasEvidence("deck_spec", s, checks) = matrix.deck_spec
      /\ HasEvidence("convergence_evidence", s, checks) = matrix.convergence_evidence
      /\ HasEvidence("golden_or_measured_comparison", s, checks) = matrix.golden_or_measured_comparison
  BY DEF HasEvidence
<1> HIDE DEF matrix
<1>3. /\ {"quality_report", "deck_spec"} \subseteq RequiredNames(s.facts)
      /\ Strict(s.facts) => {"convergence_evidence", "golden_or_measured_comparison"} \subseteq RequiredNames(s.facts)
      /\ HasDeck(s.facts) /\ s.facts.measured # "no" => "golden_or_measured_comparison" \in RequiredNames(s.facts)
  BY DEF RequiredNames
<1>4. ASSUME Strict(s.facts), ~HasConvergence(s.tool, s.facts) PROVE "convergence_evidence" \in MissingEvidence(s, checks)
  BY <1>1, <1>2, <1>3, <1>4 DEF MissingEvidence
<1>5. ASSUME MissingEvidence(s, checks) = {}
      PROVE  /\ s.quality \notin {"none", "failed"} /\ HasDeck(s.facts)
             /\ Strict(s.facts) => HasConvergence(s.tool, s.facts)
             /\ Strict(s.facts) \/ s.facts.measured # "no" => evidence_matrix(s, checks).golden_or_measured_comparison
  <2>1. \A name \in RequiredNames(s.facts) : HasEvidence(name, s, checks)
    BY <1>5 DEF MissingEvidence
  <2>2. QED
    BY <1>1, <1>2, <1>3, <2>1 DEF matrix
<1>6. QED
  BY <1>4, <1>5

\* The augmented state carries every finding and never a better quality.
LEMMA AugmentedFollows ==
  ASSUME NEW s, SoundResult(s), NEW b, b = run_physical_benchmark(s),
         NEW a, a = write_benchmark_augmented_state(s, b)
  PROVE  /\ is_accepted_state(a) => /\ a.codes = {} /\ Of(b.checks, "error") \cup Of(b.checks, "warning") = {}
                                    /\ ~(Strict(s.facts) /\ ~HasConvergence(s.tool, s.facts))
         /\ ~is_accepted_state(a) /\ s.status = "completed" /\ s.quality # "none" => a.codes # {}
         /\ Named(Of(b.checks, "error")) \subseteq a.codes
<1>1. /\ a.status = s.status /\ a.context = b.status
      /\ a.codes = s.issues \cup Named(Of(b.checks, "warning")) \cup Named(Of(b.checks, "error"))
      /\ a.quality = IF severity_rank(b.status) > severity_rank(s.quality) THEN b.status ELSE s.quality
  BY DEF write_benchmark_augmented_state
<1>2. /\ b.checks = benchmark_state(s) /\ b.status \in {"unsupported", "passed", "suspicious", "failed"}
      /\ b.status = "failed" <=> Marked(s, "error")
      /\ b.status \in {"passed", "unsupported"} <=> ~Marked(s, "warning") /\ ~Marked(s, "error")
  BY VerdictsFollow
<1>3. /\ s.quality \in {"none", "passed", "suspicious", "failed"} /\ (s.quality = "passed" => s.issues = {})
      /\ (s.quality \in {"suspicious", "failed"} /\ s.status = "completed" => s.issues # {})
  BY DEF SoundResult
<1>4. \A severity : Marked(s, severity) <=> Named(Of(b.checks, severity)) # {}
  BY <1>2 DEF Marked, Named
<1>5. ASSUME is_accepted_state(a)
      PROVE  /\ a.codes = {} /\ Of(b.checks, "error") \cup Of(b.checks, "warning") = {}
             /\ ~(Strict(s.facts) /\ ~HasConvergence(s.tool, s.facts))
  <2>1. b.status \in {"passed", "unsupported"} /\ a.quality = "passed"
    BY <1>1, <1>2, <1>5 DEF is_accepted_state
  <2>2. ~Marked(s, "warning") /\ ~Marked(s, "error")
    BY <1>2, <2>1
  <2>3. s.quality = "passed"
    BY <1>1, <1>3, <2>1 DEF severity_rank
  <2>4. Of(b.checks, "error") \cup Of(b.checks, "warning") = {}
    BY <1>2, <2>2 DEF Marked
  <2>5. a.codes = {}
    BY <1>1, <1>3, <1>4, <2>2, <2>3
  <2>6. QED
    BY <2>2, <2>4, <2>5, ChecksThere
<1>6. ASSUME ~is_accepted_state(a), s.status = "completed", s.quality # "none" PROVE a.codes # {}
  <2>1. CASE s.quality \in {"suspicious", "failed"}
    BY <1>1, <1>3, <1>6, <2>1
  <2>2. CASE s.quality = "passed"
    <3>1. a.context \in {"failed", "suspicious"} \/ a.quality # "passed"
      BY <1>1, <1>6 DEF is_accepted_state
    <3>2. b.status \in {"failed", "suspicious"}
      BY <1>1, <1>2, <2>2, <3>1 DEF severity_rank
    <3>3. Marked(s, "warning") \/ Marked(s, "error")
      BY <1>2, <3>2
    <3>4. QED
      BY <1>1, <1>4, <3>3
  <2>3. QED
    BY <1>3, <1>6, <2>1, <2>2
<1>7. QED
  BY <1>1, <1>5, <1>6

-----------------------------------------------------------------------------
(***************************************************************************)
(* The repair plan.  No action comes before the one that asks for the      *)
(* runner a device has not got.                                            *)
(***************************************************************************)
RunnerFirst == Action("implement_planned_industrial_runner_first", 110, AsksFirst)
Later(actions) == \A a \in actions : a = RunnerFirst \/ (a.priority \in Nat /\ a.priority < 110)
LaterRows(rows) == \A r \in rows : Action(r[1], r[2], r[3]) = RunnerFirst \/ (r[2] \in Nat /\ r[2] < 110)

Priorities == {108, 105, 100, 98, 95, 93, 92, 91, 90, 89, 88, 87, 86, 85, 84, 82, 80, 78, 76, 75, 72, 70, 65, 60, 50, 40, 38}

LEMMA ActionIsLater ==
  ASSUME NEW name, NEW priority \in Priorities, NEW needs
  PROVE  Later({Action(name, priority, needs)})
<1>1. priority \in Nat /\ priority < 110
  BY DEF Priorities
<1>2. Action(name, priority, needs).priority = priority
  BY DEF Action
<1>3. QED
  BY <1>1, <1>2 DEF Later

\* Rows whose priorities are the usual ones
LEMMA RowsAreLater ==
  ASSUME NEW rows, \A r \in rows : r[2] \in Priorities
  PROVE  LaterRows(rows)
BY DEF LaterRows, Priorities

LEMMA UnionIsLater ==
  ASSUME NEW A, NEW B
  PROVE  /\ Later(A) /\ Later(B) => Later(A \cup B)
         /\ LaterRows(A) /\ LaterRows(B) => LaterRows(A \cup B)
BY DEF Later, LaterRows

LEMMA RepairsAreLater == LaterRows(Repairs)
<1>1. LaterRows(NumericRepairs)
  <2>1. \A r \in NumericRepairs : r[2] \in Priorities
    BY DEF NumericRepairs, Priorities
  <2>2. QED
    BY <2>1, RowsAreLater
<1>2. LaterRows(RequestRepairs)
  <2>1. \A r \in RequestRepairs : r[2] \in Priorities
    BY DEF RequestRepairs, Priorities
  <2>2. QED
    BY <2>1, RowsAreLater
<1>3. LaterRows(PhysicsRepairs)
  <2>1. \A r \in PhysicsRepairs : r[2] \in Priorities
    BY DEF PhysicsRepairs, Priorities
  <2>2. QED
    BY <2>1, RowsAreLater
<1>4. LaterRows(EvidenceRepairs)
  <2> DEFINE usual == {<<"signoff_evidence_density_retry", 84, AtOnce, {"deck_signoff_convergence_evidence_missing"}>>,
                       <<"promote_compact_baseline_to_tcad_runner", 38, AsksFirst, {"compact_baseline_not_signoff_evidence"}>>}
             runner == <<"implement_planned_industrial_runner_first", 110, AsksFirst,
                         {"planned_industrial_template_runner_missing"}>>
  <2>1. \A r \in usual : r[2] \in Priorities
    BY DEF Priorities
  <2>2. Action(runner[1], runner[2], runner[3]) = RunnerFirst
    BY DEF RunnerFirst
  <2>3. EvidenceRepairs = usual \cup {runner}
    BY Zenon DEF EvidenceRepairs
  <2> HIDE DEF usual, runner
  <2>4. LaterRows(usual) /\ LaterRows({runner})
    BY <2>1, <2>2, RowsAreLater DEF LaterRows
  <2>5. QED
    BY <2>3, <2>4, UnionIsLater
<1>5. QED
  BY <1>1, <1>2, <1>3, <1>4, UnionIsLater DEF Repairs

LEMMA IssueActionsAreLater ==
  ASSUME NEW s, NEW codes, NEW golden
  PROVE  /\ Later(convergence_actions(s)) /\ Later(schema_normalization_actions)
         /\ Later(quality_issue_actions(s, codes, golden))
<1>0. Later({})
  BY DEF Later
<1>1. Later(convergence_actions(s))
  <2> DEFINE staged == IF s.impact = "none" THEN 60 ELSE 90
  <2>0. {100, 92, 80, 70, staged} \subseteq Priorities
    BY DEF Priorities
  <2>1. convergence_actions(s) =
          {Action("continuation_bias_ramp", 100, AtOnce)} \cup {Action("reuse_last_successful_initial_solution", 92, AtOnce)}
          \cup {Action("mesh_relax_for_initial_solution", 80, AtOnce)} \cup {Action("solver_parameter_adjustment", 70, AtOnce)}
          \cup {Action("model_switch_staging", staged, AtOnce)}
    BY Zenon DEF convergence_actions
  <2> HIDE DEF staged
  <2>2. /\ Later({Action("continuation_bias_ramp", 100, AtOnce)})
        /\ Later({Action("reuse_last_successful_initial_solution", 92, AtOnce)})
        /\ Later({Action("mesh_relax_for_initial_solution", 80, AtOnce)})
        /\ Later({Action("solver_parameter_adjustment", 70, AtOnce)})
        /\ Later({Action("model_switch_staging", staged, AtOnce)})
    BY <2>0, ActionIsLater, Zenon
  <2> DEFINE A1 == {Action("continuation_bias_ramp", 100, AtOnce)}
             A2 == {Action("reuse_last_successful_initial_solution", 92, AtOnce)}
             A3 == {Action("mesh_relax_for_initial_solution", 80, AtOnce)}
             A4 == {Action("solver_parameter_adjustment", 70, AtOnce)}
             A5 == {Action("model_switch_staging", staged, AtOnce)}
  <2>3. Later(A1) /\ Later(A2) /\ Later(A3) /\ Later(A4) /\ Later(A5)
        /\ convergence_actions(s) = A1 \cup A2 \cup A3 \cup A4 \cup A5
    BY <2>1, <2>2, Zenon
  <2> HIDE DEF A1, A2, A3, A4, A5
  <2>4. QED
    BY <2>3, UnionIsLater
<1>2. Later(schema_normalization_actions)
  <2>1. 98 \in Priorities
    BY DEF Priorities
  <2>2. QED
    BY <2>1, ActionIsLater, Zenon DEF schema_normalization_actions
<1>3. Later(deck_mutation_repair_actions(s, codes))
  <2>1. Later({Action("deck_mutation", 89, AtOnce)}) /\ Later({Action("mutation_pareto_constraint_review", 91, AsksFirst)})
    <3>1. 89 \in Priorities /\ 91 \in Priorities
      BY DEF Priorities
    <3>2. QED
      BY <3>1, ActionIsLater, Zenon
  <2>2. QED
    BY <1>0, <2>1, UnionIsLater DEF deck_mutation_repair_actions
<1>4. Later({Action(r[1], r[2], r[3]) : r \in {q \in Repairs : q[4] \cap codes # {}}})
  <2>1. \A r \in Repairs : Action(r[1], r[2], r[3]).priority = r[2]
    BY DEF Action
  <2>2. QED
    BY <2>1, RepairsAreLater DEF Later, LaterRows
<1>5. Later({Action("measured_curve_comparison_required", 40, AsksFirst)})
  <2>1. 40 \in Priorities
    BY DEF Priorities
  <2>2. QED
    BY <2>1, ActionIsLater, Zenon
<1> DEFINE table == {Action(r[1], r[2], r[3]) : r \in {q \in Repairs : q[4] \cap codes # {}}}
           schema == IF codes \cap {"string_pattern_mismatch", "invalid_tool_schema", "field_alias_mismatch",
                                  "schema_validation_failed"} # {}
                     THEN schema_normalization_actions ELSE {}
           bias == IF "too_many_convergence_failures" \in codes THEN convergence_actions(s) ELSE {}
           measured == IF golden \/ "deck_measured_curve_comparison_missing" \in codes
                       THEN {Action("measured_curve_comparison_required", 40, AsksFirst)} ELSE {}
<1>6. quality_issue_actions(s, codes, golden) =
        deck_mutation_repair_actions(s, codes) \cup schema \cup bias \cup table \cup measured
  BY Zenon DEF quality_issue_actions
<1>7. Later(schema) /\ Later(bias) /\ Later(table) /\ Later(measured)
  BY <1>0, <1>1, <1>2, <1>4, <1>5
<1> HIDE DEF schema, bias, table, measured
<1>8. QED
  BY <1>1, <1>2, <1>3, <1>6, <1>7, UnionIsLater

\* A failed run has a plan, and one whose codes name the missing runner asks for
\* it first.
LEMMA PlanFollows ==
  ASSUME NEW s, NEW golden, NEW p, p = build_repair_plan(s, golden)
  PROVE  /\ s.status = "failed" => p.status = "planned"
         /\ PlannedCode \in s.codes => p.next = {RunnerFirst}
<1> DEFINE codes == issue_codes(s)
           classes == failure_classes(s)
           quality == quality_issue_actions(s, codes, golden)
           schema == IF "validation" \in classes THEN schema_normalization_actions ELSE {}
           bias == IF "convergence" \in classes THEN convergence_actions(s) ELSE {}
           retry == IF /\ "runtime_exception" \in classes
                       /\ codes \cap {"runner_exception", "tool_convergence_case_failures"} = {}
                    THEN {Action("runner_exception_safe_retry", 87, AtOnce)} ELSE {}
           found == schema \cup bias \cup retry \cup quality
           actions == build_repair_actions(s, golden)
<1>1. actions = IF s.status = "failed" /\ found = {} THEN {Action("inspect_failed_artifacts", 50, AtOnce)} ELSE found
  BY Zenon DEF build_repair_actions
<1>2. p.status = (IF actions = {} THEN "no_action" ELSE "planned") /\ p.next = First(actions)
  BY DEF build_repair_plan
<1>3. Later({}) /\ Later(schema) /\ Later(bias) /\ Later(retry) /\ Later(quality)
  <2>1. Later({})
    BY DEF Later
  <2>2. 87 \in Priorities
    BY DEF Priorities
  <2>3. Later({Action("runner_exception_safe_retry", 87, AtOnce)})
    BY <2>2, ActionIsLater, Zenon
  <2>4. QED
    BY <2>1, <2>3, IssueActionsAreLater
<1>4. PlannedCode \in s.codes => RunnerFirst \in quality
  <2>1. SUFFICES ASSUME PlannedCode \in s.codes PROVE RunnerFirst \in quality
    OBVIOUS
  <2>2. PlannedCode \in codes
    BY <2>1 DEF issue_codes
  <2> DEFINE row == <<"implement_planned_industrial_runner_first", 110, AsksFirst, {"planned_industrial_template_runner_missing"}>>
  <2>3. row \in Repairs
    BY Zenon DEF Repairs, EvidenceRepairs
  <2>4. row[4] \cap codes # {} /\ Action(row[1], row[2], row[3]) = RunnerFirst
    BY <2>2 DEF RunnerFirst, PlannedCode
  <2> HIDE DEF row, codes
  <2>5. RunnerFirst \in {Action(r[1], r[2], r[3]) : r \in {q \in Repairs : q[4] \cap codes # {}}}
    BY <2>3, <2>4, Zenon
  <2>6. QED
    BY <2>5, Zenon DEF quality_issue_actions
<1> HIDE DEF quality, schema, bias, retry
<1>5. Later(found)
  BY <1>3, UnionIsLater
<1> HIDE DEF actions
<1>6. s.status = "failed" => p.status = "planned"
  BY <1>1, <1>2
<1>7. ASSUME PlannedCode \in s.codes PROVE p.next = {RunnerFirst}
  <2>1. RunnerFirst \in actions /\ actions = found
    BY <1>1, <1>4, <1>7
  <2>2. RunnerFirst.priority = 110
    BY DEF RunnerFirst, Action
  <2>3. \A a \in actions : a = RunnerFirst \/ (a.priority \in Nat /\ a.priority < 110)
    BY <1>5, <2>1 DEF Later
  <2>4. First(actions) = {RunnerFirst}
    BY <2>1, <2>2, <2>3 DEF First
  <2>5. QED
    BY <1>2, <2>4
<1>8. QED
  BY <1>6, <1>7

-----------------------------------------------------------------------------
(***************************************************************************)
(* The experiment design and the conclusion.                               *)
(***************************************************************************)
Scores == 0 .. 1000

LEMMA ShortOrder ==
  ASSUME NEW m \in Scores, NEW n \in Scores, 1000 - m <= 1000 - n
  PROVE  n <= m
BY DEF Scores

LEMMA ShortIsNatural ==
  ASSUME NEW m \in Scores
  PROVE  1000 - m \in Nat
BY DEF Scores

LEMMA SomeSelected ==
  ASSUME NEW offers, offers # {}, \A c \in offers : c.score \in Scores
  PROVE  select_candidate(offers) # {}
<1> DEFINE Short == {1000 - c.score : c \in offers}
<1>1. Short \in SUBSET Nat /\ Short # {}
  <2>1. \A c \in offers : 1000 - c.score \in Nat
    <3>1. TAKE c \in offers
    <3>2. c.score \in Scores
      OBVIOUS
    <3>3. QED
      BY <3>2, ShortIsNatural
  <2>2. PICK c \in offers : TRUE
    OBVIOUS
  <2>3. 1000 - c.score \in Short
    BY <2>2
  <2>4. QED
    BY <2>1, <2>3
<1>2. PICK least \in Short : \A j \in Short : least <= j
  BY <1>1, LeastNumber
<1>3. PICK c \in offers : least = 1000 - c.score
  BY <1>2
<1>4. \A d \in offers : d.score <= c.score
  <2>1. TAKE d \in offers
  <2>2. 1000 - d.score \in Short
    OBVIOUS
  <2>3. 1000 - c.score <= 1000 - d.score
    BY <1>2, <1>3, <2>2
  <2>4. c.score \in Scores /\ d.score \in Scores
    OBVIOUS
  <2>5. \A m, n \in Scores : 1000 - m <= 1000 - n => n <= m
    BY ShortOrder
  <2>6. QED
    BY <2>3, <2>4, <2>5
<1>5. QED
  BY <1>4 DEF select_candidate

Scored(S) == \A c \in S : c.score \in Scores

LEMMA DesignFollows ==
  ASSUME NEW s, SoundResult(s), NEW b, NEW d, d = build_agent_experiment_design_plan(s, b)
  PROVE  /\ (d.status = "completed") = (d.selected # {})
         /\ d.status = "no_actionable_candidates" =>
               /\ Of(b.checks, "warning") \cup Of(b.checks, "error") = {} /\ s.quality \in {"none", "passed"}
               /\ s.tool \in Studies_ \cup {"golden_curve_comparison"} \/ "convergence_evidence" \notin b.missing
<1> DEFINE offers ==
              refinement_candidate_from_effect(s.facts) \cup power_mosfet_signoff_candidate(s)
              \cup convergence_candidate(s, b) \cup golden_candidate(s, b) \cup repair_candidate(s, b)
              \cup sentaurus_schema_extension_candidate(s) \cup mutation_candidates(s.facts)
<1>1. /\ d.status = (IF offers = {} THEN "no_actionable_candidates" ELSE "completed")
      /\ d.selected = select_candidate(offers)
  BY DEF build_agent_experiment_design_plan
<1>2. /\ Scored(refinement_candidate_from_effect(s.facts)) /\ Scored(power_mosfet_signoff_candidate(s))
      /\ Scored(convergence_candidate(s, b)) /\ Scored(golden_candidate(s, b)) /\ Scored(repair_candidate(s, b))
      /\ Scored(sentaurus_schema_extension_candidate(s)) /\ Scored(mutation_candidates(s.facts))
  <2>1. Scored({})
    BY DEF Scored
  <2>2. /\ Scored({Candidate("refine_effective_mutation_direction", "plan", 940, AtOnce)})
        /\ Scored({Candidate("pareto_review_before_more_patches", "ask_user", 910, AsksFirst)})
        /\ Scored({Candidate("power_mosfet_2d_signoff_evidence_pack", "run_tool", 920, AtOnce)})
        /\ Scored({Candidate("collect_convergence_evidence", "run_tool", 900, AtOnce)})
        /\ Scored({Candidate("collect_golden_measured_correlation", "run_tool", 860, AtOnce)})
        /\ Scored({Candidate("repair_from_benchmark_and_curve", "repair", 700, AtOnce)})
        /\ Scored({Candidate("repair_from_benchmark_and_curve", "repair", 620, AtOnce)})
        /\ Scored({Candidate("extend_mutation_schema_from_sentaurus_deck", "plan", 560, AtOnce)})
    BY DEF Scored, Candidate, Scores
  <2> DEFINE needs == s.facts.mutations = "confirmed"
  <2>3. Scored({Candidate("mutation", "run_tool", 559, needs)})
    BY DEF Scored, Candidate, Scores
  <2> HIDE DEF needs
  <2>4. Scored(refinement_candidate_from_effect(s.facts)) /\ Scored(power_mosfet_signoff_candidate(s))
    BY <2>1, <2>2 DEF refinement_candidate_from_effect, power_mosfet_signoff_candidate
  <2>5. Scored(convergence_candidate(s, b)) /\ Scored(golden_candidate(s, b))
    BY <2>1, <2>2 DEF convergence_candidate, golden_candidate
  <2>6. Scored(repair_candidate(s, b))
    <3>1. \/ repair_candidate(s, b) = {}
          \/ repair_candidate(s, b) = {Candidate("repair_from_benchmark_and_curve", "repair", 700, AtOnce)}
          \/ repair_candidate(s, b) = {Candidate("repair_from_benchmark_and_curve", "repair", 620, AtOnce)}
      BY Zenon DEF repair_candidate
    <3>2. QED
      BY <2>1, <2>2, <3>1
  <2>7. Scored(sentaurus_schema_extension_candidate(s)) /\ Scored(mutation_candidates(s.facts))
    BY <2>1, <2>2, <2>3 DEF sentaurus_schema_extension_candidate, mutation_candidates, needs
  <2>8. QED
    BY <2>4, <2>5, <2>6, <2>7
<1>3. \A c \in offers : c.score \in Scores
  BY <1>2 DEF Scored
<1>4. offers = {} => repair_candidate(s, b) = {} /\ convergence_candidate(s, b) = {}
  OBVIOUS
<1> HIDE DEF offers
<1>5. select_candidate({}) = {}
  BY DEF select_candidate
<1>6. (d.status = "completed") = (d.selected # {})
  <2>1. offers # {} => select_candidate(offers) # {}
    BY <1>3, SomeSelected
  <2>2. QED
    BY <1>1, <1>5, <2>1
<1>7. ASSUME d.status = "no_actionable_candidates"
      PROVE  /\ Of(b.checks, "warning") \cup Of(b.checks, "error") = {} /\ s.quality \in {"none", "passed"}
             /\ s.tool \in Studies_ \cup {"golden_curve_comparison"} \/ "convergence_evidence" \notin b.missing
  <2>1. repair_candidate(s, b) = {} /\ convergence_candidate(s, b) = {}
    BY <1>1, <1>4, <1>7
  <2>2. Of(b.checks, "warning") \cup Of(b.checks, "error") = {} /\ s.quality \notin {"failed", "suspicious"}
    <3> DEFINE clean == s.quality \notin {"failed", "suspicious"} /\ Of(b.checks, "warning") \cup Of(b.checks, "error") = {}
    <3>1. SUFFICES ASSUME ~clean PROVE FALSE
      OBVIOUS
    <3> DEFINE points == IF Of(b.checks, "error") # {} THEN 700 ELSE 620
    <3>2. repair_candidate(s, b) = IF clean THEN {} ELSE {Candidate("repair_from_benchmark_and_curve", "repair", points, AtOnce)}
      BY Zenon DEF repair_candidate
    <3> HIDE DEF clean, points
    <3>3. repair_candidate(s, b) = {Candidate("repair_from_benchmark_and_curve", "repair", points, AtOnce)}
      BY <3>1, <3>2, Zenon
    <3>4. QED
      BY <2>1, <3>3
  <2>3. s.tool \in Studies_ \cup {"golden_curve_comparison"} \/ "convergence_evidence" \notin b.missing
    BY <2>1 DEF convergence_candidate
  <2>4. QED
    BY <2>2, <2>3 DEF SoundResult
<1>8. QED
  BY <1>6, <1>7

\* The decision of a conclusion drawn from the benchmark of this very result.
LEMMA DecisionFollows ==
  ASSUME NEW s, SoundResult(s), NEW b, b = run_physical_benchmark(s),
         NEW decision, decision = IF best_item(s) THEN engineering_decision(s, b) ELSE "nothing"
  PROVE  /\ decision \in {"nothing", "distrust", "exploratory", "lead", "baseline"}
         /\ Marked(s, "error") => decision \in {"nothing", "distrust"}
         /\ decision = "baseline" =>
               /\ s.status = "completed" /\ b.status = "passed" /\ ~Marked(s, "warning")
               /\ s.quality = IF s.tool \in Aggregates THEN "none" ELSE "passed"
<1>1. /\ b.status \in {"unsupported", "passed", "suspicious", "failed"}
      /\ b.status = "failed" <=> Marked(s, "error")
      /\ b.status \in {"passed", "unsupported"} => ~Marked(s, "warning")
  BY VerdictsFollow
<1>2. decision \in {"nothing", "distrust", "exploratory", "lead", "baseline"}
  BY DEF engineering_decision
<1>3. Marked(s, "error") => decision \in {"nothing", "distrust"}
  BY <1>1 DEF engineering_decision
<1>4. ASSUME decision = "baseline"
      PROVE  /\ s.status = "completed" /\ b.status = "passed" /\ ~Marked(s, "warning")
             /\ s.quality = IF s.tool \in Aggregates THEN "none" ELSE "passed"
  <2>1. /\ best_item(s) /\ s.status # "failed" /\ b.status \notin {"failed", "suspicious", "unsupported"}
        /\ "failed" \notin quality_counts(s) /\ "suspicious" \notin quality_counts(s)
    BY <1>4 DEF engineering_decision
  <2>2. b.status = "passed" /\ ~Marked(s, "warning")
    BY <1>1, <2>1
  <2>3. CASE s.tool \in Aggregates
    BY <2>1, <2>2, <2>3 DEF SoundResult
  <2>4. CASE s.tool \notin Aggregates
    <3>1. s.quality # "none" /\ quality_counts(s) = {s.quality} \ {"none"}
      BY <2>1, <2>4 DEF best_item, quality_counts
    <3>2. s.quality = "passed"
      BY <2>1, <3>1 DEF SoundResult
    <3>3. QED
      BY <2>1, <2>2, <2>4, <3>2 DEF SoundResult
  <2>5. QED
    BY <2>3, <2>4
<1>5. QED
  BY <1>2, <1>3, <1>4

\* A search is not benchmarked better than its best case.
LEMMA AggregateFollows ==
  ASSUME NEW s, SoundResult(s), s.tool \in Aggregates, s.facts.best = "kept"
  PROVE  severity_rank(run_physical_benchmark(s).status) >= severity_rank(status_from_checks(benchmark_single(s.child)))
<1> DEFINE checks == benchmark_single(s.child)
           b == run_physical_benchmark(s)
<1>1. Honest(checks)
  BY SingleIsHonest DEF SoundResult
<1>2. AsBest(checks) \subseteq benchmark_state(s)
  <2>1. AsBest(checks) \subseteq benchmark_aggregate(s)
    BY Zenon DEF benchmark_aggregate
  <2>2. QED
    BY <2>1 DEF benchmark_state
<1> HIDE DEF checks
<1>3. ASSUME NEW c \in checks, c.severity # "pass" PROVE Marked(s, c.severity)
  <2> DEFINE e == [c EXCEPT !.best = TRUE]
  <2>1. e \in benchmark_state(s)
    BY <1>2, <1>3 DEF AsBest
  <2>2. "severity" \in DOMAIN c
    BY <1>1, <1>3 DEF Honest
  <2>3. e.severity = c.severity
    BY <2>2
  <2> HIDE DEF e
  <2>4. QED
    BY <2>1, <2>3 DEF Marked, Of
<1>4. /\ b.status \in {"unsupported", "passed", "suspicious", "failed"}
      /\ b.status = "failed" <=> Marked(s, "error")
      /\ b.status \in {"passed", "unsupported"} => ~Marked(s, "warning") /\ ~Marked(s, "error")
  BY VerdictsFollow
<1> HIDE DEF b
<1>5. CASE \E c \in checks : c.severity = "error"
  <2>1. Marked(s, "error")
    BY <1>3, <1>5
  <2>2. b.status = "failed"
    BY <1>4, <2>1
  <2>3. status_from_checks(checks) \in {"unsupported", "failed", "suspicious", "passed"}
    BY DEF status_from_checks
  <2>4. QED
    BY <2>2, <2>3 DEF severity_rank, b, checks
<1>6. CASE ~(\E c \in checks : c.severity = "error") /\ (\E c \in checks : c.severity = "warning")
  <2>1. Marked(s, "warning")
    BY <1>3, <1>6
  <2>2. b.status \in {"suspicious", "failed"}
    BY <1>4, <2>1
  <2>3. status_from_checks(checks) \in {"unsupported", "suspicious"}
    BY <1>6 DEF status_from_checks, HasError
  <2>4. QED
    BY <2>2, <2>3 DEF severity_rank, b, checks
<1>7. CASE ~(\E c \in checks : c.severity = "error") /\ ~(\E c \in checks : c.severity = "warning")
  <2>1. status_from_checks(checks) \in {"unsupported", "passed"}
    BY <1>7 DEF status_from_checks, HasError
  <2>2. QED
    BY <1>4, <2>1 DEF severity_rank, b, checks
<1>8. QED
  BY <1>5, <1>6, <1>7

-----------------------------------------------------------------------------
(***************************************************************************)
(* The chain.  What is on file is what the functions above make of the     *)
(* result, except that a run into the same directory leaves the benchmark  *)
(* and the design of the result before it.                                 *)
(***************************************************************************)
Benchmarked(s) == run_physical_benchmark(s)
Folded(s) == write_benchmark_augmented_state(s, Benchmarked(s))
Concluded(s) == IF best_item(s) THEN engineering_decision(s, Benchmarked(s)) ELSE "nothing"

ChainInv ==
    /\ SoundResult(result) /\ rerun \in BOOLEAN
    /\ benchmark = {} => augmented = {} /\ design = {} /\ conclusion = "none" /\ ~rerun
    /\ benchmark # {} => \E s : SoundResult(s) /\ benchmark = {Benchmarked(s)}
    /\ benchmark # {} /\ (~rerun \/ conclusion # "none") => benchmark = {Benchmarked(result)}
    /\ augmented # {} => ~rerun /\ augmented = {Folded(result)}
    /\ plan # {} => /\ augmented # {}
                    /\ \E golden : plan = {build_repair_plan(ToRepair(result, Folded(result)), golden)}
    /\ design # {} => \E b : design = {build_agent_experiment_design_plan(result, b)} /\ (~rerun => b = Benchmarked(result))
    /\ conclusion # "none" => conclusion = Concluded(result)

LEMMA TheOnly ==
  ASSUME NEW x
  PROVE  The({x}) = x /\ {x} # {}
BY DEF The

LEMMA ChainInitially == ChainInit => ChainInv
<1> SUFFICES ASSUME ChainInit PROVE ChainInv
  OBVIOUS
<1>1. SoundResult(result)
  BY ResultsAssumption DEF ChainInit
<1>2. rerun \in BOOLEAN
  BY Zenon DEF ChainInit
<1>3. QED
  BY <1>1, <1>2 DEF ChainInit, ChainInv

LEMMA ChainInductive == ChainInv /\ [ChainNext]_chainVars => ChainInv'
<1> SUFFICES ASSUME ChainInv, [ChainNext]_chainVars PROVE ChainInv'
  OBVIOUS
<1>1. CASE RunBenchmark
  BY <1>1 DEF ChainInv, RunBenchmark, Benchmarked
<1>2. CASE Rerun
  <2>1. SoundResult(result')
    BY <1>2, ResultsAssumption DEF Rerun
  <2>2. rerun' = TRUE /\ rerun' \in BOOLEAN
    BY <1>2, Zenon DEF Rerun
  <2>3. /\ augmented' = {} /\ plan' = {} /\ design' = {} /\ conclusion' = "none" /\ benchmark' = benchmark
        /\ benchmark # {}
    BY <1>2 DEF Rerun, Forgotten, Known
  <2>4. QED
    BY <2>1, <2>2, <2>3 DEF ChainInv
<1>3. CASE Augment
  <2>1. benchmark = {Benchmarked(result)} /\ ~rerun
    BY <1>3 DEF Augment, ChainInv, Known
  <2>2. augmented' = {Folded(result)} /\ UNCHANGED <<result, benchmark, plan, design, conclusion, rerun>>
    BY <1>3, <2>1, TheOnly DEF Augment, Folded
  <2>3. QED
    BY <2>1, <2>2 DEF ChainInv
<1>4. CASE PlanRepair
  <2>1. augmented = {Folded(result)} /\ UNCHANGED <<result, benchmark, augmented, design, conclusion, rerun>>
    BY <1>4 DEF PlanRepair, ChainInv, Known
  <2>2. \E golden : plan' = {build_repair_plan(ToRepair(result, Folded(result)), golden)}
    BY <1>4, <2>1, TheOnly DEF PlanRepair
  <2>3. QED
    BY <2>1, <2>2 DEF ChainInv
<1>5. CASE DesignExperiment
  <2>1. /\ design' = {build_agent_experiment_design_plan(result, The(benchmark))}
        /\ UNCHANGED <<result, benchmark, augmented, plan, conclusion, rerun>> /\ benchmark # {}
    BY <1>5 DEF DesignExperiment, Known
  <2>2. ~rerun => The(benchmark) = Benchmarked(result)
    BY <2>1, TheOnly DEF ChainInv
  <2>3. QED
    BY <2>1, <2>2 DEF ChainInv
<1>6. CASE Conclude
  <2>1. /\ benchmark' = {Benchmarked(result)} /\ augmented = {} /\ design = {} /\ conclusion = "none"
        /\ UNCHANGED <<result, augmented, plan, design, rerun>>
        /\ conclusion' = IF best_item(result) THEN engineering_decision(result, The(benchmark')) ELSE "nothing"
    BY <1>6 DEF Conclude, Benchmarked
  <2>2. conclusion' = Concluded(result)
    BY <2>1, TheOnly DEF Concluded
  <2>3. QED
    BY <2>1, <2>2 DEF ChainInv
<1>7. CASE UNCHANGED chainVars
  BY <1>7 DEF chainVars, ChainInv
<1>8. QED
  BY <1>1, <1>2, <1>3, <1>4, <1>5, <1>6, <1>7 DEF ChainNext

\* The verdicts of a benchmark agree, whatever result it was made of.
LEMMA VerdictsHold == ChainInv => ChainTypeOK /\ VerdictsAgree
<1> SUFFICES ASSUME ChainInv PROVE ChainTypeOK /\ VerdictsAgree
  OBVIOUS
<1>1. \A b \in benchmark :
         /\ b.status \in {"unsupported", "passed", "suspicious", "failed"}
         /\ (b.status = "failed") = (b.signoff = "blocked") /\ (b.status = "failed") = (b.level = "blocked")
         /\ (b.status = "failed") = (b.pack = "blocked")
         /\ b.level = "ready" => b.signoff = "ready" /\ b.status = "passed"
  <2>1. TAKE b \in benchmark
  <2>2. PICK s : SoundResult(s) /\ b = Benchmarked(s)
    BY DEF ChainInv
  <2>3. QED
    BY <2>2, VerdictsFollow DEF Benchmarked
<1>2. \A d \in design : (d.status = "completed") = (d.selected # {})
  <2>1. TAKE d \in design
  <2>2. PICK b : d = build_agent_experiment_design_plan(result, b)
    BY DEF ChainInv
  <2>3. SoundResult(result)
    BY DEF ChainInv
  <2>4. QED
    BY <2>2, <2>3, DesignFollows
<1>3. conclusion \in {"none", "nothing", "distrust", "exploratory", "lead", "baseline"}
  BY DecisionFollows DEF ChainInv, Concluded, Benchmarked
<1>4. \A file \in {benchmark, augmented, plan, design} : file = {} \/ \E x : file = {x}
  BY DEF ChainInv
<1>5. \A file \in {benchmark, augmented, plan, design} : Cardinality(file) <= 1
  <2>1. TAKE file \in {benchmark, augmented, plan, design}
  <2>2. CASE file = {}
    BY <2>2, FS_EmptySet
  <2>3. CASE \E x : file = {x}
    <3>1. PICK x : file = {x}
      BY <2>3
    <3>2. Cardinality({x}) = 1
      BY FS_Singleton
    <3>3. QED
      BY <3>1, <3>2
  <2>4. QED
    BY <1>4, <2>2, <2>3
<1>6. QED
  BY <1>1, <1>2, <1>3, <1>5 DEF ChainTypeOK, VerdictsAgree, ChainInv, SoundResult

\* A benchmark of this very result
LEMMA CurrentIsOwn == ChainInv /\ Current => The(benchmark) = Benchmarked(result) /\ benchmark = {Benchmarked(result)}
BY TheOnly DEF ChainInv, Current, Known

LEMMA BenchmarkHolds == ChainInv => BenchmarkInvariant
<1> SUFFICES ASSUME ChainInv PROVE BenchmarkInvariant
  OBVIOUS
<1>1. SoundResult(result)
  BY DEF ChainInv
<1>2. PackReadyIsBacked
  <2>1. SUFFICES ASSUME Current, The(benchmark).pack = "ready"
                 PROVE  /\ result.quality = "passed" /\ HasDeck(result.facts)
                        /\ Strict(result.facts) => HasConvergence(result.tool, result.facts)
                        /\ Strict(result.facts) \/ result.facts.measured # "no" =>
                              evidence_matrix(result, The(benchmark).checks).golden_or_measured_comparison
    BY DEF PackReadyIsBacked
  <2>2. The(benchmark) = run_physical_benchmark(result)
    BY <2>1, CurrentIsOwn DEF Benchmarked
  <2>3. /\ The(benchmark).checks = benchmark_state(result)
        /\ ~Marked(result, "warning") /\ MissingEvidence(result, benchmark_state(result)) = {}
    BY <1>1, <2>1, <2>2, VerdictsFollow
  <2>4. result.quality \notin {"suspicious", "planned"}
    BY <1>1, <2>3, ChecksThere
  <2>5. QED
    BY <1>1, <2>3, <2>4, MissingIsListed DEF SoundResult
<1>3. QualityNotOverruled
  <2>1. SUFFICES ASSUME Current, result.quality \in {"suspicious", "failed"}
                 PROVE  severity_rank(The(benchmark).status) >= severity_rank(result.quality)
    BY DEF QualityNotOverruled
  <2>2. The(benchmark) = run_physical_benchmark(result)
    BY <2>1, CurrentIsOwn DEF Benchmarked
  <2>3. /\ result.quality = "failed" => Marked(result, "error")
        /\ result.quality = "suspicious" => Marked(result, "warning")
    BY <1>1, ChecksThere
  <2>4. /\ result.quality = "failed" => The(benchmark).status = "failed"
        /\ result.quality = "suspicious" => The(benchmark).status \in {"suspicious", "failed"}
    BY <1>1, <2>2, <2>3, VerdictsFollow
  <2>5. QED
    BY <2>1, <2>4 DEF severity_rank
<1>4. AggregateNoBetter
  BY <1>1, CurrentIsOwn, AggregateFollows DEF AggregateNoBetter, Benchmarked
<1>5. QED
  BY <1>2, <1>3, <1>4, VerdictsHold DEF BenchmarkInvariant

LEMMA ConclusionHolds == ChainInv => ConclusionInvariant
<1> SUFFICES ASSUME ChainInv PROVE ConclusionInvariant
  OBVIOUS
<1>1. SoundResult(result)
  BY DEF ChainInv
<1>2. conclusion # "none" => conclusion = Concluded(result)
  BY DEF ChainInv
<1>3. /\ Concluded(result) \in {"nothing", "distrust", "exploratory", "lead", "baseline"}
      /\ Marked(result, "error") => Concluded(result) \in {"nothing", "distrust"}
      /\ Concluded(result) = "baseline" =>
            /\ result.status = "completed" /\ Benchmarked(result).status = "passed" /\ ~Marked(result, "warning")
            /\ result.quality = IF result.tool \in Aggregates THEN "none" ELSE "passed"
  BY <1>1, DecisionFollows DEF Concluded, Benchmarked
<1>4. BaselineIsSound
  BY <1>2, <1>3 DEF BaselineIsSound, Benchmarked
<1>5. StrictDeckIsConverged
  <2>1. SUFFICES ASSUME Strict(result.facts), ~HasConvergence(result.tool, result.facts)
                 PROVE  (\A a \in augmented : ~is_accepted_state(a)) /\ conclusion # "baseline"
    BY DEF StrictDeckIsConverged
  <2>2. Marked(result, "warning")
    BY <1>1, <2>1, ChecksThere
  <2>3. ~is_accepted_state(Folded(result))
    BY <1>1, <2>1, AugmentedFollows DEF Folded, Benchmarked
  <2>4. QED
    BY <1>2, <1>3, <2>2, <2>3 DEF ChainInv
<1>6. PlannedDeviceIsRefused
  <2>1. SUFFICES ASSUME PlannedDevice
                 PROVE  /\ Current => The(benchmark).pack = "blocked"
                        /\ conclusion \in {"none", "nothing", "distrust"}
                        /\ \A p \in plan : p.next = {RunnerFirst}
    BY DEF PlannedDeviceIsRefused, RunnerFirst
  <2>2. PlannedCode \in Named(Of(benchmark_state(result), "error"))
    BY <1>1, <2>1, ChecksThere DEF PlannedDevice
  <2>3. Marked(result, "error")
    BY <2>2 DEF Marked, Named
  <2>4. Current => The(benchmark).pack = "blocked"
    BY <1>1, <2>3, CurrentIsOwn, VerdictsFollow DEF Benchmarked
  <2>5. conclusion \in {"none", "nothing", "distrust"}
    BY <1>2, <1>3, <2>3
  <2>6. \A p \in plan : p.next = {RunnerFirst}
    <3>1. TAKE p \in plan
    <3>2. PICK golden : p = build_repair_plan(ToRepair(result, Folded(result)), golden)
      BY DEF ChainInv
    <3>3. PlannedCode \in Folded(result).codes
      BY <1>1, <2>2, AugmentedFollows, VerdictsFollow DEF Folded, Benchmarked
    <3>4. ToRepair(result, Folded(result)).codes = Folded(result).codes
      BY DEF ToRepair
    <3>5. QED
      BY <3>2, <3>3, <3>4, PlanFollows
  <2>7. QED
    BY <2>4, <2>5, <2>6
<1>7. QED
  BY <1>4, <1>5, <1>6 DEF ConclusionInvariant

LEMMA RepairPlanHolds == ChainInv => RepairPlanInvariant
<1> SUFFICES ASSUME ChainInv PROVE RepairPlanInvariant
  OBVIOUS
<1>1. SoundResult(result)
  BY DEF ChainInv
<1> DEFINE b == run_physical_benchmark(result)
           a == Folded(result)
<1>2. /\ is_accepted_state(a) => a.codes = {} /\ Of(b.checks, "error") \cup Of(b.checks, "warning") = {}
      /\ ~is_accepted_state(a) /\ result.status = "completed" /\ result.quality # "none" => a.codes # {}
  BY <1>1, AugmentedFollows DEF Folded, Benchmarked
<1>3. augmented # {} => augmented = {a} /\ benchmark = {b}
  BY DEF ChainInv, Benchmarked
<1> HIDE DEF a, b
<1>4. AcceptedIsClean
  BY <1>2, <1>3 DEF AcceptedIsClean
<1>5. RefusedHasReason
  BY <1>2, <1>3 DEF RefusedHasReason
<1>6. PlanCoversFailures
  <2>1. SUFFICES ASSUME NEW p \in plan, result.status = "failed" PROVE p.status = "planned"
    BY DEF PlanCoversFailures
  <2>2. PICK golden : p = build_repair_plan(ToRepair(result, a), golden)
    BY DEF ChainInv, a
  <2>3. ToRepair(result, a).status = "failed"
    BY <2>1 DEF ToRepair
  <2>4. QED
    BY <2>2, <2>3, PlanFollows
<1>7. NothingLeftIsClean
  <2>1. SUFFICES ASSUME ~rerun, NEW d \in design, d.status = "no_actionable_candidates"
                 PROVE  /\ \A c \in benchmark : c.status \in {"passed", "unsupported"}
                        /\ result.quality \in {"none", "passed"}
                        /\ \/ result.tool \in Studies_ \cup {"golden_curve_comparison"} \/ ~Strict(result.facts)
                           \/ HasConvergence(result.tool, result.facts)
    BY DEF NothingLeftIsClean
  <2>2. d = build_agent_experiment_design_plan(result, b) /\ benchmark = {b}
    BY <2>1 DEF ChainInv, Benchmarked, b
  <2>3. /\ Of(b.checks, "warning") \cup Of(b.checks, "error") = {} /\ result.quality \in {"none", "passed"}
        /\ result.tool \in Studies_ \cup {"golden_curve_comparison"} \/ "convergence_evidence" \notin b.missing
    BY <1>1, <2>1, <2>2, DesignFollows
  <2>4. /\ b.checks = benchmark_state(result) /\ b.missing = MissingEvidence(result, benchmark_state(result))
        /\ ~Marked(result, "warning") /\ ~Marked(result, "error") => b.status \in {"passed", "unsupported"}
    BY <1>1, VerdictsFollow DEF b
  <2>5. b.status \in {"passed", "unsupported"}
    BY <2>3, <2>4 DEF Marked
  <2>6. \/ result.tool \in Studies_ \cup {"golden_curve_comparison"} \/ ~Strict(result.facts)
        \/ HasConvergence(result.tool, result.facts)
    BY <2>3, <2>4, MissingIsListed
  <2>7. QED
    BY <2>2, <2>3, <2>5, <2>6
<1>8. QED
  BY <1>4, <1>5, <1>6, <1>7 DEF RepairPlanInvariant

\* For all results the tools may leave, the verdicts of a benchmark agree with
\* one another and with the result they were made of.
THEOREM BenchmarkIsConsistent == ChainSpec => []BenchmarkInvariant
BY ChainInitially, ChainInductive, BenchmarkHolds, PTL DEF ChainSpec

\* What the conclusion recommends is a result that deserves it, and a device
\* without a runner is signed off nowhere.
THEOREM ConclusionIsDeserved == ChainSpec => []ConclusionInvariant
BY ChainInitially, ChainInductive, ConclusionHolds, PTL DEF ChainSpec

\* The repair planner stops at clean results only, and has a reason and a plan
\* for the others.
THEOREM RepairStopsAtClean == ChainSpec => []RepairPlanInvariant
BY ChainInitially, ChainInductive, RepairPlanHolds, PTL DEF ChainSpec

-----------------------------------------------------------------------------
(***************************************************************************)
(* The loop of Sentaurus patches.                                          *)
(***************************************************************************)
Params == UNION {DOMAIN deck : deck \in Decks}
DeckPatch == [parameter : Params, old : Int, value : Int]

\* A deck after the first n patches, for every n.
IsAfter(after, deck, patches, last) ==
    after = [n \in 0 .. last |-> IF n = 0 THEN deck
                                 ELSE apply_sentaurus_semantic_patch_text(after[n - 1], patches[n])]
After(deck, patches) == CHOOSE after : IsAfter(after, deck, patches, Len(patches))

LEMMA AfterExists ==
  ASSUME NEW deck, NEW patches, Len(patches) \in Nat
  PROVE  IsAfter(After(deck, patches), deck, patches, Len(patches))
<1> DEFINE Good == {n \in Nat : \E after : IsAfter(after, deck, patches, n)}
<1>1. 0 \in Good
  <2>1. IsAfter([n \in 0 .. 0 |-> deck], deck, patches, 0)
    BY DEF IsAfter
  <2>2. QED
    BY <2>1
<1>2. ASSUME NEW n \in 1 .. Len(patches), n - 1 \in Good PROVE n \in Good
  <2>1. PICK a : IsAfter(a, deck, patches, n - 1)
    BY <1>2
  <2> DEFINE Next_(k) == IF k = 0 THEN deck ELSE apply_sentaurus_semantic_patch_text(a[k - 1], patches[k])
             b == [k \in 0 .. n |-> Next_(k)]
  <2>2. \A k \in 0 .. (n - 1) : a[k] = Next_(k)
    BY <2>1 DEF IsAfter
  <2>3. \A k \in 0 .. n : b[k] = Next_(k)
    OBVIOUS
  <2>4. \A k \in 0 .. n : k # 0 => b[k - 1] = a[k - 1]
    BY <2>2, <2>3
  <2>5. b = [k \in 0 .. n |-> IF k = 0 THEN deck ELSE apply_sentaurus_semantic_patch_text(b[k - 1], patches[k])]
    <3> DEFINE c == b
    <3>1. c = b
      OBVIOUS
    <3> HIDE DEF c
    <3>2. \A k \in 0 .. n : Next_(k) = IF k = 0 THEN deck ELSE apply_sentaurus_semantic_patch_text(c[k - 1], patches[k])
      BY <2>4, <3>1
    <3> HIDE DEF Next_
    <3>4. [k \in 0 .. n |-> IF k = 0 THEN deck ELSE apply_sentaurus_semantic_patch_text(c[k - 1], patches[k])] = b
      BY <3>2
    <3>3. QED
      BY <3>1, <3>4
  <2> HIDE DEF b
  <2>6. IsAfter(b, deck, patches, n)
    BY <2>5 DEF IsAfter
  <2>7. QED
    BY <2>6
<1>3. Len(patches) \in Good
  <2>1. Good \in SUBSET Nat /\ Len(patches) \in 0 .. Len(patches)
    OBVIOUS
  <2> HIDE DEF Good
  <2>2. QED
    BY <1>1, <1>2, <2>1, EveryNumber
<1>4. QED
  BY <1>3 DEF After

LEMMA AfterFacts ==
  ASSUME NEW deck, NEW patches, Len(patches) \in Nat
  PROVE  /\ Applied(deck, patches) = After(deck, patches)[Len(patches)]
         /\ After(deck, patches)[0] = deck
         /\ \A n \in 1 .. Len(patches) :
               After(deck, patches)[n] = apply_sentaurus_semantic_patch_text(After(deck, patches)[n - 1], patches[n])
<1>1. Applied(deck, patches) = After(deck, patches)[Len(patches)]
  BY DEF Applied, After, IsAfter
<1> DEFINE a == After(deck, patches)
<1>2. IsAfter(a, deck, patches, Len(patches))
  BY AfterExists
<1> HIDE DEF a
<1>3. \A n \in 0 .. Len(patches) :
         a[n] = IF n = 0 THEN deck ELSE apply_sentaurus_semantic_patch_text(a[n - 1], patches[n])
  BY <1>2 DEF IsAfter
<1>4. a[0] = deck /\ \A n \in 1 .. Len(patches) : a[n] = apply_sentaurus_semantic_patch_text(a[n - 1], patches[n])
  BY <1>3
<1>5. QED
  BY <1>1, <1>4 DEF a

\* What is applied to what was made of a deck is applied to the deck with the rest.
LEMMA AppliedJoined ==
  ASSUME NEW deck, NEW s \in Seq(DeckPatch), NEW t \in Seq(DeckPatch)
  PROVE  Applied(deck, s \o t) = Applied(Applied(deck, s), t)
<1> DEFINE f == After(deck, s \o t)
           g == After(deck, s)
           h == After(Applied(deck, s), t)
           Agree == {n \in Nat : n <= Len(s) => f[n] = g[n]}
           Follow == {n \in Nat : n <= Len(t) => f[Len(s) + n] = h[n]}
<1>1. /\ Len(s) \in Nat /\ Len(t) \in Nat /\ Len(s \o t) = Len(s) + Len(t)
      /\ \A n \in 1 .. Len(s) : (s \o t)[n] = s[n]
      /\ \A n \in 1 .. Len(t) : (s \o t)[Len(s) + n] = t[n]
  OBVIOUS
<1>2. /\ Applied(deck, s \o t) = f[Len(s) + Len(t)] /\ f[0] = deck
      /\ \A n \in 1 .. (Len(s) + Len(t)) : f[n] = apply_sentaurus_semantic_patch_text(f[n - 1], (s \o t)[n])
  <2> DEFINE both == s \o t
  <2>0. Len(both) \in Nat
    BY <1>1
  <2> HIDE DEF both
  <2>1. /\ Applied(deck, both) = After(deck, both)[Len(both)] /\ After(deck, both)[0] = deck
        /\ \A n \in 1 .. Len(both) :
              After(deck, both)[n] = apply_sentaurus_semantic_patch_text(After(deck, both)[n - 1], both[n])
    BY <2>0, AfterFacts
  <2>2. QED
    BY <1>1, <2>1 DEF both
<1>3. /\ Applied(deck, s) = g[Len(s)] /\ g[0] = deck
      /\ \A n \in 1 .. Len(s) : g[n] = apply_sentaurus_semantic_patch_text(g[n - 1], s[n])
  BY <1>1, AfterFacts
<1>4. /\ Applied(Applied(deck, s), t) = h[Len(t)] /\ h[0] = Applied(deck, s)
      /\ \A n \in 1 .. Len(t) : h[n] = apply_sentaurus_semantic_patch_text(h[n - 1], t[n])
  BY <1>1, AfterFacts
<1> HIDE DEF f, g, h
<1>5. \A n \in 0 .. Len(s) : n \in Agree
  <2>1. \A n \in 1 .. Len(s) : n - 1 \in Agree => n \in Agree
    BY <1>1, <1>2, <1>3
  <2>2. Agree \in SUBSET Nat /\ 0 \in Agree
    BY <1>2, <1>3
  <2> HIDE DEF Agree
  <2>3. QED
    BY <1>1, <2>1, <2>2, EveryNumber
<1>6. f[Len(s)] = Applied(deck, s)
  BY <1>1, <1>3, <1>5
<1>7. \A n \in 0 .. Len(t) : n \in Follow
  <2>1. ASSUME NEW n \in 1 .. Len(t), n - 1 \in Follow PROVE n \in Follow
    <3>1. f[Len(s) + (n - 1)] = h[n - 1]
      BY <1>1, <2>1
    <3>2. Len(s) + n \in 1 .. (Len(s) + Len(t)) /\ (Len(s) + n) - 1 = Len(s) + (n - 1)
      BY <1>1
    <3>3. f[Len(s) + n] = apply_sentaurus_semantic_patch_text(f[(Len(s) + n) - 1], (s \o t)[Len(s) + n])
      BY <1>2, <3>2
    <3>4. QED
      BY <1>1, <1>4, <3>1, <3>2, <3>3
  <2>2. Follow \in SUBSET Nat /\ 0 \in Follow
    BY <1>1, <1>4, <1>6
  <2> HIDE DEF Follow
  <2>3. QED
    BY <1>1, <2>1, <2>2, EveryNumber
<1>8. QED
  BY <1>1, <1>2, <1>4, <1>7

\* A deck of numbers, and patches of it at different parameters.
DeckType(deck) == deck \in [DOMAIN deck -> Int] /\ DOMAIN deck \subseteq Params

Fits(deck, patches) ==
    /\ patches \in Seq(DeckPatch)
    /\ \A k \in DOMAIN patches : patches[k].parameter \in DOMAIN deck /\ patches[k].old = deck[patches[k].parameter]
    /\ \A j, k \in DOMAIN patches : patches[j].parameter = patches[k].parameter => j = k

\* The deck has the values of the patches.
LEMMA AppliedHas ==
  ASSUME NEW deck, DeckType(deck), NEW patches, Fits(deck, patches)
  PROVE  /\ DeckType(Applied(deck, patches)) /\ DOMAIN Applied(deck, patches) = DOMAIN deck
         /\ \A k \in DOMAIN patches : Applied(deck, patches)[patches[k].parameter] = patches[k].value
<1> DEFINE f == After(deck, patches)
           HasTo(n) == \A k \in 1 .. n : f[n][patches[k].parameter] = patches[k].value
           Good == {n \in Nat : n <= Len(patches) => f[n] \in [DOMAIN deck -> Int] /\ HasTo(n)}
<1>1. /\ Len(patches) \in Nat /\ DOMAIN patches = 1 .. Len(patches)
      /\ \A n \in 1 .. Len(patches) : patches[n].parameter \in DOMAIN deck /\ patches[n].value \in Int
  <2>1. patches \in Seq(DeckPatch) /\ \A k \in DOMAIN patches : patches[k].parameter \in DOMAIN deck
    BY DEF Fits
  <2>2. Len(patches) \in Nat /\ DOMAIN patches = 1 .. Len(patches) /\ \A n \in 1 .. Len(patches) : patches[n] \in DeckPatch
    BY <2>1
  <2>3. QED
    BY <2>1, <2>2 DEF DeckPatch
<1>2. /\ Applied(deck, patches) = f[Len(patches)] /\ f[0] = deck
      /\ \A n \in 1 .. Len(patches) : f[n] = [f[n - 1] EXCEPT ![patches[n].parameter] = patches[n].value]
  <2>1. /\ Applied(deck, patches) = f[Len(patches)] /\ f[0] = deck
        /\ \A n \in 1 .. Len(patches) : f[n] = apply_sentaurus_semantic_patch_text(f[n - 1], patches[n])
    BY <1>1, AfterFacts
  <2>2. QED
    BY <2>1 DEF apply_sentaurus_semantic_patch_text
<1> HIDE DEF f
<1>3. ASSUME NEW n \in 1 .. Len(patches), n - 1 \in Good PROVE n \in Good
  <2>1. n \in Nat /\ n - 1 \in Nat /\ n - 1 <= Len(patches)
    BY <1>1
  <2>2. f[n - 1] \in [DOMAIN deck -> Int] /\ HasTo(n - 1)
    BY <1>3, <2>1
  <2>3. /\ f[n] \in [DOMAIN deck -> Int] /\ f[n][patches[n].parameter] = patches[n].value
        /\ \A p \in DOMAIN deck : p # patches[n].parameter => f[n][p] = f[n - 1][p]
    <3>1. f[n] = [f[n - 1] EXCEPT ![patches[n].parameter] = patches[n].value]
      BY <1>2
    <3>2. patches[n].parameter \in DOMAIN deck /\ patches[n].value \in Int
      BY <1>1
    <3>3. QED
      BY <2>2, <3>1, <3>2
  <2>4. HasTo(n)
    <3> SUFFICES ASSUME NEW k \in 1 .. n PROVE f[n][patches[k].parameter] = patches[k].value
      OBVIOUS
    <3>1. CASE k = n
      BY <2>3, <3>1
    <3>2. CASE k # n
      <4>1. k \in 1 .. (n - 1) /\ k \in 1 .. Len(patches)
        BY <1>1, <3>2
      <4>2. patches[k].parameter # patches[n].parameter
        BY <1>1, <3>2, <4>1 DEF Fits
      <4>3. f[n - 1][patches[k].parameter] = patches[k].value
        BY <2>2, <4>1
      <4>4. QED
        BY <1>1, <2>3, <4>1, <4>2, <4>3
    <3>3. QED
      BY <3>1, <3>2
  <2> HIDE DEF HasTo
  <2>5. QED
    BY <2>1, <2>3, <2>4
<1>4. 0 \in Good
  BY <1>2 DEF DeckType
<1>5. Len(patches) \in Good
  <2>1. Good \in SUBSET Nat /\ Len(patches) \in 0 .. Len(patches)
    BY <1>1
  <2> HIDE DEF Good
  <2>2. QED
    BY <1>1, <1>3, <1>4, <2>1, EveryNumber
<1>6. f[Len(patches)] \in [DOMAIN deck -> Int] /\ HasTo(Len(patches))
  BY <1>1, <1>5
<1>7. QED
  BY <1>1, <1>2, <1>6 DEF DeckType

-----------------------------------------------------------------------------
\* The patches of every candidate run, one after another.
IsFlat(flat, h, last) == flat = [n \in 1 .. last |-> IF n = 1 THEN h[n] ELSE flat[n - 1] \o h[n]]
Flat(h) == CHOOSE flat : IsFlat(flat, h, Len(h))

LEMMA FlatExists ==
  ASSUME NEW h, Len(h) \in Nat
  PROVE  IsFlat(Flat(h), h, Len(h))
<1> DEFINE Good == {n \in Nat : \E flat : IsFlat(flat, h, n)}
<1>1. 0 \in Good
  <2>1. IsFlat([n \in 1 .. 0 |-> 0], h, 0)
    BY DEF IsFlat
  <2>2. QED
    BY <2>1
<1>2. ASSUME NEW n \in 1 .. Len(h), n - 1 \in Good PROVE n \in Good
  <2>1. PICK a : IsFlat(a, h, n - 1)
    BY <1>2
  <2> DEFINE Next_(k) == IF k = 1 THEN h[k] ELSE a[k - 1] \o h[k]
             b == [k \in 1 .. n |-> Next_(k)]
  <2>2. \A k \in 1 .. (n - 1) : a[k] = Next_(k)
    BY <2>1 DEF IsFlat
  <2>3. \A k \in 1 .. n : b[k] = Next_(k)
    OBVIOUS
  <2>4. \A k \in 1 .. n : k # 1 => b[k - 1] = a[k - 1]
    BY <2>2, <2>3
  <2>5. b = [k \in 1 .. n |-> IF k = 1 THEN h[k] ELSE b[k - 1] \o h[k]]
    <3> DEFINE c == b
    <3>1. c = b
      OBVIOUS
    <3> HIDE DEF c
    <3>2. \A k \in 1 .. n : Next_(k) = IF k = 1 THEN h[k] ELSE c[k - 1] \o h[k]
      BY <2>4, <3>1
    <3> HIDE DEF Next_
    <3>3. [k \in 1 .. n |-> IF k = 1 THEN h[k] ELSE c[k - 1] \o h[k]] = b
      BY <3>2
    <3>4. QED
      BY <3>1, <3>3
  <2> HIDE DEF b
  <2>6. IsFlat(b, h, n)
    BY <2>5 DEF IsFlat
  <2>7. QED
    BY <2>6
<1>3. Len(h) \in Good
  <2>1. Good \in SUBSET Nat /\ Len(h) \in 0 .. Len(h)
    OBVIOUS
  <2> HIDE DEF Good
  <2>2. QED
    BY <1>1, <1>2, <2>1, EveryNumber
<1>4. QED
  BY <1>3 DEF Flat

LEMMA FlatFacts ==
  ASSUME NEW h, Len(h) \in Nat
  PROVE  /\ Len(h) # 0 => FlattenSeq(h) = Flat(h)[Len(h)]
         /\ \A n \in 1 .. Len(h) : Flat(h)[n] = IF n = 1 THEN h[n] ELSE Flat(h)[n - 1] \o h[n]
<1>1. Len(h) # 0 => FlattenSeq(h) = Flat(h)[Len(h)]
  BY DEF FlattenSeq, Flat, IsFlat
<1> DEFINE a == Flat(h)
<1>2. IsFlat(a, h, Len(h))
  BY FlatExists
<1> HIDE DEF a
<1>3. \A n \in 1 .. Len(h) : a[n] = IF n = 1 THEN h[n] ELSE a[n - 1] \o h[n]
  BY <1>2 DEF IsFlat
<1>4. QED
  BY <1>1, <1>3 DEF a

\* One more list of patches.
LEMMA FlattenAppend ==
  ASSUME NEW h \in Seq(Seq(DeckPatch)), NEW p \in Seq(DeckPatch), FlattenSeq(h) \in Seq(DeckPatch)
  PROVE  FlattenSeq(Append(h, p)) = FlattenSeq(h) \o p
<1> DEFINE l == Append(h, p)
           f == Flat(l)
           g == Flat(h)
           Good == {n \in Nat : n \in 1 .. Len(h) => f[n] = g[n]}
<1>1. /\ Len(h) \in Nat /\ Len(l) = Len(h) + 1 /\ l[Len(h) + 1] = p
      /\ \A n \in 1 .. Len(h) : l[n] = h[n]
  OBVIOUS
<1> HIDE DEF l
<1>2. /\ FlattenSeq(l) = f[Len(h) + 1]
      /\ \A n \in 1 .. (Len(h) + 1) : f[n] = IF n = 1 THEN l[n] ELSE f[n - 1] \o l[n]
  BY <1>1, FlatFacts
<1>3. /\ Len(h) # 0 => FlattenSeq(h) = g[Len(h)]
      /\ \A n \in 1 .. Len(h) : g[n] = IF n = 1 THEN h[n] ELSE g[n - 1] \o h[n]
  BY <1>1, FlatFacts
<1> HIDE DEF f, g
<1>4. \A n \in 0 .. Len(h) : n \in Good
  <2>1. \A n \in 1 .. Len(h) : n - 1 \in Good => n \in Good
    BY <1>1, <1>2, <1>3
  <2>2. Good \in SUBSET Nat /\ 0 \in Good
    OBVIOUS
  <2> HIDE DEF Good
  <2>3. QED
    BY <1>1, <2>1, <2>2, EveryNumber
<1>5. CASE Len(h) = 0
  <2>1. h = << >> /\ FlattenSeq(h) = << >>
    BY <1>5 DEF FlattenSeq
  <2>2. FlattenSeq(l) = p
    BY <1>1, <1>2, <1>5
  <2>3. QED
    BY <2>1, <2>2 DEF l
<1>6. CASE Len(h) # 0
  <2>0. Len(h) \in 0 .. Len(h) /\ Len(h) \in 1 .. Len(h) /\ Len(h) + 1 \in 1 .. (Len(h) + 1) /\ (Len(h) + 1) - 1 = Len(h)
    BY <1>1, <1>6
  <2>1. f[Len(h)] = FlattenSeq(h)
    BY <1>3, <1>4, <1>6, <2>0
  <2>2. f[Len(h) + 1] = f[Len(h)] \o p
    <3>1. f[Len(h) + 1] = IF Len(h) + 1 = 1 THEN l[Len(h) + 1] ELSE f[(Len(h) + 1) - 1] \o l[Len(h) + 1]
      BY <1>2, <2>0
    <3>2. Len(h) + 1 # 1
      BY <1>1, <1>6
    <3>3. QED
      BY <1>1, <2>0, <3>1, <3>2
  <2>3. QED
    BY <1>2, <2>1, <2>2 DEF l
<1>7. QED
  BY <1>5, <1>6

-----------------------------------------------------------------------------
\* The words of a candidate's name and of what it is about.
Words == Params \cup {"bv_goal", "convergence", "refine", "switch", "field_plate", "drift_doping", "lifetime"}
Targets == {"field_plate", "drift_doping", "lifetime"}

PatchCandidate ==
    [name : Seq(Words), about : SUBSET Words, score : Int, risk : {"low", "medium", "high"}, patches : Seq(DeckPatch),
     sound : BOOLEAN, action : {"plan", "continue", "switch"}]

\* A candidate for a deck: the patches are of that deck, and if it passed the
\* validation each changes something.
Offered(deck, c) ==
    c \in PatchCandidate /\ Fits(deck, c.patches) /\ (c.sound => verified(deck, c.patches))

LEMMA ValidatedIsOffered ==
  ASSUME NEW deck, NEW c \in PatchCandidate, Fits(deck, c.patches)
  PROVE  LET v == Validated(deck, c)
         IN  Offered(deck, v) /\ v.patches = c.patches /\ v.action = c.action
<1>1. CASE verified(deck, c.patches)
  BY <1>1 DEF Validated, Offered
<1>2. CASE ~verified(deck, c.patches)
  <2> DEFINE v == [c EXCEPT !.risk = "high", !.sound = FALSE]
  <2>1. v \in PatchCandidate /\ v.patches = c.patches /\ v.action = c.action /\ ~v.sound
    BY DEF PatchCandidate
  <2>2. Validated(deck, c) = v
    BY <1>2 DEF Validated
  <2> HIDE DEF v
  <2>3. QED
    BY <2>1, <2>2 DEF Offered
<1>3. QED
  BY <1>1, <1>2

LEMMA CandidateType ==
  ASSUME NEW class \in Words, NEW points \in Int, NEW risk \in {"low", "medium", "high"}, NEW patches \in Seq(DeckPatch),
         NEW c, c = CandidateOf(class, points, risk, patches)
  PROVE  c \in PatchCandidate /\ c.patches = patches /\ c.action = "plan"
<1>1. <<class>> \in Seq(Words)
  OBVIOUS
<1>2. {class} \in SUBSET Words
  OBVIOUS
<1>3. QED
  BY <1>1, <1>2 DEF CandidateOf, PatchCandidate

\* One patch of a deck.
LEMMA OneFits ==
  ASSUME NEW deck, DeckType(deck), NEW p \in DOMAIN deck, NEW value \in Int
  PROVE  Fits(deck, <<PatchOf(deck, p, value)>>)
<1>1. PatchOf(deck, p, value) \in DeckPatch
  BY DEF DeckType, PatchOf, DeckPatch
<1>2. QED
  BY <1>1 DEF Fits, PatchOf

LEMMA TimesType ==
  ASSUME NEW a \in Int, NEW b \in Nat \ {0}, NEW value \in Int
  PROVE  Times(<<a, b>>, value) \in Int
<1>1. Times(<<a, b>>, value) = (a * value) \div b
  BY DEF Times
<1>2. a * value \in Int
  OBVIOUS
<1>3. QED
  BY <1>1, <1>2

Moves == [factor : Nat \X (Nat \ {0}), risk : {"low", "medium", "high"}, score : Int]

LEMMA MoveType ==
  ASSUME NEW class
  PROVE  variable_mutation_direction(class) \subseteq Moves
<1>1. /\ <<2, 1>> \in Nat \X (Nat \ {0}) /\ <<3, 2>> \in Nat \X (Nat \ {0}) /\ <<1, 2>> \in Nat \X (Nat \ {0})
      /\ <<23, 20>> \in Nat \X (Nat \ {0}) /\ <<4, 5>> \in Nat \X (Nat \ {0}) /\ <<11, 10>> \in Nat \X (Nat \ {0})
      /\ <<9, 10>> \in Nat \X (Nat \ {0}) /\ <<21, 20>> \in Nat \X (Nat \ {0}) /\ <<6, 5>> \in Nat \X (Nat \ {0})
  OBVIOUS
<1>2. \A factor \in Nat \X (Nat \ {0}), risk \in {"low", "medium", "high"}, points \in Int :
         {[factor |-> factor, risk |-> risk, score |-> points]} \subseteq Moves
  BY DEF Moves
<1>3. CASE class = "lifetime"
  BY <1>1, <1>2, <1>3 DEF variable_mutation_direction
<1>4. CASE class = "region_specific_lifetime"
  BY <1>1, <1>2, <1>4 DEF variable_mutation_direction
<1>5. CASE class = "trap_density"
  BY <1>1, <1>2, <1>5 DEF variable_mutation_direction
<1>6. CASE class = "drift_doping"
  BY <1>1, <1>2, <1>6 DEF variable_mutation_direction
<1>7. CASE class = "field_plate"
  BY <1>1, <1>2, <1>7 DEF variable_mutation_direction
<1>8. CASE class = "guard_ring"
  BY <1>1, <1>2, <1>8 DEF variable_mutation_direction
<1>9. CASE class = "oxide_thickness"
  BY <1>1, <1>2, <1>9 DEF variable_mutation_direction
<1>10. CASE class = "implant_dose"
  BY <1>1, <1>2, <1>10 DEF variable_mutation_direction
<1>11. CASE class = "junction_depth"
  BY <1>1, <1>2, <1>11 DEF variable_mutation_direction
<1>12. CASE class = "trench_corner_radius"
  BY <1>1, <1>2, <1>12 DEF variable_mutation_direction
<1>13. CASE class \notin {"lifetime", "region_specific_lifetime", "trap_density", "drift_doping", "field_plate", "guard_ring", "oxide_thickness", "implant_dose", "junction_depth", "trench_corner_radius"}
  BY <1>13 DEF variable_mutation_direction
<1>14. QED
  BY <1>3, <1>4, <1>5, <1>6, <1>7, <1>8, <1>9, <1>10, <1>11, <1>12, <1>13

LEMMA VariablesFit ==
  ASSUME NEW deck, DeckType(deck), NEW c \in variable_candidates(deck)
  PROVE  c \in PatchCandidate /\ Fits(deck, c.patches) /\ c.action = "plan"
<1>0. PICK class \in DOMAIN deck : \E d \in variable_mutation_direction(class) :
         c = CandidateOf(class, d.score, d.risk, <<PatchOf(deck, class, Times(d.factor, deck[class]))>>)
  BY DEF variable_candidates
<1>1. PICK d \in variable_mutation_direction(class) :
         c = CandidateOf(class, d.score, d.risk, <<PatchOf(deck, class, Times(d.factor, deck[class]))>>)
  BY <1>0
<1>2. d \in Moves /\ class \in Words /\ deck[class] \in Int
  BY MoveType DEF DeckType, Words
<1>3. d.score \in Int /\ d.risk \in {"low", "medium", "high"} /\ d.factor \in Nat \X (Nat \ {0})
  BY <1>2 DEF Moves
<1>4. d.factor = <<d.factor[1], d.factor[2]>> /\ d.factor[1] \in Nat /\ d.factor[2] \in Nat \ {0}
  BY <1>3
<1>5. Times(d.factor, deck[class]) \in Int
  BY <1>2, <1>4, TimesType DEF Times
<1> DEFINE patches == <<PatchOf(deck, class, Times(d.factor, deck[class]))>>
<1>6. Fits(deck, patches)
  BY <1>5, OneFits
<1>7. patches \in Seq(DeckPatch)
  BY <1>6 DEF Fits
<1> HIDE DEF patches
<1>8. c = CandidateOf(class, d.score, d.risk, patches)
  BY <1>1 DEF patches
<1>9. c \in PatchCandidate /\ c.patches = patches /\ c.action = "plan"
  BY <1>2, <1>3, <1>7, <1>8, CandidateType
<1>10. QED
  BY <1>6, <1>9

LEMMA BiasFits ==
  ASSUME NEW deck, DeckType(deck), NEW c \in bias_candidate(deck)
  PROVE  c \in PatchCandidate /\ Fits(deck, c.patches) /\ c.action = "plan"
<1> DEFINE patches == <<PatchOf(deck, "Voltage", -Target)>>
<1>1. "Voltage" \in DOMAIN deck /\ c = CandidateOf("bv_goal", 860, "medium", patches)
  BY DEF bias_candidate
<1>2. -Target \in Int
  BY PatchLoopAssumption
<1>3. Fits(deck, patches)
  BY <1>1, <1>2, OneFits
<1>4. patches \in Seq(DeckPatch)
  BY <1>3 DEF Fits
<1> HIDE DEF patches
<1>5. c \in PatchCandidate /\ c.patches = patches /\ c.action = "plan"
  <2>1. "bv_goal" \in Words /\ 860 \in Int /\ "medium" \in {"low", "medium", "high"}
    BY DEF Words
  <2>2. QED
    BY <1>1, <1>4, <2>1, CandidateType
<1>6. QED
  BY <1>3, <1>5

\* Patches of different parameters, one after another.
LEMMA JoinedFit ==
  ASSUME NEW deck, NEW s, NEW t, Fits(deck, s), Fits(deck, t), Parameters(s) \cap Parameters(t) = {}
  PROVE  Fits(deck, s \o t) /\ Parameters(s \o t) \subseteq Parameters(s) \cup Parameters(t)
<1>1. s \in Seq(DeckPatch) /\ t \in Seq(DeckPatch)
  BY DEF Fits
<1> DEFINE both == s \o t
<1>2. /\ both \in Seq(DeckPatch) /\ Len(s) \in Nat /\ Len(t) \in Nat /\ DOMAIN s = 1 .. Len(s) /\ DOMAIN t = 1 .. Len(t)
      /\ DOMAIN both = 1 .. (Len(s) + Len(t))
      /\ \A n \in DOMAIN both : both[n] = IF n <= Len(s) THEN s[n] ELSE t[n - Len(s)]
  BY <1>1
<1> HIDE DEF both
<1>3. \A n \in DOMAIN both : \/ n \in DOMAIN s /\ both[n] = s[n]
                             \/ n - Len(s) \in DOMAIN t /\ both[n] = t[n - Len(s)] /\ n \notin DOMAIN s
  BY <1>2
<1>4. \A n \in DOMAIN s : s[n].parameter \in Parameters(s)
  BY DEF Parameters
<1>5. \A n \in DOMAIN t : t[n].parameter \in Parameters(t)
  BY DEF Parameters
<1>6. \A n \in DOMAIN both : both[n].parameter \in DOMAIN deck /\ both[n].old = deck[both[n].parameter]
  BY <1>3 DEF Fits
<1>7. \A j, k \in DOMAIN both : both[j].parameter = both[k].parameter => j = k
  <2> SUFFICES ASSUME NEW j \in DOMAIN both, NEW k \in DOMAIN both, both[j].parameter = both[k].parameter PROVE j = k
    OBVIOUS
  <2>1. CASE j \in DOMAIN s /\ k \in DOMAIN s
    BY <1>3, <2>1, <1>2 DEF Fits
  <2>2. CASE j \notin DOMAIN s /\ k \notin DOMAIN s
    <3>1. j - Len(s) = k - Len(s)
      BY <1>3, <2>2 DEF Fits
    <3>2. QED
      BY <1>2, <3>1
  <2>3. CASE \/ j \in DOMAIN s /\ k \notin DOMAIN s
             \/ j \notin DOMAIN s /\ k \in DOMAIN s
    BY <1>3, <1>4, <1>5, <2>3, <1>2
  <2>4. QED
    BY <2>1, <2>2, <2>3
<1>8. Parameters(both) \subseteq Parameters(s) \cup Parameters(t)
  <2> SUFFICES ASSUME NEW n \in DOMAIN both PROVE both[n].parameter \in Parameters(s) \cup Parameters(t)
    BY DEF Parameters
  <2>1. QED
    BY <1>3, <1>4, <1>5
<1>9. QED
  BY <1>2, <1>6, <1>7, <1>8 DEF Fits, both

LEMMA ExistingFits ==
  ASSUME NEW deck, DeckType(deck), NEW p, NEW value, p \in DOMAIN deck => value \in Int
  PROVE  Fits(deck, Existing(deck, p, value)) /\ Parameters(Existing(deck, p, value)) \subseteq {p}
<1>1. CASE p \in DOMAIN deck
  BY <1>1, OneFits DEF Existing, Parameters, PatchOf
<1>2. CASE p \notin DOMAIN deck
  BY <1>2 DEF Existing, Parameters, Fits
<1>3. QED
  BY <1>1, <1>2

LEMMA MaxType ==
  ASSUME NEW a \in Int, NEW b \in Int
  PROVE  Max({a, b}) \in Int
<1>1. \E x \in {a, b} : \A y \in {a, b} : x >= y
  <2>1. CASE a >= b
    BY <2>1
  <2>2. CASE b >= a
    BY <2>2
  <2>3. QED
    BY <2>1, <2>2
<1>2. Max({a, b}) \in {a, b}
  BY <1>1 DEF Max
<1>3. QED
  BY <1>2

LEMMA ConvergenceFits ==
  ASSUME NEW deck, DeckType(deck)
  PROVE  Fits(deck, ConvergencePatches(deck))
<1> DEFINE a == Max({Times(<<3, 2>>, deck["Iterations"]), deck["Iterations"] + 10})
           b == IF deck["NotDamped"] = 0 THEN 100 ELSE Max({Times(<<3, 2>>, deck["NotDamped"]), deck["NotDamped"] + 25})
           c == Times(<<1, 10>>, deck["InitialStep"])
           d == Times(<<1, 2>>, deck["MaxStep"])
           s == Existing(deck, "Iterations", a)
           t == Existing(deck, "NotDamped", b)
           u == Existing(deck, "InitialStep", c)
           v == Existing(deck, "MaxStep", d)
<1>1. \A p \in DOMAIN deck : deck[p] \in Int
  BY DEF DeckType
<1>2. "Iterations" \in DOMAIN deck => a \in Int
  BY <1>1, TimesType, MaxType
<1>3. "NotDamped" \in DOMAIN deck => b \in Int
  BY <1>1, TimesType, MaxType
<1>4. "InitialStep" \in DOMAIN deck => c \in Int
  BY <1>1, TimesType
<1>5. "MaxStep" \in DOMAIN deck => d \in Int
  BY <1>1, TimesType
<1> HIDE DEF a, b, c, d
<1>6. /\ Fits(deck, s) /\ Parameters(s) \subseteq {"Iterations"}
      /\ Fits(deck, t) /\ Parameters(t) \subseteq {"NotDamped"}
      /\ Fits(deck, u) /\ Parameters(u) \subseteq {"InitialStep"}
      /\ Fits(deck, v) /\ Parameters(v) \subseteq {"MaxStep"}
  BY <1>2, <1>3, <1>4, <1>5, ExistingFits
<1>7. ConvergencePatches(deck) = ((s \o t) \o u) \o v
  BY DEF ConvergencePatches, a, b, c, d
<1> HIDE DEF s, t, u, v
<1>8. Fits(deck, s \o t) /\ Parameters(s \o t) \subseteq {"Iterations", "NotDamped"}
  <2>1. Parameters(s) \cap Parameters(t) = {}
    BY <1>6
  <2>2. Fits(deck, s \o t) /\ Parameters(s \o t) \subseteq Parameters(s) \cup Parameters(t)
    BY <1>6, <2>1, JoinedFit
  <2>3. QED
    BY <1>6, <2>2
<1> DEFINE st == s \o t
<1> HIDE DEF st
<1>9. Fits(deck, st \o u) /\ Parameters(st \o u) \subseteq {"Iterations", "NotDamped", "InitialStep"}
  <2>0. Fits(deck, st) /\ Parameters(st) \subseteq {"Iterations", "NotDamped"}
    BY <1>8 DEF st
  <2>1. Parameters(st) \cap Parameters(u) = {}
    BY <1>6, <2>0
  <2>2. Fits(deck, st \o u) /\ Parameters(st \o u) \subseteq Parameters(st) \cup Parameters(u)
    BY <1>6, <2>0, <2>1, JoinedFit
  <2>3. QED
    BY <1>6, <2>0, <2>2
<1> DEFINE stu == st \o u
<1> HIDE DEF stu
<1>10. Fits(deck, stu \o v)
  <2>0. Fits(deck, stu) /\ Parameters(stu) \subseteq {"Iterations", "NotDamped", "InitialStep"}
    BY <1>9 DEF stu
  <2>1. Parameters(stu) \cap Parameters(v) = {}
    BY <1>6, <2>0
  <2>2. QED
    BY <1>6, <2>0, <2>1, JoinedFit
<1>11. QED
  BY <1>7, <1>10 DEF st, stu

LEMMA StepControlFits ==
  ASSUME NEW deck, DeckType(deck), NEW stuck, NEW c \in step_control_candidate(deck, stuck)
  PROVE  c \in PatchCandidate /\ Fits(deck, c.patches) /\ c.action = "plan"
<1> DEFINE points == IF stuck \/ Tagged("convergence") THEN 880 ELSE 660
           patches == ConvergencePatches(deck)
<1>1. c = CandidateOf("convergence", points, "low", patches)
  BY DEF step_control_candidate
<1>2. points \in Int
  OBVIOUS
<1>3. Fits(deck, patches) /\ patches \in Seq(DeckPatch)
  BY ConvergenceFits DEF Fits
<1> HIDE DEF points, patches
<1>4. c \in PatchCandidate /\ c.patches = patches /\ c.action = "plan"
  <2>1. "convergence" \in Words /\ "low" \in {"low", "medium", "high"}
    BY DEF Words
  <2>2. QED
    BY <1>1, <1>2, <1>3, <2>1, CandidateType
<1>5. QED
  BY <1>3, <1>4

\* Whatever the planner proposes for the deck of a run.
LEMMA BuiltAreOffered ==
  ASSUME NEW run, DeckType(run.deck), NEW c \in build_candidates(run)
  PROVE  Offered(run.deck, c) /\ c.action = "plan"
<1>1. PICK d \in step_control_candidate(run.deck, run.quality = "failed")
                   \cup bias_candidate(run.deck) \cup variable_candidates(run.deck) : c = Validated(run.deck, d)
  BY DEF build_candidates
<1>2. d \in PatchCandidate /\ Fits(run.deck, d.patches) /\ d.action = "plan"
  BY <1>1, StepControlFits, BiasFits, VariablesFit
<1>3. QED
  BY <1>1, <1>2, ValidatedIsOffered

-----------------------------------------------------------------------------
LEMMA HalfIsBetween ==
  ASSUME NEW x \in Int
  PROVE  /\ Halved(x) \in Int /\ 2 * Magnitude_(Halved(x)) <= Magnitude_(x) + 1
         /\ (x > 0) <=> (Halved(x) > 0)
         /\ (x < 0) <=> (Halved(x) < 0)
  BY DEF Halved, Magnitude_

\* Half a step further on, and no positive number becomes negative or zero.
LEMMA RefinedShrinks ==
  ASSUME NEW old \in Int, NEW new \in Int, old # 0, old # new
  PROVE  LET next == refined_numeric_text(old, new)
         IN  /\ next \in Int
             /\ \/ 2 * Magnitude_(next - new) <= Magnitude_(new - old) + 1
                \/ 2 * Magnitude_(next) <= Magnitude_(new) + 1
             /\ (new - old > 0) <=> (next - new > 0)
             /\ new > 0 => next > 0
<1> DEFINE step == new - old
           next == new + Halved(step)
<1>1. step \in Int /\ step # 0
  OBVIOUS
<1>2. /\ Halved(step) \in Int /\ 2 * Magnitude_(Halved(step)) <= Magnitude_(step) + 1
      /\ (step > 0) <=> (Halved(step) > 0)
      /\ (step < 0) <=> (Halved(step) < 0)
  BY <1>1, HalfIsBetween
<1>3. CASE old > 0 /\ new > 0 /\ next <= 0
  <2>1. refined_numeric_text(old, new) = Halved(new)
    BY <1>3 DEF refined_numeric_text
  <2>2. Halved(new) \in Int /\ 2 * Magnitude_(Halved(new)) <= Magnitude_(new) + 1 /\ Halved(new) > 0
    BY <1>3, HalfIsBetween
  <2>3. step < 0
    BY <1>1, <1>2, <1>3
  <2>4. Halved(new) <= new
    BY <1>3, <2>2 DEF Magnitude_
  <2>5. QED
    BY <2>1, <2>2, <2>3, <2>4
<1>4. CASE ~(old > 0 /\ new > 0 /\ next <= 0)
  <2>1. refined_numeric_text(old, new) = next
    BY <1>4 DEF refined_numeric_text
  <2>2. next \in Int /\ next - new = Halved(step)
    BY <1>2
  <2>3. new > 0 => next > 0
    <3>1. CASE old > 0
      BY <1>4, <2>2, <3>1
    <3>2. CASE old < 0
      BY <1>1, <1>2, <3>2
    <3>3. QED
      BY <3>1, <3>2
  <2> HIDE DEF next
  <2>4. QED
    BY <1>2, <2>1, <2>2, <2>3
<1>5. QED
  BY <1>3, <1>4

\* How a candidate goes on in the direction of the patches of a run.
Shrinks(run, c) ==
    LET next == c.patches[1]
    IN  \E k \in DOMAIN run.candidate.patches :
          LET last == run.candidate.patches[k]
              step == last.value - last.old
              further == next.value - next.old
          IN  /\ next.parameter = last.parameter /\ next.old = last.value
              /\ 2 * Magnitude_(further) <= Magnitude_(step) + 1 \/ 2 * Magnitude_(next.value) <= Magnitude_(last.value) + 1
              /\ (step > 0) = (further > 0) /\ (last.value > 0 => next.value > 0)

Disjoint(run, c) == Parameters(c.patches) \cap Parameters(run.candidate.patches) = {}

\* A run a patch was compared for: its deck has the values of its candidate.
Patched_(run) ==
    /\ run.candidate \in PatchCandidate /\ DeckType(run.deck)
    /\ \A k \in DOMAIN run.candidate.patches :
          LET p == run.candidate.patches[k] IN p.parameter \in DOMAIN run.deck /\ run.deck[p.parameter] = p.value

LEMMA FurtherType ==
  ASSUME NEW run, run.candidate \in PatchCandidate, NEW i \in DOMAIN run.candidate.patches,
         NEW value \in Int, value = refined_numeric_text(run.candidate.patches[i].old, run.candidate.patches[i].value),
         NEW patches \in Seq(DeckPatch), patches = <<PatchOf(run.deck, run.candidate.patches[i].parameter, value)>>
  PROVE  Further(run, i) \in PatchCandidate /\ Further(run, i).patches = patches /\ Further(run, i).action = "continue"
<1> DEFINE d == run.candidate
           name == Append(d.name, "refine")
           about == Range(d.name)
           points == 820 - i
<1>1. d \in PatchCandidate /\ d.name \in Seq(Words) /\ i \in Int
  BY DEF PatchCandidate
<1>2. name \in Seq(Words) /\ about \in SUBSET Words /\ points \in Int
  BY <1>1 DEF Words, Range
<1>3. Further(run, i) = [d EXCEPT !.name = name, !.about = about, !.score = points, !.action = "continue", !.patches = patches]
  BY DEF Further
<1> HIDE DEF d, name, about, points
<1>4. QED
  BY <1>1, <1>2, <1>3 DEF PatchCandidate

LEMMA SwitchedType ==
  ASSUME NEW run, run.candidate \in PatchCandidate, NEW c \in PatchCandidate, NEW said \in SUBSET Words
  PROVE  LET m == Switched(run, c, said)
         IN  m \in PatchCandidate /\ m.patches = c.patches /\ m.sound = c.sound /\ m.action = "switch"
<1> DEFINE name == c.name \o <<"switch">> \o run.candidate.name
           about == c.about \cup Range(run.candidate.name) \cup said
<1>1. run.candidate.name \in Seq(Words) /\ c.name \in Seq(Words) /\ c.about \in SUBSET Words
  BY DEF PatchCandidate
<1>2. name \in Seq(Words)
  <2>1. <<"switch">> \in Seq(Words)
    BY DEF Words
  <2>2. c.name \o <<"switch">> \in Seq(Words)
    BY <1>1, <2>1
  <2>3. QED
    BY <1>1, <2>2
<1>3. about \in SUBSET Words
  BY <1>1 DEF Range
<1>4. Switched(run, c, said) = [c EXCEPT !.name = name, !.action = "switch", !.about = about]
  BY DEF Switched
<1> HIDE DEF name, about
<1>5. QED
  BY <1>2, <1>3, <1>4 DEF PatchCandidate

LEMMA ContinuedAreOffered ==
  ASSUME NEW run, Patched_(run), NEW c \in continue_same_direction_candidates(run)
  PROVE  Offered(run.deck, c) /\ c.action = "continue" /\ Shrinks(run, c)
<1> DEFINE d == run.candidate
<1>1. PICK i \in DOMAIN d.patches : /\ d.patches[i].old # 0 /\ d.patches[i].old # d.patches[i].value
                                    /\ c = Validated(run.deck, Further(run, i))
  BY DEF continue_same_direction_candidates
<1>2. d \in PatchCandidate /\ DeckType(run.deck)
  BY DEF Patched_
<1>3. d.patches \in Seq(DeckPatch)
  BY <1>2 DEF PatchCandidate
<1> DEFINE last == d.patches[i]
<1>4. last \in DeckPatch /\ last.parameter \in DOMAIN run.deck /\ run.deck[last.parameter] = last.value
  BY <1>3 DEF Patched_
<1>5. last.old \in Int /\ last.value \in Int
  BY <1>4 DEF DeckPatch
<1> HIDE DEF last
<1> DEFINE next == refined_numeric_text(last.old, last.value)
<1>6. /\ next \in Int
      /\ \/ 2 * Magnitude_(next - last.value) <= Magnitude_(last.value - last.old) + 1
         \/ 2 * Magnitude_(next) <= Magnitude_(last.value) + 1
      /\ (last.value - last.old > 0) <=> (next - last.value > 0)
      /\ last.value > 0 => next > 0
  BY <1>1, <1>5, RefinedShrinks DEF last
<1>7. next = refined_numeric_text(run.candidate.patches[i].old, run.candidate.patches[i].value)
  BY DEF last
<1> HIDE DEF next
<1> DEFINE patches == <<PatchOf(run.deck, last.parameter, next)>>
<1>8. Fits(run.deck, patches)
  BY <1>2, <1>4, <1>6, OneFits
<1>9. patches[1].parameter = last.parameter /\ patches[1].old = last.value /\ patches[1].value = next
  BY <1>4 DEF PatchOf
<1>10. patches \in Seq(DeckPatch)
  BY <1>8 DEF Fits
<1>11. patches = <<PatchOf(run.deck, run.candidate.patches[i].parameter, next)>>
  BY DEF last
<1> HIDE DEF patches
<1>12. Further(run, i) \in PatchCandidate /\ Further(run, i).patches = patches /\ Further(run, i).action = "continue"
  BY <1>1, <1>2, <1>6, <1>7, <1>10, <1>11, FurtherType
<1>13. Offered(run.deck, c) /\ c.patches = patches /\ c.action = "continue"
  BY <1>1, <1>8, <1>12, ValidatedIsOffered
<1>14. Shrinks(run, c)
  <2>1. (last.value - last.old > 0) = (next - last.value > 0)
    BY <1>6
  <2>2. i \in DOMAIN run.candidate.patches /\ last = run.candidate.patches[i]
    BY <1>1 DEF last
  <2>3. QED
    BY <1>6, <1>9, <1>13, <2>1, <2>2 DEF Shrinks
<1>15. QED
  BY <1>13, <1>14

LEMMA SwitchedAreOffered ==
  ASSUME NEW run, Patched_(run), run.target \in Words, NEW c \in switch_target_candidates(run)
  PROVE  Offered(run.deck, c) /\ c.action = "switch" /\ Disjoint(run, c)
<1>1. PICK d \in OtherTargets(run, build_candidates(run)), said \in SUBSET Words : c = Switched(run, d, said)
  BY DEF switch_target_candidates
<1>2. Offered(run.deck, d) /\ Parameters(d.patches) \cap Parameters(run.candidate.patches) = {}
  BY <1>1, BuiltAreOffered DEF OtherTargets, Patched_
<1>3. d \in PatchCandidate /\ run.candidate \in PatchCandidate
  BY <1>2 DEF Offered, Patched_
<1>4. c \in PatchCandidate /\ c.patches = d.patches /\ c.sound = d.sound /\ c.action = "switch"
  BY <1>1, <1>3, SwitchedType
<1>5. QED
  BY <1>2, <1>4 DEF Offered, Disjoint

\* What the loop may run after a run: a verified candidate of its deck, in the
\* way the decision on that run allows.
Follows(run, c) ==
    /\ c \in PatchCandidate /\ Fits(run.deck, c.patches) /\ verified(run.deck, c.patches)
    /\ c.risk = "high" => bold
    /\ \/ c.action = "plan" /\ run.decision = "none"
       \/ c.action = "continue" /\ run.decision = "continue_refine" /\ Shrinks(run, c)
       \/ c.action = "switch" /\ run.decision \in {"switch_target", "reject_candidate"} /\ Disjoint(run, c)

LEMMA ChosenAreEligible ==
  ASSUME NEW cs
  PROVE  select_patch(cs) \subseteq eligible_candidates(cs) /\ choose_candidate_with_agent(cs) \subseteq eligible_candidates(cs)
  BY DEF select_patch, choose_candidate_with_agent

LEMMA PlannedFollow ==
  ASSUME NEW run, DeckType(run.deck), run.decision = "none", NEW c \in eligible_candidates(build_candidates(run))
  PROVE  Follows(run, c)
<1>1. c \in build_candidates(run) /\ c.sound /\ (c.risk = "high" => bold)
  BY DEF eligible_candidates
<1>2. Offered(run.deck, c) /\ c.action = "plan"
  BY <1>1, BuiltAreOffered
<1>3. QED
  BY <1>1, <1>2 DEF Follows, Offered

LEMMA RefinedFollow ==
  ASSUME NEW run, Patched_(run), run.target \in Words, NEW c \in eligible_candidates(refinements(run))
  PROVE  Follows(run, c)
<1>1. c \in refinements(run) /\ c.sound /\ (c.risk = "high" => bold)
  BY DEF eligible_candidates
<1>2. CASE run.decision = "continue_refine"
  <2>1. c \in continue_same_direction_candidates(run)
    BY <1>1, <1>2 DEF refinements
  <2>2. Offered(run.deck, c) /\ c.action = "continue" /\ Shrinks(run, c)
    BY <2>1, ContinuedAreOffered
  <2>3. QED
    BY <1>1, <1>2, <2>2 DEF Follows, Offered
<1>3. CASE run.decision \in {"switch_target", "reject_candidate"}
  <2>1. c \in switch_target_candidates(run)
    BY <1>1, <1>3 DEF refinements
  <2>2. Offered(run.deck, c) /\ c.action = "switch" /\ Disjoint(run, c)
    BY <2>1, SwitchedAreOffered
  <2>3. QED
    BY <1>1, <1>3, <2>2 DEF Follows, Offered
<1>4. QED
  BY <1>1, <1>2, <1>3 DEF refinements

-----------------------------------------------------------------------------
\* No loss beyond tolerance but in the metric the patch is about.
TradeoffFree(name, base, new) ==
    LET lost == {m \in Compared(base, new) \cap Watched :
                    Better(m, new[m], base[m]) /\ 100 * Distance(base[m], new[m]) > tradeoff_tolerance(m) * base[m]}
    IN  lost \subseteq {infer_primary_metric(name, base, new)}

Decisions == {"none", "reject_candidate", "blocked_for_pareto_review", "continue_refine", "insufficient_evidence", "switch_target"}

LEMMA DecisionFacts ==
  ASSUME NEW name, NEW base, NEW new, NEW d, d = decision_from_evidence(name, base, new)
  PROVE  /\ d \in Decisions \ {"none"}
         /\ d \in {"continue_refine", "switch_target"} => TradeoffFree(name, base.reading, new.reading)
<1> DEFINE primary == infer_primary_metric(name, base.reading, new.reading)
           lost == infer_tradeoff_violations(base.reading, new.reading, primary)
<1>1. d \in Decisions \ {"none"}
  BY DEF decision_from_evidence, Decisions
<1>2. d \in {"continue_refine", "switch_target"} => lost = {}
  BY DEF decision_from_evidence
<1>3. lost = {} => TradeoffFree(name, base.reading, new.reading)
  BY DEF infer_tradeoff_violations, TradeoffFree
<1>4. QED
  BY <1>1, <1>2, <1>3

LEMMA TargetType ==
  ASSUME NEW name, NEW base, NEW new
  PROVE  recommended_target(name, base, new) \in Targets
  BY DEF recommended_target, Targets

-----------------------------------------------------------------------------
DeckSpace == UNION {[D -> Int] : D \in SUBSET Params}
Qualities == {"passed", "suspicious", "failed"}
Run == [candidate : PatchCandidate \cup {NoCandidate}, deck : DeckSpace, reading : [Metrics -> Nat], quality : Qualities,
        decision : Decisions, target : Targets \cup {"none"}, baseline : Nat]

LEMMA DeckSpaceIsDecks ==
  ASSUME NEW deck
  PROVE  deck \in DeckSpace <=> DeckType(deck)
  BY DEF DeckSpace, DeckType

\* What a run has to do with the run before it.
Succeeds(before, run) ==
    /\ Follows(before, run.candidate)
    /\ run.deck = Applied(before.deck, run.candidate.patches)
    /\ run.decision # "none" /\ run.target \in Targets
    /\ run.decision \in {"continue_refine", "switch_target"} =>
          TradeoffFree(run.candidate.name, before.reading, run.reading)

RunsOK ==
    /\ runs \in Seq(Run) /\ Len(runs) \in Nat \ {0} /\ runs[1].decision = "none"
    /\ \A i \in 1 .. Len(runs) : runs[i].baseline = i - 1
    /\ \A i \in 2 .. Len(runs) : \A a, b : a = runs[i - 1] /\ b = runs[i] => Succeeds(a, b)

HistoryOK ==
    /\ history \in Seq(Seq(DeckPatch)) /\ FlattenSeq(history) \in Seq(DeckPatch) /\ Len(runs) = Len(history) + 1
    /\ Latest.deck = Applied(runs[1].deck, FlattenSeq(history))

PendingOK == \A c \in pending : \A run : run = Latest => Follows(run, c)

\* What every step of the loop keeps: the runs are a chain in which each follows
\* the one before it, the deck of the latest is the first one with every patch
\* of the history, and what is pending may follow it.
LoopInductive == LoopTypeOK /\ RunsOK /\ HistoryOK /\ PendingOK

LEMMA FollowsStays ==
  ASSUME UNCHANGED <<tags, bold>>, NEW a, NEW c
  PROVE  Follows(a, c)' <=> Follows(a, c)
  BY DEF Follows

LEMMA TradeoffFreeStays ==
  ASSUME UNCHANGED <<tags, bold>>, NEW name, NEW base, NEW new
  PROVE  TradeoffFree(name, base, new)' <=> TradeoffFree(name, base, new)
  BY DEF TradeoffFree, infer_primary_metric, Tagged

LEMMA SucceedsStays ==
  ASSUME UNCHANGED <<tags, bold>>, NEW a, NEW b
  PROVE  Succeeds(a, b)' <=> Succeeds(a, b)
<1>1. \A c : Follows(a, c)' <=> Follows(a, c)
  BY FollowsStays
<1>2. \A name, base, new : TradeoffFree(name, base, new)' <=> TradeoffFree(name, base, new)
  BY TradeoffFreeStays
<1>3. QED
  BY <1>1, <1>2 DEF Succeeds

LEMMA AppliedNone ==
  ASSUME NEW deck
  PROVE  Applied(deck, << >>) = deck
<1>1. Len(<< >>) = 0
  OBVIOUS
<1> DEFINE none == << >>
<1>2. Len(none) \in Nat /\ Len(none) = 0
  OBVIOUS
<1> HIDE DEF none
<1>3. Applied(deck, none) = After(deck, none)[Len(none)] /\ After(deck, none)[0] = deck
  BY <1>2, AfterFacts
<1>4. QED
  BY <1>2, <1>3 DEF none

LEMMA UnpatchedType ==
  ASSUME NEW deck \in Decks, NEW b \in Baselines
  PROVE  LET run == Unpatched(deck, b)
         IN  run \in Run /\ run.decision = "none" /\ run.baseline = 0 /\ run.deck = deck
<1>1. deck \in DeckSpace
  <2>1. DeckType(deck)
    BY PatchLoopAssumption DEF DeckType, Params
  <2>2. QED
    BY <2>1, DeckSpaceIsDecks
<1>2. b.reading \in [Metrics -> Nat] /\ b.quality \in Qualities
  BY PatchLoopAssumption DEF Qualities
<1>3. "none" \in Decisions /\ NoCandidate \in PatchCandidate \cup {NoCandidate} /\ "none" \in Targets \cup {"none"}
  BY DEF Decisions
<1>4. QED
  BY <1>1, <1>2, <1>3 DEF Unpatched, Run

LEMMA LoopStarts ==
  ASSUME LoopInit
  PROVE  LoopInductive
<1>1. PICK deck \in Decks, b \in Baselines : runs = <<Unpatched(deck, b)>>
  BY DEF LoopInit
<1> DEFINE first == Unpatched(deck, b)
<1>2. first \in Run /\ first.decision = "none" /\ first.baseline = 0
  BY UnpatchedType
<1>3. runs = <<first>>
  BY <1>1
<1> HIDE DEF first
<1>4. Len(runs) = 1 /\ runs[1] = first /\ Latest = first /\ runs \in Seq(Run)
  BY <1>2, <1>3 DEF Latest
<1>5. RunsOK
  <2>1. \A i \in 1 .. Len(runs) : i = 1
    BY <1>4
  <2>2. \A i \in 2 .. Len(runs) : FALSE
    BY <1>4
  <2>3. QED
    BY <1>2, <1>4, <2>1, <2>2 DEF RunsOK
<1>6. HistoryOK
  <2>1. history = << >> /\ FlattenSeq(history) = << >> /\ Len(history) = 0
    BY DEF LoopInit, FlattenSeq
  <2>2. history \in Seq(Seq(DeckPatch)) /\ FlattenSeq(history) \in Seq(DeckPatch)
    <3>1. \A S : << >> \in Seq(S)
      OBVIOUS
    <3>2. << >> \in Seq(Seq(DeckPatch)) /\ << >> \in Seq(DeckPatch)
      BY <3>1, Zenon
    <3>3. QED
      BY <2>1, <3>2, Zenon
  <2>3. Applied(runs[1].deck, << >>) = runs[1].deck
    BY AppliedNone
  <2>4. QED
    BY <1>4, <2>1, <2>2, <2>3 DEF HistoryOK
<1>7. pending = {} /\ Cardinality(pending) = 0
  BY FS_EmptySet DEF LoopInit
<1>8. LoopTypeOK
  <2>1. Len(history) = 0 /\ rounds = 0 /\ planned = 0 /\ planStatus = "none"
    BY DEF LoopInit
  <2>2. QED
    BY <1>4, <1>7, <2>1, PatchLoopAssumption DEF LoopTypeOK
<1>9. QED
  BY <1>5, <1>6, <1>7, <1>8 DEF LoopInductive, PendingOK

\* What RunsOK says of the latest run.
LEMMA LatestFacts ==
  ASSUME RunsOK
  PROVE  /\ Len(runs) \in Nat \ {0} /\ Latest \in Run /\ DeckType(Latest.deck)
         /\ Latest.decision # "none" => /\ Len(runs) \in 2 .. Len(runs) /\ Latest.baseline = Len(runs) - 1
                                        /\ Patched_(Latest) /\ Latest.target \in Words
<1>1. Len(runs) \in Nat \ {0} /\ Len(runs) \in 1 .. Len(runs) /\ runs \in Seq(Run)
  BY DEF RunsOK
<1>2. Latest \in Run
  BY <1>1 DEF Latest
<1>3. DeckType(Latest.deck)
  BY <1>2, DeckSpaceIsDecks DEF Run
<1>4. ASSUME Latest.decision # "none" PROVE /\ Len(runs) \in 2 .. Len(runs) /\ Latest.baseline = Len(runs) - 1
                                            /\ Patched_(Latest) /\ Latest.target \in Words
  <2>1. Len(runs) # 1 /\ Len(runs) \in 2 .. Len(runs)
    BY <1>1, <1>4 DEF RunsOK, Latest
  <2>2. Latest.baseline = Len(runs) - 1
    BY <1>1 DEF RunsOK, Latest
  <2> DEFINE before == runs[Len(runs) - 1]
             c == Latest.candidate
  <2>3. Succeeds(before, Latest)
    BY <2>1 DEF RunsOK, Latest
  <2>4. before \in Run
    BY <1>1, <2>1
  <2>5. DeckType(before.deck)
    BY <2>4, DeckSpaceIsDecks DEF Run
  <2> HIDE DEF before
  <2>6. /\ c \in PatchCandidate /\ Fits(before.deck, c.patches) /\ Latest.deck = Applied(before.deck, c.patches)
        /\ Latest.target \in Targets
    BY <2>3 DEF Succeeds, Follows
  <2> HIDE DEF c
  <2>7. /\ DOMAIN Latest.deck = DOMAIN before.deck
        /\ \A k \in DOMAIN c.patches : Latest.deck[c.patches[k].parameter] = c.patches[k].value
    BY <2>5, <2>6, AppliedHas
  <2>8. \A k \in DOMAIN c.patches : c.patches[k].parameter \in DOMAIN Latest.deck
    BY <2>6, <2>7 DEF Fits
  <2>9. Patched_(Latest)
    BY <1>3, <2>6, <2>7, <2>8 DEF Patched_, c
  <2>10. QED
    BY <2>1, <2>2, <2>6, <2>9 DEF Targets, Words
<1>5. QED
  BY <1>1, <1>2, <1>3, <1>4

\* The steps that run nothing.
LEMMA RunsStay ==
  ASSUME RunsOK, HistoryOK, UNCHANGED <<tags, bold, runs, history>>
  PROVE  RunsOK' /\ HistoryOK'
<1>1. \A a, b : Succeeds(a, b)' <=> Succeeds(a, b)
  BY SucceedsStays
<1>2. RunsOK'
  BY <1>1 DEF RunsOK
<1>3. HistoryOK'
  BY DEF HistoryOK, Latest
<1>4. QED
  BY <1>2, <1>3

LEMMA PlanStays ==
  ASSUME LoopInductive, NEW status, NEW choice, Planned(status, choice), DuePlan,
         status \in {"completed", "no_actionable_candidates", "blocked_for_user_confirmation", "failed"},
         Cardinality(choice) <= 1, \A c \in choice : Follows(Latest, c)
  PROVE  LoopInductive'
<1>1. /\ planStatus' = status /\ pending' = choice /\ planned' = Len(runs) /\ rounds' = rounds + 1
      /\ UNCHANGED <<tags, bold, runs, history>> /\ rounds < MaxRounds
  BY DEF Planned, DuePlan
<1>2. RunsOK' /\ HistoryOK'
  BY <1>1, RunsStay DEF LoopInductive
<1>3. LoopTypeOK'
  <2>1. rounds' \in 0 .. MaxRounds
    BY <1>1, PatchLoopAssumption DEF LoopInductive, LoopTypeOK
  <2>2. planned' \in 0 .. Len(runs)
    BY <1>1 DEF LoopInductive, RunsOK
  <2>3. QED
    BY <1>1, <2>1, <2>2 DEF LoopInductive, LoopTypeOK
<1>4. PendingOK'
  <2>1. \A a, c : Follows(a, c)' <=> Follows(a, c)
    BY <1>1, FollowsStays
  <2>2. \A c \in pending' : \A run : run = Latest => Follows(run, c)
    BY <1>1
  <2>3. Latest' = Latest
    BY <1>1 DEF Latest
  <2>4. QED
    BY <2>1, <2>2, <2>3 DEF PendingOK
<1>5. QED
  BY <1>2, <1>3, <1>4 DEF LoopInductive

LEMMA ChosenStay ==
  ASSUME LoopInductive, NEW cs, NEW choices, Chosen(cs, choices), DuePlan, \A c \in choices : Follows(Latest, c)
  PROVE  LoopInductive'
<1>1. ASSUME NEW c \in choices, Planned("completed", {c}) PROVE LoopInductive'
  <2>1. Cardinality({c}) = 1
    BY FS_Singleton
  <2>2. QED
    BY <1>1, <2>1, PlanStays
<1>2. ASSUME Planned(IF cs = {} THEN "no_actionable_candidates" ELSE "blocked_for_user_confirmation", {}) PROVE LoopInductive'
  <2> DEFINE status == IF cs = {} THEN "no_actionable_candidates" ELSE "blocked_for_user_confirmation"
  <2>1. status \in {"completed", "no_actionable_candidates", "blocked_for_user_confirmation", "failed"}
    OBVIOUS
  <2>2. Planned(status, {})
    BY <1>2
  <2> HIDE DEF status
  <2>3. Cardinality({}) = 0
    BY FS_EmptySet
  <2>4. QED
    BY <2>1, <2>2, <2>3, PlanStays
<1>3. QED
  BY <1>1, <1>2 DEF Chosen

LEMMA PlanPatchStays ==
  ASSUME LoopInductive, PlanPatch
  PROVE  LoopInductive'
<1> DEFINE cs == build_candidates(Latest)
           choices == select_patch(cs)
<1>1. DuePlan /\ Latest.decision = "none" /\ Chosen(cs, choices)
  BY DEF PlanPatch
<1>2. DeckType(Latest.deck)
  BY LatestFacts DEF LoopInductive
<1>3. \A c \in choices : Follows(Latest, c)
  BY <1>1, <1>2, ChosenAreEligible, PlannedFollow
<1> HIDE DEF cs, choices
<1>4. QED
  BY <1>1, <1>3, ChosenStay

LEMMA PlanRefinementStays ==
  ASSUME LoopInductive, PlanRefinement
  PROVE  LoopInductive'
<1> DEFINE cs == refinements(Latest)
           choices == choose_candidate_with_agent(cs)
<1>1. /\ DuePlan /\ Refines(Latest.decision)
      /\ Chosen(cs, choices) \/ Planned("failed", {})
  BY DEF PlanRefinement
<1>2. Patched_(Latest) /\ Latest.target \in Words
  BY <1>1, LatestFacts DEF LoopInductive, Refines
<1>3. \A c \in choices : Follows(Latest, c)
  BY <1>2, ChosenAreEligible, RefinedFollow
<1> HIDE DEF cs, choices
<1>4. CASE Chosen(cs, choices)
  BY <1>1, <1>3, <1>4, ChosenStay
<1>5. CASE Planned("failed", {})
  <2>1. Cardinality({}) = 0
    BY FS_EmptySet
  <2>2. QED
    BY <1>1, <1>5, <2>1, PlanStays
<1>6. QED
  BY <1>1, <1>4, <1>5

LEMMA ClashStays ==
  ASSUME LoopInductive, RunClashes
  PROVE  LoopInductive'
<1>1. planStatus' = "clash" /\ UNCHANGED <<tags, bold, runs, pending, history, rounds, planned>>
  BY DEF RunClashes
<1>2. RunsOK' /\ HistoryOK'
  BY <1>1, RunsStay DEF LoopInductive
<1>3. LoopTypeOK'
  BY <1>1 DEF LoopInductive, LoopTypeOK
<1>4. PendingOK'
  <2>1. \A a, c : Follows(a, c)' <=> Follows(a, c)
    BY <1>1, FollowsStays
  <2>2. Latest' = Latest
    BY <1>1 DEF Latest
  <2>3. QED
    BY <1>1, <2>1, <2>2 DEF LoopInductive, PendingOK
<1>5. QED
  BY <1>2, <1>3, <1>4 DEF LoopInductive

\* A run of a candidate that follows the latest one.
LEMMA ResultSucceeds ==
  ASSUME RunsOK, NEW before, before = Latest, NEW c, Follows(before, c), NEW outcome \in Outcomes_,
         NEW deck, deck = Applied(before.deck, c.patches),
         NEW made, made = augment_sentaurus_patch_result(c, deck, outcome)
  PROVE  made \in Run /\ Succeeds(before, made) /\ made.baseline = Len(runs) /\ made.deck = deck
<1> DEFINE decision == decision_from_evidence(c.name, before, outcome)
           target == recommended_target(c.name, before, outcome)
<1>1. made = [candidate |-> c, deck |-> deck, reading |-> outcome.reading, quality |-> outcome.quality,
                decision |-> decision, target |-> target, baseline |-> Len(runs)]
  BY DEF augment_sentaurus_patch_result
<1>2. /\ decision \in Decisions \ {"none"}
      /\ decision \in {"continue_refine", "switch_target"} => TradeoffFree(c.name, before.reading, outcome.reading)
  BY DecisionFacts
<1>3. target \in Targets
  BY TargetType
<1> HIDE DEF decision, target
<1>4. DeckType(before.deck) /\ Len(runs) \in Nat
  BY LatestFacts
<1>5. deck \in DeckSpace
  BY <1>4, AppliedHas, DeckSpaceIsDecks DEF Follows
<1>6. outcome.reading \in [Metrics -> Nat] /\ outcome.quality \in Qualities
  BY PatchLoopAssumption DEF Qualities
<1>7. c \in PatchCandidate
  BY DEF Follows
<1>8. made \in Run
  BY <1>1, <1>2, <1>3, <1>4, <1>5, <1>6, <1>7 DEF Run
<1>9. Succeeds(before, made)
  BY <1>1, <1>2, <1>3 DEF Succeeds
<1>10. QED
  BY <1>1, <1>8, <1>9

LEMMA RunPatchStays ==
  ASSUME LoopInductive, RunPatch
  PROVE  LoopInductive'
<1>0. PICK c \in pending, outcome \in Outcomes_ :
         \E made \in {augment_sentaurus_patch_result(c, Applied(runs[1].deck, lineage_patches(c)), outcome)} :
           /\ runs' = Append(runs, made) /\ history' = Append(history, c.patches) /\ pending' = {}
           /\ UNCHANGED <<tags, bold, advised, rounds, planned, planStatus>>
  BY DEF RunPatch
<1>1. PICK made : /\ made = augment_sentaurus_patch_result(c, Applied(runs[1].deck, lineage_patches(c)), outcome)
                    /\ runs' = Append(runs, made) /\ history' = Append(history, c.patches) /\ pending' = {}
                    /\ UNCHANGED <<tags, bold, advised, rounds, planned, planStatus>>
  BY <1>0
<1>2. PICK before : before = Latest
  OBVIOUS
<1>3. Follows(before, c) /\ c.patches \in Seq(DeckPatch)
  BY <1>2 DEF LoopInductive, PendingOK, Follows, Fits
<1>4. /\ runs \in Seq(Run) /\ Len(runs) \in Nat \ {0} /\ history \in Seq(Seq(DeckPatch)) /\ FlattenSeq(history) \in Seq(DeckPatch)
      /\ Len(runs) = Len(history) + 1 /\ before.deck = Applied(runs[1].deck, FlattenSeq(history))
  BY <1>2 DEF LoopInductive, RunsOK, HistoryOK
<1>5. PICK deck : deck = Applied(before.deck, c.patches)
  OBVIOUS
<1>6. Applied(runs[1].deck, lineage_patches(c)) = deck
  BY <1>3, <1>4, <1>5, AppliedJoined DEF lineage_patches
<1>7. made = augment_sentaurus_patch_result(c, deck, outcome)
  BY <1>1, <1>6
<1>8. made \in Run /\ Succeeds(before, made) /\ made.baseline = Len(runs) /\ made.deck = deck
  BY <1>2, <1>3, <1>5, <1>7, ResultSucceeds DEF LoopInductive
<1>9. /\ runs' \in Seq(Run) /\ Len(runs') = Len(runs) + 1 /\ runs'[Len(runs) + 1] = made
      /\ \A i \in 1 .. Len(runs) : runs'[i] = runs[i]
  BY <1>1, <1>4, <1>8
<1>10. RunsOK'
  <2>1. \A a, b : Succeeds(a, b)' <=> Succeeds(a, b)
    BY <1>1, SucceedsStays
  <2>2. runs'[1].decision = "none"
    BY <1>4, <1>9 DEF LoopInductive, RunsOK
  <2>3. ASSUME NEW i \in 1 .. Len(runs') PROVE runs'[i].baseline = i - 1
    <3>1. CASE i = Len(runs) + 1
      <4>1. runs'[i] = made /\ i - 1 = Len(runs)
        BY <1>4, <1>9, <3>1
      <4>2. QED
        BY <1>8, <4>1
    <3>2. CASE i # Len(runs) + 1
      <4>1. i \in 1 .. Len(runs)
        BY <1>4, <1>9, <3>2
      <4>2. QED
        BY <1>9, <4>1 DEF LoopInductive, RunsOK
    <3>3. QED
      BY <3>1, <3>2
  <2>4. ASSUME NEW i \in 2 .. Len(runs'), NEW a, NEW b, a = runs'[i - 1], b = runs'[i] PROVE Succeeds(a, b)
    <3>1. CASE i = Len(runs) + 1
      <4>1. b = made /\ a = runs[Len(runs)]
        BY <1>4, <1>9, <2>4, <3>1
      <4>2. QED
        BY <1>2, <1>8, <4>1 DEF Latest
    <3>2. CASE i # Len(runs) + 1
      <4>1. i \in 2 .. Len(runs) /\ i - 1 \in 1 .. Len(runs) /\ i \in 1 .. Len(runs)
        BY <1>4, <1>9, <3>2
      <4>2. a = runs[i - 1] /\ b = runs[i]
        BY <1>9, <2>4, <4>1
      <4>3. QED
        BY <4>1, <4>2 DEF LoopInductive, RunsOK
    <3>3. QED
      BY <3>1, <3>2
  <2>5. QED
    BY <1>4, <1>9, <2>1, <2>2, <2>3, <2>4 DEF RunsOK
<1>11. HistoryOK'
  <2>1. FlattenSeq(history') = FlattenSeq(history) \o c.patches
    BY <1>1, <1>3, <1>4, FlattenAppend
  <2>2. history' \in Seq(Seq(DeckPatch)) /\ FlattenSeq(history') \in Seq(DeckPatch) /\ Len(history') = Len(history) + 1
    BY <1>1, <1>3, <1>4, <2>1
  <2>3. runs'[1] = runs[1] /\ Latest' = made
    BY <1>4, <1>9 DEF Latest
  <2>4. Applied(runs[1].deck, FlattenSeq(history')) = deck
    BY <1>6, <2>1 DEF lineage_patches
  <2>5. QED
    BY <1>4, <1>8, <1>9, <2>2, <2>3, <2>4 DEF HistoryOK
<1>12. LoopTypeOK'
  <2>1. Cardinality(pending') = 0
    BY <1>1, FS_EmptySet
  <2>2. planned' \in 0 .. Len(runs') /\ Len(runs') = Len(history') + 1
    BY <1>1, <1>4, <1>9, <1>11 DEF LoopInductive, LoopTypeOK, HistoryOK
  <2>3. QED
    BY <1>1, <2>1, <2>2 DEF LoopInductive, LoopTypeOK
<1>13. PendingOK'
  BY <1>1 DEF PendingOK
<1>14. QED
  BY <1>10, <1>11, <1>12, <1>13 DEF LoopInductive

LEMMA LoopIsInductive ==
  ASSUME LoopInductive, [LoopNext]_loopVars
  PROVE  LoopInductive'
<1>1. CASE UNCHANGED loopVars
  <2>1. UNCHANGED <<tags, bold, runs, history, pending, rounds, planned, planStatus>>
    BY <1>1 DEF loopVars
  <2>2. RunsOK' /\ HistoryOK'
    BY <2>1, RunsStay DEF LoopInductive
  <2>3. LoopTypeOK'
    BY <2>1 DEF LoopInductive, LoopTypeOK
  <2>4. PendingOK'
    <3>1. \A a, c : Follows(a, c)' <=> Follows(a, c)
      BY <2>1, FollowsStays
    <3>2. Latest' = Latest
      BY <2>1 DEF Latest
    <3>3. QED
      BY <2>1, <3>1, <3>2 DEF LoopInductive, PendingOK
  <2>5. QED
    BY <2>2, <2>3, <2>4 DEF LoopInductive
<1>2. QED
  BY <1>1, PlanPatchStays, PlanRefinementStays, RunPatchStays, ClashStays DEF LoopNext

LEMMA LoopPromises ==
  ASSUME LoopInductive
  PROVE  /\ LoopTypeOK /\ RunIsTheValidatedDeck /\ ContinuationsShrink /\ RejectedIsLeft
         /\ TradeoffStops /\ OnlyVerifiedRuns
<1>1. LoopTypeOK /\ RunsOK /\ PendingOK
  BY DEF LoopInductive
<1>2. ASSUME NEW i \in Patched PROVE Before(i) = runs[i - 1] /\ Succeeds(Before(i), runs[i])
  <2>1. i \in 2 .. Len(runs) /\ i \in 1 .. Len(runs)
    BY <1>1 DEF Patched, RunsOK
  <2>2. runs[i].baseline = i - 1
    BY <1>1, <2>1 DEF RunsOK
  <2>3. QED
    BY <1>1, <2>1, <2>2 DEF RunsOK, Before
<1>3. RunIsTheValidatedDeck
  BY <1>2 DEF RunIsTheValidatedDeck, Deck, Succeeds
<1>4. ASSUME NEW i \in Patched PROVE Follows(Before(i), runs[i].candidate)
  BY <1>2 DEF Succeeds
<1>5. ContinuationsShrink
  <2>1. \A i \in Patched : runs[i].candidate.action = "continue" => Shrinks(Before(i), runs[i].candidate)
    BY <1>4 DEF Follows
  <2>2. QED
    BY <2>1 DEF ContinuationsShrink, Shrinks
<1>6. RejectedIsLeft
  <2>1. \A i \in Patched : Before(i).decision \in {"switch_target", "reject_candidate"} =>
                            Disjoint(Before(i), runs[i].candidate)
    BY <1>4 DEF Follows
  <2>2. QED
    BY <2>1 DEF RejectedIsLeft, Disjoint
<1>7. OnlyVerifiedRuns
  <2> SUFFICES ASSUME NEW i \in Patched
               PROVE  /\ runs[i].candidate.risk = "high" => bold
                      /\ \A k \in DOMAIN runs[i].candidate.patches :
                            runs[i].candidate.patches[k].old # runs[i].candidate.patches[k].value
    BY DEF OnlyVerifiedRuns
  <2>1. Follows(Before(i), runs[i].candidate)
    BY <1>4
  <2>2. QED
    BY <2>1 DEF Follows, Fits, verified
<1>8. TradeoffStops
  <2> SUFFICES ASSUME NEW c \in pending, Latest.baseline # 0
               PROVE  \/ c.action = "switch" /\ Latest.decision = "reject_candidate"
                      \/ TradeoffFree(Latest.candidate.name, Before(Len(runs)).reading, Latest.reading)
    BY DEF TradeoffStops, TradeoffFree
  <2>1. Len(runs) \in Patched
    <3>1. Len(runs) \in Nat \ {0} /\ runs[1].baseline = 0
      BY <1>1 DEF RunsOK
    <3>2. QED
      BY <3>1 DEF Patched, Latest
  <2>2. Succeeds(Before(Len(runs)), Latest)
    BY <1>2, <2>1 DEF Latest
  <2>3. Follows(Latest, c)
    BY <1>1 DEF PendingOK
  <2>4. Latest.decision # "none"
    BY <2>2 DEF Succeeds
  <2>5. CASE Latest.decision = "reject_candidate"
    BY <2>3, <2>5 DEF Follows
  <2>6. CASE Latest.decision \in {"continue_refine", "switch_target"}
    BY <2>2, <2>6 DEF Succeeds
  <2>7. QED
    BY <2>3, <2>4, <2>5, <2>6 DEF Follows
<1>9. QED
  BY <1>1, <1>3, <1>5, <1>6, <1>7, <1>8

-----------------------------------------------------------------------------
\* The chain of a run each of which was compared with the one before it.
LEMMA ChainIsWhole ==
  ASSUME NEW states, Len(states) \in Nat, \A i \in 1 .. Len(states) : states[i].baseline = i - 1
  PROVE  chain_state_paths(states) = [i \in 1 .. Len(states) |-> i]
<1> DEFINE last == Len(states)
           IsChain(chain) ==
             chain = [i \in 0 .. last |-> IF i = 0 THEN << >> ELSE Append(chain[states[i].baseline], i)]
           UpTo(i) == [j \in 1 .. i |-> j]
           whole == [i \in 0 .. last |-> UpTo(i)]
           chosen == CHOOSE chain : IsChain(chain)
           Good == {i \in Nat : i <= last => chosen[i] = UpTo(i)}
<1>1. UpTo(0) = << >> /\ \A i \in Nat \ {0} : UpTo(i) = Append(UpTo(i - 1), i)
  <2>1. UpTo(0) = << >>
    OBVIOUS
  <2>2. ASSUME NEW i \in Nat \ {0} PROVE UpTo(i) = Append(UpTo(i - 1), i)
    <3> DEFINE f == UpTo(i - 1)
    <3>1. i - 1 \in Nat
      OBVIOUS
    <3>2. f \in Seq(Nat) /\ Len(f) = i - 1 /\ \A j \in 1 .. (i - 1) : f[j] = j
      BY <3>1
    <3> HIDE DEF f
    <3>3. /\ Append(f, i) \in Seq(Nat) /\ Len(Append(f, i)) = i /\ DOMAIN Append(f, i) = 1 .. i
          /\ \A j \in 1 .. i : Append(f, i)[j] = j
      BY <3>1, <3>2
    <3> DEFINE g == UpTo(i)
               h == Append(f, i)
    <3>4. g \in Seq(Nat) /\ Len(g) = i /\ \A j \in 1 .. i : g[j] = j
      OBVIOUS
    <3>5. h \in Seq(Nat) /\ Len(h) = i /\ \A j \in 1 .. i : h[j] = j
      BY <3>3
    <3> HIDE DEF g, h
    <3>6. g = h
      BY <3>4, <3>5
    <3>7. QED
      BY <3>6 DEF f, g, h
  <2>3. QED
    BY <2>1, <2>2
<1> HIDE DEF UpTo
<1>2. \A i \in 1 .. last : states[i].baseline = i - 1 /\ i \in Nat \ {0} /\ i # 0 /\ i - 1 \in 0 .. last
  OBVIOUS
<1>3. IsChain(whole)
  <2> DEFINE Next_(i) == IF i = 0 THEN << >> ELSE Append(whole[states[i].baseline], i)
  <2>1. ASSUME NEW i \in 0 .. last PROVE Next_(i) = UpTo(i)
    <3>1. CASE i = 0
      BY <1>1, <3>1
    <3>2. CASE i # 0
      <4>1. i \in 1 .. last
        BY <3>2
      <4>2. whole[states[i].baseline] = UpTo(i - 1)
        BY <1>2, <4>1
      <4>3. QED
        BY <1>1, <1>2, <3>2, <4>1, <4>2
    <3>3. QED
      BY <3>1, <3>2
  <2> HIDE DEF Next_
  <2>2. [i \in 0 .. last |-> Next_(i)] = [i \in 0 .. last |-> UpTo(i)]
    BY <2>1
  <2>3. QED
    BY <2>2 DEF Next_
<1>4. IsChain(chosen)
  BY <1>3
<1>5. chain_state_paths(states) = chosen[last]
  BY DEF chain_state_paths
<1> HIDE DEF chosen, whole
<1>6. chosen[0] = << >> /\ \A i \in 1 .. last : chosen[i] = Append(chosen[i - 1], i)
  <2>1. \A i \in 0 .. last : chosen[i] = IF i = 0 THEN << >> ELSE Append(chosen[states[i].baseline], i)
    BY <1>4
  <2>2. chosen[0] = << >>
    <3>1. 0 \in 0 .. last
      OBVIOUS
    <3>2. QED
      BY <2>1, <3>1
  <2>3. ASSUME NEW i \in 1 .. last PROVE chosen[i] = Append(chosen[i - 1], i)
    <3>1. i \in 0 .. last /\ i # 0 /\ states[i].baseline = i - 1
      BY <1>2
    <3>2. QED
      BY <2>1, <3>1
  <2>4. QED
    BY <2>2, <2>3
<1>7. 0 \in Good
  BY <1>1, <1>6
<1>8. ASSUME NEW i \in 1 .. last, i - 1 \in Good PROVE i \in Good
  <2>1. chosen[i - 1] = UpTo(i - 1)
    BY <1>8
  <2>2. QED
    BY <1>1, <1>2, <1>6, <2>1
<1>9. last \in Good
  <2>1. Good \in SUBSET Nat /\ last \in Nat /\ last \in 0 .. last
    OBVIOUS
  <2> HIDE DEF Good, last
  <2>2. QED
    BY <1>7, <1>8, <2>1, EveryNumber
<1>10. QED
  BY <1>5, <1>9 DEF UpTo

-----------------------------------------------------------------------------
\* How the entries of the archive compare.
Entry(metrics) == [metrics -> Seq(Nat)]
EntryTerms(metrics, c) ==
    [metric \in metrics |-> AsObjectives(metrics)[metric].weight * Ranking(metrics)!Value(c, metric)]

LEMMA EntryValue ==
  ASSUME NEW metrics, NEW c \in Entry(metrics), Ranking(metrics)!Complete(c), NEW metric \in metrics
  PROVE  /\ Ranking(metrics)!Value(c, metric) \in Int
         /\ EntryTerms(metrics, c)[metric] = Ranking(metrics)!Value(c, metric)
<1>1. c[metric] \in Seq(Nat) /\ c[metric] # << >>
  BY DEF Entry, Ranking!Complete, Ranking!Known_, AsObjectives
<1>2. c[metric][1] \in Int
  BY <1>1
<1>3. AsObjectives(metrics)[metric].weight = 1 /\
      AsObjectives(metrics)[metric].direction \in {"minimize", "maximize", "maximize_abs"}
  BY DEF AsObjectives
<1>4. Ranking(metrics)!Value(c, metric) \in Int
  BY <1>2, <1>3 DEF Ranking!Value, Ranking!transformed_objective_value, Ranking!Magnitude
<1>5. EntryTerms(metrics, c)[metric] = AsObjectives(metrics)[metric].weight * Ranking(metrics)!Value(c, metric)
  BY DEF EntryTerms
<1>6. QED
  BY <1>3, <1>4, <1>5

LEMMA EntryScore ==
  ASSUME NEW metrics, IsFiniteSet(metrics), NEW c
  PROVE  \E t : IsTotal(t, EntryTerms(metrics, c), SUBSET metrics) /\ Ranking(metrics)!score(c) = t[metrics]
<1> DEFINE IsSum(total) ==
             total = [s \in SUBSET metrics |->
                        IF s = {} THEN 0
                        ELSE AsObjectives(metrics)[Pick(s)].weight * Ranking(metrics)!Value(c, Pick(s))
                             + total[s \ {Pick(s)}]]
<1>1. DOMAIN AsObjectives(metrics) = metrics
  BY DEF AsObjectives
<1>2. Ranking(metrics)!score(c) = (CHOOSE total : IsSum(total))[metrics]
  BY <1>1 DEF Ranking!score, Ranking!MapThenSumSet, Ranking!MapThenFoldSet, Pick
<1>3. ASSUME NEW total PROVE IsSum(total) <=> IsTotal(total, EntryTerms(metrics, c), SUBSET metrics)
  <2>1. \A s \in SUBSET metrics : s # {} =>
           EntryTerms(metrics, c)[Pick(s)] = AsObjectives(metrics)[Pick(s)].weight * Ranking(metrics)!Value(c, Pick(s))
    BY DEF EntryTerms, Pick
  <2> DEFINE Sum(s) == IF s = {} THEN 0
                       ELSE AsObjectives(metrics)[Pick(s)].weight * Ranking(metrics)!Value(c, Pick(s))
                            + total[s \ {Pick(s)}]
             Tot(s) == IF s = {} THEN 0 ELSE EntryTerms(metrics, c)[Pick(s)] + total[s \ {Pick(s)}]
  <2>2. \A s \in SUBSET metrics : Sum(s) = Tot(s)
    BY <2>1
  <2> HIDE DEF Sum, Tot
  <2>3. [s \in SUBSET metrics |-> Sum(s)] = [s \in SUBSET metrics |-> Tot(s)]
    BY <2>2
  <2>4. QED
    BY <2>3 DEF Sum, Tot, IsTotal
<1> HIDE DEF IsSum
<1>4. IsSum(CHOOSE total : IsSum(total))
  BY <1>3, TotalExists
<1>5. QED
  BY <1>2, <1>3, <1>4

\* What dominates has the lower points.
LEMMA EntryScoresLess ==
  ASSUME NEW metrics, IsFiniteSet(metrics), NEW a \in Entry(metrics), NEW b \in Entry(metrics),
         Ranking(metrics)!dominates(a, b)
  PROVE  Ranking(metrics)!score(a) < Ranking(metrics)!score(b)
<1>1. /\ Ranking(metrics)!Complete(a) /\ Ranking(metrics)!Complete(b)
      /\ \A metric \in metrics : Ranking(metrics)!Value(a, metric) <= Ranking(metrics)!Value(b, metric)
      /\ \E metric \in metrics : Ranking(metrics)!Value(a, metric) < Ranking(metrics)!Value(b, metric)
  BY DEF Ranking!dominates, AsObjectives
<1> DEFINE f == EntryTerms(metrics, a)
           g == EntryTerms(metrics, b)
<1>2. \A metric \in metrics : /\ f[metric] = Ranking(metrics)!Value(a, metric) /\ f[metric] \in Int
                              /\ g[metric] = Ranking(metrics)!Value(b, metric) /\ g[metric] \in Int
  BY <1>1, EntryValue
<1>3. f = [metric \in metrics |-> f[metric]] /\ g = [metric \in metrics |-> g[metric]]
  BY DEF EntryTerms
<1>4. PICK x : IsTotal(x, f, SUBSET metrics) /\ Ranking(metrics)!score(a) = x[metrics]
  BY EntryScore
<1>5. PICK y : IsTotal(y, g, SUBSET metrics) /\ Ranking(metrics)!score(b) = y[metrics]
  BY EntryScore
<1> HIDE DEF f, g
<1>6. f \in [metrics -> Int] /\ g \in [metrics -> Int]
  BY <1>2, <1>3
<1>7. /\ \A metric \in metrics : f[metric] <= g[metric]
      /\ \E metric \in metrics : f[metric] < g[metric]
  BY <1>1, <1>2
<1>8. x[metrics] < y[metrics]
  BY <1>4, <1>5, <1>6, <1>7, TotalsKeepOrder
<1>9. QED
  BY <1>4, <1>5, <1>8

LEMMA EntryScoreType ==
  ASSUME NEW metrics, IsFiniteSet(metrics), NEW c \in Entry(metrics), Ranking(metrics)!Complete(c)
  PROVE  Ranking(metrics)!score(c) \in Int
<1> DEFINE f == EntryTerms(metrics, c)
<1>1. \A metric \in metrics : f[metric] \in Int
  BY EntryValue
<1>2. f = [metric \in metrics |-> f[metric]]
  BY DEF EntryTerms
<1>3. PICK x : IsTotal(x, f, SUBSET metrics) /\ Ranking(metrics)!score(c) = x[metrics]
  BY EntryScore
<1> HIDE DEF f
<1>4. f \in [metrics -> Int] /\ \A metric \in metrics : f[metric] <= f[metric]
  BY <1>1, <1>2
<1>5. x[metrics] \in Int
  BY <1>3, <1>4, TotalsKeepOrder
<1>6. QED
  BY <1>3, <1>5

\* Where an entry is scored there is a best one.
LEMMA BestExists ==
  ASSUME NEW metrics, IsFiniteSet(metrics), NEW n \in Nat, NEW entries \in [1 .. n -> Entry(metrics)],
         NEW first \in 1 .. n, Ranking(metrics)!Complete(entries[first])
  PROVE  Ranking(metrics)!Best(entries) # {}
<1> DEFINE scored == {i \in 1 .. n : Ranking(metrics)!Complete(entries[i])}
           value == [i \in 1 .. n |-> Ranking(metrics)!score(entries[i])]
           Precedes(i, j) == value[i] < value[j] \/ (value[i] = value[j] /\ i < j)
           To(k) == {i \in scored : i <= k}
           Good == {k \in Nat : To(k) # {} => \E i \in To(k) : \A j \in To(k) \ {i} : Precedes(i, j)}
<1>1. \A i \in scored : value[i] \in Int /\ i \in Nat
  BY EntryScoreType
<1>2. Ranking(metrics)!Best(entries) = {i \in scored : \A j \in scored \ {i} : Precedes(i, j)}
  <2>1. \A i \in 1 .. n : Ranking(metrics)!feasible(entries[i])
    BY DEF Ranking!feasible, Ranking!Violations
  <2>2. DOMAIN entries = 1 .. n
    OBVIOUS
  <2>3. QED
    BY <2>1, <2>2 DEF Ranking!Best
<1> HIDE DEF value
<1>3. 0 \in Good
  BY <1>1
<1>4. ASSUME NEW k \in 1 .. n, k - 1 \in Good PROVE k \in Good
  <2>0. k \in Nat /\ k - 1 \in Nat
    OBVIOUS
  <2>1. \A i \in scored : i <= k <=> i <= k - 1 \/ i = k
    BY <1>1, <2>0
  <2>2. CASE k \notin scored
    <3>1. To(k) = To(k - 1)
      BY <2>1, <2>2
    <3> HIDE DEF To
    <3>2. QED
      BY <1>4, <2>0, <3>1
  <2>3. CASE k \in scored
    <3>1. To(k) = To(k - 1) \cup {k}
      BY <2>0, <2>1, <2>3
    <3>2. CASE To(k - 1) = {}
      BY <2>0, <3>1, <3>2
    <3>3. CASE To(k - 1) # {}
      <4>1. PICK i \in To(k - 1) : \A j \in To(k - 1) \ {i} : Precedes(i, j)
        BY <1>4, <3>3
      <4>2. /\ value[i] \in Int /\ value[k] \in Int /\ i \in Nat /\ i < k
            /\ \A j \in To(k - 1) : value[j] \in Int /\ j \in Nat /\ j < k
        BY <1>1, <2>0, <2>3, <4>1
      <4>3. CASE value[i] <= value[k]
        <5>1. Precedes(i, k)
          BY <4>2, <4>3
        <5>2. \A j \in To(k) \ {i} : Precedes(i, j)
          <6> HIDE DEF Precedes, To
          <6>1. QED
            BY <3>1, <4>1, <5>1
        <5>3. i \in To(k)
          BY <3>1, <4>1
        <5> HIDE DEF Precedes, To
        <5>4. QED
          BY <2>0, <5>2, <5>3
      <4>4. CASE value[k] < value[i]
        <5>1. \A j \in To(k - 1) : Precedes(k, j)
          <6>1. ASSUME NEW j \in To(k - 1), j # i PROVE value[k] < value[j]
            <7>1. value[i] < value[j] \/ value[i] = value[j]
              BY <4>1, <6>1
            <7>2. value[j] \in Int
              BY <4>2
            <7>3. QED
              BY <4>2, <4>4, <7>1, <7>2
          <6>2. QED
            BY <4>4, <6>1
        <5>2. \A j \in To(k) \ {k} : Precedes(k, j)
          <6> HIDE DEF Precedes, To
          <6>1. QED
            BY <3>1, <5>1
        <5>3. k \in To(k)
          BY <3>1
        <5> HIDE DEF Precedes, To
        <5>4. QED
          BY <2>0, <5>2, <5>3
      <4>5. QED
        BY <4>2, <4>3, <4>4
    <3>4. QED
      BY <3>2, <3>3
  <2>4. QED
    BY <2>2, <2>3
<1>5. n \in Good
  <2>1. Good \in SUBSET Nat /\ n \in 0 .. n
    OBVIOUS
  <2> HIDE DEF Good
  <2>2. QED
    BY <1>3, <1>4, <2>1, EveryNumber
<1>6. To(n) = scored /\ scored # {}
  <2>1. first \in scored
    OBVIOUS
  <2>2. \A i \in scored : i <= n
    BY <1>1
  <2> HIDE DEF scored
  <2>3. QED
    BY <2>1, <2>2
<1>7. \E i \in scored : \A j \in scored \ {i} : Precedes(i, j)
  <2> HIDE DEF Precedes
  <2>1. QED
    BY <1>5, <1>6
<1> HIDE DEF scored, Precedes
<1>8. QED
  BY <1>2, <1>7

\* The best entry, or the last one where none is scored, is on the front.
LEMMA BestOnFront ==
  ASSUME NEW metrics, IsFiniteSet(metrics), NEW n \in Nat \ {0}, NEW entries \in [1 .. n -> Entry(metrics)]
  PROVE  LET best == Ranking(metrics)!Best(entries)
         IN  (IF best = {} THEN {n} ELSE best) \subseteq Ranking(metrics)!assign_pareto_front(entries)
<1> DEFINE best == Ranking(metrics)!Best(entries)
           front == Ranking(metrics)!assign_pareto_front(entries)
<1>1. \A i \in 1 .. n : Ranking(metrics)!feasible(entries[i])
  BY DEF Ranking!feasible, Ranking!Violations
<1>2. DOMAIN entries = 1 .. n /\ \A i \in 1 .. n : entries[i] \in Entry(metrics)
  OBVIOUS
<1>3. ASSUME NEW i \in 1 .. n, i \notin front
      PROVE  \E j \in 1 .. n : j # i /\ Ranking(metrics)!dominates(entries[j], entries[i])
  BY <1>1, <1>2, <1>3 DEF Ranking!assign_pareto_front
<1>4. CASE best = {}
  <2>1. n \in front
    <3> SUFFICES ASSUME n \notin front PROVE FALSE
      OBVIOUS
    <3>1. PICK j \in 1 .. n : Ranking(metrics)!dominates(entries[j], entries[n])
      BY <1>3
    <3>2. Ranking(metrics)!Complete(entries[j])
      BY <3>1 DEF Ranking!dominates
    <3>3. QED
      BY <1>4, <3>2, BestExists
  <2>2. QED
    BY <1>4, <2>1
<1>5. CASE best # {}
  <2> SUFFICES ASSUME NEW i \in best, i \notin front PROVE FALSE
    BY <1>5
  <2>1. i \in 1 .. n /\ Ranking(metrics)!Complete(entries[i])
    BY DEF Ranking!Best
  <2>2. PICK j \in 1 .. n : j # i /\ Ranking(metrics)!dominates(entries[j], entries[i])
    BY <1>3, <2>1
  <2>3. Ranking(metrics)!Complete(entries[j])
    BY <2>2 DEF Ranking!dominates
  <2>4. \/ Ranking(metrics)!score(entries[i]) < Ranking(metrics)!score(entries[j])
        \/ Ranking(metrics)!score(entries[i]) = Ranking(metrics)!score(entries[j])
    BY <1>1, <1>2, <2>2, <2>3 DEF Ranking!Best
  <2>5. Ranking(metrics)!score(entries[j]) < Ranking(metrics)!score(entries[i])
    BY <1>2, <2>1, <2>2, EntryScoresLess
  <2>6. Ranking(metrics)!score(entries[j]) \in Int /\ Ranking(metrics)!score(entries[i]) \in Int
    BY <1>2, <2>1, <2>3, EntryScoreType
  <2>7. QED
    BY <2>4, <2>5, <2>6
<1>6. QED
  BY <1>4, <1>5

\* What the archive of a chain of runs says.
LEMMA ArchiveHolds ==
  ASSUME NEW states \in Seq(Run), Len(states) # 0, \A i \in 1 .. Len(states) : states[i].baseline = i - 1
  PROVE  LET a == assign_archive_pareto(states)
         IN  a.chain = [i \in 1 .. Len(states) |-> i] /\ a.best \subseteq a.front
<1> DEFINE n == Len(states)
           chain == chain_state_paths(states)
           metrics == objective_metrics(states, chain)
           entries == [i \in DOMAIN chain |->
                         [m \in metrics |-> IF states[chain[i]].reading[m] = 0 THEN << >>
                                            ELSE <<states[chain[i]].reading[m]>>]]
           best == Ranking(metrics)!Best(entries)
           a == assign_archive_pareto(states)
<1>1. n \in Nat \ {0} /\ \A i \in 1 .. n : states[i] \in Run
  OBVIOUS
<1>2. chain = [i \in 1 .. n |-> i]
  BY <1>1, ChainIsWhole
<1>3. IsFiniteSet(metrics) /\ metrics \subseteq Metrics
  <2>1. IsFiniteSet(((({"leakage"} \cup {"bv"}) \cup {"field"}) \cup {"ron"}) \cup {"points"})
    <3>1. \A S, x : IsFiniteSet(S) => IsFiniteSet(S \cup {x})
      BY FS_AddElement
    <3>2. IsFiniteSet({"leakage"})
      BY FS_Singleton
    <3>3. QED
      BY <3>1, <3>2, Zenon
  <2>2. Metrics = ((({"leakage"} \cup {"bv"}) \cup {"field"}) \cup {"ron"}) \cup {"points"}
    BY DEF Metrics, Watched
  <2>3. metrics \subseteq Metrics
    BY DEF objective_metrics
  <2>4. QED
    BY <2>1, <2>2, <2>3, FS_Subset
<1>4. a = IF metrics = {} THEN [chain |-> chain, front |-> {Len(chain)}, best |-> {Len(chain)}]
          ELSE [chain |-> chain, front |-> Ranking(metrics)!assign_pareto_front(entries),
                best |-> IF best = {} THEN {Len(chain)} ELSE best]
  BY DEF assign_archive_pareto
<1> HIDE DEF chain, a
<1>5. DOMAIN chain = 1 .. n /\ Len(chain) = n /\ \A i \in 1 .. n : chain[i] = i
  BY <1>1, <1>2
<1>6. entries \in [1 .. n -> Entry(metrics)]
  <2> SUFFICES ASSUME NEW i \in 1 .. n, NEW m \in metrics
               PROVE  (IF states[chain[i]].reading[m] = 0 THEN << >> ELSE <<states[chain[i]].reading[m]>>) \in Seq(Nat)
    BY <1>5 DEF Entry
  <2>1. states[chain[i]].reading \in [Metrics -> Nat]
    BY <1>1, <1>5 DEF Run
  <2>2. states[chain[i]].reading[m] \in Nat
    BY <1>3, <2>1
  <2>3. QED
    BY <2>2
<1> HIDE DEF metrics, entries
<1>7. (IF best = {} THEN {n} ELSE best) \subseteq Ranking(metrics)!assign_pareto_front(entries)
  BY <1>1, <1>3, <1>6, BestOnFront
<1>8. CASE metrics = {}
  BY <1>2, <1>4, <1>8 DEF a
<1>9. CASE metrics # {}
  BY <1>2, <1>4, <1>5, <1>7, <1>9 DEF a
<1>10. QED
  BY <1>8, <1>9

LEMMA ArchiveStays ==
  ASSUME LoopInductive, LoopInductive', ArchiveIsComplete, [LoopNext]_loopVars
  PROVE  ArchiveIsComplete'
<1>1. CASE UNCHANGED <<runs, archive>>
  BY <1>1 DEF ArchiveIsComplete, Patched
<1>2. CASE RunPatch
  <2>1. PICK made : runs' = Append(runs, made) /\ archive' = assign_archive_pareto(Append(runs, made))
    BY <1>2 DEF RunPatch
  <2>2. /\ runs' \in Seq(Run) /\ Len(runs') # 0
        /\ \A i \in 1 .. Len(runs') : runs'[i].baseline = i - 1
    BY DEF LoopInductive, RunsOK
  <2>3. PICK states : states = Append(runs, made) /\ states = runs'
    BY <2>1
  <2>4. LET a == assign_archive_pareto(states)
        IN  a.chain = [i \in 1 .. Len(states) |-> i] /\ a.best \subseteq a.front
    BY <2>2, <2>3, ArchiveHolds
  <2>5. archive' = assign_archive_pareto(states)
    BY <2>1, <2>3
  <2>6. QED
    BY <2>3, <2>4, <2>5 DEF ArchiveIsComplete
<1>3. [LoopNext]_loopVars => RunPatch \/ UNCHANGED <<runs, archive>>
  BY DEF LoopNext, PlanPatch, PlanRefinement, RunClashes, Chosen, Planned, loopVars
<1>4. QED
  BY <1>1, <1>2, <1>3

LEMMA ArchiveStarts ==
  ASSUME LoopInit
  PROVE  ArchiveIsComplete
<1>1. PICK first : runs = <<first>>
  BY DEF LoopInit
<1>2. Len(runs) = 1
  BY <1>1
<1>3. QED
  BY <1>2 DEF ArchiveIsComplete, Patched

LoopInv == LoopInductive /\ ArchiveIsComplete

\* The loop of Sentaurus patches, for all decks, goals and outcomes: what is run
\* is what was validated, in small steps that keep a direction that helps and
\* leave one that does not, with a stop at a tradeoff, and the archive of the
\* latest run holds them all and no best entry that another one dominates.
THEOREM PatchesGoOn ==
  LoopSpec => []PatchLoopInvariant
<1>1. LoopInit => LoopInv
  BY LoopStarts, ArchiveStarts DEF LoopInv
<1>2. LoopInv /\ [LoopNext]_loopVars => LoopInv'
  BY LoopIsInductive, ArchiveStays DEF LoopInv
<1>3. LoopInv => PatchLoopInvariant
  BY LoopPromises DEF LoopInv, PatchLoopInvariant
<1>4. QED
  BY <1>1, <1>2, <1>3, PTL DEF LoopSpec

===============================================================================
