---------------------------- MODULE RowEstimatesProofs ----------------------------
(***************************************************************************)
(* Theorems about RowEstimates, for any requests, providers, bills, zones  *)
(* and intensities: what a zone's rows are given, that no cost is lost,    *)
(* that the totals behind unknown usage add up, and which answers the bill *)
(* alone determines.                                                       *)
(***************************************************************************)
EXTENDS RowEstimates, FiniteSetTheorems, SequenceTheorems, WellFoundedInduction, TLAPS

\* The functions of the state are ones, over the requests and over the zones' days.
IntensitiesTyped ==
    /\ pc \in [Requests -> {"new", "row", "fetching", "estimate", "done", "failed"}]
    /\ DOMAIN factors = Requests /\ factors = [r \in Requests |-> factors[r]]
    /\ zones = [k \in DOMAIN zones |-> zones[k]]

\* The zone and day a request is at.
Here(r) == <<Row(r).zone, Row(r).day>>

\* Requests one at a time: who fetches an intensity is the only one to run and does not have it.
FetchInv ==
    overlapped = {} =>
        /\ \A r, q \in Running : r = q
        /\ \A r \in Requests : pc[r] = "fetching" => Here(r) \notin DOMAIN zones

\* Whatever live factor was used is the one in store.
StoreInv ==
    overlapped = {} =>
        \A r \in Requests : \A a \in factors[r] :
            a[3] # Published =>
                <<a[1], a[2]>> \in DOMAIN zones /\ zones[<<a[1], a[2]>>] = a[3]

IntensityInv == IntensitiesTyped /\ FetchInv /\ StoreInv

-----------------------------------------------------------------------------
\* A factor used from the store, or the published one, is recorded and nothing else is.
LEMMA UseFactorRecords ==
    ASSUME IntensitiesTyped, NEW r \in Requests, NEW f, UseFactor(r, f)
    PROVE  /\ pc' \in [Requests -> {"new", "row", "fetching", "estimate", "done", "failed"}]
           /\ DOMAIN factors' = Requests /\ factors' = [q \in Requests |-> factors'[q]]
           /\ factors'[r] = factors[r] \cup {<<Row(r).zone, Row(r).day, f>>}
           /\ pc'[r] = "estimate"
           /\ \A q \in Requests : q # r => factors'[q] = factors[q] /\ pc'[q] = pc[q]
  BY DEF IntensitiesTyped, UseFactor

\* An intensity is stored beside those that are there already.
LEMMA Stored ==
    ASSUME IntensitiesTyped, NEW z, NEW d, NEW i, zones' = StoreIntensity(z, d, i)
    PROVE  /\ zones' = [k \in DOMAIN zones' |-> zones'[k]]
           /\ DOMAIN zones' = DOMAIN zones \cup {<<z, d>>}
           /\ zones'[<<z, d>>] = i
           /\ \A k \in DOMAIN zones : k # <<z, d>> => zones'[k] = zones[k]
  BY DEF IntensitiesTyped, StoreIntensity, Set

LEMMA InitIntensityInv == Init => IntensityInv
  BY DEF Init, IntensityInv, IntensitiesTyped, FetchInv, StoreInv, Running

\* A bill arrives: the request runs beside no other, or the runs overlap from here on.
LEMMA BeginStep ==
    ASSUME IntensityInv, NEW r \in Requests, NEW bill, Begin(r, bill)
    PROVE  IntensityInv'
  <1>1. /\ pc[r] = "new" /\ pc' = [pc EXCEPT ![r] = IF bill = << >> THEN "done" ELSE "row"]
        /\ rows' = [rows EXCEPT ![r] = bill]
        /\ overlapped' = IF Running = {} THEN overlapped ELSE overlapped \cup Running \cup {r}
        /\ UNCHANGED <<zones, next, factors>>
    BY DEF Begin, processVars
  <1>2. IntensitiesTyped'
    BY <1>1 DEF IntensityInv, IntensitiesTyped
  <1>3. overlapped' = {} => overlapped = {} /\ Running = {}
    BY <1>1
  <1>4. Running' \subseteq Running \cup {r}
    BY <1>1 DEF IntensityInv, IntensitiesTyped, Running
  <1>5. overlapped' = {} => \A q \in Requests : pc'[q] # "fetching"
    BY <1>1, <1>3 DEF IntensityInv, IntensitiesTyped, Running
  <1>6. FetchInv'
    BY <1>3, <1>4, <1>5 DEF FetchInv
  <1>7. StoreInv'
    BY <1>1, <1>3 DEF IntensityInv, StoreInv
  <1> QED
    BY <1>2, <1>6, <1>7 DEF IntensityInv

\* A factor is used that is the published one or the one in store by now.
LEMMA UseKeeps ==
    ASSUME IntensityInv, NEW r \in Requests, NEW f, UseFactor(r, f), r \in Running,
           UNCHANGED <<rows, next, overlapped>>,
           zones' = [k \in DOMAIN zones' |-> zones'[k]],
           DOMAIN zones \subseteq DOMAIN zones',
           overlapped = {} => \A k \in DOMAIN zones : zones'[k] = zones[k],
           f = Published \/ (Here(r) \in DOMAIN zones' /\ zones'[Here(r)] = f)
    PROVE  IntensityInv'
  <1>1. /\ pc' \in [Requests -> {"new", "row", "fetching", "estimate", "done", "failed"}]
        /\ DOMAIN factors' = Requests /\ factors' = [q \in Requests |-> factors'[q]]
        /\ factors'[r] = factors[r] \cup {<<Row(r).zone, Row(r).day, f>>}
        /\ pc'[r] = "estimate"
        /\ \A q \in Requests : q # r => factors'[q] = factors[q] /\ pc'[q] = pc[q]
    BY UseFactorRecords DEF IntensityInv
  <1>2. IntensitiesTyped'
    BY <1>1 DEF IntensitiesTyped
  <1>3. Running' \subseteq Running
    BY <1>1 DEF Running
  <1>4. overlapped = {} => \A q \in Requests : pc'[q] # "fetching"
    BY <1>1 DEF IntensityInv, FetchInv, Running
  <1>5. FetchInv'
    BY <1>3, <1>4 DEF IntensityInv, FetchInv
  <1>6. StoreInv'
    <2> SUFFICES ASSUME overlapped = {}, NEW q \in Requests, NEW a \in factors'[q], a[3] # Published
                 PROVE  <<a[1], a[2]>> \in DOMAIN zones' /\ zones'[<<a[1], a[2]>>] = a[3]
      BY DEF StoreInv
    <2>1. CASE a \in factors[q]
      BY <2>1 DEF IntensityInv, StoreInv
    <2>2. CASE a = <<Row(r).zone, Row(r).day, f>>
      BY <2>2 DEF Here
    <2> QED
      BY <1>1, <2>1, <2>2
  <1> QED
    BY <1>2, <1>5, <1>6 DEF IntensityInv

\* The factor of a row: published, in store, or to be fetched.
LEMMA GetStep ==
    ASSUME IntensityInv, NEW r \in Requests, GetEmissionsFactors(r)
    PROVE  IntensityInv'
  <1>1. r \in Running /\ UNCHANGED <<zones, rows, next, overlapped>>
    BY DEF GetEmissionsFactors, Running, processVars, historyVars
  <1>2. ASSUME NEW f, UseFactor(r, f), f = Published \/ (Here(r) \in DOMAIN zones /\ zones[Here(r)] = f)
        PROVE  IntensityInv'
    BY <1>1, <1>2, UseKeeps DEF IntensityInv, IntensitiesTyped, Here
  <1>3. CASE /\ Here(r) \notin DOMAIN zones
             /\ pc' = [pc EXCEPT ![r] = "fetching"]
             /\ UNCHANGED factors
    <2>1. IntensitiesTyped'
      BY <1>1, <1>3 DEF IntensityInv, IntensitiesTyped
    <2>2. /\ Running' = Running
          /\ \A q \in Requests : q # r => pc'[q] = pc[q]
      BY <1>1, <1>3 DEF IntensityInv, IntensitiesTyped, Running
    <2>3. \A q \in Requests : Here(q)' = Here(q)
      BY <1>1 DEF Here, Row
    <2>4. FetchInv'
      BY <1>1, <1>3, <2>2, <2>3 DEF IntensityInv, FetchInv
    <2>5. StoreInv'
      BY <1>1, <1>3 DEF IntensityInv, StoreInv
    <2> QED
      BY <2>1, <2>4, <2>5 DEF IntensityInv
  <1> QED
    BY <1>2, <1>3 DEF GetEmissionsFactors, Here

\* The intensity is fetched, or is not to be had.
LEMMA ArriveStep ==
    ASSUME IntensityInv, NEW r \in Requests,
           (\E i \in Intensities : IntensityArrives(r, i)) \/ IntensityUnknown(r)
    PROVE  IntensityInv'
  <1>1. r \in Running /\ pc[r] = "fetching" /\ UNCHANGED <<rows, next, overlapped>>
    BY DEF IntensityArrives, IntensityUnknown, Running, historyVars
  <1>2. CASE IntensityUnknown(r)
    BY <1>1, <1>2, UseKeeps DEF IntensityUnknown, processVars, IntensityInv, IntensitiesTyped
  <1>3. ASSUME NEW i \in Intensities, IntensityArrives(r, i)
        PROVE  IntensityInv'
    <2>1. zones' = StoreIntensity(Row(r).zone, Row(r).day, i) /\ UseFactor(r, i)
      BY <1>3 DEF IntensityArrives
    <2>2. /\ zones' = [k \in DOMAIN zones' |-> zones'[k]]
          /\ DOMAIN zones' = DOMAIN zones \cup {Here(r)}
          /\ zones'[Here(r)] = i
          /\ \A k \in DOMAIN zones : k # Here(r) => zones'[k] = zones[k]
      BY <2>1, Stored DEF IntensityInv, Here
    <2>3. overlapped = {} => Here(r) \notin DOMAIN zones
      BY <1>1 DEF IntensityInv, FetchInv
    <2> QED
      BY <1>1, <2>1, <2>2, <2>3, UseKeeps
  <1> QED
    BY <1>2, <1>3

\* A request fails, or goes on with its next row: it fetches nothing then.
LEMMA MoveStep ==
    ASSUME IntensityInv, NEW r \in Requests, IntensityFails(r) \/ EstimateRow(r)
    PROVE  IntensityInv'
  <1>1. /\ UNCHANGED <<zones, overlapped, factors, rows>> /\ r \in Running
        /\ pc' \in [Requests -> {"new", "row", "fetching", "estimate", "done", "failed"}]
        /\ pc'[r] \in {"failed", "row", "done"}
        /\ \A q \in Requests : q # r => pc'[q] = pc[q]
    BY DEF IntensityFails, EstimateRow, processVars, historyVars, IntensityInv, IntensitiesTyped, Running
  <1>2. IntensitiesTyped'
    BY <1>1 DEF IntensityInv, IntensitiesTyped
  <1>3. Running' \subseteq Running
    BY <1>1 DEF Running
  <1>4. overlapped = {} => \A q \in Requests : pc'[q] # "fetching"
    BY <1>1 DEF IntensityInv, FetchInv, Running
  <1>5. FetchInv' /\ StoreInv'
    BY <1>1, <1>3, <1>4 DEF IntensityInv, FetchInv, StoreInv
  <1> QED
    BY <1>2, <1>5 DEF IntensityInv

LEMMA StepIntensityInv == IntensityInv /\ [Next]_vars => IntensityInv'
  <1> SUFFICES ASSUME IntensityInv, [Next]_vars
               PROVE  IntensityInv'
    OBVIOUS
  <1>1. CASE Next
    BY <1>1, BeginStep, GetStep, ArriveStep, MoveStep DEF Next, Step, UsageArrives, LookupArrives
  <1>2. CASE UNCHANGED vars
    BY <1>2 DEF vars, IntensityInv, IntensitiesTyped, FetchInv, StoreInv, Running, Here, Row
  <1> QED
    BY <1>1, <1>2

\* While requests do not run beside each other, every row of a zone and day that is given a live
\* intensity is given the same one (EmissionsFactors.ts, zoneIntensityFactors).
THEOREM OneIntensityHolds == Spec => []OneIntensity
  <1>1. IntensityInv => OneIntensity
    BY DEF IntensityInv, StoreInv, OneIntensity
  <1> QED
    BY <1>1, InitIntensityInv, StepIntensityInv, PTL DEF Spec
-----------------------------------------------------------------------------
(* Induction over numbers, and sums over finite sets.                        *)

LEMMA LeastNumber ==
    ASSUME NEW T \in SUBSET Nat, T # {}
    PROVE  \E n \in T : \A m \in T : n <= m
  <1> DEFINE less == OpToRel(<, Nat)
  <1>1. IsWellFoundedOn(less, Nat)
    BY NatLessThanWellFounded
  <1>2. \E x \in T : \A y \in T : ~(<<y, x>> \in less)
    BY <1>1, WFMin
  <1>3. \A x, y \in Nat : <<y, x>> \in less <=> y < x
    BY DEF OpToRel
  <1> HIDE DEF less
  <1>4. PICK x \in T : \A y \in T : ~(<<y, x>> \in less)
    BY <1>2
  <1>5. \A y \in T : ~(y < x)
    BY <1>3, <1>4
  <1> QED
    BY <1>5

LEMMA NatSetInduction ==
    ASSUME NEW T, 0 \in T, \A n \in Nat : n \in T => n + 1 \in T
    PROVE  Nat \subseteq T
  <1> SUFFICES ASSUME NEW k \in Nat, k \notin T PROVE FALSE
    OBVIOUS
  <1> DEFINE others == {m \in Nat : m \notin T}
  <1>1. PICK n \in others : \A m \in others : n <= m
    BY LeastNumber
  <1>2. n # 0
    BY <1>1
  <1>3. n - 1 \in Nat /\ n - 1 \in T
    BY <1>1, <1>2
  <1> QED
    BY <1>1, <1>3

\* An element of a set, the one the library's folds take first.
Some(s) == CHOOSE x \in s : TRUE

\* w[s] is the sum of the values of f on s, taken one by one.
SumsUp(w, f) ==
    \A s \in SUBSET DOMAIN f : w[s] = IF s = {} THEN 0 ELSE f[Some(s)] + w[s \ {Some(s)}]

LEMMA SumTurns ==
    ASSUME NEW f, IsFiniteSet(DOMAIN f)
    PROVE  \E w : SumsUp(w, f) /\ SumFunction(f) = w[DOMAIN f]
  <1> DEFINE D == DOMAIN f
             Sets(n) == {s \in SUBSET D : Cardinality(s) <= n}
             Turn(h, n) == h = [s \in Sets(n) |-> IF s = {} THEN 0 ELSE f[Some(s)] + h[s \ {Some(s)}]]
             T == {n \in Nat : \E h : Turn(h, n)}
  <1>1. \A s \in SUBSET D :
            /\ Cardinality(s) \in Nat /\ Cardinality(s) <= Cardinality(D)
            /\ s # {} => /\ Some(s) \in s /\ s \ {Some(s)} \in SUBSET D /\ Cardinality(s) >= 1
                         /\ Cardinality(s \ {Some(s)}) = Cardinality(s) - 1
    <2> TAKE s \in SUBSET D
    <2>1. IsFiniteSet(s) /\ Cardinality(s) <= Cardinality(D) /\ Cardinality(s) \in Nat
      BY FS_Subset, FS_CardinalityType
    <2>2. ASSUME s # {}
          PROVE  /\ Some(s) \in s /\ s \ {Some(s)} \in SUBSET D /\ Cardinality(s) >= 1
                 /\ Cardinality(s \ {Some(s)}) = Cardinality(s) - 1
      <3>1. Some(s) \in s
        BY <2>2 DEF Some
      <3>2. Cardinality(s \ {Some(s)}) = Cardinality(s) - 1
        BY <2>1, <3>1, FS_RemoveElement
      <3>3. Cardinality(s) # 0
        BY <2>1, <2>2, FS_EmptySet
      <3> QED
        BY <2>1, <3>1, <3>2, <3>3
    <2> QED
      BY <2>1, <2>2
  <1>2. 0 \in T
    <2> DEFINE h == [s \in Sets(0) |-> 0]
    <2>1. \A s \in Sets(0) : s = {}
      <3> SUFFICES ASSUME NEW s \in SUBSET D, Cardinality(s) <= 0, s # {} PROVE FALSE
        OBVIOUS
      <3>1. Cardinality(s) \in Nat /\ Cardinality(s) >= 1
        BY <1>1
      <3> QED
        BY <3>1
    <2>2. Turn(h, 0)
      BY <2>1
    <2> QED
      BY <2>2
  <1>3. ASSUME NEW n \in Nat, n \in T
        PROVE  n + 1 \in T
    <2>1. PICK h : Turn(h, n)
      BY <1>3
    <2> DEFINE value(s) == IF s = {} THEN 0 ELSE f[Some(s)] + h[s \ {Some(s)}]
               g == [s \in Sets(n + 1) |-> value(s)]
    <2>2. \A s \in Sets(n) : s \in Sets(n + 1) /\ h[s] = value(s)
      <3>1. \A s \in Sets(n) : h[s] = value(s)
        <4> HIDE DEF Sets
        <4> QED
          BY <2>1
      <3>2. \A s \in SUBSET D : Cardinality(s) \in Nat
        BY <1>1
      <3>3. \A s \in Sets(n) : s \in Sets(n + 1)
        BY <3>2
      <3> QED
        BY <3>1, <3>3
    <2>3. \A s \in Sets(n) : g[s] = h[s]
      BY <2>2
    <2>4. \A s \in Sets(n + 1) : s # {} => s \ {Some(s)} \in Sets(n)
      BY <1>1
    <2>5. \A s \in Sets(n + 1) : g[s] = IF s = {} THEN 0 ELSE f[Some(s)] + g[s \ {Some(s)}]
      BY <2>3, <2>4
    <2>6. g = [s \in Sets(n + 1) |-> g[s]]
      OBVIOUS
    <2>7. Turn(g, n + 1)
      <3> HIDE DEF g, Sets
      <3> QED
        BY <2>5, <2>6
    <2>8. n + 1 \in Nat /\ \E q : Turn(q, n + 1)
      <3> HIDE DEF Turn, g
      <3> QED
        BY <2>7
    <2> HIDE DEF Turn
    <2> QED
      BY <2>8
  <1> DEFINE N == Cardinality(D)
             W(h) == h = [s \in SUBSET D |-> IF s = {} THEN 0 ELSE f[Some(s)] + h[s \ {Some(s)}]]
  <1>4. \E h : W(h)
    <2>1. N \in Nat
      BY FS_CardinalityType
    <2>2. N \in T
      <3> HIDE DEF T, N
      <3> QED
        BY <1>2, <1>3, <2>1, NatSetInduction
    <2>3. PICK h : Turn(h, N)
      BY <2>2
    <2>4. Sets(N) = SUBSET D
      BY <1>1
    <2>5. W(h)
      <3> HIDE DEF Sets, N
      <3> QED
        BY <2>3, <2>4
    <2> QED
      BY <2>5
  <1> DEFINE w == CHOOSE h : W(h)
  <1>5. W(w)
    BY <1>4
  <1>6. SumFunction(f) = w[D]
    BY DEF SumFunction, SumFunctionOnSet, FoldFunctionOnSet, MapThenFoldSet, Some
  <1> HIDE DEF w
  <1>7. SumsUp(w, f)
    BY <1>5 DEF SumsUp
  <1> QED
    BY <1>6, <1>7

\* Two functions that agree on a finite set have the same sums over its subsets.
LEMMA SumsAgree ==
    ASSUME NEW f, IsFiniteSet(DOMAIN f), NEW g, DOMAIN f \subseteq DOMAIN g,
           \A x \in DOMAIN f : f[x] = g[x], NEW v, SumsUp(v, f), NEW w, SumsUp(w, g),
           NEW s \in SUBSET DOMAIN f
    PROVE  v[s] = w[s]
  <1> DEFINE T == {n \in Nat : \A t \in SUBSET DOMAIN f : Cardinality(t) = n => v[t] = w[t]}
  <1>1. \A t \in SUBSET DOMAIN f :
            /\ Cardinality(t) \in Nat
            /\ IF t = {} THEN v[t] = 0 /\ w[t] = 0
               ELSE /\ t \ {Some(t)} \in SUBSET DOMAIN f /\ Cardinality(t \ {Some(t)}) = Cardinality(t) - 1
                    /\ v[t] = f[Some(t)] + v[t \ {Some(t)}] /\ w[t] = f[Some(t)] + w[t \ {Some(t)}]
    <2> TAKE t \in SUBSET DOMAIN f
    <2>1. IsFiniteSet(t) /\ t \in SUBSET DOMAIN g
      BY FS_Subset
    <2>2. t # {} => Some(t) \in t
      BY DEF Some
    <2> QED
      BY <2>1, <2>2, FS_RemoveElement, FS_CardinalityType DEF SumsUp
  <1>2. 0 \in T
    <2>1. \A t \in SUBSET DOMAIN f : Cardinality(t) = 0 => t = {}
      BY FS_Subset, FS_EmptySet
    <2> QED
      BY <1>1, <2>1
  <1>3. ASSUME NEW n \in Nat, n \in T
        PROVE  n + 1 \in T
    <2> SUFFICES ASSUME NEW t \in SUBSET DOMAIN f, Cardinality(t) = n + 1
                 PROVE  v[t] = w[t]
      OBVIOUS
    <2> DEFINE rest == t \ {Some(t)}
    <2>1. CASE t # {}
      <3>1. rest \in SUBSET DOMAIN f /\ Cardinality(rest) = n
        BY <1>1, <2>1
      <3>2. v[rest] = w[rest]
        <4> HIDE DEF rest
        <4> QED
          BY <1>3, <3>1
      <3> QED
        BY <1>1, <2>1, <3>2
    <2> QED
      BY <1>1, <2>1
  <1> QED
    <2>1. Nat \subseteq T
      <3> HIDE DEF T
      <3> QED
        BY <1>2, <1>3, NatSetInduction
    <2> QED
      BY <1>1, <2>1

\* The value at any element may be the last to be added.
LEMMA SumsAnyOrder ==
    ASSUME NEW f, IsFiniteSet(DOMAIN f), \A x \in DOMAIN f : f[x] \in Nat, NEW w, SumsUp(w, f),
           NEW s \in SUBSET DOMAIN f
    PROVE  w[s] \in Nat /\ \A x \in s : w[s] = f[x] + w[s \ {x}]
  <1> DEFINE D == DOMAIN f
             Fine(t) == w[t] \in Nat /\ \A x \in t : w[t] = f[x] + w[t \ {x}]
             T == {n \in Nat : \A t \in SUBSET D : Cardinality(t) <= n => Fine(t)}
  <1>1. \A t \in SUBSET D : /\ IsFiniteSet(t) /\ Cardinality(t) \in Nat /\ (Cardinality(t) = 0 => t = {})
                            /\ \A x \in t : t \ {x} \in SUBSET D /\ Cardinality(t \ {x}) = Cardinality(t) - 1
    <2> TAKE t \in SUBSET D
    <2>1. IsFiniteSet(t)
      BY FS_Subset
    <2> QED
      BY <2>1, FS_RemoveElement, FS_CardinalityType, FS_EmptySet
  <1>2. \A t \in SUBSET D : /\ t = {} => w[t] = 0
                            /\ t # {} => Some(t) \in t /\ w[t] = f[Some(t)] + w[t \ {Some(t)}]
    BY DEF SumsUp, Some
  <1>3. 0 \in T
    <2> SUFFICES ASSUME NEW t \in SUBSET D, Cardinality(t) <= 0 PROVE Fine(t)
      OBVIOUS
    <2>1. Cardinality(t) = 0
      BY <1>1
    <2>2. t = {}
      BY <1>1, <2>1
    <2>3. w[t] = 0
      BY <1>2, <2>2
    <2> QED
      BY <2>2, <2>3
  <1>4. ASSUME NEW n \in Nat, n \in T
        PROVE  n + 1 \in T
    <2> SUFFICES ASSUME NEW t \in SUBSET D, Cardinality(t) <= n + 1
                 PROVE  Fine(t)
      OBVIOUS
    <2>1. CASE t = {}
      <3>1. w[t] = 0
        BY <1>2, <2>1
      <3> QED
        BY <2>1, <3>1
    <2>2. CASE t # {}
      <3> DEFINE c == Some(t)
      <3>1. c \in t /\ w[t] = f[c] + w[t \ {c}]
        BY <1>2, <2>2
      <3>2. \A u \in SUBSET D : Cardinality(u) <= n => Fine(u)
        BY <1>4
      <3> HIDE DEF c, Fine
      <3>3. \A x \in t : /\ Fine(t \ {x}) /\ f[x] \in Nat
                         /\ \A y \in t : y # x => Fine((t \ {x}) \ {y})
        <4> TAKE x \in t
        <4>1. t \ {x} \in SUBSET D /\ Cardinality(t \ {x}) = Cardinality(t) - 1 /\ Cardinality(t) \in Nat
          BY <1>1
        <4>2. Fine(t \ {x})
          BY <3>2, <4>1
        <4>3. ASSUME NEW y \in t, y # x
              PROVE  Fine((t \ {x}) \ {y})
          <5>1. /\ (t \ {x}) \ {y} \in SUBSET D
                /\ Cardinality((t \ {x}) \ {y}) = Cardinality(t \ {x}) - 1
            BY <1>1, <4>1, <4>3
          <5> QED
            BY <3>2, <4>1, <5>1
        <4> QED
          BY <4>2, <4>3
      <3>4. w[t] \in Nat
        <4>1. Fine(t \ {c}) /\ f[c] \in Nat
          BY <3>1, <3>3
        <4>2. w[t \ {c}] \in Nat
          BY <4>1 DEF Fine
        <4> QED
          BY <3>1, <4>1, <4>2
      <3>5. ASSUME NEW x \in t, x # c
            PROVE  w[t] = f[x] + w[t \ {x}]
        <4> DEFINE u == (t \ {c}) \ {x}
        <4>1. w[t \ {c}] = f[x] + w[u]
          BY <3>1, <3>3, <3>5 DEF Fine
        <4>2. u = (t \ {x}) \ {c}
          OBVIOUS
        <4>3. w[t \ {x}] = f[c] + w[(t \ {x}) \ {c}]
          BY <3>1, <3>3, <3>5 DEF Fine
        <4>4. w[u] \in Nat /\ f[c] \in Nat /\ f[x] \in Nat
          BY <3>1, <3>3, <3>5 DEF Fine
        <4> HIDE DEF u
        <4>5. w[t \ {x}] = f[c] + w[u]
          BY <4>2, <4>3
        <4> QED
          BY <3>1, <4>1, <4>4, <4>5
      <3>6. \A x \in t : w[t] = f[x] + w[t \ {x}]
        BY <3>1, <3>5
      <3> QED
        BY <3>4, <3>6 DEF Fine
    <2> QED
      BY <2>1, <2>2
  <1>5. Cardinality(s) \in T
    <2> HIDE DEF T
    <2>1. Cardinality(s) \in Nat
      BY <1>1
    <2> QED
      BY <1>3, <1>4, <2>1, NatSetInduction
  <1>6. Cardinality(s) <= Cardinality(s)
    BY <1>1
  <1> QED
    BY <1>5, <1>6

\* Nothing sums to nothing.
LEMMA SumOfNone ==
    ASSUME NEW f, DOMAIN f = {}
    PROVE  SumFunction(f) = 0
  <1>1. IsFiniteSet(DOMAIN f)
    BY FS_EmptySet
  <1>2. PICK w : SumsUp(w, f) /\ SumFunction(f) = w[DOMAIN f]
    BY <1>1, SumTurns
  <1> QED
    BY <1>2 DEF SumsUp

\* A finite sum of numbers is one.
LEMMA SumType ==
    ASSUME NEW f, IsFiniteSet(DOMAIN f), \A x \in DOMAIN f : f[x] \in Nat
    PROVE  SumFunction(f) \in Nat
  <1>1. PICK w : SumsUp(w, f) /\ SumFunction(f) = w[DOMAIN f]
    BY SumTurns
  <1>2. w[DOMAIN f] \in Nat
    BY <1>1, SumsAnyOrder
  <1> QED
    BY <1>1, <1>2

\* A function that has one more value sums to that value more.
LEMMA SumOfOneMore ==
    ASSUME NEW f, IsFiniteSet(DOMAIN f), NEW x, x \notin DOMAIN f,
           NEW g, DOMAIN g = DOMAIN f \cup {x}, \A y \in DOMAIN f : g[y] = f[y],
           \A y \in DOMAIN g : g[y] \in Nat
    PROVE  SumFunction(f) \in Nat /\ SumFunction(g) = SumFunction(f) + g[x]
  <1>1. IsFiniteSet(DOMAIN g)
    BY FS_AddElement
  <1>2. PICK v : SumsUp(v, f) /\ SumFunction(f) = v[DOMAIN f]
    BY SumTurns
  <1>3. PICK w : SumsUp(w, g) /\ SumFunction(g) = w[DOMAIN g]
    BY <1>1, SumTurns
  <1>4. v[DOMAIN f] = w[DOMAIN f]
    <2>1. DOMAIN f \in SUBSET DOMAIN f /\ DOMAIN f \subseteq DOMAIN g
      OBVIOUS
    <2>2. \A y \in DOMAIN f : f[y] = g[y]
      OBVIOUS
    <2> QED
      BY <1>2, <1>3, <2>1, <2>2, SumsAgree
  <1>5. w[DOMAIN g] \in Nat /\ \A y \in DOMAIN g : w[DOMAIN g] = g[y] + w[DOMAIN g \ {y}]
    <2>1. DOMAIN g \in SUBSET DOMAIN g
      OBVIOUS
    <2> QED
      BY <1>1, <1>3, <2>1, SumsAnyOrder
  <1>6. w[DOMAIN f] \in Nat
    <2>1. DOMAIN f \in SUBSET DOMAIN g
      OBVIOUS
    <2> QED
      BY <1>1, <1>3, <2>1, SumsAnyOrder
  <1>7. x \in DOMAIN g /\ DOMAIN g \ {x} = DOMAIN f /\ g[x] \in Nat
    OBVIOUS
  <1>8. w[DOMAIN g] = g[x] + w[DOMAIN f]
    BY <1>5, <1>7
  <1> QED
    BY <1>2, <1>3, <1>4, <1>6, <1>7, <1>8

\* Where one value is greater by some amount, so is the sum.
LEMMA SumOfRaised ==
    ASSUME NEW f, IsFiniteSet(DOMAIN f), \A y \in DOMAIN f : f[y] \in Nat, NEW x \in DOMAIN f, NEW n \in Nat,
           NEW g, DOMAIN g = DOMAIN f, \A y \in DOMAIN f : y # x => g[y] = f[y], g[x] = f[x] + n
    PROVE  SumFunction(f) \in Nat /\ SumFunction(g) = SumFunction(f) + n
  <1> DEFINE others == DOMAIN f \ {x}
             h == [y \in others |-> f[y]]
  <1>1. IsFiniteSet(others) /\ x \notin others /\ others \cup {x} = DOMAIN f
    BY FS_Subset
  <1>2. /\ IsFiniteSet(DOMAIN h) /\ x \notin DOMAIN h
        /\ DOMAIN f = DOMAIN h \cup {x} /\ \A y \in DOMAIN h : f[y] = h[y]
        /\ DOMAIN g = DOMAIN h \cup {x} /\ \A y \in DOMAIN h : g[y] = h[y]
    BY <1>1
  <1>3. SumFunction(h) \in Nat /\ SumFunction(f) = SumFunction(h) + f[x]
    <2> HIDE DEF h
    <2> QED
      BY <1>2, SumOfOneMore
  <1>4. SumFunction(g) = SumFunction(h) + g[x]
    <2>1. \A y \in DOMAIN g : g[y] \in Nat
      OBVIOUS
    <2> HIDE DEF h
    <2> QED
      BY <1>2, <2>1, SumOfOneMore
  <1> HIDE DEF h
  <1> QED
    BY <1>3, <1>4
-----------------------------------------------------------------------------
(* What the operators on rows, totals and estimates give.                    *)

Services == {"AWS", "GCP", "AZURE"}

\* A row is estimated, by whatever provider, as some energy of which some counts.
LEMMA EstimateType ==
    ASSUME NEW p \in Services, NEW row \in Rows
    PROVE  /\ Estimate(p, row) \in [outcome: Outcomes, kwh: Nat, counted: Nat]
           /\ Amount(p, row) \in Nat /\ UnknownAmount(p, row) \in Nat
  <1>1. /\ row.kwh \in Nat /\ row.memory \in Nat /\ row.embodied \in Nat /\ row.usage \in Nat
        /\ row.cost \in Nat /\ row.unit \in Units /\ row.kind \in Kinds
    BY DEF Rows
  <1>2. \A n \in Nat : /\ Counted(n) \in [outcome: Outcomes, kwh: Nat, counted: Nat]
                       /\ Uncounted(n) \in [outcome: Outcomes, kwh: Nat, counted: Nat]
                       /\ Counted(n).kwh \in Nat /\ Uncounted(n).kwh \in Nat
    BY DEF Counted, Uncounted, Outcomes
  <1>3. \A e \in {Zero, Unknown, Dropped} : e \in [outcome: Outcomes, kwh: Nat, counted: Nat]
    BY DEF Zero, Unknown, Dropped, Outcomes
  <1>4. Aws(row) \in [outcome: Outcomes, kwh: Nat, counted: Nat]
    BY <1>1, <1>2, <1>3 DEF Aws, AwsIsUnknown, AwsByUnit, AwsHours, AwsSeconds, AwsStorage, AwsNetworking
  <1>5. GcpCompute(row) \in [outcome: Outcomes, kwh: Nat, counted: Nat]
    BY <1>1 DEF GcpCompute, Counted, Outcomes
  <1>6. Gcp(row) \in [outcome: Outcomes, kwh: Nat, counted: Nat]
    BY <1>1, <1>2, <1>3, <1>5 DEF Gcp, GcpIsUnknown, GcpByUnit, GcpStorage, GcpMemory, GcpNetworking
  <1>7. \A with \in BOOLEAN : /\ AzureMemory(row, with) \in [outcome: Outcomes, kwh: Nat, counted: Nat]
                              /\ AzureMemory(row, with).kwh \in Nat
    BY <1>1, <1>2 DEF AzureMemory
  <1>8. AzureHours(row) \in [outcome: Outcomes, kwh: Nat, counted: Nat]
    <2> DEFINE memory == AzureMemory(row, TRUE).kwh
    <2>1. AzureMemory(row, TRUE) \in [outcome: Outcomes, kwh: Nat, counted: Nat] /\ memory \in Nat
      BY <1>7
    <2>2. row.kwh + memory + row.embodied \in Nat
      <3> HIDE DEF memory
      <3> QED
        BY <1>1, <2>1
    <2> QED
      BY <1>2, <2>1, <2>2 DEF AzureHours
  <1>9. Azure(row) \in [outcome: Outcomes, kwh: Nat, counted: Nat]
    BY <1>1, <1>2, <1>3, <1>7, <1>8 DEF Azure, AzureIsUnknown, AzureByUnit, AzureStorage, AzureNetworking
  <1>10. Amount(p, row) \in Nat /\ UnknownAmount(p, row) \in Nat
    BY <1>1 DEF Amount, UnknownAmount
  <1> QED
    BY <1>4, <1>6, <1>9, <1>10 DEF Estimate, Services

Keys == {"A", "B", "total"} \X Units

\* A table of totals has amounts and energies by service and unit.
Table(t) ==
    /\ t = [k \in DOMAIN t |-> t[k]] /\ DOMAIN t \subseteq Keys
    /\ \A k \in DOMAIN t : t[k] \in [amount: Nat, kwh: Nat]

\* Estimates have an energy and a cost, and there are finitely many.
Answer(res) ==
    /\ res = [k \in DOMAIN res |-> res[k]] /\ IsFiniteSet(DOMAIN res)
    /\ \A k \in DOMAIN res : res[k].kwh \in Fraction /\ res[k].cost \in Nat

CostOf(res) == SumFunction([k \in DOMAIN res |-> res[k].cost])

LEMMA EntryType ==
    ASSUME NEW t, Table(t), NEW k
    PROVE  Entry(t, k) \in [amount: Nat, kwh: Nat]
  BY DEF Table, Entry

LEMMA RaisedEntries ==
    ASSUME NEW t, Table(t), NEW k \in Keys, NEW amount \in Nat, NEW kwh \in Nat
    PROVE  /\ Table(Raised(t, k, amount, kwh)) /\ DOMAIN Raised(t, k, amount, kwh) = DOMAIN t \cup {k}
           /\ Entry(Raised(t, k, amount, kwh), k)
              = [amount |-> Entry(t, k).amount + amount, kwh |-> Entry(t, k).kwh + kwh]
           /\ \A e : e # k => Entry(Raised(t, k, amount, kwh), e) = Entry(t, e)
  <1> DEFINE new == [amount |-> Entry(t, k).amount + amount, kwh |-> Entry(t, k).kwh + kwh]
             table == Set(t, k, new)
  <1>1. new \in [amount: Nat, kwh: Nat]
    BY EntryType
  <1> HIDE DEF new
  <1>2. DOMAIN table = DOMAIN t \cup {k} /\ table[k] = new /\ \A e \in DOMAIN t : e # k => table[e] = t[e]
    BY DEF Set
  <1>3. table = [e \in DOMAIN table |-> table[e]]
    BY DEF Set
  <1>4. Raised(t, k, amount, kwh) = table
    BY DEF Raised, new
  <1> HIDE DEF table
  <1>5. Table(table)
    BY <1>1, <1>2, <1>3 DEF Table
  <1>6. Entry(table, k) = new /\ \A e : e # k => Entry(table, e) = Entry(t, e)
    BY <1>2 DEF Entry
  <1> QED
    BY <1>2, <1>4, <1>5, <1>6 DEF new

\* A counted row raises the entry of its service and unit, and the one of its unit.
LEMMA AccumulateEntries ==
    ASSUME NEW t, Table(t), NEW p \in Services, NEW row \in Rows
    PROVE  LET after == AccumulateKilowattHours(t, p, row)
               counted(k) == [amount |-> Entry(t, k).amount + Amount(p, row),
                              kwh |-> Entry(t, k).kwh + CountedKwh(p, row)]
           IN /\ Table(after)
              /\ DOMAIN after = DOMAIN t \cup {<<row.service, row.unit>>, <<"total", row.unit>>}
              /\ row.service \in {"A", "B"} /\ row.unit \in Units
              /\ \A k : Entry(after, k) = IF k \in {<<row.service, row.unit>>, <<"total", row.unit>>}
                                          THEN counted(k) ELSE Entry(t, k)
  <1> DEFINE k1 == <<row.service, row.unit>>
             k2 == <<"total", row.unit>>
             n == Amount(p, row)
             e == CountedKwh(p, row)
             mid == Raised(t, k1, n, e)
  <1>1. row.service \in {"A", "B"} /\ row.unit \in Units
    BY DEF Rows
  <1>2. k1 \in Keys /\ k2 \in Keys /\ k1 # k2
    BY <1>1 DEF Keys
  <1>3. n \in Nat /\ e \in Nat
    BY EstimateType DEF CountedKwh
  <1>4. AccumulateKilowattHours(t, p, row) = Raised(mid, k2, n, e)
    BY DEF AccumulateKilowattHours
  <1> HIDE DEF k1, k2, n, e
  <1>5. /\ Table(mid) /\ DOMAIN mid = DOMAIN t \cup {k1}
        /\ Entry(mid, k1) = [amount |-> Entry(t, k1).amount + n, kwh |-> Entry(t, k1).kwh + e]
        /\ \A k : k # k1 => Entry(mid, k) = Entry(t, k)
    <2>1. k1 \in Keys
      BY <1>2
    <2> QED
      BY <1>3, <2>1, RaisedEntries
  <1> HIDE DEF mid
  <1>6. /\ Table(Raised(mid, k2, n, e)) /\ DOMAIN Raised(mid, k2, n, e) = DOMAIN mid \cup {k2}
        /\ Entry(Raised(mid, k2, n, e), k2) = [amount |-> Entry(mid, k2).amount + n, kwh |-> Entry(mid, k2).kwh + e]
        /\ \A k : k # k2 => Entry(Raised(mid, k2, n, e), k) = Entry(mid, k)
    BY <1>2, <1>3, <1>5, RaisedEntries
  <1>7. \A k : Entry(Raised(mid, k2, n, e), k)
               = IF k \in {k1, k2} THEN [amount |-> Entry(t, k).amount + n, kwh |-> Entry(t, k).kwh + e]
                 ELSE Entry(t, k)
    BY <1>2, <1>5, <1>6
  <1> QED
    BY <1>1, <1>4, <1>5, <1>6, <1>7 DEF k1, k2, n, e

\* What is estimated for an unknown row is a number, though maybe over nothing.
LEMMA UnknownType ==
    ASSUME NEW t, Table(t), NEW p \in Services, NEW row \in Rows
    PROVE  EstimateUnknown(t, p, row) \in Fraction
  <1> DEFINE k == <<"total", row.unit>>
             n == UnknownAmount(p, row)
  <1>1. n \in Nat
    BY EstimateType
  <1>2. ASSUME k \in DOMAIN t
        PROVE  t[k].amount \in Nat /\ t[k].kwh \in Nat
    BY <1>2 DEF Table
  <1>3. ASSUME k \in DOMAIN t
        PROVE  t[k].kwh * n \in Int /\ t[k].amount \in Int
    <2> HIDE DEF n
    <2> QED
      BY <1>1, <1>2, <1>3
  <1> QED
    BY <1>3 DEF EstimateUnknown, Fraction
LEMMA PlusType ==
    ASSUME NEW a \in Fraction, NEW b \in Fraction
    PROVE  Plus(a, b) \in Fraction
  <1>1. a[1] \in Int /\ a[2] \in Int /\ b[1] \in Int /\ b[2] \in Int
    BY DEF Fraction
  <1>2. \A i, j \in Int : i * j \in Int /\ i + j \in Int
    OBVIOUS
  <1>3. a[1] * b[2] \in Int /\ b[1] * a[2] \in Int /\ a[2] * b[2] \in Int /\ a[1] + b[1] \in Int
    BY <1>1, <1>2
  <1>4. a[1] * b[2] + b[1] * a[2] \in Int
    BY <1>2, <1>3
  <1> QED
    BY <1>1, <1>3, <1>4 DEF Plus, Fraction

\* An estimate adds the row's cost to the answer's.
LEMMA AppendCost ==
    ASSUME NEW res, Answer(res), NEW row \in Rows, NEW kwh \in Fraction
    PROVE  LET after == AppendOrAccumulate(res, row, kwh)
           IN /\ Answer(after) /\ DOMAIN after # {}
              /\ CostOf(res) \in Nat /\ CostOf(after) = CostOf(res) + row.cost
  <1> DEFINE k == <<row.day, row.zone, row.service>>
             new == IF k \in DOMAIN res THEN [kwh |-> Plus(res[k].kwh, kwh), cost |-> res[k].cost + row.cost]
                    ELSE [kwh |-> kwh, cost |-> row.cost]
             after == Set(res, k, new)
             f == [e \in DOMAIN res |-> res[e].cost]
             g == [e \in DOMAIN after |-> after[e].cost]
  <1>1. AppendOrAccumulate(res, row, kwh) = after
    BY DEF AppendOrAccumulate
  <1>2. row.cost \in Nat
    BY DEF Rows
  <1> HIDE DEF k
  <1>3. IF k \in DOMAIN res THEN new.cost = res[k].cost + row.cost /\ res[k].cost \in Nat
        ELSE new.cost = row.cost
    BY DEF Answer
  <1>4. new.kwh \in Fraction /\ new.cost \in Nat
    BY <1>2, PlusType DEF Answer
  <1> HIDE DEF new
  <1>5. /\ DOMAIN after = DOMAIN res \cup {k} /\ after = [e \in DOMAIN after |-> after[e]]
        /\ after[k] = new /\ \A e \in DOMAIN res : e # k => after[e] = res[e]
    BY DEF Set
  <1> HIDE DEF after
  <1>6. IsFiniteSet(DOMAIN res) /\ IsFiniteSet(DOMAIN after)
    BY <1>5, FS_AddElement DEF Answer
  <1>7. Answer(after)
    BY <1>4, <1>5, <1>6 DEF Answer
  <1>8. /\ DOMAIN f = DOMAIN res /\ \A e \in DOMAIN f : f[e] = res[e].cost /\ f[e] \in Nat
        /\ DOMAIN g = DOMAIN after /\ \A e \in DOMAIN g : g[e] = after[e].cost /\ g[e] \in Nat
    BY <1>7 DEF Answer
  <1>9. CostOf(res) = SumFunction(f) /\ CostOf(after) = SumFunction(g)
    BY DEF CostOf
  <1> HIDE DEF f, g
  <1>10. \A e \in DOMAIN f : e # k => g[e] = f[e]
    BY <1>5, <1>8
  <1>11. CASE k \in DOMAIN res
    <2>1. DOMAIN g = DOMAIN f /\ k \in DOMAIN f /\ g[k] = f[k] + row.cost
      BY <1>3, <1>5, <1>8, <1>11
    <2>2. SumFunction(f) \in Nat /\ SumFunction(g) = SumFunction(f) + row.cost
      BY <1>2, <1>6, <1>8, <1>10, <2>1, SumOfRaised
    <2> QED
      BY <1>1, <1>5, <1>7, <1>9, <2>2
  <1>12. CASE k \notin DOMAIN res
    <2>1. DOMAIN g = DOMAIN f \cup {k} /\ k \notin DOMAIN f /\ g[k] = row.cost
      BY <1>3, <1>5, <1>8, <1>12
    <2>2. \A e \in DOMAIN f : g[e] = f[e]
      BY <1>10, <2>1
    <2>3. IsFiniteSet(DOMAIN f) /\ \A e \in DOMAIN g : g[e] \in Nat
      BY <1>6, <1>8
    <2>4. SumFunction(f) \in Nat /\ SumFunction(g) = SumFunction(f) + g[k]
      BY <2>1, <2>2, <2>3, SumOfOneMore
    <2> QED
      BY <1>1, <1>5, <1>7, <1>9, <2>1, <2>4
  <1> QED
    BY <1>11, <1>12

\* The first rows of those put aside, and what they cost.
AsideCost(aside, n) == SumFunction([i \in 1 .. n |-> aside[i].cost])

LEMMA AsideCostNext ==
    ASSUME NEW aside \in Seq(Rows), NEW n \in Nat
    PROVE  /\ AsideCost(aside, 0) = 0
           /\ n < Len(aside) =>
                 /\ AsideCost(aside, n) \in Nat
                 /\ AsideCost(aside, n + 1) = AsideCost(aside, n) + aside[n + 1].cost
  <1> DEFINE f == [i \in 1 .. n |-> aside[i].cost]
             g == [i \in 1 .. n + 1 |-> aside[i].cost]
             none == [i \in 1 .. 0 |-> aside[i].cost]
  <1>1. SumFunction(none) = 0
    <2>1. DOMAIN none = {}
      OBVIOUS
    <2> HIDE DEF none
    <2> QED
      BY <2>1, SumOfNone
  <1>2. ASSUME n < Len(aside)
        PROVE  SumFunction(f) \in Nat /\ SumFunction(g) = SumFunction(f) + aside[n + 1].cost
    <2>1. IsFiniteSet(DOMAIN f)
      BY FS_Interval
    <2> DEFINE x == n + 1
    <2>2. /\ x \notin DOMAIN f /\ DOMAIN g = DOMAIN f \cup {x}
          /\ \A i \in DOMAIN f : g[i] = f[i]
          /\ g[x] = aside[n + 1].cost
      OBVIOUS
    <2>3. \A i \in DOMAIN g : g[i] \in Nat
      <3> TAKE i \in DOMAIN g
      <3>1. i \in 1 .. Len(aside)
        BY <1>2
      <3>2. aside[i] \in Rows
        BY <3>1
      <3> QED
        BY <3>2 DEF Rows
    <2> HIDE DEF f, g, x
    <2>4. SumFunction(f) \in Nat /\ SumFunction(g) = SumFunction(f) + g[x]
      BY <2>1, <2>2, <2>3, SumOfOneMore
    <2> QED
      BY <2>2, <2>4
  <1> QED
    BY <1>1, <1>2 DEF AsideCost
LEMMA LargestNumber ==
    ASSUME NEW n \in Nat, NEW T \in SUBSET (1 .. n), T # {}
    PROVE  \E i \in T : \A j \in T : j <= i
  <1> DEFINE down == {n - i : i \in T}
  <1>1. down \in SUBSET Nat /\ down # {}
    <2>1. \A i \in T : n - i \in Nat
      OBVIOUS
    <2> QED
      BY <2>1
  <1>2. PICK m \in down : \A k \in down : m <= k
    <2> HIDE DEF down
    <2> QED
      BY <1>1, LeastNumber
  <1>3. PICK i \in T : m = n - i
    BY <1>2
  <1>4. \A j \in T : n - j \in down
    OBVIOUS
  <1>5. ASSUME NEW j \in T
        PROVE  j <= i
    <2>1. n - i <= n - j
      BY <1>2, <1>3, <1>4
    <2> QED
      BY <2>1
  <1> QED
    BY <1>5

\* Of positions up to n, the greatest is among them and no other is greater.
LEMMA MaxIsGreatest ==
    ASSUME NEW n \in Nat, NEW T \in SUBSET (1 .. n), T # {}
    PROVE  Max(T) \in T /\ \A j \in T : j <= Max(T)
  <1>1. \E i \in T : \A j \in T : i >= j
    BY LargestNumber
  <1> QED
    BY <1>1 DEF Max

\* An answer and the rows put aside, joined one by one: what the library's fold is over sets of positions.
Joined(table, p, res, row) == AppendOrAccumulate(res, row, EstimateUnknown(table, p, row))

JoinsUp(w, res, aside, table, p) ==
    /\ w[{}] = res
    /\ \A s \in SUBSET (DOMAIN aside) : s # {} =>
          w[s] = Joined(table, p, w[s \ {Max(s)}], aside[Max(s)])

LEMMA AsideTurns ==
    ASSUME NEW res, NEW aside \in Seq(Rows), NEW table, NEW p
    PROVE  \E w : /\ JoinsUp(w, res, aside, table, p)
                  /\ WithUnknown(res, aside, table, p)
                     = IF res = Nothing THEN res ELSE w[DOMAIN aside]
  <1> DEFINE D == DOMAIN aside
             Sets(n) == {s \in SUBSET D : Cardinality(s) <= n}
             value(h, s) == IF s = {} THEN res ELSE Joined(table, p, h[s \ {Max(s)}], aside[Max(s)])
             Turn(h, n) == h = [s \in Sets(n) |-> value(h, s)]
             T == {n \in Nat : \E h : Turn(h, n)}
  <1>1. \A s \in SUBSET D :
            /\ Cardinality(s) \in Nat /\ Cardinality(s) <= Cardinality(D)
            /\ s # {} => /\ s \ {Max(s)} \in SUBSET D /\ Cardinality(s) >= 1
                         /\ Cardinality(s \ {Max(s)}) = Cardinality(s) - 1
    <2> TAKE s \in SUBSET D
    <2>1. IsFiniteSet(D)
      BY FS_Interval
    <2>2. IsFiniteSet(s) /\ Cardinality(s) <= Cardinality(D) /\ Cardinality(s) \in Nat
      BY <2>1, FS_Subset, FS_CardinalityType
    <2>3. ASSUME s # {}
          PROVE  /\ s \ {Max(s)} \in SUBSET D /\ Cardinality(s) >= 1
                 /\ Cardinality(s \ {Max(s)}) = Cardinality(s) - 1
      <3>1. Max(s) \in s
        <4>1. s \in SUBSET (1 .. Len(aside)) /\ Len(aside) \in Nat
          OBVIOUS
        <4> HIDE DEF D
        <4> QED
          BY <2>3, <4>1, MaxIsGreatest
      <3>2. Cardinality(s \ {Max(s)}) = Cardinality(s) - 1
        BY <2>2, <3>1, FS_RemoveElement
      <3>3. Cardinality(s) # 0
        BY <2>2, <2>3, FS_EmptySet
      <3> QED
        BY <2>2, <3>1, <3>2, <3>3
    <2> QED
      BY <2>2, <2>3
  <1>2. 0 \in T
    <2> DEFINE h == [s \in Sets(0) |-> res]
    <2>1. \A s \in Sets(0) : s = {}
      <3> SUFFICES ASSUME NEW s \in SUBSET D, Cardinality(s) <= 0, s # {} PROVE FALSE
        OBVIOUS
      <3>1. Cardinality(s) \in Nat /\ Cardinality(s) >= 1
        BY <1>1
      <3> QED
        BY <3>1
    <2>2. Turn(h, 0)
      BY <2>1
    <2> QED
      BY <2>2
  <1>3. ASSUME NEW n \in Nat, n \in T
        PROVE  n + 1 \in T
    <2>1. PICK h : Turn(h, n)
      BY <1>3
    <2> DEFINE g == [s \in Sets(n + 1) |-> value(h, s)]
    <2>2. \A s \in Sets(n) : s \in Sets(n + 1) /\ h[s] = value(h, s)
      <3>1. \A s \in Sets(n) : h[s] = value(h, s)
        <4> HIDE DEF Sets
        <4> QED
          BY <2>1
      <3>2. \A s \in SUBSET D : Cardinality(s) \in Nat
        BY <1>1
      <3>3. \A s \in Sets(n) : s \in Sets(n + 1)
        BY <3>2
      <3> QED
        BY <3>1, <3>3
    <2>3. \A s \in Sets(n) : g[s] = h[s]
      BY <2>2
    <2>4. \A s \in Sets(n + 1) : s # {} => s \ {Max(s)} \in Sets(n)
      <3> SUFFICES ASSUME NEW s \in SUBSET D, Cardinality(s) <= n + 1, s # {}
                   PROVE  s \ {Max(s)} \in Sets(n)
        OBVIOUS
      <3>1. /\ s \ {Max(s)} \in SUBSET D /\ Cardinality(s) \in Nat
            /\ Cardinality(s \ {Max(s)}) = Cardinality(s) - 1
        BY <1>1
      <3> QED
        BY <3>1
    <2>5. \A s \in Sets(n + 1) : g[s] = value(g, s)
      BY <2>3, <2>4
    <2>6. g = [s \in Sets(n + 1) |-> g[s]]
      OBVIOUS
    <2>7. Turn(g, n + 1)
      <3> HIDE DEF g, Sets, value
      <3> QED
        BY <2>5, <2>6
    <2>8. n + 1 \in Nat /\ \E q : Turn(q, n + 1)
      <3> HIDE DEF Turn, g
      <3> QED
        BY <2>7
    <2> HIDE DEF Turn
    <2> QED
      BY <2>8
  <1> DEFINE N == Cardinality(D)
             W(h) == h = [s \in SUBSET D |-> value(h, s)]
  <1>4. \E h : W(h)
    <2>1. N \in Nat
      BY <1>1
    <2>2. N \in T
      <3> HIDE DEF T, N
      <3> QED
        BY <1>2, <1>3, <2>1, NatSetInduction
    <2>3. PICK h : Turn(h, N)
      BY <2>2
    <2>4. Sets(N) = SUBSET D
      BY <1>1
    <2>5. W(h)
      <3> HIDE DEF Sets, N, value
      <3> QED
        BY <2>3, <2>4
    <2> QED
      BY <2>5
  <1> DEFINE w == CHOOSE h : W(h)
  <1>5. W(w)
    BY <1>4
  <1>6. WithUnknown(res, aside, table, p) = IF res = Nothing THEN res ELSE w[D]
    BY DEF WithUnknown, FoldLeft, MapThenFoldSet, Joined
  <1> HIDE DEF w
  <1>7. w[{}] = res /\ \A s \in SUBSET D : s # {} => w[s] = value(w, s)
    BY <1>5
  <1>8. JoinsUp(w, res, aside, table, p)
    BY <1>7 DEF JoinsUp
  <1> QED
    BY <1>6, <1>8

LEMMA CostType ==
    ASSUME NEW res, Answer(res)
    PROVE  CostOf(res) \in Nat /\ (DOMAIN res = {} => CostOf(res) = 0)
  <1> DEFINE f == [k \in DOMAIN res |-> res[k].cost]
  <1>1. IsFiniteSet(DOMAIN f) /\ DOMAIN f = DOMAIN res /\ \A k \in DOMAIN f : f[k] \in Nat
    BY DEF Answer
  <1> HIDE DEF f
  <1>2. DOMAIN f = {} => SumFunction(f) = 0
    BY SumOfNone
  <1>3. SumFunction(f) \in Nat
    BY <1>1, SumType
  <1> QED
    BY <1>1, <1>2, <1>3 DEF CostOf, f

\* Estimating the rows put aside adds their costs - to an answer that has any estimate.
LEMMA WithUnknownCost ==
    ASSUME NEW res, Answer(res), NEW aside \in Seq(Rows), NEW table, Table(table), NEW p \in Services
    PROVE  LET after == WithUnknown(res, aside, table, p)
           IN /\ Answer(after)
              /\ res = Nothing => after = res
              /\ res # Nothing => CostOf(after) = CostOf(res) + AsideCost(aside, Len(aside))
  <1>1. PICK w : /\ JoinsUp(w, res, aside, table, p)
                 /\ WithUnknown(res, aside, table, p) = IF res = Nothing THEN res ELSE w[DOMAIN aside]
    BY AsideTurns
  <1> DEFINE N == Len(aside)
             Right(n) == /\ Answer(w[1 .. n]) /\ AsideCost(aside, n) \in Nat
                         /\ CostOf(w[1 .. n]) = CostOf(res) + AsideCost(aside, n)
             T == {n \in Nat : n <= N => Right(n)}
  <1>2. N \in Nat /\ DOMAIN aside = 1 .. N /\ CostOf(res) \in Nat
    BY CostType
  <1>3. 0 \in T
    <2>1. 1 .. 0 = {} /\ AsideCost(aside, 0) = 0
      BY AsideCostNext
    <2>2. w[1 .. 0] = res
      BY <1>1, <2>1 DEF JoinsUp
    <2>3. Right(0)
      BY <1>2, <2>1, <2>2
    <2> HIDE DEF Right
    <2> QED
      BY <2>3
  <1>4. ASSUME NEW n \in Nat, n \in T
        PROVE  n + 1 \in T
    <2> SUFFICES ASSUME n + 1 <= N PROVE Right(n + 1)
      <3> HIDE DEF Right
      <3> QED
        OBVIOUS
    <2> DEFINE m == n + 1
               row == aside[m]
               s == 1 .. m
    <2>1. Right(n)
      <3> HIDE DEF Right
      <3> QED
        BY <1>2, <1>4
    <2>2. s \in SUBSET (DOMAIN aside) /\ s # {} /\ m \in s /\ \A j \in s : j <= m /\ j \in Int
      <3>1. m \in s /\ \A j \in s : j <= m /\ j \in Int
        OBVIOUS
      <3>2. \A j \in s : j \in 1 .. N
        OBVIOUS
      <3> HIDE DEF s, N
      <3> QED
        BY <1>2, <3>1, <3>2
    <2>3. Max(s) = m
      <3>1. m \in Nat
        OBVIOUS
      <3>2. Max(s) \in s /\ \A j \in s : j <= Max(s)
        <4>1. s \in SUBSET (1 .. m)
          OBVIOUS
        <4> HIDE DEF m, s
        <4> QED
          BY <2>2, <3>1, <4>1, MaxIsGreatest
      <3> HIDE DEF s
      <3> QED
        BY <2>2, <3>2
    <2>4. s \ {m} = 1 .. n
      OBVIOUS
    <2>5. row \in Rows
      BY <1>2
    <2>6. w[s] = Joined(table, p, w[1 .. n], row)
      <3> HIDE DEF s, m
      <3> QED
        BY <1>1, <2>2, <2>3, <2>4 DEF JoinsUp
    <2>7. EstimateUnknown(table, p, row) \in Fraction
      <3> HIDE DEF row
      <3> QED
        BY <2>5, UnknownType
    <2>8. Answer(w[s]) /\ CostOf(w[1 .. n]) \in Nat /\ CostOf(w[s]) = CostOf(w[1 .. n]) + row.cost
      <3> DEFINE old == w[1 .. n]
                 kwh == EstimateUnknown(table, p, row)
      <3>1. w[s] = AppendOrAccumulate(old, row, kwh)
        BY <2>6 DEF Joined
      <3>2. Answer(old) /\ kwh \in Fraction
        BY <2>1, <2>7
      <3> HIDE DEF old, kwh, row, s
      <3>3. Answer(w[s]) /\ CostOf(old) \in Nat /\ CostOf(w[s]) = CostOf(old) + row.cost
        BY <2>5, <3>1, <3>2, AppendCost
      <3> QED
        BY <3>3 DEF old
    <2>9. AsideCost(aside, m) = AsideCost(aside, n) + row.cost
      <3>1. n < Len(aside)
        BY <1>2
      <3> QED
        BY <3>1, AsideCostNext
    <2>10. row.cost \in Nat
      <3> HIDE DEF row
      <3> QED
        BY <2>5 DEF Rows
    <2> HIDE DEF row
    <2>11. CostOf(w[s]) = CostOf(res) + AsideCost(aside, m) /\ AsideCost(aside, m) \in Nat
      <3>1. CostOf(w[1 .. n]) = CostOf(res) + AsideCost(aside, n) /\ AsideCost(aside, n) \in Nat
        BY <2>1
      <3> HIDE DEF s, m
      <3> QED
        BY <1>2, <2>8, <2>9, <2>10, <3>1
    <2> QED
      BY <2>8, <2>11
  <1>5. Right(N)
    <2>1. N \in T
      <3> HIDE DEF T, N
      <3> QED
        BY <1>2, <1>3, <1>4, NatSetInduction
    <2> HIDE DEF Right
    <2> QED
      BY <1>2, <2>1
  <1> QED
    BY <1>1, <1>2, <1>5
-----------------------------------------------------------------------------
(* Types, and the costs of a request's rows so far.                          *)

Phases == {"new", "row", "fetching", "estimate", "done", "failed"}

\* A request that runs is at a row of its bill, and fetches for one in a zone.
Progress(r) ==
    /\ next[r] \in 1 .. Len(rows[r]) + 1
    /\ pc[r] = "new" => next[r] = 1 /\ rows[r] = << >>
    /\ pc[r] \in {"row", "fetching", "estimate"} => next[r] <= Len(rows[r])
    /\ pc[r] = "fetching" => Row(r).zone # NoZone
    /\ Answer(results[r])

Typed ==
    /\ pc \in [Requests -> Phases] /\ provider \in [Requests -> Providers]
    /\ rows \in [Requests -> Seq(Rows)] /\ next \in [Requests -> Nat]
    /\ unknownRows \in [Requests -> Seq(Rows)]
    /\ results = [r \in Requests |-> results[r]]
    /\ totals = [p \in Providers |-> totals[p]] /\ \A p \in Providers : Table(totals[p])
    /\ zones = [k \in DOMAIN zones |-> zones[k]]
    /\ \A k \in DOMAIN zones : k[1] \in Zones /\ zones[k] \in Intensities
    /\ \A r \in Requests : Progress(r)

Kept(r, n) == {i \in 1 .. n : OutcomeAt(r, i) # "dropped"}
BilledCost(r, n) == SumFunction([i \in Kept(r, n) |-> rows[r][i].cost])
NoneEstimated(r, n) == \A i \in 1 .. n : OutcomeAt(r, i) \notin Estimated

\* The estimates and the rows put aside cost what the rows so far cost, without those dropped.
CostSoFar(r) ==
    /\ CostOf(results[r]) + AsideCost(unknownRows[r], Len(unknownRows[r])) = BilledCost(r, next[r] - 1)
    /\ results[r] = Nothing <=> NoneEstimated(r, next[r] - 1)

\* In the end all costs are those of the estimates, if there are any.
CostInFull(r) ==
    CostOf(results[r]) = IF \E i \in DOMAIN rows[r] : OutcomeAt(r, i) \in Estimated
                         THEN BilledCost(r, Len(rows[r])) ELSE 0

CostInv == \A r \in Requests : IF pc[r] = "done" THEN CostInFull(r) ELSE CostSoFar(r)

LEMMA ServicesAsked == Providers \subseteq Services
  BY RowEstimatesAssumption DEF Services

\* A row more is on the bill, unless it is dropped.
LEMMA BilledNext ==
    ASSUME Typed, NEW r \in Requests, NEW n \in Nat, n < Len(rows[r])
    PROVE  /\ BilledCost(r, n) \in Nat
           /\ OutcomeAt(r, n + 1) = "dropped" => BilledCost(r, n + 1) = BilledCost(r, n)
           /\ OutcomeAt(r, n + 1) # "dropped" => BilledCost(r, n + 1) = BilledCost(r, n) + rows[r][n + 1].cost
           /\ BilledCost(r, 0) = 0
  <1> DEFINE x == n + 1
             f == [i \in Kept(r, n) |-> rows[r][i].cost]
             g == [i \in Kept(r, x) |-> rows[r][i].cost]
             none == [i \in Kept(r, 0) |-> rows[r][i].cost]
  <1>1. \A i \in 1 .. x : rows[r][i].cost \in Nat
    <2> TAKE i \in 1 .. x
    <2>1. rows[r] \in Seq(Rows)
      BY DEF Typed
    <2>2. rows[r][i] \in Rows
      BY <2>1
    <2> QED
      BY <2>2 DEF Rows
  <1>2. SumFunction(none) = 0
    <2>1. DOMAIN none = {}
      BY DEF Kept
    <2> HIDE DEF none
    <2> QED
      BY <2>1, SumOfNone
  <1>3. DOMAIN f = Kept(r, n) /\ IsFiniteSet(DOMAIN f) /\ x \notin DOMAIN f
    <2>1. IsFiniteSet(1 .. n) /\ Kept(r, n) \subseteq 1 .. n
      BY FS_Interval DEF Kept
    <2> QED
      BY <2>1, FS_Subset
  <1>4. Kept(r, x) = IF OutcomeAt(r, x) = "dropped" THEN Kept(r, n) ELSE Kept(r, n) \cup {x}
    <2>1. 1 .. x = (1 .. n) \cup {x}
      OBVIOUS
    <2> HIDE DEF x
    <2> QED
      BY <2>1 DEF Kept
  <1>5. \A i \in DOMAIN f : f[i] = rows[r][i].cost /\ f[i] \in Nat
    BY <1>1 DEF Kept
  <1>6. DOMAIN g = Kept(r, x) /\ \A i \in DOMAIN g : g[i] = rows[r][i].cost /\ g[i] \in Nat
    BY <1>1 DEF Kept
  <1>7. SumFunction(f) \in Nat
    <2> HIDE DEF f
    <2> QED
      BY <1>3, <1>5, SumType
  <1>8. ASSUME OutcomeAt(r, x) = "dropped"
        PROVE  SumFunction(g) = SumFunction(f)
    <2>1. Kept(r, x) = Kept(r, n)
      BY <1>4, <1>8
    <2>2. g = f
      BY <2>1
    <2> QED
      BY <2>2
  <1>9. ASSUME OutcomeAt(r, x) # "dropped"
        PROVE  SumFunction(g) = SumFunction(f) + rows[r][x].cost
    <2>1. DOMAIN g = DOMAIN f \cup {x} /\ \A i \in DOMAIN f : g[i] = f[i]
      <3> HIDE DEF f, g
      <3> QED
        BY <1>3, <1>4, <1>5, <1>6, <1>9
    <2>2. SumFunction(g) = SumFunction(f) + g[x]
      <3> HIDE DEF f, g, x
      <3> QED
        BY <1>3, <1>6, <2>1, SumOfOneMore
    <2>3. g[x] = rows[r][x].cost
      <3> HIDE DEF f, g
      <3> QED
        BY <1>6, <2>1
    <2> QED
      BY <2>2, <2>3
  <1> QED
    BY <1>2, <1>7, <1>8, <1>9 DEF BilledCost

LEMMA AsideCostType ==
    ASSUME NEW aside \in Seq(Rows)
    PROVE  AsideCost(aside, Len(aside)) \in Nat
  <1> DEFINE f == [i \in 1 .. Len(aside) |-> aside[i].cost]
  <1>1. IsFiniteSet(DOMAIN f)
    BY FS_Interval
  <1>2. \A i \in DOMAIN f : f[i] \in Nat
    <2>1. \A row \in Rows : row.cost \in Nat
      BY DEF Rows
    <2> QED
      BY <2>1
  <1> HIDE DEF f
  <1>3. SumFunction(f) \in Nat
    BY <1>1, <1>2, SumType
  <1> QED
    BY <1>3 DEF AsideCost, f

\* A row more put aside costs its cost more.
LEMMA AsideNext ==
    ASSUME NEW aside \in Seq(Rows), NEW row \in Rows
    PROVE  LET after == Append(aside, row)
           IN /\ after \in Seq(Rows) /\ AsideCost(aside, Len(aside)) \in Nat
              /\ AsideCost(after, Len(after)) = AsideCost(aside, Len(aside)) + row.cost
  <1> DEFINE after == Append(aside, row)
             N == Len(aside)
  <1>1. after \in Seq(Rows) /\ Len(after) = N + 1 /\ N \in Nat /\ after[N + 1] = row
    OBVIOUS
  <1>2. [i \in 1 .. N |-> after[i].cost] = [i \in 1 .. N |-> aside[i].cost]
    OBVIOUS
  <1>3. AsideCost(after, N) = AsideCost(aside, N)
    BY <1>2 DEF AsideCost
  <1> HIDE DEF after
  <1>4. AsideCost(after, N) \in Nat /\ AsideCost(after, N + 1) = AsideCost(after, N) + after[N + 1].cost
    BY <1>1, AsideCostNext
  <1> QED
    BY <1>1, <1>3, <1>4 DEF after
\* The row a request is at when it is estimated.
LEMMA AtRow ==
    ASSUME Typed, NEW r \in Requests, pc[r] = "estimate"
    PROVE  /\ provider[r] \in Services /\ provider[r] \in Providers /\ Table(totals[provider[r]])
           /\ next[r] \in Nat /\ next[r] \in 1 .. Len(rows[r])
           /\ rows[r] \in Seq(Rows) /\ Row(r) \in Rows /\ Row(r) = rows[r][next[r]]
           /\ unknownRows[r] \in Seq(Rows) /\ Answer(results[r])
           /\ Outcome(provider[r], Row(r)) = OutcomeAt(r, next[r])
           /\ Outcome(provider[r], Row(r)) \in Outcomes
  <1>1. provider[r] \in Services /\ provider[r] \in Providers /\ Table(totals[provider[r]])
    BY ServicesAsked DEF Typed
  <1>2. next[r] \in Nat /\ next[r] \in 1 .. Len(rows[r]) /\ rows[r] \in Seq(Rows)
    <2>1. Progress(r) /\ next[r] \in Nat /\ rows[r] \in Seq(Rows)
      BY DEF Typed
    <2> QED
      BY <2>1 DEF Progress
  <1>3. Row(r) \in Rows /\ Row(r) = rows[r][next[r]]
    BY <1>2 DEF Row
  <1>4. Outcome(provider[r], Row(r)) \in Outcomes
    <2>1. Estimate(provider[r], Row(r)) \in [outcome: Outcomes, kwh: Nat, counted: Nat]
      BY <1>1, <1>3, EstimateType
    <2> QED
      BY <2>1 DEF Outcome
  <1> QED
    BY <1>1, <1>2, <1>3, <1>4 DEF Typed, Progress, OutcomeAt

\* After a row, the estimates and the rows put aside cost what the rows so far cost.
LEMMA RowAdded ==
    ASSUME Typed, CostInv, NEW r \in Requests, pc[r] = "estimate"
    PROVE  /\ Answer(ResultsAfter(r)) /\ UnknownAfter(r) \in Seq(Rows)
           /\ CostOf(ResultsAfter(r)) + AsideCost(UnknownAfter(r), Len(UnknownAfter(r))) = BilledCost(r, next[r])
           /\ ResultsAfter(r) = Nothing <=> NoneEstimated(r, next[r])
  <1> DEFINE n == next[r]
             row == Row(r)
             outcome == Outcome(provider[r], row)
             res == results[r]
             aside == unknownRows[r]
             kwh == IF outcome = "zero" THEN <<0, 1>> ELSE <<RowKwh(provider[r], row), 1>>
  <1>1. /\ provider[r] \in Services /\ n \in Nat /\ n \in 1 .. Len(rows[r]) /\ Len(rows[r]) \in Nat
        /\ row \in Rows /\ row = rows[r][n] /\ aside \in Seq(Rows) /\ Answer(res)
        /\ outcome = OutcomeAt(r, n) /\ outcome \in Outcomes
    BY AtRow
  <1>2. row.cost \in Nat
    BY <1>1 DEF Rows
  <1>3. kwh \in Fraction
    <2>1. Estimate(provider[r], row) \in [outcome: Outcomes, kwh: Nat, counted: Nat]
      BY <1>1, EstimateType
    <2> QED
      BY <2>1 DEF Fraction, RowKwh
  <1>4. /\ BilledCost(r, n - 1) \in Nat
        /\ outcome = "dropped" => BilledCost(r, n) = BilledCost(r, n - 1)
        /\ outcome # "dropped" => BilledCost(r, n) = BilledCost(r, n - 1) + row.cost
    <2> DEFINE m == n - 1
    <2>1. m \in Nat /\ m < Len(rows[r]) /\ m + 1 = n
      BY <1>1
    <2> HIDE DEF m, n
    <2>2. /\ BilledCost(r, m) \in Nat
          /\ OutcomeAt(r, n) = "dropped" => BilledCost(r, n) = BilledCost(r, m)
          /\ OutcomeAt(r, n) # "dropped" => BilledCost(r, n) = BilledCost(r, m) + rows[r][n].cost
      BY <2>1, BilledNext
    <2> HIDE DEF row, outcome
    <2> QED
      BY <1>1, <2>2 DEF m
  <1>5. /\ CostOf(res) + AsideCost(aside, Len(aside)) = BilledCost(r, n - 1)
        /\ res = Nothing <=> NoneEstimated(r, n - 1)
    BY DEF CostInv, CostSoFar
  <1>6. NoneEstimated(r, n) <=> NoneEstimated(r, n - 1) /\ outcome \notin Estimated
    <2>1. 1 .. n = (1 .. n - 1) \cup {n}
      BY <1>1
    <2> HIDE DEF n, outcome
    <2> QED
      BY <1>1, <2>1 DEF NoneEstimated
  <1>7. CostOf(res) \in Nat
    BY <1>1, CostType
  <1> HIDE DEF n, row, outcome, res, aside, kwh
  <1>8. CASE outcome \in Estimated
    <2>1. ResultsAfter(r) = AppendOrAccumulate(res, row, kwh) /\ UnknownAfter(r) = aside
      BY <1>8 DEF ResultsAfter, UnknownAfter, outcome, row, res, aside, kwh, Estimated
    <2>2. /\ Answer(ResultsAfter(r)) /\ DOMAIN ResultsAfter(r) # {}
          /\ CostOf(ResultsAfter(r)) = CostOf(res) + row.cost
      BY <1>1, <1>3, <2>1, AppendCost
    <2>3. ResultsAfter(r) # Nothing
      BY <2>2 DEF Nothing
    <2>4. AsideCost(aside, Len(aside)) \in Nat
      BY <1>1, AsideNext
    <2>5. outcome # "dropped"
      BY <1>8 DEF Estimated
    <2>6. CostOf(ResultsAfter(r)) + AsideCost(aside, Len(aside)) = BilledCost(r, n)
      BY <1>2, <1>4, <1>5, <1>7, <2>2, <2>4, <2>5
    <2> QED
      BY <1>1, <1>6, <1>8, <2>1, <2>2, <2>3, <2>6 DEF n
  <1>9. CASE outcome = "unknown"
    <2>1. ResultsAfter(r) = res /\ UnknownAfter(r) = Append(aside, row)
      BY <1>9 DEF ResultsAfter, UnknownAfter, outcome, row, res, aside
    <2> DEFINE after == Append(aside, row)
    <2>2. /\ after \in Seq(Rows) /\ AsideCost(aside, Len(aside)) \in Nat
          /\ AsideCost(after, Len(after)) = AsideCost(aside, Len(aside)) + row.cost
      BY <1>1, AsideNext
    <2> HIDE DEF after
    <2>3. CostOf(res) + AsideCost(after, Len(after)) = BilledCost(r, n)
      BY <1>2, <1>4, <1>5, <1>7, <1>9, <2>2
    <2>4. outcome \notin Estimated
      BY <1>9 DEF Estimated
    <2> QED
      BY <1>1, <1>5, <1>6, <2>1, <2>2, <2>3, <2>4 DEF n, after
  <1>10. CASE outcome = "dropped"
    <2>1. ResultsAfter(r) = res /\ UnknownAfter(r) = aside
      BY <1>10 DEF ResultsAfter, UnknownAfter, outcome, row, res, aside
    <2>2. outcome \notin Estimated
      BY <1>10 DEF Estimated
    <2> QED
      BY <1>1, <1>4, <1>5, <1>6, <1>10, <2>1, <2>2 DEF n
  <1> QED
    BY <1>1, <1>8, <1>9, <1>10 DEF Outcomes, Estimated

\* The whole bill, once its last row is estimated: nothing is lost and nothing is counted twice.
LEMMA BillAdded ==
    ASSUME Typed, CostInv, NEW r \in Requests, pc[r] = "estimate", next[r] = Len(rows[r]),
           NEW table, Table(table)
    PROVE  LET answer == WithUnknown(ResultsAfter(r), UnknownAfter(r), table, provider[r])
           IN /\ Answer(answer)
              /\ CostOf(answer) = IF \E i \in DOMAIN rows[r] : OutcomeAt(r, i) \in Estimated
                                  THEN BilledCost(r, Len(rows[r])) ELSE 0
  <1> DEFINE answer == WithUnknown(ResultsAfter(r), UnknownAfter(r), table, provider[r])
             aside == UnknownAfter(r)
  <1>1. /\ Answer(ResultsAfter(r)) /\ UnknownAfter(r) \in Seq(Rows)
        /\ CostOf(ResultsAfter(r)) + AsideCost(aside, Len(aside)) = BilledCost(r, next[r])
        /\ ResultsAfter(r) = Nothing <=> NoneEstimated(r, next[r])
    BY RowAdded
  <1>2. provider[r] \in Services /\ DOMAIN rows[r] = 1 .. Len(rows[r])
    BY AtRow
  <1>3. /\ Answer(answer)
        /\ ResultsAfter(r) = Nothing => answer = ResultsAfter(r)
        /\ ResultsAfter(r) # Nothing => CostOf(answer) = CostOf(ResultsAfter(r)) + AsideCost(aside, Len(aside))
    BY <1>1, <1>2, WithUnknownCost
  <1> HIDE DEF answer, aside
  <1>4. CASE ResultsAfter(r) = Nothing
    <2>1. DOMAIN answer = {}
      BY <1>3, <1>4 DEF Nothing
    <2>2. CostOf(answer) = 0
      BY <1>3, <2>1, CostType
    <2>3. ~\E i \in DOMAIN rows[r] : OutcomeAt(r, i) \in Estimated
      BY <1>1, <1>2, <1>4 DEF NoneEstimated
    <2> QED
      BY <1>3, <2>2, <2>3 DEF answer
  <1>5. CASE ResultsAfter(r) # Nothing
    <2>1. \E i \in DOMAIN rows[r] : OutcomeAt(r, i) \in Estimated
      BY <1>1, <1>2, <1>5 DEF NoneEstimated
    <2> QED
      BY <1>1, <1>3, <1>5, <2>1 DEF answer
  <1> QED
    BY <1>4, <1>5
\* The rows of a request whose bill stays.
LEMMA SameBill ==
    ASSUME NEW q \in Requests, provider'[q] = provider[q], rows'[q] = rows[q]
    PROVE  /\ \A i : OutcomeAt(q, i)' = OutcomeAt(q, i)
           /\ \A n : BilledCost(q, n)' = BilledCost(q, n) /\ NoneEstimated(q, n)' = NoneEstimated(q, n)
  <1>1. \A i : OutcomeAt(q, i)' = OutcomeAt(q, i)
    BY DEF OutcomeAt
  <1>2. \A n : Kept(q, n)' = Kept(q, n)
    BY <1>1 DEF Kept
  <1> QED
    BY <1>1, <1>2 DEF BilledCost, NoneEstimated

\* A step of one request leaves the others' bills and costs alone.
LEMMA OneMoves ==
    ASSUME Typed, CostInv, NEW r \in Requests, UNCHANGED provider,
           pc' \in [Requests -> Phases], rows' \in [Requests -> Seq(Rows)], next' \in [Requests -> Nat],
           unknownRows' \in [Requests -> Seq(Rows)], results' = [q \in Requests |-> results'[q]],
           totals' = [p \in Providers |-> totals'[p]], \A p \in Providers : Table(totals'[p]),
           zones' = [k \in DOMAIN zones' |-> zones'[k]],
           \A k \in DOMAIN zones' : k[1] \in Zones /\ zones'[k] \in Intensities,
           \A q \in Requests : q # r =>
              /\ pc'[q] = pc[q] /\ rows'[q] = rows[q] /\ next'[q] = next[q]
              /\ unknownRows'[q] = unknownRows[q] /\ results'[q] = results[q],
           Progress(r)', IF pc'[r] = "done" THEN CostInFull(r)' ELSE CostSoFar(r)'
    PROVE  Typed' /\ CostInv'
  <1>1. ASSUME NEW q \in Requests, q # r
        PROVE  Progress(q)' /\ IF pc'[q] = "done" THEN CostInFull(q)' ELSE CostSoFar(q)'
    <2>1. /\ pc'[q] = pc[q] /\ rows'[q] = rows[q] /\ next'[q] = next[q] /\ provider'[q] = provider[q]
          /\ unknownRows'[q] = unknownRows[q] /\ results'[q] = results[q]
      BY <1>1
    <2>2. Progress(q)'
      BY <2>1 DEF Typed, Progress, Row
    <2>3. /\ \A i : OutcomeAt(q, i)' = OutcomeAt(q, i)
          /\ \A n : BilledCost(q, n)' = BilledCost(q, n) /\ NoneEstimated(q, n)' = NoneEstimated(q, n)
      BY <2>1, SameBill
    <2>4. BilledCost(q, next[q] - 1)' = BilledCost(q, next[q] - 1)
      BY <2>1, <2>3 DEF BilledCost, Kept
    <2>5. NoneEstimated(q, next[q] - 1)' = NoneEstimated(q, next[q] - 1)
      BY <2>1, <2>3 DEF NoneEstimated
    <2>6. BilledCost(q, Len(rows[q]))' = BilledCost(q, Len(rows[q]))
      BY <2>1, <2>3 DEF BilledCost, Kept
    <2>7. CostSoFar(q)' = CostSoFar(q) /\ CostInFull(q)' = CostInFull(q)
      BY <2>1, <2>3, <2>4, <2>5, <2>6 DEF CostSoFar, CostInFull
    <2> QED
      BY <2>1, <2>2, <2>7 DEF CostInv
  <1>2. \A q \in Requests : Progress(q)' /\ IF pc'[q] = "done" THEN CostInFull(q)' ELSE CostSoFar(q)'
    BY <1>1
  <1> QED
    BY <1>2 DEF Typed, CostInv

\* A request that waits for a factor, gets one or fails keeps its rows and its costs.
LEMMA WaitStep ==
    ASSUME Typed, CostInv, NEW r \in Requests, pc[r] \in {"row", "fetching"},
           UNCHANGED <<provider, rows, next, unknownRows, results, totals>>,
           NEW x \in {"fetching", "estimate", "failed"}, pc' = [pc EXCEPT ![r] = x],
           x = "fetching" => Row(r).zone # NoZone,
           zones' = [k \in DOMAIN zones' |-> zones'[k]],
           \A k \in DOMAIN zones' : k[1] \in Zones /\ zones'[k] \in Intensities
    PROVE  Typed' /\ CostInv'
  <1>1. /\ pc' \in [Requests -> Phases] /\ pc'[r] = x
        /\ \A q \in Requests : q # r => pc'[q] = pc[q]
    BY DEF Typed, Phases
  <1>2. Progress(r)'
    BY <1>1 DEF Typed, Progress, Row
  <1>3. CostSoFar(r)'
    <2>1. /\ \A i : OutcomeAt(r, i)' = OutcomeAt(r, i)
          /\ \A n : BilledCost(r, n)' = BilledCost(r, n) /\ NoneEstimated(r, n)' = NoneEstimated(r, n)
      BY SameBill
    <2>2. CostSoFar(r)
      BY DEF CostInv
    <2> QED
      BY <2>1, <2>2 DEF CostSoFar
  <1> QED
    BY <1>1, <1>2, <1>3, OneMoves DEF Typed
\* A bill is a list of rows, and so is what a lookup makes of it.
LEMMA BillType ==
    ASSUME NEW p \in Providers, NEW bill \in Bills(p)
    PROVE  bill \in Seq(Rows) /\ LookupRows(p, bill) \in Seq(Rows)
           /\ (bill = << >> => LookupRows(p, bill) = << >>)
           /\ Len(LookupRows(p, bill)) = Len(bill)
  <1>1. PICK m \in 0 .. MaxRows : bill \in [1 .. m -> BillRows[p]]
    BY DEF Bills, BoundedSeq, SeqOf
  <1>2. m \in Nat /\ BillRows[p] \subseteq Rows
    BY RowEstimatesAssumption
  <1>3. bill \in Seq(Rows) /\ Len(bill) = m /\ DOMAIN bill = 1 .. m
    BY <1>1, <1>2
  <1> DEFINE made == LookupRows(p, bill)
  <1> DEFINE amount == IF p = "GCP" THEN 3600 ELSE 1
  <1>4. \A i \in 1 .. m : [bill[i] EXCEPT !.day = i, !.cost = 1, !.usage = amount] \in Rows
    <2>1. \A row \in Rows : \A d, u \in Nat : [row EXCEPT !.day = d, !.cost = 1, !.usage = u] \in Rows
      BY DEF Rows
    <2>2. \A i \in 1 .. m : bill[i] \in Rows /\ i \in Nat
      BY <1>3
    <2>3. amount \in Nat
      OBVIOUS
    <2> HIDE DEF amount
    <2> QED
      BY <2>1, <2>2, <2>3
  <1>5. made \in [1 .. m -> Rows]
    <2> DEFINE new(i) == [bill[i] EXCEPT !.day = i, !.cost = 1, !.usage = amount]
    <2>1. made = [i \in 1 .. m |-> new(i)]
      BY <1>3 DEF LookupRows
    <2>2. \A i \in 1 .. m : new(i) \in Rows
      <3> HIDE DEF amount
      <3> QED
        BY <1>4
    <2> HIDE DEF new, made
    <2> QED
      BY <2>1, <2>2
  <1>6. made \in Seq(Rows) /\ Len(made) = m
    <2> HIDE DEF made
    <2> QED
      BY <1>2, <1>5
  <1>7. bill = << >> => made = << >>
    <2> HIDE DEF made
    <2> QED
      BY <1>3, <1>6
  <1> QED
    BY <1>3, <1>6, <1>7

\* A bill arrives: no row of it is passed yet.
LEMMA BillStep ==
    ASSUME Typed, CostInv, NEW r \in Requests, NEW bill \in Seq(Rows), Begin(r, bill)
    PROVE  Typed' /\ CostInv'
  <1>1. /\ pc[r] = "new" /\ pc' = [pc EXCEPT ![r] = IF bill = << >> THEN "done" ELSE "row"]
        /\ rows' = [rows EXCEPT ![r] = bill]
        /\ UNCHANGED <<zones, totals, provider, next, unknownRows, results>>
    BY DEF Begin, processVars
  <1>2. /\ pc' \in [Requests -> Phases] /\ rows' \in [Requests -> Seq(Rows)] /\ rows'[r] = bill
        /\ pc'[r] = IF bill = << >> THEN "done" ELSE "row"
        /\ \A q \in Requests : q # r => pc'[q] = pc[q] /\ rows'[q] = rows[q]
    BY <1>1 DEF Typed, Phases
  <1>3. next[r] = 1 /\ Answer(results[r]) /\ unknownRows[r] \in Seq(Rows)
    BY <1>1 DEF Typed, Progress
  <1>4. Len(bill) \in Nat /\ (bill # << >> => 1 <= Len(bill)) /\ (bill = << >> => Len(bill) = 0)
    BY EmptySeq
  <1>5. Progress(r)'
    BY <1>1, <1>2, <1>3, <1>4 DEF Progress
  <1>6. BilledCost(r, next[r] - 1) = 0 /\ BilledCost(r, next[r] - 1)' = 0
    <2> DEFINE none == [i \in Kept(r, next[r] - 1) |-> rows[r][i].cost]
               after == [i \in Kept(r, next[r] - 1)' |-> rows'[r][i].cost]
    <2>1. DOMAIN none = {} /\ DOMAIN after = {}
      BY <1>1, <1>3 DEF Kept
    <2>2. SumFunction(none) = 0 /\ SumFunction(after) = 0
      <3> HIDE DEF none, after
      <3> QED
        BY <2>1, SumOfNone
    <2> QED
      BY <2>2 DEF BilledCost
  <1>7. CostOf(results[r]) \in Nat /\ AsideCost(unknownRows[r], Len(unknownRows[r])) \in Nat
    BY <1>3, CostType, AsideCostType
  <1>8. CostSoFar(r)
    BY <1>1 DEF CostInv
  <1>9. /\ CostOf(results[r]) = 0 /\ results[r] = Nothing
        /\ CostOf(results[r]) + AsideCost(unknownRows[r], Len(unknownRows[r])) = 0
    <2>1. NoneEstimated(r, next[r] - 1)
      BY <1>3 DEF NoneEstimated
    <2> QED
      BY <1>6, <1>7, <1>8, <2>1 DEF CostSoFar
  <1>10. CostSoFar(r)'
    <2>1. NoneEstimated(r, next[r] - 1)'
      BY <1>1, <1>3 DEF NoneEstimated
    <2> QED
      BY <1>1, <1>6, <1>9, <2>1 DEF CostSoFar
  <1>11. bill = << >> => CostInFull(r)'
    <2>1. bill = << >> => DOMAIN rows'[r] = {}
      BY <1>2
    <2> QED
      BY <1>1, <1>9, <2>1 DEF CostInFull
  <1>12. IF pc'[r] = "done" THEN CostInFull(r)' ELSE CostSoFar(r)'
    BY <1>2, <1>10, <1>11
  <1>13. /\ next' \in [Requests -> Nat] /\ unknownRows' \in [Requests -> Seq(Rows)]
         /\ results' = [q \in Requests |-> results'[q]]
         /\ totals' = [p \in Providers |-> totals'[p]] /\ \A p \in Providers : Table(totals'[p])
         /\ zones' = [k \in DOMAIN zones' |-> zones'[k]]
         /\ \A k \in DOMAIN zones' : k[1] \in Zones /\ zones'[k] \in Intensities
    BY <1>1 DEF Typed
  <1>14. \A q \in Requests : q # r =>
            /\ pc'[q] = pc[q] /\ rows'[q] = rows[q] /\ next'[q] = next[q]
            /\ unknownRows'[q] = unknownRows[q] /\ results'[q] = results[q]
    BY <1>1, <1>2
  <1> QED
    BY <1>1, <1>2, <1>5, <1>12, <1>13, <1>14, OneMoves

\* A factor is looked up, fetched or not to be had, and the request goes on or fails.
LEMMA FactorStep ==
    ASSUME Typed, CostInv, NEW r \in Requests,
           \/ GetEmissionsFactors(r) \/ IntensityUnknown(r) \/ IntensityFails(r)
           \/ \E i \in Intensities : IntensityArrives(r, i)
    PROVE  Typed' /\ CostInv'
  <1>1. /\ pc[r] \in {"row", "fetching"}
        /\ UNCHANGED <<provider, rows, next, unknownRows, results, totals>>
    BY DEF GetEmissionsFactors, IntensityUnknown, IntensityFails, IntensityArrives, processVars
  <1>2. CASE GetEmissionsFactors(r)
    <2>1. UNCHANGED zones /\ (\/ pc' = [pc EXCEPT ![r] = "estimate"]
                              \/ Row(r).zone # NoZone /\ pc' = [pc EXCEPT ![r] = "fetching"])
      BY <1>2 DEF GetEmissionsFactors, UseFactor, processVars
    <2> QED
      BY <1>1, <2>1, WaitStep DEF Typed
  <1>3. CASE IntensityUnknown(r) \/ IntensityFails(r)
    <2>1. UNCHANGED zones /\ (pc' = [pc EXCEPT ![r] = "estimate"] \/ pc' = [pc EXCEPT ![r] = "failed"])
      BY <1>3 DEF IntensityUnknown, IntensityFails, UseFactor, processVars
    <2> QED
      BY <1>1, <2>1, WaitStep DEF Typed
  <1>4. ASSUME NEW i \in Intensities, IntensityArrives(r, i)
        PROVE  Typed' /\ CostInv'
    <2>1. /\ pc[r] = "fetching" /\ pc' = [pc EXCEPT ![r] = "estimate"]
          /\ zones' = StoreIntensity(Row(r).zone, Row(r).day, i)
      BY <1>4 DEF IntensityArrives, UseFactor
    <2>2. Row(r).zone \in Zones
      <3>1. /\ Row(r).zone # NoZone /\ next[r] \in 1 .. Len(rows[r]) + 1 /\ next[r] <= Len(rows[r])
            /\ rows[r] \in Seq(Rows)
        BY <2>1 DEF Typed, Progress
      <3>2. Row(r) \in Rows
        BY <3>1 DEF Row
      <3> QED
        BY <3>1, <3>2 DEF Rows
    <2>3. /\ zones' = [k \in DOMAIN zones' |-> zones'[k]]
          /\ \A k \in DOMAIN zones' : k[1] \in Zones /\ zones'[k] \in Intensities
      BY <2>1, <2>2 DEF Typed, StoreIntensity, Set
    <2> QED
      BY <1>1, <2>1, <2>3, WaitStep
  <1> QED
    BY <1>2, <1>3, <1>4
\* The totals stay tables of totals.
LEMMA TotalsTyped ==
    ASSUME Typed, NEW r \in Requests, pc[r] = "estimate"
    PROVE  /\ TotalsAfter(r) = [p \in Providers |-> TotalsAfter(r)[p]]
           /\ \A p \in Providers : Table(TotalsAfter(r)[p])
           /\ \A p \in Providers : p # provider[r] => TotalsAfter(r)[p] = totals[p]
           /\ TotalsAfter(r)[provider[r]] =
                 IF OutcomeAt(r, next[r]) = "counted"
                 THEN AccumulateKilowattHours(totals[provider[r]], provider[r], Row(r))
                 ELSE totals[provider[r]]
  <1> DEFINE p0 == provider[r]
             raised == AccumulateKilowattHours(totals[p0], p0, Row(r))
  <1>1. /\ p0 \in Services /\ p0 \in Providers /\ Table(totals[p0]) /\ Row(r) \in Rows
        /\ Outcome(p0, Row(r)) = OutcomeAt(r, next[r])
    BY AtRow
  <1>2. Table(raised)
    <2> HIDE DEF p0
    <2> QED
      BY <1>1, AccumulateEntries
  <1>3. TotalsAfter(r) = IF OutcomeAt(r, next[r]) = "counted" THEN [totals EXCEPT ![p0] = raised] ELSE totals
    BY <1>1 DEF TotalsAfter
  <1>4. totals = [p \in Providers |-> totals[p]] /\ \A p \in Providers : Table(totals[p])
    BY DEF Typed
  <1> HIDE DEF p0, raised
  <1>5. CASE OutcomeAt(r, next[r]) = "counted"
    <2>1. TotalsAfter(r) = [p \in Providers |-> IF p = p0 THEN raised ELSE totals[p]]
      BY <1>1, <1>3, <1>4, <1>5
    <2> QED
      BY <1>1, <1>2, <1>4, <1>5, <2>1 DEF p0, raised
  <1>6. CASE OutcomeAt(r, next[r]) # "counted"
    BY <1>3, <1>4, <1>6 DEF p0
  <1> QED
    BY <1>5, <1>6

\* A row is estimated, and after the last one the rows put aside.
LEMMA RowStep ==
    ASSUME Typed, CostInv, NEW r \in Requests, EstimateRow(r)
    PROVE  Typed' /\ CostInv'
  <1> DEFINE n == next[r]
             last == ~(n < Len(rows[r]))
             table == totals'[provider[r]]
             answer == WithUnknown(ResultsAfter(r), UnknownAfter(r), table, provider[r])
             result == IF last THEN answer ELSE ResultsAfter(r)
  <1>1. /\ pc[r] = "estimate" /\ totals' = TotalsAfter(r) /\ UNCHANGED <<zones, provider, rows>>
        /\ unknownRows' = [unknownRows EXCEPT ![r] = UnknownAfter(r)]
        /\ next' = [next EXCEPT ![r] = @ + 1]
        /\ pc' = [pc EXCEPT ![r] = IF last THEN "done" ELSE "row"]
        /\ results' = [results EXCEPT ![r] = result]
    BY DEF EstimateRow
  <1>2. n \in Nat /\ n \in 1 .. Len(rows[r]) /\ Len(rows[r]) \in Nat /\ provider[r] \in Providers
    BY <1>1, AtRow
  <1>3. /\ Answer(ResultsAfter(r)) /\ UnknownAfter(r) \in Seq(Rows)
        /\ CostOf(ResultsAfter(r)) + AsideCost(UnknownAfter(r), Len(UnknownAfter(r))) = BilledCost(r, n)
        /\ ResultsAfter(r) = Nothing <=> NoneEstimated(r, n)
    BY <1>1, RowAdded
  <1>4. totals' = [p \in Providers |-> totals'[p]] /\ \A p \in Providers : Table(totals'[p])
    BY <1>1, TotalsTyped
  <1>5. Table(table)
    BY <1>2, <1>4
  <1>6. last => n = Len(rows[r])
    BY <1>2
  <1>7. last => /\ Answer(answer)
                /\ CostOf(answer) = IF \E i \in DOMAIN rows[r] : OutcomeAt(r, i) \in Estimated
                                    THEN BilledCost(r, Len(rows[r])) ELSE 0
    <2> HIDE DEF table
    <2> QED
      BY <1>1, <1>5, <1>6, BillAdded
  <1> HIDE DEF last, answer, table
  <1>8. Answer(result)
    BY <1>3, <1>7
  <1> HIDE DEF result
  <1>9. /\ pc' \in [Requests -> Phases] /\ rows' \in [Requests -> Seq(Rows)] /\ next' \in [Requests -> Nat]
        /\ unknownRows' \in [Requests -> Seq(Rows)] /\ results' = [q \in Requests |-> results'[q]]
        /\ zones' = [k \in DOMAIN zones' |-> zones'[k]]
        /\ \A k \in DOMAIN zones' : k[1] \in Zones /\ zones'[k] \in Intensities
    <2>1. pc' \in [Requests -> Phases]
      BY <1>1 DEF Typed, Phases
    <2>2. rows' \in [Requests -> Seq(Rows)] /\ results' = [q \in Requests |-> results'[q]]
      BY <1>1 DEF Typed
    <2>3. next' \in [Requests -> Nat]
      BY <1>1, <1>2 DEF Typed
    <2>4. unknownRows' \in [Requests -> Seq(Rows)]
      BY <1>1, <1>3 DEF Typed
    <2> QED
      BY <1>1, <2>1, <2>2, <2>3, <2>4 DEF Typed
  <1>10. /\ pc'[r] = IF last THEN "done" ELSE "row"
         /\ next'[r] = n + 1 /\ unknownRows'[r] = UnknownAfter(r) /\ results'[r] = result
         /\ rows'[r] = rows[r] /\ provider'[r] = provider[r]
         /\ \A q \in Requests : q # r =>
               /\ pc'[q] = pc[q] /\ rows'[q] = rows[q] /\ next'[q] = next[q]
               /\ unknownRows'[q] = unknownRows[q] /\ results'[q] = results[q]
    BY <1>1 DEF Typed
  <1>11. Progress(r)'
    <2>1. next'[r] \in 1 .. Len(rows'[r]) + 1 /\ (pc'[r] = "row" => next'[r] <= Len(rows'[r]))
      BY <1>2, <1>10 DEF last
    <2> QED
      BY <1>8, <1>10, <2>1 DEF Progress
  <1>12. /\ \A i : OutcomeAt(r, i)' = OutcomeAt(r, i)
         /\ \A m : BilledCost(r, m)' = BilledCost(r, m) /\ NoneEstimated(r, m)' = NoneEstimated(r, m)
    BY <1>10, SameBill
  <1>13. ASSUME last
         PROVE  CostInFull(r)'
    <2>1. result = answer
      BY <1>13 DEF result
    <2>2. BilledCost(r, Len(rows[r]))' = BilledCost(r, Len(rows[r]))
      BY <1>10, <1>12 DEF BilledCost, Kept
    <2> QED
      BY <1>7, <1>10, <1>12, <1>13, <2>1, <2>2 DEF CostInFull
  <1>14. ASSUME ~last
         PROVE  CostSoFar(r)'
    <2>1. result = ResultsAfter(r)
      BY <1>14 DEF result
    <2>2. next'[r] - 1 = n
      BY <1>2, <1>10
    <2>3. BilledCost(r, next[r] - 1)' = BilledCost(r, n)
      <3>1. Kept(r, next[r] - 1)' = Kept(r, n)
        BY <1>12, <2>2 DEF Kept
      <3> QED
        BY <1>10, <3>1 DEF BilledCost
    <2>4. NoneEstimated(r, next[r] - 1)' = NoneEstimated(r, n)
      BY <1>12, <2>2 DEF NoneEstimated
    <2> QED
      BY <1>3, <1>10, <2>1, <2>3, <2>4 DEF CostSoFar
  <1>15. IF pc'[r] = "done" THEN CostInFull(r)' ELSE CostSoFar(r)'
    BY <1>10, <1>13, <1>14
  <1> QED
    BY <1>1, <1>4, <1>9, <1>10, <1>11, <1>15, OneMoves

LEMMA CostStart == Init => Typed /\ CostInv
  <1> SUFFICES ASSUME Init PROVE Typed /\ CostInv
    OBVIOUS
  <1>1. Answer(Nothing) /\ Table(Nothing) /\ DOMAIN Nothing = {}
    BY FS_EmptySet DEF Answer, Table, Nothing
  <1>2. Typed
    BY <1>1, EmptySeq DEF Init, Typed, Progress, Phases
  <1>3. ASSUME NEW r \in Requests
        PROVE  pc[r] # "done" /\ CostSoFar(r)
    <2>1. /\ pc[r] = "new" /\ results[r] = Nothing /\ unknownRows[r] = << >> /\ next[r] - 1 = 0
      BY DEF Init
    <2>2. CostOf(results[r]) = 0
      BY <1>1, <2>1, CostType
    <2>3. AsideCost(unknownRows[r], Len(unknownRows[r])) = 0
      <3>1. << >> \in Seq(Rows) /\ Len(<< >>) = 0
        BY EmptySeq
      <3> QED
        BY <2>1, <3>1, AsideCostNext
    <2>4. BilledCost(r, next[r] - 1) = 0 /\ NoneEstimated(r, next[r] - 1)
      <3> DEFINE none == [i \in Kept(r, next[r] - 1) |-> rows[r][i].cost]
      <3>1. DOMAIN none = {} /\ NoneEstimated(r, next[r] - 1)
        BY <2>1 DEF Kept, NoneEstimated
      <3>2. SumFunction(none) = 0
        <4> HIDE DEF none
        <4> QED
          BY <3>1, SumOfNone
      <3> QED
        BY <3>1, <3>2 DEF BilledCost
    <2> QED
      BY <2>1, <2>2, <2>3, <2>4 DEF CostSoFar
  <1> QED
    BY <1>2, <1>3 DEF CostInv

LEMMA CostStep == Typed /\ CostInv /\ [Next]_vars => Typed' /\ CostInv'
  <1> SUFFICES ASSUME Typed, CostInv, [Next]_vars
               PROVE  Typed' /\ CostInv'
    OBVIOUS
  <1>1. ASSUME NEW r \in Requests, NEW bill \in Bills(provider[r]),
               UsageArrives(r, bill) \/ LookupArrives(r, bill)
        PROVE  Typed' /\ CostInv'
    <2>1. provider[r] \in Providers
      BY DEF Typed
    <2>2. bill \in Seq(Rows) /\ LookupRows(provider[r], bill) \in Seq(Rows)
      BY <2>1, BillType
    <2> QED
      BY <1>1, <2>2, BillStep DEF UsageArrives, LookupArrives
  <1>2. ASSUME NEW r \in Requests, Step(r)
        PROVE  Typed' /\ CostInv'
    BY <1>2, FactorStep, RowStep DEF Step
  <1>3. CASE UNCHANGED vars
    <2>1. Typed'
      BY <1>3 DEF vars, Typed, Progress, Row
    <2>2. \A r \in Requests : CostSoFar(r)' = CostSoFar(r) /\ CostInFull(r)' = CostInFull(r)
      BY <1>3 DEF vars, CostSoFar, CostInFull, OutcomeAt, BilledCost, Kept, NoneEstimated
    <2> QED
      BY <1>3, <2>1, <2>2 DEF vars, CostInv
  <1> QED
    BY <1>1, <1>2, <1>3 DEF Next

\* The state's types hold: a request is at a row of its bill, the totals are sums of amounts and
\* energies by service and unit, and the store of intensities holds only what the service reported.
THEOREM TypeCorrect == Spec => []TypeOK
  <1>1. ASSUME Typed
        PROVE  TypeOK
    <2>1. \A p \in Providers : \A k \in DOMAIN totals[p] :
             k[1] \in {"A", "B", "total"} /\ k[2] \in Units /\ totals[p][k] \in [amount: Nat, kwh: Nat]
      BY <1>1 DEF Typed, Table, Keys
    <2> QED
      BY <1>1, <2>1 DEF Typed, TypeOK, Progress, Phases, Answer
  <1> QED
    BY <1>1, CostStart, CostStep, PTL DEF Spec

\* No cost of a bill is lost and none is counted twice, but for rows without any estimate - and for
\* unknown usage when there is nothing else on the bill (getEstimates of the three services).
THEOREM CostConservedHolds == Spec => []CostConserved
  <1>1. ASSUME Typed, CostInv
        PROVE  CostConserved
    <2> SUFFICES ASSUME NEW r \in Requests, pc[r] = "done"
                 PROVE  SumFunction([k \in DOMAIN results[r] |-> results[r][k].cost])
                        = IF \E i \in DOMAIN rows[r] : OutcomeAt(r, i) \in Estimated
                          THEN SumFunction([i \in {j \in DOMAIN rows[r] : OutcomeAt(r, j) # "dropped"}
                                               |-> rows[r][i].cost])
                          ELSE 0
      BY DEF CostConserved, Done
    <2>1. CostInFull(r)
      BY <1>1 DEF CostInv
    <2>2. DOMAIN rows[r] = 1 .. Len(rows[r])
      BY <1>1 DEF Typed
    <2> QED
      BY <2>1, <2>2 DEF CostInFull, CostOf, BilledCost, Kept
  <1> QED
    BY <1>1, CostStart, CostStep, PTL DEF Spec
-----------------------------------------------------------------------------
(* The totals behind unknown usage, over all requests.                       *)

KwhOf(p, x) == CountedKwh(p, rows[x[1]][x[2]])
AmountOf(p, x) == Amount(p, rows[x[1]][x[2]])

\* A unit's totals are the sums over what was counted of it, and over the entries of its services.
UnitAddsUp(p, u) ==
    /\ IsFiniteSet(Passed(p, u))
    /\ Entry(totals[p], <<"total", u>>).kwh
       = Entry(totals[p], <<"A", u>>).kwh + Entry(totals[p], <<"B", u>>).kwh
    /\ Entry(totals[p], <<"total", u>>).kwh = SumFunction([x \in Passed(p, u) |-> KwhOf(p, x)])
    /\ Entry(totals[p], <<"total", u>>).amount = SumFunction([x \in Passed(p, u) |-> AmountOf(p, x)])

TotalsInv ==
    \A p \in Providers :
        /\ \A k \in DOMAIN totals[p] : Passed(p, k[2]) # {}
        /\ \A u \in Units : UnitAddsUp(p, u)

LEMMA PassedIs ==
    ASSUME NEW p, NEW u, NEW x
    PROVE  x \in Passed(p, u) <=>
              \E r \in Requests : \E i \in 1 .. next[r] - 1 :
                 x = <<r, i>> /\ provider[r] = p /\ OutcomeAt(r, i) = "counted" /\ rows[r][i].unit = u
  BY DEF Passed, CountedOf

\* What was counted are rows with an energy and an amount.
LEMMA PassedType ==
    ASSUME Typed, NEW p \in Providers, NEW u, NEW x \in Passed(p, u)
    PROVE  KwhOf(p, x) \in Nat /\ AmountOf(p, x) \in Nat
  <1>0. PICK r \in Requests : \E i \in 1 .. next[r] - 1 : x = <<r, i>>
    BY PassedIs
  <1>1. PICK i \in 1 .. next[r] - 1 : x = <<r, i>>
    BY <1>0
  <1>2. next[r] \in 1 .. Len(rows[r]) + 1 /\ rows[r] \in Seq(Rows)
    BY DEF Typed, Progress
  <1>3. rows[r][i] \in Rows
    BY <1>2
  <1>4. p \in Services
    BY ServicesAsked
  <1>5. Estimate(p, rows[r][i]) \in [outcome: Outcomes, kwh: Nat, counted: Nat] /\ Amount(p, rows[r][i]) \in Nat
    BY <1>3, <1>4, EstimateType
  <1>6. x[1] = r /\ x[2] = i
    BY <1>1
  <1> QED
    BY <1>5, <1>6 DEF KwhOf, AmountOf, CountedKwh

\* A step that passes no row and leaves the rows passed as they are.
LEMMA NonePassed ==
    ASSUME Typed, TotalsInv, UNCHANGED <<provider, next, totals>>,
           \A q \in Requests : next[q] = 1 \/ rows'[q] = rows[q]
    PROVE  TotalsInv'
  <1>1. ASSUME NEW p \in Providers, NEW u
        PROVE  /\ Passed(p, u)' = Passed(p, u)
               /\ \A x \in Passed(p, u) : KwhOf(p, x)' = KwhOf(p, x) /\ AmountOf(p, x)' = AmountOf(p, x)
    <2>1. ASSUME NEW r \in Requests, NEW i \in 1 .. next[r] - 1
          PROVE  rows'[r] = rows[r] /\ OutcomeAt(r, i)' = OutcomeAt(r, i)
      <3>1. next[r] # 1 /\ provider'[r] = provider[r]
        OBVIOUS
      <3> QED
        BY <3>1 DEF OutcomeAt
    <2>2. \A x : x \in Passed(p, u)' <=>
              \E r \in Requests : \E i \in 1 .. next[r] - 1 :
                 x = <<r, i>> /\ provider[r] = p /\ OutcomeAt(r, i) = "counted" /\ rows[r][i].unit = u
      BY <2>1 DEF Passed, CountedOf
    <2>3. Passed(p, u)' = Passed(p, u)
      <3>1. ASSUME NEW x PROVE x \in Passed(p, u)' <=> x \in Passed(p, u)
        BY <2>2, PassedIs
      <3> QED
        BY <3>1
    <2>4. ASSUME NEW x \in Passed(p, u)
          PROVE  rows'[x[1]][x[2]] = rows[x[1]][x[2]]
      BY <2>1, PassedIs
    <2> QED
      BY <2>3, <2>4 DEF KwhOf, AmountOf
  <1>2. ASSUME NEW p \in Providers, NEW u \in Units
        PROVE  UnitAddsUp(p, u)'
    <2>1. UnitAddsUp(p, u)
      BY DEF TotalsInv
    <2>2. Passed(p, u)' = Passed(p, u)
      BY <1>1
    <2>3. /\ [x \in Passed(p, u) |-> KwhOf(p, x)]' = [x \in Passed(p, u) |-> KwhOf(p, x)]
          /\ [x \in Passed(p, u) |-> AmountOf(p, x)]' = [x \in Passed(p, u) |-> AmountOf(p, x)]
      BY <1>1, <2>2
    <2> QED
      BY <2>1, <2>2, <2>3 DEF UnitAddsUp
  <1> QED
    BY <1>1, <1>2 DEF TotalsInv

\* A row more is passed, and is counted or not.
LEMMA OnePassed ==
    ASSUME Typed, NEW r \in Requests, next[r] \in Nat \ {0}, UNCHANGED <<provider, rows>>,
           next' = [next EXCEPT ![r] = @ + 1], NEW p \in Providers, NEW u
    PROVE  /\ Passed(p, u)' = IF provider[r] = p /\ OutcomeAt(r, next[r]) = "counted" /\ rows[r][next[r]].unit = u
                              THEN Passed(p, u) \cup {<<r, next[r]>>} ELSE Passed(p, u)
           /\ <<r, next[r]>> \notin Passed(p, u)
  <1>1. /\ \A i : OutcomeAt(r, i)' = OutcomeAt(r, i)
        /\ \A q \in Requests : \A i : OutcomeAt(q, i)' = OutcomeAt(q, i)
    BY DEF OutcomeAt
  <1>2. /\ next'[r] - 1 = next[r] /\ \A q \in Requests : q # r => next'[q] = next[q]
        /\ 1 .. next[r] = (1 .. next[r] - 1) \cup {next[r]}
    <2>1. next'[r] = next[r] + 1 /\ \A q \in Requests : q # r => next'[q] = next[q]
      BY DEF Typed
    <2>2. 1 .. next[r] = (1 .. next[r] - 1) \cup {next[r]}
      OBVIOUS
    <2> QED
      BY <2>1, <2>2
  <1>3. \A x : x \in Passed(p, u)' <=>
              \E q \in Requests : \E i \in 1 .. next'[q] - 1 :
                 x = <<q, i>> /\ provider[q] = p /\ OutcomeAt(q, i) = "counted" /\ rows[q][i].unit = u
    BY <1>1 DEF Passed, CountedOf
  <1>4. <<r, next[r]>> \notin Passed(p, u)
    <2> SUFFICES ASSUME <<r, next[r]>> \in Passed(p, u) PROVE FALSE
      OBVIOUS
    <2>1. PICK q \in Requests : \E i \in 1 .. next[q] - 1 : <<r, next[r]>> = <<q, i>>
      BY PassedIs
    <2>2. next[r] \in 1 .. next[r] - 1
      BY <2>1
    <2> QED
      BY <2>2
  <1>5. ASSUME NEW x
        PROVE  x \in Passed(p, u)' <=>
                  \/ x \in Passed(p, u)
                  \/ /\ x = <<r, next[r]>>
                     /\ provider[r] = p /\ OutcomeAt(r, next[r]) = "counted" /\ rows[r][next[r]].unit = u
    <2>1. ASSUME NEW q \in Requests, NEW i
          PROVE  i \in 1 .. next'[q] - 1 <=> i \in 1 .. next[q] - 1 \/ (q = r /\ i = next[r])
      BY <1>2
    <2> QED
      BY <1>3, <2>1, PassedIs
  <1> QED
    BY <1>4, <1>5
\* A row is estimated: it joins the totals and what they are the sums of, or neither.
LEMMA TotalsStep ==
    ASSUME Typed, TotalsInv, NEW r \in Requests, EstimateRow(r)
    PROVE  TotalsInv'
  <1> DEFINE n == next[r]
             row == Row(r)
             y == <<r, n>>
             adds(p, u) == provider[r] = p /\ OutcomeAt(r, n) = "counted" /\ row.unit = u
  <1>1. /\ pc[r] = "estimate" /\ totals' = TotalsAfter(r) /\ UNCHANGED <<provider, rows>>
        /\ next' = [next EXCEPT ![r] = @ + 1]
    BY DEF EstimateRow
  <1>2. /\ n \in Nat \ {0} /\ row \in Rows /\ row = rows[r][n]
        /\ provider[r] \in Providers /\ provider[r] \in Services /\ Table(totals[provider[r]])
    BY <1>1, AtRow
  <1>3. /\ \A p \in Providers : p # provider[r] => totals'[p] = totals[p]
        /\ totals'[provider[r]] = IF OutcomeAt(r, n) = "counted"
                                  THEN AccumulateKilowattHours(totals[provider[r]], provider[r], row)
                                  ELSE totals[provider[r]]
    BY <1>1, TotalsTyped
  <1>4. \A p \in Providers : \A u :
           /\ Passed(p, u)' = IF adds(p, u) THEN Passed(p, u) \cup {y} ELSE Passed(p, u)
           /\ y \notin Passed(p, u)
    <2> SUFFICES ASSUME NEW p \in Providers, NEW u
                 PROVE  /\ Passed(p, u)' = IF adds(p, u) THEN Passed(p, u) \cup {y} ELSE Passed(p, u)
                        /\ y \notin Passed(p, u)
      OBVIOUS
    <2>1. /\ Passed(p, u)' = IF provider[r] = p /\ OutcomeAt(r, next[r]) = "counted" /\ rows[r][next[r]].unit = u
                             THEN Passed(p, u) \cup {<<r, next[r]>>} ELSE Passed(p, u)
          /\ <<r, next[r]>> \notin Passed(p, u)
      BY <1>1, <1>2, OnePassed
    <2>2. row.unit = rows[r][next[r]].unit
      BY <1>2
    <2> HIDE DEF row
    <2> QED
      BY <2>1, <2>2
  <1>5. \A p : \A x : KwhOf(p, x)' = KwhOf(p, x) /\ AmountOf(p, x)' = AmountOf(p, x)
    BY <1>1 DEF KwhOf, AmountOf
  <1>6. \A p : KwhOf(p, y) = CountedKwh(p, row) /\ AmountOf(p, y) = Amount(p, row)
    BY <1>2 DEF KwhOf, AmountOf
  <1>7. CountedKwh(provider[r], row) \in Nat /\ Amount(provider[r], row) \in Nat
    <2> HIDE DEF row
    <2>1. /\ Estimate(provider[r], row) \in [outcome: Outcomes, kwh: Nat, counted: Nat]
          /\ Amount(provider[r], row) \in Nat
      BY <1>2, EstimateType
    <2> QED
      BY <2>1 DEF CountedKwh
  <1> DEFINE t == totals[provider[r]]
             after == AccumulateKilowattHours(t, provider[r], row)
             counted(k) == [amount |-> Entry(t, k).amount + Amount(provider[r], row),
                            kwh |-> Entry(t, k).kwh + CountedKwh(provider[r], row)]
  <1>8. /\ DOMAIN after = DOMAIN t \cup {<<row.service, row.unit>>, <<"total", row.unit>>}
        /\ row.service \in {"A", "B"} /\ row.unit \in Units
        /\ \A k : Entry(after, k) = IF k \in {<<row.service, row.unit>>, <<"total", row.unit>>}
                                    THEN counted(k) ELSE Entry(t, k)
    <2> DEFINE p0 == provider[r]
    <2>1. Table(t) /\ p0 \in Services /\ row \in Rows
      BY <1>2
    <2> HIDE DEF row, t, p0
    <2> QED
      BY <2>1, AccumulateEntries DEF p0
  <1> HIDE DEF n, row, y, adds, after
  <1>9. \A p \in Providers : \A k \in DOMAIN totals'[p] : Passed(p, k[2])' # {}
    <2> SUFFICES ASSUME NEW p \in Providers, NEW k \in DOMAIN totals'[p] PROVE Passed(p, k[2])' # {}
      OBVIOUS
    <2>1. CASE k \in DOMAIN totals[p]
      <3>1. Passed(p, k[2]) # {}
        BY <2>1 DEF TotalsInv
      <3> QED
        BY <1>4, <3>1
    <2>2. CASE k \notin DOMAIN totals[p]
      <3>1. /\ p = provider[r] /\ OutcomeAt(r, n) = "counted"
            /\ k \in {<<row.service, row.unit>>, <<"total", row.unit>>}
        BY <1>3, <1>8, <2>2 DEF after
      <3>2. adds(p, k[2])
        BY <3>1 DEF adds
      <3> QED
        BY <1>4, <3>2
    <2> QED
      BY <2>1, <2>2
  <1>10. ASSUME NEW p \in Providers, NEW u \in Units, ~adds(p, u)
         PROVE  UnitAddsUp(p, u)'
    <2>1. Passed(p, u)' = Passed(p, u)
      BY <1>4, <1>10
    <2>2. \A s : Entry(totals'[p], <<s, u>>) = Entry(totals[p], <<s, u>>)
      BY <1>3, <1>8, <1>10 DEF adds, after
    <2>3. /\ [x \in Passed(p, u) |-> KwhOf(p, x)]' = [x \in Passed(p, u) |-> KwhOf(p, x)]
          /\ [x \in Passed(p, u) |-> AmountOf(p, x)]' = [x \in Passed(p, u) |-> AmountOf(p, x)]
      BY <1>5, <2>1
    <2>4. UnitAddsUp(p, u)
      BY DEF TotalsInv
    <2> QED
      BY <2>1, <2>2, <2>3, <2>4 DEF UnitAddsUp
  <1>11. ASSUME NEW p \in Providers, NEW u \in Units, adds(p, u)
         PROVE  UnitAddsUp(p, u)'
    <2> DEFINE f == [x \in Passed(p, u) |-> KwhOf(p, x)]
               g == [x \in Passed(p, u)' |-> KwhOf(p, x)]
               a == [x \in Passed(p, u) |-> AmountOf(p, x)]
               b == [x \in Passed(p, u)' |-> AmountOf(p, x)]
    <2>1. /\ p = provider[r] /\ u = row.unit /\ OutcomeAt(r, n) = "counted"
          /\ totals[p] = t /\ totals'[p] = after
      BY <1>3, <1>11 DEF adds, after
    <2>2. Passed(p, u)' = Passed(p, u) \cup {y} /\ y \notin Passed(p, u)
      BY <1>4, <1>11
    <2>3. UnitAddsUp(p, u)
      BY DEF TotalsInv
    <2>4. IsFiniteSet(Passed(p, u)) /\ IsFiniteSet(Passed(p, u)')
      BY <2>2, <2>3, FS_AddElement DEF UnitAddsUp
    <2>5. \A x \in Passed(p, u)' : KwhOf(p, x) \in Nat /\ AmountOf(p, x) \in Nat
      BY <1>6, <1>7, <2>1, <2>2, PassedType
    <2>6. SumFunction(g) = SumFunction(f) + KwhOf(p, y)
      <3>1. /\ DOMAIN f = Passed(p, u) /\ DOMAIN g = DOMAIN f \cup {y} /\ y \notin DOMAIN f
            /\ \A x \in DOMAIN f : g[x] = f[x]
            /\ \A x \in DOMAIN g : g[x] \in Nat
            /\ g[y] = KwhOf(p, y)
        BY <2>2, <2>5
      <3> HIDE DEF f, g
      <3>2. SumFunction(g) = SumFunction(f) + g[y]
        BY <2>4, <3>1, SumOfOneMore
      <3> QED
        BY <3>1, <3>2
    <2>7. SumFunction(b) = SumFunction(a) + AmountOf(p, y)
      <3>1. /\ DOMAIN a = Passed(p, u) /\ DOMAIN b = DOMAIN a \cup {y} /\ y \notin DOMAIN a
            /\ \A x \in DOMAIN a : b[x] = a[x]
            /\ \A x \in DOMAIN b : b[x] \in Nat
            /\ b[y] = AmountOf(p, y)
        BY <2>2, <2>5
      <3> HIDE DEF a, b
      <3>2. SumFunction(b) = SumFunction(a) + b[y]
        BY <2>4, <3>1, SumOfOneMore
      <3> QED
        BY <3>1, <3>2
    <2>8. /\ [x \in Passed(p, u) |-> KwhOf(p, x)]' = g
          /\ [x \in Passed(p, u) |-> AmountOf(p, x)]' = b
      BY <1>5
    <2> HIDE DEF f, g, a, b
    <2>9. /\ Entry(after, <<"total", u>>).kwh = Entry(t, <<"total", u>>).kwh + KwhOf(p, y)
          /\ Entry(after, <<"total", u>>).amount = Entry(t, <<"total", u>>).amount + AmountOf(p, y)
      BY <1>6, <1>8, <2>1
    <2>10. Entry(after, <<"total", u>>).kwh = Entry(after, <<"A", u>>).kwh + Entry(after, <<"B", u>>).kwh
      <3>1. /\ Entry(t, <<"A", u>>).kwh \in Nat /\ Entry(t, <<"B", u>>).kwh \in Nat
            /\ Entry(t, <<"total", u>>).kwh = Entry(t, <<"A", u>>).kwh + Entry(t, <<"B", u>>).kwh
        BY <1>2, <2>1, <2>3, EntryType DEF UnitAddsUp
      <3>2. KwhOf(p, y) \in Nat
        BY <1>6, <1>7, <2>1
      <3>3. CASE row.service = "A"
        <4>1. /\ Entry(after, <<"A", u>>).kwh = Entry(t, <<"A", u>>).kwh + KwhOf(p, y)
              /\ Entry(after, <<"B", u>>).kwh = Entry(t, <<"B", u>>).kwh
          BY <1>6, <1>8, <2>1, <3>3
        <4> QED
          BY <2>9, <3>1, <3>2, <4>1
      <3>4. CASE row.service = "B"
        <4>1. /\ Entry(after, <<"B", u>>).kwh = Entry(t, <<"B", u>>).kwh + KwhOf(p, y)
              /\ Entry(after, <<"A", u>>).kwh = Entry(t, <<"A", u>>).kwh
          BY <1>6, <1>8, <2>1, <3>4
        <4> QED
          BY <2>9, <3>1, <3>2, <4>1
      <3> QED
        BY <1>8, <3>3, <3>4
    <2>11. /\ Entry(t, <<"total", u>>).kwh = SumFunction(f)
           /\ Entry(t, <<"total", u>>).amount = SumFunction(a)
      BY <2>1, <2>3 DEF UnitAddsUp, f, a
    <2>12. /\ Entry(after, <<"total", u>>).kwh = SumFunction(g)
           /\ Entry(after, <<"total", u>>).amount = SumFunction(b)
      BY <2>6, <2>7, <2>9, <2>11
    <2> QED
      BY <2>1, <2>4, <2>8, <2>10, <2>12 DEF UnitAddsUp
  <1> QED
    BY <1>9, <1>10, <1>11 DEF TotalsInv

LEMMA TotalsStart == Init => TotalsInv
  <1> SUFFICES ASSUME Init PROVE TotalsInv
    OBVIOUS
  <1>1. \A p \in Providers : totals[p] = Nothing /\ DOMAIN totals[p] = {}
    BY DEF Init, Nothing
  <1>2. ASSUME NEW p \in Providers, NEW u \in Units
        PROVE  UnitAddsUp(p, u)
    <2> DEFINE f == [x \in Passed(p, u) |-> KwhOf(p, x)]
               a == [x \in Passed(p, u) |-> AmountOf(p, x)]
    <2>1. Passed(p, u) = {}
      <3>1. \A r \in Requests : next[r] = 1
        BY DEF Init
      <3>2. \A x : x \notin Passed(p, u)
        BY <3>1, PassedIs
      <3> QED
        BY <3>2
    <2>2. \A k : Entry(totals[p], k) = [amount |-> 0, kwh |-> 0]
      BY <1>1 DEF Entry
    <2>3. DOMAIN f = {} /\ DOMAIN a = {}
      BY <2>1
    <2>4. SumFunction(f) = 0 /\ SumFunction(a) = 0
      <3> HIDE DEF f, a
      <3> QED
        BY <2>3, SumOfNone
    <2>5. IsFiniteSet(Passed(p, u))
      BY <2>1, FS_EmptySet
    <2> QED
      BY <2>2, <2>4, <2>5 DEF UnitAddsUp
  <1> QED
    BY <1>1, <1>2 DEF TotalsInv

LEMMA TotalsNext == Typed /\ TotalsInv /\ [Next]_vars => TotalsInv'
  <1> SUFFICES ASSUME Typed, TotalsInv, [Next]_vars
               PROVE  TotalsInv'
    OBVIOUS
  <1>1. ASSUME NEW r \in Requests, NEW bill, Begin(r, bill)
        PROVE  TotalsInv'
    <2>1. /\ next[r] = 1 /\ UNCHANGED <<provider, next, totals>>
          /\ \A q \in Requests : q # r => rows'[q] = rows[q]
      BY <1>1 DEF Begin, processVars, Typed, Progress
    <2> QED
      BY <2>1, NonePassed
  <1>2. ASSUME NEW r \in Requests,
               \/ GetEmissionsFactors(r) \/ IntensityUnknown(r) \/ IntensityFails(r)
               \/ \E i \in Intensities : IntensityArrives(r, i)
        PROVE  TotalsInv'
    <2>1. UNCHANGED <<provider, next, totals, rows>>
      BY <1>2 DEF GetEmissionsFactors, IntensityUnknown, IntensityFails, IntensityArrives, processVars
    <2> QED
      BY <2>1, NonePassed
  <1>3. CASE UNCHANGED vars
    BY <1>3, NonePassed DEF vars
  <1> QED
    BY <1>1, <1>2, <1>3, TotalsStep DEF Next, Step, UsageArrives, LookupArrives

\* The totals that unknown usage is estimated from miss no row and count none twice, in whatever
\* order requests interleave or fail (accumulateKilowattHours in FootprintEstimate.ts).
THEOREM TotalsAddUpHolds == Spec => []TotalsAddUp
  <1>1. TotalsInv => TotalsAddUp
    BY DEF TotalsInv, UnitAddsUp, TotalsAddUp, KwhOf, AmountOf
  <1> QED
    BY <1>1, CostStart, CostStep, TotalsStart, TotalsNext, PTL DEF Spec

-----------------------------------------------------------------------------
(* Fractions, and sums of them in any order.                                 *)

\* A fraction has two whole parts, and is the pair of them.
LEMMA FractionParts ==
    ASSUME NEW a \in Fraction
    PROVE  a[1] \in Int /\ a[2] \in Int /\ a = <<a[1], a[2]>>
  BY DEF Fraction

\* A product is nothing only if a factor is.
LEMMA ZeroProduct ==
    ASSUME NEW x \in Int, NEW y \in Int
    PROVE  x * y \in Int /\ x * y = y * x /\ (x * y = 0 <=> x = 0 \/ y = 0)
  OBVIOUS

\* A factor other than 0 on both sides cancels.
LEMMA Cancel ==
    ASSUME NEW x \in Int, NEW y \in Int, NEW z \in Int, z # 0, x * z = y * z
    PROVE  x = y
  <1>1. (x - y) * z = 0
    OBVIOUS
  <1>2. x - y \in Int
    OBVIOUS
  <1>3. x - y = 0
    BY <1>1, <1>2, ZeroProduct
  <1> QED
    BY <1>3

\* To be the same fraction goes both ways.
LEMMA SameSymmetric ==
    ASSUME NEW a, NEW b, SameFraction(a, b)
    PROVE  SameFraction(b, a)
  BY DEF SameFraction

\* Two fractions that are the same as a third are the same.
LEMMA SameTransitive ==
    ASSUME NEW a \in Fraction, NEW b \in Fraction, NEW c \in Fraction,
           SameFraction(a, b), SameFraction(b, c)
    PROVE  SameFraction(a, c)
  <1> DEFINE a1 == a[1]
             a2 == a[2]
             b1 == b[1]
             b2 == b[2]
             c1 == c[1]
             c2 == c[2]
  <1>1. a1 \in Int /\ a2 \in Int /\ b1 \in Int /\ b2 \in Int /\ c1 \in Int /\ c2 \in Int
    BY FractionParts
  <1>2. a1 * b2 = b1 * a2 /\ b1 * c2 = c1 * b2 /\ (a2 = 0 <=> b2 = 0) /\ (b2 = 0 <=> c2 = 0)
    BY DEF SameFraction
  <1> HIDE DEF a1, a2, b1, b2, c1, c2
  <1>3. ASSUME b2 = 0
        PROVE  a1 * c2 = c1 * a2
    BY <1>1, <1>2, <1>3
  <1>4. ASSUME b2 # 0
        PROVE  a1 * c2 = c1 * a2
    <2>1. (a1 * c2) * b2 = (a1 * b2) * c2 /\ (c1 * a2) * b2 = (c1 * b2) * a2
      BY <1>1
    <2>2. (a1 * b2) * c2 = (b1 * a2) * c2 /\ (c1 * b2) * a2 = (b1 * c2) * a2
      BY <1>2
    <2>3. (b1 * a2) * c2 = (b1 * c2) * a2
      BY <1>1
    <2>4. (a1 * c2) * b2 = (c1 * a2) * b2
      BY <2>1, <2>2, <2>3
    <2>5. a1 * c2 \in Int /\ c1 * a2 \in Int
      BY <1>1
    <2> HIDE DEF SameFraction
    <2> QED
      BY <1>1, <1>4, <2>4, <2>5, Cancel
  <1> QED
    BY <1>2, <1>3, <1>4 DEF SameFraction, a1, a2, b1, b2, c1, c2

\* The sum over the product of the denominators.
Crossed(a, b) == <<a[1] * b[2] + b[1] * a[2], a[2] * b[2]>>

\* Adding two fractions is adding them over the product of what is below.
LEMMA PlusIsCrossed ==
    ASSUME NEW a \in Fraction, NEW b \in Fraction
    PROVE  /\ Plus(a, b) \in Fraction /\ Crossed(a, b) \in Fraction
           /\ SameFraction(Plus(a, b), Crossed(a, b)) /\ SameFraction(Crossed(a, b), Plus(a, b))
           /\ SameFraction(a, a)
  <1> DEFINE a1 == a[1]
             a2 == a[2]
             b1 == b[1]
             b2 == b[2]
  <1>1. a1 \in Int /\ a2 \in Int /\ b1 \in Int /\ b2 \in Int
    BY FractionParts
  <1>2. Plus(a, b) \in Fraction
    BY PlusType
  <1>3. Crossed(a, b) = <<a1 * b2 + b1 * a2, a2 * b2>>
    BY DEF Crossed
  <1>4. Plus(a, b) = IF a2 = b2 THEN <<a1 + b1, a2>> ELSE <<a1 * b2 + b1 * a2, a2 * b2>>
    BY DEF Plus
  <1> HIDE DEF a1, a2, b1, b2
  <1>5. a1 * b2 + b1 * a2 \in Int /\ a2 * b2 \in Int
    BY <1>1
  <1>6. Crossed(a, b) \in Fraction
    BY <1>3, <1>5 DEF Fraction
  <1>7. SameFraction(a, a)
    BY DEF SameFraction
  <1>8. CASE a2 = b2
    <2>1. (a1 + b1) * (a2 * b2) = (a1 * b2 + b1 * a2) * a2
      BY <1>1, <1>8
    <2>2. a2 * b2 = 0 <=> a2 = 0
      BY <1>1, <1>8, ZeroProduct
    <2>3. Plus(a, b)[1] = a1 + b1 /\ Plus(a, b)[2] = a2
      BY <1>4, <1>8
    <2>4. Crossed(a, b)[1] = a1 * b2 + b1 * a2 /\ Crossed(a, b)[2] = a2 * b2
      BY <1>3
    <2> QED
      BY <1>2, <1>6, <1>7, <2>1, <2>2, <2>3, <2>4 DEF SameFraction
  <1>9. CASE a2 # b2
    <2>1. Plus(a, b) = Crossed(a, b)
      BY <1>3, <1>4, <1>9
    <2> QED
      BY <1>2, <1>6, <1>7, <2>1 DEF SameFraction
  <1> QED
    BY <1>8, <1>9

\* Equal fractions have equal sums.
LEMMA CrossedCongruent ==
    ASSUME NEW a \in Fraction, NEW b \in Fraction, NEW c \in Fraction, NEW d \in Fraction,
           SameFraction(a, b), SameFraction(c, d)
    PROVE  SameFraction(Crossed(a, c), Crossed(b, d))
  <1> DEFINE a1 == a[1]
             a2 == a[2]
             b1 == b[1]
             b2 == b[2]
             c1 == c[1]
             c2 == c[2]
             d1 == d[1]
             d2 == d[2]
  <1>1. /\ a1 \in Int /\ a2 \in Int /\ b1 \in Int /\ b2 \in Int
        /\ c1 \in Int /\ c2 \in Int /\ d1 \in Int /\ d2 \in Int
    BY FractionParts
  <1>2. /\ a1 * b2 = b1 * a2 /\ (a2 = 0 <=> b2 = 0)
        /\ c1 * d2 = d1 * c2 /\ (c2 = 0 <=> d2 = 0)
    BY DEF SameFraction
  <1>3. /\ Crossed(a, c)[1] = a1 * c2 + c1 * a2 /\ Crossed(a, c)[2] = a2 * c2
        /\ Crossed(b, d)[1] = b1 * d2 + d1 * b2 /\ Crossed(b, d)[2] = b2 * d2
    BY DEF Crossed
  <1> HIDE DEF a1, a2, b1, b2, c1, c2, d1, d2
  <1>4. a2 * c2 = 0 <=> b2 * d2 = 0
    BY <1>1, <1>2, ZeroProduct
  <1>5. (a1 * c2 + c1 * a2) * (b2 * d2) = (a1 * b2) * (c2 * d2) + (c1 * d2) * (a2 * b2)
    BY <1>1
  <1>6. (b1 * d2 + d1 * b2) * (a2 * c2) = (b1 * a2) * (c2 * d2) + (d1 * c2) * (a2 * b2)
    BY <1>1
  <1>7. (a1 * c2 + c1 * a2) * (b2 * d2) = (b1 * d2 + d1 * b2) * (a2 * c2)
    BY <1>2, <1>5, <1>6
  <1> QED
    BY <1>3, <1>4, <1>7 DEF SameFraction

\* Sums of the same fractions are the same.
LEMMA PlusCongruent ==
    ASSUME NEW a \in Fraction, NEW b \in Fraction, NEW c \in Fraction, NEW d \in Fraction,
           SameFraction(a, b), SameFraction(c, d)
    PROVE  SameFraction(Plus(a, c), Plus(b, d))
  <1>1. /\ Plus(a, c) \in Fraction /\ Crossed(a, c) \in Fraction /\ SameFraction(Plus(a, c), Crossed(a, c))
        /\ Plus(b, d) \in Fraction /\ Crossed(b, d) \in Fraction /\ SameFraction(Crossed(b, d), Plus(b, d))
    BY PlusIsCrossed
  <1>2. SameFraction(Crossed(a, c), Crossed(b, d))
    BY CrossedCongruent
  <1>3. SameFraction(Plus(a, c), Crossed(b, d))
    BY <1>1, <1>2, SameTransitive
  <1> QED
    BY <1>1, <1>3, SameTransitive

\* Of two fractions added to a third, either may come first.
LEMMA PlusSwaps ==
    ASSUME NEW a \in Fraction, NEW b \in Fraction, NEW c \in Fraction
    PROVE  /\ Plus(a, Plus(b, c)) \in Fraction /\ Plus(b, Plus(a, c)) \in Fraction
           /\ SameFraction(Plus(a, Plus(b, c)), Plus(b, Plus(a, c)))
  <1> DEFINE ab == Plus(a, c)
             bc == Plus(b, c)
             xab == Crossed(a, c)
             xbc == Crossed(b, c)
  <1>1. /\ ab \in Fraction /\ xab \in Fraction /\ SameFraction(ab, xab) /\ SameFraction(xab, ab)
        /\ bc \in Fraction /\ xbc \in Fraction /\ SameFraction(bc, xbc) /\ SameFraction(xbc, bc)
        /\ SameFraction(a, a) /\ SameFraction(b, b)
    BY PlusIsCrossed
  <1>2. Crossed(a, xbc) = Crossed(b, xab)
    <2> DEFINE a1 == a[1]
               a2 == a[2]
               b1 == b[1]
               b2 == b[2]
               c1 == c[1]
               c2 == c[2]
    <2>1. a1 \in Int /\ a2 \in Int /\ b1 \in Int /\ b2 \in Int /\ c1 \in Int /\ c2 \in Int
      BY FractionParts
    <2>2. Crossed(a, xbc) = <<a1 * (b2 * c2) + (b1 * c2 + c1 * b2) * a2, a2 * (b2 * c2)>>
      BY DEF Crossed
    <2>3. Crossed(b, xab) = <<b1 * (a2 * c2) + (a1 * c2 + c1 * a2) * b2, b2 * (a2 * c2)>>
      BY DEF Crossed
    <2> HIDE DEF a1, a2, b1, b2, c1, c2, xab, xbc
    <2>4. /\ a1 * (b2 * c2) + (b1 * c2 + c1 * b2) * a2 = b1 * (a2 * c2) + (a1 * c2 + c1 * a2) * b2
          /\ a2 * (b2 * c2) = b2 * (a2 * c2)
      BY <2>1
    <2> QED
      BY <2>2, <2>3, <2>4
  <1> HIDE DEF ab, bc, xab, xbc
  <1>3. SameFraction(Crossed(a, bc), Crossed(a, xbc)) /\ SameFraction(Crossed(b, xab), Crossed(b, ab))
    BY <1>1, CrossedCongruent
  <1>4. /\ Plus(a, bc) \in Fraction /\ Crossed(a, bc) \in Fraction /\ SameFraction(Plus(a, bc), Crossed(a, bc))
        /\ Plus(b, ab) \in Fraction /\ Crossed(b, ab) \in Fraction /\ SameFraction(Crossed(b, ab), Plus(b, ab))
        /\ Crossed(a, xbc) \in Fraction
    BY <1>1, PlusIsCrossed
  <1>5. SameFraction(Plus(a, bc), Crossed(a, xbc))
    BY <1>3, <1>4, SameTransitive
  <1>6. SameFraction(Plus(a, bc), Crossed(b, ab))
    BY <1>2, <1>3, <1>4, <1>5, SameTransitive
  <1>7. SameFraction(Plus(a, bc), Plus(b, ab))
    BY <1>4, <1>6, SameTransitive
  <1> QED
    BY <1>4, <1>7 DEF ab, bc

\* w[s] is the sum of "first" and the fractions of f on s, taken one by one.
FractionsUp(w, first, f) ==
    \A s \in SUBSET DOMAIN f : w[s] = IF s = {} THEN first ELSE Plus(f[Some(s)], w[s \ {Some(s)}])

\* The sum of a function of fractions comes from taking them one by one.
LEMMA FractionTurns ==
    ASSUME NEW first, NEW f, IsFiniteSet(DOMAIN f)
    PROVE  \E w : FractionsUp(w, first, f) /\ SumOfFractions(first, f) = w[DOMAIN f]
  <1> DEFINE D == DOMAIN f
             Sets(n) == {s \in SUBSET D : Cardinality(s) <= n}
             Turn(h, n) == h = [s \in Sets(n) |-> IF s = {} THEN first ELSE Plus(f[Some(s)], h[s \ {Some(s)}])]
             T == {n \in Nat : \E h : Turn(h, n)}
  <1>1. \A s \in SUBSET D :
            /\ Cardinality(s) \in Nat /\ Cardinality(s) <= Cardinality(D)
            /\ s # {} => /\ Some(s) \in s /\ s \ {Some(s)} \in SUBSET D /\ Cardinality(s) >= 1
                         /\ Cardinality(s \ {Some(s)}) = Cardinality(s) - 1
    <2> TAKE s \in SUBSET D
    <2>1. IsFiniteSet(s) /\ Cardinality(s) <= Cardinality(D) /\ Cardinality(s) \in Nat
      BY FS_Subset, FS_CardinalityType
    <2>2. ASSUME s # {}
          PROVE  /\ Some(s) \in s /\ s \ {Some(s)} \in SUBSET D /\ Cardinality(s) >= 1
                 /\ Cardinality(s \ {Some(s)}) = Cardinality(s) - 1
      <3>1. Some(s) \in s
        BY <2>2 DEF Some
      <3>2. Cardinality(s \ {Some(s)}) = Cardinality(s) - 1
        BY <2>1, <3>1, FS_RemoveElement
      <3>3. Cardinality(s) # 0
        BY <2>1, <2>2, FS_EmptySet
      <3> QED
        BY <2>1, <3>1, <3>2, <3>3
    <2> QED
      BY <2>1, <2>2
  <1>2. 0 \in T
    <2> DEFINE h == [s \in Sets(0) |-> first]
    <2>1. \A s \in Sets(0) : s = {}
      <3> SUFFICES ASSUME NEW s \in SUBSET D, Cardinality(s) <= 0, s # {} PROVE FALSE
        OBVIOUS
      <3>1. Cardinality(s) \in Nat /\ Cardinality(s) >= 1
        BY <1>1
      <3> QED
        BY <3>1
    <2>2. Turn(h, 0)
      BY <2>1
    <2> QED
      BY <2>2
  <1>3. ASSUME NEW n \in Nat, n \in T
        PROVE  n + 1 \in T
    <2>1. PICK h : Turn(h, n)
      BY <1>3
    <2> DEFINE value(s) == IF s = {} THEN first ELSE Plus(f[Some(s)], h[s \ {Some(s)}])
               g == [s \in Sets(n + 1) |-> value(s)]
    <2>2. \A s \in Sets(n) : s \in Sets(n + 1) /\ h[s] = value(s)
      <3>1. \A s \in Sets(n) : h[s] = value(s)
        <4> HIDE DEF Sets
        <4> QED
          BY <2>1
      <3>2. \A s \in SUBSET D : Cardinality(s) \in Nat
        BY <1>1
      <3>3. \A s \in Sets(n) : s \in Sets(n + 1)
        BY <3>2
      <3> QED
        BY <3>1, <3>3
    <2>3. \A s \in Sets(n) : g[s] = h[s]
      BY <2>2
    <2>4. \A s \in Sets(n + 1) : s # {} => s \ {Some(s)} \in Sets(n)
      BY <1>1
    <2>5. \A s \in Sets(n + 1) : g[s] = IF s = {} THEN first ELSE Plus(f[Some(s)], g[s \ {Some(s)}])
      BY <2>3, <2>4
    <2>6. g = [s \in Sets(n + 1) |-> g[s]]
      OBVIOUS
    <2>7. Turn(g, n + 1)
      <3> HIDE DEF g, Sets
      <3> QED
        BY <2>5, <2>6
    <2>8. n + 1 \in Nat /\ \E q : Turn(q, n + 1)
      <3> HIDE DEF Turn, g
      <3> QED
        BY <2>7
    <2> HIDE DEF Turn
    <2> QED
      BY <2>8
  <1> DEFINE N == Cardinality(D)
             W(h) == h = [s \in SUBSET D |-> IF s = {} THEN first ELSE Plus(f[Some(s)], h[s \ {Some(s)}])]
  <1>4. \E h : W(h)
    <2>1. N \in Nat
      BY FS_CardinalityType
    <2>2. N \in T
      <3> HIDE DEF T, N
      <3> QED
        BY <1>2, <1>3, <2>1, NatSetInduction
    <2>3. PICK h : Turn(h, N)
      BY <2>2
    <2>4. Sets(N) = SUBSET D
      BY <1>1
    <2>5. W(h)
      <3> HIDE DEF Sets, N
      <3> QED
        BY <2>3, <2>4
    <2> QED
      BY <2>5
  <1> DEFINE w == CHOOSE h : W(h)
  <1>5. W(w)
    BY <1>4
  <1>6. SumOfFractions(first, f) = w[D]
    BY DEF SumOfFractions, FoldFunction, FoldFunctionOnSet, MapThenFoldSet, Some
  <1> HIDE DEF w
  <1>7. FractionsUp(w, first, f)
    BY <1>5 DEF FractionsUp
  <1> QED
    BY <1>6, <1>7

\* Whichever fraction is added last, the sum is the same.
LEMMA FractionsAnyOrder ==
    ASSUME NEW first \in Fraction, NEW f, IsFiniteSet(DOMAIN f), \A x \in DOMAIN f : f[x] \in Fraction,
           NEW w, FractionsUp(w, first, f), NEW s \in SUBSET DOMAIN f
    PROVE  w[s] \in Fraction /\ \A x \in s : SameFraction(w[s], Plus(f[x], w[s \ {x}]))
  <1> DEFINE D == DOMAIN f
             Fine(t) == w[t] \in Fraction /\ \A x \in t : SameFraction(w[t], Plus(f[x], w[t \ {x}]))
             T == {n \in Nat : \A t \in SUBSET D : Cardinality(t) <= n => Fine(t)}
  <1>1. \A t \in SUBSET D : /\ IsFiniteSet(t) /\ Cardinality(t) \in Nat /\ (Cardinality(t) = 0 => t = {})
                            /\ \A x \in t : t \ {x} \in SUBSET D /\ Cardinality(t \ {x}) = Cardinality(t) - 1
    <2> TAKE t \in SUBSET D
    <2>1. IsFiniteSet(t)
      BY FS_Subset
    <2> QED
      BY <2>1, FS_RemoveElement, FS_CardinalityType, FS_EmptySet
  <1>2. \A t \in SUBSET D : /\ t = {} => w[t] = first
                            /\ t # {} => Some(t) \in t /\ w[t] = Plus(f[Some(t)], w[t \ {Some(t)}])
    BY DEF FractionsUp, Some
  <1>3. 0 \in T
    <2> SUFFICES ASSUME NEW t \in SUBSET D, Cardinality(t) <= 0 PROVE Fine(t)
      OBVIOUS
    <2>1. Cardinality(t) = 0
      BY <1>1
    <2>2. t = {}
      BY <1>1, <2>1
    <2>3. w[t] = first
      BY <1>2, <2>2
    <2> QED
      BY <2>2, <2>3
  <1>4. ASSUME NEW n \in Nat, n \in T
        PROVE  n + 1 \in T
    <2> SUFFICES ASSUME NEW t \in SUBSET D, Cardinality(t) <= n + 1
                 PROVE  Fine(t)
      <3> HIDE DEF Fine
      <3> QED
        OBVIOUS
    <2>1. CASE t = {}
      <3>1. w[t] = first
        BY <1>2, <2>1
      <3> QED
        BY <2>1, <3>1
    <2>2. CASE t # {}
      <3> DEFINE c == Some(t)
      <3>1. c \in t /\ w[t] = Plus(f[c], w[t \ {c}])
        BY <1>2, <2>2
      <3>2. \A u \in SUBSET D : Cardinality(u) <= n => Fine(u)
        BY <1>4
      <3> HIDE DEF c, Fine
      <3>3. \A x \in t : /\ Fine(t \ {x}) /\ f[x] \in Fraction
                         /\ \A y \in t : y # x => Fine((t \ {x}) \ {y})
        <4> TAKE x \in t
        <4>1. t \ {x} \in SUBSET D /\ Cardinality(t \ {x}) = Cardinality(t) - 1 /\ Cardinality(t) \in Nat
          BY <1>1
        <4>2. Fine(t \ {x})
          BY <3>2, <4>1
        <4>3. ASSUME NEW y \in t, y # x
              PROVE  Fine((t \ {x}) \ {y})
          <5>1. /\ (t \ {x}) \ {y} \in SUBSET D
                /\ Cardinality((t \ {x}) \ {y}) = Cardinality(t \ {x}) - 1
            BY <1>1, <4>1, <4>3
          <5> QED
            BY <3>2, <4>1, <5>1
        <4> QED
          BY <4>2, <4>3
      <3>4. w[t \ {c}] \in Fraction /\ f[c] \in Fraction
        BY <3>1, <3>3 DEF Fine
      <3>5. w[t] \in Fraction /\ SameFraction(w[t], w[t])
        BY <3>1, <3>4, PlusType, PlusIsCrossed
      <3>6. ASSUME NEW x \in t, x # c
            PROVE  SameFraction(w[t], Plus(f[x], w[t \ {x}]))
        <4> DEFINE u == (t \ {c}) \ {x}
                   fx == f[x]
                   fc == f[c]
                   wc == w[t \ {c}]
                   wx == w[t \ {x}]
                   wu == w[u]
        <4>1. SameFraction(wc, Plus(fx, wu))
          BY <3>1, <3>3, <3>6 DEF Fine
        <4>2. u = (t \ {x}) \ {c}
          OBVIOUS
        <4>3. SameFraction(wx, Plus(fc, wu))
          <5> HIDE DEF u
          <5> QED
            BY <3>1, <3>3, <3>6, <4>2 DEF Fine
        <4>4. wu \in Fraction /\ fc \in Fraction /\ fx \in Fraction /\ wc \in Fraction /\ wx \in Fraction
          <5> HIDE DEF u
          <5> QED
            BY <3>1, <3>3, <3>6, <4>2 DEF Fine
        <4>5. w[t] = Plus(fc, wc)
          BY <3>1
        <4> HIDE DEF u, fx, fc, wc, wx, wu
        <4>6. /\ Plus(fx, wu) \in Fraction /\ Plus(fc, wu) \in Fraction /\ Plus(fx, wx) \in Fraction
              /\ Plus(fc, wc) \in Fraction /\ Plus(fc, Plus(fx, wu)) \in Fraction
              /\ Plus(fx, Plus(fc, wu)) \in Fraction
              /\ SameFraction(fc, fc) /\ SameFraction(fx, fx)
          BY <4>4, PlusType, PlusIsCrossed
        <4>7. SameFraction(Plus(fc, wc), Plus(fc, Plus(fx, wu)))
          BY <4>1, <4>4, <4>6, PlusCongruent
        <4>8. SameFraction(Plus(fc, Plus(fx, wu)), Plus(fx, Plus(fc, wu)))
          BY <4>4, PlusSwaps
        <4>9. SameFraction(Plus(fx, wx), Plus(fx, Plus(fc, wu)))
          BY <4>3, <4>4, <4>6, PlusCongruent
        <4>10. SameFraction(Plus(fx, Plus(fc, wu)), Plus(fx, wx))
          BY <4>9, SameSymmetric
        <4>11. SameFraction(Plus(fc, wc), Plus(fx, Plus(fc, wu)))
          BY <4>6, <4>7, <4>8, SameTransitive
        <4>12. SameFraction(Plus(fc, wc), Plus(fx, wx))
          BY <4>6, <4>10, <4>11, SameTransitive
        <4> QED
          BY <4>5, <4>12 DEF fx, wx
      <3>7. \A x \in t : SameFraction(w[t], Plus(f[x], w[t \ {x}]))
        BY <3>1, <3>5, <3>6
      <3> QED
        BY <3>5, <3>7 DEF Fine
    <2> QED
      BY <2>1, <2>2
  <1>5. Cardinality(s) \in T
    <2> HIDE DEF T
    <2>1. Cardinality(s) \in Nat
      BY <1>1
    <2> QED
      BY <1>3, <1>4, <2>1, NatSetInduction
  <1>6. Cardinality(s) <= Cardinality(s)
    BY <1>1
  <1> QED
    BY <1>5, <1>6

\* Fractions are added in either order.
LEMMA PlusCommutes ==
    ASSUME NEW a \in Fraction, NEW b \in Fraction
    PROVE  Plus(a, b) = Plus(b, a)
  <1> DEFINE a1 == a[1]
             a2 == a[2]
             b1 == b[1]
             b2 == b[2]
  <1>1. a1 \in Int /\ a2 \in Int /\ b1 \in Int /\ b2 \in Int
    BY FractionParts
  <1>2. /\ Plus(a, b) = IF a2 = b2 THEN <<a1 + b1, a2>> ELSE <<a1 * b2 + b1 * a2, a2 * b2>>
        /\ Plus(b, a) = IF b2 = a2 THEN <<b1 + a1, b2>> ELSE <<b1 * a2 + a1 * b2, b2 * a2>>
    BY DEF Plus
  <1> HIDE DEF a1, a2, b1, b2
  <1>3. a1 + b1 = b1 + a1 /\ a1 * b2 + b1 * a2 = b1 * a2 + a1 * b2 /\ a2 * b2 = b2 * a2
    BY <1>1
  <1> QED
    BY <1>2, <1>3

\* Nothing at all, as a fraction, adds nothing.
LEMMA PlusNone ==
    ASSUME NEW a \in Fraction
    PROVE  <<0, 1>> \in Fraction /\ SameFraction(a, Plus(a, <<0, 1>>))
  <1> DEFINE a1 == a[1]
             a2 == a[2]
             sum == Plus(a, <<0, 1>>)
  <1>1. a1 \in Int /\ a2 \in Int
    BY FractionParts
  <1>2. sum = IF a2 = 1 THEN <<a1 + 0, a2>> ELSE <<a1 * 1 + 0 * a2, a2 * 1>>
    BY DEF Plus
  <1> HIDE DEF a1, a2, sum
  <1>3. sum[1] = a1 /\ sum[2] = a2
    BY <1>1, <1>2
  <1> QED
    BY <1>3 DEF SameFraction, Fraction, a1, a2, sum

\* The day, region, service and account that an estimate belongs to.
KeyOf(row) == <<row.day, row.zone, row.service>>

\* An estimate of some energy joined that of its key and no other.
Joins(after, res, row, kwh) ==
    /\ Answer(after) /\ DOMAIN after = DOMAIN res \cup {KeyOf(row)}
    /\ after[KeyOf(row)].kwh = IF KeyOf(row) \in DOMAIN res THEN Plus(res[KeyOf(row)].kwh, kwh) ELSE kwh
    /\ \A k \in DOMAIN res : k # KeyOf(row) => after[k].kwh = res[k].kwh

\* An estimate adds its energy to that of its row's key, and to no other.
LEMMA AppendKwh ==
    ASSUME NEW res, Answer(res), NEW row \in Rows, NEW kwh \in Fraction
    PROVE  Joins(AppendOrAccumulate(res, row, kwh), res, row, kwh)
  <1> DEFINE k == KeyOf(row)
             new == IF k \in DOMAIN res THEN [kwh |-> Plus(res[k].kwh, kwh), cost |-> res[k].cost + row.cost]
                    ELSE [kwh |-> kwh, cost |-> row.cost]
             after == Set(res, k, new)
  <1>1. AppendOrAccumulate(res, row, kwh) = after
    BY DEF AppendOrAccumulate, KeyOf
  <1>2. Answer(AppendOrAccumulate(res, row, kwh))
    BY AppendCost
  <1>3. DOMAIN after = DOMAIN res \cup {k} /\ after[k] = new /\ \A e \in DOMAIN res : e # k => after[e] = res[e]
    <2> HIDE DEF k, new
    <2> QED
      BY DEF Set
  <1>4. new.kwh = IF k \in DOMAIN res THEN Plus(res[k].kwh, kwh) ELSE kwh
    <2> HIDE DEF k
    <2> QED
      OBVIOUS
  <1> HIDE DEF after, new, k
  <1> QED
    BY <1>1, <1>2, <1>3, <1>4 DEF k, Joins

\* The rows put aside join a key's energy as fractions f do, each where its row is on the bill.
LEMMA WithUnknownKwh ==
    ASSUME NEW res, Answer(res), res # Nothing, NEW aside \in Seq(Rows),
           NEW table, Table(table), NEW p \in Services, NEW k, NEW first \in Fraction,
           IF k \in DOMAIN res THEN SameFraction(res[k].kwh, first) ELSE first = <<0, 1>>,
           NEW at, \A i, j \in 1 .. Len(aside) : at[i] = at[j] => i = j,
           NEW f, IsFiniteSet(DOMAIN f), \A x \in DOMAIN f : f[x] \in Fraction,
           DOMAIN f = {at[j] : j \in {i \in 1 .. Len(aside) : KeyOf(aside[i]) = k}},
           \A j \in 1 .. Len(aside) :
              KeyOf(aside[j]) = k => SameFraction(EstimateUnknown(table, p, aside[j]), f[at[j]])
    PROVE  LET after == WithUnknown(res, aside, table, p)
           IN /\ k \in DOMAIN after <=> k \in DOMAIN res \/ DOMAIN f # {}
              /\ SumOfFractions(first, f) \in Fraction
              /\ k \in DOMAIN after => SameFraction(after[k].kwh, SumOfFractions(first, f))
  <1>1. PICK w : /\ JoinsUp(w, res, aside, table, p)
                 /\ WithUnknown(res, aside, table, p) = IF res = Nothing THEN res ELSE w[DOMAIN aside]
    BY AsideTurns
  <1>2. PICK v : FractionsUp(v, first, f) /\ SumOfFractions(first, f) = v[DOMAIN f]
    BY FractionTurns
  <1> DEFINE N == Len(aside)
             S(n) == {at[j] : j \in {i \in 1 .. n : KeyOf(aside[i]) = k}}
             Right(n) == /\ Answer(w[1 .. n])
                         /\ k \in DOMAIN w[1 .. n] <=> k \in DOMAIN res \/ S(n) # {}
                         /\ k \in DOMAIN w[1 .. n] => SameFraction(w[1 .. n][k].kwh, v[S(n)])
             T == {n \in Nat : n <= N => Right(n)}
  <1>3. N \in Nat /\ DOMAIN aside = 1 .. N /\ DOMAIN f = S(N)
    OBVIOUS
  <1>4. v[{}] = first
    BY <1>2 DEF FractionsUp
  <1>5. \A s \in SUBSET DOMAIN f : v[s] \in Fraction /\ \A x \in s : SameFraction(v[s], Plus(f[x], v[s \ {x}]))
    BY <1>2, FractionsAnyOrder
  <1>6. 0 \in T
    <2>1. 1 .. 0 = {} /\ S(0) = {}
      OBVIOUS
    <2>2. w[1 .. 0] = res
      BY <1>1, <2>1 DEF JoinsUp
    <2>3. Right(0)
      <3> HIDE DEF S
      <3> QED
        BY <1>4, <2>1, <2>2
    <2> HIDE DEF Right
    <2> QED
      BY <2>3
  <1>7. ASSUME NEW n \in Nat, n \in T
        PROVE  n + 1 \in T
    <2> SUFFICES ASSUME n + 1 <= N PROVE Right(n + 1)
      <3> HIDE DEF Right
      <3> QED
        OBVIOUS
    <2> DEFINE m == n + 1
               row == aside[m]
               s == 1 .. m
               old == w[1 .. n]
               kwh == EstimateUnknown(table, p, row)
    <2>1. Right(n)
      <3> HIDE DEF Right
      <3> QED
        BY <1>3, <1>7
    <2>2. s \in SUBSET (DOMAIN aside) /\ s # {} /\ m \in s /\ \A j \in s : j <= m /\ j \in Int
      <3>1. m \in s /\ \A j \in s : j <= m /\ j \in Int
        OBVIOUS
      <3>2. \A j \in s : j \in 1 .. N
        OBVIOUS
      <3> HIDE DEF s, N
      <3> QED
        BY <1>3, <3>1, <3>2
    <2>3. Max(s) = m
      <3>1. m \in Nat
        OBVIOUS
      <3>2. Max(s) \in s /\ \A j \in s : j <= Max(s)
        <4>1. s \in SUBSET (1 .. m)
          OBVIOUS
        <4> HIDE DEF m, s
        <4> QED
          BY <2>2, <3>1, <4>1, MaxIsGreatest
      <3> HIDE DEF s
      <3> QED
        BY <2>2, <3>2
    <2>4. s \ {m} = 1 .. n
      OBVIOUS
    <2>5. row \in Rows
      BY <1>3
    <2>6. w[s] = Joined(table, p, old, row)
      <3> HIDE DEF s, m
      <3> QED
        BY <1>1, <2>2, <2>3, <2>4 DEF JoinsUp
    <2>7. kwh \in Fraction
      <3> HIDE DEF row
      <3> QED
        BY <2>5, UnknownType
    <2>8. Answer(old)
      BY <2>1
    <2>9. /\ Answer(w[s]) /\ DOMAIN w[s] = DOMAIN old \cup {KeyOf(row)}
          /\ w[s][KeyOf(row)].kwh = IF KeyOf(row) \in DOMAIN old THEN Plus(old[KeyOf(row)].kwh, kwh) ELSE kwh
          /\ \A e \in DOMAIN old : e # KeyOf(row) => w[s][e].kwh = old[e].kwh
      <3>1. w[s] = AppendOrAccumulate(old, row, kwh)
        BY <2>6 DEF Joined
      <3> HIDE DEF old, kwh, row, s
      <3>2. Joins(AppendOrAccumulate(old, row, kwh), old, row, kwh)
        BY <2>5, <2>7, <2>8, AppendKwh
      <3> QED
        BY <3>1, <3>2 DEF Joins
    <2>10. S(m) = IF KeyOf(row) = k THEN S(n) \cup {at[m]} ELSE S(n)
      <3>1. s = (1 .. n) \cup {m}
        OBVIOUS
      <3> HIDE DEF m
      <3> QED
        BY <3>1
    <2>11. S(n) \subseteq DOMAIN f /\ (KeyOf(row) = k => at[m] \in DOMAIN f /\ at[m] \notin S(n))
      <3>1. \A j \in 1 .. n : j \in 1 .. N /\ j # m
        OBVIOUS
      <3>2. m \in 1 .. N
        OBVIOUS
      <3> HIDE DEF m
      <3> QED
        BY <3>1, <3>2
    <2>12. /\ k \in DOMAIN old <=> k \in DOMAIN res \/ S(n) # {}
           /\ k \in DOMAIN old => SameFraction(old[k].kwh, v[S(n)]) /\ old[k].kwh \in Fraction
           /\ v[S(n)] \in Fraction
      <3>1. v[S(n)] \in Fraction
        <4> HIDE DEF S
        <4> QED
          BY <1>5, <2>11
      <3> QED
        BY <2>1, <3>1 DEF Answer
    <2>13. m \in 1 .. N
      OBVIOUS
    <2> HIDE DEF S, old, s, kwh
    <2>14. ASSUME KeyOf(row) # k
          PROVE  /\ Answer(w[s])
                 /\ k \in DOMAIN w[s] <=> k \in DOMAIN res \/ S(m) # {}
                 /\ k \in DOMAIN w[s] => SameFraction(w[s][k].kwh, v[S(m)])
      <3>1. k \in DOMAIN w[s] <=> k \in DOMAIN old
        BY <2>9, <2>14
      <3>2. k \in DOMAIN old => w[s][k].kwh = old[k].kwh
        BY <2>9, <2>14
      <3>3. S(m) = S(n)
        BY <2>10, <2>14
      <3> HIDE DEF row, m
      <3> QED
        BY <2>9, <2>12, <3>1, <3>2, <3>3
    <2>15. ASSUME KeyOf(row) = k
          PROVE  /\ Answer(w[s])
                 /\ k \in DOMAIN w[s] <=> k \in DOMAIN res \/ S(m) # {}
                 /\ k \in DOMAIN w[s] => SameFraction(w[s][k].kwh, v[S(m)])
      <3> DEFINE fm == f[at[m]]
                 sum == v[S(n)]
      <3>1. SameFraction(kwh, fm) /\ fm \in Fraction
        BY <2>11, <2>13, <2>15 DEF kwh
      <3>2. S(m) \in SUBSET DOMAIN f /\ at[m] \in S(m) /\ S(m) \ {at[m]} = S(n)
        <4> HIDE DEF m, row
        <4> QED
          BY <2>10, <2>11, <2>15
      <3>3. SameFraction(v[S(m)], Plus(fm, sum)) /\ v[S(m)] \in Fraction
        <4> HIDE DEF m, row
        <4> QED
          BY <1>5, <3>2
      <3>4. k \in DOMAIN w[s] /\ S(m) # {}
        BY <2>9, <2>15, <3>2
      <3>5. CASE k \in DOMAIN old
        <4> DEFINE before == old[k].kwh
        <4>1. w[s][k].kwh = Plus(before, kwh)
          BY <2>9, <2>15, <3>5
        <4>2. SameFraction(before, sum) /\ before \in Fraction /\ sum \in Fraction
          BY <2>12, <3>5
        <4> HIDE DEF before, fm, sum, m, row
        <4>3. SameFraction(Plus(before, kwh), Plus(sum, fm))
          BY <2>7, <3>1, <4>2, PlusCongruent
        <4>4. Plus(sum, fm) = Plus(fm, sum) /\ Plus(fm, sum) \in Fraction /\ Plus(before, kwh) \in Fraction
          BY <2>7, <3>1, <4>2, PlusCommutes, PlusType
        <4>5. SameFraction(Plus(before, kwh), v[S(m)])
          BY <3>3, <4>3, <4>4, SameSymmetric, SameTransitive
        <4> QED
          BY <2>9, <3>4, <4>1, <4>5
      <3>6. CASE k \notin DOMAIN old
        <4>1. w[s][k].kwh = kwh
          BY <2>9, <2>15, <3>6
        <4>2. sum = <<0, 1>>
          BY <1>4, <2>12, <3>6
        <4> HIDE DEF fm, sum, m, row
        <4>3. SameFraction(fm, Plus(fm, sum)) /\ Plus(fm, sum) \in Fraction
          BY <3>1, <4>2, PlusNone, PlusType
        <4>4. SameFraction(kwh, Plus(fm, sum))
          BY <2>7, <3>1, <4>3, SameTransitive
        <4>5. SameFraction(kwh, v[S(m)])
          BY <2>7, <3>3, <4>3, <4>4, SameSymmetric, SameTransitive
        <4> QED
          BY <2>9, <3>4, <4>1, <4>5
      <3> QED
        BY <3>5, <3>6
    <2>16. /\ Answer(w[s])
           /\ k \in DOMAIN w[s] <=> k \in DOMAIN res \/ S(m) # {}
           /\ k \in DOMAIN w[s] => SameFraction(w[s][k].kwh, v[S(m)])
      <3> HIDE DEF row, m
      <3> QED
        BY <2>14, <2>15
    <2> QED
      BY <2>16 DEF s
  <1>8. Right(N)
    <2>1. N \in T
      <3> HIDE DEF T, N
      <3> QED
        BY <1>3, <1>6, <1>7, NatSetInduction
    <2> HIDE DEF Right
    <2> QED
      BY <1>3, <2>1
  <1>9. v[DOMAIN f] \in Fraction
    BY <1>5
  <1> HIDE DEF S
  <1> QED
    BY <1>1, <1>2, <1>3, <1>8, <1>9

-----------------------------------------------------------------------------
(* What provider p makes of a bill b, without regard to the order of its rows. *)

\* Of the first n rows: those of a unit that are counted, their energy and amount.
CountedTo(p, b, u, n) == {i \in 1 .. n : Outcome(p, b[i]) = "counted" /\ b[i].unit = u}
KwhTo(p, b, u, n) == SumFunction([i \in CountedTo(p, b, u, n) |-> CountedKwh(p, b[i])])
AmountTo(p, b, u, n) == SumFunction([i \in CountedTo(p, b, u, n) |-> Amount(p, b[i])])

\* Those of a key whose energy is known, and that energy.
KnownIn(p, b, k, n) == {i \in 1 .. n : KeyOf(b[i]) = k /\ Outcome(p, b[i]) \in {"counted", "uncounted"}}
KnownTo(p, b, k, n) == SumFunction([i \in KnownIn(p, b, k, n) |-> RowKwh(p, b[i])])

\* Those put aside, and the average of the whole bill times the amount of one.
UnknownTo(p, b, n) == {i \in 1 .. n : Outcome(p, b[i]) = "unknown"}
GuessAt(p, b, i) ==
    IF CountedTo(p, b, b[i].unit, Len(b)) = {} THEN <<0, 1>>
    ELSE <<KwhTo(p, b, b[i].unit, Len(b)) * Amount(p, b[i]), AmountTo(p, b, b[i].unit, Len(b))>>
GuessesOf(p, b, k) == [i \in {j \in UnknownTo(p, b, Len(b)) : KeyOf(b[j]) = k} |-> GuessAt(p, b, i)]

BillKwh(p, b, k) == SumOfFractions(<<KnownTo(p, b, k, Len(b)), 1>>, GuessesOf(p, b, k))

\* The reference of the model is that of the request's provider and bill.
LEMMA ReferenceIsBill ==
    ASSUME NEW r \in Requests, rows[r] \in Seq(Rows), NEW k
    PROVE  ReferenceKwh(r, k) = BillKwh(provider[r], rows[r], k)
  <1> DEFINE p == provider[r]
             b == rows[r]
             N == Len(b)
             of == {i \in DOMAIN b : <<b[i].day, b[i].zone, b[i].service>> = k}
             known == SumFunction([i \in {j \in of : OutcomeAt(r, j) \in {"counted", "uncounted"}} |-> RowKwh(p, b[i])])
             counted(i) == CountedOf(r, b[i].unit, Len(b))
             guess(i) == IF counted(i) = {} THEN <<0, 1>>
                         ELSE <<SumFunction([j \in counted(i) |-> CountedKwh(p, b[j])]) * Amount(p, b[i]),
                                SumFunction([j \in counted(i) |-> Amount(p, b[j])])>>
             guesses0 == [i \in {j \in of : OutcomeAt(r, j) = "unknown"} |-> guess(i)]
  <1>1. DOMAIN b = 1 .. N
    OBVIOUS
  <1>2. ReferenceKwh(r, k) = SumOfFractions(<<known, 1>>, guesses0)
    BY DEF ReferenceKwh
  <1>3. {j \in of : OutcomeAt(r, j) \in {"counted", "uncounted"}} = KnownIn(p, b, k, N)
    BY <1>1 DEF KnownIn, KeyOf, OutcomeAt
  <1>4. known = KnownTo(p, b, k, N)
    BY <1>3 DEF KnownTo
  <1>5. \A i : counted(i) = CountedTo(p, b, b[i].unit, N)
    BY DEF CountedOf, CountedTo, OutcomeAt
  <1>6. \A i : guess(i) = GuessAt(p, b, i)
    BY <1>5 DEF GuessAt, KwhTo, AmountTo
  <1>7. {j \in of : OutcomeAt(r, j) = "unknown"} = {j \in UnknownTo(p, b, N) : KeyOf(b[j]) = k}
    BY <1>1 DEF UnknownTo, KeyOf, OutcomeAt
  <1>8. guesses0 = GuessesOf(p, b, k)
    <2> HIDE DEF guess, of
    <2> QED
      BY <1>6, <1>7 DEF GuessesOf
  <1> QED
    BY <1>2, <1>4, <1>8 DEF BillKwh

\* A sum over some of the first rows, with or without the last of them.
LEMMA SumGrows ==
    ASSUME NEW n \in Nat, NEW F, \A i \in 1 .. n + 1 : F[i] \in Nat,
           NEW A, A \subseteq 1 .. n, NEW B, B = A \/ B = A \cup {n + 1}
    PROVE  LET f == [i \in A |-> F[i]]
               g == [i \in B |-> F[i]]
           IN /\ SumFunction(f) \in Nat
              /\ SumFunction(g) = IF n + 1 \in B THEN SumFunction(f) + F[n + 1] ELSE SumFunction(f)
  <1> DEFINE x == n + 1
             f == [i \in A |-> F[i]]
             g == [i \in B |-> F[i]]
  <1>1. x \notin A /\ IsFiniteSet(A) /\ \A i \in A : F[i] \in Nat
    <2>1. x \notin A /\ \A i \in A : i \in 1 .. n + 1
      OBVIOUS
    <2>2. IsFiniteSet(1 .. n)
      BY FS_Interval
    <2>3. IsFiniteSet(A)
      BY <2>2, FS_Subset
    <2> QED
      BY <2>1, <2>3
  <1>2. F[x] \in Nat
    OBVIOUS
  <1>3. IsFiniteSet(DOMAIN f) /\ DOMAIN f = A /\ \A i \in DOMAIN f : f[i] \in Nat
    BY <1>1
  <1>4. SumFunction(f) \in Nat
    <2> HIDE DEF f
    <2> QED
      BY <1>3, SumType
  <1>5. CASE B = A
    <2>1. g = f
      BY <1>5
    <2> QED
      BY <1>1, <1>4, <1>5, <2>1
  <1>6. CASE B = A \cup {x}
    <2> HIDE DEF x
    <2>1. /\ x \notin DOMAIN f /\ DOMAIN g = DOMAIN f \cup {x} /\ \A y \in DOMAIN f : g[y] = f[y]
          /\ g[x] = F[x] /\ \A y \in DOMAIN g : g[y] \in Nat
      BY <1>1, <1>2, <1>6
    <2>2. SumFunction(g) = SumFunction(f) + g[x]
      <3> HIDE DEF f, g
      <3> QED
        BY <1>3, <2>1, SumOfOneMore
    <2>3. x \in B
      BY <1>6
    <2>4. SumFunction(f) \in Nat /\ SumFunction(g) = SumFunction(f) + F[x]
      <3> HIDE DEF f, g
      <3> QED
        BY <1>4, <2>1, <2>2
    <2> QED
      BY <2>3, <2>4 DEF x
  <1> QED
    BY <1>5, <1>6

\* One row more on the bill: the energy and the amount of its unit, and the energy of its key.
LEMMA SumsNext ==
    ASSUME NEW p \in Services, NEW b \in Seq(Rows), NEW n \in Nat, n < Len(b), NEW u, NEW k
    PROVE  LET row == b[n + 1]
               counts == Outcome(p, row) = "counted" /\ row.unit = u
               known == KeyOf(row) = k /\ Outcome(p, row) \in {"counted", "uncounted"}
           IN /\ KwhTo(p, b, u, n) \in Nat /\ AmountTo(p, b, u, n) \in Nat /\ KnownTo(p, b, k, n) \in Nat
              /\ KwhTo(p, b, u, n + 1) = IF counts THEN KwhTo(p, b, u, n) + CountedKwh(p, row) ELSE KwhTo(p, b, u, n)
              /\ AmountTo(p, b, u, n + 1) = IF counts THEN AmountTo(p, b, u, n) + Amount(p, row) ELSE AmountTo(p, b, u, n)
              /\ KnownTo(p, b, k, n + 1) = IF known THEN KnownTo(p, b, k, n) + RowKwh(p, row) ELSE KnownTo(p, b, k, n)
  <1> DEFINE x == n + 1
             row == b[x]
             counts == Outcome(p, row) = "counted" /\ row.unit = u
             known == KeyOf(row) = k /\ Outcome(p, row) \in {"counted", "uncounted"}
             C == CountedTo(p, b, u, n)
             D == CountedTo(p, b, u, x)
             K == KnownIn(p, b, k, n)
             L == KnownIn(p, b, k, x)
             kwh == [i \in 1 .. x |-> CountedKwh(p, b[i])]
             amount == [i \in 1 .. x |-> Amount(p, b[i])]
             rowKwh == [i \in 1 .. x |-> RowKwh(p, b[i])]
  <1>1. \A i \in 1 .. x : b[i] \in Rows
    OBVIOUS
  <1>2. 1 .. x = (1 .. n) \cup {x} /\ x \notin 1 .. n
    OBVIOUS
  <1>3. \A i \in 1 .. x : kwh[i] \in Nat /\ amount[i] \in Nat /\ rowKwh[i] \in Nat
    <2> TAKE i \in 1 .. x
    <2> DEFINE bi == b[i]
    <2>1. bi \in Rows
      BY <1>1
    <2> HIDE DEF bi
    <2>2. CountedKwh(p, bi) \in Nat /\ Amount(p, bi) \in Nat /\ RowKwh(p, bi) \in Nat
      BY <2>1, EstimateType DEF CountedKwh, RowKwh
    <2>3. kwh[i] = CountedKwh(p, b[i]) /\ amount[i] = Amount(p, b[i]) /\ rowKwh[i] = RowKwh(p, b[i])
      OBVIOUS
    <2> QED
      BY <2>2, <2>3 DEF bi
  <1>4. C \subseteq 1 .. n /\ K \subseteq 1 .. n
    BY DEF CountedTo, KnownIn
  <1>5. D = IF counts THEN C \cup {x} ELSE C
    <2> HIDE DEF x
    <2> QED
      BY <1>2 DEF CountedTo
  <1>6. L = IF known THEN K \cup {x} ELSE K
    <2> HIDE DEF x
    <2> QED
      BY <1>2 DEF KnownIn
  <1>7. /\ KwhTo(p, b, u, n) = SumFunction([i \in C |-> kwh[i]])
        /\ KwhTo(p, b, u, x) = SumFunction([i \in D |-> kwh[i]])
        /\ AmountTo(p, b, u, n) = SumFunction([i \in C |-> amount[i]])
        /\ AmountTo(p, b, u, x) = SumFunction([i \in D |-> amount[i]])
        /\ KnownTo(p, b, k, n) = SumFunction([i \in K |-> rowKwh[i]])
        /\ KnownTo(p, b, k, x) = SumFunction([i \in L |-> rowKwh[i]])
    <2>1. C \subseteq 1 .. x /\ K \subseteq 1 .. x /\ D \subseteq 1 .. x /\ L \subseteq 1 .. x
      BY DEF CountedTo, KnownIn
    <2>2. /\ [i \in C |-> kwh[i]] = [i \in C |-> CountedKwh(p, b[i])]
          /\ [i \in D |-> kwh[i]] = [i \in D |-> CountedKwh(p, b[i])]
          /\ [i \in C |-> amount[i]] = [i \in C |-> Amount(p, b[i])]
          /\ [i \in D |-> amount[i]] = [i \in D |-> Amount(p, b[i])]
          /\ [i \in K |-> rowKwh[i]] = [i \in K |-> RowKwh(p, b[i])]
          /\ [i \in L |-> rowKwh[i]] = [i \in L |-> RowKwh(p, b[i])]
      <3> HIDE DEF C, D, K, L
      <3> QED
        BY <2>1
    <2> QED
      BY <2>2 DEF KwhTo, AmountTo, KnownTo
  <1> DEFINE Good(F) == \A i \in 1 .. n + 1 : F[i] \in Nat
  <1>8. Good(kwh) /\ Good(amount) /\ Good(rowKwh)
    BY <1>3
  <1>9. C \subseteq 1 .. n /\ (D = C \/ D = C \cup {n + 1}) /\ K \subseteq 1 .. n /\ (L = K \/ L = K \cup {n + 1})
    <2> HIDE DEF C, D, K, L
    <2> QED
      BY <1>4, <1>5, <1>6
  <1>10. x \in D <=> counts
    <2> HIDE DEF x, counts
    <2> QED
      BY <1>2, <1>4, <1>5
  <1>11. x \in L <=> known
    <2> HIDE DEF x, known
    <2> QED
      BY <1>2, <1>4, <1>6
  <1> HIDE DEF C, D, K, L, kwh, amount, rowKwh, counts, known, row
  <1>12. /\ SumFunction([i \in C |-> kwh[i]]) \in Nat
         /\ SumFunction([i \in D |-> kwh[i]])
            = IF counts THEN SumFunction([i \in C |-> kwh[i]]) + kwh[x] ELSE SumFunction([i \in C |-> kwh[i]])
    BY <1>8, <1>9, <1>10, SumGrows
  <1>13. /\ SumFunction([i \in C |-> amount[i]]) \in Nat
         /\ SumFunction([i \in D |-> amount[i]])
            = IF counts THEN SumFunction([i \in C |-> amount[i]]) + amount[x] ELSE SumFunction([i \in C |-> amount[i]])
    BY <1>8, <1>9, <1>10, SumGrows
  <1>14. /\ SumFunction([i \in K |-> rowKwh[i]]) \in Nat
         /\ SumFunction([i \in L |-> rowKwh[i]])
            = IF known THEN SumFunction([i \in K |-> rowKwh[i]]) + rowKwh[x] ELSE SumFunction([i \in K |-> rowKwh[i]])
    BY <1>8, <1>9, <1>11, SumGrows
  <1>15. x \in 1 .. x
    OBVIOUS
  <1>16. kwh[x] = CountedKwh(p, row) /\ amount[x] = Amount(p, row) /\ rowKwh[x] = RowKwh(p, row)
    <2> HIDE DEF x
    <2> QED
      BY <1>15 DEF kwh, amount, rowKwh, row
  <1> QED
    BY <1>7, <1>12, <1>13, <1>14, <1>16 DEF counts, known, row

\* Before the first row there is nothing.
LEMMA SumsStart ==
    ASSUME NEW p, NEW b, NEW u, NEW k
    PROVE  /\ KwhTo(p, b, u, 0) = 0 /\ AmountTo(p, b, u, 0) = 0 /\ KnownTo(p, b, k, 0) = 0
           /\ CountedTo(p, b, u, 0) = {} /\ KnownIn(p, b, k, 0) = {} /\ UnknownTo(p, b, 0) = {}
  <1>1. 1 .. 0 = {}
    OBVIOUS
  <1>2. CountedTo(p, b, u, 0) = {} /\ KnownIn(p, b, k, 0) = {} /\ UnknownTo(p, b, 0) = {}
    BY <1>1 DEF CountedTo, KnownIn, UnknownTo
  <1> DEFINE f == [i \in CountedTo(p, b, u, 0) |-> CountedKwh(p, b[i])]
             g == [i \in CountedTo(p, b, u, 0) |-> Amount(p, b[i])]
             h == [i \in KnownIn(p, b, k, 0) |-> RowKwh(p, b[i])]
  <1>3. DOMAIN f = {} /\ DOMAIN g = {} /\ DOMAIN h = {}
    BY <1>2
  <1>4. KwhTo(p, b, u, 0) = SumFunction(f) /\ AmountTo(p, b, u, 0) = SumFunction(g) /\ KnownTo(p, b, k, 0) = SumFunction(h)
    BY DEF KwhTo, AmountTo, KnownTo
  <1> HIDE DEF f, g, h
  <1> QED
    BY <1>2, <1>3, <1>4, SumOfNone

\* Over the whole of a bill, too, the sums are numbers.
LEMMA SumsWhole ==
    ASSUME NEW p \in Services, NEW b \in Seq(Rows), NEW u, NEW k
    PROVE  /\ KwhTo(p, b, u, Len(b)) \in Nat /\ AmountTo(p, b, u, Len(b)) \in Nat
           /\ KnownTo(p, b, k, Len(b)) \in Nat
  <1> DEFINE N == Len(b)
             f == [i \in CountedTo(p, b, u, N) |-> CountedKwh(p, b[i])]
             g == [i \in CountedTo(p, b, u, N) |-> Amount(p, b[i])]
             h == [i \in KnownIn(p, b, k, N) |-> RowKwh(p, b[i])]
  <1>1. \A i \in 1 .. N : b[i] \in Rows
    OBVIOUS
  <1>2. \A row \in Rows : CountedKwh(p, row) \in Nat /\ Amount(p, row) \in Nat /\ RowKwh(p, row) \in Nat
    BY EstimateType DEF CountedKwh, RowKwh
  <1>3. N \in Nat /\ CountedTo(p, b, u, N) \subseteq 1 .. N /\ KnownIn(p, b, k, N) \subseteq 1 .. N
    BY DEF CountedTo, KnownIn
  <1> HIDE DEF N
  <1>4. IsFiniteSet(DOMAIN f) /\ IsFiniteSet(DOMAIN g) /\ IsFiniteSet(DOMAIN h)
    <2>1. DOMAIN f \subseteq 1 .. N /\ DOMAIN g \subseteq 1 .. N /\ DOMAIN h \subseteq 1 .. N
      BY <1>3
    <2>2. IsFiniteSet(1 .. N)
      BY <1>3, FS_Interval
    <2> HIDE DEF f, g, h
    <2> QED
      BY <2>1, <2>2, FS_Subset
  <1>5. \A i \in DOMAIN f : f[i] \in Nat /\ g[i] \in Nat
    BY <1>1, <1>2, <1>3
  <1>6. \A i \in DOMAIN h : h[i] \in Nat
    BY <1>1, <1>2, <1>3
  <1>7. DOMAIN f = DOMAIN g
    OBVIOUS
  <1>8. KwhTo(p, b, u, N) = SumFunction(f) /\ AmountTo(p, b, u, N) = SumFunction(g) /\ KnownTo(p, b, k, N) = SumFunction(h)
    BY DEF KwhTo, AmountTo, KnownTo
  <1> HIDE DEF f, g, h
  <1>9. SumFunction(f) \in Nat /\ SumFunction(g) \in Nat /\ SumFunction(h) \in Nat
    BY <1>4, <1>5, <1>6, <1>7, SumType
  <1> QED
    BY <1>8, <1>9 DEF N

\* at[j] is the row of the bill that stands in place j of those put aside.
Locates(at, aside, p, b, n) ==
    /\ \A j \in 1 .. Len(aside) : at[j] \in UnknownTo(p, b, n) /\ aside[j] = b[at[j]]
    /\ \A i, j \in 1 .. Len(aside) : at[i] = at[j] => i = j
    /\ \A i \in UnknownTo(p, b, n) : \E j \in 1 .. Len(aside) : at[j] = i

\* The estimates after n rows: the known energy of each key that was estimated, the rest put aside.
SoFar(res, aside, p, b, n) ==
    /\ \A k : k \in DOMAIN res <=> \E i \in 1 .. n : KeyOf(b[i]) = k /\ Outcome(p, b[i]) \in Estimated
    /\ \A k \in DOMAIN res : res[k].kwh = <<KnownTo(p, b, k, n), 1>>
    /\ \E at : Locates(at, aside, p, b, n)

\* A key that has no estimate has no known energy.
LEMMA NoneKnown ==
    ASSUME NEW p, NEW b, NEW k, NEW n, \A i \in 1 .. n : ~(KeyOf(b[i]) = k /\ Outcome(p, b[i]) \in Estimated)
    PROVE  KnownTo(p, b, k, n) = 0
  <1> DEFINE h == [i \in KnownIn(p, b, k, n) |-> RowKwh(p, b[i])]
  <1>1. DOMAIN h = {}
    BY DEF KnownIn, Estimated
  <1>2. KnownTo(p, b, k, n) = SumFunction(h)
    BY DEF KnownTo
  <1> HIDE DEF h
  <1> QED
    BY <1>1, <1>2, SumOfNone

\* A row that is estimated joins what is known of its key.
LEMMA EstimatedNext ==
    ASSUME NEW p \in Services, NEW b \in Seq(Rows), NEW n \in Nat, n < Len(b),
           NEW res, Answer(res), NEW aside, SoFar(res, aside, p, b, n),
           Outcome(p, b[n + 1]) \in Estimated,
           NEW e \in Nat, e = IF Outcome(p, b[n + 1]) = "zero" THEN 0 ELSE RowKwh(p, b[n + 1])
    PROVE  SoFar(AppendOrAccumulate(res, b[n + 1], <<e, 1>>), aside, p, b, n + 1)
  <1> DEFINE x == n + 1
             row == b[x]
             after == AppendOrAccumulate(res, row, <<e, 1>>)
  <1>1. row \in Rows /\ <<e, 1>> \in Fraction
    BY DEF Fraction
  <1>2. 1 .. x = (1 .. n) \cup {x} /\ x \notin 1 .. n
    OBVIOUS
  <1>3. UnknownTo(p, b, x) = UnknownTo(p, b, n)
    <2>1. Outcome(p, b[x]) # "unknown"
      BY DEF Estimated
    <2> HIDE DEF x
    <2> QED
      BY <1>2, <2>1 DEF UnknownTo
  <1>4. \E at : Locates(at, aside, p, b, x)
    <2> PICK at : Locates(at, aside, p, b, n)
      BY DEF SoFar
    <2> HIDE DEF x
    <2>1. Locates(at, aside, p, b, x)
      BY <1>3 DEF Locates
    <2> QED
      BY <2>1
  <1>5. \A k : KnownTo(p, b, k, n) \in Nat
    BY SumsNext
  <1>6. \A k : KnownTo(p, b, k, x) = IF KeyOf(row) = k THEN KnownTo(p, b, k, n) + e ELSE KnownTo(p, b, k, n)
    <2> TAKE k
    <2>1. KnownTo(p, b, k, x) = IF KeyOf(row) = k /\ Outcome(p, row) \in {"counted", "uncounted"}
                                THEN KnownTo(p, b, k, n) + RowKwh(p, row) ELSE KnownTo(p, b, k, n)
      BY SumsNext
    <2>2. IF Outcome(p, row) \in {"counted", "uncounted"} THEN e = RowKwh(p, row) ELSE e = 0
      BY DEF Estimated
    <2> HIDE DEF row, x
    <2> QED
      BY <1>5, <2>1, <2>2
  <1> DEFINE key == KeyOf(row)
  <1>7. /\ DOMAIN after = DOMAIN res \cup {key}
        /\ after[key].kwh = IF key \in DOMAIN res THEN Plus(res[key].kwh, <<e, 1>>) ELSE <<e, 1>>
        /\ \A k \in DOMAIN res : k # key => after[k].kwh = res[k].kwh
    <2>1. Joins(after, res, row, <<e, 1>>)
      <3> HIDE DEF row
      <3> QED
        BY <1>1, AppendKwh
    <2> HIDE DEF after, row
    <2> QED
      BY <2>1 DEF Joins
  <1>8. \A k : k \in DOMAIN res => res[k].kwh = <<KnownTo(p, b, k, n), 1>>
    BY DEF SoFar
  <1>9. \A k : k \notin DOMAIN res => KnownTo(p, b, k, n) = 0
    BY NoneKnown DEF SoFar
  <1>10. ASSUME NEW k
         PROVE  k \in DOMAIN after <=> \E i \in 1 .. x : KeyOf(b[i]) = k /\ Outcome(p, b[i]) \in Estimated
    <2>1. k \in DOMAIN res <=> \E i \in 1 .. n : KeyOf(b[i]) = k /\ Outcome(p, b[i]) \in Estimated
      BY DEF SoFar
    <2>2. k \in DOMAIN after <=> k \in DOMAIN res \/ k = KeyOf(b[x])
      BY <1>7
    <2>3. Outcome(p, b[x]) \in Estimated
      OBVIOUS
    <2> HIDE DEF x, after
    <2> QED
      BY <1>2, <2>1, <2>2, <2>3
  <1> HIDE DEF after
  <1>11. ASSUME NEW k \in DOMAIN after
         PROVE  after[k].kwh = <<KnownTo(p, b, k, x), 1>>
    <2> HIDE DEF x
    <2>1. CASE k # key
      <3>1. KnownTo(p, b, k, x) = KnownTo(p, b, k, n) /\ k \in DOMAIN res
        BY <1>6, <1>7, <2>1
      <3> QED
        BY <1>7, <1>8, <2>1, <3>1
    <2>2. CASE k = key
      <3> DEFINE known == KnownTo(p, b, k, n)
      <3>1. KnownTo(p, b, k, x) = known + e /\ known \in Nat
        BY <1>5, <1>6, <2>2
      <3>2. k \in DOMAIN res => res[k].kwh = <<known, 1>>
        BY <1>8
      <3>3. k \notin DOMAIN res => known = 0
        BY <1>9
      <3>4. after[k].kwh = IF k \in DOMAIN res THEN Plus(res[k].kwh, <<e, 1>>) ELSE <<e, 1>>
        BY <1>7, <2>2
      <3> HIDE DEF known, key
      <3>5. Plus(<<known, 1>>, <<e, 1>>) = <<known + e, 1>>
        BY DEF Plus
      <3>6. CASE k \in DOMAIN res
        BY <3>1, <3>2, <3>4, <3>5, <3>6
      <3>7. CASE k \notin DOMAIN res
        <4>1. known + e = e
          BY <3>3, <3>7
        <4> QED
          BY <3>1, <3>4, <3>7, <4>1
      <3> QED
        BY <3>6, <3>7
    <2> QED
      BY <2>1, <2>2
  <1> QED
    BY <1>4, <1>10, <1>11 DEF SoFar, after

\* A row without an estimate is put aside or dropped.
LEMMA UnestimatedNext ==
    ASSUME NEW p \in Services, NEW b \in Seq(Rows), NEW n \in Nat, n < Len(b),
           NEW res, NEW aside \in Seq(Rows), SoFar(res, aside, p, b, n),
           Outcome(p, b[n + 1]) \notin Estimated
    PROVE  SoFar(res, IF Outcome(p, b[n + 1]) = "unknown" THEN Append(aside, b[n + 1]) ELSE aside, p, b, n + 1)
  <1> DEFINE x == n + 1
             row == b[x]
             after == IF Outcome(p, row) = "unknown" THEN Append(aside, row) ELSE aside
             M == Len(aside)
  <1>1. 1 .. x = (1 .. n) \cup {x} /\ x \notin 1 .. n
    OBVIOUS
  <1>2. UnknownTo(p, b, x) = IF Outcome(p, row) = "unknown" THEN UnknownTo(p, b, n) \cup {x} ELSE UnknownTo(p, b, n)
    <2> HIDE DEF x
    <2> QED
      BY <1>1 DEF UnknownTo
  <1>3. x \notin UnknownTo(p, b, n)
    BY DEF UnknownTo
  <1>4. PICK at : Locates(at, aside, p, b, n)
    BY DEF SoFar
  <1>5. CASE Outcome(p, row) # "unknown"
    <2>1. Locates(at, after, p, b, x)
      BY <1>2, <1>4, <1>5 DEF Locates
    <2> QED
      <3> HIDE DEF after
      <3>1. \E a : Locates(a, after, p, b, x)
        BY <2>1
      <3>2. \A k : k \in DOMAIN res <=> \E i \in 1 .. x : KeyOf(b[i]) = k /\ Outcome(p, b[i]) \in Estimated
        <4>1. Outcome(p, b[x]) \notin Estimated
          OBVIOUS
        <4> HIDE DEF x
        <4> QED
          BY <1>1, <4>1 DEF SoFar
      <3>3. \A k : KnownTo(p, b, k, x) = KnownTo(p, b, k, n)
        BY SumsNext DEF Estimated
      <3> HIDE DEF x
      <3>4. SoFar(res, after, p, b, x)
        BY <3>1, <3>2, <3>3 DEF SoFar
      <3> QED
        BY <3>4 DEF after, x
  <1>6. CASE Outcome(p, row) = "unknown"
    <2> DEFINE new == [j \in 1 .. M + 1 |-> IF j = M + 1 THEN x ELSE at[j]]
    <2>1. after = Append(aside, row) /\ row \in Rows /\ M \in Nat
      BY <1>6
    <2>2. Len(after) = M + 1 /\ after[M + 1] = row /\ \A j \in 1 .. M : after[j] = aside[j]
      <3> HIDE DEF after, row
      <3> QED
        BY <2>1
    <2>3. 1 .. M + 1 = (1 .. M) \cup {M + 1} /\ M + 1 \notin 1 .. M
      BY <2>1
    <2>4. /\ \A j \in 1 .. M : at[j] \in UnknownTo(p, b, n) /\ aside[j] = b[at[j]]
          /\ \A i, j \in 1 .. M : at[i] = at[j] => i = j
          /\ \A i \in UnknownTo(p, b, n) : \E j \in 1 .. M : at[j] = i
      BY <1>4 DEF Locates
    <2>5. UnknownTo(p, b, x) = UnknownTo(p, b, n) \cup {x}
      BY <1>2, <1>6
    <2>6. new[M + 1] = x /\ \A j \in 1 .. M : new[j] = at[j]
      BY <2>3
    <2>7. after[M + 1] = b[x]
      BY <2>2
    <2> HIDE DEF new, after, x, M
    <2>8. \A j \in 1 .. M + 1 : new[j] \in UnknownTo(p, b, x) /\ after[j] = b[new[j]]
      BY <2>2, <2>3, <2>4, <2>5, <2>6, <2>7
    <2>9. \A i, j \in 1 .. M + 1 : new[i] = new[j] => i = j
      BY <1>3, <2>3, <2>4, <2>6
    <2>10. \A i \in UnknownTo(p, b, x) : \E j \in 1 .. M + 1 : new[j] = i
      BY <2>3, <2>4, <2>5, <2>6
    <2>11. Locates(new, after, p, b, x)
      BY <2>2, <2>8, <2>9, <2>10 DEF Locates
    <2> QED
      <3>1. \E a : Locates(a, after, p, b, x)
        BY <2>11
      <3>2. \A k : k \in DOMAIN res <=> \E i \in 1 .. x : KeyOf(b[i]) = k /\ Outcome(p, b[i]) \in Estimated
        <4>1. Outcome(p, b[x]) \notin Estimated
          BY DEF x
        <4> QED
          BY <1>1, <4>1 DEF SoFar
      <3>3. \A k : KnownTo(p, b, k, x) = KnownTo(p, b, k, n)
        BY SumsNext DEF Estimated, x
      <3>4. SoFar(res, after, p, b, x)
        BY <3>1, <3>2, <3>3 DEF SoFar
      <3> QED
        BY <3>4 DEF after, x
  <1> QED
    BY <1>5, <1>6

\* What a table gives for every row put aside is the average of the bill times its amount.
FairTable(table, p, b) ==
    \A i \in UnknownTo(p, b, Len(b)) : SameFraction(EstimateUnknown(table, p, b[i]), GuessAt(p, b, i))

\* The totals of a unit are those of the bill, counted m times.
TimesBill(table, p, b, m) ==
    \A u \in Units :
        /\ Entry(table, <<"total", u>>).kwh = m * KwhTo(p, b, u, Len(b))
        /\ Entry(table, <<"total", u>>).amount = m * AmountTo(p, b, u, Len(b))
        /\ <<"total", u>> \in DOMAIN table <=> CountedTo(p, b, u, Len(b)) # {}

\* An average does not change when a bill is counted again.
LEMMA TimesBillIsFair ==
    ASSUME NEW p \in Services, NEW b \in Seq(Rows), NEW table, NEW m \in Nat, m # 0, TimesBill(table, p, b, m)
    PROVE  FairTable(table, p, b)
  <1> SUFFICES ASSUME NEW i \in UnknownTo(p, b, Len(b))
               PROVE  SameFraction(EstimateUnknown(table, p, b[i]), GuessAt(p, b, i))
    BY DEF FairTable
  <1> DEFINE row == b[i]
             u == row.unit
             kwh == KwhTo(p, b, u, Len(b))
             amount == AmountTo(p, b, u, Len(b))
             a == Amount(p, row)
             k == <<"total", u>>
  <1>1. row \in Rows
    BY DEF UnknownTo
  <1>2. u \in Units
    <2> HIDE DEF row
    <2> QED
      BY <1>1 DEF Rows
  <1>3. a \in Nat /\ UnknownAmount(p, row) = a
    <2> HIDE DEF row
    <2> QED
      BY <1>1, EstimateType DEF Amount, UnknownAmount
  <1>4. kwh \in Nat /\ amount \in Nat
    BY SumsWhole
  <1>5. /\ Entry(table, k).kwh = m * kwh /\ Entry(table, k).amount = m * amount
        /\ k \in DOMAIN table <=> CountedTo(p, b, u, Len(b)) # {}
    <2> HIDE DEF row
    <2> QED
      BY <1>2 DEF TimesBill
  <1>6. EstimateUnknown(table, p, row)
        = IF k \in DOMAIN table THEN <<table[k].kwh * UnknownAmount(p, row), table[k].amount>> ELSE <<0, 1>>
    BY DEF EstimateUnknown
  <1>7. GuessAt(p, b, i) = IF CountedTo(p, b, u, Len(b)) = {} THEN <<0, 1>> ELSE <<kwh * a, amount>>
    BY DEF GuessAt
  <1>8. k \in DOMAIN table => Entry(table, k) = table[k]
    BY DEF Entry
  <1> HIDE DEF kwh, amount, a, k, u, row
  <1>9. CASE k \notin DOMAIN table
    <2>1. EstimateUnknown(table, p, row) = <<0, 1>> /\ GuessAt(p, b, i) = <<0, 1>>
      BY <1>5, <1>6, <1>7, <1>9
    <2> QED
      BY <2>1 DEF SameFraction, row
  <1>10. CASE k \in DOMAIN table
    <2>1. EstimateUnknown(table, p, row) = <<(m * kwh) * a, m * amount>> /\ GuessAt(p, b, i) = <<kwh * a, amount>>
      BY <1>3, <1>5, <1>6, <1>7, <1>8, <1>10
    <2>2. ((m * kwh) * a) * amount = (kwh * a) * (m * amount)
      BY <1>3, <1>4
    <2>3. m * amount = 0 <=> amount = 0
      BY <1>4, ZeroProduct
    <2>4. SameFraction(<<(m * kwh) * a, m * amount>>, <<kwh * a, amount>>)
      BY <2>2, <2>3 DEF SameFraction
    <2> QED
      BY <2>1, <2>4 DEF row
  <1> QED
    BY <1>9, <1>10

\* Which keys are answered for: none if no row has an estimate.
Answered(p, b, k) ==
    /\ \E i \in 1 .. Len(b) : Outcome(p, b[i]) \in Estimated
    /\ \E i \in 1 .. Len(b) : KeyOf(b[i]) = k /\ Outcome(p, b[i]) # "dropped"

\* An answer that is determined by the bill.
ByBill(res, p, b) ==
    /\ \A k : k \in DOMAIN res <=> Answered(p, b, k)
    /\ \A k \in DOMAIN res : SameFraction(res[k].kwh, BillKwh(p, b, k)) /\ BillKwh(p, b, k) \in Fraction

\* What is guessed for a bill's rows are fractions.
LEMMA GuessType ==
    ASSUME NEW p \in Services, NEW b \in Seq(Rows), NEW i \in 1 .. Len(b)
    PROVE  GuessAt(p, b, i) \in Fraction
  <1> DEFINE row == b[i]
             kwh == KwhTo(p, b, row.unit, Len(b))
             amount == AmountTo(p, b, row.unit, Len(b))
             a == Amount(p, row)
  <1>1. row \in Rows
    OBVIOUS
  <1>2. a \in Nat
    <2> HIDE DEF row
    <2> QED
      BY <1>1, EstimateType
  <1>3. kwh \in Nat /\ amount \in Nat
    BY SumsWhole
  <1>4. GuessAt(p, b, i) = IF CountedTo(p, b, row.unit, Len(b)) = {} THEN <<0, 1>> ELSE <<kwh * a, amount>>
    BY DEF GuessAt
  <1> HIDE DEF kwh, amount, a, row
  <1>5. kwh * a \in Int
    BY <1>2, <1>3
  <1> QED
    BY <1>3, <1>4, <1>5 DEF Fraction

\* After the last row, what is put aside is estimated by the bill if the table is fair.
LEMMA FinishedByBill ==
    ASSUME NEW p \in Services, NEW b \in Seq(Rows), NEW res, Answer(res), NEW aside \in Seq(Rows),
           SoFar(res, aside, p, b, Len(b)), NEW table, Table(table), FairTable(table, p, b)
    PROVE  ByBill(WithUnknown(res, aside, table, p), p, b)
  <1> DEFINE N == Len(b)
             after == WithUnknown(res, aside, table, p)
  <1>1. \A k : k \in DOMAIN res <=> \E i \in 1 .. N : KeyOf(b[i]) = k /\ Outcome(p, b[i]) \in Estimated
    BY DEF SoFar
  <1>2. CASE res = Nothing
    <2>1. after = Nothing
      <3> HIDE DEF after
      <3>1. WithUnknown(res, aside, table, p) = res
        BY <1>2, WithUnknownCost
      <3> QED
        BY <1>2, <3>1 DEF after
    <2>2. DOMAIN Nothing = {}
      BY DEF Nothing
    <2>3. \A k : ~ Answered(p, b, k)
      BY <1>1, <1>2, <2>2 DEF Answered
    <2> HIDE DEF after
    <2>4. ByBill(after, p, b)
      BY <2>1, <2>2, <2>3 DEF ByBill
    <2> QED
      BY <2>4 DEF after
  <1>3. CASE res # Nothing
    <2>1. \E i \in 1 .. N : Outcome(p, b[i]) \in Estimated
      <3>1. DOMAIN res # {}
        BY <1>3 DEF Answer, Nothing
      <3> QED
        BY <1>1, <3>1
    <2>2. PICK at : Locates(at, aside, p, b, N)
      BY DEF SoFar
    <2>3. ASSUME NEW k
          PROVE  /\ k \in DOMAIN after <=> Answered(p, b, k)
                 /\ BillKwh(p, b, k) \in Fraction
                 /\ k \in DOMAIN after => SameFraction(after[k].kwh, BillKwh(p, b, k))
      <3> DEFINE first == <<KnownTo(p, b, k, N), 1>>
                 f == GuessesOf(p, b, k)
      <3>1. first \in Fraction
        <4>1. KnownTo(p, b, k, N) \in Nat
          BY SumsWhole
        <4> QED
          BY <4>1 DEF Fraction
      <3>2. IF k \in DOMAIN res THEN SameFraction(res[k].kwh, first) ELSE first = <<0, 1>>
        <4>1. k \in DOMAIN res => res[k].kwh = first
          BY DEF SoFar
        <4>2. k \notin DOMAIN res => KnownTo(p, b, k, N) = 0
          BY <1>1, NoneKnown
        <4>3. SameFraction(first, first)
          BY <3>1, PlusIsCrossed
        <4> QED
          BY <4>1, <4>2, <4>3
      <3>3. \A i, j \in 1 .. Len(aside) : at[i] = at[j] => i = j
        BY <2>2 DEF Locates
      <3>4. DOMAIN f = {i \in UnknownTo(p, b, N) : KeyOf(b[i]) = k} /\ \A i \in DOMAIN f : f[i] = GuessAt(p, b, i)
        BY DEF GuessesOf
      <3>5. IsFiniteSet(DOMAIN f)
        <4>1. IsFiniteSet(1 .. N) /\ DOMAIN f \subseteq 1 .. N
          BY <3>4, FS_Interval DEF UnknownTo
        <4> QED
          BY <4>1, FS_Subset
      <3>6. \A x \in DOMAIN f : f[x] \in Fraction
        BY <3>4, GuessType DEF UnknownTo
      <3> HIDE DEF f, first
      <3>7. DOMAIN f = {at[j] : j \in {i \in 1 .. Len(aside) : KeyOf(aside[i]) = k}}
        BY <2>2, <3>4 DEF Locates
      <3>8. \A j \in 1 .. Len(aside) :
               KeyOf(aside[j]) = k => SameFraction(EstimateUnknown(table, p, aside[j]), f[at[j]])
        BY <2>2, <3>4 DEF Locates, FairTable
      <3>9. /\ k \in DOMAIN after <=> k \in DOMAIN res \/ DOMAIN f # {}
            /\ SumOfFractions(first, f) \in Fraction
            /\ k \in DOMAIN after => SameFraction(after[k].kwh, SumOfFractions(first, f))
        BY <1>3, <3>1, <3>2, <3>3, <3>5, <3>6, <3>7, <3>8, WithUnknownKwh
      <3>10. BillKwh(p, b, k) = SumOfFractions(first, f)
        BY DEF BillKwh, f, first
      <3>11. k \in DOMAIN res \/ DOMAIN f # {} <=> \E i \in 1 .. N : KeyOf(b[i]) = k /\ Outcome(p, b[i]) # "dropped"
        <4>1. \A i \in 1 .. N : b[i] \in Rows
          OBVIOUS
        <4>2. \A row \in Rows : Outcome(p, row) \in Outcomes
          BY EstimateType DEF Outcome
        <4>3. \A i \in 1 .. N : Outcome(p, b[i]) # "dropped" <=> Outcome(p, b[i]) \in Estimated \/ Outcome(p, b[i]) = "unknown"
          BY <4>1, <4>2 DEF Estimated, Outcomes
        <4> HIDE DEF N
        <4> QED
          BY <1>1, <3>4, <4>3 DEF UnknownTo
      <3> HIDE DEF after
      <3> QED
        BY <2>1, <3>9, <3>10, <3>11 DEF Answered
    <2> HIDE DEF after
    <2>4. ByBill(after, p, b)
      BY <2>3 DEF ByBill
    <2> QED
      BY <2>4 DEF after
  <1> QED
    BY <1>2, <1>3

-----------------------------------------------------------------------------
(* Requests by themselves: what they are answered is determined by their bill. *)

Begun == {order[i] : i \in DOMAIN order}

\* The requests so far asked for one bill, one at a time, and none failed.
Clean == overlapped = {} /\ \A x \in Begun : rows[x] = rows[Head(order)] /\ pc[x] # "failed"

\* The first request, as long as it is alone.
Leads(r) == order # << >> /\ Head(order) = r /\ r \notin overlapped

OrderInv ==
    /\ order \in Seq(Requests)
    /\ \A r \in Requests : r \in Begun <=> pc[r] # "new"
    /\ order = << >> => overlapped = {} /\ \A p \in Providers : totals[p] = Nothing
    /\ \A r \in Running : Leads(r) => order = <<r>> /\ overlapped = {}

\* What a request that is not answered yet has of its bill.
EnergyInv ==
    \A r \in Requests : pc[r] # "done" =>
        SoFar(results[r], unknownRows[r], provider[r], rows[r], next[r] - 1)

\* Every row that was counted has left an entry of its unit.
CountedInv ==
    \A r \in Requests : \A i \in 1 .. next[r] - 1 :
        OutcomeAt(r, i) = "counted" => <<"total", rows[r][i].unit>> \in DOMAIN totals[provider[r]]

\* What the steps of fetching a factor do to all this: only where the request is changes.
LEMMA FactorMoves ==
    ASSUME Typed, NEW r \in Requests,
           \/ GetEmissionsFactors(r) \/ IntensityUnknown(r) \/ IntensityFails(r)
           \/ \E i \in Intensities : IntensityArrives(r, i)
    PROVE  /\ UNCHANGED <<totals, provider, rows, next, unknownRows, results, order, overlapped>>
           /\ r \in Running /\ pc'[r] \in {"fetching", "estimate", "failed"}
           /\ \A q \in Requests : q # r => pc'[q] = pc[q]
           /\ pc' \in [Requests -> Phases]
  <1>1. UNCHANGED <<totals, provider, rows, next, unknownRows, results, order, overlapped>>
    BY DEF GetEmissionsFactors, IntensityUnknown, IntensityFails, IntensityArrives, processVars, historyVars
  <1>2. pc[r] \in {"row", "fetching"} /\ \E x \in {"fetching", "estimate", "failed"} : pc' = [pc EXCEPT ![r] = x]
    BY DEF GetEmissionsFactors, IntensityUnknown, IntensityFails, IntensityArrives, UseFactor
  <1> QED
    BY <1>1, <1>2 DEF Typed, Phases, Running

\* What the step of a row does: the request alone moves, by one row.
LEMMA RowMoves ==
    ASSUME Typed, NEW r \in Requests, EstimateRow(r)
    PROVE  /\ pc[r] = "estimate" /\ totals' = TotalsAfter(r) /\ UNCHANGED <<provider, rows, order, overlapped>>
           /\ pc'[r] = IF next[r] < Len(rows[r]) THEN "row" ELSE "done"
           /\ next'[r] = next[r] + 1 /\ unknownRows'[r] = UnknownAfter(r)
           /\ results'[r] = IF next[r] < Len(rows[r]) THEN ResultsAfter(r)
                            ELSE WithUnknown(ResultsAfter(r), UnknownAfter(r), totals'[provider[r]], provider[r])
           /\ \A q \in Requests : q # r =>
                 /\ pc'[q] = pc[q] /\ next'[q] = next[q]
                 /\ unknownRows'[q] = unknownRows[q] /\ results'[q] = results[q]
           /\ pc' \in [Requests -> Phases]
  <1> DEFINE last == ~(next[r] < Len(rows[r]))
             result == IF next[r] < Len(rows[r]) THEN ResultsAfter(r)
                       ELSE WithUnknown(ResultsAfter(r), UnknownAfter(r), totals'[provider[r]], provider[r])
  <1>1. /\ pc[r] = "estimate" /\ totals' = TotalsAfter(r) /\ UNCHANGED <<provider, rows, order, overlapped>>
        /\ unknownRows' = [unknownRows EXCEPT ![r] = UnknownAfter(r)]
        /\ next' = [next EXCEPT ![r] = @ + 1]
        /\ pc' = [pc EXCEPT ![r] = IF last THEN "done" ELSE "row"]
        /\ results' = [results EXCEPT ![r] = result]
    BY DEF EstimateRow, historyVars
  <1>2. pc' \in [Requests -> Phases] /\ pc'[r] = IF last THEN "done" ELSE "row"
    <2> HIDE DEF last
    <2> QED
      BY <1>1 DEF Typed, Phases
  <1>3. next'[r] = next[r] + 1 /\ unknownRows'[r] = UnknownAfter(r) /\ results'[r] = result
    <2> HIDE DEF result
    <2> QED
      BY <1>1 DEF Typed
  <1>4. \A q \in Requests : q # r =>
                 /\ pc'[q] = pc[q] /\ next'[q] = next[q]
                 /\ unknownRows'[q] = unknownRows[q] /\ results'[q] = results[q]
    <2> HIDE DEF result, last
    <2> QED
      BY <1>1 DEF Typed
  <1> QED
    BY <1>1, <1>2, <1>3, <1>4

\* A request that begins does so with its bill, behind those that began before.
LEMMA BeginMoves ==
    ASSUME Typed, NEW r \in Requests, NEW bill \in Seq(Rows), Begin(r, bill)
    PROVE  /\ UNCHANGED <<totals, provider, next, unknownRows, results>>
           /\ pc[r] = "new" /\ next[r] = 1 /\ rows'[r] = bill
           /\ pc'[r] = IF bill = << >> THEN "done" ELSE "row"
           /\ \A q \in Requests : q # r => pc'[q] = pc[q] /\ rows'[q] = rows[q]
           /\ order' = Append(order, r)
           /\ overlapped' = IF Running = {} THEN overlapped ELSE overlapped \cup Running \cup {r}
           /\ pc' \in [Requests -> Phases] /\ rows' \in [Requests -> Seq(Rows)]
  <1>1. /\ pc[r] = "new" /\ pc' = [pc EXCEPT ![r] = IF bill = << >> THEN "done" ELSE "row"]
        /\ rows' = [rows EXCEPT ![r] = bill] /\ order' = Append(order, r)
        /\ overlapped' = IF Running = {} THEN overlapped ELSE overlapped \cup Running \cup {r}
        /\ UNCHANGED <<totals, provider, next, unknownRows, results>>
    BY DEF Begin, processVars
  <1>2. pc \in [Requests -> Phases] /\ rows \in [Requests -> Seq(Rows)] /\ next[r] = 1
    BY <1>1 DEF Typed, Progress
  <1> QED
    BY <1>1, <1>2 DEF Phases

\* One more in the order.
LEMMA OrderNext ==
    ASSUME order \in Seq(Requests), NEW r \in Requests, order' = Append(order, r)
    PROVE  /\ order' \in Seq(Requests) /\ order' # << >>
           /\ Begun' = Begun \cup {r}
           /\ order # << >> => Head(order') = Head(order) /\ Head(order) \in Begun
           /\ order = << >> => order' = <<r>> /\ Head(order') = r /\ Begun = {}
  <1> DEFINE N == Len(order)
  <1>1. /\ order' \in Seq(Requests) /\ Len(order') = N + 1 /\ N \in Nat /\ order'[N + 1] = r
        /\ \A i \in 1 .. N : order'[i] = order[i]
        /\ DOMAIN order = 1 .. N /\ DOMAIN order' = 1 .. N + 1
    OBVIOUS
  <1>2. 1 .. N + 1 = (1 .. N) \cup {N + 1}
    BY <1>1
  <1>3. Begun' = Begun \cup {r}
    <2>1. \A x : x \in Begun' <=> \E i \in 1 .. N + 1 : order'[i] = x
      BY <1>1 DEF Begun
    <2>2. \A x : x \in Begun <=> \E i \in 1 .. N : order[i] = x
      BY <1>1 DEF Begun
    <2> HIDE DEF N
    <2>3. \A x : x \in Begun' <=> x \in Begun \/ x = r
      BY <1>1, <1>2, <2>1, <2>2
    <2> QED
      BY <2>3
  <1>4. ASSUME order # << >>
        PROVE  Head(order') = Head(order) /\ Head(order) \in Begun
    <2>1. N # 0
      BY <1>4, EmptySeq
    <2>2. 1 \in 1 .. N
      BY <1>1, <2>1
    <2>3. Head(order') = order'[1] /\ Head(order) = order[1]
      OBVIOUS
    <2> QED
      BY <1>1, <2>2, <2>3 DEF Begun
  <1>5. order = << >> => order' = <<r>> /\ Head(order') = r /\ Begun = {}
    BY DEF Begun
  <1>6. order' # << >>
    BY <1>1
  <1> QED
    BY <1>1, <1>3, <1>4, <1>5, <1>6

\* A request that begins is the last in the order, and leads only if it is the first.
LEMMA OrderBegins ==
    ASSUME Typed, OrderInv, NEW r \in Requests, NEW bill \in Seq(Rows), Begin(r, bill)
    PROVE  OrderInv'
  <1>1. /\ pc[r] = "new" /\ pc'[r] \in {"done", "row"}
        /\ \A q \in Requests : q # r => pc'[q] = pc[q]
        /\ order' = Append(order, r)
        /\ overlapped' = IF Running = {} THEN overlapped ELSE overlapped \cup Running \cup {r}
    BY BeginMoves
  <1>2. /\ order' \in Seq(Requests) /\ order' # << >>
        /\ Begun' = Begun \cup {r}
        /\ order # << >> => Head(order') = Head(order) /\ Head(order) \in Begun
        /\ order = << >> => order' = <<r>> /\ Head(order') = r /\ Begun = {}
    BY <1>1, OrderNext DEF OrderInv
  <1>3. \A q \in Requests : q \in Begun' <=> pc'[q] # "new"
    BY <1>1, <1>2 DEF OrderInv
  <1>4. ASSUME NEW q \in Running', Leads(q)'
        PROVE  order' = <<q>> /\ overlapped' = {}
    <2>1. q \in Running \/ q = r
      BY <1>1 DEF Running
    <2>2. Head(order') = q /\ q \notin overlapped'
      BY <1>4 DEF Leads
    <2>3. Running = {} /\ q = r
      BY <1>1, <2>1, <2>2
    <2>4. r \notin Begun
      BY <1>1 DEF OrderInv
    <2>5. order = << >>
      BY <1>2, <2>2, <2>3, <2>4
    <2> QED
      BY <1>1, <1>2, <2>3, <2>5 DEF OrderInv
  <1> QED
    BY <1>2, <1>3, <1>4 DEF OrderInv

\* Any other step leaves the order as it is, and so who began.
LEMMA OrderStays ==
    ASSUME OrderInv, NEW r \in Running, UNCHANGED <<order, overlapped>>, pc'[r] # "new",
           \A q \in Requests : q # r => pc'[q] = pc[q]
    PROVE  OrderInv'
  <1>1. Running' \subseteq Running /\ Begun' = Begun /\ r \in Requests /\ pc[r] # "new"
    BY DEF Running, Begun
  <1>2. \A q \in Requests : q \in Begun' <=> pc'[q] # "new"
    BY <1>1 DEF OrderInv
  <1>3. order # << >>
    <2>1. Begun # {}
      BY <1>1 DEF OrderInv
    <2> QED
      BY <2>1 DEF Begun
  <1>4. \A q : Leads(q)' => Leads(q)
    BY DEF Leads
  <1> QED
    BY <1>1, <1>2, <1>3, <1>4 DEF OrderInv

\* Before the first row, a bill has no estimates and nothing is put aside.
LEMMA SoFarStart ==
    ASSUME NEW res, NEW aside, NEW p, NEW b, NEW c, SoFar(res, aside, p, b, 0)
    PROVE  SoFar(res, aside, p, c, 0) /\ DOMAIN res = {}
  <1>1. 1 .. 0 = {}
    OBVIOUS
  <1>2. DOMAIN res = {}
    BY <1>1 DEF SoFar
  <1>3. UnknownTo(p, b, 0) = {} /\ UnknownTo(p, c, 0) = {}
    BY <1>1 DEF UnknownTo
  <1>4. \E at : Locates(at, aside, p, c, 0)
    BY <1>3 DEF SoFar, Locates
  <1> QED
    BY <1>1, <1>2, <1>4 DEF SoFar

\* After a row, the estimates and the rows put aside are those of one row more.
LEMMA RowEnergy ==
    ASSUME Typed, EnergyInv, NEW r \in Requests, pc[r] = "estimate"
    PROVE  SoFar(ResultsAfter(r), UnknownAfter(r), provider[r], rows[r], next[r])
  <1> DEFINE p == provider[r]
             b == rows[r]
             n == next[r] - 1
             res == results[r]
             aside == unknownRows[r]
             e == IF Outcome(p, b[n + 1]) = "zero" THEN 0 ELSE RowKwh(p, b[n + 1])
  <1>1. /\ p \in Services /\ b \in Seq(Rows) /\ n \in Nat /\ n < Len(b) /\ n + 1 = next[r]
        /\ Row(r) = b[n + 1] /\ Row(r) \in Rows /\ aside \in Seq(Rows) /\ Answer(res)
        /\ Outcome(p, b[n + 1]) \in Outcomes
    BY AtRow
  <1>2. SoFar(res, aside, p, b, n)
    BY DEF EnergyInv
  <1> HIDE DEF p, b, n, res, aside
  <1>3. e \in Nat
    <2>1. Estimate(p, Row(r)) \in [outcome: Outcomes, kwh: Nat, counted: Nat]
      BY <1>1, EstimateType
    <2> QED
      BY <1>1, <2>1 DEF RowKwh
  <1>4. CASE Outcome(p, b[n + 1]) \in Estimated
    <2>1. SoFar(AppendOrAccumulate(res, b[n + 1], <<e, 1>>), aside, p, b, n + 1)
      <3> HIDE DEF e
      <3>1. e = IF Outcome(p, b[n + 1]) = "zero" THEN 0 ELSE RowKwh(p, b[n + 1])
        BY DEF e
      <3> QED
        BY <1>1, <1>2, <1>3, <1>4, <3>1, EstimatedNext
    <2>2. ResultsAfter(r) = AppendOrAccumulate(res, b[n + 1], <<e, 1>>) /\ UnknownAfter(r) = aside
      BY <1>1, <1>4 DEF ResultsAfter, UnknownAfter, Estimated, res, aside, p
    <2> QED
      BY <1>1, <2>1, <2>2 DEF p, b
  <1>5. CASE Outcome(p, b[n + 1]) \notin Estimated
    <2>1. SoFar(res, IF Outcome(p, b[n + 1]) = "unknown" THEN Append(aside, b[n + 1]) ELSE aside, p, b, n + 1)
      BY <1>1, <1>2, <1>5, UnestimatedNext
    <2>2. /\ ResultsAfter(r) = res
          /\ UnknownAfter(r) = IF Outcome(p, b[n + 1]) = "unknown" THEN Append(aside, b[n + 1]) ELSE aside
      BY <1>1, <1>5 DEF ResultsAfter, UnknownAfter, Estimated, res, aside, p
    <2> QED
      BY <1>1, <2>1, <2>2 DEF p, b
  <1> QED
    BY <1>4, <1>5

\* A step that is not that of a row leaves what a request has of its bill.
LEMMA EnergyBegins ==
    ASSUME Typed, EnergyInv, NEW r \in Requests, NEW bill \in Seq(Rows), Begin(r, bill)
    PROVE  /\ EnergyInv' /\ DOMAIN results'[r] = {}
  <1>1. /\ UNCHANGED <<provider, next, unknownRows, results>>
        /\ pc[r] = "new" /\ next[r] = 1
        /\ \A q \in Requests : q # r => pc'[q] = pc[q] /\ rows'[q] = rows[q]
    BY BeginMoves
  <1>2. SoFar(results[r], unknownRows[r], provider[r], rows[r], 0)
    <2>1. next[r] - 1 = 0
      BY <1>1
    <2>2. SoFar(results[r], unknownRows[r], provider[r], rows[r], next[r] - 1)
      BY <1>1 DEF EnergyInv
    <2> QED
      BY <2>1, <2>2
  <1>3. SoFar(results[r], unknownRows[r], provider[r], rows'[r], 0) /\ DOMAIN results[r] = {}
    BY <1>2, SoFarStart
  <1>4. SoFar(results'[r], unknownRows'[r], provider'[r], rows'[r], next'[r] - 1)
    <2>1. next'[r] - 1 = 0
      BY <1>1
    <2> QED
      BY <1>1, <1>3, <2>1
  <1>5. ASSUME NEW q \in Requests, q # r, pc'[q] # "done"
        PROVE  SoFar(results'[q], unknownRows'[q], provider'[q], rows'[q], next'[q] - 1)
    <2>1. pc[q] # "done" /\ rows'[q] = rows[q]
      BY <1>1, <1>5
    <2>2. SoFar(results[q], unknownRows[q], provider[q], rows[q], next[q] - 1)
      BY <2>1 DEF EnergyInv
    <2> QED
      BY <1>1, <2>1, <2>2
  <1> QED
    BY <1>1, <1>3, <1>4, <1>5 DEF EnergyInv

\* After a row, a request has one row more of its bill.
LEMMA EnergyRow ==
    ASSUME Typed, EnergyInv, NEW r \in Requests, EstimateRow(r)
    PROVE  EnergyInv'
  <1>1. /\ pc[r] = "estimate" /\ UNCHANGED <<provider, rows>>
        /\ pc'[r] = IF next[r] < Len(rows[r]) THEN "row" ELSE "done"
        /\ next'[r] = next[r] + 1 /\ unknownRows'[r] = UnknownAfter(r)
        /\ next[r] < Len(rows[r]) => results'[r] = ResultsAfter(r)
        /\ \A q \in Requests : q # r =>
              /\ pc'[q] = pc[q] /\ next'[q] = next[q]
              /\ unknownRows'[q] = unknownRows[q] /\ results'[q] = results[q]
    BY RowMoves
  <1>2. SoFar(ResultsAfter(r), UnknownAfter(r), provider[r], rows[r], next[r])
    BY <1>1, RowEnergy
  <1>3. next'[r] - 1 = next[r]
    BY <1>1 DEF Typed
  <1>4. pc'[r] # "done" => SoFar(results'[r], unknownRows'[r], provider'[r], rows'[r], next'[r] - 1)
    BY <1>1, <1>2, <1>3
  <1>5. ASSUME NEW q \in Requests, q # r, pc'[q] # "done"
        PROVE  SoFar(results'[q], unknownRows'[q], provider'[q], rows'[q], next'[q] - 1)
    <2>1. SoFar(results[q], unknownRows[q], provider[q], rows[q], next[q] - 1)
      BY <1>1, <1>5 DEF EnergyInv
    <2> QED
      BY <1>1, <1>5, <2>1
  <1> QED
    BY <1>4, <1>5 DEF EnergyInv

\* While a factor is fetched, nothing of the bill is estimated.
LEMMA EnergyStays ==
    ASSUME EnergyInv, NEW r \in Running, UNCHANGED <<provider, rows, next, unknownRows, results>>,
           \A q \in Requests : q # r => pc'[q] = pc[q]
    PROVE  EnergyInv'
  <1>1. \A q \in Requests : pc'[q] # "done" => pc[q] # "done"
    BY DEF Running
  <1> QED
    BY <1>1 DEF EnergyInv

\* The rows that were counted have an entry of their unit, through any step.
LEMMA CountedRow ==
    ASSUME Typed, CountedInv, NEW r \in Requests, EstimateRow(r)
    PROVE  CountedInv'
  <1>1. /\ pc[r] = "estimate" /\ totals' = TotalsAfter(r) /\ UNCHANGED <<provider, rows>>
        /\ next'[r] = next[r] + 1 /\ \A q \in Requests : q # r => next'[q] = next[q]
    BY RowMoves
  <1>2. /\ \A p \in Providers : p # provider[r] => totals'[p] = totals[p]
        /\ totals'[provider[r]] = IF OutcomeAt(r, next[r]) = "counted"
                                  THEN AccumulateKilowattHours(totals[provider[r]], provider[r], Row(r))
                                  ELSE totals[provider[r]]
    BY <1>1, TotalsTyped
  <1>3. /\ provider[r] \in Services /\ Table(totals[provider[r]]) /\ Row(r) \in Rows /\ Row(r) = rows[r][next[r]]
        /\ next[r] \in Nat
    BY <1>1, AtRow
  <1>4. DOMAIN AccumulateKilowattHours(totals[provider[r]], provider[r], Row(r))
        = DOMAIN totals[provider[r]] \cup {<<Row(r).service, Row(r).unit>>, <<"total", Row(r).unit>>}
    <2> DEFINE t == totals[provider[r]]
               row == Row(r)
               p == provider[r]
    <2> HIDE DEF t, row, p
    <2>1. Table(t) /\ p \in Services /\ row \in Rows
      BY <1>3 DEF t, row, p
    <2>2. DOMAIN AccumulateKilowattHours(t, p, row) = DOMAIN t \cup {<<row.service, row.unit>>, <<"total", row.unit>>}
      BY <2>1, AccumulateEntries
    <2> QED
      BY <2>2 DEF t, row, p
  <1>5. \A q \in Requests : DOMAIN totals[provider[q]] \subseteq DOMAIN totals'[provider[q]]
    <2> TAKE q \in Requests
    <2>1. provider[q] \in Providers
      BY DEF Typed
    <2>2. CASE provider[q] = provider[r]
      BY <1>2, <1>4, <2>2
    <2>3. CASE provider[q] # provider[r]
      BY <1>2, <2>1, <2>3
    <2> QED
      BY <2>2, <2>3
  <1>6. OutcomeAt(r, next[r]) = "counted" => <<"total", rows[r][next[r]].unit>> \in DOMAIN totals'[provider[r]]
    BY <1>2, <1>3, <1>4
  <1>7. \A q \in Requests : \A i \in 1 .. next'[q] - 1 : i \in 1 .. next[q] - 1 \/ (q = r /\ i = next[r])
    BY <1>1, <1>3 DEF Typed
  <1>8. \A q \in Requests : \A i : OutcomeAt(q, i)' = OutcomeAt(q, i)
    BY <1>1, SameBill
  <1> QED
    BY <1>1, <1>5, <1>6, <1>7, <1>8 DEF CountedInv

\* A step that is not that of a row counts nothing.
LEMMA CountedStays ==
    ASSUME Typed, CountedInv, UNCHANGED <<provider, next, totals>>,
           \A q \in Requests : next[q] = 1 \/ rows'[q] = rows[q]
    PROVE  CountedInv'
  <1> SUFFICES ASSUME NEW q \in Requests, NEW i \in 1 .. next[q] - 1, OutcomeAt(q, i)' = "counted"
               PROVE  <<"total", rows'[q][i].unit>> \in DOMAIN totals[provider[q]]
    BY DEF CountedInv
  <1>1. rows'[q] = rows[q]
    OBVIOUS
  <1>2. OutcomeAt(q, i) = "counted"
    BY <1>1, SameBill
  <1> QED
    BY <1>1, <1>2 DEF CountedInv

-----------------------------------------------------------------------------
\* The totals of a provider are m times those of its bill, and those of the first n rows.
Weighs(table, p, b, m, n) ==
    \A u \in Units :
        /\ Entry(table, <<"total", u>>).kwh = m * KwhTo(p, b, u, Len(b)) + KwhTo(p, b, u, n)
        /\ Entry(table, <<"total", u>>).amount = m * AmountTo(p, b, u, Len(b)) + AmountTo(p, b, u, n)

\* Empty totals are 0 times any bill.
LEMMA WeighsNothing ==
    ASSUME NEW p \in Services, NEW b \in Seq(Rows)
    PROVE  Weighs(Nothing, p, b, 0, 0)
  <1> SUFFICES ASSUME NEW u \in Units
               PROVE  /\ Entry(Nothing, <<"total", u>>).kwh = 0 * KwhTo(p, b, u, Len(b)) + KwhTo(p, b, u, 0)
                      /\ Entry(Nothing, <<"total", u>>).amount = 0 * AmountTo(p, b, u, Len(b)) + AmountTo(p, b, u, 0)
    BY DEF Weighs
  <1>1. Entry(Nothing, <<"total", u>>) = [amount |-> 0, kwh |-> 0]
    BY DEF Entry, Nothing
  <1>2. KwhTo(p, b, u, Len(b)) \in Nat /\ AmountTo(p, b, u, Len(b)) \in Nat
    BY SumsWhole
  <1>3. KwhTo(p, b, u, 0) = 0 /\ AmountTo(p, b, u, 0) = 0
    BY SumsStart
  <1> QED
    BY <1>1, <1>2, <1>3

\* A row more on both sides.
LEMMA WeighsNext ==
    ASSUME NEW p \in Services, NEW b \in Seq(Rows), NEW n \in Nat, n < Len(b), NEW m \in Nat,
           NEW t, Table(t), Weighs(t, p, b, m, n)
    PROVE  Weighs(IF Outcome(p, b[n + 1]) = "counted" THEN AccumulateKilowattHours(t, p, b[n + 1]) ELSE t,
                  p, b, m, n + 1)
  <1> DEFINE x == n + 1
             row == b[x]
             after == IF Outcome(p, row) = "counted" THEN AccumulateKilowattHours(t, p, row) ELSE t
  <1> SUFFICES ASSUME NEW u \in Units
               PROVE  /\ Entry(after, <<"total", u>>).kwh = m * KwhTo(p, b, u, Len(b)) + KwhTo(p, b, u, x)
                      /\ Entry(after, <<"total", u>>).amount = m * AmountTo(p, b, u, Len(b)) + AmountTo(p, b, u, x)
    BY DEF Weighs
  <1> DEFINE k == <<"total", u>>
             K == m * KwhTo(p, b, u, Len(b))
             A == m * AmountTo(p, b, u, Len(b))
             counts == Outcome(p, row) = "counted" /\ row.unit = u
  <1>1. Entry(t, k).kwh = K + KwhTo(p, b, u, n) /\ Entry(t, k).amount = A + AmountTo(p, b, u, n)
    BY DEF Weighs
  <1>2. /\ KwhTo(p, b, u, n) \in Nat /\ AmountTo(p, b, u, n) \in Nat
        /\ KwhTo(p, b, u, x) = IF counts THEN KwhTo(p, b, u, n) + CountedKwh(p, row) ELSE KwhTo(p, b, u, n)
        /\ AmountTo(p, b, u, x) = IF counts THEN AmountTo(p, b, u, n) + Amount(p, row) ELSE AmountTo(p, b, u, n)
    BY SumsNext
  <1>3. row \in Rows
    OBVIOUS
  <1>4. K \in Nat /\ A \in Nat
    <2> DEFINE kwh == KwhTo(p, b, u, Len(b))
               amount == AmountTo(p, b, u, Len(b))
    <2>1. kwh \in Nat /\ amount \in Nat
      BY SumsWhole
    <2> HIDE DEF kwh, amount
    <2>2. m * kwh \in Nat /\ m * amount \in Nat
      BY <2>1
    <2> QED
      BY <2>2 DEF kwh, amount
  <1>5. CountedKwh(p, row) \in Nat /\ Amount(p, row) \in Nat
    <2> HIDE DEF row
    <2> QED
      BY <1>3, EstimateType DEF CountedKwh
  <1>6. Entry(after, k) = IF counts THEN [amount |-> Entry(t, k).amount + Amount(p, row),
                                          kwh |-> Entry(t, k).kwh + CountedKwh(p, row)]
                          ELSE Entry(t, k)
    <2> HIDE DEF row
    <2>1. CASE Outcome(p, row) # "counted"
      BY <2>1
    <2>2. CASE Outcome(p, row) = "counted"
      <3>1. /\ \A e : Entry(AccumulateKilowattHours(t, p, row), e)
                      = IF e \in {<<row.service, row.unit>>, <<"total", row.unit>>}
                        THEN [amount |-> Entry(t, e).amount + Amount(p, row),
                              kwh |-> Entry(t, e).kwh + CountedKwh(p, row)]
                        ELSE Entry(t, e)
            /\ row.service \in {"A", "B"}
        BY <1>3, AccumulateEntries
      <3>2. k \in {<<row.service, row.unit>>, <<"total", row.unit>>} <=> row.unit = u
        BY <3>1
      <3> HIDE DEF k
      <3>3. after = AccumulateKilowattHours(t, p, row) /\ (counts <=> row.unit = u)
        BY <2>2
      <3> QED
        BY <3>1, <3>2, <3>3
    <2> QED
      BY <2>1, <2>2
  <1> HIDE DEF K, A, counts, row, after, x
  <1>7. Entry(after, k).kwh = K + KwhTo(p, b, u, x) /\ Entry(after, k).amount = A + AmountTo(p, b, u, x)
    <2> HIDE DEF k
    <2>1. CASE counts
      <3>1. /\ Entry(after, k).kwh = Entry(t, k).kwh + CountedKwh(p, row)
            /\ Entry(after, k).amount = Entry(t, k).amount + Amount(p, row)
        BY <1>6, <2>1
      <3> QED
        BY <1>1, <1>2, <1>4, <1>5, <2>1, <3>1
    <2>2. CASE ~counts
      BY <1>1, <1>2, <1>6, <2>2
    <2> QED
      BY <2>1, <2>2
  <1> QED
    BY <1>7 DEF K, A

\* With its last row the bill is counted once more.
LEMMA WeighsWhole ==
    ASSUME NEW p \in Services, NEW b \in Seq(Rows), NEW m \in Nat, NEW t, Weighs(t, p, b, m, Len(b))
    PROVE  /\ Weighs(t, p, b, m + 1, 0)
           /\ (\A u \in Units : <<"total", u>> \in DOMAIN t <=> CountedTo(p, b, u, Len(b)) # {})
              => TimesBill(t, p, b, m + 1)
  <1>1. ASSUME NEW u \in Units
        PROVE  /\ Entry(t, <<"total", u>>).kwh = (m + 1) * KwhTo(p, b, u, Len(b))
               /\ Entry(t, <<"total", u>>).amount = (m + 1) * AmountTo(p, b, u, Len(b))
               /\ Entry(t, <<"total", u>>).kwh = (m + 1) * KwhTo(p, b, u, Len(b)) + KwhTo(p, b, u, 0)
               /\ Entry(t, <<"total", u>>).amount = (m + 1) * AmountTo(p, b, u, Len(b)) + AmountTo(p, b, u, 0)
    <2> DEFINE kwh == KwhTo(p, b, u, Len(b))
               amount == AmountTo(p, b, u, Len(b))
    <2>1. kwh \in Nat /\ amount \in Nat
      BY SumsWhole
    <2>2. KwhTo(p, b, u, 0) = 0 /\ AmountTo(p, b, u, 0) = 0
      BY SumsStart
    <2>3. Entry(t, <<"total", u>>).kwh = m * kwh + kwh /\ Entry(t, <<"total", u>>).amount = m * amount + amount
      BY DEF Weighs
    <2> HIDE DEF kwh, amount
    <2>4. m * kwh + kwh = (m + 1) * kwh /\ m * amount + amount = (m + 1) * amount
      BY <2>1
    <2>5. (m + 1) * kwh + 0 = (m + 1) * kwh /\ (m + 1) * amount + 0 = (m + 1) * amount
      BY <2>1
    <2> QED
      BY <2>2, <2>3, <2>4, <2>5 DEF kwh, amount
  <1> QED
    BY <1>1 DEF Weighs, TimesBill

-----------------------------------------------------------------------------
\* A provider's totals are some number of times those of a bill, and those of its first n rows.
Balanced(p, b, n) == \E m \in Nat : Weighs(totals[p], p, b, m, n)

\* As long as one bill is asked for, the totals stay in proportion to it.
BalanceInv ==
    Clean /\ order # << >> =>
        /\ \A r \in Running : Balanced(provider[r], rows[r], next[r] - 1)
        /\ \A p \in Providers : (\A r \in Running : provider[r] # p) => Balanced(p, rows[Head(order)], 0)

\* Answers to the first request, and to requests for one bill, are determined by the bill.
AnswerInv ==
    \A r \in Requests : pc[r] = "done" /\ (Clean \/ Leads(r)) => ByBill(results[r], provider[r], rows[r])

\* When a request begins and all is clean then, it was before, and nothing ran.
LEMMA CleanBegins ==
    ASSUME Typed, OrderInv, NEW r \in Requests, NEW bill \in Seq(Rows), Begin(r, bill), Clean'
    PROVE  Clean /\ Running = {} /\ bill = rows'[Head(order')]
           /\ (order # << >> => rows[Head(order)] = bill)
  <1>1. /\ pc[r] = "new" /\ rows'[r] = bill
        /\ \A q \in Requests : q # r => pc'[q] = pc[q] /\ rows'[q] = rows[q]
        /\ order' = Append(order, r)
        /\ overlapped' = IF Running = {} THEN overlapped ELSE overlapped \cup Running \cup {r}
    BY BeginMoves
  <1>2. /\ Begun' = Begun \cup {r}
        /\ order # << >> => Head(order') = Head(order) /\ Head(order) \in Begun
        /\ order = << >> => Begun = {}
    BY <1>1, OrderNext DEF OrderInv
  <1>3. Running = {} /\ overlapped = {}
    BY <1>1 DEF Clean
  <1>4. \A x \in Begun : x \in Requests /\ x # r
    BY <1>1 DEF OrderInv, Begun
  <1>5. \A x \in Begun : rows[x] = rows'[Head(order')] /\ pc[x] # "failed"
    BY <1>1, <1>2, <1>4 DEF Clean
  <1>6. bill = rows'[Head(order')]
    BY <1>1, <1>2 DEF Clean
  <1>7. order # << >> => rows[Head(order)] = bill
    BY <1>2, <1>5, <1>6
  <1>8. CASE order = << >>
    BY <1>2, <1>3, <1>6, <1>8 DEF Clean
  <1>9. CASE order # << >>
    BY <1>3, <1>5, <1>6, <1>7, <1>9 DEF Clean
  <1> QED
    BY <1>3, <1>6, <1>7, <1>8, <1>9

\* When all is clean after any other step, it was before.
LEMMA CleanStays ==
    ASSUME NEW r \in Running, UNCHANGED <<rows, order, overlapped>>,
           \A q \in Requests : q # r => pc'[q] = pc[q], order \in Seq(Requests)
    PROVE  /\ Clean' => Clean
           /\ Clean /\ pc'[r] # "failed" => Clean'
           /\ \A q : Leads(q)' <=> Leads(q)
  <1>1. Begun' = Begun /\ Begun \subseteq Requests /\ pc[r] # "failed"
    BY DEF Begun, Running
  <1>2. \A x \in Begun : x = r \/ pc'[x] = pc[x]
    BY <1>1
  <1> QED
    BY <1>1, <1>2 DEF Clean, Leads

\* A bill with no rows is answered by no estimates.
LEMMA NoRowsByBill ==
    ASSUME NEW res, DOMAIN res = {}, NEW p
    PROVE  ByBill(res, p, << >>)
  <1>1. 1 .. Len(<< >>) = {}
    OBVIOUS
  <1> QED
    BY <1>1 DEF ByBill, Answered

\* Answers stay as they are once given.
LEMMA AnswersBegin ==
    ASSUME Typed, OrderInv, EnergyInv, AnswerInv, NEW r \in Requests, NEW bill \in Seq(Rows), Begin(r, bill)
    PROVE  AnswerInv'
  <1> SUFFICES ASSUME NEW q \in Requests, pc'[q] = "done", Clean' \/ Leads(q)'
               PROVE  ByBill(results'[q], provider'[q], rows'[q])
    BY DEF AnswerInv
  <1>1. /\ UNCHANGED <<provider, results>>
        /\ rows'[r] = bill /\ pc'[r] = IF bill = << >> THEN "done" ELSE "row"
        /\ \A x \in Requests : x # r => pc'[x] = pc[x] /\ rows'[x] = rows[x]
        /\ order' = Append(order, r)
        /\ overlapped \subseteq overlapped'
    BY BeginMoves
  <1>2. CASE q = r
    <2>1. bill = << >> /\ DOMAIN results'[r] = {}
      BY <1>1, <1>2, EnergyBegins
    <2> QED
      BY <1>1, <1>2, <2>1, NoRowsByBill
  <1>3. CASE q # r
    <2>1. pc[q] = "done" /\ q \in Begun
      BY <1>1, <1>3 DEF OrderInv
    <2>2. order # << >>
      BY <2>1 DEF Begun
    <2>3. Head(order') = Head(order)
      BY <1>1, <2>2, OrderNext DEF OrderInv
    <2>4. Leads(q)' => Leads(q)
      BY <1>1, <2>2, <2>3 DEF Leads
    <2>5. Clean \/ Leads(q)
      BY <2>4, CleanBegins
    <2> QED
      BY <1>1, <1>3, <2>1, <2>5 DEF AnswerInv
  <1> QED
    BY <1>2, <1>3

\* A step of one request leaves the answers of the others determined by their bills.
LEMMA AnswersStay ==
    ASSUME OrderInv, AnswerInv, NEW r \in Running, UNCHANGED <<provider, rows, order, overlapped>>,
           \A q \in Requests : q # r => pc'[q] = pc[q] /\ results'[q] = results[q],
           pc'[r] = "done" /\ (Clean \/ Leads(r)) => ByBill(results'[r], provider[r], rows[r])
    PROVE  AnswerInv'
  <1>1. (Clean' => Clean) /\ \A q : Leads(q)' <=> Leads(q)
    BY CleanStays DEF OrderInv
  <1> SUFFICES ASSUME NEW q \in Requests, pc'[q] = "done", Clean' \/ Leads(q)'
               PROVE  ByBill(results'[q], provider[q], rows[q])
    BY DEF AnswerInv
  <1> QED
    BY <1>1 DEF AnswerInv

-----------------------------------------------------------------------------
\* A bill that arrives finds the totals in proportion to it.
LEMMA BalanceBegins ==
    ASSUME Typed, OrderInv, BalanceInv, NEW r \in Requests, NEW bill \in Seq(Rows), Begin(r, bill)
    PROVE  BalanceInv'
  <1> SUFFICES ASSUME Clean'
               PROVE  /\ \A q \in Running' : Balanced(provider[q], rows[q], next[q] - 1)'
                      /\ \A p \in Providers : Balanced(p, rows[Head(order)], 0)'
    BY BeginMoves DEF BalanceInv
  <1>1. /\ UNCHANGED <<totals, provider, next>> /\ next[r] = 1 /\ rows'[r] = bill
        /\ \A q \in Requests : q # r => pc'[q] = pc[q]
    BY BeginMoves
  <1>2. Clean /\ Running = {} /\ bill = rows'[Head(order')] /\ (order # << >> => rows[Head(order)] = bill)
    BY CleanBegins
  <1>3. \A p \in Providers : Balanced(p, bill, 0)
    <2>1. CASE order = << >>
      <3> TAKE p \in Providers
      <3>1. totals[p] = Nothing /\ p \in Services
        BY <2>1, ServicesAsked DEF OrderInv
      <3>2. Weighs(totals[p], p, bill, 0, 0)
        BY <3>1, WeighsNothing
      <3> QED
        BY <3>2 DEF Balanced
    <2>2. CASE order # << >>
      BY <1>2, <2>2 DEF BalanceInv
    <2> QED
      BY <2>1, <2>2
  <1>4. \A p \in Providers : Balanced(p, bill, 0)'
    BY <1>1, <1>3 DEF Balanced
  <1>5. ASSUME NEW q \in Running'
        PROVE  Balanced(provider[q], rows[q], next[q] - 1)'
    <2>1. q = r
      BY <1>1, <1>2 DEF Running
    <2>2. next'[r] - 1 = 0 /\ provider[r] \in Providers
      BY <1>1 DEF Typed
    <2>3. Balanced(provider[r], bill, 0)'
      BY <1>1, <1>4, <2>2
    <2>4. rows'[r] = bill /\ next'[r] - 1 = 0
      BY <1>1, <2>2
    <2> QED
      BY <2>1, <2>3, <2>4 DEF Balanced
  <1>6. ASSUME NEW p \in Providers
        PROVE  Balanced(p, rows[Head(order)], 0)'
    BY <1>2, <1>4 DEF Balanced
  <1> QED
    BY <1>5, <1>6

\* A row keeps its provider's totals in proportion: it adds to them what it adds to the bill.
LEMMA RowBalanced ==
    ASSUME Typed, OrderInv, FetchInv, BalanceInv, NEW r \in Requests, EstimateRow(r), Clean
    PROVE  /\ Running = {r} /\ r \in Begun /\ rows[r] = rows[Head(order)] /\ order # << >>
           /\ \E m \in Nat : Weighs(totals'[provider[r]], provider[r], rows[r], m, next[r])
  <1>1. pc[r] = "estimate" /\ totals' = TotalsAfter(r)
    BY RowMoves
  <1>2. r \in Running /\ Running = {r}
    <2>1. r \in Running
      BY <1>1 DEF Running
    <2> QED
      BY <2>1 DEF FetchInv, Clean
  <1>3. r \in Begun /\ order # << >> /\ rows[r] = rows[Head(order)]
    <2>1. r \in Begun
      BY <1>1 DEF OrderInv
    <2> QED
      BY <2>1 DEF Begun, Clean
  <1>4. PICK m \in Nat : Weighs(totals[provider[r]], provider[r], rows[r], m, next[r] - 1)
    BY <1>2, <1>3 DEF BalanceInv, Balanced
  <1>5. /\ provider[r] \in Services /\ provider[r] \in Providers /\ Table(totals[provider[r]])
        /\ rows[r] \in Seq(Rows) /\ next[r] \in Nat /\ next[r] \in 1 .. Len(rows[r]) /\ Row(r) = rows[r][next[r]]
        /\ Outcome(provider[r], Row(r)) = OutcomeAt(r, next[r])
    BY <1>1, AtRow
  <1>6. totals'[provider[r]] = IF Outcome(provider[r], Row(r)) = "counted"
                               THEN AccumulateKilowattHours(totals[provider[r]], provider[r], Row(r))
                               ELSE totals[provider[r]]
    BY <1>1, <1>5, TotalsTyped
  <1> DEFINE p == provider[r]
             b == rows[r]
             n == next[r] - 1
             t == totals[provider[r]]
  <1>7. /\ p \in Services /\ b \in Seq(Rows) /\ n \in Nat /\ n < Len(b) /\ Table(t) /\ Weighs(t, p, b, m, n)
        /\ Row(r) = b[n + 1] /\ next[r] = n + 1
    BY <1>4, <1>5
  <1>8. totals'[provider[r]] = IF Outcome(p, b[n + 1]) = "counted" THEN AccumulateKilowattHours(t, p, b[n + 1]) ELSE t
    BY <1>6, <1>7
  <1>9. Weighs(totals'[provider[r]], p, b, m, n + 1)
    <2> HIDE DEF p, b, n, t
    <2>1. Weighs(IF Outcome(p, b[n + 1]) = "counted" THEN AccumulateKilowattHours(t, p, b[n + 1]) ELSE t,
                 p, b, m, n + 1)
      BY <1>7, WeighsNext
    <2> QED
      BY <1>8, <2>1
  <1> QED
    BY <1>2, <1>3, <1>7, <1>9

\* A row leaves the totals in proportion, and the last one makes them one bill more.
LEMMA BalanceRow ==
    ASSUME Typed, OrderInv, FetchInv, BalanceInv, NEW r \in Requests, EstimateRow(r)
    PROVE  BalanceInv'
  <1> SUFFICES ASSUME Clean'
               PROVE  /\ \A q \in Running' : Balanced(provider[q], rows[q], next[q] - 1)'
                      /\ \A p \in Providers : (\A q \in Running' : provider[q] # p) => Balanced(p, rows[Head(order)], 0)'
    BY RowMoves DEF BalanceInv
  <1>1. /\ pc[r] = "estimate" /\ totals' = TotalsAfter(r) /\ UNCHANGED <<provider, rows, order, overlapped>>
        /\ pc'[r] = IF next[r] < Len(rows[r]) THEN "row" ELSE "done"
        /\ next'[r] = next[r] + 1
        /\ \A q \in Requests : q # r => pc'[q] = pc[q]
    BY RowMoves
  <1>2. Clean
    <2>1. r \in Running
      BY <1>1 DEF Running
    <2> QED
      BY <1>1, <2>1, CleanStays DEF OrderInv
  <1>3. Running = {r} /\ rows[r] = rows[Head(order)] /\ order # << >>
    BY <1>2, RowBalanced
  <1>4. PICK m \in Nat : Weighs(totals'[provider[r]], provider[r], rows[r], m, next[r])
    BY <1>2, RowBalanced
  <1>5. /\ provider[r] \in Services /\ provider[r] \in Providers
        /\ rows[r] \in Seq(Rows) /\ next[r] \in Nat /\ next[r] \in 1 .. Len(rows[r])
    BY <1>1, AtRow
  <1>6. \A p \in Providers : p # provider[r] => Balanced(p, rows[Head(order)], 0)'
    <2> TAKE p \in Providers
    <2> HAVE p # provider[r]
    <2>1. totals'[p] = totals[p]
      BY <1>1, TotalsTyped
    <2>2. Balanced(p, rows[Head(order)], 0)
      BY <1>2, <1>3 DEF BalanceInv
    <2> QED
      BY <1>1, <2>1, <2>2 DEF Balanced
  <1>7. CASE next[r] < Len(rows[r])
    <2>1. Running' = {r}
      BY <1>1, <1>3, <1>7 DEF Running
    <2>2. next'[r] - 1 = next[r]
      BY <1>1, <1>5
    <2>3. Balanced(provider[r], rows[r], next[r] - 1)'
      BY <1>1, <1>4, <2>2 DEF Balanced
    <2> QED
      BY <1>1, <1>6, <2>1, <2>3
  <1>8. CASE ~(next[r] < Len(rows[r]))
    <2>1. Running' = {}
      BY <1>1, <1>3, <1>8 DEF Running
    <2>2. next[r] = Len(rows[r])
      BY <1>5, <1>8
    <2>3. Weighs(totals'[provider[r]], provider[r], rows[r], m + 1, 0)
      BY <1>4, <1>5, <2>2, WeighsWhole
    <2>4. Balanced(provider[r], rows[Head(order)], 0)'
      BY <1>1, <1>3, <2>3 DEF Balanced
    <2>5. \A p \in Providers : Balanced(p, rows[Head(order)], 0)'
      BY <1>1, <1>6, <2>4 DEF Balanced
    <2> QED
      BY <2>1, <2>5
  <1> QED
    BY <1>7, <1>8

\* While a factor is fetched, the totals stay.
LEMMA BalanceStays ==
    ASSUME OrderInv, BalanceInv, NEW r \in Running,
           UNCHANGED <<totals, provider, rows, next, order, overlapped>>,
           pc'[r] \in {"fetching", "estimate", "failed"}, \A q \in Requests : q # r => pc'[q] = pc[q]
    PROVE  BalanceInv'
  <1> SUFFICES ASSUME Clean', order # << >>
               PROVE  /\ \A q \in Running' : Balanced(provider[q], rows[q], next[q] - 1)
                      /\ \A p \in Providers : (\A q \in Running' : provider[q] # p) => Balanced(p, rows[Head(order)], 0)
    BY DEF BalanceInv, Balanced
  <1>1. Clean
    BY CleanStays DEF OrderInv
  <1>2. r \in Begun
    BY DEF Running, OrderInv
  <1>3. Running' = Running
    BY <1>2 DEF Running, Clean, Begun
  <1> QED
    BY <1>1, <1>3 DEF BalanceInv

-----------------------------------------------------------------------------
\* When the last row of a bill is counted, a unit has totals just if one of its rows is counted.
LEMMA TotalsOfBill ==
    ASSUME Typed, OrderInv, Clean, NEW r \in Requests, EstimateRow(r), next[r] = Len(rows[r]),
           Typed', CountedInv', TotalsInv', r \in Begun, NEW u \in Units
    PROVE  <<"total", u>> \in DOMAIN totals'[provider[r]]
           <=> CountedTo(provider[r], rows[r], u, Len(rows[r])) # {}
  <1>1. /\ UNCHANGED <<provider, rows>> /\ next'[r] = next[r] + 1 /\ pc[r] = "estimate"
        /\ \A q \in Requests : q # r => pc'[q] = pc[q] /\ next'[q] = next[q]
    BY RowMoves
  <1>2. provider[r] \in Providers /\ next[r] \in Nat
    BY <1>1, AtRow
  <1>3. \A q \in Requests : \A i : OutcomeAt(q, i)' = Outcome(provider[q], rows[q][i])
    BY <1>1 DEF OutcomeAt
  <1>4. ASSUME NEW i \in CountedTo(provider[r], rows[r], u, Len(rows[r]))
        PROVE  <<"total", u>> \in DOMAIN totals'[provider[r]]
    <2>1. i \in 1 .. next'[r] - 1 /\ OutcomeAt(r, i)' = "counted" /\ rows[r][i].unit = u
      BY <1>1, <1>2, <1>3 DEF CountedTo
    <2> QED
      BY <1>1, <2>1 DEF CountedInv
  <1>5. ASSUME <<"total", u>> \in DOMAIN totals'[provider[r]]
        PROVE  CountedTo(provider[r], rows[r], u, Len(rows[r])) # {}
    <2>1. Passed(provider[r], u)' # {}
      <3>1. Passed(provider[r], <<"total", u>>[2])' # {}
        BY <1>1, <1>2, <1>5 DEF TotalsInv
      <3> QED
        BY <3>1
    <2>2. PICK q \in Requests : provider[q] = provider[r] /\ \E i \in 1 .. next'[q] - 1 :
             OutcomeAt(q, i)' = "counted" /\ rows[q][i].unit = u
      BY <1>1, <2>1 DEF Passed, CountedOf
    <2> PICK i \in 1 .. next'[q] - 1 : OutcomeAt(q, i)' = "counted" /\ rows[q][i].unit = u
      BY <2>2
    <2>3. next'[q] \in 1 .. Len(rows[q]) + 1 /\ next'[q] # 1
      BY <1>1, <2>2 DEF Typed, Progress
    <2>4. pc'[q] # "new"
      BY <2>3 DEF Typed, Progress
    <2>5. q \in Begun
      BY <1>1, <2>4 DEF OrderInv
    <2>6. rows[q] = rows[r]
      BY <2>5 DEF Clean
    <2>7. i \in 1 .. Len(rows[r])
      BY <1>1, <2>2, <2>3, <2>6 DEF Typed
    <2> QED
      BY <1>3, <2>2, <2>6, <2>7 DEF CountedTo
  <1> QED
    BY <1>4, <1>5

\* The last row's answer is determined by the bill, for the first request and after the same bill.
LEMMA AnswerOfBill ==
    ASSUME Typed, CostInv, OrderInv, FetchInv, BalanceInv, EnergyInv, NEW r \in Requests, EstimateRow(r),
           Typed', CountedInv', TotalsInv', Clean, next[r] = Len(rows[r])
    PROVE  ByBill(results'[r], provider[r], rows[r])
  <1>1. /\ pc[r] = "estimate" /\ totals' = TotalsAfter(r)
        /\ results'[r] = IF next[r] < Len(rows[r]) THEN ResultsAfter(r)
                         ELSE WithUnknown(ResultsAfter(r), UnknownAfter(r), totals'[provider[r]], provider[r])
    BY RowMoves
  <1>2. /\ provider[r] \in Services /\ provider[r] \in Providers /\ rows[r] \in Seq(Rows)
        /\ Table(totals'[provider[r]])
    BY <1>1, AtRow, TotalsTyped
  <1>3. r \in Begun /\ \E m \in Nat : Weighs(totals'[provider[r]], provider[r], rows[r], m, Len(rows[r]))
    BY RowBalanced
  <1>4. \A u \in Units : <<"total", u>> \in DOMAIN totals'[provider[r]]
                         <=> CountedTo(provider[r], rows[r], u, Len(rows[r])) # {}
    BY <1>3, TotalsOfBill
  <1>5. FairTable(totals'[provider[r]], provider[r], rows[r])
    <2>1. PICK m \in Nat : Weighs(totals'[provider[r]], provider[r], rows[r], m, Len(rows[r]))
      BY <1>3
    <2>2. TimesBill(totals'[provider[r]], provider[r], rows[r], m + 1)
      BY <1>2, <1>4, <2>1, WeighsWhole
    <2> QED
      BY <1>2, <2>2, TimesBillIsFair
  <1>6. Answer(ResultsAfter(r)) /\ UnknownAfter(r) \in Seq(Rows)
        /\ SoFar(ResultsAfter(r), UnknownAfter(r), provider[r], rows[r], Len(rows[r]))
    BY <1>1, RowEnergy, RowAdded
  <1>7. results'[r] = WithUnknown(ResultsAfter(r), UnknownAfter(r), totals'[provider[r]], provider[r])
    BY <1>1, <1>2
  <1> QED
    BY <1>2, <1>5, <1>6, <1>7, FinishedByBill

\* A row that is not the last one answers nothing, and the last one what the bill determines.
LEMMA AnswersRow ==
    ASSUME Typed, CostInv, OrderInv, FetchInv, BalanceInv, EnergyInv, AnswerInv, NEW r \in Requests, EstimateRow(r),
           Typed', CountedInv', TotalsInv'
    PROVE  AnswerInv'
  <1>1. /\ pc[r] = "estimate" /\ UNCHANGED <<provider, rows, order, overlapped>>
        /\ pc'[r] = IF next[r] < Len(rows[r]) THEN "row" ELSE "done"
        /\ \A q \in Requests : q # r => pc'[q] = pc[q] /\ results'[q] = results[q]
    BY RowMoves
  <1>2. r \in Running
    BY <1>1 DEF Running
  <1>3. Leads(r) => Clean
    <2> HAVE Leads(r)
    <2>1. order = <<r>> /\ overlapped = {}
      BY <1>2 DEF OrderInv
    <2>2. Begun = {r} /\ Head(order) = r
      BY <2>1 DEF Begun
    <2> QED
      BY <1>1, <2>1, <2>2 DEF Clean
  <1>4. ASSUME pc'[r] = "done", Clean \/ Leads(r)
        PROVE  ByBill(results'[r], provider[r], rows[r])
    <2>1. next[r] = Len(rows[r])
      <3>1. rows[r] \in Seq(Rows) /\ next[r] \in 1 .. Len(rows[r]) /\ ~(next[r] < Len(rows[r]))
        BY <1>1, <1>4, AtRow
      <3> QED
        BY <3>1
    <2> QED
      BY <1>3, <1>4, <2>1, AnswerOfBill
  <1> QED
    BY <1>1, <1>2, <1>4, AnswersStay

-----------------------------------------------------------------------------
BillInv == OrderInv /\ EnergyInv /\ CountedInv /\ BalanceInv /\ AnswerInv

\* What else is known of a state, and is the same by earlier lemmas.
KnownInv == Typed /\ CostInv /\ TotalsInv /\ IntensityInv

\* It holds at the start.
LEMMA KnownStart == Init => KnownInv
  BY CostStart, TotalsStart, InitIntensityInv DEF KnownInv

\* It holds after every step.
LEMMA KnownNext == KnownInv /\ [Next]_vars => KnownInv'
  BY CostStep, TotalsNext, StepIntensityInv DEF KnownInv

\* Before any row there are no estimates and nothing is put aside.
LEMMA NoneSoFar ==
    ASSUME NEW res, DOMAIN res = {}, NEW p, NEW b
    PROVE  SoFar(res, << >>, p, b, 0)
  <1>1. 1 .. 0 = {} /\ 1 .. Len(<< >>) = {}
    OBVIOUS
  <1>2. UnknownTo(p, b, 0) = {}
    BY <1>1 DEF UnknownTo
  <1>3. Locates(<< >>, << >>, p, b, 0)
    BY <1>1, <1>2 DEF Locates
  <1> QED
    BY <1>1, <1>3 DEF SoFar

\* At the start nothing began, and the totals are empty.
LEMMA BillStart == Init => BillInv
  <1> SUFFICES ASSUME Init
               PROVE  BillInv
    OBVIOUS
  <1>1. /\ order = << >> /\ overlapped = {} /\ totals = [p \in Providers |-> Nothing]
        /\ pc = [r \in Requests |-> "new"] /\ next = [r \in Requests |-> 1] /\ rows = [r \in Requests |-> << >>]
        /\ results = [r \in Requests |-> Nothing] /\ unknownRows = [r \in Requests |-> << >>]
    BY DEF Init
  <1>2. OrderInv
    BY <1>1 DEF OrderInv, Begun, Running
  <1>3. EnergyInv
    <2> SUFFICES ASSUME NEW r \in Requests
                 PROVE  SoFar(results[r], unknownRows[r], provider[r], rows[r], next[r] - 1)
      BY DEF EnergyInv
    <2>1. results[r] = Nothing /\ DOMAIN Nothing = {} /\ unknownRows[r] = << >> /\ next[r] - 1 = 0
      BY <1>1 DEF Nothing
    <2> QED
      BY <2>1, NoneSoFar
  <1>4. CountedInv
    BY <1>1 DEF CountedInv
  <1>5. BalanceInv /\ AnswerInv
    BY <1>1 DEF BalanceInv, AnswerInv
  <1> QED
    BY <1>2, <1>3, <1>4, <1>5 DEF BillInv

\* Every step keeps the totals in proportion to the bill, and the answers determined by it.
LEMMA BillNext == KnownInv /\ KnownInv' /\ BillInv /\ [Next]_vars => BillInv'
  <1> SUFFICES ASSUME KnownInv, KnownInv', BillInv, [Next]_vars
               PROVE  BillInv'
    OBVIOUS
  <1>1. /\ Typed /\ CostInv /\ FetchInv /\ Typed' /\ TotalsInv'
        /\ OrderInv /\ EnergyInv /\ CountedInv /\ BalanceInv /\ AnswerInv
    BY DEF KnownInv, BillInv, IntensityInv
  <1>2. ASSUME NEW r \in Requests, NEW bill \in Seq(Rows), Begin(r, bill)
        PROVE  BillInv'
    <2>1. OrderInv' /\ EnergyInv' /\ BalanceInv' /\ AnswerInv'
      BY <1>1, <1>2, OrderBegins, EnergyBegins, BalanceBegins, AnswersBegin
    <2>2. /\ UNCHANGED <<provider, next, totals>> /\ next[r] = 1
          /\ \A q \in Requests : q # r => rows'[q] = rows[q]
      BY <1>1, <1>2, BeginMoves
    <2>3. CountedInv'
      BY <1>1, <2>2, CountedStays
    <2> QED
      BY <2>1, <2>3 DEF BillInv
  <1>3. ASSUME NEW r \in Requests,
               \/ GetEmissionsFactors(r) \/ IntensityUnknown(r) \/ IntensityFails(r)
               \/ \E i \in Intensities : IntensityArrives(r, i)
        PROVE  BillInv'
    <2>1. /\ UNCHANGED <<totals, provider, rows, next, unknownRows, results, order, overlapped>>
          /\ r \in Running /\ pc'[r] \in {"fetching", "estimate", "failed"}
          /\ \A q \in Requests : q # r => pc'[q] = pc[q]
      BY <1>1, <1>3, FactorMoves
    <2>2. OrderInv' /\ EnergyInv'
      BY <1>1, <2>1, OrderStays, EnergyStays
    <2>3. CountedInv' /\ BalanceInv'
      BY <1>1, <2>1, CountedStays, BalanceStays
    <2>4. AnswerInv'
      BY <1>1, <2>1, AnswersStay
    <2> QED
      BY <2>2, <2>3, <2>4 DEF BillInv
  <1>4. ASSUME NEW r \in Requests, EstimateRow(r)
        PROVE  BillInv'
    <2>1. /\ pc[r] = "estimate" /\ pc'[r] \in {"row", "done"} /\ UNCHANGED <<order, overlapped>>
          /\ \A q \in Requests : q # r => pc'[q] = pc[q]
      BY <1>1, <1>4, RowMoves
    <2>2. OrderInv'
      BY <1>1, <2>1, OrderStays DEF Running
    <2>3. EnergyInv' /\ CountedInv' /\ BalanceInv'
      BY <1>1, <1>4, EnergyRow, CountedRow, BalanceRow
    <2>4. AnswerInv'
      BY <1>1, <1>4, <2>3, AnswersRow
    <2> QED
      BY <2>2, <2>3, <2>4 DEF BillInv
  <1>5. CASE UNCHANGED vars
    <2>1. UNCHANGED <<totals, pc, provider, rows, next, unknownRows, results, order, overlapped>>
      BY <1>5 DEF vars
    <2>2. OrderInv' /\ EnergyInv' /\ CountedInv'
      BY <1>1, <2>1 DEF OrderInv, EnergyInv, CountedInv, Begun, Running, Leads, OutcomeAt
    <2>3. BalanceInv' /\ AnswerInv'
      BY <1>1, <2>1 DEF BalanceInv, AnswerInv, Balanced, Clean, Leads, Begun, Running
    <2> QED
      BY <2>2, <2>3 DEF BillInv
  <1>6. ASSUME NEW r \in Requests, NEW bill \in Bills(provider[r]),
               UsageArrives(r, bill) \/ LookupArrives(r, bill)
        PROVE  BillInv'
    <2>1. provider[r] \in Providers
      BY <1>1 DEF Typed
    <2>2. bill \in Seq(Rows) /\ LookupRows(provider[r], bill) \in Seq(Rows)
      BY <2>1, BillType
    <2> QED
      BY <1>2, <1>6, <2>2 DEF UsageArrives, LookupArrives
  <1> QED
    BY <1>3, <1>4, <1>5, <1>6 DEF Next, Step

\* The first request of a process, served alone, is answered the known energy of its rows and the
\* average of its bill for the others, whatever order the rows are in (getEstimates, and
\* estimateKwhUnknownUsage).
THEOREM FirstAnswerByBillHolds == Spec => []FirstAnswerByBill
  <1>1. Typed /\ BillInv => FirstAnswerByBill
    <2> SUFFICES ASSUME Typed, AnswerInv, NEW r \in Requests, Done(r), order # << >>, Head(order) = r,
                        r \notin overlapped, NEW k \in DOMAIN results[r]
                 PROVE  SameFraction(results[r][k].kwh, ReferenceKwh(r, k))
      BY DEF FirstAnswerByBill, BillInv
    <2>1. ByBill(results[r], provider[r], rows[r])
      BY DEF AnswerInv, Leads, Done
    <2>2. SameFraction(results[r][k].kwh, BillKwh(provider[r], rows[r], k))
      BY <2>1 DEF ByBill
    <2>3. ReferenceKwh(r, k) = BillKwh(provider[r], rows[r], k)
      BY ReferenceIsBill DEF Typed
    <2> QED
      BY <2>2, <2>3
  <1> QED
    BY <1>1, KnownStart, KnownNext, BillStart, BillNext, PTL DEF Spec, KnownInv

\* A request that is repeated, one at a time and none failing, is answered the same although the
\* totals its unknown rows are estimated from have grown (KILOWATT_HOURS_BY_SERVICE_AND_USAGE_UNIT).
THEOREM RepeatedAnswerSameHolds == Spec => []RepeatedAnswerSame
  <1>1. Typed /\ BillInv => RepeatedAnswerSame
    <2> SUFFICES ASSUME Typed, OrderInv, AnswerInv, NEW r \in Requests, NEW q \in Requests,
                        Done(r), Done(q), provider[r] = provider[q], overlapped = {},
                        \A x \in Begun : rows[x] = rows[r] /\ pc[x] # "failed",
                        NEW k \in DOMAIN results[r]
                 PROVE  k \in DOMAIN results[q] /\ SameFraction(results[r][k].kwh, results[q][k].kwh)
      BY DEF RepeatedAnswerSame, BillInv, Begun
    <2>1. r \in Begun /\ q \in Begun
      BY DEF OrderInv, Done
    <2>2. rows[q] = rows[r] /\ rows[Head(order)] = rows[r]
      <3>1. order \in Seq(Requests) /\ order # << >>
        BY <2>1 DEF OrderInv, Begun
      <3>2. Head(order) \in Begun
        BY <3>1 DEF Begun
      <3> QED
        BY <2>1, <3>2
    <2>3. Clean
      BY <2>2 DEF Clean
    <2>4. ByBill(results[r], provider[r], rows[r]) /\ ByBill(results[q], provider[r], rows[r])
      BY <2>2, <2>3 DEF AnswerInv, Done
    <2>5. k \in DOMAIN results[q]
      BY <2>4 DEF ByBill
    <2> DEFINE a == results[r][k].kwh
               b == results[q][k].kwh
               c == BillKwh(provider[r], rows[r], k)
    <2>6. SameFraction(a, c) /\ SameFraction(b, c) /\ c \in Fraction
      BY <2>4, <2>5 DEF ByBill
    <2>7. a \in Fraction /\ b \in Fraction
      BY <2>5 DEF Typed, Progress, Answer
    <2>8. SameFraction(a, b)
      <3> HIDE DEF a, b, c
      <3>1. SameFraction(c, b)
        BY <2>6, <2>7, SameSymmetric
      <3> QED
        BY <2>6, <2>7, <3>1, SameTransitive
    <2> QED
      BY <2>5, <2>8
  <1> QED
    BY <1>1, KnownStart, KnownNext, BillStart, BillNext, PTL DEF Spec, KnownInv

-----------------------------------------------------------------------------
(* The order of a bill's rows does not matter to what it determines.         *)

\* h names the members of D by those of E, one by one.
Renames(h, D, E) ==
    /\ \A x \in D : h[x] \in E
    /\ \A x, y \in D : h[x] = h[y] => x = y
    /\ \A y \in E : \E x \in D : h[x] = y
Renamed(h, s) == {h[x] : x \in s}

\* A family of subsets that a member can always join has them all.
LEMMA SubsetInduction ==
    ASSUME NEW D, IsFiniteSet(D), NEW G, {} \in G,
           \A t \in SUBSET D : \A x \in D \ t : t \in G => t \cup {x} \in G
    PROVE  SUBSET D \subseteq G
  <1> DEFINE T == {n \in Nat : \A t \in SUBSET D : Cardinality(t) = n => t \in G}
  <1>1. \A t \in SUBSET D : /\ IsFiniteSet(t) /\ Cardinality(t) \in Nat /\ (Cardinality(t) = 0 => t = {})
                            /\ \A x \in t : t \ {x} \in SUBSET D /\ Cardinality(t \ {x}) = Cardinality(t) - 1
    <2> TAKE t \in SUBSET D
    <2>1. IsFiniteSet(t)
      BY FS_Subset
    <2> QED
      BY <2>1, FS_RemoveElement, FS_CardinalityType, FS_EmptySet
  <1>2. 0 \in T
    BY <1>1
  <1>3. ASSUME NEW n \in Nat, n \in T
        PROVE  n + 1 \in T
    <2> SUFFICES ASSUME NEW t \in SUBSET D, Cardinality(t) = n + 1
                 PROVE  t \in G
      OBVIOUS
    <2>1. t # {}
      BY FS_EmptySet
    <2> PICK x \in t : TRUE
      BY <2>1
    <2>2. t \ {x} \in SUBSET D /\ Cardinality(t \ {x}) = n
      BY <1>1
    <2>3. t \ {x} \in G
      BY <1>3, <2>2
    <2>4. (t \ {x}) \cup {x} \in G
      BY <2>2, <2>3
    <2>5. (t \ {x}) \cup {x} = t
      OBVIOUS
    <2> QED
      BY <2>4, <2>5
  <1> HIDE DEF T
  <1>4. Nat \subseteq T
    BY <1>2, <1>3, NatSetInduction
  <1> QED
    BY <1>1, <1>4 DEF T

\* A sum does not depend on how its members are named.
LEMMA SumRenamed ==
    ASSUME NEW f, IsFiniteSet(DOMAIN f), \A x \in DOMAIN f : f[x] \in Nat,
           NEW g, IsFiniteSet(DOMAIN g), \A x \in DOMAIN g : g[x] \in Nat,
           NEW h, Renames(h, DOMAIN f, DOMAIN g), \A x \in DOMAIN f : g[h[x]] = f[x]
    PROVE  SumFunction(f) = SumFunction(g)
  <1> DEFINE D == DOMAIN f
             E == DOMAIN g
  <1>1. PICK v : SumsUp(v, f) /\ SumFunction(f) = v[D]
    BY SumTurns
  <1>2. PICK w : SumsUp(w, g) /\ SumFunction(g) = w[E]
    BY SumTurns
  <1> DEFINE G == {t \in SUBSET D : v[t] = w[Renamed(h, t)]}
  <1>3. {} \in G
    <2>1. v[{}] = 0 /\ w[{}] = 0
      BY <1>1, <1>2 DEF SumsUp
    <2>2. Renamed(h, {}) = {}
      BY DEF Renamed
    <2> QED
      BY <2>1, <2>2
  <1>4. ASSUME NEW t \in SUBSET D, NEW x \in D \ t, t \in G
        PROVE  t \cup {x} \in G
    <2> DEFINE s == t \cup {x}
               z == Renamed(h, s)
    <2>1. z \in SUBSET E /\ h[x] \in z /\ z \ {h[x]} = Renamed(h, t) /\ s \ {x} = t /\ s \in SUBSET D /\ x \in s
      <3> HIDE DEF D, E, G
      <3>1. Renames(h, D, E)
        BY DEF D, E
      <3>2. z \in SUBSET E /\ h[x] \in z /\ z \ {h[x]} = Renamed(h, t) /\ s \ {x} = t
        <4>1. t \in SUBSET D /\ x \in D \ t
          OBVIOUS
        <4> HIDE DEF s, z
        <4>2. Renamed(h, t \cup {x}) \in SUBSET E /\ h[x] \in Renamed(h, t \cup {x})
          BY <3>1, <4>1 DEF Renames, Renamed
        <4>3. Renamed(h, t \cup {x}) \ {h[x]} = Renamed(h, t) /\ (t \cup {x}) \ {x} = t
          BY <3>1, <4>1 DEF Renames, Renamed
        <4> QED
          BY <4>2, <4>3 DEF s, z
      <3> QED
        BY <3>2
    <2>2. v[t] = w[Renamed(h, t)]
      BY <1>4
    <2> HIDE DEF s, z
    <2>3. v[s] = f[x] + v[s \ {x}]
      BY <1>1, <2>1, SumsAnyOrder
    <2>4. w[z] = g[h[x]] + w[z \ {h[x]}]
      <3>1. \A y \in z : w[z] = g[y] + w[z \ {y}]
        BY <1>2, <2>1, SumsAnyOrder
      <3> QED
        BY <2>1, <3>1
    <2>5. g[h[x]] = f[x]
      OBVIOUS
    <2>6. v[s] = w[z]
      BY <2>1, <2>2, <2>3, <2>4, <2>5
    <2> QED
      BY <2>1, <2>6 DEF s, z
  <1>5. D \in G
    <2> HIDE DEF G, D
    <2>1. \A t \in SUBSET D : \A x \in D \ t : t \in G => t \cup {x} \in G
      BY <1>4
    <2>2. IsFiniteSet(D)
      BY DEF D
    <2>3. SUBSET D \subseteq G
      BY <1>3, <2>1, <2>2, SubsetInduction
    <2> QED
      BY <2>3
  <1>6. Renamed(h, D) = E
    BY DEF Renames, Renamed
  <1> QED
    BY <1>1, <1>2, <1>5, <1>6

\* Nor does a sum of fractions.
LEMMA FractionsRenamed ==
    ASSUME NEW first \in Fraction,
           NEW f, IsFiniteSet(DOMAIN f), \A x \in DOMAIN f : f[x] \in Fraction,
           NEW g, IsFiniteSet(DOMAIN g), \A x \in DOMAIN g : g[x] \in Fraction,
           NEW h, Renames(h, DOMAIN f, DOMAIN g), \A x \in DOMAIN f : g[h[x]] = f[x]
    PROVE  /\ SameFraction(SumOfFractions(first, f), SumOfFractions(first, g))
           /\ SumOfFractions(first, f) \in Fraction /\ SumOfFractions(first, g) \in Fraction
  <1> DEFINE D == DOMAIN f
             E == DOMAIN g
  <1>1. PICK v : FractionsUp(v, first, f) /\ SumOfFractions(first, f) = v[D]
    BY FractionTurns
  <1>2. PICK w : FractionsUp(w, first, g) /\ SumOfFractions(first, g) = w[E]
    BY FractionTurns
  <1> DEFINE G == {t \in SUBSET D : SameFraction(v[t], w[Renamed(h, t)])}
  <1>3. {} \in G
    <2>1. v[{}] = first /\ w[{}] = first
      BY <1>1, <1>2 DEF FractionsUp
    <2>2. Renamed(h, {}) = {}
      BY DEF Renamed
    <2>3. SameFraction(first, first)
      BY PlusIsCrossed
    <2> QED
      BY <2>1, <2>2, <2>3
  <1>4. ASSUME NEW t \in SUBSET D, NEW x \in D \ t, t \in G
        PROVE  t \cup {x} \in G
    <2> DEFINE s == t \cup {x}
               z == Renamed(h, s)
               y == Renamed(h, t)
    <2>1. z \in SUBSET E /\ h[x] \in z /\ z \ {h[x]} = y /\ s \ {x} = t /\ s \in SUBSET D /\ x \in s
      <3> HIDE DEF D, E, G
      <3>1. Renames(h, D, E)
        BY DEF D, E
      <3>2. z \in SUBSET E /\ h[x] \in z /\ z \ {h[x]} = y /\ s \ {x} = t
        <4>1. t \in SUBSET D /\ x \in D \ t
          OBVIOUS
        <4> HIDE DEF s, z, y
        <4>2. Renamed(h, t \cup {x}) \in SUBSET E /\ h[x] \in Renamed(h, t \cup {x})
          BY <3>1, <4>1 DEF Renames, Renamed
        <4>3. Renamed(h, t \cup {x}) \ {h[x]} = Renamed(h, t) /\ (t \cup {x}) \ {x} = t
          BY <3>1, <4>1 DEF Renames, Renamed
        <4> QED
          BY <4>2, <4>3 DEF s, z, y
      <3> QED
        BY <3>2
    <2>2. SameFraction(v[t], w[y]) /\ y \in SUBSET E
      BY <1>4, <2>1
    <2>3. g[h[x]] = f[x] /\ f[x] \in Fraction
      OBVIOUS
    <2> HIDE DEF s, z, y
    <2>4. /\ v[s] \in Fraction /\ SameFraction(v[s], Plus(f[x], v[t])) /\ v[t] \in Fraction
      BY <1>1, <2>1, FractionsAnyOrder
    <2>5. /\ w[z] \in Fraction /\ SameFraction(w[z], Plus(f[x], w[y])) /\ w[y] \in Fraction
      BY <1>2, <2>1, <2>2, <2>3, FractionsAnyOrder
    <2>6. /\ Plus(f[x], v[t]) \in Fraction /\ Plus(f[x], w[y]) \in Fraction
          /\ SameFraction(f[x], f[x])
      BY <2>3, <2>4, <2>5, PlusIsCrossed
    <2>7. SameFraction(Plus(f[x], v[t]), Plus(f[x], w[y]))
      BY <2>2, <2>3, <2>4, <2>5, <2>6, PlusCongruent
    <2>8. SameFraction(v[s], Plus(f[x], w[y]))
      BY <2>4, <2>6, <2>7, SameTransitive
    <2>9. SameFraction(Plus(f[x], w[y]), w[z])
      BY <2>5, SameSymmetric
    <2>10. SameFraction(v[s], w[z])
      BY <2>4, <2>5, <2>6, <2>8, <2>9, SameTransitive
    <2> QED
      BY <2>1, <2>10 DEF s, z
  <1>5. D \in G
    <2> HIDE DEF G, D
    <2>1. \A t \in SUBSET D : \A x \in D \ t : t \in G => t \cup {x} \in G
      BY <1>4
    <2>2. IsFiniteSet(D)
      BY DEF D
    <2>3. SUBSET D \subseteq G
      BY <1>3, <2>1, <2>2, SubsetInduction
    <2> QED
      BY <2>3
  <1>6. Renamed(h, D) = E
    BY DEF Renames, Renamed
  <1>7. v[D] \in Fraction /\ w[E] \in Fraction
    BY <1>1, <1>2, FractionsAnyOrder
  <1> QED
    BY <1>1, <1>2, <1>5, <1>6, <1>7

\* c has the rows of b in another order: its row i is row h[i] of b.
Reordered(c, b, h) ==
    /\ Len(c) = Len(b)
    /\ Renames(h, 1 .. Len(c), 1 .. Len(b))
    /\ \A i \in 1 .. Len(c) : c[i] = b[h[i]]

\* Rows that are renamed are finitely many, and are the same rows.
LEMMA RowsRenamed ==
    ASSUME NEW b \in Seq(Rows), NEW c \in Seq(Rows), NEW h, Reordered(c, b, h),
           NEW C \in SUBSET (1 .. Len(c)), NEW B \in SUBSET (1 .. Len(b)), Renames(h, C, B)
    PROVE  /\ IsFiniteSet(C) /\ IsFiniteSet(B)
           /\ \A x \in C : h[x] \in B /\ c[x] = b[h[x]] /\ c[x] \in Rows
           /\ \A x \in B : b[x] \in Rows
  <1>1. IsFiniteSet(1 .. Len(c)) /\ IsFiniteSet(1 .. Len(b))
    <2>1. Len(c) \in Nat /\ Len(b) \in Nat
      OBVIOUS
    <2> QED
      BY <2>1, FS_Interval
  <1>2. IsFiniteSet(C) /\ IsFiniteSet(B)
    BY <1>1, FS_Subset
  <1>3. \A i \in 1 .. Len(c) : c[i] = b[h[i]] /\ c[i] \in Rows
    BY DEF Reordered
  <1>4. \A i \in 1 .. Len(b) : b[i] \in Rows
    OBVIOUS
  <1>5. \A x \in C : h[x] \in B
    BY DEF Renames
  <1> QED
    BY <1>2, <1>3, <1>4, <1>5

\* The rows that count are renamed when all are.
LEMMA CountedRenamed ==
    ASSUME NEW p, NEW b, NEW c, NEW h, Reordered(c, b, h), NEW u
    PROVE  Renames(h, CountedTo(p, c, u, Len(c)), CountedTo(p, b, u, Len(b)))
  <1> DEFINE D == 1 .. Len(c)
             E == 1 .. Len(b)
  <1>1. /\ \A x \in D : h[x] \in E /\ c[x] = b[h[x]]
        /\ \A x, y \in D : h[x] = h[y] => x = y
        /\ \A y \in E : \E x \in D : h[x] = y
    BY DEF Reordered, Renames
  <1> HIDE DEF D, E
  <1>2. Renames(h, {i \in D : Outcome(p, c[i]) = "counted" /\ c[i].unit = u},
                   {i \in E : Outcome(p, b[i]) = "counted" /\ b[i].unit = u})
    BY <1>1 DEF Renames
  <1> QED
    BY <1>2 DEF CountedTo, D, E

\* So are those whose energy is known.
LEMMA KnownRenamed ==
    ASSUME NEW p, NEW b, NEW c, NEW h, Reordered(c, b, h), NEW k
    PROVE  Renames(h, KnownIn(p, c, k, Len(c)), KnownIn(p, b, k, Len(b)))
  <1> DEFINE D == 1 .. Len(c)
             E == 1 .. Len(b)
  <1>1. /\ \A x \in D : h[x] \in E /\ c[x] = b[h[x]]
        /\ \A x, y \in D : h[x] = h[y] => x = y
        /\ \A y \in E : \E x \in D : h[x] = y
    BY DEF Reordered, Renames
  <1> HIDE DEF D, E
  <1>2. Renames(h, {i \in D : KeyOf(c[i]) = k /\ Outcome(p, c[i]) \in {"counted", "uncounted"}},
                   {i \in E : KeyOf(b[i]) = k /\ Outcome(p, b[i]) \in {"counted", "uncounted"}})
    BY <1>1 DEF Renames
  <1> QED
    BY <1>2 DEF KnownIn, D, E

\* The rows of a key that are put aside.
AsideIn(p, b, k) == {j \in UnknownTo(p, b, Len(b)) : KeyOf(b[j]) = k}

\* So are they.
LEMMA AsideRenamed ==
    ASSUME NEW p, NEW b, NEW c, NEW h, Reordered(c, b, h), NEW k
    PROVE  Renames(h, AsideIn(p, c, k), AsideIn(p, b, k))
  <1> DEFINE D == 1 .. Len(c)
             E == 1 .. Len(b)
  <1>1. /\ \A x \in D : h[x] \in E /\ c[x] = b[h[x]]
        /\ \A x, y \in D : h[x] = h[y] => x = y
        /\ \A y \in E : \E x \in D : h[x] = y
    BY DEF Reordered, Renames
  <1> HIDE DEF D, E
  <1>2. Renames(h, {j \in {i \in D : Outcome(p, c[i]) = "unknown"} : KeyOf(c[j]) = k},
                   {j \in {i \in E : Outcome(p, b[i]) = "unknown"} : KeyOf(b[j]) = k})
    BY <1>1 DEF Renames
  <1> QED
    BY <1>2 DEF AsideIn, UnknownTo, D, E

\* So the sums over the rows that count are the same.
LEMMA CountedReordered ==
    ASSUME NEW p \in Services, NEW b \in Seq(Rows), NEW c \in Seq(Rows), NEW h, Reordered(c, b, h), NEW u
    PROVE  /\ KwhTo(p, c, u, Len(c)) = KwhTo(p, b, u, Len(b))
           /\ AmountTo(p, c, u, Len(c)) = AmountTo(p, b, u, Len(b))
           /\ CountedTo(p, c, u, Len(c)) = {} <=> CountedTo(p, b, u, Len(b)) = {}
  <1> DEFINE C == CountedTo(p, c, u, Len(c))
             B == CountedTo(p, b, u, Len(b))
             kwhC == [i \in C |-> CountedKwh(p, c[i])]
             kwhB == [i \in B |-> CountedKwh(p, b[i])]
             amountC == [i \in C |-> Amount(p, c[i])]
             amountB == [i \in B |-> Amount(p, b[i])]
  <1>1. Renames(h, C, B)
    BY CountedRenamed
  <1>2. /\ IsFiniteSet(C) /\ IsFiniteSet(B)
        /\ \A x \in C : h[x] \in B /\ c[x] = b[h[x]] /\ c[x] \in Rows
        /\ \A x \in B : b[x] \in Rows
    <2>1. C \subseteq 1 .. Len(c) /\ B \subseteq 1 .. Len(b)
      BY DEF CountedTo
    <2> HIDE DEF C, B
    <2> QED
      BY <1>1, <2>1, RowsRenamed
  <1>3. \A row \in Rows : CountedKwh(p, row) \in Nat /\ Amount(p, row) \in Nat
    BY EstimateType DEF CountedKwh
  <1>4. /\ KwhTo(p, c, u, Len(c)) = SumFunction(kwhC) /\ KwhTo(p, b, u, Len(b)) = SumFunction(kwhB)
        /\ AmountTo(p, c, u, Len(c)) = SumFunction(amountC) /\ AmountTo(p, b, u, Len(b)) = SumFunction(amountB)
    BY DEF KwhTo, AmountTo
  <1> HIDE DEF C, B
  <1>5. /\ DOMAIN kwhC = C /\ DOMAIN kwhB = B
        /\ \A x \in C : kwhC[x] \in Nat /\ kwhB[h[x]] = kwhC[x]
        /\ \A x \in B : kwhB[x] \in Nat
    BY <1>2, <1>3
  <1>6. /\ DOMAIN amountC = C /\ DOMAIN amountB = B
        /\ \A x \in C : amountC[x] \in Nat /\ amountB[h[x]] = amountC[x]
        /\ \A x \in B : amountB[x] \in Nat
    BY <1>2, <1>3
  <1>7. C = {} <=> B = {}
    BY <1>1 DEF Renames
  <1> HIDE DEF kwhC, kwhB, amountC, amountB
  <1>8. SumFunction(kwhC) = SumFunction(kwhB)
    BY <1>1, <1>2, <1>5, SumRenamed
  <1>9. SumFunction(amountC) = SumFunction(amountB)
    BY <1>1, <1>2, <1>6, SumRenamed
  <1> QED
    BY <1>4, <1>7, <1>8, <1>9 DEF C, B

\* So is the sum over those whose energy is known.
LEMMA KnownReordered ==
    ASSUME NEW p \in Services, NEW b \in Seq(Rows), NEW c \in Seq(Rows), NEW h, Reordered(c, b, h), NEW k
    PROVE  KnownTo(p, c, k, Len(c)) = KnownTo(p, b, k, Len(b))
  <1> DEFINE C == KnownIn(p, c, k, Len(c))
             B == KnownIn(p, b, k, Len(b))
             kwhC == [i \in C |-> RowKwh(p, c[i])]
             kwhB == [i \in B |-> RowKwh(p, b[i])]
  <1>1. Renames(h, C, B)
    BY KnownRenamed
  <1>2. /\ IsFiniteSet(C) /\ IsFiniteSet(B)
        /\ \A x \in C : h[x] \in B /\ c[x] = b[h[x]] /\ c[x] \in Rows
        /\ \A x \in B : b[x] \in Rows
    <2>1. C \subseteq 1 .. Len(c) /\ B \subseteq 1 .. Len(b)
      BY DEF KnownIn
    <2> HIDE DEF C, B
    <2> QED
      BY <1>1, <2>1, RowsRenamed
  <1>3. \A row \in Rows : RowKwh(p, row) \in Nat
    BY EstimateType DEF RowKwh
  <1>4. KnownTo(p, c, k, Len(c)) = SumFunction(kwhC) /\ KnownTo(p, b, k, Len(b)) = SumFunction(kwhB)
    BY DEF KnownTo
  <1> HIDE DEF C, B
  <1>5. /\ DOMAIN kwhC = C /\ DOMAIN kwhB = B
        /\ \A x \in C : kwhC[x] \in Nat /\ kwhB[h[x]] = kwhC[x]
        /\ \A x \in B : kwhB[x] \in Nat
    BY <1>2, <1>3
  <1> HIDE DEF kwhC, kwhB
  <1>6. SumFunction(kwhC) = SumFunction(kwhB)
    BY <1>1, <1>2, <1>5, SumRenamed
  <1> QED
    BY <1>4, <1>6

\* And a bill determines the same energy whatever the order of its rows.
LEMMA BillReordered ==
    ASSUME NEW p \in Services, NEW b \in Seq(Rows), NEW c \in Seq(Rows), NEW h, Reordered(c, b, h), NEW k
    PROVE  /\ SameFraction(BillKwh(p, c, k), BillKwh(p, b, k))
           /\ BillKwh(p, c, k) \in Fraction /\ BillKwh(p, b, k) \in Fraction
  <1> DEFINE C == AsideIn(p, c, k)
             B == AsideIn(p, b, k)
             f == GuessesOf(p, c, k)
             g == GuessesOf(p, b, k)
             first == <<KnownTo(p, b, k, Len(b)), 1>>
  <1>1. Renames(h, C, B)
    BY AsideRenamed
  <1>2. C \subseteq 1 .. Len(c) /\ B \subseteq 1 .. Len(b)
    BY DEF AsideIn, UnknownTo
  <1>3. /\ DOMAIN f = C /\ \A i \in C : f[i] = GuessAt(p, c, i)
        /\ DOMAIN g = B /\ \A i \in B : g[i] = GuessAt(p, b, i)
    BY DEF GuessesOf, AsideIn
  <1>4. KnownTo(p, c, k, Len(c)) = KnownTo(p, b, k, Len(b)) /\ KnownTo(p, b, k, Len(b)) \in Nat
    <2> HIDE DEF C, B, f, g
    <2>1. KnownTo(p, c, k, Len(c)) = KnownTo(p, b, k, Len(b))
      BY KnownReordered
    <2>2. KnownTo(p, b, k, Len(b)) \in Nat
      BY SumsWhole
    <2> QED
      BY <2>1, <2>2
  <1>5. first \in Fraction
    BY <1>4 DEF Fraction
  <1>6. ASSUME NEW i \in 1 .. Len(c)
        PROVE  GuessAt(p, c, i) = GuessAt(p, b, h[i])
    <2> DEFINE u == c[i].unit
    <2>1. c[i] = b[h[i]]
      BY DEF Reordered
    <2>2. /\ KwhTo(p, c, u, Len(c)) = KwhTo(p, b, u, Len(b))
          /\ AmountTo(p, c, u, Len(c)) = AmountTo(p, b, u, Len(b))
          /\ CountedTo(p, c, u, Len(c)) = {} <=> CountedTo(p, b, u, Len(b)) = {}
      BY CountedReordered
    <2> QED
      BY <2>1, <2>2 DEF GuessAt
  <1>7. /\ \A i \in 1 .. Len(c) : GuessAt(p, c, i) \in Fraction
        /\ \A i \in 1 .. Len(b) : GuessAt(p, b, i) \in Fraction
    BY GuessType
  <1>8. IsFiniteSet(C) /\ IsFiniteSet(B)
    <2>1. IsFiniteSet(1 .. Len(c)) /\ IsFiniteSet(1 .. Len(b))
      <3>1. Len(c) \in Nat /\ Len(b) \in Nat
        OBVIOUS
      <3> QED
        BY <3>1, FS_Interval
    <2> HIDE DEF C, B
    <2> QED
      BY <1>2, <2>1, FS_Subset
  <1>9. BillKwh(p, c, k) = SumOfFractions(first, f) /\ BillKwh(p, b, k) = SumOfFractions(first, g)
    BY <1>4 DEF BillKwh
  <1> HIDE DEF C, B, f, g, first
  <1>10. \A i \in C : h[i] \in B
    BY <1>1 DEF Renames
  <1>11. /\ \A i \in DOMAIN f : f[i] \in Fraction /\ g[h[i]] = f[i]
         /\ \A i \in DOMAIN g : g[i] \in Fraction
    BY <1>2, <1>3, <1>6, <1>7, <1>10
  <1>12. IsFiniteSet(DOMAIN f) /\ IsFiniteSet(DOMAIN g) /\ Renames(h, DOMAIN f, DOMAIN g)
    BY <1>1, <1>3, <1>8
  <1>13. /\ SameFraction(SumOfFractions(first, f), SumOfFractions(first, g))
         /\ SumOfFractions(first, f) \in Fraction /\ SumOfFractions(first, g) \in Fraction
    BY <1>5, <1>11, <1>12, FractionsRenamed
  <1> QED
    BY <1>9, <1>13


\* Which keys it has an answer for is the same, too.
LEMMA AnsweredReordered ==
    ASSUME NEW p, NEW b, NEW c, NEW h, Reordered(c, b, h), NEW k
    PROVE  Answered(p, c, k) <=> Answered(p, b, k)
  <1> DEFINE D == 1 .. Len(c)
             E == 1 .. Len(b)
  <1>1. /\ \A x \in D : h[x] \in E /\ c[x] = b[h[x]]
        /\ \A y \in E : \E x \in D : h[x] = y
    BY DEF Reordered, Renames
  <1> HIDE DEF D, E
  <1>2. (\E i \in D : Outcome(p, c[i]) \in Estimated) <=> (\E i \in E : Outcome(p, b[i]) \in Estimated)
    BY <1>1
  <1>3. (\E i \in D : KeyOf(c[i]) = k /\ Outcome(p, c[i]) # "dropped")
            <=> (\E i \in E : KeyOf(b[i]) = k /\ Outcome(p, b[i]) # "dropped")
    BY <1>1
  <1> QED
    BY <1>2, <1>3 DEF Answered, D, E

\* The answer to the first request, served alone, as any order of its rows determines it.
FirstAnswerAnyOrder ==
    \A r \in Requests : (Done(r) /\ order # << >> /\ Head(order) = r /\ r \notin overlapped) =>
        \A b \in Seq(Rows) : (\E h : Reordered(rows[r], b, h)) => ByBill(results[r], provider[r], b)

\* A provider that lists the same rows in another order would have been answered the same: the days,
\* zones and services of the answer and the energy of each (getEstimates over the rows, then over
\* the unknown ones, with the averages of the whole bill).
THEOREM FirstAnswerAnyOrderHolds == Spec => []FirstAnswerAnyOrder
  <1>1. Typed /\ BillInv => FirstAnswerAnyOrder
    <2> SUFFICES ASSUME Typed, AnswerInv, NEW r \in Requests, Done(r), order # << >>, Head(order) = r,
                        r \notin overlapped, NEW b \in Seq(Rows), NEW h, Reordered(rows[r], b, h)
                 PROVE  ByBill(results[r], provider[r], b)
      BY DEF FirstAnswerAnyOrder, BillInv
    <2> DEFINE p == provider[r]
               c == rows[r]
               res == results[r]
    <2>1. ByBill(res, p, c)
      BY DEF AnswerInv, Leads, Done
    <2>2. p \in Services /\ c \in Seq(Rows)
      BY RowEstimatesAssumption DEF Typed, Services
    <2>3. Answer(res)
      BY DEF Typed, Progress
    <2>4. Reordered(c, b, h)
      OBVIOUS
    <2> HIDE DEF p, c, res
    <2>5. ASSUME NEW k
          PROVE  k \in DOMAIN res <=> Answered(p, b, k)
      BY <2>1, <2>4, AnsweredReordered DEF ByBill
    <2>6. ASSUME NEW k \in DOMAIN res
          PROVE  SameFraction(res[k].kwh, BillKwh(p, b, k)) /\ BillKwh(p, b, k) \in Fraction
      <3>1. SameFraction(res[k].kwh, BillKwh(p, c, k))
        BY <2>1 DEF ByBill
      <3>2. /\ SameFraction(BillKwh(p, c, k), BillKwh(p, b, k))
            /\ BillKwh(p, c, k) \in Fraction /\ BillKwh(p, b, k) \in Fraction
        BY <2>2, <2>4, BillReordered
      <3>3. res[k].kwh \in Fraction
        BY <2>3 DEF Answer
      <3> QED
        BY <3>1, <3>2, <3>3, SameTransitive
    <2>7. ByBill(res, p, b)
      BY <2>5, <2>6 DEF ByBill
    <2> QED
      BY <2>7 DEF p, res
  <1> QED
    BY <1>1, KnownStart, KnownNext, BillStart, BillNext, PTL DEF Spec, KnownInv

================================================================================
