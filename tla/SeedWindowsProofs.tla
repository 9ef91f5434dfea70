--------------------------- MODULE SeedWindowsProofs ---------------------------
(***************************************************************************)
(* Theorems about SeedWindows, for every calendar, every range and every   *)
(* way to split it into windows.                                           *)
(***************************************************************************)
EXTENDS SeedWindows, FiniteSetTheorems, WellFoundedInduction, TLAPS

-----------------------------------------------------------------------------
(* Least and greatest numbers.                                              *)

LEMMA LeastNumber ==
    ASSUME NEW T \in SUBSET Nat, T # {}
    PROVE  \E n \in T : \A m \in T : n <= m
  <1> DEFINE less == OpToRel(<, Nat)
  <1>1. IsWellFoundedOn(less, Nat)
    BY NatLessThanWellFounded
  <1>2. \E x \in T : \A y \in T : ~(<<y, x>> \in less)
    BY <1>1, WFMin
  <1>3. \A x, y \in Nat : <<y, x>> \in less <=> y < x
    BY DEF OpToRel
  <1> HIDE DEF less
  <1>4. PICK x \in T : \A y \in T : ~(<<y, x>> \in less)
    BY <1>2
  <1>5. \A y \in T : ~(y < x)
    BY <1>3, <1>4
  <1> QED
    BY <1>5

LEMMA NatSetInduction ==
    ASSUME NEW T, 0 \in T, \A n \in Nat : n \in T => n + 1 \in T
    PROVE  Nat \subseteq T
  <1> SUFFICES ASSUME NEW k \in Nat, k \notin T PROVE FALSE
    OBVIOUS
  <1> DEFINE others == {m \in Nat : m \notin T}
  <1>1. PICK n \in others : \A m \in others : n <= m
    BY LeastNumber
  <1>2. n # 0
    BY <1>1
  <1>3. n - 1 \in Nat /\ n - 1 \in T
    BY <1>1, <1>2
  <1> QED
    BY <1>1, <1>3

\* A finite set of integers that is not empty has a greatest one.
LEMMA GreatestExists ==
    ASSUME NEW S \in SUBSET Int, IsFiniteSet(S), S # {}
    PROVE  \E x \in S : \A y \in S : x >= y
  <1>1. PICK f : f \in Surjection(1 .. Cardinality(S), S)
    BY FS_CardinalityType DEF ExistsBijection, Bijection
  <1> DEFINE N == Cardinality(S)
  <1>2. N \in Nat /\ N # 0
    BY FS_CardinalityType, FS_EmptySet
  <1>3. /\ \A k \in 1 .. N : f[k] \in S /\ f[k] \in Int
        /\ \A x \in S : \E k \in 1 .. N : f[k] = x
    BY <1>1 DEF Surjection
  <1> HIDE DEF N
  <1> DEFINE T == {n \in Nat : 1 <= n /\ n <= N => \E k \in 1 .. n : \A j \in 1 .. n : f[k] >= f[j]}
  <1>4. 0 \in T
    OBVIOUS
  <1>5. ASSUME NEW n \in Nat, n \in T
        PROVE  n + 1 \in T
    <2> SUFFICES ASSUME n + 1 <= N
                 PROVE  \E k \in 1 .. n + 1 : \A j \in 1 .. n + 1 : f[k] >= f[j]
      OBVIOUS
    <2>1. \A j \in 1 .. n + 1 : f[j] \in Int /\ (j \in 1 .. n \/ j = n + 1)
      BY <1>2, <1>3
    <2>2. CASE n = 0
      <3>1. 1 \in 1 .. n + 1 /\ \A j \in 1 .. n + 1 : j = 1 /\ f[1] >= f[j]
        BY <2>1, <2>2
      <3> QED
        BY <3>1
    <2>3. CASE n # 0
      <3>1. PICK k \in 1 .. n : \A j \in 1 .. n : f[k] >= f[j]
        BY <1>2, <1>5, <2>3
      <3>2. k \in 1 .. n + 1 /\ n + 1 \in 1 .. n + 1 /\ f[k] \in Int /\ f[n + 1] \in Int
        BY <2>1
      <3>3. CASE f[n + 1] <= f[k]
        <4>1. \A j \in 1 .. n + 1 : f[k] >= f[j]
          BY <2>1, <3>1, <3>2, <3>3
        <4> QED
          BY <3>2, <4>1
      <3>4. CASE f[k] < f[n + 1]
        <4>1. \A j \in 1 .. n + 1 : f[n + 1] >= f[j]
          BY <2>1, <3>1, <3>2, <3>4
        <4> QED
          BY <3>2, <4>1
      <3> QED
        BY <3>2, <3>3, <3>4
    <2> QED
      BY <2>2, <2>3
  <1>6. N \in T
    BY <1>2, <1>4, <1>5, NatSetInduction
  <1>7. PICK k \in 1 .. N : \A j \in 1 .. N : f[k] >= f[j]
    BY <1>2, <1>6
  <1> QED
    BY <1>3, <1>7

LEMMA MaxOf ==
    ASSUME NEW S \in SUBSET Int, IsFiniteSet(S), S # {}
    PROVE  Max(S) \in S /\ \A y \in S : y <= Max(S)
  <1>1. PICK x \in S : \A y \in S : x >= y
    BY GreatestExists
  <1>2. Max(S) \in S /\ \A y \in S : Max(S) >= y
    BY <1>1 DEF Max
  <1> QED
    BY <1>2

LEMMA MinOf ==
    ASSUME NEW S \in SUBSET Int, IsFiniteSet(S), S # {}
    PROVE  Min(S) \in S /\ \A y \in S : Min(S) <= y
  <1> DEFINE T == {z \in Int : -z \in S}
             f == [x \in S |-> -x]
  <1>1. f \in Surjection(S, T)
    <2>1. \A x \in S : f[x] \in T /\ -(-x) = x
      OBVIOUS
    <2>2. \A z \in T : -z \in S /\ f[-z] = z
      OBVIOUS
    <2> QED
      BY <2>1, <2>2 DEF Surjection
  <1>2. IsFiniteSet(T) /\ T # {}
    <2>1. IsFiniteSet(T)
      BY <1>1, FS_Surjection
    <2>2. \A x \in S : -x \in T
      OBVIOUS
    <2> QED
      BY <2>1, <2>2
  <1>3. PICK z \in T : \A y \in T : z >= y
    BY <1>2, GreatestExists
  <1>4. -z \in S /\ \A y \in S : -z <= y
    <2>1. \A y \in S : -y \in T /\ z >= -y
      BY <1>3
    <2> QED
      BY <1>3, <2>1
  <1>5. Min(S) \in S /\ \A y \in S : Min(S) <= y
    BY <1>4 DEF Min
  <1> QED
    BY <1>5

-----------------------------------------------------------------------------
(* The calendar: the periods of a grouping do not overlap, and leave no gap. *)

\* A day the grouping can be asked about: months begin with day 0.
Datable(grouping, d) == d \in Int /\ (grouping = "month" => d >= 0)

LEMMA MonthStartOf ==
    ASSUME NEW d \in Nat
    PROVE  /\ MonthStart(d) \in MonthStarts /\ MonthStart(d) \in Nat /\ MonthStart(d) <= d
           /\ \A s \in MonthStarts : s <= d => s <= MonthStart(d)
  <1> DEFINE S == {s \in MonthStarts : s <= d}
  <1>1. S \in SUBSET Int /\ IsFiniteSet(S) /\ S # {} /\ MonthStarts \subseteq Nat
    <2>1. 0 \in S /\ S \in SUBSET MonthStarts /\ MonthStarts \subseteq Nat /\ IsFiniteSet(MonthStarts)
      BY SeedWindowsAssumption
    <2>2. IsFiniteSet(S)
      BY <2>1, FS_Subset
    <2> HIDE DEF S
    <2> QED
      BY <2>1, <2>2
  <1>2. Max(S) \in S /\ \A y \in S : y <= Max(S)
    BY <1>1, MaxOf
  <1> QED
    BY <1>1, <1>2 DEF MonthStart

LEMMA NextMonthOf ==
    ASSUME NEW d \in Nat, MonthsBehind(d) # {}
    PROVE  /\ NextMonth(d) \in MonthStarts /\ NextMonth(d) \in Nat /\ NextMonth(d) > d
           /\ \A s \in MonthStarts : s > d => NextMonth(d) <= s
  <1> DEFINE S == MonthsBehind(d)
  <1>1. S \in SUBSET Int /\ IsFiniteSet(S) /\ S # {} /\ MonthStarts \subseteq Nat
    <2>1. S # {} /\ S \in SUBSET MonthStarts /\ MonthStarts \subseteq Nat /\ IsFiniteSet(MonthStarts)
      BY SeedWindowsAssumption DEF MonthsBehind
    <2>2. IsFiniteSet(S)
      BY <2>1, FS_Subset
    <2> HIDE DEF S
    <2> QED
      BY <2>1, <2>2
  <1>2. Min(S) \in S /\ \A y \in S : Min(S) <= y
    BY <1>1, MinOf
  <1> QED
    BY <1>1, <1>2 DEF NextMonth, MonthsBehind

\* The days up to the next month are of the same month.
LEMMA SameMonth ==
    ASSUME NEW d \in Nat, NEW e \in Nat, MonthStart(d) <= e, \A s \in MonthStarts : s > MonthStart(d) => s > e
    PROVE  MonthStart(e) = MonthStart(d)
  <1>1. MonthStart(e) <= MonthStart(d)
    <2>1. MonthStart(e) \in MonthStarts /\ MonthStart(e) <= e /\ MonthStart(e) \in Nat /\ MonthStart(d) \in Nat
      BY MonthStartOf
    <2> QED
      BY <2>1
  <1>2. MonthStart(d) <= MonthStart(e)
    BY MonthStartOf
  <1> QED
    BY <1>1, <1>2, MonthStartOf

LEMMA WeekdayOf ==
    ASSUME NEW d \in Int
    PROVE  /\ Weekday(d) \in 0 .. 6
           /\ \A e \in d - Weekday(d) .. d - Weekday(d) + 6 : e - Weekday(e) = d - Weekday(d)
  <1>1. FirstWeekday \in 0 .. 6
    BY SeedWindowsAssumption
  <1> QED
    BY <1>1 DEF Weekday

LEMMA StartOfDay ==
    ASSUME NEW g \in {"day", "week", "month"}, NEW d, Datable(g, d)
    PROVE  /\ StartOf(g, d) \in Int /\ StartOf(g, d) <= d /\ Datable(g, StartOf(g, d))
           /\ \A e \in StartOf(g, d) .. d : StartOf(g, e) = StartOf(g, d)
  <1>1. CASE g = "day"
    BY <1>1 DEF StartOf, Datable
  <1>2. CASE g = "week"
    BY <1>2, WeekdayOf DEF StartOf, Datable
  <1>3. CASE g = "month"
    <2>1. d \in Nat /\ StartOf(g, d) = MonthStart(d) /\ \A e : StartOf(g, e) = MonthStart(e)
      BY <1>3 DEF StartOf, Datable
    <2>2. /\ MonthStart(d) \in Nat /\ MonthStart(d) <= d
          /\ \A s \in MonthStarts : s <= d => s <= MonthStart(d)
      BY <2>1, MonthStartOf
    <2>3. ASSUME NEW e \in MonthStart(d) .. d
          PROVE  MonthStart(e) = MonthStart(d)
      <3>1. e \in Nat /\ MonthStart(d) <= e /\ \A s \in MonthStarts : s \in Nat
        BY <2>1, <2>2, SeedWindowsAssumption
      <3>2. \A s \in MonthStarts : s > MonthStart(d) => s > e
        BY <2>1, <2>2, <3>1
      <3> QED
        BY <2>1, <3>1, <3>2, SameMonth
    <2> QED
      BY <1>3, <2>1, <2>2, <2>3 DEF Datable
  <1> QED
    BY <1>1, <1>2, <1>3

\* Later days are of the same or a later period.
LEMMA StartOfLater ==
    ASSUME NEW g \in {"day", "week", "month"}, NEW d, NEW e, Datable(g, d), Datable(g, e), d <= e
    PROVE  StartOf(g, d) <= StartOf(g, e)
  <1>1. /\ StartOf(g, d) \in Int /\ StartOf(g, d) <= d /\ d \in Int
        /\ StartOf(g, e) \in Int /\ StartOf(g, e) <= e /\ e \in Int
        /\ \A x \in StartOf(g, e) .. e : StartOf(g, x) = StartOf(g, e)
    BY StartOfDay DEF Datable
  <1>2. CASE d < StartOf(g, e)
    BY <1>1, <1>2
  <1>3. CASE StartOf(g, e) <= d
    BY <1>1, <1>3
  <1> QED
    BY <1>1, <1>2, <1>3

\* A day that begins a period.
Begins(grouping, p) == Datable(grouping, p) /\ StartOf(grouping, p) = p

LEMMA StartBegins ==
    ASSUME NEW g \in {"day", "week", "month"}, NEW d, Datable(g, d)
    PROVE  Begins(g, StartOf(g, d))
  <1>1. StartOf(g, d) \in StartOf(g, d) .. d
    BY StartOfDay
  <1> QED
    BY <1>1, StartOfDay DEF Begins

(* A period's end is in the period; by days and months it is its last day,  *)
(* by weeks the day before the last one.                                    *)
LEMMA EndOfPeriod ==
    ASSUME NEW g \in {"day", "week", "month"}, NEW p, Begins(g, p),
           g = "month" => MonthsBehind(p) # {}
    PROVE  /\ EndOf(g, p) \in Int /\ p <= EndOf(g, p)
           /\ \A d \in p .. EndOf(g, p) : StartOf(g, d) = p
           /\ g # "week" => \A d : Datable(g, d) /\ StartOf(g, d) = p => d <= EndOf(g, p)
  <1>1. p \in Int
    BY DEF Begins, Datable
  <1>2. CASE g = "day"
    BY <1>1, <1>2 DEF EndOf, StartOf, Begins, Datable
  <1>3. CASE g = "week"
    <2>1. /\ Weekday(p) = 0
          /\ \A e \in p .. p + 6 : e - Weekday(e) = p
      BY <1>1, <1>3, WeekdayOf DEF Begins, StartOf
    <2>2. EndOf(g, p) = p + 5 /\ \A d : StartOf(g, d) = d - Weekday(d)
      BY <1>1, <1>3, <2>1 DEF EndOf, StartOf
    <2> QED
      BY <1>1, <1>3, <2>1, <2>2
  <1>4. CASE g = "month"
    <2>1. /\ p \in Nat /\ EndOf(g, p) = NextMonth(p) - 1 /\ MonthStart(p) = p
          /\ \A e : StartOf(g, e) = MonthStart(e)
      BY <1>4 DEF EndOf, StartOf, Begins, Datable
    <2>2. /\ NextMonth(p) \in MonthStarts /\ NextMonth(p) \in Nat /\ NextMonth(p) > p
          /\ \A s \in MonthStarts : s > p => NextMonth(p) <= s
      BY <1>4, <2>1, NextMonthOf
    <2>3. ASSUME NEW d \in p .. NextMonth(p) - 1
          PROVE  MonthStart(d) = p
      <3>1. d \in Nat /\ \A s \in MonthStarts : s \in Nat
        BY <2>1, <2>2, SeedWindowsAssumption
      <3>2. \A s \in MonthStarts : s > MonthStart(p) => s > d
        BY <2>1, <2>2, <3>1
      <3> QED
        BY <2>1, <3>1, <3>2, SameMonth
    <2>4. ASSUME NEW d \in Nat, MonthStart(d) = p
          PROVE  d <= NextMonth(p) - 1
      <3>1. NextMonth(p) <= d => NextMonth(p) <= p
        BY <2>2, <2>4, MonthStartOf
      <3> QED
        BY <2>1, <2>2, <3>1
    <2> QED
      BY <1>4, <2>1, <2>2, <2>3, <2>4 DEF Datable
  <1> QED
    BY <1>2, <1>3, <1>4

-----------------------------------------------------------------------------
(* The windows that are fetched.                                            *)

\* Missing periods: finitely many, with a day before each.
MissingPeriods(grouping, missing) ==
    /\ IsFiniteSet(missing) /\ missing \subseteq Int
    /\ \A p \in missing : Begins(grouping, p) /\ Datable(grouping, p - 1)
    /\ grouping = "month" => \A p \in missing : MonthsBehind(p) # {}

\* The last periods of the runs.
RunEnds(grouping, missing) == {p \in missing : \A q \in missing : StartOf(grouping, q - 1) # p}

\* A missing period before one that is not missing, with none missing in between, ends its run.
LEMMA BeforeGap ==
    ASSUME NEW g \in {"day", "week", "month"}, NEW missing, MissingPeriods(g, missing),
           NEW x, Begins(g, x), x \notin missing, NEW m \in missing, m < x,
           \A y \in missing : y < x => y <= m
    PROVE  m \in RunEnds(g, missing)
  <1> SUFFICES ASSUME NEW z \in missing, StartOf(g, z - 1) = m PROVE FALSE
    BY DEF RunEnds
  <1>1. z \in Int /\ m \in Int /\ x \in Int /\ Begins(g, m) /\ Datable(g, z - 1)
    BY DEF MissingPeriods, Begins, Datable
  <1>2. m <= z - 1
    BY <1>1, StartOfDay
  <1>3. z < x => z <= m
    OBVIOUS
  <1>4. z # x
    OBVIOUS
  <1>5. x < z
    BY <1>1, <1>2, <1>3, <1>4
  <1>6. StartOf(g, x) <= StartOf(g, z - 1)
    BY <1>1, <1>5, StartOfLater DEF Begins
  <1> QED
    BY <1>1, <1>6 DEF Begins

LEMMA SomeRunEnd ==
    ASSUME NEW g \in {"day", "week", "month"}, NEW missing, MissingPeriods(g, missing), NEW p \in missing
    PROVE  LET ends == {q \in RunEnds(g, missing) : q >= p} IN
           Min(ends) \in ends /\ \A q \in ends : Min(ends) <= q
  <1> DEFINE ends == {q \in RunEnds(g, missing) : q >= p}
  <1>1. PICK m \in missing : \A y \in missing : m >= y
    BY GreatestExists DEF MissingPeriods
  <1>2. m \in RunEnds(g, missing)
    <2> SUFFICES ASSUME NEW z \in missing, StartOf(g, z - 1) = m PROVE FALSE
      BY DEF RunEnds
    <2>1. z \in Int /\ m \in Int /\ Datable(g, z - 1) /\ m >= z
      BY <1>1 DEF MissingPeriods
    <2> QED
      BY <2>1, StartOfDay
  <1>3. ends \in SUBSET missing /\ ends # {}
    BY <1>1, <1>2 DEF RunEnds
  <1> HIDE DEF ends
  <1>4. ends \in SUBSET Int /\ IsFiniteSet(ends)
    BY <1>3, FS_Subset DEF MissingPeriods
  <1>5. Min(ends) \in ends /\ \A q \in ends : Min(ends) <= q
    BY <1>3, <1>4, MinOf
  <1> QED
    BY <1>5 DEF ends

\* A run begins and ends with a missing period, and every period in between is missing.
LEMMA RunMissing ==
    ASSUME NEW g \in {"day", "week", "month"}, NEW missing, MissingPeriods(g, missing),
           NEW run \in Runs(g, missing)
    PROVE  /\ run[1] \in missing /\ run[2] \in missing /\ run[1] <= run[2]
           /\ \A d \in run[1] .. run[2] : StartOf(g, d) \in missing
  <1> DEFINE ends(p) == {q \in RunEnds(g, missing) : q >= p}
  <1>1. PICK p \in missing : run = <<p, Min(ends(p))>>
    BY DEF Runs, RunEnds
  <1> DEFINE q == Min(ends(p))
  <1>2. q \in ends(p) /\ \A x \in ends(p) : q <= x
    BY SomeRunEnd
  <1>3. run[1] = p /\ run[2] = q /\ q \in missing /\ p <= q /\ p \in Int /\ q \in Int
    BY <1>1, <1>2 DEF RunEnds, MissingPeriods
  <1>4. \A x \in RunEnds(g, missing) : x >= p => q <= x
    BY <1>2
  <1> HIDE DEF q, ends
  <1>5. ASSUME NEW d \in p .. q, StartOf(g, d) \notin missing
        PROVE  FALSE
    <2> DEFINE x == StartOf(g, d)
    <2>1. Datable(g, d) /\ Begins(g, p) /\ d \in Int
      BY <1>3 DEF MissingPeriods, Begins, Datable
    <2>2. Begins(g, x) /\ x \in Int /\ x <= d /\ p <= x
      <3>1. Begins(g, x) /\ x \in Int /\ x <= d
        BY <2>1, StartBegins, StartOfDay
      <3>2. StartOf(g, p) <= x
        BY <1>3, <2>1, StartOfLater DEF Begins
      <3> QED
        BY <2>1, <3>1, <3>2 DEF Begins
    <2>3. x \notin missing
      BY <1>5
    <2> HIDE DEF x
    <2> DEFINE S == {y \in missing : y < x}
    <2>4. S \in SUBSET missing /\ p \in S
      BY <1>3, <2>2, <2>3
    <2>5. S \in SUBSET Int /\ IsFiniteSet(S)
      <3> HIDE DEF S
      <3> QED
        BY <2>4, FS_Subset DEF MissingPeriods
    <2>6. PICK m \in S : \A y \in S : m >= y
      BY <2>4, <2>5, GreatestExists
    <2>7. m \in missing /\ m < x /\ m >= p /\ m \in Int /\ \A y \in missing : y < x => y <= m
      BY <2>4, <2>5, <2>6
    <2>8. m \in RunEnds(g, missing)
      BY <2>2, <2>3, <2>7, BeforeGap
    <2>9. q <= m
      BY <1>4, <2>7, <2>8
    <2> QED
      BY <1>3, <2>2, <2>7, <2>9
  <1> QED
    BY <1>3, <1>5

\* Every missing period lies in a run.
LEMMA InRun ==
    ASSUME NEW g \in {"day", "week", "month"}, NEW missing, MissingPeriods(g, missing), NEW p \in missing
    PROVE  \E run \in Runs(g, missing) : run[1] <= p /\ p <= run[2]
  <1> DEFINE firsts == {f \in missing : StartOf(g, f - 1) \notin missing}
             early == {f \in firsts : f <= p}
  <1>1. PICK least \in missing : \A y \in missing : least <= y
    <2>1. Min(missing) \in missing /\ \A y \in missing : Min(missing) <= y
      BY MinOf DEF MissingPeriods
    <2> QED
      BY <2>1
  <1>2. \A y \in missing : y \in Int /\ Datable(g, y - 1) /\ Begins(g, y)
    BY DEF MissingPeriods
  <1>3. least \in early
    <2>1. StartOf(g, least - 1) < least
      BY <1>2, StartOfDay
    <2>2. StartOf(g, least - 1) \in Int
      BY <1>2, StartOfDay
    <2> QED
      BY <1>1, <1>2, <2>1, <2>2
  <1>4. early \in SUBSET Int /\ IsFiniteSet(early) /\ early # {}
    <2>1. early \in SUBSET missing /\ early # {}
      BY <1>3
    <2> HIDE DEF early
    <2> QED
      BY <2>1, FS_Subset DEF MissingPeriods
  <1>5. PICK f \in early : \A y \in early : f >= y
    BY <1>4, GreatestExists
  <1> DEFINE q == Min({x \in RunEnds(g, missing) : x >= f})
  <1>6. f \in missing /\ f <= p
    BY <1>5
  <1>7. q \in RunEnds(g, missing) /\ f <= q
    <2>1. q \in {x \in RunEnds(g, missing) : x >= f}
      BY <1>6, SomeRunEnd
    <2> QED
      BY <2>1
  <1>8. <<f, q>> \in Runs(g, missing)
    BY <1>5 DEF Runs, RunEnds
  <1> HIDE DEF q
  <1>9. q \in missing /\ q \in Int /\ p \in Int /\ f \in Int
    BY <1>2, <1>6, <1>7 DEF RunEnds
  <1>10. ASSUME q < p
         PROVE  FALSE
    <2> DEFINE S == {y \in missing : y > q}
    <2>1. S \in SUBSET missing /\ p \in S
      BY <1>10
    <2>2. S \in SUBSET Int /\ IsFiniteSet(S) /\ S # {}
      <3> HIDE DEF S
      <3> QED
        BY <2>1, FS_Subset DEF MissingPeriods
    <2>3. PICK m \in S : \A y \in S : m <= y
      <3> HIDE DEF S
      <3> QED
        BY <2>2, MinOf
    <2>4. m \in missing /\ m > q /\ m <= p /\ m \in Int
      BY <1>2, <2>1, <2>3
    <2> DEFINE u == StartOf(g, m - 1)
    <2>5. u \in Int /\ u <= m - 1 /\ q <= u
      <3>1. Datable(g, m - 1) /\ Begins(g, q)
        BY <1>2, <1>9, <2>4
      <3>2. StartOf(g, q) <= u
        BY <1>9, <2>4, <3>1, StartOfLater DEF Begins
      <3> QED
        BY <3>1, <3>2, StartOfDay DEF Begins
    <2>6. u # q
      BY <1>7, <2>4 DEF RunEnds
    <2>7. u \notin missing
      <3>1. u \in missing => u \in S
        BY <1>9, <2>5, <2>6
      <3> QED
        BY <2>3, <2>4, <2>5, <3>1
    <2>8. m \in early
      BY <2>4, <2>7
    <2> QED
      BY <1>5, <1>7, <1>9, <2>4, <2>8
  <1>11. p <= q
    BY <1>9, <1>10
  <1> QED
    BY <1>6, <1>8, <1>11

\* Days are fetched of missing periods only.
LEMMA FetchedMissing ==
    ASSUME NEW g \in {"day", "week", "month"}, NEW missing, MissingPeriods(g, missing),
           NEW w \in FetchWindows(g, missing)
    PROVE  /\ w[1] \in missing /\ w[2] \in Int
           /\ \A d \in w[1] .. w[2] : StartOf(g, d) \in missing
  <1>1. PICK run \in Runs(g, missing) : w = <<run[1], EndOf(g, run[2])>>
    BY DEF FetchWindows
  <1> DEFINE p == run[1]
             q == run[2]
  <1>2. /\ p \in missing /\ q \in missing /\ p <= q
        /\ \A d \in p .. q : StartOf(g, d) \in missing
    BY RunMissing
  <1> HIDE DEF p, q
  <1>3. /\ EndOf(g, q) \in Int /\ q <= EndOf(g, q)
        /\ \A d \in q .. EndOf(g, q) : StartOf(g, d) = q
    BY <1>2, EndOfPeriod DEF MissingPeriods
  <1>4. w[1] = p /\ w[2] = EndOf(g, q)
    BY <1>1 DEF p, q
  <1>5. p \in Int /\ q \in Int
    BY <1>2 DEF MissingPeriods
  <1>6. ASSUME NEW d \in p .. EndOf(g, q)
        PROVE  StartOf(g, d) \in missing
    <2>1. d \in p .. q \/ d \in q .. EndOf(g, q)
      BY <1>3, <1>5
    <2> QED
      BY <1>2, <1>3, <2>1
  <1> QED
    BY <1>2, <1>3, <1>4, <1>6

\* By days and months every day of a missing period is fetched.
LEMMA MissingFetched ==
    ASSUME NEW g \in {"day", "month"}, NEW missing, MissingPeriods(g, missing),
           NEW p \in missing, NEW d, Datable(g, d), StartOf(g, d) = p
    PROVE  \E w \in FetchWindows(g, missing) : d \in w[1] .. w[2]
  <1>1. PICK run \in Runs(g, missing) : run[1] <= p /\ p <= run[2]
    BY InRun
  <1>2. run[1] \in missing /\ run[2] \in missing
    BY RunMissing
  <1>3. /\ EndOf(g, run[2]) \in Int /\ run[2] <= EndOf(g, run[2])
        /\ \A e : Datable(g, e) /\ StartOf(g, e) = run[2] => e <= EndOf(g, run[2])
    <2> DEFINE q == run[2]
    <2>1. Begins(g, q) /\ (g = "month" => MonthsBehind(q) # {})
      BY <1>2 DEF MissingPeriods
    <2>2. g \in {"day", "week", "month"} /\ g # "week"
      OBVIOUS
    <2> HIDE DEF q
    <2>3. /\ EndOf(g, q) \in Int /\ q <= EndOf(g, q)
          /\ \A e : Datable(g, e) /\ StartOf(g, e) = q => e <= EndOf(g, q)
      BY <2>1, <2>2, EndOfPeriod
    <2> QED
      BY <2>3 DEF q
  <1>4. /\ run[1] \in Int /\ run[2] \in Int /\ d \in Int /\ p \in Int /\ p <= d
        /\ Begins(g, run[2])
    BY <1>2, StartOfDay DEF MissingPeriods, Datable
  <1>5. d <= EndOf(g, run[2])
    <2>1. CASE p = run[2]
      BY <1>3, <2>1
    <2>2. CASE p < run[2]
      <3>1. run[2] <= d => run[2] <= p
        BY <1>4, StartOfLater DEF Begins
      <3> QED
        BY <1>3, <1>4, <2>2, <3>1
    <2> QED
      BY <1>1, <1>4, <2>1, <2>2
  <1>6. <<run[1], EndOf(g, run[2])>> \in FetchWindows(g, missing)
    BY DEF FetchWindows
  <1> DEFINE w == <<run[1], EndOf(g, run[2])>>
  <1>7. w[1] = run[1] /\ w[2] = EndOf(g, run[2])
    OBVIOUS
  <1>8. d \in w[1] .. w[2]
    BY <1>1, <1>3, <1>4, <1>5, <1>7
  <1> QED
    BY <1>6, <1>8

-----------------------------------------------------------------------------
(* Adding periods to a day.                                                 *)

\* Which of the months of the calendar s is.
Rank(s) == Cardinality({u \in MonthStarts : u <= s})

LEMMA RankOf ==
    ASSUME NEW s \in MonthStarts
    PROVE  /\ Rank(s) \in Nat
           /\ \A t \in MonthStarts : (s < t => Rank(s) < Rank(t)) /\ (s <= t => Rank(s) <= Rank(t))
           /\ Rank(s) + Cardinality(MonthsBehind(s)) = Cardinality(MonthStarts)
           /\ MonthsBehind(s) # {} => NextMonth(s) \in MonthStarts /\ Rank(NextMonth(s)) = Rank(s) + 1
  <1>1. MonthStarts \subseteq Nat /\ IsFiniteSet(MonthStarts)
    BY SeedWindowsAssumption
  <1> DEFINE upTo(t) == {u \in MonthStarts : u <= t}
  <1>2. \A t : IsFiniteSet(upTo(t)) /\ Cardinality(upTo(t)) \in Nat
    <2> TAKE t
    <2>1. upTo(t) \in SUBSET MonthStarts
      OBVIOUS
    <2> HIDE DEF upTo
    <2>2. IsFiniteSet(upTo(t))
      BY <1>1, <2>1, FS_Subset
    <2> QED
      BY <2>2, FS_CardinalityType
  <1>3. \A t : Rank(t) = Cardinality(upTo(t))
    BY DEF Rank
  <1>4. ASSUME NEW t \in MonthStarts, s <= t
        PROVE  Rank(s) <= Rank(t) /\ (Rank(s) = Rank(t) => upTo(t) = upTo(s))
    <2>1. upTo(s) \in SUBSET upTo(t)
      <3> SUFFICES ASSUME NEW u \in upTo(s) PROVE u \in upTo(t)
        OBVIOUS
      <3>1. u \in Nat /\ s \in Nat /\ t \in Nat
        BY <1>1
      <3> QED
        BY <1>4, <3>1
    <2> HIDE DEF upTo
    <2> QED
      BY <1>2, <1>3, <2>1, FS_Subset
  <1>5. ASSUME NEW t \in MonthStarts, s < t
        PROVE  Rank(s) < Rank(t)
    <2>1. s \in Nat /\ t \in Nat /\ s <= t /\ t \in upTo(t) /\ t \notin upTo(s)
      BY <1>1, <1>5
    <2>2. Rank(s) <= Rank(t) /\ Rank(s) # Rank(t)
      BY <1>4, <2>1
    <2> HIDE DEF upTo
    <2> QED
      BY <1>2, <1>3, <2>2
  <1>6. Rank(s) + Cardinality(MonthsBehind(s)) = Cardinality(MonthStarts)
    <2>1. MonthsBehind(s) = MonthStarts \ upTo(s) /\ MonthStarts \cap upTo(s) = upTo(s)
      <3>1. \A u \in MonthStarts : u > s <=> ~(u <= s)
        <4> TAKE u \in MonthStarts
        <4>1. u \in Nat /\ s \in Nat
          BY <1>1
        <4> QED
          BY <4>1
      <3> QED
        BY <3>1 DEF MonthsBehind
    <2>2. Cardinality(MonthStarts) \in Nat
      BY <1>1, FS_CardinalityType
    <2> HIDE DEF upTo
    <2>3. Cardinality(MonthsBehind(s)) = Cardinality(MonthStarts) - Cardinality(upTo(s))
      BY <1>1, <2>1, FS_Difference
    <2> QED
      BY <1>2, <1>3, <2>2, <2>3
  <1>7. ASSUME MonthsBehind(s) # {}
        PROVE  NextMonth(s) \in MonthStarts /\ Rank(NextMonth(s)) = Rank(s) + 1
    <2> DEFINE n == NextMonth(s)
    <2>1. /\ n \in MonthStarts /\ n > s /\ n \in Nat /\ s \in Nat
          /\ \A u \in MonthStarts : u > s => n <= u
      BY <1>1, <1>7, NextMonthOf
    <2> HIDE DEF n
    <2>2. upTo(n) = upTo(s) \cup {n} /\ n \notin upTo(s)
      <3>1. \A u \in MonthStarts : u <= n <=> u <= s \/ u = n
        <4> TAKE u \in MonthStarts
        <4>1. u \in Nat /\ (u > s => n <= u)
          BY <1>1, <2>1
        <4> QED
          BY <2>1, <4>1
      <3>2. ~(n <= s)
        BY <2>1
      <3> QED
        BY <2>1, <3>1, <3>2
    <2> HIDE DEF upTo
    <2>3. Cardinality(upTo(n)) = Cardinality(upTo(s)) + 1
      BY <1>2, <2>2, FS_AddElement
    <2> QED
      BY <1>3, <2>1, <2>3 DEF n
  <1> QED
    BY <1>2, <1>3, <1>4, <1>5, <1>6, <1>7

(* n months on: a month start, as long as the calendar goes on.             *)
LEMMA MonthAfterOf ==
    ASSUME NEW s \in MonthStarts, NEW n \in Nat, n < Cardinality(MonthsBehind(s))
    PROVE  LET t == MonthAfter(s, n) IN
           t \in MonthStarts /\ Rank(t) = Rank(s) + n /\ s <= t /\ MonthsBehind(t) # {}
  <1>1. /\ MonthStarts \subseteq Nat /\ s \in Nat
        /\ \A t \in MonthStarts : /\ Rank(t) \in Nat /\ IsFiniteSet(MonthsBehind(t))
                                  /\ Cardinality(MonthsBehind(t)) \in Nat
                                  /\ Rank(t) + Cardinality(MonthsBehind(t)) = Cardinality(MonthStarts)
    <2>1. MonthStarts \subseteq Nat /\ IsFiniteSet(MonthStarts) /\ s \in Nat
      BY SeedWindowsAssumption
    <2>2. \A t \in MonthStarts : IsFiniteSet(MonthsBehind(t))
      BY <2>1, FS_Subset DEF MonthsBehind
    <2> QED
      BY <2>1, <2>2, FS_CardinalityType, RankOf
  <1> DEFINE C == Cardinality(MonthsBehind(s))
             T == {k \in Nat : k <= C => \E t \in MonthStarts : Rank(t) = Rank(s) + k}
  <1>2. 0 \in T
    BY <1>1
  <1>3. ASSUME NEW k \in Nat, k \in T
        PROVE  k + 1 \in T
    <2> SUFFICES ASSUME k + 1 <= C
                 PROVE  \E t \in MonthStarts : Rank(t) = Rank(s) + (k + 1)
      OBVIOUS
    <2>1. C \in Nat
      BY <1>1
    <2> HIDE DEF C
    <2>2. PICK t \in MonthStarts : Rank(t) = Rank(s) + k
      BY <1>3, <2>1
    <2>3. Cardinality(MonthsBehind(t)) # 0
      BY <1>1, <2>1, <2>2 DEF C
    <2>4. MonthsBehind(t) # {}
      BY <2>3, FS_EmptySet
    <2>5. NextMonth(t) \in MonthStarts /\ Rank(NextMonth(t)) = Rank(t) + 1
      BY <2>4, RankOf
    <2>6. Rank(s) \in Nat
      BY <1>1
    <2>7. Rank(NextMonth(t)) = Rank(s) + (k + 1)
      BY <2>2, <2>5, <2>6
    <2> QED
      BY <2>5, <2>7
  <1>4. n \in T
    BY <1>2, <1>3, NatSetInduction
  <1>5. \E t \in MonthStarts : Rank(t) = Rank(s) + n
    BY <1>1, <1>4
  <1> DEFINE a == MonthAfter(s, n)
  <1>6. a \in MonthStarts /\ Rank(a) = Rank(s) + n
    BY <1>5 DEF MonthAfter, Rank
  <1> HIDE DEF a, T
  <1>7. s <= a
    <2>1. a < s => Rank(a) < Rank(s)
      BY <1>6, RankOf
    <2> QED
      BY <1>1, <1>6, <2>1
  <1>8. Cardinality(MonthsBehind(a)) # 0
    BY <1>1, <1>6
  <1>9. MonthsBehind(a) # {}
    BY <1>8, FS_EmptySet
  <1> QED
    BY <1>6, <1>7, <1>9 DEF a

LEMMA MinOfTwo ==
    ASSUME NEW a \in Int, NEW b \in Int
    PROVE  /\ Min({a, b}) \in {a, b} /\ Min({a, b}) <= a /\ Min({a, b}) <= b
  <1>1. IsFiniteSet({a} \cup {b})
    BY FS_Singleton, FS_Union
  <1>2. {a, b} = {a} \cup {b}
    OBVIOUS
  <1>3. IsFiniteSet({a, b}) /\ {a, b} \in SUBSET Int /\ {a, b} # {}
    BY <1>1, <1>2
  <1> QED
    BY <1>3, MinOf

LEMMA BehindFinite ==
    ASSUME NEW d
    PROVE  IsFiniteSet(MonthsBehind(d)) /\ Cardinality(MonthsBehind(d)) \in Nat
  <1>1. IsFiniteSet(MonthsBehind(d))
    BY SeedWindowsAssumption, FS_Subset DEF MonthsBehind
  <1> QED
    BY <1>1, FS_CardinalityType

\* The months behind a day are those behind its month, and fewer lie behind a later day.
LEMMA BehindDay ==
    ASSUME NEW d \in Nat, NEW e \in Nat, d <= e
    PROVE  /\ MonthsBehind(MonthStart(d)) = MonthsBehind(d)
           /\ Cardinality(MonthsBehind(e)) <= Cardinality(MonthsBehind(d))
  <1>1. MonthsBehind(MonthStart(d)) = MonthsBehind(d)
    <2>1. ASSUME NEW s \in MonthStarts
          PROVE  s > MonthStart(d) <=> s > d
      <3>1. s \in Nat /\ MonthStart(d) \in Nat /\ MonthStart(d) <= d /\ (s <= d => s <= MonthStart(d))
        BY MonthStartOf, SeedWindowsAssumption
      <3> QED
        BY <3>1
    <2> QED
      BY <2>1 DEF MonthsBehind
  <1>2. MonthsBehind(e) \in SUBSET MonthsBehind(d)
    <2>1. \A s \in MonthStarts : s > e => s > d
      <3> TAKE s \in MonthStarts
      <3>1. s \in Nat
        BY SeedWindowsAssumption
      <3> QED
        BY <3>1
    <2> QED
      BY <2>1 DEF MonthsBehind
  <1>3. IsFiniteSet(MonthsBehind(d))
    BY BehindFinite
  <1>4. Cardinality(MonthsBehind(e)) <= Cardinality(MonthsBehind(d))
    BY <1>2, <1>3, FS_Subset
  <1> QED
    BY <1>1, <1>4

\* The calendar goes on for n months behind day d, by months.
GoesOn(grouping, d, n) == grouping = "month" => n < Cardinality(MonthsBehind(d))

LEMMA AddMonths ==
    ASSUME NEW d \in Nat, NEW n \in Nat, n < Cardinality(MonthsBehind(d))
    PROVE  LET t == MonthAfter(MonthStart(d), n) IN
           /\ t \in MonthStarts /\ t \in Nat /\ MonthStart(d) <= t /\ MonthsBehind(t) # {}
           /\ Rank(t) = Rank(MonthStart(d)) + n
           /\ Add("month", d, n) = Min({t + (d - MonthStart(d)), NextMonth(t) - 1})
           /\ Add("month", d, n) \in Nat /\ d <= Add("month", d, n)
           /\ MonthStart(d) = d => Add("month", d, n) = t
  <1> DEFINE s == MonthStart(d)
             t == MonthAfter(s, n)
             a == t + (d - s)
             b == NextMonth(t) - 1
  <1>1. /\ s \in MonthStarts /\ s \in Nat /\ s <= d
        /\ \A u \in MonthStarts : u \in Nat /\ (u <= d => u <= s)
    BY MonthStartOf, SeedWindowsAssumption
  <1>2. n < Cardinality(MonthsBehind(s))
    BY BehindDay
  <1>3. t \in MonthStarts /\ Rank(t) = Rank(s) + n /\ s <= t /\ MonthsBehind(t) # {}
    BY <1>1, <1>2, MonthAfterOf
  <1>4. Add("month", d, n) = Min({a, b})
    BY DEF Add
  <1> HIDE DEF s, t
  <1>5. t \in Nat /\ NextMonth(t) \in MonthStarts /\ NextMonth(t) \in Nat /\ NextMonth(t) > t
    BY <1>1, <1>3, NextMonthOf
  <1>6. a \in Int /\ b \in Int /\ d <= a
    BY <1>1, <1>3, <1>5
  <1>7. d <= b
    <2>1. NextMonth(t) <= d => NextMonth(t) <= s
      BY <1>1, <1>5
    <2> QED
      BY <1>1, <1>3, <1>5, <2>1
  <1>8. s = d => a = t /\ t <= b
    BY <1>1, <1>5
  <1> HIDE DEF a, b
  <1>9. Min({a, b}) \in {a, b} /\ Min({a, b}) <= a /\ Min({a, b}) <= b
    BY <1>6, MinOfTwo
  <1>10. Min({a, b}) \in Nat /\ d <= Min({a, b})
    BY <1>6, <1>7, <1>9
  <1>11. s = d => Min({a, b}) = t
    BY <1>5, <1>6, <1>8, <1>9
  <1>12. /\ t \in MonthStarts /\ t \in Nat /\ s <= t /\ MonthsBehind(t) # {}
         /\ Rank(t) = Rank(s) + n
         /\ Add("month", d, n) = Min({a, b})
         /\ Add("month", d, n) \in Nat /\ d <= Add("month", d, n)
         /\ s = d => Add("month", d, n) = t
    BY <1>3, <1>4, <1>5, <1>10, <1>11
  <1> QED
    BY <1>12 DEF s, t, a, b

LEMMA AddOf ==
    ASSUME NEW g \in {"day", "week", "month"}, NEW d \in Nat, NEW n \in Nat, GoesOn(g, d, n)
    PROVE  Add(g, d, n) \in Nat /\ d <= Add(g, d, n)
  <1>1. CASE g = "day"
    BY <1>1 DEF Add
  <1>2. CASE g = "week"
    BY <1>2 DEF Add
  <1>3. CASE g = "month"
    <2>1. n < Cardinality(MonthsBehind(d))
      BY <1>3 DEF GoesOn
    <2> QED
      BY <1>3, <2>1, AddMonths
  <1> QED
    BY <1>1, <1>2, <1>3

(* From the beginning of a period, n periods on is the beginning of one,    *)
(* and the days before it are of the period before.                         *)
LEMMA AddBegins ==
    ASSUME NEW g \in {"day", "week", "month"}, NEW d \in Nat, Begins(g, d),
           NEW n \in Nat \ {0}, GoesOn(g, d, n)
    PROVE  /\ Begins(g, Add(g, d, n))
           /\ \A e \in Add(g, d, n - 1) .. Add(g, d, n) - 1 : StartOf(g, e) = Add(g, d, n - 1)
  <1>1. CASE g = "day"
    BY <1>1 DEF Add, Begins, Datable, StartOf
  <1>2. CASE g = "week"
    <2>1. Add(g, d, n) = d + 7 * n /\ Add(g, d, n - 1) = d + 7 * n - 7 /\ d + 7 * n \in Int
      BY <1>2 DEF Add
    <2>2. Weekday(d) = 0
      BY <1>2, WeekdayOf DEF Begins, StartOf
    <2>3. Weekday(d + 7 * n) = 0 /\ Weekday(d + 7 * n - 7) = 0
      BY <2>2, SeedWindowsAssumption DEF Weekday
    <2> DEFINE a == d + 7 * n - 7
    <2>4. a \in Int /\ \A e \in a - Weekday(a) .. a - Weekday(a) + 6 : e - Weekday(e) = a - Weekday(a)
      BY WeekdayOf
    <2>5. \A e \in a .. a + 6 : e - Weekday(e) = a
      BY <2>3, <2>4
    <2> QED
      BY <1>2, <2>1, <2>3, <2>5 DEF Begins, Datable, StartOf
  <1>3. CASE g = "month"
    <2> DEFINE s == MonthAfter(d, n - 1)
               t == MonthAfter(d, n)
    <2>1. /\ n < Cardinality(MonthsBehind(d)) /\ n - 1 < Cardinality(MonthsBehind(d))
          /\ n \in Nat /\ n - 1 \in Nat /\ MonthStart(d) = d
      BY <1>3, BehindFinite DEF GoesOn, Begins, StartOf
    <2>2. /\ t \in MonthStarts /\ t \in Nat /\ Rank(t) = Rank(d) + n /\ Add(g, d, n) = t
          /\ s \in MonthStarts /\ s \in Nat /\ Rank(s) = Rank(d) + (n - 1) /\ Add(g, d, n - 1) = s
          /\ MonthsBehind(s) # {}
      BY <1>3, <2>1, AddMonths
    <2>3. Rank(d) \in Nat
      BY <2>1, MonthStartOf, RankOf
    <2> HIDE DEF s, t
    <2>4. NextMonth(s) \in MonthStarts /\ Rank(NextMonth(s)) = Rank(s) + 1
      BY <2>2, RankOf
    <2>5. Rank(NextMonth(s)) = Rank(t)
      BY <2>1, <2>2, <2>3, <2>4
    <2>6. NextMonth(s) = t
      <3>1. NextMonth(s) \in Nat /\ Rank(t) \in Nat
        BY <2>2, <2>4, RankOf, SeedWindowsAssumption
      <3>2. ~(NextMonth(s) < t)
        BY <2>2, <2>4, <2>5, <3>1, RankOf
      <3>3. ~(t < NextMonth(s))
        BY <2>2, <2>4, <2>5, <3>1, RankOf
      <3> QED
        BY <2>2, <3>1, <3>2, <3>3
    <2>7. \A u \in MonthStarts : MonthStart(u) = u
      <3> TAKE u \in MonthStarts
      <3>1. u \in Nat
        BY SeedWindowsAssumption
      <3>2. u <= MonthStart(u) /\ MonthStart(u) <= u /\ MonthStart(u) \in Nat
        BY <3>1, MonthStartOf
      <3> QED
        BY <3>1, <3>2
    <2>8. ASSUME NEW e \in s .. t - 1
          PROVE  MonthStart(e) = s
      <3>1. e \in Nat /\ MonthStart(s) = s
        BY <2>2, <2>7
      <3>2. \A u \in MonthStarts : u > s => u > e
        <4> TAKE u \in MonthStarts
        <4>1. u \in Nat /\ (u > s => t <= u)
          BY <2>2, <2>6, NextMonthOf, SeedWindowsAssumption
        <4> QED
          BY <2>2, <4>1
      <3> QED
        BY <2>2, <3>1, <3>2, SameMonth
    <2> QED
      BY <1>3, <2>2, <2>7, <2>8 DEF Begins, Datable, StartOf
  <1> QED
    BY <1>1, <1>2, <1>3

LEMMA DiffOf ==
    ASSUME NEW g \in {"day", "week", "month"}, NEW a \in Nat, NEW b \in Nat, a <= b, GoesOn(g, a, 0)
    PROVE  /\ Diff(g, a, b) \in Nat
           /\ g = "month" => Diff(g, a, b) <= Cardinality(MonthStarts \cap (a + 1 .. b))
  <1>1. CASE g = "day"
    BY <1>1 DEF Diff
  <1>2. CASE g = "week"
    BY <1>2 DEF Diff
  <1>3. CASE g = "month"
    <2> DEFINE C == Cardinality(MonthStarts \cap (a + 1 .. b))
               N == {n \in 0 .. C : Add("month", a, n) <= b}
    <2>1. C \in Nat
      BY FS_Intersection, FS_CardinalityType, SeedWindowsAssumption
    <2>2. Add("month", a, 0) = a
      <3> DEFINE s == MonthStart(a)
                 t == MonthAfter(s, 0)
      <3>1. /\ t \in MonthStarts /\ t \in Nat /\ s <= t /\ Rank(t) = Rank(s) + 0 /\ MonthsBehind(t) # {}
            /\ Add("month", a, 0) = Min({t + (a - s), NextMonth(t) - 1})
        BY <1>3, AddMonths DEF GoesOn
      <3>2. s \in MonthStarts /\ s \in Nat /\ s <= a
        BY MonthStartOf
      <3> HIDE DEF t, s
      <3>3. s = t
        <4>1. ~(s < t)
          BY <3>1, <3>2, RankOf
        <4> QED
          BY <3>1, <3>2, <4>1
      <3>4. NextMonth(s) > a /\ NextMonth(s) \in Nat
        <4>1. NextMonth(s) \in Nat /\ NextMonth(s) > s /\ NextMonth(s) \in MonthStarts
          BY <3>1, <3>2, <3>3, NextMonthOf
        <4>2. NextMonth(s) <= a => NextMonth(s) <= s
          BY <4>1, MonthStartOf DEF s
        <4> QED
          BY <3>2, <4>1, <4>2
      <3>5. t + (a - s) = a /\ NextMonth(t) - 1 \in Int /\ a <= NextMonth(t) - 1
        BY <3>2, <3>3, <3>4
      <3>6. Min({a, NextMonth(t) - 1}) = a
        <4> DEFINE b1 == NextMonth(t) - 1
        <4>1. b1 \in Int /\ a <= b1
          BY <3>5
        <4> HIDE DEF b1
        <4>2. Min({a, b1}) \in {a, b1} /\ Min({a, b1}) <= a
          <5>1. a \in Int
            OBVIOUS
          <5> QED
            BY <4>1, <5>1, MinOfTwo
        <4>3. Min({a, b1}) = a
          BY <4>1, <4>2
        <4> QED
          BY <4>3 DEF b1
      <3> QED
        BY <3>1, <3>5, <3>6
    <2>3. N \in SUBSET (0 .. C) /\ 0 \in N
      <3> HIDE DEF C
      <3> QED
        BY <2>1, <2>2
    <2>4. Diff(g, a, b) = Max(N)
      BY <1>3 DEF Diff
    <2> HIDE DEF C, N
    <2>5. N \in SUBSET Int /\ IsFiniteSet(N) /\ N # {}
      <3>1. IsFiniteSet(0 .. C)
        BY <2>1, FS_Interval
      <3>2. IsFiniteSet(N)
        BY <2>3, <3>1, FS_Subset
      <3>3. \A x \in N : x \in 0 .. C
        BY <2>3
      <3> QED
        BY <2>1, <2>3, <3>2, <3>3
    <2>6. Max(N) \in N
      BY <2>5, MaxOf
    <2>7. Max(N) \in 0 .. C
      BY <2>3, <2>6
    <2> QED
      BY <2>1, <2>4, <2>7 DEF C
  <1> QED
    BY <1>1, <1>2, <1>3
-----------------------------------------------------------------------------
(* The loop stays in the calendar.                                          *)

RangeInv ==
    /\ groupBy \in Groupings /\ start \in FirstDays /\ endDate \in LastDays /\ start <= endDate
    /\ timePerRequest \in Nat \ {0} /\ GoesOn(groupBy, endDate, timePerRequest)
    /\ currentDate \in Nat /\ start <= currentDate
    /\ PerRequest # {}

LEMMA Calendar ==
    /\ Groupings \subseteq {"day", "week", "month"} /\ Days \subseteq Nat
    /\ FirstDays \subseteq Days /\ LastDays \subseteq Days
    /\ LastDay \in Int /\ \A d \in Days : MonthsBehind(d) # {}
  <1>1. MonthStarts \in SUBSET Int /\ IsFiniteSet(MonthStarts) /\ MonthStarts # {}
    BY SeedWindowsAssumption
  <1>2. Max(MonthStarts) \in MonthStarts /\ Max(MonthStarts) \in Nat
    BY <1>1, MaxOf, SeedWindowsAssumption
  <1>3. LastDay \in Int /\ \A d \in Days : d \in Nat /\ Max(MonthStarts) > d
    BY <1>2 DEF Days, LastDay
  <1>4. \A d \in Days : Max(MonthStarts) \in MonthsBehind(d)
    BY <1>2, <1>3 DEF MonthsBehind
  <1> QED
    BY <1>3, <1>4, SeedWindowsAssumption

\* The length that the answer to "how many per request" makes.
LEMMA LengthOf ==
    ASSUME groupBy \in Groupings, NEW first \in FirstDays, NEW last \in LastDays, first <= last,
           NEW n \in PerRequest
    PROVE  /\ RequestLength(first, last, n) \in Nat \ {0}
           /\ GoesOn(groupBy, last, RequestLength(first, last, n))
  <1>1. /\ groupBy \in {"day", "week", "month"} /\ first \in Nat /\ last \in Nat /\ n \in Nat
    BY Calendar, SeedWindowsAssumption
  <1>2. /\ n < Cardinality(MonthsBehind(last))
        /\ Cardinality(MonthStarts \cap (first + 1 .. last)) + 1 < Cardinality(MonthsBehind(last))
    BY CalendarAssumption
  <1>3. CASE n # 0
    BY <1>1, <1>2, <1>3 DEF RequestLength, GoesOn
  <1>4. CASE n = 0
    <2> DEFINE D == Diff(groupBy, first, last)
               C == Cardinality(MonthStarts \cap (first + 1 .. last))
               B == Cardinality(MonthsBehind(last))
    <2>1. GoesOn(groupBy, first, 0)
      <3>1. B <= Cardinality(MonthsBehind(first)) /\ B \in Nat /\ Cardinality(MonthsBehind(first)) \in Nat
        BY <1>1, BehindDay, BehindFinite
      <3> QED
        BY <1>2, <1>4, <3>1 DEF GoesOn
    <2>2. D \in Nat /\ (groupBy = "month" => D <= C)
      BY <1>1, <2>1, DiffOf
    <2>3. C \in Nat /\ B \in Nat /\ C + 1 < B
      BY <1>2, BehindFinite, FS_Intersection, FS_CardinalityType, SeedWindowsAssumption
    <2>4. RequestLength(first, last, n) = D + 1
      BY <1>4 DEF RequestLength
    <2> HIDE DEF C, D
    <2>5. D + 1 \in Nat \ {0} /\ (groupBy = "month" => D + 1 < B)
      BY <2>2, <2>3
    <2> QED
      BY <2>4, <2>5 DEF GoesOn
  <1> QED
    BY <1>3, <1>4

\* The calendar goes on behind the window that is asked for.
LEMMA LoopGoesOn ==
    ASSUME RangeInv, currentDate <= endDate
    PROVE  /\ GoesOn(groupBy, currentDate, timePerRequest)
           /\ GoesOn(groupBy, currentDate, timePerRequest - 1)
           /\ endDate \in Nat /\ endDate \in Days
  <1>1. endDate \in Nat /\ endDate \in Days /\ currentDate \in Nat /\ timePerRequest \in Nat
    BY Calendar DEF RangeInv
  <1>2. Cardinality(MonthsBehind(endDate)) <= Cardinality(MonthsBehind(currentDate))
    BY <1>1, BehindDay
  <1>3. Cardinality(MonthsBehind(endDate)) \in Nat /\ Cardinality(MonthsBehind(currentDate)) \in Nat
    BY BehindFinite
  <1> QED
    BY <1>1, <1>2, <1>3 DEF RangeInv, GoesOn

LEMMA WindowOf ==
    ASSUME RangeInv, currentDate <= endDate
    PROVE  /\ Window[1] = currentDate /\ Window[2] \in Nat
           /\ currentDate <= Window[2] /\ Window[2] <= endDate
           /\ Window[2] = endDate \/ Window[2] = Add(groupBy, currentDate, timePerRequest - 1)
  <1> DEFINE next == Add(groupBy, currentDate, timePerRequest - 1)
  <1>1. /\ groupBy \in {"day", "week", "month"} /\ currentDate \in Nat
        /\ timePerRequest - 1 \in Nat /\ endDate \in Nat
    BY Calendar DEF RangeInv
  <1>2. next \in Nat /\ currentDate <= next
    BY <1>1, LoopGoesOn, AddOf
  <1>3. Window = <<currentDate, IF next > endDate THEN endDate ELSE next>>
    BY DEF Window
  <1> HIDE DEF next
  <1>4. Window[1] = currentDate /\ Window[2] = IF next > endDate THEN endDate ELSE next
    BY <1>3
  <1> QED
    BY <1>1, <1>2, <1>4 DEF next

LEMMA RangeInitially == Init => RangeInv
  <1> SUFFICES ASSUME Init PROVE RangeInv
    OBVIOUS
  <1>1. PICK n \in PerRequest : timePerRequest = RequestLength(start, endDate, n)
    BY DEF Init
  <1>2. /\ groupBy \in Groupings /\ start \in FirstDays /\ endDate \in LastDays /\ start <= endDate
        /\ currentDate = start
    BY DEF Init
  <1>3. timePerRequest \in Nat \ {0} /\ GoesOn(groupBy, endDate, timePerRequest)
    BY <1>1, <1>2, LengthOf
  <1>4. start \in Nat
    BY <1>2, Calendar
  <1> QED
    BY <1>2, <1>3, <1>4 DEF RangeInv

LEMMA RangeKept == RangeInv /\ [Next]_vars => RangeInv'
  <1> SUFFICES ASSUME RangeInv, [Next]_vars PROVE RangeInv'
    OBVIOUS
  <1>1. CASE SeedWindow
    <2>1. /\ currentDate <= endDate /\ currentDate' = Add(groupBy, currentDate, timePerRequest)
          /\ UNCHANGED <<groupBy, start, endDate, timePerRequest>>
      BY <1>1 DEF SeedWindow
    <2>2. GoesOn(groupBy, currentDate, timePerRequest)
      BY <2>1, LoopGoesOn
    <2>3. /\ groupBy \in {"day", "week", "month"} /\ currentDate \in Nat /\ timePerRequest \in Nat
          /\ start \in Nat /\ start <= currentDate
      BY Calendar DEF RangeInv
    <2>4. currentDate' \in Nat /\ currentDate <= currentDate'
      BY <2>1, <2>2, <2>3, AddOf
    <2>5. start <= currentDate'
      BY <2>3, <2>4
    <2> QED
      BY <2>1, <2>4, <2>5 DEF RangeInv, GoesOn
  <1>2. CASE SeedAgain
    <2>1. /\ groupBy' = groupBy /\ groupBy \in Groupings /\ start' \in FirstDays /\ endDate' \in LastDays
          /\ start' <= endDate' /\ currentDate' = start'
      BY <1>2 DEF SeedAgain, RangeInv
    <2>2. PICK n \in PerRequest : timePerRequest' = RequestLength(start', endDate', n)
      BY <1>2 DEF SeedAgain
    <2>3. timePerRequest' \in Nat \ {0} /\ GoesOn(groupBy, endDate', timePerRequest')
      BY <2>1, <2>2, LengthOf
    <2>4. start' \in Nat
      BY <2>1, Calendar
    <2> QED
      BY <2>1, <2>3, <2>4 DEF RangeInv, GoesOn
  <1>3. CASE UNCHANGED vars
    BY <1>3 DEF vars, RangeInv, GoesOn
  <1> QED
    BY <1>1, <1>2, <1>3 DEF Next

-----------------------------------------------------------------------------
(* A turn of the loop.                                                      *)

Requested == PeriodsWithin(groupBy, Window[1], Window[2])
Missing == Requested \ DOMAIN cached
Windows == FetchWindows(groupBy, Missing)
Fetched == UNION {w[1] .. w[2] : w \in Windows}

LEMMA TurnOf ==
    ASSUME SeedWindow
    PROVE  /\ currentDate <= endDate
           /\ cached' = [p \in DOMAIN cached \cup Missing |->
                            IF p \in DOMAIN cached THEN cached[p] ELSE Fetched \cap DaysOf(groupBy, p)]
           /\ twice' = twice \cup {d \in Fetched \cap Days : \E p \in DOMAIN cached : d \in cached[p]}
           /\ bills' = BillsAfter(Windows)
           /\ currentDate' = Add(groupBy, currentDate, timePerRequest)
           /\ UNCHANGED <<groupBy, start, endDate, timePerRequest, zone, seedings>>
  BY DEF SeedWindow, Requested, Missing, Windows, Fetched, FetchMissing

\* The days from the range's first on can be asked about, and the day before them too.
LEMMA RangeDays ==
    ASSUME RangeInv, NEW d \in start .. endDate
    PROVE  /\ d \in Days /\ Datable(groupBy, d)
           /\ Begins(groupBy, StartOf(groupBy, d)) /\ Datable(groupBy, StartOf(groupBy, d) - 1)
           /\ groupBy = "month" => MonthsBehind(StartOf(groupBy, d)) # {}
  <1>1. /\ groupBy \in {"day", "week", "month"} /\ start \in Nat /\ endDate \in Days /\ d \in Nat
        /\ endDate \in Nat /\ LastDay \in Int
    BY Calendar DEF RangeInv
  <1>2. d \in Days /\ Datable(groupBy, d)
    BY <1>1 DEF Days, Datable
  <1>3. Begins(groupBy, StartOf(groupBy, d))
    BY <1>1, <1>2, StartBegins
  <1>4. Datable(groupBy, StartOf(groupBy, d) - 1)
    <2>1. StartOf(groupBy, d) \in Int
      BY <1>3 DEF Begins, Datable
    <2>2. CASE groupBy = "month"
      <3>1. MonthStart(start) > 0 /\ MonthStart(start) \in Nat
        BY <1>1, MonthStartOf, CalendarAssumption DEF RangeInv
      <3>2. StartOf(groupBy, start) <= StartOf(groupBy, d)
        BY <1>1, <1>2, StartOfLater DEF Datable
      <3> QED
        BY <2>1, <2>2, <3>1, <3>2 DEF StartOf, Datable
    <2> QED
      BY <2>1, <2>2 DEF Datable
  <1>5. groupBy = "month" => MonthsBehind(StartOf(groupBy, d)) # {}
    BY <1>1, <1>2, BehindDay, Calendar DEF StartOf
  <1> QED
    BY <1>2, <1>3, <1>4, <1>5
\* The periods of a window that are not cached can be fetched.
LEMMA MissingOf ==
    ASSUME RangeInv, currentDate <= endDate
    PROVE  /\ MissingPeriods(groupBy, Missing)
           /\ Missing \subseteq {StartOf(groupBy, d) : d \in Days}
  <1> DEFINE W == Window[1] .. Window[2]
             f == [d \in W |-> StartOf(groupBy, d)]
  <1>1. /\ groupBy \in {"day", "week", "month"} /\ start \in Nat /\ endDate \in Nat
        /\ currentDate \in Nat /\ start <= currentDate
    BY Calendar DEF RangeInv
  <1>2. Window[1] \in Nat /\ Window[2] \in Nat /\ start <= Window[1] /\ Window[2] <= endDate
    BY <1>1, WindowOf
  <1>3. \A d \in W : d \in start .. endDate
    BY <1>1, <1>2
  <1>4. IsFiniteSet(W)
    <2>1. \A a, b \in Nat : IsFiniteSet(a .. b)
      BY FS_Interval
    <2> QED
      BY <1>2, <2>1
  <1>5. Requested = {StartOf(groupBy, d) : d \in W}
    BY DEF Requested, PeriodsWithin
  <1>6. \A d \in W : /\ d \in Days
                     /\ Begins(groupBy, StartOf(groupBy, d)) /\ Datable(groupBy, StartOf(groupBy, d) - 1)
                     /\ groupBy = "month" => MonthsBehind(StartOf(groupBy, d)) # {}
    BY <1>3, RangeDays
  <1> HIDE DEF W
  <1>7. f \in Surjection(W, Requested)
    BY <1>5 DEF Surjection
  <1> HIDE DEF f
  <1>8. IsFiniteSet(Requested)
    BY <1>4, <1>7, FS_Surjection
  <1>9. Missing \in SUBSET Requested
    BY DEF Missing
  <1>10. IsFiniteSet(Missing)
    BY <1>8, <1>9, FS_Subset
  <1>11. \A p \in Missing : \E d \in W : p = StartOf(groupBy, d)
    BY <1>5, <1>9
  <1>12. \A p \in Missing : /\ p \in Int /\ Begins(groupBy, p) /\ Datable(groupBy, p - 1)
                            /\ groupBy = "month" => MonthsBehind(p) # {}
    BY <1>6, <1>11 DEF Begins, Datable
  <1>13. MissingPeriods(groupBy, Missing)
    BY <1>10, <1>12 DEF MissingPeriods
  <1>14. ASSUME NEW p \in Missing
         PROVE  p \in {StartOf(groupBy, d) : d \in Days}
    BY <1>6, <1>11
  <1> QED
    BY <1>13, <1>14

\* The days that are fetched are of missing periods; by days and months, all their days.
LEMMA FetchedOf ==
    ASSUME RangeInv, currentDate <= endDate
    PROVE  /\ \A d \in Fetched : StartOf(groupBy, d) \in Missing
           /\ groupBy # "week" => \A p \in Missing : DaysOf(groupBy, p) \subseteq Fetched
  <1>1. groupBy \in {"day", "week", "month"} /\ Days \subseteq Nat
    BY Calendar DEF RangeInv
  <1>2. MissingPeriods(groupBy, Missing)
    BY MissingOf
  <1>3. ASSUME NEW d \in Fetched
        PROVE  StartOf(groupBy, d) \in Missing
    <2>1. PICK w \in FetchWindows(groupBy, Missing) : d \in w[1] .. w[2]
      BY DEF Fetched, Windows
    <2> QED
      BY <1>1, <1>2, <2>1, FetchedMissing
  <1>4. ASSUME groupBy # "week", NEW p \in Missing, NEW d \in DaysOf(groupBy, p)
        PROVE  d \in Fetched
    <2>1. Datable(groupBy, d) /\ StartOf(groupBy, d) = p /\ groupBy \in {"day", "month"}
      BY <1>1, <1>4 DEF DaysOf, Datable
    <2>2. \E w \in FetchWindows(groupBy, Missing) : d \in w[1] .. w[2]
      BY <1>2, <2>1, MissingFetched
    <2> QED
      BY <2>2 DEF Fetched, Windows
  <1> QED
    BY <1>3, <1>4

\* Finitely many windows are fetched, each beginning with a missing period.
LEMMA WindowsFinite ==
    ASSUME RangeInv, currentDate <= endDate
    PROVE  IsFiniteSet(Windows) /\ \A w \in Windows : w[1] \in Missing
  <1>1. groupBy \in {"day", "week", "month"} /\ MissingPeriods(groupBy, Missing)
    BY Calendar, MissingOf DEF RangeInv
  <1> DEFINE f == [run \in Missing \X Missing |-> <<run[1], EndOf(groupBy, run[2])>>]
             I == {f[run] : run \in Missing \X Missing}
  <1>2. f \in Surjection(Missing \X Missing, I)
    BY DEF Surjection
  <1>3. IsFiniteSet(Missing \X Missing)
    BY <1>1, FS_Product DEF MissingPeriods
  <1>4. IsFiniteSet(I)
    <2> HIDE DEF f, I
    <2> QED
      BY <1>2, <1>3, FS_Surjection
  <1>5. ASSUME NEW run \in Runs(groupBy, Missing)
        PROVE  run \in Missing \X Missing
    <2>1. PICK p, q : run = <<p, q>>
      BY DEF Runs
    <2>2. run[1] \in Missing /\ run[2] \in Missing
      BY <1>1, RunMissing
    <2> QED
      BY <2>1, <2>2
  <1>6. Windows \in SUBSET I
    BY <1>5 DEF Windows, FetchWindows
  <1>7. IsFiniteSet(Windows)
    <2> HIDE DEF I
    <2> QED
      BY <1>4, <1>6, FS_Subset
  <1>8. \A w \in Windows : w[1] \in Missing
    BY <1>1, FetchedMissing DEF Windows
  <1> QED
    BY <1>7, <1>8

\* The count of the bills stays a count up to two.
LEMMA BillsOf ==
    ASSUME TypeOK, RangeInv, currentDate <= endDate
    PROVE  BillsAfter(Windows) \in [MonthStarts -> 0 .. 2]
  <1> DEFINE asked == UNION {{<<w, BilledMonth(zone, t)>> : t \in BillDates(zone, w[1], w[2])} :
                                w \in Windows}
             of(m) == {x \in asked : x[2] = m}
  <1>1. CASE groupBy # "month"
    BY <1>1 DEF BillsAfter, TypeOK
  <1>2. CASE groupBy = "month"
    <2>1. IsFiniteSet(Windows)
      BY <1>2, WindowsFinite, MissingOf DEF MissingPeriods, Begins, Datable
    <2>2. \A x \in asked : \E w \in Windows : \E month : x = <<w, month>>
      OBVIOUS
    <2>3. \A m : of(m) \in SUBSET (Windows \X {m})
      BY <2>2
    <2>4. \A m : IsFiniteSet(Windows \X {m})
      BY <2>1, FS_Product, FS_Singleton
    <2> HIDE DEF asked
    <2> HIDE DEF of
    <2>6. \A m : Cardinality(of(m)) \in Nat
      BY <2>3, <2>4, FS_Subset, FS_CardinalityType
    <2>7. ASSUME NEW m \in MonthStarts
          PROVE  Min({2, bills[m] + Cardinality(of(m))}) \in 0 .. 2
      <3> DEFINE c == bills[m] + Cardinality(of(m))
      <3>1. c \in Nat
        BY <2>6 DEF TypeOK
      <3> HIDE DEF c
      <3>2. Min({2, c}) \in {2, c} /\ Min({2, c}) <= 2
        BY <3>1, MinOfTwo
      <3>3. Min({2, c}) \in 0 .. 2
        BY <3>1, <3>2
      <3> QED
        BY <3>3 DEF c
    <2>8. BillsAfter(Windows) = [m \in MonthStarts |-> Min({2, bills[m] + Cardinality(of(m))})]
      BY <1>2 DEF BillsAfter, asked, of
    <2> QED
      BY <2>7, <2>8
  <1> QED
    BY <1>1, <1>2
-----------------------------------------------------------------------------
(* The theorems.                                                            *)

\* Every state has a range that the calendar goes on behind.
LEMMA AlwaysRange == Spec => []RangeInv
  BY RangeInitially, RangeKept, PTL DEF Spec

LEMMA TypeInitially == Init => TypeOK
  <1> SUFFICES ASSUME Init PROVE TypeOK
    OBVIOUS
  <1>1. RangeInv
    BY RangeInitially
  <1>2. start \in Days /\ endDate \in Days
    BY <1>1, Calendar DEF RangeInv
  <1>3. seedings \in 1 .. MaxSeedings /\ DOMAIN cached = {} /\ twice = {}
        /\ bills \in [MonthStarts -> 0 .. 2] /\ zone \in Zones
    BY SeedWindowsAssumption DEF Init
  <1> QED
    BY <1>1, <1>2, <1>3 DEF TypeOK, RangeInv

LEMMA TypeKept == RangeInv /\ TypeOK /\ [Next]_vars => TypeOK'
  <1> SUFFICES ASSUME RangeInv, TypeOK, [Next]_vars PROVE TypeOK'
    OBVIOUS
  <1>1. RangeInv'
    BY RangeKept
  <1>2. start' \in Days /\ endDate' \in Days
    BY <1>1, Calendar DEF RangeInv
  <1>3. CASE SeedWindow
    <2>1. DOMAIN cached' = DOMAIN cached \cup Missing
      BY <1>3, TurnOf
    <2>2. groupBy' = groupBy /\ zone' = zone /\ seedings' = seedings /\ currentDate <= endDate
      BY <1>3, TurnOf
    <2>3. DOMAIN cached' \subseteq {StartOf(groupBy', d) : d \in Days}
      BY <2>1, <2>2, MissingOf DEF TypeOK
    <2>4. \A p \in DOMAIN cached' : cached'[p] \subseteq DaysOf(groupBy', p)
      <3> TAKE p \in DOMAIN cached'
      <3>1. p \in DOMAIN cached => cached'[p] = cached[p]
        BY <1>3, <2>1, TurnOf
      <3>2. p \notin DOMAIN cached => cached'[p] = Fetched \cap DaysOf(groupBy, p)
        BY <1>3, <2>1, TurnOf
      <3> QED
        BY <2>2, <3>1, <3>2 DEF TypeOK
    <2>5. twice' \subseteq Days
      BY <1>3, TurnOf DEF TypeOK
    <2>6. bills' \in [MonthStarts -> 0 .. 2]
      BY <1>3, <2>2, TurnOf, BillsOf
    <2> QED
      BY <1>1, <1>2, <2>2, <2>3, <2>4, <2>5, <2>6 DEF TypeOK, RangeInv
  <1>4. CASE SeedAgain
    <2>1. /\ seedings' = seedings + 1 /\ seedings < MaxSeedings
          /\ UNCHANGED <<groupBy, zone, cached, twice, bills>>
      BY <1>4 DEF SeedAgain
    <2>2. seedings' \in 1 .. MaxSeedings
      BY <2>1, SeedWindowsAssumption DEF TypeOK
    <2> QED
      BY <1>1, <1>2, <2>1, <2>2 DEF TypeOK, RangeInv
  <1>5. CASE UNCHANGED vars
    BY <1>5 DEF vars, TypeOK
  <1> QED
    BY <1>3, <1>4, <1>5 DEF Next

(* Entries are dated at starts of periods and hold days of their period     *)
(* only (seedCacheFile.ts, getMissingDataRequests of helpers.ts).           *)
THEOREM TypeCorrect == Spec => []TypeOK
  BY AlwaysRange, TypeInitially, TypeKept, PTL DEF Spec

(* However ranges are split and repeated, no day's usage is fetched by two  *)
(* requests: fetched days lie in periods that were missing                  *)
(* (getMissingDataRequests), cached ones in periods that were not.          *)
THEOREM NoDayTwiceHolds == Spec => []NoDayTwice
  <1>1. Init => NoDayTwice
    BY DEF Init, NoDayTwice
  <1>2. ASSUME RangeInv, TypeOK, NoDayTwice, [Next]_vars
        PROVE  NoDayTwice'
    <2>1. CASE SeedWindow
      <3>1. ASSUME NEW d \in Fetched \cap Days, NEW p \in DOMAIN cached, d \in cached[p]
            PROVE  FALSE
        <4>1. StartOf(groupBy, d) = p
          BY <1>2, <3>1 DEF TypeOK, DaysOf
        <4>2. StartOf(groupBy, d) \in Missing
          BY <1>2, <2>1, TurnOf, FetchedOf
        <4> QED
          BY <3>1, <4>1, <4>2 DEF Missing
      <3>2. twice' = twice \cup {d \in Fetched \cap Days : \E p \in DOMAIN cached : d \in cached[p]}
        BY <2>1, TurnOf
      <3>3. {d \in Fetched \cap Days : \E p \in DOMAIN cached : d \in cached[p]} = {}
        BY <3>1
      <3> QED
        BY <1>2, <3>2, <3>3 DEF NoDayTwice
    <2>2. CASE SeedAgain \/ UNCHANGED vars
      BY <1>2, <2>2 DEF SeedAgain, vars, NoDayTwice
    <2> QED
      BY <1>2, <2>1, <2>2 DEF Next
  <1> QED
    BY <1>1, <1>2, AlwaysRange, TypeCorrect, PTL DEF Spec

(* By days and by months every entry holds all days of its period, whatever *)
(* part of it the window touched: a fetch reaches from the start of the     *)
(* first missing period to the end of the last (getMissingDataRequests).    *)
THEOREM DaysAndMonthsWholeHolds == Spec => []DaysAndMonthsWhole
  <1>1. Init => DaysAndMonthsWhole
    BY DEF Init, DaysAndMonthsWhole, PeriodsWhole
  <1>2. ASSUME RangeInv, TypeOK, DaysAndMonthsWhole, [Next]_vars
        PROVE  DaysAndMonthsWhole'
    <2>1. CASE SeedWindow
      <3> SUFFICES ASSUME groupBy # "week", NEW p \in DOMAIN cached'
                   PROVE  cached'[p] = DaysOf(groupBy, p)
        BY <2>1, TurnOf DEF DaysAndMonthsWhole, PeriodsWhole
      <3>1. DOMAIN cached' = DOMAIN cached \cup Missing
        BY <2>1, TurnOf
      <3>2. CASE p \in DOMAIN cached
        <4>1. cached'[p] = cached[p]
          BY <2>1, <3>1, <3>2, TurnOf
        <4> QED
          BY <1>2, <3>2, <4>1 DEF DaysAndMonthsWhole, PeriodsWhole
      <3>3. CASE p \notin DOMAIN cached
        <4>1. cached'[p] = Fetched \cap DaysOf(groupBy, p)
          BY <2>1, <3>1, <3>3, TurnOf
        <4>2. p \in Missing
          BY <3>1, <3>3
        <4>3. DaysOf(groupBy, p) \subseteq Fetched
          BY <1>2, <2>1, <4>2, TurnOf, FetchedOf
        <4> QED
          BY <4>1, <4>3
      <3> QED
        BY <3>2, <3>3
    <2>2. CASE SeedAgain \/ UNCHANGED vars
      BY <1>2, <2>2 DEF SeedAgain, vars, DaysAndMonthsWhole, PeriodsWhole
    <2> QED
      BY <1>2, <2>1, <2>2 DEF Next
  <1> QED
    BY <1>1, <1>2, AlwaysRange, PTL, TypeCorrect DEF Spec

(* What the loop has passed: from a range that began with a whole period,   *)
(* the windows begin with whole periods, and the days before the next one   *)
(* belong to cached periods.                                                *)
CoveredInv ==
    start = StartOf(groupBy, start) =>
        /\ Begins(groupBy, currentDate)
        /\ \A d \in start .. endDate : d < currentDate => StartOf(groupBy, d) \in DOMAIN cached

LEMMA CoveredStart ==
    ASSUME RangeInv, currentDate = start
    PROVE  CoveredInv
  <1>1. start \in Nat
    BY Calendar DEF RangeInv
  <1> QED
    BY <1>1 DEF CoveredInv, Begins, Datable

\* The days up to the next window belong to periods of this one.
LEMMA CoveredTurn ==
    ASSUME RangeInv, CoveredInv, SeedWindow
    PROVE  CoveredInv'
  <1>1. /\ groupBy' = groupBy /\ start' = start /\ endDate' = endDate /\ currentDate <= endDate
        /\ DOMAIN cached' = DOMAIN cached \cup Missing
        /\ currentDate' = Add(groupBy, currentDate, timePerRequest)
    BY TurnOf
  <1> SUFFICES ASSUME start = StartOf(groupBy, start)
               PROVE  /\ Begins(groupBy, currentDate')
                      /\ \A d \in start .. endDate :
                            d < currentDate' => StartOf(groupBy, d) \in DOMAIN cached'
    BY <1>1 DEF CoveredInv
  <1>2. /\ groupBy \in {"day", "week", "month"} /\ currentDate \in Nat /\ start \in Nat /\ endDate \in Nat
        /\ timePerRequest \in Nat \ {0} /\ Begins(groupBy, currentDate)
    BY Calendar DEF RangeInv, CoveredInv
  <1> DEFINE final == Add(groupBy, currentDate, timePerRequest - 1)
  <1>3. /\ Begins(groupBy, currentDate')
        /\ \A d \in Int : final <= d /\ d < currentDate' => StartOf(groupBy, d) = final
    <2> DEFINE next == Add(groupBy, currentDate, timePerRequest)
    <2>1. /\ Begins(groupBy, next)
          /\ \A d \in final .. next - 1 : StartOf(groupBy, d) = final
      BY <1>1, <1>2, LoopGoesOn, AddBegins
    <2> HIDE DEF final, next
    <2>2. next \in Int /\ currentDate' = next
      BY <1>1, <2>1 DEF Begins, Datable, next
    <2>3. ASSUME NEW d \in Int, final <= d, d < next
          PROVE  StartOf(groupBy, d) = final
      BY <2>1, <2>2, <2>3
    <2> QED
      BY <2>1, <2>2, <2>3
  <1>4. /\ Window[1] = currentDate /\ Window[2] \in Nat /\ currentDate <= Window[2]
        /\ Window[2] = endDate \/ Window[2] = final
    BY <1>1, WindowOf
  <1> HIDE DEF final
  <1>5. \A d \in Window[1] .. Window[2] : StartOf(groupBy, d) \in DOMAIN cached'
    BY <1>1 DEF Missing, Requested, PeriodsWithin
  <1>6. ASSUME NEW d \in start .. endDate, d < currentDate'
        PROVE  StartOf(groupBy, d) \in DOMAIN cached'
    <2>1. d \in Int /\ currentDate' \in Int
      BY <1>2, <1>3 DEF Begins, Datable
    <2>2. CASE d < currentDate
      BY <1>1, <2>2 DEF CoveredInv
    <2>3. CASE currentDate <= d /\ d <= Window[2]
      BY <1>2, <1>4, <1>5, <2>1, <2>3
    <2>4. CASE Window[2] < d
      <3>1. Window[2] = final /\ final \in Nat
        <4>1. d <= endDate
          BY <1>2
        <4>2. Window[2] # endDate
          BY <1>2, <2>1, <2>4, <4>1
        <4> QED
          BY <1>4, <4>2
      <3>2. StartOf(groupBy, d) = final /\ StartOf(groupBy, final) = final
        BY <1>3, <1>6, <2>1, <2>4, <3>1
      <3>3. final \in Window[1] .. Window[2]
        BY <1>2, <1>4, <3>1
      <3> QED
        BY <1>5, <3>2, <3>3
    <2> QED
      BY <1>2, <1>4, <2>1, <2>2, <2>3, <2>4
  <1> QED
    BY <1>3, <1>6

(* When the loop has ended, every day of a range that began with a whole    *)
(* period belongs to a cached period: the windows leave no gap, although    *)
(* the step to the next one and the end of this one are computed apart      *)
(* (seedCacheFile.ts), and months are added with moment's cut of the day.   *)
THEOREM AlignedRangeCoveredHolds == Spec => []AlignedRangeCovered
  <1>1. Init => CoveredInv
    BY RangeInitially, CoveredStart DEF Init
  <1>2. ASSUME RangeInv, CoveredInv, [Next]_vars
        PROVE  CoveredInv'
    <2>1. CASE SeedWindow
      BY <1>2, <2>1, CoveredTurn
    <2>2. CASE SeedAgain
      <3>1. RangeInv'
        BY <1>2, RangeKept
      <3>2. currentDate' = start' /\ start' \in Nat
        BY <2>2, <3>1, Calendar DEF SeedAgain, RangeInv
      <3> QED
        BY <3>2 DEF CoveredInv, Begins, Datable
    <2>3. CASE UNCHANGED vars
      BY <1>2, <2>3 DEF vars, CoveredInv
    <2> QED
      BY <1>2, <2>1, <2>2, <2>3 DEF Next
  <1>3. RangeInv /\ CoveredInv => AlignedRangeCovered
    <2> SUFFICES ASSUME RangeInv, CoveredInv, currentDate > endDate, start = StartOf(groupBy, start),
                        NEW d \in start .. endDate
                 PROVE  StartOf(groupBy, d) \in DOMAIN cached
      BY DEF AlignedRangeCovered
    <2>1. d < currentDate
      BY Calendar DEF RangeInv
    <2> QED
      BY <2>1 DEF CoveredInv
  <1> QED
    BY <1>1, <1>2, <1>3, AlwaysRange, PTL DEF Spec

-----------------------------------------------------------------------------
(* The bills Alibaba is asked for, by months.                               *)

\* The moments getDates goes through: the begin of a day, then those a month later each.
GoneThrough(z, a, b, date) ==
    /\ date[0] = a * Minutes
    /\ \A n \in 0 .. Cardinality(MonthStarts) - 1 : date[n + 1] = MonthLater(z, date[n])
    /\ BillDates(z, a, b) = {date[n] : n \in 0 .. Cardinality(MonthStarts)}
                               \cap (a * Minutes .. (b + 1) * Minutes - 1)

LEMMA BillTurns ==
    ASSUME NEW z, NEW a, NEW b
    PROVE  \E date : GoneThrough(z, a, b, date)
  <1> DEFINE N == Cardinality(MonthStarts)
             Turns(f, m) == f = [n \in 0 .. m |-> IF n = 0 THEN a * Minutes ELSE MonthLater(z, f[n - 1])]
             T == {m \in Nat : \E f : Turns(f, m)}
  <1>1. N \in Nat
    BY FS_CardinalityType, SeedWindowsAssumption
  <1>2. 0 \in T
    <2> DEFINE f == [n \in 0 .. 0 |-> a * Minutes]
    <2>1. Turns(f, 0)
      OBVIOUS
    <2> QED
      BY <2>1
  <1>3. ASSUME NEW m \in Nat, m \in T
        PROVE  m + 1 \in T
    <2>1. PICK f : Turns(f, m)
      BY <1>3
    <2> DEFINE next == MonthLater(z, f[m])
               g == [n \in 0 .. m + 1 |-> IF n = m + 1 THEN next ELSE f[n]]
    <2>2. \A n \in 0 .. m : f[n] = IF n = 0 THEN a * Minutes ELSE MonthLater(z, f[n - 1])
      BY <2>1
    <2>3. \A n \in 0 .. m + 1 : g[n] = IF n = 0 THEN a * Minutes ELSE MonthLater(z, g[n - 1])
      <3> TAKE n \in 0 .. m + 1
      <3>1. CASE n = m + 1
        <4>1. g[n] = next /\ g[n - 1] = f[m] /\ n # 0
          BY <3>1
        <4> QED
          BY <3>1, <4>1
      <3>2. CASE n # m + 1
        <4>1. g[n] = f[n] /\ n \in 0 .. m /\ (n # 0 => g[n - 1] = f[n - 1])
          BY <3>2
        <4> QED
          BY <2>2, <4>1
      <3> QED
        BY <3>1, <3>2
    <2>4. Turns(g, m + 1)
      <3>1. g = [n \in 0 .. m + 1 |-> g[n]]
        OBVIOUS
      <3> HIDE DEF g
      <3> QED
        BY <2>3, <3>1
    <2>5. m + 1 \in Nat /\ \E h : Turns(h, m + 1)
      <3> HIDE DEF Turns, g
      <3> QED
        BY <2>4
    <2> HIDE DEF Turns
    <2> QED
      BY <2>5
  <1>4. \E f : Turns(f, N)
    <2> HIDE DEF T
    <2>1. N \in T
      BY <1>1, <1>2, <1>3, NatSetInduction
    <2> QED
      BY <2>1 DEF T
  <1> DEFINE date == CHOOSE f : Turns(f, N)
  <1>5. Turns(date, N)
    BY <1>4
  <1>6. BillDates(z, a, b) = {date[n] : n \in DOMAIN date} \cap (a * Minutes .. (b + 1) * Minutes - 1)
    BY DEF BillDates
  <1> HIDE DEF date
  <1>7. DOMAIN date = 0 .. N
    BY <1>5
  <1>8. date[0] = a * Minutes
    BY <1>1, <1>5
  <1>9. \A n \in 0 .. N - 1 : date[n + 1] = MonthLater(z, date[n])
    <2> TAKE n \in 0 .. N - 1
    <2> DEFINE k == n + 1
    <2>1. k \in 0 .. N /\ k # 0 /\ k - 1 = n
      BY <1>1
    <2> HIDE DEF k, N
    <2>2. date[k] = IF k = 0 THEN a * Minutes ELSE MonthLater(z, date[k - 1])
      BY <1>5, <2>1
    <2> QED
      BY <2>1, <2>2 DEF k
  <1>10. GoneThrough(z, a, b, date)
    BY <1>6, <1>7, <1>8, <1>9 DEF GoneThrough
  <1> QED
    BY <1>10

\* From the begin of a month getDates steps to the begin of the next one, as long as there is one.
LEMMA StepsByMonths ==
    ASSUME NEW m \in MonthStarts
    PROVE  /\ SameDayNextMonth(m) \in MonthStarts
           /\ MonthsBehind(m) # {} => SameDayNextMonth(m) = NextMonth(m)
  <1>1. /\ MonthStarts \in SUBSET Int /\ IsFiniteSet(MonthStarts) /\ MonthStarts # {} /\ m \in Nat
        /\ \A s \in MonthStarts : s \in Nat
    BY SeedWindowsAssumption
  <1> DEFINE last == Max(MonthStarts)
  <1>2. last \in MonthStarts /\ last \in Nat /\ \A s \in MonthStarts : s <= last
    BY <1>1, MaxOf
  <1>3. LastDay = last - 1
    BY DEF LastDay
  <1> HIDE DEF last
  <1>4. LastDay \in Int /\ LastDay + 1 = last
    BY <1>2, <1>3
  <1>5. CASE m > LastDay
    <2>1. MonthsBehind(m) = {}
      <3> SUFFICES ASSUME NEW s \in MonthStarts, s > m PROVE FALSE
        BY DEF MonthsBehind
      <3>1. s \in Nat /\ s <= LastDay + 1
        BY <1>1, <1>2, <1>4
      <3> QED
        BY <1>1, <1>4, <1>5, <3>1
    <2> QED
      BY <1>2, <1>4, <1>5, <2>1 DEF SameDayNextMonth
  <1>6. CASE ~(m > LastDay)
    <2>1. last \in MonthsBehind(m)
      BY <1>1, <1>2, <1>4, <1>6 DEF MonthsBehind
    <2>2. NextMonth(m) \in MonthStarts /\ NextMonth(m) \in Nat /\ NextMonth(m) <= LastDay + 1
      BY <1>1, <1>2, <1>4, <2>1, NextMonthOf
    <2>3. MonthStart(m) = m
      <3>1. MonthStart(m) \in Nat /\ MonthStart(m) <= m /\ m <= MonthStart(m)
        BY <1>1, MonthStartOf
      <3> QED
        BY <1>1, <3>1
    <2>4. NextMonth(m) > LastDay => NextMonth(m) = LastDay + 1
      BY <1>4, <2>2
    <2>5. NextMonth(m) + (m - MonthStart(m)) = NextMonth(m)
      BY <1>1, <2>2, <2>3
    <2>6. SameDayNextMonth(m) = NextMonth(m)
      BY <1>6, <2>4, <2>5 DEF SameDayNextMonth
    <2> QED
      BY <2>2, <2>6
  <1> QED
    BY <1>5, <1>6

\* A moment is its day and its time of the day.
LEMMA TimeOfDay ==
    ASSUME NEW d \in Nat, NEW r \in Nat, r < Minutes, NEW t, t = d * Minutes + r
    PROVE  t \div Minutes = d /\ t % Minutes = r
  <1>1. Minutes = 1440
    BY DEF Minutes
  <1>2. r < 1440 /\ t = d * 1440 + r /\ t \in Nat
    BY <1>1
  <1>3. t \div 1440 = d
    BY <1>2, SMTT(30)
  <1>4. t % 1440 = r
    BY <1>2, <1>3, SMTT(30)
  <1> QED
    BY <1>1, <1>3, <1>4

\* On a host that is ahead of UTC a month begins later on the same day, and the day is the same.
LEMMA MonthLaterOf ==
    ASSUME NEW z, SteadilyAhead(z), NEW m \in MonthStarts
    PROVE  /\ MonthLater(z, m * Minutes) = SameDayNextMonth(m) * Minutes
           /\ BilledMonth(z, m * Minutes) = m
  <1> DEFINE next == SameDayNextMonth(m)
             later == next * Minutes + z.ahead
  <1>1. m \in Nat /\ next \in Nat /\ z.ahead \in 0 .. 1439 /\ Minutes = 1440
    BY StepsByMonths, SeedWindowsAssumption DEF SteadilyAhead, Minutes
  <1>2. \A d : Ahead(z, d) = z.ahead
    BY <1>1 DEF Ahead, SteadilyAhead
  <1> HIDE DEF next
  <1>3. LocalTime(z, m * Minutes) = m * Minutes + z.ahead
    BY <1>2 DEF LocalTime
  <1>4. (m * Minutes + z.ahead) \div Minutes = m /\ (m * Minutes + z.ahead) % Minutes = z.ahead
    <2> DEFINE r == z.ahead
               t == m * Minutes + r
    <2> HIDE DEF r
    <2>1. r \in Nat /\ r < Minutes
      <3>1. r \in 0 .. 1439
        BY <1>1 DEF r
      <3>2. Minutes = 1440
        BY DEF Minutes
      <3> QED
        BY <3>1, <3>2
    <2>2. t = m * Minutes + r
      OBVIOUS
    <2> HIDE DEF t
    <2>3. t \div Minutes = m /\ t % Minutes = r
      BY <1>1, <2>1, <2>2, TimeOfDay
    <2> QED
      BY <2>3 DEF t, r
  <1>5. MonthLater(z, m * Minutes) = Moment(z, later)
    BY <1>3, <1>4 DEF MonthLater, next
  <1>6. Moment(z, later) = later - z.ahead
    BY <1>2 DEF Moment
  <1>7. later - z.ahead = next * Minutes
    <2> DEFINE begins == next * Minutes
    <2>1. begins \in Int
      BY <1>1
    <2> HIDE DEF begins
    <2>2. (begins + z.ahead) - z.ahead = begins
      BY <1>1, <2>1
    <2> QED
      BY <2>2 DEF begins
  <1>8. MonthStart(m) = m
    <2>1. MonthStart(m) \in Nat /\ MonthStart(m) <= m /\ m <= MonthStart(m)
      BY <1>1, MonthStartOf
    <2> QED
      BY <1>1, <2>1
  <1> QED
    BY <1>3, <1>4, <1>5, <1>6, <1>7, <1>8 DEF next, BilledMonth

\* A window that begins with a month asks for the bill of each month that begins in it.
LEMMA BillDatesOf ==
    ASSUME NEW z, SteadilyAhead(z), NEW a \in MonthStarts, NEW b \in Int
    PROVE  BillDates(z, a, b) = {m * Minutes : m \in MonthStarts \cap (a .. b)}
  <1>0. PICK moment : GoneThrough(z, a, b, moment)
    BY BillTurns
  <1> DEFINE N == Cardinality(MonthStarts)
  <1>1. /\ moment[0] = a * Minutes
        /\ \A n \in 0 .. N - 1 : moment[n + 1] = MonthLater(z, moment[n])
        /\ BillDates(z, a, b) = {moment[n] : n \in 0 .. N} \cap (a * Minutes .. (b + 1) * Minutes - 1)
    BY <1>0 DEF GoneThrough
  <1> DEFINE date == [n \in 0 .. N |-> moment[n] \div Minutes]
  <1>2. /\ N \in Nat /\ a \in Nat /\ Rank(a) \in Nat /\ MonthStarts \subseteq Nat
        /\ \A s \in MonthStarts : Rank(s) \in Nat /\ Rank(s) + Cardinality(MonthsBehind(s)) = N
        /\ \A s \in MonthStarts : IsFiniteSet(MonthsBehind(s)) /\ Cardinality(MonthsBehind(s)) \in Nat
    BY FS_CardinalityType, RankOf, BehindFinite, SeedWindowsAssumption
  <1> HIDE DEF N
  <1> DEFINE T == {n \in Nat : n <= N => /\ date[n] \in MonthStarts /\ moment[n] = date[n] * Minutes
                                         /\ Rank(a) + n <= N => Rank(date[n]) = Rank(a) + n}
  <1>3. 0 \in T
    <2>1. 0 \in 0 .. N /\ (a * Minutes) \div Minutes = a
      BY <1>2 DEF Minutes
    <2>2. date[0] = a
      BY <1>1, <2>1
    <2> HIDE DEF date
    <2> QED
      BY <1>1, <1>2, <2>2
  <1>4. ASSUME NEW n \in Nat, n \in T
        PROVE  n + 1 \in T
    <2> SUFFICES ASSUME n + 1 <= N
                 PROVE  /\ date[n + 1] \in MonthStarts /\ moment[n + 1] = date[n + 1] * Minutes
                        /\ Rank(a) + (n + 1) <= N => Rank(date[n + 1]) = Rank(a) + (n + 1)
      OBVIOUS
    <2>1. /\ n \in 0 .. N - 1 /\ date[n] \in MonthStarts /\ moment[n] = date[n] * Minutes
          /\ Rank(a) + (n + 1) <= N => Rank(date[n]) = Rank(a) + n
      BY <1>2, <1>4
    <2>2. date[n + 1] = SameDayNextMonth(date[n]) /\ moment[n + 1] = date[n + 1] * Minutes
      <3> DEFINE d == date[n]
                 e == SameDayNextMonth(d)
      <3>1. d \in MonthStarts /\ moment[n + 1] = MonthLater(z, d * Minutes)
        BY <1>1, <2>1
      <3>2. e \in Nat
        BY <1>2, <3>1, StepsByMonths
      <3>3. moment[n + 1] = e * Minutes
        <4> HIDE DEF d
        <4> QED
          BY <3>1, MonthLaterOf
      <3>4. date[n + 1] = moment[n + 1] \div Minutes
        BY <2>1
      <3> HIDE DEF e, date
      <3>5. (e * Minutes) \div Minutes = e
        BY <3>2 DEF Minutes
      <3> QED
        BY <3>3, <3>4, <3>5 DEF e
    <2> HIDE DEF date
    <2>3. ASSUME Rank(a) + (n + 1) <= N
          PROVE  Rank(date[n + 1]) = Rank(a) + (n + 1)
      <3> DEFINE left == Cardinality(MonthsBehind(date[n]))
      <3>0. Rank(date[n]) = Rank(a) + n /\ Rank(date[n]) + left = N /\ left \in Nat
        BY <1>2, <2>1, <2>3
      <3> HIDE DEF left
      <3>1. left # 0 /\ Rank(date[n]) = Rank(a) + n
        BY <1>2, <2>3, <3>0
      <3> USE DEF left
      <3>2. MonthsBehind(date[n]) # {}
        BY <3>1, FS_EmptySet
      <3>3. Rank(NextMonth(date[n])) = Rank(date[n]) + 1
        BY <2>1, <3>2, RankOf
      <3>4. date[n + 1] = NextMonth(date[n])
        BY <2>1, <2>2, <3>2, StepsByMonths
      <3> QED
        BY <1>2, <3>1, <3>3, <3>4
    <2> QED
      BY <2>1, <2>2, <2>3, StepsByMonths
  <1>5. \A n \in 0 .. N : /\ date[n] \in MonthStarts /\ moment[n] = date[n] * Minutes
                          /\ Rank(a) + n <= N => Rank(date[n]) = Rank(a) + n
    <2> HIDE DEF T, date
    <2>1. Nat \subseteq T
      BY <1>3, <1>4, NatSetInduction
    <2> QED
      BY <1>2, <2>1 DEF T
  <1> HIDE DEF date
  <1>6. ASSUME NEW m \in MonthStarts, a <= m
        PROVE  \E n \in 0 .. N : date[n] = m
    <2> DEFINE n == Rank(m) - Rank(a)
    <2>1. Rank(a) <= Rank(m) /\ Rank(m) \in Nat /\ Rank(m) <= N
      BY <1>2, <1>6, RankOf
    <2>2. n \in 0 .. N /\ Rank(a) + n <= N /\ Rank(a) + n = Rank(m)
      BY <1>2, <2>1
    <2> HIDE DEF n
    <2>3. date[n] \in MonthStarts /\ Rank(date[n]) = Rank(m)
      BY <1>5, <2>2
    <2>4. ~(date[n] < m) /\ ~(m < date[n])
      <3>1. date[n] < m => Rank(date[n]) < Rank(m)
        BY <2>3, RankOf
      <3>2. m < date[n] => Rank(m) < Rank(date[n])
        BY <2>3, RankOf
      <3> QED
        BY <2>1, <2>3, <3>1, <3>2
    <2>5. date[n] \in Nat /\ m \in Nat
      BY <1>2, <2>3
    <2>6. date[n] = m
      BY <2>4, <2>5
    <2> QED
      BY <2>2, <2>6
  <1>7. ASSUME NEW m \in MonthStarts
        PROVE  m * Minutes \in a * Minutes .. (b + 1) * Minutes - 1 <=> m \in a .. b
    BY <1>2 DEF Minutes
  <1>8. ASSUME NEW t \in BillDates(z, a, b)
        PROVE  t \in {m * Minutes : m \in MonthStarts \cap (a .. b)}
    <2>1. PICK n \in 0 .. N : t = moment[n] /\ t \in a * Minutes .. (b + 1) * Minutes - 1
      BY <1>1
    <2>2. t = date[n] * Minutes /\ date[n] \in MonthStarts
      BY <1>5, <2>1
    <2>3. date[n] \in a .. b
      BY <1>7, <2>1, <2>2
    <2> QED
      BY <2>2, <2>3
  <1>9. ASSUME NEW m \in MonthStarts \cap (a .. b)
        PROVE  m * Minutes \in BillDates(z, a, b)
    <2>1. a <= m
      BY <1>2
    <2>2. PICK n \in 0 .. N : date[n] = m
      BY <1>6, <2>1
    <2>3. moment[n] = m * Minutes
      BY <1>5, <2>2
    <2>4. m * Minutes \in a * Minutes .. (b + 1) * Minutes - 1
      BY <1>7
    <2> QED
      BY <1>1, <2>3, <2>4
  <1> QED
    BY <1>8, <1>9

\* No day is in two of the windows that are fetched.
LEMMA WindowsApart ==
    ASSUME NEW missing, MissingPeriods("month", missing),
           NEW w \in FetchWindows("month", missing), NEW v \in FetchWindows("month", missing),
           NEW d \in Int, d \in w[1] .. w[2], d \in v[1] .. v[2]
    PROVE  w = v
  <1> DEFINE firsts == {p \in missing : StartOf("month", p - 1) \notin missing}
             end(p) == EndOf("month", Min({q \in RunEnds("month", missing) : q >= p}))
  <1>1. ASSUME NEW u \in FetchWindows("month", missing)
        PROVE  u[1] \in firsts /\ u = <<u[1], end(u[1])>>
    <2>1. PICK run \in Runs("month", missing) : u = <<run[1], EndOf("month", run[2])>>
      BY DEF FetchWindows
    <2>2. PICK p \in firsts : run = <<p, Min({q \in RunEnds("month", missing) : q >= p})>>
      BY DEF Runs, RunEnds
    <2>3. run[1] = p /\ EndOf("month", run[2]) = end(p)
      BY <2>2
    <2> HIDE DEF end, firsts
    <2> QED
      BY <2>1, <2>3
  <1>2. \A u \in FetchWindows("month", missing) :
            /\ u[1] \in Int /\ u[2] \in Int
            /\ \A e \in u[1] .. u[2] : StartOf("month", e) \in missing
    BY FetchedMissing DEF MissingPeriods
  <1> HIDE DEF end
  <1>3. ASSUME NEW x \in FetchWindows("month", missing), NEW y \in FetchWindows("month", missing),
               d \in x[1] .. x[2], d \in y[1] .. y[2], x[1] < y[1]
        PROVE  FALSE
    <2>1. y[1] - 1 \in x[1] .. x[2]
      BY <1>2, <1>3
    <2>2. StartOf("month", y[1] - 1) \in missing
      BY <1>2, <2>1
    <2> QED
      BY <1>1, <2>2
  <1>4. w[1] = v[1]
    BY <1>2, <1>3
  <1> QED
    BY <1>1, <1>4

\* By months, the windows fetched ask for the bill of each missing month in one window, and for no other.
LEMMA MonthsAsked ==
    ASSUME RangeInv, currentDate <= endDate, groupBy = "month", SteadilyAhead(zone), NEW m \in MonthStarts
    PROVE  LET asked == UNION {{<<w, BilledMonth(zone, t)>> : t \in BillDates(zone, w[1], w[2])} :
                                  w \in Windows}
           IN Cardinality({x \in asked : x[2] = m}) = IF m \in Missing THEN 1 ELSE 0
  <1> DEFINE asked == UNION {{<<w, BilledMonth(zone, t)>> : t \in BillDates(zone, w[1], w[2])} :
                                w \in Windows}
             of == {x \in asked : x[2] = m}
  <1>1. MissingPeriods("month", Missing) /\ Windows = FetchWindows("month", Missing)
    BY MissingOf DEF Windows
  <1>2. /\ m \in Nat /\ \A s \in MonthStarts : s \in Nat /\ MonthStart(s) = s
    <2>1. ASSUME NEW s \in MonthStarts
          PROVE  s \in Nat /\ MonthStart(s) = s
      <3>1. s \in Nat
        BY SeedWindowsAssumption
      <3>2. MonthStart(s) \in Nat /\ MonthStart(s) <= s /\ s <= MonthStart(s)
        BY <3>1, MonthStartOf
      <3> QED
        BY <3>1, <3>2
    <2> QED
      BY <2>1
  <1>3. ASSUME NEW w \in Windows
        PROVE  /\ w[1] \in MonthStarts /\ w[2] \in Int
               /\ \A d \in w[1] .. w[2] : StartOf("month", d) \in Missing
               /\ BillDates(zone, w[1], w[2]) = {d * Minutes : d \in MonthStarts \cap (w[1] .. w[2])}
    <2>1. /\ w[1] \in Missing /\ w[2] \in Int
          /\ \A d \in w[1] .. w[2] : StartOf("month", d) \in Missing
      BY <1>1, FetchedMissing
    <2>2. w[1] \in Nat /\ MonthStart(w[1]) = w[1]
      BY <1>1, <2>1 DEF MissingPeriods, Begins, Datable, StartOf
    <2>3. w[1] \in MonthStarts
      BY <2>2, MonthStartOf
    <2> QED
      BY <2>1, <2>3, BillDatesOf
  <1>4. \A x : x \in of <=> \E w \in Windows : x = <<w, m>> /\ m \in w[1] .. w[2]
    <2> TAKE x
    <2>1. ASSUME x \in of
          PROVE  \E w \in Windows : x = <<w, m>> /\ m \in w[1] .. w[2]
      <3>1. x \in asked /\ x[2] = m
        BY <2>1
      <3>2. PICK w \in Windows : x \in {<<w, BilledMonth(zone, t)>> : t \in BillDates(zone, w[1], w[2])}
        BY <3>1
      <3>3. PICK t \in BillDates(zone, w[1], w[2]) : x = <<w, BilledMonth(zone, t)>>
        BY <3>2
      <3>4. PICK d \in MonthStarts \cap (w[1] .. w[2]) : t = d * Minutes
        BY <1>3
      <3>5. BilledMonth(zone, t) = d
        BY <3>4, MonthLaterOf
      <3>6. d = m
        BY <3>1, <3>3, <3>5
      <3> QED
        BY <3>3, <3>4, <3>5, <3>6
    <2>2. ASSUME NEW w \in Windows, x = <<w, m>>, m \in w[1] .. w[2]
          PROVE  x \in of
      <3>1. m * Minutes \in BillDates(zone, w[1], w[2]) /\ BilledMonth(zone, m * Minutes) = m
        BY <1>3, <2>2, MonthLaterOf
      <3>2. x \in {<<w, BilledMonth(zone, t)>> : t \in BillDates(zone, w[1], w[2])}
        BY <2>2, <3>1
      <3> QED
        BY <2>2, <3>2
    <2> QED
      BY <2>1, <2>2
  <1> HIDE DEF asked, of
  <1>5. CASE m \notin Missing
    <2>1. of = {}
      <3> SUFFICES ASSUME NEW x \in of PROVE FALSE
        OBVIOUS
      <3>1. PICK w \in Windows : m \in w[1] .. w[2]
        BY <1>4
      <3>2. StartOf("month", m) \in Missing
        BY <1>3, <3>1
      <3> QED
        BY <1>2, <1>5, <3>2 DEF StartOf
    <2>2. Cardinality(of) = 0
      BY <2>1, FS_EmptySet
    <2> QED
      BY <1>5, <2>2 DEF of, asked
  <1>6. CASE m \in Missing
    <2>1. Datable("month", m) /\ StartOf("month", m) = m
      BY <1>2 DEF Datable, StartOf
    <2>2. PICK w \in Windows : m \in w[1] .. w[2]
      BY <1>1, <1>6, <2>1, MissingFetched
    <2>3. \A v \in Windows : m \in v[1] .. v[2] => v = w
      BY <1>1, <1>2, <2>2, WindowsApart
    <2>4. of = {<<w, m>>}
      BY <1>4, <2>2, <2>3
    <2>5. Cardinality(of) = 1
      BY <2>4, FS_Singleton
    <2> QED
      BY <1>6, <2>5 DEF of, asked
  <1> QED
    BY <1>5, <1>6

(* By months, and on a host whose clock is steadily ahead of UTC, Alibaba's *)
(* bill of every cached month was asked for exactly once, and no other      *)
(* month's, however the ranges were split and repeated:                     *)
(* the windows that are fetched hold each missing month in one of them      *)
(* (getMissingDataRequests), and getDates steps from month to month, at a   *)
(* time of the host's day at which it is the same day in UTC                *)
(* (AliCostAndUsageService.ts).                                             *)
THEOREM MonthsBilledOnceHolds == Spec => []MonthsBilledOnce
  <1>1. Init => MonthsBilledOnce
    BY DEF Init, MonthsBilledOnce
  <1>2. ASSUME RangeInv, TypeOK, MonthsBilledOnce, [Next]_vars
        PROVE  MonthsBilledOnce'
    <2>1. CASE SeedWindow
      <3> SUFFICES ASSUME groupBy = "month", SteadilyAhead(zone), NEW m \in MonthStarts
                   PROVE  bills'[m] = IF m \in DOMAIN cached' THEN 1 ELSE 0
        BY <2>1, TurnOf DEF MonthsBilledOnce
      <3>1. currentDate <= endDate /\ bills' = BillsAfter(Windows) /\ DOMAIN cached' = DOMAIN cached \cup Missing
        BY <2>1, TurnOf
      <3> DEFINE asked == UNION {{<<w, BilledMonth(zone, t)>> : t \in BillDates(zone, w[1], w[2])} :
                                    w \in Windows}
                 more == Cardinality({x \in asked : x[2] = m})
      <3>2. bills'[m] = Min({2, bills[m] + more})
        BY <3>1 DEF BillsAfter
      <3>3. more = IF m \in Missing THEN 1 ELSE 0
        BY <1>2, <3>1, MonthsAsked
      <3>4. bills[m] = IF m \in DOMAIN cached THEN 1 ELSE 0
        BY <1>2 DEF MonthsBilledOnce
      <3> HIDE DEF more
      <3>5. ~(m \in Missing /\ m \in DOMAIN cached)
        BY DEF Missing
      <3>6. /\ bills[m] + more \in {0, 1}
            /\ bills[m] + more = IF m \in DOMAIN cached' THEN 1 ELSE 0
        BY <3>1, <3>3, <3>4, <3>5
      <3> DEFINE c == bills[m] + more
      <3>7. c \in Nat /\ c < 2
        BY <3>6
      <3> HIDE DEF c
      <3>8. Min({2, c}) = c
        <4>1. /\ Min({2, c}) \in {2, c} /\ Min({2, c}) <= 2 /\ Min({2, c}) <= c
          <5>1. {2, c} \in SUBSET Int /\ IsFiniteSet({2, c}) /\ {2, c} # {}
            <6>1. {2, c} = {2} \cup {c} /\ IsFiniteSet({2}) /\ IsFiniteSet({c})
              BY FS_Singleton
            <6>2. IsFiniteSet({2, c})
              BY <6>1, FS_Union
            <6> QED
              BY <3>7, <6>2
          <5> QED
            BY <5>1, MinOf
        <4> QED
          BY <3>7, <4>1
      <3> QED
        BY <3>2, <3>6, <3>8 DEF c
    <2>2. CASE SeedAgain \/ UNCHANGED vars
      BY <1>2, <2>2 DEF SeedAgain, vars, MonthsBilledOnce
    <2> QED
      BY <1>2, <2>1, <2>2 DEF Next
  <1> QED
    BY <1>1, <1>2, AlwaysRange, TypeCorrect, PTL DEF Spec
================================================================================
