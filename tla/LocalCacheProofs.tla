---------------------------- MODULE LocalCacheProofs ----------------------------
(***************************************************************************)
(* Theorems about LocalCache, for every number of requests, groupings and  *)
(* dates, every size of the entries and of what is read or written at a    *)
(* time, and every set of faults.                                          *)
(***************************************************************************)
EXTENDS LocalCache, ListManagerProofs, WellFoundedInduction

-----------------------------------------------------------------------------
(* Induction over the natural numbers, said with sets.                      *)

LEMMA LeastNumber ==
    ASSUME NEW T \in SUBSET Nat, T # {}
    PROVE  \E n \in T : \A m \in T : n <= m
  <1> DEFINE less == OpToRel(<, Nat)
  <1>1. IsWellFoundedOn(less, Nat)
    BY NatLessThanWellFounded
  <1>2. \E x \in T : \A y \in T : ~(<<y, x>> \in less)
    BY <1>1, WFMin
  <1>3. \A x, y \in Nat : <<y, x>> \in less <=> y < x
    BY DEF OpToRel
  <1> HIDE DEF less
  <1>4. PICK x \in T : \A y \in T : ~(<<y, x>> \in less)
    BY <1>2
  <1>5. \A y \in T : ~(y < x)
    BY <1>3, <1>4
  <1> QED
    BY <1>5

LEMMA NatSetInduction ==
    ASSUME NEW T, 0 \in T, \A n \in Nat : n \in T => n + 1 \in T
    PROVE  Nat \subseteq T
  <1> SUFFICES ASSUME NEW k \in Nat, k \notin T PROVE FALSE
    OBVIOUS
  <1> DEFINE others == {m \in Nat : m \notin T}
  <1>1. PICK n \in others : \A m \in others : n <= m
    BY LeastNumber
  <1>2. n # 0
    BY <1>1
  <1>3. n - 1 \in Nat /\ n - 1 \in T
    BY <1>1, <1>2
  <1> QED
    BY <1>1, <1>3

-----------------------------------------------------------------------------
(* mergeEstimates.                                                          *)

\* A list with one more element at its end.
LEMMA AppendElements ==
    ASSUME NEW S, NEW s \in Seq(S), NEW e \in S
    PROVE  /\ s \o <<e>> \in Seq(S) /\ Len(s \o <<e>>) = Len(s) + 1
           /\ Range(s \o <<e>>) = Range(s) \cup {e}
           /\ (s \o <<e>>)[Len(s) + 1] = e
           /\ \A k \in 1 .. Len(s) : (s \o <<e>>)[k] = s[k]
  <1>1. <<e>> \in Seq(S) /\ Range(<<e>>) = {e} /\ Len(<<e>>) = 1 /\ <<e>>[1] = e
    BY DEF Range
  <1> DEFINE last == <<e>>
  <1>2. Range(s \o last) = Range(s) \cup Range(last)
    <2>1. last \in Seq(S)
      BY <1>1
    <2> HIDE DEF last
    <2> QED
      BY <2>1, ConcatElements
  <1>3. /\ s \o <<e>> \in Seq(S) /\ Len(s \o <<e>>) = Len(s) + 1
        /\ \A k \in 1 .. Len(s) + 1 : (s \o <<e>>)[k] = IF k <= Len(s) THEN s[k] ELSE <<e>>[k - Len(s)]
    BY <1>1, ConcatProperties
  <1>4. Len(s) \in Nat
    OBVIOUS
  <1> QED
    BY <1>1, <1>2, <1>3, <1>4

\* The turns of mergeEstimates.
LEMMA MergeTurns ==
    ASSUME NEW one \in Seq(Entry), NEW two \in Seq(Entry)
    PROVE  \E turn :
               /\ turn[0] = MergeStart
               /\ \A n \in 0 .. Len(one) + Len(two) - 1 : turn[n + 1] = MergeTurn(one, two, turn[n])
               /\ MergeEstimates(one, two) = turn[Len(one) + Len(two)].merged
  <1> DEFINE N == Len(one) + Len(two)
             Turns(f, m) == f = [n \in 0 .. m |->
                                    IF n = 0 THEN MergeStart ELSE MergeTurn(one, two, f[n - 1])]
             T == {m \in Nat : \E f : Turns(f, m)}
  <1>1. N \in Nat
    OBVIOUS
  <1>2. 0 \in T
    <2> DEFINE f == [n \in 0 .. 0 |-> MergeStart]
    <2>1. Turns(f, 0)
      OBVIOUS
    <2> QED
      BY <2>1
  <1>3. ASSUME NEW m \in Nat, m \in T
        PROVE  m + 1 \in T
    <2>1. PICK f : Turns(f, m)
      BY <1>3
    <2> DEFINE next == MergeTurn(one, two, f[m])
               g == [n \in 0 .. m + 1 |-> IF n = m + 1 THEN next ELSE f[n]]
    <2>2. \A n \in 0 .. m : f[n] = IF n = 0 THEN MergeStart ELSE MergeTurn(one, two, f[n - 1])
      BY <2>1
    <2>3. \A n \in 0 .. m + 1 :
              g[n] = IF n = 0 THEN MergeStart ELSE MergeTurn(one, two, g[n - 1])
      <3> TAKE n \in 0 .. m + 1
      <3>1. CASE n = m + 1
        <4>1. g[n] = next /\ g[n - 1] = f[m] /\ n # 0
          BY <3>1
        <4> QED
          BY <3>1, <4>1
      <3>2. CASE n # m + 1
        <4>1. g[n] = f[n] /\ n \in 0 .. m /\ (n # 0 => g[n - 1] = f[n - 1])
          BY <3>2
        <4> QED
          BY <2>2, <4>1
      <3> QED
        BY <3>1, <3>2
    <2>4. Turns(g, m + 1)
      <3>1. g = [n \in 0 .. m + 1 |-> g[n]]
        OBVIOUS
      <3> HIDE DEF g
      <3> QED
        BY <2>3, <3>1
    <2>5. m + 1 \in Nat /\ \E h : Turns(h, m + 1)
      <3> HIDE DEF Turns, g
      <3> QED
        BY <2>4
    <2> HIDE DEF Turns
    <2> QED
      BY <2>5
  <1>4. \E f : Turns(f, N)
    <2> HIDE DEF T
    <2>1. N \in T
      BY <1>1, <1>2, <1>3, NatSetInduction
    <2> QED
      BY <2>1 DEF T
  <1> DEFINE turn == CHOOSE f : Turns(f, N)
  <1>5. Turns(turn, N)
    BY <1>4
  <1>6. MergeEstimates(one, two) = turn[N].merged
    BY DEF MergeEstimates
  <1> HIDE DEF turn
  <1>7. turn[0] = MergeStart
    BY <1>1, <1>5
  <1>8. \A n \in 0 .. N - 1 : turn[n + 1] = MergeTurn(one, two, turn[n])
    <2> TAKE n \in 0 .. N - 1
    <2>1. n + 1 \in 0 .. N /\ n + 1 # 0 /\ n + 1 - 1 = n
      BY <1>1
    <2>2. turn[n + 1] = IF n + 1 = 0 THEN MergeStart ELSE MergeTurn(one, two, turn[n + 1 - 1])
      BY <1>5, <2>1
    <2> QED
      BY <2>1, <2>2
  <1> QED
    BY <1>6, <1>7, <1>8

\* The entries of a list come one after the other in time.
Sorted(list) == \A k, l \in DOMAIN list : k < l => Timestamp(list[k]) < Timestamp(list[l])

LEMMA AppendSorted ==
    ASSUME NEW s \in Seq(Entry), NEW e \in Entry, Sorted(s),
           \A f \in Range(s) : Timestamp(f) < Timestamp(e)
    PROVE  Sorted(s \o <<e>>)
  <1> DEFINE t == s \o <<e>>  n == Len(s)
  <1>1. /\ t \in Seq(Entry) /\ Len(t) = n + 1 /\ t[n + 1] = e
        /\ \A k \in 1 .. n : t[k] = s[k]
    BY AppendElements
  <1>2. n \in Nat /\ DOMAIN s = 1 .. n /\ DOMAIN t = 1 .. n + 1
    BY <1>1, LenProperties
  <1> HIDE DEF t, n
  <1>3. ASSUME NEW k \in 1 .. n + 1, NEW l \in 1 .. n + 1, k < l
        PROVE  Timestamp(t[k]) < Timestamp(t[l])
    <2>1. k \in 1 .. n /\ t[k] = s[k] /\ s[k] \in Range(s)
      BY <1>1, <1>2, <1>3 DEF Range
    <2>2. CASE l = n + 1
      BY <1>1, <2>1, <2>2
    <2>3. CASE l # n + 1
      <3>1. l \in 1 .. n /\ t[l] = s[l]
        BY <1>1, <1>2, <2>3
      <3> QED
        BY <1>2, <1>3, <2>1, <3>1 DEF Sorted
    <2> QED
      BY <2>2, <2>3
  <1> QED
    BY <1>2, <1>3 DEF Sorted, t

(* What holds after n turns: the entries taken are those before i and j, but *)
(* for the dates both lists have, and come before those still to be taken.   *)
MergeInv(one, two, n, s) ==
    /\ s.i \in 1 .. Len(one) + 1 /\ s.j \in 1 .. Len(two) + 1 /\ n <= s.i + s.j - 2
    /\ s.merged \in Seq(Entry)
    /\ Range(s.merged) \subseteq {one[k] : k \in 1 .. s.i - 1} \cup {two[k] : k \in 1 .. s.j - 1}
    /\ \A k \in 1 .. s.i - 1 : one[k] \in Range(s.merged)
    /\ \A k \in 1 .. s.j - 1 :
          two[k] \in Range(s.merged) \/ \E l \in DOMAIN one : Timestamp(one[l]) = Timestamp(two[k])
    /\ Sorted(one) /\ Sorted(two) =>
          /\ Sorted(s.merged)
          /\ \A e \in Range(s.merged) :
                /\ s.i <= Len(one) => Timestamp(e) < Timestamp(one[s.i])
                /\ s.j <= Len(two) => Timestamp(e) < Timestamp(two[s.j])

\* One more of L entries is taken: the counts of both lists after it.
LEMMA TakeOne ==
    ASSUME NEW L \in Nat, NEW n \in Int, NEW x \in 1 .. L, NEW y \in Int, n <= x + y - 2
    PROVE  /\ x + 1 \in 1 .. L + 1
           /\ n + 1 <= (x + 1) + y - 2 /\ n + 1 <= (x + 1) + (y + 1) - 2
           /\ n + 1 <= y + (x + 1) - 2
  OBVIOUS

\* An index before the next one is the last, or before the last.
LEMMA LastOrBefore ==
    ASSUME NEW x \in Int, NEW k \in 1 .. (x + 1) - 1
    PROVE  k \in 1 .. x - 1 \/ k = x
  OBVIOUS

LEMMA MergeTurnKeeps ==
    ASSUME NEW one \in Seq(Entry), NEW two \in Seq(Entry),
           NEW n \in 0 .. Len(one) + Len(two) - 1, NEW s, MergeInv(one, two, n, s)
    PROVE  MergeInv(one, two, n + 1, MergeTurn(one, two, s))
  <1> DEFINE first == s.i <= Len(one)
                        /\ (s.j <= Len(two) => Timestamp(one[s.i]) <= Timestamp(two[s.j]))
             second == s.j <= Len(two)
                        /\ (s.i <= Len(one) => Timestamp(two[s.j]) <= Timestamp(one[s.i]))
             t == MergeTurn(one, two, s)
             L1 == Len(one)  L2 == Len(two)
  <1>1. /\ L1 \in Nat /\ L2 \in Nat /\ DOMAIN one = 1 .. L1 /\ DOMAIN two = 1 .. L2
        /\ \A k \in 1 .. L1 : one[k] \in Entry /\ Timestamp(one[k]) \in Int
        /\ \A k \in 1 .. L2 : two[k] \in Entry /\ Timestamp(two[k]) \in Int
    BY LenProperties, ElementOfSeq, TimestampType
  <1>2. /\ s.i \in 1 .. L1 + 1 /\ s.j \in 1 .. L2 + 1 /\ n <= s.i + s.j - 2
        /\ s.merged \in Seq(Entry)
        /\ Range(s.merged) \subseteq {one[k] : k \in 1 .. s.i - 1} \cup {two[k] : k \in 1 .. s.j - 1}
        /\ \A k \in 1 .. s.i - 1 : one[k] \in Range(s.merged)
        /\ \A k \in 1 .. s.j - 1 :
              two[k] \in Range(s.merged) \/ \E l \in 1 .. L1 : Timestamp(one[l]) = Timestamp(two[k])
    BY <1>1 DEF MergeInv
  <1>3. /\ t.i = IF first THEN s.i + 1 ELSE s.i
        /\ t.j = IF second THEN s.j + 1 ELSE s.j
        /\ t.merged = s.merged \o (IF first THEN <<one[s.i]>> ELSE IF second THEN <<two[s.j]>> ELSE <<>>)
    BY DEF MergeTurn
  <1>4. ASSUME Sorted(one), Sorted(two)
        PROVE  /\ Sorted(s.merged)
               /\ \A e \in Range(s.merged) :
                     /\ s.i <= L1 => Timestamp(e) < Timestamp(one[s.i])
                     /\ s.j <= L2 => Timestamp(e) < Timestamp(two[s.j])
               /\ \A k \in 1 .. L1 : k + 1 <= L1 => Timestamp(one[k]) < Timestamp(one[k + 1])
               /\ \A k \in 1 .. L2 : k + 1 <= L2 => Timestamp(two[k]) < Timestamp(two[k + 1])
    <2>1. /\ Sorted(s.merged)
          /\ \A e \in Range(s.merged) :
                /\ s.i <= L1 => Timestamp(e) < Timestamp(one[s.i])
                /\ s.j <= L2 => Timestamp(e) < Timestamp(two[s.j])
      BY <1>4 DEF MergeInv
    <2>2. \A k \in 1 .. L1 : k + 1 <= L1 => Timestamp(one[k]) < Timestamp(one[k + 1])
      <3> HIDE DEF L1, L2
      <3> TAKE k \in 1 .. L1
      <3>1. k + 1 <= L1 => k + 1 \in 1 .. L1 /\ k < k + 1
        BY <1>1
      <3> QED
        BY <1>1, <1>4, <3>1 DEF Sorted
    <2>3. \A k \in 1 .. L2 : k + 1 <= L2 => Timestamp(two[k]) < Timestamp(two[k + 1])
      <3> HIDE DEF L1, L2
      <3> TAKE k \in 1 .. L2
      <3>1. k + 1 <= L2 => k + 1 \in 1 .. L2 /\ k < k + 1
        BY <1>1
      <3> QED
        BY <1>1, <1>4, <3>1 DEF Sorted
    <2> QED
      BY <2>1, <2>2, <2>3
  <1>5. \A e \in Range(s.merged) : e \in Entry /\ Timestamp(e) \in Int
    BY <1>2, TimestampType DEF Range
  <1>6. first => s.i \in 1 .. L1
    BY <1>1, <1>2
  <1>7. second => s.j \in 1 .. L2
    BY <1>1, <1>2
  <1> HIDE DEF t
  <1>8. CASE ~first /\ ~second
    <2>1. ~(s.i <= L1) /\ ~(s.j <= L2)
      <3>1. s.i <= L1 => s.i \in 1 .. L1
        BY <1>1, <1>2
      <3>2. s.j <= L2 => s.j \in 1 .. L2
        BY <1>1, <1>2
      <3> QED
        BY <1>1, <1>8, <3>1, <3>2
    <2>2. t.i = s.i /\ t.j = s.j /\ t.merged = s.merged \o <<>>
      BY <1>3, <1>8
    <2>3. t.merged = s.merged
      BY <1>2, <2>2, ConcatEmptySeq
    <2>4. n + 1 <= s.i + s.j - 2
      BY <1>1, <1>2, <2>1
    <2>5. Sorted(one) /\ Sorted(two) =>
              /\ Sorted(s.merged)
              /\ \A e \in Range(s.merged) :
                    /\ s.i <= Len(one) => Timestamp(e) < Timestamp(one[s.i])
                    /\ s.j <= Len(two) => Timestamp(e) < Timestamp(two[s.j])
      BY <1>4
    <2>6. /\ t.i \in 1 .. Len(one) + 1 /\ t.j \in 1 .. Len(two) + 1
          /\ n + 1 <= t.i + t.j - 2 /\ t.merged \in Seq(Entry)
      BY <1>2, <2>2, <2>3, <2>4
    <2>7. DOMAIN one = 1 .. L1
      BY <1>1
    <2>8. /\ Range(t.merged) \subseteq {one[k] : k \in 1 .. t.i - 1} \cup {two[k] : k \in 1 .. t.j - 1}
          /\ \A k \in 1 .. t.i - 1 : one[k] \in Range(t.merged)
          /\ \A k \in 1 .. t.j - 1 :
              two[k] \in Range(t.merged) \/ \E l \in DOMAIN one : Timestamp(one[l]) = Timestamp(two[k])
      <3> HIDE DEF L1, L2
      <3> QED
        BY <1>2, <2>2, <2>3, <2>7
    <2> QED
      BY <2>2, <2>3, <2>5, <2>6, <2>8 DEF MergeInv, t
  <1>9. CASE first
    <2> DEFINE e == one[s.i]
    <2>1. s.i \in 1 .. L1 /\ e \in Entry /\ Timestamp(e) \in Int
      BY <1>1, <1>6, <1>9
    <2>2. t.i = s.i + 1 /\ t.merged = s.merged \o <<e>>
      BY <1>3, <1>9
    <2> HIDE DEF e
    <2>3. t.merged \in Seq(Entry) /\ Range(t.merged) = Range(s.merged) \cup {e}
      <3>1. s.merged \in Seq(Entry) /\ e \in Entry
        BY <1>2, <2>1
      <3>2. s.merged \o <<e>> \in Seq(Entry) /\ Range(s.merged \o <<e>>) = Range(s.merged) \cup {e}
        BY <3>1, AppendElements
      <3> QED
        BY <2>2, <3>2
    <2>4. t.j \in 1 .. L2 + 1 /\ t.j \in {s.j, s.j + 1}
      <3>1. CASE second
        <4>1. t.j = s.j + 1 /\ s.j \in 1 .. L2
          BY <1>3, <1>7, <3>1
        <4> HIDE DEF L1, L2, second
        <4> QED
          BY <1>1, <4>1
      <3>2. CASE ~second
        BY <1>2, <1>3, <3>2
      <3> QED
        BY <3>1, <3>2
    <2>5. t.i \in 1 .. L1 + 1 /\ n + 1 <= t.i + t.j - 2
      <3> HIDE DEF L1, L2
      <3>1. L1 \in Nat /\ n \in Int /\ s.i \in 1 .. L1 /\ s.j \in Int /\ n <= s.i + s.j - 2
        BY <1>1, <1>2, <2>1
      <3>2. t.i = s.i + 1 /\ (t.j = s.j \/ t.j = s.j + 1)
        BY <2>2, <2>4
      <3>3. /\ s.i + 1 \in 1 .. L1 + 1
            /\ n + 1 <= (s.i + 1) + s.j - 2 /\ n + 1 <= (s.i + 1) + (s.j + 1) - 2
        BY <3>1, TakeOne
      <3> QED
        BY <3>2, <3>3
    <2>6. t.j = s.j + 1 => s.j \in 1 .. L2 /\ Timestamp(two[s.j]) = Timestamp(e)
      <3> SUFFICES ASSUME t.j = s.j + 1 PROVE s.j \in 1 .. L2 /\ Timestamp(two[s.j]) = Timestamp(e)
        OBVIOUS
      <3>1. second
        BY <1>2, <1>3
      <3> QED
        BY <1>1, <1>7, <1>9, <2>1, <3>1 DEF e
    <2> HIDE DEF L1, L2
    <2>7. Range(t.merged) \subseteq {one[k] : k \in 1 .. t.i - 1} \cup {two[k] : k \in 1 .. t.j - 1}
      <3> HIDE DEF MergeTurn
      <3>0. s.i \in Int /\ s.j \in Int /\ 1 <= s.i /\ t.i = s.i + 1
        BY <1>1, <1>2, <2>2
      <3>1. s.i \in 1 .. t.i - 1
        BY <3>0
      <3>2. \A k \in 1 .. s.i - 1 : k \in 1 .. t.i - 1
        BY <3>0
      <3>3. \A k \in 1 .. s.j - 1 : k \in 1 .. t.j - 1
        BY <3>0, <2>4
      <3> QED
        BY <1>2, <2>3, <3>1, <3>2, <3>3 DEF e
    <2>8. \A k \in 1 .. t.i - 1 : one[k] \in Range(t.merged)
      <3> TAKE k \in 1 .. t.i - 1
      <3>1. k \in 1 .. s.i - 1 \/ k = s.i
        BY <1>1, <1>2, <2>2
      <3> QED
        BY <1>2, <2>3, <3>1 DEF e
    <2>9. \A k \in 1 .. t.j - 1 :
              two[k] \in Range(t.merged) \/ \E l \in 1 .. L1 : Timestamp(one[l]) = Timestamp(two[k])
      <3> TAKE k \in 1 .. t.j - 1
      <3>1. k \in 1 .. s.j - 1 \/ (k = s.j /\ t.j = s.j + 1)
        <4>1. s.j \in Int /\ (t.j = s.j \/ t.j = s.j + 1)
          BY <1>2, <2>4
        <4>2. CASE t.j = s.j
          BY <4>2
        <4>3. CASE t.j = s.j + 1
          BY <4>1, <4>3, LastOrBefore
        <4> QED
          BY <4>1, <4>2, <4>3
      <3> QED
        BY <1>2, <2>1, <2>3, <2>6, <3>1 DEF e
    <2>10. ASSUME Sorted(one), Sorted(two)
           PROVE  /\ Sorted(t.merged)
                  /\ \A f \in Range(t.merged) :
                        /\ t.i <= L1 => Timestamp(f) < Timestamp(one[t.i])
                        /\ t.j <= L2 => Timestamp(f) < Timestamp(two[t.j])
      <3>1. \A f \in Range(s.merged) : Timestamp(f) < Timestamp(e)
        BY <1>1, <1>2, <1>4, <2>1, <2>10 DEF e
      <3>2. Sorted(t.merged)
        BY <1>2, <1>4, <2>1, <2>2, <2>10, <3>1, AppendSorted
      <3>3. t.i <= L1 => t.i \in 1 .. L1 /\ Timestamp(e) < Timestamp(one[t.i])
        BY <1>1, <1>4, <2>1, <2>2, <2>10 DEF e
      <3>4. t.j <= L2 => t.j \in 1 .. L2 /\ Timestamp(e) < Timestamp(two[t.j])
        <4> SUFFICES ASSUME t.j <= L2 PROVE t.j \in 1 .. L2 /\ Timestamp(e) < Timestamp(two[t.j])
          OBVIOUS
        <4>1. t.j \in 1 .. L2
          BY <1>1, <2>4
        <4>2. CASE t.j = s.j + 1
          BY <1>1, <1>4, <2>1, <2>6, <2>10, <4>1, <4>2
        <4>3. CASE t.j = s.j
          <5>1. ~second
            BY <1>1, <1>2, <1>3, <4>3
          <5>2. Timestamp(two[s.j]) \in Int
            BY <1>1, <4>1, <4>3
          <5> QED
            BY <1>9, <2>1, <4>1, <4>3, <5>1, <5>2 DEF e, L1, L2
        <4> QED
          BY <2>4, <4>2, <4>3
      <3> QED
        BY <1>1, <1>5, <2>1, <2>3, <3>1, <3>2, <3>3, <3>4
    <2> QED
      BY <1>1, <2>3, <2>4, <2>5, <2>7, <2>8, <2>9, <2>10 DEF MergeInv, L1, L2, t
  <1>10. CASE ~first /\ second
    <2> DEFINE e == two[s.j]
    <2>1. s.j \in 1 .. L2 /\ e \in Entry /\ Timestamp(e) \in Int
      BY <1>1, <1>7, <1>10
    <2>2. t.i = s.i /\ t.j = s.j + 1 /\ t.merged = s.merged \o <<e>>
      BY <1>3, <1>10
    <2> HIDE DEF e
    <2>3. t.merged \in Seq(Entry) /\ Range(t.merged) = Range(s.merged) \cup {e}
      <3>1. s.merged \in Seq(Entry) /\ e \in Entry
        BY <1>2, <2>1
      <3>2. s.merged \o <<e>> \in Seq(Entry) /\ Range(s.merged \o <<e>>) = Range(s.merged) \cup {e}
        BY <3>1, AppendElements
      <3> QED
        BY <2>2, <3>2
    <2>4. t.i \in 1 .. L1 + 1 /\ t.j \in 1 .. L2 + 1 /\ n + 1 <= t.i + t.j - 2
      <3> HIDE DEF L1, L2
      <3>0. L2 \in Nat /\ s.j \in 1 .. L2
        BY <1>1, <2>1
      <3>1. n \in Int /\ s.i \in Int /\ n <= s.j + s.i - 2
        BY <1>2, <3>0
      <3>2. /\ s.j + 1 \in 1 .. L2 + 1
            /\ n + 1 <= s.i + (s.j + 1) - 2
        BY <3>0, <3>1, TakeOne
      <3>3. s.i \in 1 .. L1 + 1
        BY <1>2
      <3> QED
        BY <2>2, <3>2, <3>3
    <2>5. s.i <= L1 => s.i \in 1 .. L1 /\ Timestamp(e) < Timestamp(one[s.i])
      <3> SUFFICES ASSUME s.i <= L1 PROVE s.i \in 1 .. L1 /\ Timestamp(e) < Timestamp(one[s.i])
        OBVIOUS
      <3>1. s.i \in 1 .. L1 /\ s.j \in 1 .. L2
        BY <1>2, <2>1
      <3>2. /\ Timestamp(one[s.i]) \in Int /\ Timestamp(two[s.j]) \in Int
            /\ Timestamp(two[s.j]) < Timestamp(one[s.i])
        BY <1>1, <1>10, <3>1
      <3> QED
        BY <3>1, <3>2 DEF e
    <2> HIDE DEF L1, L2
    <2>6. Range(t.merged) \subseteq {one[k] : k \in 1 .. t.i - 1} \cup {two[k] : k \in 1 .. t.j - 1}
      <3>1. \A k \in 1 .. s.j - 1 : k \in 1 .. t.j - 1
        BY <1>2, <2>2, <1>1
      <3>2. s.j \in 1 .. t.j - 1
        BY <1>1, <2>1, <2>2
      <3> QED
        BY <1>2, <2>2, <2>3, <3>1, <3>2 DEF e
    <2>7. \A k \in 1 .. t.i - 1 : one[k] \in Range(t.merged)
      BY <1>2, <2>2, <2>3
    <2>8. \A k \in 1 .. t.j - 1 :
              two[k] \in Range(t.merged) \/ \E l \in 1 .. L1 : Timestamp(one[l]) = Timestamp(two[k])
      <3> TAKE k \in 1 .. t.j - 1
      <3>1. k \in 1 .. s.j - 1 \/ k = s.j
        BY <1>1, <1>2, <2>2
      <3> QED
        BY <1>2, <2>3, <3>1 DEF e
    <2>9. ASSUME Sorted(one), Sorted(two)
          PROVE  /\ Sorted(t.merged)
                 /\ \A f \in Range(t.merged) :
                       /\ t.i <= L1 => Timestamp(f) < Timestamp(one[t.i])
                       /\ t.j <= L2 => Timestamp(f) < Timestamp(two[t.j])
      <3>1. \A f \in Range(s.merged) : Timestamp(f) < Timestamp(e)
        BY <1>1, <1>2, <1>4, <2>1, <2>9 DEF e
      <3>2. Sorted(t.merged)
        BY <1>2, <1>4, <2>1, <2>2, <2>9, <3>1, AppendSorted
      <3>3. t.j <= L2 => t.j \in 1 .. L2 /\ Timestamp(e) < Timestamp(two[t.j])
        BY <1>1, <1>4, <2>1, <2>2, <2>9 DEF e
      <3>4. t.i <= L1 => t.i \in 1 .. L1 /\ Timestamp(e) < Timestamp(one[t.i])
        BY <2>2, <2>5
      <3>5. ASSUME NEW f \in Range(t.merged)
            PROVE  /\ t.i <= L1 => Timestamp(f) < Timestamp(one[t.i])
                   /\ t.j <= L2 => Timestamp(f) < Timestamp(two[t.j])
        <4>1. f \in Range(s.merged) \/ f = e
          BY <2>3
        <4>2. Timestamp(f) \in Int /\ Timestamp(f) <= Timestamp(e)
          BY <1>5, <2>1, <3>1, <4>1
        <4>3. t.i <= L1 => Timestamp(one[t.i]) \in Int
          BY <1>1, <3>4
        <4>4. t.j <= L2 => Timestamp(two[t.j]) \in Int
          BY <1>1, <3>3
        <4> QED
          BY <2>1, <3>3, <3>4, <4>2, <4>3, <4>4
      <3> QED
        BY <3>2, <3>5
    <2> QED
      BY <1>1, <2>3, <2>4, <2>6, <2>7, <2>8, <2>9 DEF MergeInv, L1, L2, t
  <1> QED
    BY <1>8, <1>9, <1>10

(* The merged list holds the first list's entries, and of the second's those *)
(* of other dates; it is in order when both are.                             *)
LEMMA MergeElements ==
    ASSUME NEW one \in Seq(Entry), NEW two \in Seq(Entry)
    PROVE  LET merged == MergeEstimates(one, two) IN
           /\ merged \in Seq(Entry)
           /\ Range(one) \subseteq Range(merged) /\ Range(merged) \subseteq Range(one) \cup Range(two)
           /\ \A e \in Range(two) :
                 e \in Range(merged) \/ \E f \in Range(one) : Timestamp(f) = Timestamp(e)
           /\ Sorted(one) /\ Sorted(two) => Sorted(merged)
  <1>1. PICK turn :
            /\ turn[0] = MergeStart
            /\ \A n \in 0 .. Len(one) + Len(two) - 1 : turn[n + 1] = MergeTurn(one, two, turn[n])
            /\ MergeEstimates(one, two) = turn[Len(one) + Len(two)].merged
    BY MergeTurns
  <1> DEFINE N == Len(one) + Len(two)
  <1>2. /\ Len(one) \in Nat /\ Len(two) \in Nat /\ N \in Nat
        /\ DOMAIN one = 1 .. Len(one) /\ DOMAIN two = 1 .. Len(two)
    BY LenProperties
  <1> DEFINE T == {n \in Nat : n <= N => MergeInv(one, two, n, turn[n])}
  <1>3. 0 \in T
    <2> DEFINE s == MergeStart
    <2>1. s.i = 1 /\ s.j = 1 /\ s.merged = <<>>
      BY DEF MergeStart
    <2>2. <<>> \in Seq(Entry) /\ Range(<<>>) = {} /\ Sorted(<<>>)
      BY DEF Range, Sorted
    <2> HIDE DEF s
    <2>3. MergeInv(one, two, 0, s)
      BY <1>2, <2>1, <2>2 DEF MergeInv
    <2> QED
      BY <1>1, <2>3 DEF s
  <1>4. ASSUME NEW n \in Nat, n \in T
        PROVE  n + 1 \in T
    <2>1. n + 1 <= N => n \in 0 .. N - 1 /\ MergeInv(one, two, n, turn[n])
      BY <1>2, <1>4
    <2>2. n + 1 <= N => MergeInv(one, two, n + 1, turn[n + 1])
      BY <1>1, <2>1, MergeTurnKeeps
    <2> QED
      BY <2>2
  <1>5. N \in T
    <2> HIDE DEF T, N
    <2> QED
      BY <1>2, <1>3, <1>4, NatSetInduction
  <1> DEFINE s == turn[N]
  <1>6. MergeInv(one, two, N, s)
    BY <1>2, <1>5
  <1> HIDE DEF s
  <1>7. s.i = Len(one) + 1 /\ s.j = Len(two) + 1
    BY <1>2, <1>6 DEF MergeInv
  <1>8. /\ s.merged \in Seq(Entry) /\ (Sorted(one) /\ Sorted(two) => Sorted(s.merged))
        /\ Range(s.merged) \subseteq {one[k] : k \in 1 .. Len(one)} \cup {two[k] : k \in 1 .. Len(two)}
        /\ \A k \in 1 .. Len(one) : one[k] \in Range(s.merged)
        /\ \A k \in 1 .. Len(two) :
              two[k] \in Range(s.merged) \/ \E l \in DOMAIN one : Timestamp(one[l]) = Timestamp(two[k])
    BY <1>2, <1>6, <1>7 DEF MergeInv
  <1>9. Range(one) = {one[k] : k \in 1 .. Len(one)} /\ Range(two) = {two[k] : k \in 1 .. Len(two)}
    BY <1>2 DEF Range
  <1>10. MergeEstimates(one, two) = s.merged
    BY <1>1 DEF s
  <1> QED
    BY <1>2, <1>8, <1>9, <1>10

-----------------------------------------------------------------------------
(* The cells of a list of entries.                                          *)

LEMMA FlattenTurns ==
    ASSUME NEW S, NEW seqs \in Seq(Seq(S)), seqs # <<>>
    PROVE  \E flat : /\ flat[1] = seqs[1]
                     /\ \A n \in 1 .. Len(seqs) - 1 : flat[n + 1] = flat[n] \o seqs[n + 1]
                     /\ FlattenSeq(seqs) = flat[Len(seqs)]
  <1> DEFINE N == Len(seqs)
             Flat(f, m) == f = [n \in 1 .. m |-> IF n = 1 THEN seqs[n] ELSE f[n - 1] \o seqs[n]]
             T == {m \in Nat : \E f : Flat(f, m)}
  <1>1. N \in Nat /\ N >= 1 /\ N # 0
    BY EmptySeq
  <1>2. 0 \in T
    <2> DEFINE f == [n \in 1 .. 0 |-> <<>>]
    <2>1. Flat(f, 0)
      OBVIOUS
    <2> QED
      BY <2>1
  <1>3. ASSUME NEW m \in Nat, m \in T
        PROVE  m + 1 \in T
    <2>1. PICK f : Flat(f, m)
      BY <1>3
    <2> DEFINE next == IF m + 1 = 1 THEN seqs[m + 1] ELSE f[m] \o seqs[m + 1]
               g == [n \in 1 .. m + 1 |-> IF n = m + 1 THEN next ELSE f[n]]
    <2>2. \A n \in 1 .. m : f[n] = IF n = 1 THEN seqs[n] ELSE f[n - 1] \o seqs[n]
      BY <2>1
    <2>3. \A n \in 1 .. m + 1 : g[n] = IF n = 1 THEN seqs[n] ELSE g[n - 1] \o seqs[n]
      <3> TAKE n \in 1 .. m + 1
      <3>1. CASE n = m + 1
        <4>1. g[n] = next /\ (n # 1 => g[n - 1] = f[m])
          BY <3>1
        <4> QED
          BY <3>1, <4>1
      <3>2. CASE n # m + 1
        <4>1. g[n] = f[n] /\ n \in 1 .. m /\ (n # 1 => g[n - 1] = f[n - 1])
          BY <3>2
        <4> QED
          BY <2>2, <4>1
      <3> QED
        BY <3>1, <3>2
    <2>4. Flat(g, m + 1)
      <3>1. g = [n \in 1 .. m + 1 |-> g[n]]
        OBVIOUS
      <3> HIDE DEF g
      <3> QED
        BY <2>3, <3>1
    <2>5. m + 1 \in Nat /\ \E h : Flat(h, m + 1)
      <3> HIDE DEF Flat, g
      <3> QED
        BY <2>4
    <2> HIDE DEF Flat
    <2> QED
      BY <2>5
  <1>4. \E f : Flat(f, N)
    <2> HIDE DEF T
    <2>1. N \in T
      BY <1>1, <1>2, <1>3, NatSetInduction
    <2> QED
      BY <2>1 DEF T
  <1> DEFINE flat == CHOOSE f : Flat(f, N)
  <1>5. Flat(flat, N)
    BY <1>4
  <1>6. FlattenSeq(seqs) = flat[N]
    BY <1>1 DEF FlattenSeq
  <1> HIDE DEF flat
  <1>7. \A n \in 1 .. N : flat[n] = IF n = 1 THEN seqs[n] ELSE flat[n - 1] \o seqs[n]
    <2> HIDE DEF N
    <2> QED
      BY <1>5
  <1>8. flat[1] = seqs[1]
    <2>1. 1 \in 1 .. N
      BY <1>1
    <2> QED
      BY <1>7, <2>1
  <1>9. \A n \in 1 .. N - 1 : flat[n + 1] = flat[n] \o seqs[n + 1]
    <2> TAKE n \in 1 .. N - 1
    <2> DEFINE k == n + 1
    <2>1. k \in 1 .. N /\ k # 1 /\ k - 1 = n
      BY <1>1
    <2> HIDE DEF k, N
    <2>2. flat[k] = flat[k - 1] \o seqs[k]
      BY <1>7, <2>1
    <2> QED
      BY <2>1, <2>2 DEF k
  <1> QED
    BY <1>6, <1>8, <1>9

LEMMA FlattenElements ==
    ASSUME NEW S, NEW seqs \in Seq(Seq(S))
    PROVE  /\ FlattenSeq(seqs) \in Seq(S)
           /\ Range(FlattenSeq(seqs)) = UNION {Range(seqs[k]) : k \in DOMAIN seqs}
  <1>1. Len(seqs) \in Nat /\ DOMAIN seqs = 1 .. Len(seqs) /\ \A k \in 1 .. Len(seqs) : seqs[k] \in Seq(S)
    BY LenProperties, ElementOfSeq
  <1>2. CASE seqs = <<>>
    BY <1>2 DEF FlattenSeq, Range
  <1>3. CASE seqs # <<>>
    <2>1. PICK flat : /\ flat[1] = seqs[1]
                      /\ \A n \in 1 .. Len(seqs) - 1 : flat[n + 1] = flat[n] \o seqs[n + 1]
                      /\ FlattenSeq(seqs) = flat[Len(seqs)]
      BY <1>3, FlattenTurns
    <2> DEFINE N == Len(seqs)
               of(n) == UNION {Range(seqs[k]) : k \in 1 .. n}
               T == {n \in Nat : n \in 1 .. N => flat[n] \in Seq(S) /\ Range(flat[n]) = of(n)}
    <2>2. N \in Nat /\ 1 \in 1 .. N
      BY <1>1, <1>3, EmptySeq
    <2>3. 0 \in T
      OBVIOUS
    <2>4. ASSUME NEW n \in Nat, n \in T
          PROVE  n + 1 \in T
      <3>1. CASE n = 0
        <4>1. of(1) = Range(seqs[1])
          <5>1. 1 .. 1 = {1}
            OBVIOUS
          <5> QED
            BY <5>1
        <4> HIDE DEF of
        <4>2. 1 \in T
          BY <1>1, <2>1, <2>2, <4>1
        <4> QED
          BY <3>1, <4>2
      <3>2. CASE n # 0 /\ n + 1 \in 1 .. N
        <4>1. n \in 1 .. N - 1 /\ n \in 1 .. N
          BY <2>2, <3>2
        <4>2. flat[n + 1] = flat[n] \o seqs[n + 1]
          BY <2>1, <4>1
        <4>3. seqs[n + 1] \in Seq(S) /\ flat[n] \in Seq(S) /\ Range(flat[n]) = of(n)
          BY <1>1, <2>4, <3>2, <4>1
        <4>4. flat[n + 1] \in Seq(S) /\ Range(flat[n + 1]) = of(n) \cup Range(seqs[n + 1])
          <5> HIDE DEF of
          <5> QED
            BY <4>2, <4>3, ConcatElements
        <4>5. of(n + 1) = of(n) \cup Range(seqs[n + 1])
          <5>1. 1 .. n + 1 = (1 .. n) \cup {n + 1}
            OBVIOUS
          <5> QED
            BY <5>1
        <4>6. n + 1 \in Nat
          OBVIOUS
        <4> HIDE DEF of, N
        <4> QED
          BY <4>4, <4>5, <4>6
      <3>3. CASE n + 1 \notin 1 .. N
        BY <3>3
      <3> QED
        BY <3>1, <3>2, <3>3
    <2>5. Nat \subseteq T
      <3> HIDE DEF T
      <3> QED
        BY <2>3, <2>4, NatSetInduction
    <2>6. N \in T /\ N \in 1 .. N
      <3>1. N \in 1 .. N
        BY <2>2
      <3> HIDE DEF T, N
      <3> QED
        BY <2>2, <2>5, <3>1
    <2>7. flat[N] \in Seq(S) /\ Range(flat[N]) = of(N)
      <3> HIDE DEF of, N
      <3> QED
        BY <2>6
    <2> QED
      BY <1>1, <2>1, <2>7
  <1> QED
    BY <1>2, <1>3

\* The entries some cells are parts of.
PartsOf(cells, S) == \A c \in Range(cells) : c.entry \in S

LEMMA PartsOfEntries ==
    ASSUME NEW cells \in Seq(Cell)
    PROVE  PartsOf(cells, Entry)
  <1> SUFFICES ASSUME NEW c \in Range(cells) PROVE c.entry \in Entry
    BY DEF PartsOf
  <1>1. PICK i \in DOMAIN cells : c = cells[i]
    BY DEF Range
  <1>2. c \in Cell
    BY <1>1, LenProperties, ElementOfSeq
  <1> QED
    BY <1>2 DEF Cell

LEMMA CellsElements ==
    ASSUME NEW entries \in Seq(Entry)
    PROVE  /\ Cells(entries) \in Seq(Cell)
           /\ PartsOf(Cells(entries), Range(entries))
           /\ entries # <<>> => Cells(entries) # <<>>
  <1> DEFINE block(e) == [p \in 1 .. SizeOf[e.ver] |-> [entry |-> e, part |-> p]]
             seqs == [i \in DOMAIN entries |-> block(entries[i])]
  <1>1. Len(entries) \in Nat /\ DOMAIN entries = 1 .. Len(entries)
        /\ \A i \in 1 .. Len(entries) : entries[i] \in Entry
    BY LenProperties, ElementOfSeq
  <1>2. ASSUME NEW e \in Entry
        PROVE  block(e) \in Seq(Cell) /\ \A c \in Range(block(e)) : c.entry = e
    <2>1. SizeOf[e.ver] \in Nat
      BY ListManagerAssumption DEF Entry
    <2>2. \A p \in 1 .. SizeOf[e.ver] : [entry |-> e, part |-> p] \in Cell
      BY <2>1 DEF Cell
    <2>3. block(e) \in Seq(Cell)
      BY <2>1, <2>2
    <2>4. \A c \in Range(block(e)) : c.entry = e
      <3> TAKE c \in Range(block(e))
      <3>1. PICK p \in DOMAIN block(e) : c = block(e)[p]
        BY DEF Range
      <3>2. c = [entry |-> e, part |-> p]
        BY <3>1
      <3> QED
        BY <3>2
    <2> QED
      BY <2>3, <2>4
  <1>3. ASSUME NEW e \in Entry
        PROVE  Range(block(e)) # {}
    <2>1. 1 \in 1 .. SizeOf[e.ver]
      BY ListManagerAssumption DEF Entry
    <2>2. block(e)[1] \in Range(block(e))
      BY <2>1 DEF Range
    <2> QED
      BY <2>2
  <1>4. DOMAIN seqs = DOMAIN entries /\ \A i \in DOMAIN entries : seqs[i] = block(entries[i])
    OBVIOUS
  <1> HIDE DEF block
  <1>5. seqs \in Seq(Seq(Cell))
    BY <1>1, <1>2
  <1>6. Cells(entries) = FlattenSeq(seqs)
    BY DEF Cells, block
  <1> HIDE DEF seqs
  <1>7. /\ FlattenSeq(seqs) \in Seq(Cell)
        /\ Range(FlattenSeq(seqs)) = UNION {Range(seqs[k]) : k \in DOMAIN entries}
    BY <1>4, <1>5, FlattenElements
  <1>8. PartsOf(Cells(entries), Range(entries))
    <2> SUFFICES ASSUME NEW c \in Range(Cells(entries)) PROVE c.entry \in Range(entries)
      BY DEF PartsOf
    <2>1. PICK k \in DOMAIN entries : c \in Range(seqs[k])
      BY <1>6, <1>7
    <2>2. c.entry = entries[k]
      BY <1>1, <1>2, <1>4, <2>1
    <2> QED
      BY <2>2 DEF Range
  <1>9. ASSUME entries # <<>>
        PROVE  Cells(entries) # <<>>
    <2>1. 1 \in DOMAIN entries
      BY <1>1, <1>9, EmptySeq
    <2>2. PICK c : c \in Range(seqs[1])
      BY <1>1, <1>3, <1>4, <2>1
    <2>3. c \in Range(Cells(entries))
      BY <1>6, <1>7, <2>1, <2>2
    <2> QED
      BY <2>3 DEF Range
  <1> QED
    BY <1>6, <1>7, <1>8, <1>9

\* A part of a list, as far as it goes.
LEMMA SliceElements ==
    ASSUME NEW S, NEW s \in Seq(S), NEW a \in Nat \ {0}, NEW b \in Int
    PROVE  Slice(s, a, b) \in Seq(S) /\ Range(Slice(s, a, b)) \subseteq Range(s)
  <1> DEFINE last == IF b < Len(s) THEN b ELSE Len(s)
             part == SubSeq(s, a, last)
  <1>1. Len(s) \in Nat /\ DOMAIN s = 1 .. Len(s) /\ last \in Int /\ last <= Len(s)
    BY LenProperties
  <1> HIDE DEF last
  <1>2. CASE last < a
    <2>1. part = <<>>
      BY <1>1, <1>2, SubSeqEmpty
    <2> QED
      BY <2>1 DEF Slice, Range, last
  <1>3. CASE a <= last
    <2>1. a \in 1 .. Len(s) + 1 /\ last \in a - 1 .. Len(s)
      BY <1>1, <1>3
    <2>2. /\ part \in Seq(S) /\ Len(part) = last - a + 1
          /\ \A i \in 1 .. last - a + 1 : part[i] = s[a + i - 1]
      BY <1>1, <1>3, <2>1, SubSeqProperties
    <2>3. DOMAIN part = 1 .. last - a + 1
      BY <2>2, LenProperties
    <2>4. \A i \in 1 .. last - a + 1 : a + i - 1 \in 1 .. Len(s)
      BY <1>1, <1>3
    <2> HIDE DEF part
    <2>5. Range(part) \subseteq Range(s)
      BY <1>1, <2>2, <2>3, <2>4 DEF Range
    <2> QED
      BY <2>2, <2>5 DEF Slice, part, last
  <1> QED
    BY <1>1, <1>2, <1>3

LEMMA PartsOfConcat ==
    ASSUME NEW a \in Seq(Cell), NEW b \in Seq(Cell), NEW S, PartsOf(a, S), PartsOf(b, S)
    PROVE  a \o b \in Seq(Cell) /\ PartsOf(a \o b, S)
  BY ConcatElements DEF PartsOf

\* Writing over a file leaves parts of what it held and of what is written.
LEMMA OverlayElements ==
    ASSUME NEW cells \in Seq(Cell), NEW position \in Nat, NEW new \in Seq(Cell), new # <<>>,
           NEW S, PartsOf(cells, S), PartsOf(new, S)
    PROVE  Overlay(cells, position, new) \in Seq(Cell) /\ PartsOf(Overlay(cells, position, new), S)
  <1> DEFINE hole == [i \in 1 .. position - Len(cells) |-> [entry |-> new[1].entry, part |-> 0]]
             before == Slice(cells, 1, position)
             after == Slice(cells, position + Len(new) + 1, Len(cells))
  <1>1. Len(cells) \in Nat /\ Len(new) \in Nat /\ 1 \in DOMAIN new
    BY EmptySeq, LenProperties
  <1>2. new[1] \in Range(new) /\ new[1] \in Cell
    BY <1>1, ElementOfSeq, LenProperties DEF Range
  <1>3. new[1].entry \in S /\ [entry |-> new[1].entry, part |-> 0] \in Cell
    BY <1>2 DEF PartsOf, Cell
  <1>4. hole \in Seq(Cell) /\ PartsOf(hole, S)
    <2> DEFINE c == [entry |-> new[1].entry, part |-> 0]
    <2>1. c \in Cell /\ c.entry \in S
      BY <1>3
    <2> HIDE DEF c
    <2>2. CASE position - Len(cells) \in Nat
      <3>1. [i \in 1 .. position - Len(cells) |-> c] \in Seq(Cell)
        BY <2>1, <2>2
      <3>2. \A d \in Range([i \in 1 .. position - Len(cells) |-> c]) : d = c
        BY DEF Range
      <3> QED
        BY <2>1, <3>1, <3>2 DEF PartsOf, c
    <2>3. CASE position - Len(cells) \notin Nat
      <3>1. 1 .. position - Len(cells) = {}
        BY <1>1, <2>3
      <3>2. [i \in {} |-> c] = <<>>
        OBVIOUS
      <3>3. hole = <<>>
        BY <3>1, <3>2 DEF c
      <3>4. Range(<<>>) = {}
        BY DEF Range
      <3>5. <<>> \in Seq(Cell)
        OBVIOUS
      <3> HIDE DEF hole
      <3> QED
        BY <3>3, <3>4, <3>5 DEF PartsOf
    <2> QED
      BY <2>2, <2>3
  <1>5. before \in Seq(Cell) /\ PartsOf(before, S)
    <2>1. 1 \in Nat \ {0} /\ position \in Int
      OBVIOUS
    <2>2. before \in Seq(Cell) /\ Range(before) \subseteq Range(cells)
      BY <2>1, SliceElements
    <2> QED
      BY <2>2 DEF PartsOf
  <1>6. after \in Seq(Cell) /\ PartsOf(after, S)
    <2>1. position + Len(new) + 1 \in Nat \ {0} /\ Len(cells) \in Int
      BY <1>1
    <2> QED
      BY <2>1, SliceElements DEF PartsOf
  <1> HIDE DEF hole, before, after
  <1>7. before \o hole \in Seq(Cell) /\ PartsOf(before \o hole, S)
    BY <1>4, <1>5, PartsOfConcat
  <1>8. before \o hole \o new \in Seq(Cell) /\ PartsOf(before \o hole \o new, S)
    BY <1>7, PartsOfConcat
  <1>9. before \o hole \o new \o after \in Seq(Cell) /\ PartsOf(before \o hole \o new \o after, S)
    BY <1>6, <1>8, PartsOfConcat
  <1> QED
    BY <1>9 DEF Overlay, before, hole, after

\* Reading the cells back gives entries they are parts of.
LEMMA CachedElements ==
    ASSUME NEW cells \in Seq(Cell), NEW S, PartsOf(cells, S)
    PROVE  CachedData(cells) \in Seq(Entry) /\ Range(CachedData(cells)) \subseteq S
  <1> DEFINE P == {i \in DOMAIN cells : cells[i].part = 1}
             heads == Kept(cells, P)
  <1>1. heads \in Seq(Cell) /\ Range(heads) = {cells[i] : i \in P}
    BY KeptElements
  <1>2. Len(heads) \in Nat /\ DOMAIN heads = 1 .. Len(heads)
        /\ \A i \in DOMAIN heads : heads[i] \in Cell /\ heads[i] \in Range(heads)
    BY <1>1, LenProperties, ElementOfSeq DEF Range
  <1>3. \A c \in Range(heads) : c.entry \in S
    BY <1>1 DEF PartsOf, Range
  <1>4. EntriesOf(cells) = [i \in DOMAIN heads |-> heads[i].entry]
    BY DEF EntriesOf
  <1> HIDE DEF heads
  <1>5. \A i \in DOMAIN heads : heads[i].entry \in Entry
    BY <1>2 DEF Cell
  <1>6. EntriesOf(cells) \in Seq(Entry)
    BY <1>2, <1>4, <1>5
  <1>7. Range(EntriesOf(cells)) \subseteq S
    BY <1>2, <1>3, <1>4 DEF Range
  <1>8. <<>> \in Seq(Entry) /\ Range(<<>>) = {}
    BY DEF Range
  <1> QED
    BY <1>6, <1>7, <1>8 DEF CachedData

\* The first windows of a list that is not empty.
LEMMA FirstWindow ==
    ASSUME NEW S, NEW s \in Seq(S), s # <<>>, NEW n \in Nat \ {0}
    PROVE  Slice(s, 1, n) # <<>>
  <1> DEFINE last == IF n < Len(s) THEN n ELSE Len(s)
  <1>1. Len(s) \in Nat /\ Len(s) >= 1
    BY EmptySeq
  <1>2. last \in 1 .. Len(s)
    BY <1>1
  <1>3. 1 \in 1 .. Len(s) + 1 /\ last \in 0 .. Len(s) /\ 1 <= last
    BY <1>1, <1>2
  <1> HIDE DEF last
  <1>4. Len(SubSeq(s, 1, last)) = last
    BY <1>3, SubSeqProperties
  <1>5. SubSeq(s, 1, last) # <<>>
    BY <1>3, <1>4
  <1> QED
    BY <1>5 DEF Slice, last

\* What a step of writeToFile writes of what is still to be written.
LEMMA WindowCells ==
    ASSUME NEW out \in Seq(Entry), out # <<>>
    PROVE  LET cells == Cells(Slice(out, 1, WindowSize)) IN
           /\ cells \in Seq(Cell) /\ cells # <<>> /\ Len(cells) \in Nat
           /\ PartsOf(cells, Range(out))
  <1> DEFINE window == Slice(out, 1, WindowSize)
             cells == Cells(window)
  <1>1. window \in Seq(Entry) /\ Range(window) \subseteq Range(out)
    <2>1. 1 \in Nat \ {0} /\ WindowSize \in Int
      BY LocalCacheAssumption
    <2> QED
      BY <2>1, SliceElements
  <1>2. window # <<>>
    BY FirstWindow, LocalCacheAssumption
  <1> HIDE DEF window
  <1>3. cells \in Seq(Cell) /\ PartsOf(cells, Range(window)) /\ cells # <<>>
    BY <1>1, <1>2, CellsElements
  <1>4. PartsOf(cells, Range(out))
    BY <1>1, <1>3 DEF PartsOf
  <1> QED
    BY <1>3, <1>4, LenProperties DEF window

LEMMA RestOfList ==
    ASSUME NEW out \in Seq(Entry)
    PROVE  LET rest == SubSeq(out, WindowSize + 1, Len(out)) IN
           rest \in Seq(Entry) /\ Range(rest) \subseteq Range(out)
  <1>1. WindowSize + 1 \in Nat \ {0} /\ Len(out) \in Int
    BY LocalCacheAssumption
  <1>2. Slice(out, WindowSize + 1, Len(out)) = SubSeq(out, WindowSize + 1, Len(out))
    BY DEF Slice
  <1> QED
    BY <1>1, <1>2, SliceElements

-----------------------------------------------------------------------------
(* The state invariant: what a request may count on while it reads and      *)
(* writes.                                                                  *)

IOState == [buf: Seq(Cell), toStore: Seq(Entry), out: Seq(Entry), at: Nat]

IoReady(r) ==
    /\ pc[r] \in {"idle", "fetch"} => io[r] = NoIO
    /\ pc[r] \in {"read", "write"} => file[req[r].grp] # NoFile
    /\ pc[r] = "write" => io[r].out # <<>>
    /\ pc[r] = "open" => io[r].toStore # <<>>

StateInv == ManagerInv /\ TypeOK /\ \A r \in Requests : IoReady(r)

LEMMA NothingRead == NoIO \in IOState /\ <<>> \in Seq(Cell) /\ <<>> # NoFile
  <1>1. NoIO \in IOState
    BY DEF IOState, NoIO
  <1>2. <<>> \in Seq(Cell)
    OBVIOUS
  <1> QED
    BY <1>1, <1>2, LocalCacheAssumption

LEMMA StateInitially == Init => StateInv
  <1> SUFFICES ASSUME Init PROVE StateInv
    OBVIOUS
  <1>1. ManagerInv
    BY ManagerInitially DEF Init
  <1>2. pc \in [Requests -> Phases] /\ \A r \in Requests : pc[r] = "idle"
    BY DEF Init, ManagerInit, Phases
  <1>3. io = [r \in Requests |-> NoIO] /\ NoIO \in IOState
    BY NothingRead DEF Init
  <1>4. TypeOK
    BY <1>1, <1>2, <1>3 DEF Init, TypeOK, ManagerInv, IOState
  <1>5. \A r \in Requests : IoReady(r)
    BY <1>2, <1>3 DEF IoReady
  <1> QED
    BY <1>1, <1>4, <1>5 DEF StateInv

\* A request in progress goes on, and the others stay where they are.
LEMMA MoveKeepsState ==
    ASSUME StateInv, ManagerInv', NEW r \in InFlight, UNCHANGED req,
           NEW phase \in Phases \ {"idle"}, pc' = [pc EXCEPT ![r] = phase],
           NEW mine \in IOState, io' = [io EXCEPT ![r] = mine],
           file' \in [Groupings -> Seq(Cell) \cup {NoFile}],
           \A g \in Groupings : file[g] # NoFile => file'[g] # NoFile,
           phase = "fetch" => mine = NoIO,
           phase \in {"read", "write"} => file'[req[r].grp] # NoFile,
           phase = "write" => mine.out # <<>>, phase = "open" => mine.toStore # <<>>
    PROVE  StateInv'
  <1>1. r \in Requests
    BY DEF InFlight
  <1>2. /\ pc' \in [Requests -> Phases] /\ pc'[r] = phase
        /\ io' \in [Requests -> IOState] /\ io'[r] = mine
        /\ \A p \in Requests : p # r => pc'[p] = pc[p] /\ io'[p] = io[p]
    BY <1>1 DEF StateInv, TypeOK, IOState
  <1>3. TypeOK'
    BY <1>2 DEF TypeOK, ManagerInv, IOState
  <1>4. ASSUME NEW p \in Requests, p # r
        PROVE  IoReady(p)'
    <2>1. pc[p] \in {"read", "write"} => req[p] \in RequestSpace
      BY DEF StateInv, ManagerInv
    <2>2. pc[p] \in {"read", "write"} => req[p].grp \in Groupings
      BY <2>1, RequestFields
    <2> QED
      BY <1>2, <1>4, <2>2 DEF StateInv, IoReady
  <1>5. IoReady(r)'
    BY <1>2 DEF IoReady
  <1> QED
    BY <1>3, <1>4, <1>5 DEF StateInv

LEMMA ArriveKeepsState ==
    ASSUME StateInv, NEW r \in Requests, NEW q \in RequestSpace, Arrive(r, q)
    PROVE  StateInv'
  <1>1. /\ Admit(r, q, "access") /\ UNCHANGED <<file, io>>
        /\ pc[r] = "idle" /\ pc' = [pc EXCEPT ![r] = "access"]
    BY DEF Arrive, Admit
  <1>2. ManagerInv' /\ \A p \in Requests : p # r => req'[p] = req[p] /\ pc'[p] = pc[p]
    BY <1>1, AdmitKeeps DEF StateInv
  <1>3. pc' \in [Requests -> Phases] /\ pc'[r] = "access"
    BY <1>1 DEF StateInv, TypeOK, Phases
  <1>4. TypeOK'
    BY <1>1, <1>2, <1>3 DEF StateInv, TypeOK, ManagerInv
  <1>5. \A p \in Requests : IoReady(p)'
    BY <1>1, <1>2, <1>3 DEF StateInv, IoReady
  <1> QED
    BY <1>2, <1>4, <1>5 DEF StateInv

\* What a file may be while a request that is cut short writes it.
LEMMA EndedFiles ==
    ASSUME StateInv, ProcessEnds
    PROVE  \/ file' = file
           \/ \E r \in InFlight, cells \in Seq(Cell) :
                 /\ cells # <<>> /\ PartsOf(cells, Range(io[r].out))
                 /\ file[req[r].grp] # NoFile
                 /\ file' = [file EXCEPT ![req[r].grp] = Overlay(file[req[r].grp], io[r].at, cells)]
  <1> SUFFICES ASSUME file' # file
               PROVE  \E r \in InFlight, cells \in Seq(Cell) :
                         /\ cells # <<>> /\ PartsOf(cells, Range(io[r].out))
                         /\ file[req[r].grp] # NoFile
                         /\ file' = [file EXCEPT ![req[r].grp] = Overlay(file[req[r].grp], io[r].at, cells)]
    OBVIOUS
  <1>1. PICK r \in {s \in InFlight : pc[s] = "write"} :
            \E k \in 1 .. Len(Cells(Slice(io[r].out, 1, WindowSize))) :
                file' = [file EXCEPT ![req[r].grp] =
                            Overlay(@, io[r].at, SubSeq(Cells(Slice(io[r].out, 1, WindowSize)), 1, k))]
    BY DEF ProcessEnds
  <1>2. r \in Requests /\ r \in InFlight /\ pc[r] = "write"
    BY <1>1 DEF InFlight
  <1>3. io[r].out \in Seq(Entry) /\ io[r].out # <<>> /\ file[req[r].grp] # NoFile
    BY <1>2 DEF StateInv, TypeOK, IoReady
  <1> DEFINE cells == Cells(Slice(io[r].out, 1, WindowSize))
  <1>4. cells \in Seq(Cell) /\ Len(cells) \in Nat /\ PartsOf(cells, Range(io[r].out))
    BY <1>3, WindowCells
  <1>5. PICK k \in 1 .. Len(cells) :
            file' = [file EXCEPT ![req[r].grp] = Overlay(file[req[r].grp], io[r].at, SubSeq(cells, 1, k))]
    BY <1>1
  <1> HIDE DEF cells
  <1> DEFINE part == SubSeq(cells, 1, k)
  <1>6. Slice(cells, 1, k) = part
    BY <1>4, <1>5 DEF Slice
  <1>7. part \in Seq(Cell) /\ Range(part) \subseteq Range(cells)
    <2>1. 1 \in Nat \ {0} /\ k \in Int
      BY <1>4
    <2> HIDE DEF part
    <2> QED
      BY <1>4, <1>6, <2>1, SliceElements
  <1>8. part # <<>>
    <2>1. cells # <<>> /\ k \in Nat \ {0}
      BY <1>4
    <2> HIDE DEF part
    <2> QED
      BY <1>4, <1>6, <2>1, FirstWindow
  <1>9. PartsOf(part, Range(io[r].out))
    BY <1>4, <1>7 DEF PartsOf
  <1>10. file' = [file EXCEPT ![req[r].grp] = Overlay(file[req[r].grp], io[r].at, part)]
    BY <1>5
  <1> HIDE DEF part
  <1> QED
    BY <1>2, <1>3, <1>7, <1>8, <1>9, <1>10

LEMMA EndKeepsState ==
    ASSUME StateInv, ProcessEnds
    PROVE  StateInv'
  <1>1. LoseMemory /\ io' = [r \in Requests |-> NoIO] /\ UNCHANGED req
    BY DEF ProcessEnds, LoseMemory
  <1>2. ManagerInv' /\ InFlight' = {} /\ \A r \in Requests : pc'[r] \in {pc[r], "failed"}
    BY <1>1, LoseMemoryKeeps DEF StateInv
  <1>3. \A r \in Requests : pc'[r] \in {"idle", "done", "failed"}
    BY <1>2 DEF InFlight
  <1>4. pc' \in [Requests -> Phases]
    BY <1>2, <1>3 DEF Phases, ManagerInv
  <1>5. file' \in [Groupings -> Seq(Cell) \cup {NoFile}]
    <2>1. file \in [Groupings -> Seq(Cell) \cup {NoFile}]
      BY DEF StateInv, TypeOK
    <2>2. CASE file' = file
      BY <2>1, <2>2
    <2>3. ASSUME NEW r \in InFlight, NEW cells \in Seq(Cell),
                 cells # <<>>, PartsOf(cells, Range(io[r].out)), file[req[r].grp] # NoFile,
                 file' = [file EXCEPT ![req[r].grp] = Overlay(file[req[r].grp], io[r].at, cells)]
          PROVE  file' \in [Groupings -> Seq(Cell) \cup {NoFile}]
      <3>1. r \in Requests /\ req[r].grp \in Groupings
        BY InFlightAsks DEF StateInv
      <3>2. file[req[r].grp] \in Seq(Cell) /\ io[r].at \in Nat
        BY <2>1, <2>3, <3>1 DEF StateInv, TypeOK
      <3>3. PartsOf(file[req[r].grp], Entry) /\ PartsOf(cells, Entry)
        BY <3>2, PartsOfEntries
      <3>4. Overlay(file[req[r].grp], io[r].at, cells) \in Seq(Cell)
        BY <2>3, <3>2, <3>3, OverlayElements
      <3> QED
        BY <2>1, <2>3, <3>4
    <2> QED
      BY <2>2, <2>3, EndedFiles
  <1>6. io' \in [Requests -> IOState] /\ \A r \in Requests : io'[r] = NoIO
    BY <1>1, NothingRead
  <1>7. TypeOK'
    BY <1>2, <1>4, <1>5, <1>6 DEF TypeOK, ManagerInv, IOState
  <1>8. \A r \in Requests : IoReady(r)'
    BY <1>3, <1>6 DEF IoReady
  <1> QED
    BY <1>2, <1>7, <1>8 DEF StateInv

-----------------------------------------------------------------------------
(* The steps of a request, said of what it reads, stores and is given.      *)

\* The end of a load: what was in the file, and the file afterwards.
LoadsFrom(r, entries) ==
    /\ r \in InFlight /\ pc[r] \in {"access", "create", "read"}
    /\ Loaded(r, entries)
    /\ entries = <<>> \/ entries = CachedData(io[r].buf)
    /\ \/ file' = file /\ file[req[r].grp] # NoFile
       \/ file' = [file EXCEPT ![req[r].grp] = <<>>]
    /\ UNCHANGED <<usage, req, crashes, overlapped>>

LEMMA RequestState ==
    ASSUME StateInv, NEW r \in InFlight
    PROVE  /\ r \in Requests /\ req[r] \in RequestSpace /\ req[r].grp \in Groupings
           /\ DatesWithinRequestTimeFrame(req[r]) \subseteq Dates
           /\ io[r] \in IOState /\ pc[r] \in Phases /\ IoReady(r)
           /\ cachedEstimates \in Seq(Entry) /\ fetchedEstimates \in Seq(Entry)
           /\ file \in [Groupings -> Seq(Cell) \cup {NoFile}]
           /\ RequestsTyped /\ ManagerInv /\ ManagerTypeOK
  <1>1. /\ r \in Requests /\ req[r] \in RequestSpace /\ req[r].grp \in Groupings
        /\ DatesWithinRequestTimeFrame(req[r]) \subseteq Dates
        /\ cachedEstimates \in Seq(Entry) /\ fetchedEstimates \in Seq(Entry) /\ RequestsTyped
    BY InFlightAsks DEF StateInv
  <1>2. /\ io \in [Requests -> IOState] /\ pc \in [Requests -> Phases]
        /\ file \in [Groupings -> Seq(Cell) \cup {NoFile}]
    BY DEF StateInv, TypeOK, IOState
  <1> QED
    BY <1>1, <1>2 DEF StateInv, ManagerInv

LEMMA BufferEntries ==
    ASSUME StateInv, NEW r \in InFlight
    PROVE  CachedData(io[r].buf) \in Seq(Entry)
  <1>1. io[r].buf \in Seq(Cell)
    BY RequestState DEF IOState
  <1>2. PartsOf(io[r].buf, Entry)
    BY <1>1, PartsOfEntries
  <1> QED
    BY <1>1, <1>2, CachedElements

LEMMA LoadingSteps ==
    ASSUME StateInv, NEW r \in Requests, CreateCacheFile(r) \/ AccessFails(r) \/ ReadEnd(r)
    PROVE  \E entries \in Seq(Entry) : LoadsFrom(r, entries)
  <1>1. r \in InFlight /\ pc[r] \in {"access", "create", "read"}
    BY DEF CreateCacheFile, AccessFails, ReadEnd, AtEndOfFile, InFlight
  <1>2. CASE CreateCacheFile(r) \/ AccessFails(r)
    <2>1. <<>> \in Seq(Entry)
      OBVIOUS
    <2>2. LoadsFrom(r, <<>>)
      BY <1>1, <1>2 DEF CreateCacheFile, AccessFails, LoadsFrom
    <2> QED
      BY <2>1, <2>2
  <1>3. CASE ReadEnd(r)
    <2>1. file[req[r].grp] # NoFile
      BY <1>1, <1>3, RequestState DEF ReadEnd, AtEndOfFile, IoReady
    <2>2. LoadsFrom(r, CachedData(io[r].buf))
      BY <1>1, <1>3, <2>1 DEF ReadEnd, LoadsFrom
    <2> QED
      BY <1>1, <2>2, BufferEntries
  <1> QED
    BY <1>2, <1>3

\* A request that has all its missing dates: what it is to store.
Stores(r, persist, list) ==
    /\ r \in InFlight /\ pc[r] = "fetch" /\ ~req[r].ignoreCache /\ LastFetch(r)
    /\ AllFetched(r) \subseteq Range(persist)
    /\ \A e \in Range(persist) : e.grp = req[r].grp /\ Genuine(usage, e)
    /\ list # <<>> /\ Range(list) \subseteq Range(persist) \cup Range(cachedEstimates)
    /\ cachedEstimates' = cachedEstimates /\ fetchedEstimates' = persist
    /\ io' = [io EXCEPT ![r] = [NoIO EXCEPT !.toStore = list]]
    /\ pc' = [pc EXCEPT ![r] = "open"]
    /\ call' = [call EXCEPT ![r] = NoCall]
    /\ UNCHANGED <<usage, req, answer, crashes, overlapped, file>>

LEMMA StoringStep ==
    ASSUME StateInv, NEW r \in Requests, SetEstimates(r)
    PROVE  \E persist \in Seq(Entry), list \in Seq(Entry) : Stores(r, persist, list)
  <1> DEFINE persist == ToPersist(r, AllFetched(r))
             list == MergeEstimates(persist, cachedEstimates)
  <1>1. /\ LastFetch(r) /\ ~req[r].ignoreCache /\ AllFetched(r) # {} /\ pc[r] = "fetch"
        /\ fetchedEstimates' = persist
        /\ io' = [io EXCEPT ![r].toStore = list]
        /\ pc' = [pc EXCEPT ![r] = "open"] /\ call' = [call EXCEPT ![r] = NoCall]
        /\ UNCHANGED <<usage, cachedEstimates, req, answer, crashes, overlapped, file>>
    BY DEF SetEstimates, LastFetch
  <1>2. /\ r \in InFlight
        /\ HoldsUsageOf(usage, req[r].grp, call[r].missing, AllFetched(r))
    BY <1>1, AllFetchedHolds DEF StateInv
  <1>3. /\ req[r] \in RequestSpace /\ ManagerTypeOK /\ cachedEstimates \in Seq(Entry)
        /\ io[r] = NoIO /\ io \in [Requests -> IOState]
    BY <1>1, <1>2, RequestState DEF StateInv, TypeOK, IoReady, IOState
  <1>4. /\ persist \in Seq(Entry)
        /\ AllFetched(r) \subseteq Range(persist)
        /\ \A e \in Range(persist) : e.grp = req[r].grp /\ Genuine(usage, e)
    BY <1>2, <1>3, PersistElements
  <1> HIDE DEF persist
  <1>5. /\ list \in Seq(Entry)
        /\ Range(persist) \subseteq Range(list)
        /\ Range(list) \subseteq Range(persist) \cup Range(cachedEstimates)
    BY <1>3, <1>4, MergeElements
  <1> HIDE DEF list
  <1>6. list # <<>>
    <2>1. Range(list) # {}
      BY <1>1, <1>4, <1>5
    <2> QED
      BY <2>1, EmptyList
  <1>7. io' = [io EXCEPT ![r] = [NoIO EXCEPT !.toStore = list]]
    BY <1>1, <1>3
  <1>8. Stores(r, persist, list)
    BY <1>1, <1>2, <1>4, <1>5, <1>6, <1>7 DEF Stores
  <1> QED
    BY <1>4, <1>5, <1>8

-----------------------------------------------------------------------------
(* The state invariant is kept by every step.                               *)

\* A load that is not to store anything finds the missing dates.
LEMMA FindKeepsState ==
    ASSUME StateInv, NEW r \in Requests, NEW entries \in Seq(Entry), LoadsFrom(r, entries),
           io[r].toStore = <<>>
    PROVE  StateInv'
  <1>1. /\ r \in InFlight /\ FindMissingDates(r, entries) /\ io' = [io EXCEPT ![r] = NoIO]
        /\ file' = file \/ file' = [file EXCEPT ![req[r].grp] = <<>>]
        /\ UNCHANGED <<usage, req, crashes, overlapped>>
    BY DEF LoadsFrom, Loaded
  <1>2. /\ req[r] \in RequestSpace /\ req[r].grp \in Groupings /\ fetchedEstimates \in Seq(Entry)
        /\ file \in [Groupings -> Seq(Cell) \cup {NoFile}]
    BY <1>1, RequestState
  <1>3. PICK found \in Seq(Entry), dates \in SUBSET DatesWithinRequestTimeFrame(req[r]) :
            Finds(r, entries, found, dates)
    BY <1>1, <1>2, FoundElements
  <1>4. ManagerInv'
    BY <1>1, FindKeeps DEF StateInv
  <1>5. PICK phase \in {"fetch", "done"} : pc' = [pc EXCEPT ![r] = phase]
    BY <1>3 DEF Finds
  <1>6. /\ file' \in [Groupings -> Seq(Cell) \cup {NoFile}]
        /\ \A g \in Groupings : file[g] # NoFile => file'[g] # NoFile
    BY <1>1, <1>2, NothingRead
  <1>7. phase \in Phases \ {"idle"} /\ phase \notin {"read", "write", "open"} /\ NoIO \in IOState
    BY <1>5, NothingRead DEF Phases
  <1> QED
    BY <1>1, <1>4, <1>5, <1>6, <1>7, MoveKeepsState

\* A load by a request that stores its entries merges them into those of the file.
Merges(r, list) ==
    /\ r \in InFlight /\ pc[r] \in {"access", "create", "read"} /\ io[r].toStore # <<>>
    /\ list # <<>>
    /\ Range(io[r].toStore) \subseteq Range(list)
    /\ \/ Range(list) \subseteq Range(io[r].toStore)
       \/ Range(list) \subseteq Range(io[r].toStore) \cup Range(CachedData(io[r].buf))
    /\ io' = [io EXCEPT ![r] = [NoIO EXCEPT !.out = list]]
    /\ pc' = [pc EXCEPT ![r] = "write"]
    /\ \/ file' = file /\ file[req[r].grp] # NoFile
       \/ file' = [file EXCEPT ![req[r].grp] = <<>>]
    /\ UNCHANGED <<usage, lists, req, call, answer, crashes, overlapped>>

LEMMA MergingStep ==
    ASSUME StateInv, NEW r \in Requests, NEW entries \in Seq(Entry), LoadsFrom(r, entries),
           io[r].toStore # <<>>
    PROVE  \E list \in Seq(Entry) : Merges(r, list)
  <1> DEFINE list == MergeEstimates(io[r].toStore, entries)
  <1>1. /\ r \in InFlight /\ pc[r] \in {"access", "create", "read"}
        /\ entries = <<>> \/ entries = CachedData(io[r].buf)
        /\ io' = [io EXCEPT ![r] = [NoIO EXCEPT !.out = list]]
        /\ pc' = [pc EXCEPT ![r] = "write"]
        /\ \/ file' = file /\ file[req[r].grp] # NoFile
           \/ file' = [file EXCEPT ![req[r].grp] = <<>>]
        /\ UNCHANGED <<usage, lists, req, call, answer, crashes, overlapped>>
    BY DEF LoadsFrom, Loaded, MergeIntoFile
  <1>2. io[r].toStore \in Seq(Entry)
    BY <1>1, RequestState DEF IOState
  <1>3. /\ list \in Seq(Entry)
        /\ Range(io[r].toStore) \subseteq Range(list)
        /\ Range(list) \subseteq Range(io[r].toStore) \cup Range(entries)
    BY <1>2, MergeElements
  <1> HIDE DEF list
  <1>4. Range(io[r].toStore) # {}
    <2> DEFINE given == io[r].toStore
    <2>1. given \in Seq(Entry) /\ given # <<>>
      BY <1>2
    <2> HIDE DEF given
    <2>2. 1 \in DOMAIN given
      BY <2>1, EmptySeq, LenProperties
    <2> QED
      BY <2>2 DEF Range, given
  <1>5. list # <<>>
    BY <1>3, <1>4, EmptyList
  <1>6. \/ Range(list) \subseteq Range(io[r].toStore)
        \/ Range(list) \subseteq Range(io[r].toStore) \cup Range(CachedData(io[r].buf))
    BY <1>1, <1>3, EmptyList
  <1>7. Merges(r, list)
    BY <1>1, <1>3, <1>5, <1>6 DEF Merges
  <1> QED
    BY <1>3, <1>7

\* Steps that leave the lists, the calls and the answers alone.
LEMMA QuietMove ==
    ASSUME StateInv, NEW r \in InFlight, NEW phase \in Phases \ {"idle", "fetch"},
           pc' = [pc EXCEPT ![r] = phase],
           UNCHANGED <<usage, lists, req, call, answer, crashes, overlapped>>
    PROVE  ManagerInv'
  <1>1. /\ r \in Requests /\ RequestsTyped /\ ManagerInv
        /\ cachedEstimates \in Seq(Entry) /\ fetchedEstimates \in Seq(Entry)
    BY RequestState
  <1>2. UNCHANGED <<usage, cachedEstimates, fetchedEstimates, req, call, answer, crashes, overlapped>>
    BY DEF lists
  <1>3. /\ pc' = [p \in Requests |-> pc'[p]] /\ pc'[r] = phase
        /\ \A p \in Requests : p # r => pc'[p] = pc[p]
    BY <1>1 DEF RequestsTyped
  <1>4. RequestsTyped'
    BY <1>1, <1>2, <1>3 DEF RequestsTyped
  <1> QED
    BY <1>1, <1>2, <1>3, <1>4, MoveKeeps

LEMMA MergeKeepsState ==
    ASSUME StateInv, NEW r \in Requests, NEW list \in Seq(Entry), Merges(r, list)
    PROVE  StateInv'
  <1>1. /\ r \in InFlight /\ list # <<>>
        /\ io' = [io EXCEPT ![r] = [NoIO EXCEPT !.out = list]]
        /\ pc' = [pc EXCEPT ![r] = "write"]
        /\ \/ file' = file /\ file[req[r].grp] # NoFile
           \/ file' = [file EXCEPT ![req[r].grp] = <<>>]
        /\ UNCHANGED <<usage, lists, req, call, answer, crashes, overlapped>>
    BY DEF Merges
  <1>2. "write" \in Phases \ {"idle", "fetch"}
    BY DEF Phases
  <1>3. ManagerInv'
    BY <1>1, <1>2, QuietMove
  <1>4. file \in [Groupings -> Seq(Cell) \cup {NoFile}] /\ req[r].grp \in Groupings
    BY <1>1, RequestState
  <1>5. /\ file' \in [Groupings -> Seq(Cell) \cup {NoFile}]
        /\ \A g \in Groupings : file[g] # NoFile => file'[g] # NoFile
        /\ file'[req[r].grp] # NoFile
    BY <1>1, <1>4, NothingRead
  <1> DEFINE mine == [NoIO EXCEPT !.out = list]
  <1>6. mine \in IOState /\ mine.out # <<>>
    BY <1>1, NothingRead DEF IOState, NoIO
  <1>7. io' = [io EXCEPT ![r] = mine]
    BY <1>1
  <1> HIDE DEF mine
  <1> QED
    BY <1>1, <1>2, <1>3, <1>5, <1>6, <1>7, MoveKeepsState

LEMMA SetKeepsState ==
    ASSUME StateInv, NEW r \in Requests, NEW persist \in Seq(Entry), NEW list \in Seq(Entry),
           Stores(r, persist, list)
    PROVE  StateInv'
  <1>1. /\ r \in InFlight /\ list # <<>>
        /\ cachedEstimates' = cachedEstimates /\ fetchedEstimates' = persist
        /\ io' = [io EXCEPT ![r] = [NoIO EXCEPT !.toStore = list]]
        /\ pc' = [pc EXCEPT ![r] = "open"]
        /\ call' = [call EXCEPT ![r] = NoCall]
        /\ UNCHANGED <<usage, req, answer, crashes, overlapped, file>>
    BY DEF Stores
  <1>2. /\ file \in [Groupings -> Seq(Cell) \cup {NoFile}] /\ RequestsTyped /\ ManagerInv
        /\ cachedEstimates \in Seq(Entry)
    BY <1>1, RequestState
  <1>3. /\ pc' = [p \in Requests |-> pc'[p]] /\ pc'[r] = "open"
        /\ \A p \in Requests : p # r => pc'[p] = pc[p] /\ call'[p] = call[p]
        /\ call' \in [Requests -> [missing: SUBSET Dates, pending: SUBSET Dates, got: SUBSET Entry]]
    BY <1>1, <1>2 DEF RequestsTyped, NoCall
  <1>4. RequestsTyped'
    BY <1>1, <1>2, <1>3 DEF RequestsTyped
  <1>5. ManagerInv'
    BY <1>1, <1>2, <1>3, <1>4, MoveKeeps
  <1> DEFINE mine == [NoIO EXCEPT !.toStore = list]
  <1>6. mine \in IOState /\ mine.toStore # <<>> /\ "open" \in Phases \ {"idle"}
    BY <1>1, NothingRead DEF IOState, NoIO, Phases
  <1>7. io' = [io EXCEPT ![r] = mine]
    BY <1>1
  <1> HIDE DEF mine
  <1>8. /\ r \in InFlight /\ UNCHANGED req /\ pc' = [pc EXCEPT ![r] = "open"]
        /\ file' \in [Groupings -> Seq(Cell) \cup {NoFile}]
        /\ \A g \in Groupings : file[g] # NoFile => file'[g] # NoFile
    BY <1>1, <1>2
  <1> QED
    BY <1>5, <1>6, <1>7, <1>8, MoveKeepsState

\* What a step of writeToFile leaves in the file, and what it has still to write.
Writes(r, cells, rest) ==
    /\ r \in InFlight /\ pc[r] = "write"
    /\ file[req[r].grp] \in Seq(Cell)
    /\ cells # <<>> /\ PartsOf(cells, Range(io[r].out))
    /\ Range(rest) \subseteq Range(io[r].out)
    /\ file' = [file EXCEPT ![req[r].grp] = Overlay(file[req[r].grp], io[r].at, cells)]
    /\ io' = [io EXCEPT ![r] = [io[r] EXCEPT !.out = rest, !.at = io[r].at + Len(cells)]]
    /\ pc' = IF rest = <<>> THEN [pc EXCEPT ![r] = "close"] ELSE [pc EXCEPT ![r] = "write"]
    /\ UNCHANGED <<usage, lists, req, call, answer, crashes, overlapped>>

LEMMA WritingStep ==
    ASSUME StateInv, NEW r \in Requests, WriteWindow(r)
    PROVE  \E cells \in Seq(Cell), rest \in Seq(Entry) : Writes(r, cells, rest)
  <1> DEFINE cells == Cells(Slice(io[r].out, 1, WindowSize))
             rest == SubSeq(io[r].out, WindowSize + 1, Len(io[r].out))
  <1>1. /\ pc[r] = "write" /\ r \in InFlight
        /\ file' = [file EXCEPT ![req[r].grp] = Overlay(@, io[r].at, cells)]
        /\ io' = [io EXCEPT ![r].out = rest, ![r].at = @ + Len(cells)]
        /\ pc' = IF rest = <<>> THEN [pc EXCEPT ![r] = "close"] ELSE pc
        /\ UNCHANGED <<usage, lists, req, call, answer, crashes, overlapped>>
    BY DEF WriteWindow, InFlight
  <1>2. /\ io[r].out \in Seq(Entry) /\ io[r].out # <<>> /\ io \in [Requests -> IOState]
        /\ file[req[r].grp] \in Seq(Cell) /\ pc = [p \in Requests |-> pc[p]]
    <2>1. /\ io[r] \in IOState /\ IoReady(r) /\ req[r].grp \in Groupings /\ RequestsTyped
          /\ file \in [Groupings -> Seq(Cell) \cup {NoFile}]
      BY <1>1, RequestState
    <2>2. io \in [Requests -> IOState]
      BY DEF StateInv, TypeOK, IOState
    <2> QED
      BY <1>1, <2>1, <2>2 DEF IoReady, IOState, RequestsTyped
  <1>3. cells \in Seq(Cell) /\ cells # <<>> /\ Len(cells) \in Nat /\ PartsOf(cells, Range(io[r].out))
    BY <1>2, WindowCells
  <1>4. rest \in Seq(Entry) /\ Range(rest) \subseteq Range(io[r].out)
    BY <1>2, RestOfList
  <1> HIDE DEF cells, rest
  <1>5. file' = [file EXCEPT ![req[r].grp] = Overlay(file[req[r].grp], io[r].at, cells)]
    BY <1>1
  <1>6. io' = [io EXCEPT ![r] = [io[r] EXCEPT !.out = rest, !.at = io[r].at + Len(cells)]]
    BY <1>1, <1>2
  <1>7. pc = [pc EXCEPT ![r] = "write"]
    BY <1>1, <1>2
  <1>8. Writes(r, cells, rest)
    BY <1>1, <1>2, <1>3, <1>4, <1>5, <1>6, <1>7 DEF Writes
  <1> QED
    BY <1>3, <1>4, <1>8

LEMMA WriteKeepsState ==
    ASSUME StateInv, NEW r \in Requests, NEW cells \in Seq(Cell), NEW rest \in Seq(Entry),
           Writes(r, cells, rest)
    PROVE  StateInv'
  <1>1. /\ r \in InFlight /\ pc[r] = "write" /\ cells # <<>>
        /\ file[req[r].grp] \in Seq(Cell)
        /\ file' = [file EXCEPT ![req[r].grp] = Overlay(file[req[r].grp], io[r].at, cells)]
        /\ io' = [io EXCEPT ![r] = [io[r] EXCEPT !.out = rest, !.at = io[r].at + Len(cells)]]
        /\ pc' = IF rest = <<>> THEN [pc EXCEPT ![r] = "close"] ELSE [pc EXCEPT ![r] = "write"]
        /\ UNCHANGED <<usage, lists, req, call, answer, crashes, overlapped>>
    BY DEF Writes
  <1>2. /\ req[r].grp \in Groupings /\ io[r] \in IOState
        /\ file \in [Groupings -> Seq(Cell) \cup {NoFile}]
    BY <1>1, RequestState
  <1> DEFINE phase == IF rest = <<>> THEN "close" ELSE "write"
             mine == [io[r] EXCEPT !.out = rest, !.at = io[r].at + Len(cells)]
             content == Overlay(file[req[r].grp], io[r].at, cells)
  <1>3. phase \in Phases \ {"idle", "fetch"} /\ pc' = [pc EXCEPT ![r] = phase] /\ phase \notin {"read", "open"}
    BY <1>1 DEF Phases
  <1>4. Len(cells) \in Nat
    BY LenProperties
  <1>5. mine \in IOState /\ mine.out = rest
    <2>1. io[r].at + Len(cells) \in Nat
      BY <1>2, <1>4 DEF IOState
    <2> DEFINE at == io[r].at + Len(cells)
    <2> HIDE DEF at
    <2>2. [io[r] EXCEPT !.out = rest, !.at = at] \in IOState /\ [io[r] EXCEPT !.out = rest, !.at = at].out = rest
      BY <1>2, <2>1 DEF IOState, at
    <2> QED
      BY <2>2 DEF at
  <1>6. content \in Seq(Cell)
    <2>1. PartsOf(file[req[r].grp], Entry) /\ PartsOf(cells, Entry) /\ io[r].at \in Nat
      BY <1>1, <1>2, PartsOfEntries DEF IOState
    <2> QED
      BY <1>1, <2>1, OverlayElements
  <1>7. file' = [file EXCEPT ![req[r].grp] = content] /\ io' = [io EXCEPT ![r] = mine]
    BY <1>1
  <1>8. phase = "write" => rest # <<>>
    OBVIOUS
  <1> HIDE DEF phase, mine, content
  <1>9. /\ file' \in [Groupings -> Seq(Cell) \cup {NoFile}]
        /\ \A g \in Groupings : file[g] # NoFile => file'[g] # NoFile
        /\ file'[req[r].grp] # NoFile
    BY <1>2, <1>6, <1>7, LocalCacheAssumption
  <1>10. ManagerInv' /\ r \in InFlight /\ UNCHANGED req
    BY <1>1, <1>3, QuietMove
  <1> QED
    BY <1>3, <1>5, <1>7, <1>8, <1>9, <1>10, MoveKeepsState

LEMMA ReadKeepsState ==
    ASSUME StateInv, NEW r \in Requests, ReadChunk(r)
    PROVE  /\ StateInv'
           /\ \E part \in Seq(Cell) :
                 /\ Range(part) \subseteq Range(file[req[r].grp]) /\ file[req[r].grp] # NoFile
                 /\ io[r].buf \in Seq(Cell)
                 /\ io' = [io EXCEPT ![r] = [io[r] EXCEPT !.buf = io[r].buf \o part]]
  <1> DEFINE cells == file[req[r].grp]
             got == Len(io[r].buf)
             part == Slice(cells, got + 1, got + ReadSize)
  <1>1. /\ pc[r] = "read" /\ r \in InFlight
        /\ io' = [io EXCEPT ![r].buf = @ \o part]
        /\ UNCHANGED <<usage, lists, pc, req, call, answer, crashes, overlapped, file>>
    BY DEF ReadChunk, InFlight, managerVars
  <1>2. /\ io[r] \in IOState /\ IoReady(r) /\ req[r].grp \in Groupings /\ r \in Requests
        /\ file \in [Groupings -> Seq(Cell) \cup {NoFile}]
    BY <1>1, RequestState
  <1>3. cells \in Seq(Cell) /\ cells # NoFile /\ io[r].buf \in Seq(Cell) /\ got \in Nat
    BY <1>1, <1>2 DEF IoReady, IOState
  <1>4. part \in Seq(Cell) /\ Range(part) \subseteq Range(cells)
    <2>1. got + 1 \in Nat \ {0} /\ got + ReadSize \in Int
      BY <1>3, LocalCacheAssumption
    <2> HIDE DEF cells, got
    <2> QED
      BY <1>3, <2>1, SliceElements
  <1> HIDE DEF part
  <1> DEFINE mine == [io[r] EXCEPT !.buf = io[r].buf \o part]
  <1>5. mine \in IOState /\ mine.out = io[r].out /\ mine.toStore = io[r].toStore
    <2>1. io[r].buf \o part \in Seq(Cell)
      BY <1>3, <1>4, ConcatElements
    <2> QED
      BY <1>2, <2>1 DEF IOState
  <1>6. io \in [Requests -> IOState] /\ pc \in [Requests -> Phases]
    BY DEF StateInv, TypeOK, IOState
  <1>7. io' = [io EXCEPT ![r] = mine]
    BY <1>1, <1>6
  <1>8. pc' = [pc EXCEPT ![r] = "read"] /\ "read" \in Phases \ {"idle", "fetch"}
    BY <1>1, <1>6 DEF Phases
  <1>9. ManagerInv'
    BY <1>1, <1>8, QuietMove
  <1>10. StateInv'
    <2> HIDE DEF mine
    <2> QED
      BY <1>1, <1>2, <1>3, <1>5, <1>7, <1>8, <1>9, MoveKeepsState
  <1> QED
    BY <1>3, <1>4, <1>7, <1>10

\* A request goes on without reading or writing.
LEMMA StayKeepsState ==
    ASSUME StateInv, ManagerInv', NEW r \in InFlight, UNCHANGED <<req, io, file>>,
           NEW phase \in Phases \ {"idle", "fetch", "write"}, pc' = [pc EXCEPT ![r] = phase],
           phase = "read" => file[req[r].grp] # NoFile, phase = "open" => io[r].toStore # <<>>
    PROVE  StateInv'
  <1>1. io[r] \in IOState /\ file \in [Groupings -> Seq(Cell) \cup {NoFile}]
    BY RequestState
  <1>2. io' = [io EXCEPT ![r] = io[r]]
    BY DEF StateInv, TypeOK
  <1> QED
    BY <1>1, <1>2, MoveKeepsState

LEMMA RejectKeepsState ==
    ASSUME StateInv, NEW r \in InFlight, Reject(r), UNCHANGED <<file, io>>
    PROVE  StateInv'
  <1>1. ManagerInv'
    BY RejectKeeps DEF StateInv
  <1>2. UNCHANGED req /\ pc' = [pc EXCEPT ![r] = "failed"] /\ "failed" \in Phases \ {"idle", "fetch", "write"}
    BY DEF Reject, Phases
  <1> QED
    BY <1>1, <1>2, StayKeepsState

LEMMA FetchKeepsState ==
    ASSUME StateInv, NEW r \in Requests, Fetch(r)
    PROVE  StateInv'
  <1>1. UNCHANGED <<file, io>>
    BY DEF Fetch
  <1>2. CASE \E run \in SUBSET Dates : FetchSome(r, run)
    <2>1. PICK run \in SUBSET Dates : FetchSome(r, run)
      BY <1>2
    <2>2. UNCHANGED <<pc, req>>
      BY <2>1 DEF FetchSome
    <2>3. ManagerInv'
      BY <2>1, FetchSomeKeeps DEF StateInv
    <2> QED
      BY <1>1, <2>2, <2>3 DEF StateInv, TypeOK, ManagerInv, IoReady
  <1>3. CASE FetchUnstored(r)
    <2>1. ManagerInv' /\ r \in InFlight /\ UNCHANGED req
      BY <1>3, FetchUnstoredKeeps, AllFetchedHolds DEF StateInv, FetchUnstored
    <2>2. HoldsUsageOf(usage, req[r].grp, call[r].missing, AllFetched(r))
      BY <1>3, AllFetchedHolds DEF StateInv, FetchUnstored
    <2>3. ByDate(AllFetched(r)) \in Seq(Entry) /\ <<>> \in Seq(Entry)
      BY <2>2, ByDateElements DEF HoldsUsageOf
    <2>4. PICK cached \in Seq(Entry), fetched \in Seq(Entry) : AnswerFrom(r, cached, fetched)
      BY <1>3, <2>1, <2>3, RequestState DEF FetchUnstored, AnswerUnstored
    <2>5. pc' = [pc EXCEPT ![r] = "done"]
      BY <2>4 DEF AnswerFrom
    <2>6. "done" \in Phases \ {"idle", "fetch", "write"}
      BY DEF Phases
    <2> QED
      BY <1>1, <2>1, <2>5, <2>6, StayKeepsState
  <1>4. CASE FetchFails(r)
    BY <1>1, <1>4, RejectKeepsState DEF FetchFails, InFlight
  <1> QED
    BY <1>2, <1>3, <1>4 DEF Fetch

\* The answer of a request whose entries are stored, or could not be.
LEMMA CloseKeepsState ==
    ASSUME StateInv, NEW r \in Requests, Close(r)
    PROVE  StateInv'
  <1>1. /\ pc[r] = "close" /\ r \in InFlight
        /\ AnswerFrom(r, cachedEstimates, fetchedEstimates)
        /\ io' = [io EXCEPT ![r] = NoIO]
        /\ UNCHANGED <<usage, cachedEstimates, fetchedEstimates, req, crashes, overlapped, file>>
    BY DEF Close, InFlight, lists
  <1>2. /\ cachedEstimates \in Seq(Entry) /\ fetchedEstimates \in Seq(Entry)
        /\ file \in [Groupings -> Seq(Cell) \cup {NoFile}]
    BY <1>1, RequestState
  <1>3. ManagerInv'
    BY <1>1, <1>2, AnswerKeeps DEF StateInv
  <1>4. pc' = [pc EXCEPT ![r] = "done"] /\ "done" \in Phases \ {"idle"}
    BY <1>1 DEF AnswerFrom, Phases
  <1> QED
    BY <1>1, <1>2, <1>3, <1>4, NothingRead, MoveKeepsState

LEMMA AccessKeepsState ==
    ASSUME StateInv, NEW r \in Requests, AccessFile(r)
    PROVE  StateInv'
  <1>1. /\ r \in InFlight
        /\ UNCHANGED <<usage, lists, req, call, answer, crashes, overlapped, file, io>>
    BY DEF AccessFile, InFlight
  <1>2. PICK phase \in {"create", "read"} :
            /\ pc' = [pc EXCEPT ![r] = phase]
            /\ phase = "read" => file[req[r].grp] # NoFile
    BY DEF AccessFile
  <1>3. phase \in Phases \ {"idle", "fetch"} /\ phase \in Phases \ {"idle", "fetch", "write"}
    BY <1>2 DEF Phases
  <1>4. ManagerInv'
    BY <1>1, <1>2, <1>3, QuietMove
  <1> QED
    BY <1>1, <1>2, <1>3, <1>4, StayKeepsState

LEMMA OpenKeepsState ==
    ASSUME StateInv, NEW r \in Requests, OpenFile(r) \/ StoreFails(r)
    PROVE  StateInv'
  <1>1. /\ r \in InFlight
        /\ UNCHANGED <<usage, lists, req, call, answer, crashes, overlapped, file, io>>
    BY DEF OpenFile, StoreFails, InFlight
  <1>2. PICK phase \in {"access", "close"} : pc' = [pc EXCEPT ![r] = phase]
    BY DEF OpenFile, StoreFails
  <1>3. phase \in Phases \ {"idle", "fetch"} /\ phase \in Phases \ {"idle", "fetch", "write"}
    BY <1>2 DEF Phases
  <1>4. ManagerInv'
    BY <1>1, <1>2, <1>3, QuietMove
  <1> QED
    BY <1>1, <1>2, <1>3, <1>4, StayKeepsState

LEMMA StateKept == StateInv /\ [Next]_vars => StateInv'
  <1> SUFFICES ASSUME StateInv, [Next]_vars PROVE StateInv'
    OBVIOUS
  <1>1. ASSUME NEW g \in Groupings, NEW d \in Dates, Publish(g, d)
        PROVE  StateInv'
    <2>1. ManagerInv'
      BY <1>1, PublishKeeps DEF StateInv, Publish
    <2>2. UNCHANGED <<pc, req, file, io>>
      BY <1>1 DEF Publish, PublishUsage
    <2> QED
      BY <2>1, <2>2 DEF StateInv, TypeOK, ManagerInv, IoReady
  <1>2. ASSUME NEW r \in Requests, NEW q \in RequestSpace, Arrive(r, q)
        PROVE  StateInv'
    BY <1>2, ArriveKeepsState
  <1>3. CASE ProcessEnds
    BY <1>3, EndKeepsState
  <1>4. ASSUME NEW r \in Requests, Step(r)
        PROVE  StateInv'
    <2>1. CASE AccessFile(r)
      BY <2>1, AccessKeepsState
    <2>2. CASE CreateCacheFile(r) \/ AccessFails(r) \/ ReadEnd(r)
      <3>1. PICK entries \in Seq(Entry) : LoadsFrom(r, entries)
        BY <2>2, LoadingSteps
      <3> QED
        BY <3>1, FindKeepsState, MergingStep, MergeKeepsState
    <2>3. CASE CreateFails(r)
      BY <2>3, RejectKeepsState DEF CreateFails, InFlight
    <2>4. CASE ReadChunk(r)
      BY <2>4, ReadKeepsState
    <2>5. CASE Fetch(r)
      BY <2>5, FetchKeepsState
    <2>6. CASE SetEstimates(r)
      BY <2>6, StoringStep, SetKeepsState
    <2>7. CASE OpenFile(r) \/ StoreFails(r)
      BY <2>7, OpenKeepsState
    <2>8. CASE WriteWindow(r)
      BY <2>8, WritingStep, WriteKeepsState
    <2>9. CASE Close(r)
      BY <2>9, CloseKeepsState
    <2> QED
      BY <1>4, <2>1, <2>2, <2>3, <2>4, <2>5, <2>6, <2>7, <2>8, <2>9 DEF Step
  <1>5. ASSUME NEW r \in Requests, ReadStreamFails(r)
        PROVE  StateInv'
    BY <1>3, <1>5 DEF ReadStreamFails
  <1>6. CASE UNCHANGED vars
    <2>1. UNCHANGED <<usage, lists, pc, req, call, answer, crashes, overlapped, file, io>>
      BY <1>6 DEF vars, managerVars
    <2> QED
      BY <2>1 DEF StateInv, TypeOK, IoReady, ManagerInv, ManagerTypeOK, InFlight, Consistent, lists
  <1> QED
    BY <1>1, <1>2, <1>3, <1>4, <1>5, <1>6 DEF Next, Crash

\* Every step of the requests, the files and the environment keeps the state typed.
THEOREM TypeCorrect == Spec => []TypeOK
  <1>1. StateInv => TypeOK
    BY DEF StateInv
  <1> QED
    BY <1>1, StateInitially, StateKept, PTL DEF Spec

-----------------------------------------------------------------------------
(* What the entries say: the invariants behind the completeness of answers. *)

(* The entries that may be in the file of a grouping: those of closed dates *)
(* made from the usage billed, and of that grouping unless requests of two  *)
(* groupings have overlapped.                                               *)
Proper(g) == {e \in Entry : Genuine(usage, e) /\ (OneGroupingOverlapped => e.grp = g)}

FilesInv == \A g \in Groupings : file[g] # NoFile => PartsOf(file[g], Proper(g))

\* What a request has found, read and is storing.
Holds(r) ==
    /\ PartsOf(io[r].buf, Proper(req[r].grp))
    /\ Range(io[r].toStore) \subseteq Proper(req[r].grp)
    /\ Range(io[r].out) \subseteq Proper(req[r].grp)
    /\ pc[r] = "fetch" => Range(cachedEstimates) \subseteq Proper(req[r].grp)

\* The request stores what it fetched, and goes on to its answer from there.
Storing(r) ==
    \/ pc[r] \in {"open", "write", "close"}
    \/ pc[r] \in {"access", "create", "read"} /\ io[r].toStore # <<>>

(* A request has found the dates of its window that it does not fetch, and  *)
(* has all those with usage once it stores.                                 *)
Covers(r) ==
    /\ pc[r] = "fetch" =>
          \A d \in DatesWithinRequestTimeFrame(req[r]) \ call[r].missing :
              \E e \in Range(cachedEstimates) : e.date = d
    /\ Storing(r) =>
          \A d \in DatesWithinRequestTimeFrame(req[r]) \ LateDates :
              usage[req[r].grp][d] > 0 =>
                  \E e \in Range(cachedEstimates) \cup Range(fetchedEstimates) :
                      e.grp = req[r].grp /\ e.date = d /\ e.ver # 0

CoveredInv == OneGroupingOverlapped => \A r \in Requests \ overlapped : Covers(r)

EntriesInv == FilesInv /\ (\A r \in Requests : Holds(r)) /\ CoveredInv /\ AloneComplete

LEMMA ProperStays ==
    ASSUME \A h \in Groupings, c \in Dates \ LateDates : usage'[h][c] = usage[h][c],
           OneGroupingOverlapped' => OneGroupingOverlapped, NEW g
    PROVE  Proper(g) \subseteq Proper(g)'
  <1>1. \A e \in Entry : Genuine(usage, e) => Genuine(usage', e)
    BY DEF Genuine, Entry
  <1> QED
    BY <1>1 DEF Proper

LEMMA ProperShared ==
    ASSUME ManagerInv, NEW p \in InFlight, NEW q \in InFlight
    PROVE  Proper(req[p].grp) = Proper(req[q].grp)
  BY InFlightTogether DEF Proper

LEMMA NothingHeld ==
    ASSUME NEW S
    PROVE  PartsOf(NoIO.buf, S) /\ Range(NoIO.toStore) \subseteq S /\ Range(NoIO.out) \subseteq S
  BY EmptyList DEF NoIO, PartsOf

LEMMA EntriesInitially == Init => EntriesInv
  <1> SUFFICES ASSUME Init PROVE EntriesInv
    OBVIOUS
  <1>1. /\ overlapped = {} /\ \A g \in Groupings : file[g] = NoFile
        /\ \A r \in Requests : io[r] = NoIO /\ pc[r] = "idle"
    BY DEF Init, ManagerInit
  <1>2. AloneComplete
    BY <1>1 DEF AloneComplete, Served
  <1>3. CoveredInv
    BY <1>1 DEF CoveredInv, Covers, Storing
  <1>4. \A r \in Requests : Holds(r)
    BY <1>1, NothingHeld DEF Holds
  <1> QED
    BY <1>1, <1>2, <1>3, <1>4 DEF EntriesInv, FilesInv

LEMMA PublishKeepsEntries ==
    ASSUME StateInv, EntriesInv, NEW g \in Groupings, NEW d \in Dates, Publish(g, d)
    PROVE  EntriesInv'
  <1>1. UNCHANGED <<cachedEstimates, fetchedEstimates, pc, req, call, answer, overlapped, file, io>>
    BY DEF Publish, PublishUsage, lists
  <1>2. \A h \in Groupings, c \in Dates \ LateDates : usage'[h][c] = usage[h][c]
    BY PublishKeeps DEF StateInv, Publish
  <1>3. OneGroupingOverlapped' <=> OneGroupingOverlapped
    BY <1>1 DEF OneGroupingOverlapped
  <1>4. \A h : Proper(h) \subseteq Proper(h)'
    BY <1>2, <1>3, ProperStays
  <1>5. FilesInv'
    BY <1>1, <1>4 DEF EntriesInv, FilesInv, PartsOf
  <1>6. ASSUME NEW r \in Requests
        PROVE  Holds(r)'
    <2>1. Proper(req[r].grp) \subseteq Proper(req[r].grp)'
      BY <1>1, <1>4
    <2> QED
      BY <1>1, <2>1 DEF EntriesInv, Holds, PartsOf
  <1>7. \A r \in Requests : pc[r] # "idle" =>
            req[r].grp \in Groupings /\ DatesWithinRequestTimeFrame(req[r]) \subseteq Dates
    BY RequestFields DEF StateInv, ManagerInv
  <1>8. CoveredInv'
    <2> SUFFICES ASSUME OneGroupingOverlapped, NEW r \in Requests \ overlapped
                 PROVE  Covers(r)'
      BY <1>1, <1>3 DEF CoveredInv
    <2>1. Covers(r)
      BY DEF EntriesInv, CoveredInv
    <2>2. CASE pc[r] = "idle"
      BY <1>1, <2>2 DEF Covers, Storing
    <2>3. CASE pc[r] # "idle"
      BY <1>1, <1>2, <1>7, <2>1, <2>3 DEF Covers, Storing
    <2> QED
      BY <2>2, <2>3
  <1>9. AloneComplete'
    <2> SUFFICES ASSUME OneGroupingOverlapped, NEW r \in Requests, Served(r), r \notin overlapped
                 PROVE  Complete(r)'
      BY <1>1, <1>3 DEF AloneComplete, Served
    <2>1. Complete(r) /\ pc[r] # "idle"
      BY DEF EntriesInv, AloneComplete, Served
    <2> QED
      BY <1>1, <1>2, <1>7, <2>1 DEF Complete, AnswersDate
  <1> QED
    BY <1>5, <1>6, <1>8, <1>9 DEF EntriesInv

LEMMA ArriveKeepsEntries ==
    ASSUME StateInv, EntriesInv, NEW r \in Requests, NEW q \in RequestSpace, Arrive(r, q)
    PROVE  EntriesInv'
  <1>1. /\ UNCHANGED <<usage, cachedEstimates, fetchedEstimates, call, answer, file, io>>
        /\ pc[r] = "idle" /\ pc' = [pc EXCEPT ![r] = "access"]
        /\ overlapped \subseteq overlapped'
    BY DEF Arrive, Admit, lists
  <1>2. /\ \A p \in overlapped : req'[p] = req[p]
        /\ \A p \in Requests : p # r => req'[p] = req[p] /\ pc'[p] = pc[p]
    BY AdmitKeeps DEF StateInv, Arrive
  <1>3. pc'[r] = "access" /\ io[r] = NoIO /\ NoIO.toStore = <<>>
    BY <1>1 DEF StateInv, ManagerInv, IoReady, NoIO
  <1>4. OneGroupingOverlapped' => OneGroupingOverlapped
    BY <1>1, <1>2, GroupingStays
  <1>5. \A h : Proper(h) \subseteq Proper(h)'
    BY <1>1, <1>4, ProperStays
  <1>6. FilesInv'
    BY <1>1, <1>5 DEF EntriesInv, FilesInv, PartsOf
  <1>7. ASSUME NEW p \in Requests
        PROVE  Holds(p)'
    <2>1. CASE p = r
      BY <1>1, <1>3, <2>1, NothingHeld DEF Holds
    <2>2. CASE p # r
      <3>1. req'[p] = req[p] /\ pc'[p] = pc[p]
        BY <1>2, <2>2
      <3>2. Proper(req[p].grp) \subseteq Proper(req[p].grp)'
        BY <1>5, <3>1
      <3> QED
        BY <1>1, <3>1, <3>2 DEF EntriesInv, Holds, PartsOf
    <2> QED
      BY <2>1, <2>2
  <1>8. CoveredInv'
    <2> SUFFICES ASSUME OneGroupingOverlapped, NEW p \in Requests \ overlapped
                 PROVE  Covers(p)'
      BY <1>1, <1>4 DEF CoveredInv
    <2>1. CASE p = r
      BY <1>1, <1>3, <2>1 DEF Covers, Storing
    <2>2. CASE p # r
      BY <1>1, <1>2, <2>2 DEF EntriesInv, CoveredInv, Covers, Storing
    <2> QED
      BY <2>1, <2>2
  <1>9. AloneComplete'
    BY <1>1, <1>2, <1>3, <1>4 DEF EntriesInv, AloneComplete, Served, Complete, AnswersDate
  <1> QED
    BY <1>6, <1>7, <1>8, <1>9 DEF EntriesInv

LEMMA EndKeepsEntries ==
    ASSUME StateInv, EntriesInv, ProcessEnds
    PROVE  EntriesInv'
  <1>1. /\ UNCHANGED <<usage, req, answer, overlapped>> /\ LoseMemory
        /\ io' = [r \in Requests |-> NoIO]
    BY DEF ProcessEnds, LoseMemory
  <1>2. InFlight' = {} /\ \A r \in Requests : pc'[r] \in {pc[r], "failed"}
    BY <1>1, LoseMemoryKeeps DEF StateInv
  <1>3. \A r \in Requests : pc'[r] \in {"idle", "done", "failed"} /\ (pc'[r] = "done" => pc[r] = "done")
    BY <1>2 DEF InFlight
  <1>4. OneGroupingOverlapped' <=> OneGroupingOverlapped
    BY <1>1 DEF OneGroupingOverlapped
  <1>5. \A g : Proper(g)' = Proper(g)
    BY <1>1, <1>4 DEF Proper
  <1>6. FilesInv'
    <2>1. CASE file' = file
      BY <1>5, <2>1 DEF EntriesInv, FilesInv
    <2>2. ASSUME NEW r \in InFlight, NEW cells \in Seq(Cell),
                 cells # <<>>, PartsOf(cells, Range(io[r].out)), file[req[r].grp] # NoFile,
                 file' = [file EXCEPT ![req[r].grp] = Overlay(file[req[r].grp], io[r].at, cells)]
          PROVE  FilesInv'
      <3> DEFINE h == req[r].grp
      <3>1. /\ r \in Requests /\ h \in Groupings /\ io[r].at \in Nat
            /\ file \in [Groupings -> Seq(Cell) \cup {NoFile}]
        BY RequestState DEF IOState
      <3>2. PartsOf(file[h], Proper(h)) /\ PartsOf(cells, Proper(h)) /\ file[h] \in Seq(Cell)
        BY <2>2, <3>1 DEF EntriesInv, FilesInv, Holds, PartsOf
      <3>3. PartsOf(Overlay(file[h], io[r].at, cells), Proper(h))
        BY <2>2, <3>1, <3>2, OverlayElements
      <3> QED
        BY <1>5, <2>2, <3>1, <3>3 DEF EntriesInv, FilesInv
    <2> QED
      BY <2>1, <2>2, EndedFiles
  <1>7. \A r \in Requests : Holds(r)'
    BY <1>1, <1>3, NothingHeld DEF Holds
  <1>8. CoveredInv'
    BY <1>3 DEF CoveredInv, Covers, Storing
  <1>9. AloneComplete'
    BY <1>1, <1>3, <1>4 DEF EntriesInv, AloneComplete, Served, Complete, AnswersDate
  <1> QED
    BY <1>6, <1>7, <1>8, <1>9 DEF EntriesInv

\* A step of a request: the others keep what they have, if what the managers' lists and
\* the file hold afterwards may be there.
LEMMA StepKeepsEntries ==
    ASSUME StateInv, EntriesInv, NEW r \in InFlight, UNCHANGED <<usage, req, overlapped>>,
           \A p \in Requests : p # r =>
               pc'[p] = pc[p] /\ call'[p] = call[p] /\ answer'[p] = answer[p] /\ io'[p] = io[p],
           \/ cachedEstimates' = cachedEstimates
           \/ Range(cachedEstimates') \subseteq Proper(req[r].grp),
           \A g \in Groupings :
               file'[g] = file[g] \/ (g = req[r].grp /\ PartsOf(file'[g], Proper(g))),
           Holds(r)',
           OneGroupingOverlapped /\ r \notin overlapped => Covers(r)' /\ (Served(r)' => Complete(r)')
    PROVE  EntriesInv'
  <1>1. OneGroupingOverlapped' <=> OneGroupingOverlapped
    BY DEF OneGroupingOverlapped
  <1>2. \A g : Proper(g)' = Proper(g)
    BY <1>1 DEF Proper
  <1>3. FilesInv'
    BY <1>2 DEF EntriesInv, FilesInv
  <1>4. ASSUME NEW p \in Requests, p # r
        PROVE  Holds(p)'
    <2>1. Holds(p)
      BY DEF EntriesInv
    <2>2. Proper(req[p].grp)' = Proper(req[p].grp)
      BY <1>2
    <2>3. pc[p] = "fetch" => Range(cachedEstimates') \subseteq Proper(req[p].grp)
      <3> SUFFICES ASSUME pc[p] = "fetch" PROVE Range(cachedEstimates') \subseteq Proper(req[p].grp)
        OBVIOUS
      <3>1. p \in InFlight
        BY DEF InFlight
      <3>2. Proper(req[p].grp) = Proper(req[r].grp)
        BY <3>1, ProperShared DEF StateInv
      <3> QED
        BY <2>1, <3>2 DEF Holds
    <2> QED
      BY <1>4, <2>1, <2>2, <2>3 DEF Holds
  <1>5. CoveredInv'
    <2> SUFFICES ASSUME OneGroupingOverlapped, NEW p \in Requests \ overlapped, p # r
                 PROVE  Covers(p)'
      BY <1>1 DEF CoveredInv
    <2>1. p \notin InFlight
      BY InFlightTogether DEF StateInv
    <2> QED
      BY <2>1 DEF InFlight, Covers, Storing
  <1>6. AloneComplete'
    BY <1>1 DEF EntriesInv, AloneComplete, Served, Complete, AnswersDate
  <1> QED
    BY <1>3, <1>4, <1>5, <1>6 DEF EntriesInv

\* A request by itself that is answered from entries of all dates of its window with usage.
LEMMA AnsweredFromAll ==
    ASSUME StateInv, NEW r \in InFlight, UNCHANGED <<usage, req>>, NEW S, NEW list \in Seq(Entry),
           \A d \in DatesWithinRequestTimeFrame(req[r]) \ LateDates :
               usage[req[r].grp][d] > 0 => \E e \in S : e.grp = req[r].grp /\ e.date = d /\ e.ver # 0,
           answer' = [answer EXCEPT ![r] = list], \A e \in S : e.ver # 0 => e \in Range(list)
    PROVE  Complete(r)'
  <1>1. r \in Requests /\ answer'[r] = list
    BY DEF StateInv, ManagerInv, ManagerTypeOK, InFlight
  <1> QED
    BY <1>1 DEF Complete, AnswersDate, Range

\* Proper entries of closed dates with usage hold it.
LEMMA ProperUsed ==
    ASSUME OneGroupingOverlapped, NEW g, NEW e \in Proper(g), e.date \notin LateDates,
           usage[g][e.date] > 0
    PROVE  e.grp = g /\ e.ver # 0
  BY DEF Proper, Genuine

LEMMA FetchedAll ==
    ASSUME StateInv, EntriesInv, OneGroupingOverlapped,
           NEW r \in Requests, LastFetch(r), r \notin overlapped
    PROVE  \A d \in DatesWithinRequestTimeFrame(req[r]) \ LateDates :
               usage[req[r].grp][d] > 0 =>
                   \E e \in Range(cachedEstimates) \cup AllFetched(r) :
                       e.grp = req[r].grp /\ e.date = d /\ e.ver # 0
  <1>1. /\ r \in InFlight /\ pc[r] = "fetch"
        /\ HoldsUsageOf(usage, req[r].grp, call[r].missing, AllFetched(r))
    BY AllFetchedHolds DEF StateInv, LastFetch
  <1> TAKE d \in DatesWithinRequestTimeFrame(req[r]) \ LateDates
  <1> SUFFICES ASSUME usage[req[r].grp][d] > 0
               PROVE  \E e \in Range(cachedEstimates) \cup AllFetched(r) :
                          e.grp = req[r].grp /\ e.date = d /\ e.ver # 0
    OBVIOUS
  <1>2. CASE d \in call[r].missing
    BY <1>1, <1>2 DEF HoldsUsageOf
  <1>3. CASE d \notin call[r].missing
    <2>1. PICK e \in Range(cachedEstimates) : e.date = d
      BY <1>1, <1>3 DEF EntriesInv, CoveredInv, Covers
    <2>2. e \in Proper(req[r].grp)
      BY <1>1, <2>1 DEF EntriesInv, Holds
    <2> QED
      BY <2>1, <2>2, ProperUsed
  <1> QED
    BY <1>2, <1>3

LEMMA FindKeepsEntries ==
    ASSUME StateInv, EntriesInv, NEW r \in Requests, NEW entries \in Seq(Entry),
           LoadsFrom(r, entries), io[r].toStore = <<>>
    PROVE  EntriesInv'
  <1>1. /\ r \in InFlight /\ FindMissingDates(r, entries) /\ io' = [io EXCEPT ![r] = NoIO]
        /\ entries = <<>> \/ entries = CachedData(io[r].buf)
        /\ file' = file \/ file' = [file EXCEPT ![req[r].grp] = <<>>]
        /\ UNCHANGED <<usage, req, crashes, overlapped>>
    BY DEF LoadsFrom, Loaded
  <1>2. /\ req[r] \in RequestSpace /\ req[r].grp \in Groupings /\ fetchedEstimates \in Seq(Entry)
        /\ DatesWithinRequestTimeFrame(req[r]) \subseteq Dates /\ ManagerInv /\ RequestsTyped
        /\ file \in [Groupings -> Seq(Cell) \cup {NoFile}] /\ io[r].buf \in Seq(Cell)
    BY <1>1, RequestState DEF IOState
  <1>3. PICK found \in Seq(Entry), dates \in SUBSET DatesWithinRequestTimeFrame(req[r]) :
            Finds(r, entries, found, dates)
    BY <1>1, <1>2, FoundElements
  <1>4. Range(entries) \subseteq Proper(req[r].grp)
    <2>1. PartsOf(io[r].buf, Proper(req[r].grp))
      BY DEF EntriesInv, Holds
    <2> QED
      BY <1>1, <1>2, <2>1, CachedElements, EmptyList
  <1>5. cachedEstimates' = found /\ Range(found) \subseteq Proper(req[r].grp)
    BY <1>3, <1>4 DEF Finds
  <1>6. OneGroupingOverlapped =>
            \A d \in DatesWithinRequestTimeFrame(req[r]) \ dates : \E e \in Range(found) : e.date = d
    <2>1. OneGroupingOverlapped => OfGrouping(entries, req[r].grp)
      BY <1>4 DEF Proper, OfGrouping
    <2> QED
      BY <1>3, <2>1 DEF Finds
  <1>7. \A p \in Requests : p # r =>
            pc'[p] = pc[p] /\ call'[p] = call[p] /\ answer'[p] = answer[p] /\ io'[p] = io[p]
    BY <1>1, <1>2, <1>3 DEF Finds, RequestsTyped, StateInv, TypeOK
  <1>8. io'[r] = NoIO
    BY <1>1 DEF StateInv, TypeOK
  <1>9. pc'[r] \in {"fetch", "done"} /\ (pc'[r] = "fetch" => call'[r].missing = dates)
    <2>1. \/ /\ pc' = [pc EXCEPT ![r] = "fetch"]
             /\ call' = [call EXCEPT ![r] = [missing |-> dates, pending |-> dates, got |-> {}]]
          \/ pc' = [pc EXCEPT ![r] = "done"]
      BY <1>3 DEF Finds
    <2> QED
      BY <1>2, <2>1 DEF RequestsTyped
  <1>10. Holds(r)'
    <2>1. Proper(req[r].grp)' = Proper(req[r].grp)
      BY <1>1 DEF Proper, OneGroupingOverlapped
    <2> QED
      BY <1>5, <1>8, <2>1, NothingHeld DEF Holds
  <1>11. \A g \in Groupings :
             file'[g] = file[g] \/ (g = req[r].grp /\ PartsOf(file'[g], Proper(g)))
    BY <1>1, <1>2, EmptyList DEF PartsOf
  <1>12. ASSUME OneGroupingOverlapped
         PROVE  Covers(r)'
    BY <1>1, <1>5, <1>6, <1>9, <1>12 DEF Covers, Storing
  <1>13. ASSUME OneGroupingOverlapped, Served(r)'
         PROVE  Complete(r)'
    <2>1. pc'[r] = "done" /\ ~req[r].ignoreCache
      BY <1>1, <1>13 DEF Served
    <2>2. PICK list \in Seq(Entry) :
              /\ dates = {} /\ answer' = [answer EXCEPT ![r] = list]
              /\ Range(list) = {e \in Range(found) \cup Range(fetchedEstimates) : e.ver # 0}
      <3>1. pc' # [pc EXCEPT ![r] = "fetch"]
        BY <1>2, <2>1 DEF RequestsTyped
      <3> QED
        BY <1>3, <2>1, <3>1 DEF Finds
    <2>3. ASSUME NEW d \in DatesWithinRequestTimeFrame(req[r]) \ LateDates, usage[req[r].grp][d] > 0
          PROVE  \E e \in Range(found) : e.grp = req[r].grp /\ e.date = d /\ e.ver # 0
      <3>1. PICK e \in Range(found) : e.date = d
        BY <1>6, <1>13, <2>2
      <3> QED
        BY <1>5, <1>13, <2>3, <3>1, ProperUsed
    <2>4. \A e \in Range(found) : e.ver # 0 => e \in Range(list)
      BY <2>2
    <2> QED
      BY <1>1, <2>2, <2>3, <2>4, AnsweredFromAll
  <1> QED
    BY <1>1, <1>5, <1>7, <1>10, <1>11, <1>12, <1>13, StepKeepsEntries

LEMMA MergeKeepsEntries ==
    ASSUME StateInv, EntriesInv, NEW r \in Requests, NEW list \in Seq(Entry), Merges(r, list)
    PROVE  EntriesInv'
  <1>1. /\ r \in InFlight /\ pc[r] \in {"access", "create", "read"} /\ io[r].toStore # <<>>
        /\ \/ Range(list) \subseteq Range(io[r].toStore)
           \/ Range(list) \subseteq Range(io[r].toStore) \cup Range(CachedData(io[r].buf))
        /\ io' = [io EXCEPT ![r] = [NoIO EXCEPT !.out = list]]
        /\ pc' = [pc EXCEPT ![r] = "write"]
        /\ file' = file \/ file' = [file EXCEPT ![req[r].grp] = <<>>]
        /\ UNCHANGED <<usage, cachedEstimates, fetchedEstimates, req, call, answer, overlapped>>
    BY DEF Merges, lists
  <1>2. /\ req[r].grp \in Groupings /\ RequestsTyped /\ io[r].buf \in Seq(Cell)
        /\ file \in [Groupings -> Seq(Cell) \cup {NoFile}]
    BY <1>1, RequestState DEF IOState
  <1>3. /\ \A p \in Requests : p # r => pc'[p] = pc[p] /\ io'[p] = io[p]
        /\ pc'[r] = "write" /\ io'[r] = [NoIO EXCEPT !.out = list]
    BY <1>1, <1>2 DEF RequestsTyped, StateInv, TypeOK
  <1>4. Range(list) \subseteq Proper(req[r].grp)
    <2>1. PartsOf(io[r].buf, Proper(req[r].grp)) /\ Range(io[r].toStore) \subseteq Proper(req[r].grp)
      BY DEF EntriesInv, Holds
    <2>2. Range(CachedData(io[r].buf)) \subseteq Proper(req[r].grp)
      BY <1>2, <2>1, CachedElements
    <2> QED
      BY <1>1, <2>1, <2>2
  <1>5. Holds(r)'
    <2>1. Proper(req[r].grp)' = Proper(req[r].grp)
      BY <1>1 DEF Proper, OneGroupingOverlapped
    <2>2. io'[r].buf = NoIO.buf /\ io'[r].toStore = NoIO.toStore /\ io'[r].out = list
      BY <1>3 DEF NoIO
    <2> QED
      <3>1. PartsOf(NoIO.buf, Proper(req[r].grp)) /\ Range(NoIO.toStore) \subseteq Proper(req[r].grp)
        BY NothingHeld
      <3>2. pc'[r] # "fetch" /\ req' = req
        BY <1>1, <1>3
      <3> QED
        BY <1>4, <2>1, <2>2, <3>1, <3>2 DEF Holds
  <1>6. \A g \in Groupings :
            file'[g] = file[g] \/ (g = req[r].grp /\ PartsOf(file'[g], Proper(g)))
    BY <1>1, <1>2, EmptyList DEF PartsOf
  <1>7. ASSUME OneGroupingOverlapped, r \notin overlapped
        PROVE  Covers(r)'
    <2>1. Covers(r) /\ Storing(r)
      BY <1>1, <1>7 DEF EntriesInv, CoveredInv, Storing
    <2> QED
      BY <1>1, <1>3, <2>1 DEF Covers
  <1>8. ~Served(r)'
    BY <1>3 DEF Served
  <1> QED
    BY <1>1, <1>3, <1>5, <1>6, <1>7, <1>8, StepKeepsEntries

LEMMA SetKeepsEntries ==
    ASSUME StateInv, EntriesInv, NEW r \in Requests, NEW persist \in Seq(Entry), NEW list \in Seq(Entry),
           Stores(r, persist, list)
    PROVE  EntriesInv'
  <1>1. /\ r \in InFlight /\ pc[r] = "fetch" /\ LastFetch(r)
        /\ AllFetched(r) \subseteq Range(persist)
        /\ \A e \in Range(persist) : e.grp = req[r].grp /\ Genuine(usage, e)
        /\ Range(list) \subseteq Range(persist) \cup Range(cachedEstimates)
        /\ cachedEstimates' = cachedEstimates /\ fetchedEstimates' = persist
        /\ io' = [io EXCEPT ![r] = [NoIO EXCEPT !.toStore = list]]
        /\ pc' = [pc EXCEPT ![r] = "open"] /\ call' = [call EXCEPT ![r] = NoCall]
        /\ UNCHANGED <<usage, req, answer, crashes, overlapped, file>>
    BY DEF Stores
  <1>2. RequestsTyped
    BY <1>1, RequestState
  <1>3. /\ \A p \in Requests : p # r => pc'[p] = pc[p] /\ call'[p] = call[p] /\ io'[p] = io[p]
        /\ pc'[r] = "open" /\ io'[r] = [NoIO EXCEPT !.toStore = list]
    BY <1>1, <1>2 DEF RequestsTyped, StateInv, TypeOK
  <1>4. Range(list) \subseteq Proper(req[r].grp)
    <2>1. Range(persist) \subseteq Proper(req[r].grp)
      BY <1>1 DEF Proper, Range
    <2>2. Range(cachedEstimates) \subseteq Proper(req[r].grp)
      BY <1>1 DEF EntriesInv, Holds
    <2> QED
      BY <1>1, <2>1, <2>2
  <1>5. Holds(r)'
    <2>1. Proper(req[r].grp)' = Proper(req[r].grp)
      BY <1>1 DEF Proper, OneGroupingOverlapped
    <2>2. io'[r].buf = NoIO.buf /\ io'[r].out = NoIO.out /\ io'[r].toStore = list
      BY <1>3 DEF NoIO
    <2> QED
      <3>1. PartsOf(NoIO.buf, Proper(req[r].grp)) /\ Range(NoIO.out) \subseteq Proper(req[r].grp)
        BY NothingHeld
      <3>2. pc'[r] # "fetch" /\ req' = req
        BY <1>1, <1>3
      <3> QED
        BY <1>4, <2>1, <2>2, <3>1, <3>2 DEF Holds
  <1>6. ASSUME OneGroupingOverlapped, r \notin overlapped
        PROVE  Covers(r)'
    <2>1. \A d \in DatesWithinRequestTimeFrame(req[r]) \ LateDates :
              usage[req[r].grp][d] > 0 =>
                  \E e \in Range(cachedEstimates) \cup Range(persist) :
                      e.grp = req[r].grp /\ e.date = d /\ e.ver # 0
      BY <1>1, <1>6, FetchedAll
    <2> QED
      BY <1>1, <1>3, <2>1 DEF Covers
  <1>7. ~Served(r)'
    BY <1>3 DEF Served
  <1> QED
    BY <1>1, <1>3, <1>5, <1>6, <1>7, StepKeepsEntries

LEMMA WriteKeepsEntries ==
    ASSUME StateInv, EntriesInv, NEW r \in Requests, NEW cells \in Seq(Cell), NEW rest \in Seq(Entry),
           Writes(r, cells, rest)
    PROVE  EntriesInv'
  <1>1. /\ r \in InFlight /\ pc[r] = "write" /\ cells # <<>>
        /\ file[req[r].grp] \in Seq(Cell)
        /\ PartsOf(cells, Range(io[r].out)) /\ Range(rest) \subseteq Range(io[r].out)
        /\ file' = [file EXCEPT ![req[r].grp] = Overlay(file[req[r].grp], io[r].at, cells)]
        /\ io' = [io EXCEPT ![r] = [io[r] EXCEPT !.out = rest, !.at = io[r].at + Len(cells)]]
        /\ pc' = IF rest = <<>> THEN [pc EXCEPT ![r] = "close"] ELSE [pc EXCEPT ![r] = "write"]
        /\ UNCHANGED <<usage, cachedEstimates, fetchedEstimates, req, call, answer, overlapped>>
    BY DEF Writes, lists
  <1>2. /\ req[r].grp \in Groupings /\ RequestsTyped /\ io[r] \in IOState
        /\ file \in [Groupings -> Seq(Cell) \cup {NoFile}]
    BY <1>1, RequestState
  <1>3. /\ \A p \in Requests : p # r => pc'[p] = pc[p] /\ io'[p] = io[p]
        /\ pc'[r] \in {"write", "close"}
        /\ io'[r] = [io[r] EXCEPT !.out = rest, !.at = io[r].at + Len(cells)]
    BY <1>1, <1>2 DEF RequestsTyped, StateInv, TypeOK
  <1>4. io'[r].buf = io[r].buf /\ io'[r].toStore = io[r].toStore /\ io'[r].out = rest
    BY <1>2, <1>3 DEF IOState
  <1>5. Proper(req[r].grp)' = Proper(req[r].grp)
    BY <1>1 DEF Proper, OneGroupingOverlapped
  <1>6. Holds(r) /\ Holds(r)'
    <2>1. Holds(r) /\ Range(rest) \subseteq Range(io[r].out)
      BY <1>1 DEF EntriesInv
    <2>2. pc'[r] # "fetch" /\ req' = req
      BY <1>1, <1>3
    <2> QED
      BY <1>4, <1>5, <2>1, <2>2 DEF Holds
  <1>7. PartsOf(Overlay(file[req[r].grp], io[r].at, cells), Proper(req[r].grp))
    <2>1. PartsOf(file[req[r].grp], Proper(req[r].grp))
      BY <1>1, <1>2, LocalCacheAssumption DEF EntriesInv, FilesInv
    <2>2. PartsOf(cells, Proper(req[r].grp)) /\ io[r].at \in Nat
      BY <1>1, <1>2, <1>6 DEF Holds, PartsOf, IOState
    <2> QED
      BY <1>1, <2>1, <2>2, OverlayElements
  <1>8. \A g \in Groupings :
            file'[g] = file[g] \/ (g = req[r].grp /\ PartsOf(file'[g], Proper(g)))
    BY <1>1, <1>2, <1>7
  <1>9. ASSUME OneGroupingOverlapped, r \notin overlapped
        PROVE  Covers(r)'
    <2>1. Covers(r) /\ Storing(r)
      BY <1>1, <1>9 DEF EntriesInv, CoveredInv, Storing
    <2> QED
      BY <1>1, <1>3, <2>1 DEF Covers
  <1>10. ~Served(r)'
    BY <1>3 DEF Served
  <1> QED
    BY <1>1, <1>3, <1>6, <1>8, <1>9, <1>10, StepKeepsEntries

LEMMA ReadKeepsEntries ==
    ASSUME StateInv, EntriesInv, NEW r \in Requests, ReadChunk(r)
    PROVE  EntriesInv'
  <1>1. /\ pc[r] = "read" /\ r \in InFlight
        /\ UNCHANGED <<usage, cachedEstimates, fetchedEstimates, pc, req, call, answer, overlapped, file>>
    BY DEF ReadChunk, InFlight, managerVars, lists
  <1>2. PICK part \in Seq(Cell) :
            /\ Range(part) \subseteq Range(file[req[r].grp]) /\ file[req[r].grp] # NoFile
            /\ io[r].buf \in Seq(Cell)
            /\ io' = [io EXCEPT ![r] = [io[r] EXCEPT !.buf = io[r].buf \o part]]
    BY ReadKeepsState
  <1>3. req[r].grp \in Groupings /\ io[r] \in IOState
    BY <1>1, RequestState
  <1> DEFINE buf == io[r].buf \o part
  <1>4. /\ \A p \in Requests : p # r => io'[p] = io[p]
        /\ io'[r].buf = buf /\ io'[r].toStore = io[r].toStore /\ io'[r].out = io[r].out
    <2>1. io \in [Requests -> IOState]
      BY DEF StateInv, TypeOK, IOState
    <2>2. io' = [io EXCEPT ![r] = [io[r] EXCEPT !.buf = buf]]
      BY <1>2
    <2> HIDE DEF buf
    <2> QED
      BY <1>3, <2>1, <2>2 DEF IOState
  <1>5. Proper(req[r].grp)' = Proper(req[r].grp)
    BY <1>1 DEF Proper, OneGroupingOverlapped
  <1>6. PartsOf(buf, Proper(req[r].grp))
    <2>1. PartsOf(part, Proper(req[r].grp)) /\ PartsOf(io[r].buf, Proper(req[r].grp))
      BY <1>2, <1>3 DEF EntriesInv, FilesInv, Holds, PartsOf
    <2> QED
      BY <1>2, <2>1, PartsOfConcat
  <1> HIDE DEF buf
  <1>7. Holds(r)'
    BY <1>1, <1>4, <1>5, <1>6 DEF EntriesInv, Holds
  <1>8. ASSUME OneGroupingOverlapped, r \notin overlapped
        PROVE  Covers(r)'
    <2>1. Covers(r) /\ (Storing(r)' => Storing(r)) /\ pc'[r] # "fetch"
      BY <1>1, <1>4, <1>8 DEF EntriesInv, CoveredInv, Storing
    <2> QED
      BY <1>1, <2>1 DEF Covers
  <1>9. ~Served(r)'
    BY <1>1 DEF Served
  <1> QED
    BY <1>1, <1>4, <1>7, <1>8, <1>9, StepKeepsEntries

\* Steps that only move a request on, without an answer and without finding anything.
LEMMA StayKeepsEntries ==
    ASSUME StateInv, EntriesInv, NEW r \in InFlight,
           UNCHANGED <<usage, cachedEstimates, fetchedEstimates, req, answer, overlapped, file, io>>,
           NEW phase, phase \notin {"fetch", "done"}, pc' = [pc EXCEPT ![r] = phase],
           \A p \in Requests : p # r => call'[p] = call[p],
           OneGroupingOverlapped /\ r \notin overlapped => (Storing(r)' => Storing(r))
    PROVE  EntriesInv'
  <1>1. /\ \A p \in Requests : p # r => pc'[p] = pc[p]
        /\ pc'[r] = phase
    BY RequestState DEF RequestsTyped
  <1>2. Proper(req[r].grp)' = Proper(req[r].grp) /\ r \in Requests
    BY RequestState DEF Proper, OneGroupingOverlapped
  <1>3. Holds(r)'
    BY <1>1, <1>2 DEF EntriesInv, Holds
  <1>4. ASSUME OneGroupingOverlapped, r \notin overlapped
        PROVE  Covers(r)'
    BY <1>1, <1>2, <1>4 DEF EntriesInv, CoveredInv, Covers
  <1>5. ~Served(r)'
    BY <1>1 DEF Served
  <1> QED
    BY <1>1, <1>3, <1>4, <1>5, StepKeepsEntries

LEMMA FetchSomeKeepsEntries ==
    ASSUME StateInv, EntriesInv, NEW r \in Requests, NEW run \in SUBSET Dates,
           FetchSome(r, run), UNCHANGED <<file, io>>
    PROVE  EntriesInv'
  <1>1. /\ r \in InFlight /\ pc[r] = "fetch"
        /\ call' = [call EXCEPT ![r].pending = @ \ run, ![r].got = @ \cup EntriesFetched(r, run)]
        /\ UNCHANGED <<usage, cachedEstimates, fetchedEstimates, pc, req, answer, overlapped>>
    BY DEF FetchSome, lists, InFlight
  <1>2. \A p \in Requests : call'[p].missing = call[p].missing /\ (p # r => call'[p] = call[p])
    <2>1. call \in [Requests -> [missing: SUBSET Dates, pending: SUBSET Dates, got: SUBSET Entry]]
      BY <1>1, RequestState DEF RequestsTyped
    <2> QED
      BY <1>1, <2>1
  <1>3. Proper(req[r].grp)' = Proper(req[r].grp)
    BY <1>1 DEF Proper, OneGroupingOverlapped
  <1>4. Holds(r)'
    BY <1>1, <1>3 DEF EntriesInv, Holds
  <1>5. ASSUME OneGroupingOverlapped, r \notin overlapped
        PROVE  Covers(r)'
    BY <1>1, <1>2, <1>5 DEF EntriesInv, CoveredInv, Covers, Storing
  <1>6. ~Served(r)'
    BY <1>1 DEF Served
  <1> QED
    BY <1>1, <1>2, <1>4, <1>5, <1>6, StepKeepsEntries

LEMMA FetchUnstoredKeepsEntries ==
    ASSUME StateInv, EntriesInv, NEW r \in Requests, FetchUnstored(r), UNCHANGED <<file, io>>
    PROVE  EntriesInv'
  <1>1. /\ LastFetch(r) /\ AnswerUnstored(r, AllFetched(r))
        /\ UNCHANGED <<usage, req, overlapped, cachedEstimates, fetchedEstimates>>
    BY DEF FetchUnstored, AnswerUnstored, lists
  <1>2. /\ r \in InFlight /\ HoldsUsageOf(usage, req[r].grp, call[r].missing, AllFetched(r))
    BY <1>1, AllFetchedHolds DEF StateInv
  <1>3. /\ cachedEstimates \in Seq(Entry) /\ fetchedEstimates \in Seq(Entry) /\ <<>> \in Seq(Entry)
        /\ ByDate(AllFetched(r)) \in Seq(Entry) /\ RequestsTyped
    BY <1>2, RequestState, ByDateElements DEF HoldsUsageOf
  <1>4. PICK list \in Seq(Entry) :
            /\ answer' = [answer EXCEPT ![r] = list]
            /\ pc' = [pc EXCEPT ![r] = "done"] /\ call' = [call EXCEPT ![r] = NoCall]
            /\ ~req[r].ignoreCache =>
                  /\ AllFetched(r) = {}
                  /\ Range(list) = {e \in Range(cachedEstimates) \cup Range(fetchedEstimates) : e.ver # 0}
    <2>1. CASE req[r].ignoreCache
      <3>1. AnswerFrom(r, <<>>, ByDate(AllFetched(r)))
        BY <1>1, <2>1 DEF AnswerUnstored
      <3> QED
        BY <1>3, <2>1, <3>1, AnswerElements
    <2>2. CASE ~req[r].ignoreCache
      <3>1. AllFetched(r) = {} /\ AnswerFrom(r, cachedEstimates, fetchedEstimates)
        BY <1>1, <2>2 DEF AnswerUnstored
      <3> QED
        BY <1>3, <3>1, AnswerElements
    <2> QED
      BY <2>1, <2>2
  <1>5. /\ \A p \in Requests : p # r => pc'[p] = pc[p] /\ call'[p] = call[p] /\ answer'[p] = answer[p]
        /\ pc'[r] = "done"
    BY <1>3, <1>4 DEF RequestsTyped
  <1>6. Proper(req[r].grp)' = Proper(req[r].grp)
    BY <1>1 DEF Proper, OneGroupingOverlapped
  <1>7. Holds(r)'
    BY <1>1, <1>5, <1>6 DEF EntriesInv, Holds
  <1>8. Covers(r)'
    BY <1>5 DEF Covers, Storing
  <1>9. ASSUME OneGroupingOverlapped, r \notin overlapped, Served(r)'
        PROVE  Complete(r)'
    <2>1. /\ AllFetched(r) = {}
          /\ \A e \in Range(cachedEstimates) : e.ver # 0 => e \in Range(list)
      BY <1>1, <1>4, <1>9 DEF Served
    <2>2. \A d \in DatesWithinRequestTimeFrame(req[r]) \ LateDates :
              usage[req[r].grp][d] > 0 =>
                  \E e \in Range(cachedEstimates) : e.grp = req[r].grp /\ e.date = d /\ e.ver # 0
      BY <1>1, <1>9, <2>1, FetchedAll
    <2> QED
      BY <1>1, <1>2, <1>4, <2>1, <2>2, AnsweredFromAll
  <1> QED
    BY <1>1, <1>2, <1>5, <1>7, <1>8, <1>9, StepKeepsEntries

LEMMA CloseKeepsEntries ==
    ASSUME StateInv, EntriesInv, NEW r \in Requests, Close(r)
    PROVE  EntriesInv'
  <1>1. /\ pc[r] = "close" /\ r \in InFlight
        /\ AnswerFrom(r, cachedEstimates, fetchedEstimates)
        /\ io' = [io EXCEPT ![r] = NoIO]
        /\ UNCHANGED <<usage, cachedEstimates, fetchedEstimates, req, overlapped, file>>
    BY DEF Close, InFlight, lists
  <1>2. /\ cachedEstimates \in Seq(Entry) /\ fetchedEstimates \in Seq(Entry) /\ RequestsTyped
    BY <1>1, RequestState
  <1>3. PICK list \in Seq(Entry) :
            /\ answer' = [answer EXCEPT ![r] = list]
            /\ pc' = [pc EXCEPT ![r] = "done"] /\ call' = [call EXCEPT ![r] = NoCall]
            /\ Range(list) = {e \in Range(cachedEstimates) \cup Range(fetchedEstimates) : e.ver # 0}
    BY <1>1, <1>2, AnswerElements
  <1>4. /\ \A p \in Requests : p # r =>
               pc'[p] = pc[p] /\ call'[p] = call[p] /\ answer'[p] = answer[p] /\ io'[p] = io[p]
        /\ pc'[r] = "done" /\ io'[r] = NoIO
    BY <1>1, <1>2, <1>3 DEF RequestsTyped, StateInv, TypeOK
  <1>5. Holds(r)'
    BY <1>1, <1>4, NothingHeld DEF Holds
  <1>6. Covers(r)'
    BY <1>4 DEF Covers, Storing
  <1>7. ASSUME OneGroupingOverlapped, r \notin overlapped
        PROVE  Complete(r)'
    <2> DEFINE S == Range(cachedEstimates) \cup Range(fetchedEstimates)
    <2>1. \A d \in DatesWithinRequestTimeFrame(req[r]) \ LateDates :
              usage[req[r].grp][d] > 0 => \E e \in S : e.grp = req[r].grp /\ e.date = d /\ e.ver # 0
      BY <1>1, <1>7 DEF EntriesInv, CoveredInv, Covers, Storing
    <2>2. \A e \in S : e.ver # 0 => e \in Range(list)
      BY <1>3
    <2> HIDE DEF S
    <2> QED
      BY <1>1, <1>3, <2>1, <2>2, AnsweredFromAll
  <1> QED
    BY <1>1, <1>4, <1>5, <1>6, <1>7, StepKeepsEntries

LEMMA EntriesKept == StateInv /\ EntriesInv /\ [Next]_vars => EntriesInv'
  <1> SUFFICES ASSUME StateInv, EntriesInv, [Next]_vars PROVE EntriesInv'
    OBVIOUS
  <1>1. ASSUME NEW g \in Groupings, NEW d \in Dates, Publish(g, d)
        PROVE  EntriesInv'
    BY <1>1, PublishKeepsEntries
  <1>2. ASSUME NEW r \in Requests, NEW q \in RequestSpace, Arrive(r, q)
        PROVE  EntriesInv'
    BY <1>2, ArriveKeepsEntries
  <1>3. CASE ProcessEnds
    BY <1>3, EndKeepsEntries
  <1>4. ASSUME NEW r \in Requests, Step(r)
        PROVE  EntriesInv'
    <2>1. CASE AccessFile(r)
      <3>1. /\ pc[r] = "access" /\ r \in InFlight
            /\ UNCHANGED <<usage, cachedEstimates, fetchedEstimates, req, call, answer, overlapped, file, io>>
        BY <2>1 DEF AccessFile, InFlight, lists
      <3>2. PICK phase \in {"create", "read"} : pc' = [pc EXCEPT ![r] = phase]
        BY <2>1 DEF AccessFile
      <3>3. Storing(r)' => Storing(r)
        BY <3>1, <3>2, RequestState DEF Storing, RequestsTyped
      <3>4. phase \notin {"fetch", "done"}
        BY <3>2
      <3> QED
        BY <3>1, <3>2, <3>3, <3>4, StayKeepsEntries
    <2>2. CASE CreateCacheFile(r) \/ AccessFails(r) \/ ReadEnd(r)
      <3>1. PICK entries \in Seq(Entry) : LoadsFrom(r, entries)
        BY <2>2, LoadingSteps
      <3> QED
        BY <3>1, FindKeepsEntries, MergingStep, MergeKeepsEntries
    <2>3. ASSUME Reject(r), r \in InFlight, UNCHANGED <<file, io>>
          PROVE  EntriesInv'
      <3>1. /\ UNCHANGED <<usage, cachedEstimates, fetchedEstimates, req, answer, overlapped>>
            /\ pc' = [pc EXCEPT ![r] = "failed"] /\ call' = [call EXCEPT ![r] = NoCall]
        BY <2>3 DEF Reject, lists
      <3>2. /\ \A p \in Requests : p # r => call'[p] = call[p]
            /\ pc'[r] = "failed"
        BY <2>3, <3>1, RequestState DEF RequestsTyped
      <3>3. ~Storing(r)'
        BY <3>2 DEF Storing
      <3> QED
        BY <2>3, <3>1, <3>2, <3>3, StayKeepsEntries
    <2>4. CASE CreateFails(r)
      BY <2>3, <2>4 DEF CreateFails, InFlight
    <2>5. CASE ReadChunk(r)
      BY <2>5, ReadKeepsEntries
    <2>6. CASE Fetch(r)
      <3>1. UNCHANGED <<file, io>>
        BY <2>6 DEF Fetch
      <3>2. CASE FetchFails(r)
        BY <2>3, <3>1, <3>2 DEF FetchFails, InFlight
      <3> QED
        BY <2>6, <3>1, <3>2, FetchSomeKeepsEntries, FetchUnstoredKeepsEntries DEF Fetch
    <2>7. CASE SetEstimates(r)
      BY <2>7, StoringStep, SetKeepsEntries
    <2>8. CASE OpenFile(r) \/ StoreFails(r)
      <3>1. /\ pc[r] \in {"open", "write"} /\ r \in InFlight
            /\ UNCHANGED <<usage, cachedEstimates, fetchedEstimates, req, call, answer, overlapped, file, io>>
        BY <2>8 DEF OpenFile, StoreFails, InFlight, lists
      <3>2. PICK phase \in {"access", "close"} : pc' = [pc EXCEPT ![r] = phase]
        BY <2>8 DEF OpenFile, StoreFails
      <3>3. Storing(r)
        BY <3>1 DEF Storing
      <3>4. phase \notin {"fetch", "done"}
        BY <3>2
      <3> QED
        BY <3>1, <3>2, <3>3, <3>4, StayKeepsEntries
    <2>9. CASE WriteWindow(r)
      BY <2>9, WritingStep, WriteKeepsEntries
    <2>10. CASE Close(r)
      BY <2>10, CloseKeepsEntries
    <2> QED
      BY <1>4, <2>1, <2>2, <2>4, <2>5, <2>6, <2>7, <2>8, <2>9, <2>10 DEF Step
  <1>5. ASSUME NEW r \in Requests, ReadStreamFails(r)
        PROVE  EntriesInv'
    BY <1>3, <1>5 DEF ReadStreamFails
  <1>6. CASE UNCHANGED vars
    <2>1. UNCHANGED <<usage, cachedEstimates, fetchedEstimates, pc, req, call, answer, overlapped, file, io>>
      BY <1>6 DEF vars, managerVars, lists
    <2>2. OneGroupingOverlapped' <=> OneGroupingOverlapped
      BY <2>1 DEF OneGroupingOverlapped
    <2>3. \A g : Proper(g)' = Proper(g)
      BY <2>1, <2>2 DEF Proper
    <2>4. FilesInv'
      BY <2>1, <2>3 DEF EntriesInv, FilesInv
    <2>5. \A r \in Requests : Holds(r)'
      BY <2>1, <2>3 DEF EntriesInv, Holds
    <2>6. CoveredInv'
      BY <2>1, <2>2 DEF EntriesInv, CoveredInv, Covers, Storing
    <2>7. AloneComplete'
      BY <2>1, <2>2 DEF EntriesInv, AloneComplete, Served, Complete, AnswersDate
    <2> QED
      BY <2>4, <2>5, <2>6, <2>7 DEF EntriesInv
  <1> QED
    BY <1>1, <1>2, <1>3, <1>4, <1>5, <1>6 DEF Next, Crash

(* A request that ran by itself is answered on every closed date of its     *)
(* window that has usage, over a file that overlapping requests of one      *)
(* grouping, failed accesses and writes, and processes that ended in the    *)
(* middle of one may have left in any state.                                *)
THEOREM AloneCompleteHolds == Spec => []AloneComplete
  <1>1. EntriesInv => AloneComplete
    BY DEF EntriesInv
  <1> QED
    BY <1>1, StateInitially, StateKept, EntriesInitially, EntriesKept, PTL DEF Spec

-----------------------------------------------------------------------------
(* The places of cells: what is read back of a list that was written.       *)

\* Induction over the lists of elements of a set, said with sets.
LEMMA ListSetInduction ==
    ASSUME NEW S, NEW T, <<>> \in T, \A s \in Seq(S), e \in S : s \in T => s \o <<e>> \in T
    PROVE  Seq(S) \subseteq T
  <1> DEFINE N == {n \in Nat : \A s \in Seq(S) : Len(s) = n => s \in T}
  <1>1. 0 \in N
    BY EmptySeq
  <1>2. ASSUME NEW n \in Nat, n \in N
        PROVE  n + 1 \in N
    <2>1. ASSUME NEW s \in Seq(S), Len(s) = n + 1
          PROVE  s \in T
      <3>1. s # <<>>
        BY <2>1, EmptySeq
      <3>2. PICK t \in Seq(S), e \in S : s = Append(t, e)
        BY <3>1, SequenceEmptyOrAppend
      <3>3. s = t \o <<e>> /\ Len(s) = Len(t) + 1 /\ Len(t) \in Nat
        BY <3>2, AppendIsConcat, AppendProperties, LenProperties
      <3>4. t \in T
        BY <1>2, <2>1, <3>3
      <3> QED
        BY <3>3, <3>4
    <2> QED
      BY <2>1
  <1>3. Nat \subseteq N
    <2> HIDE DEF N
    <2> QED
      BY <1>1, <1>2, NatSetInduction
  <1> QED
    BY <1>3, LenProperties

\* A list of lists with one more is flattened to one more at the end.
LEMMA FlattenAppend ==
    ASSUME NEW S, NEW seqs \in Seq(Seq(S)), NEW s \in Seq(S)
    PROVE  FlattenSeq(seqs \o <<s>>) = FlattenSeq(seqs) \o s
  <1> DEFINE more == seqs \o <<s>>
             N == Len(seqs)
  <1>1. /\ more \in Seq(Seq(S)) /\ Len(more) = N + 1 /\ more[N + 1] = s /\ N \in Nat
        /\ \A k \in 1 .. N : more[k] = seqs[k]
    BY AppendElements, LenProperties
  <1> HIDE DEF more
  <1>2. more # <<>>
    BY <1>1, EmptySeq
  <1>3. PICK long : /\ long[1] = more[1]
                    /\ \A n \in 1 .. N : long[n + 1] = long[n] \o more[n + 1]
                    /\ FlattenSeq(more) = long[N + 1]
    <2>1. Len(more) - 1 = N
      BY <1>1
    <2> QED
      BY <1>1, <1>2, <2>1, FlattenTurns
  <1>4. CASE seqs = <<>>
    <2>1. N = 0 /\ FlattenSeq(seqs) = <<>>
      BY <1>4, EmptySeq DEF FlattenSeq
    <2> HIDE DEF N
    <2>2. FlattenSeq(more) = s
      BY <1>1, <1>3, <2>1
    <2> QED
      BY <2>1, <2>2, ConcatEmptySeq DEF more
  <1>5. CASE seqs # <<>>
    <2>1. PICK flat : /\ flat[1] = seqs[1]
                      /\ \A n \in 1 .. N - 1 : flat[n + 1] = flat[n] \o seqs[n + 1]
                      /\ FlattenSeq(seqs) = flat[N]
      BY <1>5, FlattenTurns
    <2>2. N >= 1
      BY <1>5, EmptySeq
    <2> HIDE DEF N
    <2> DEFINE T == {n \in Nat : n \in 1 .. N => long[n] = flat[n]}
    <2>3. 0 \in T
      OBVIOUS
    <2>4. ASSUME NEW n \in Nat, n \in T
          PROVE  n + 1 \in T
      <3>1. CASE n = 0
        BY <1>1, <1>3, <2>1, <2>2, <3>1
      <3>2. CASE n \in 1 .. N - 1
        <4>1. n \in 1 .. N /\ n + 1 \in 1 .. N
          BY <1>1, <3>2
        <4>2. long[n + 1] = long[n] \o more[n + 1] /\ more[n + 1] = seqs[n + 1]
          BY <1>1, <1>3, <4>1
        <4>3. flat[n + 1] = flat[n] \o seqs[n + 1] /\ long[n] = flat[n]
          BY <2>1, <2>4, <3>2, <4>1
        <4>4. long[n + 1] = flat[n + 1]
          BY <4>2, <4>3
        <4> QED
          BY <4>4
      <3>3. CASE n + 1 \notin 1 .. N
        BY <3>3
      <3> QED
        BY <1>1, <3>1, <3>2, <3>3
    <2>5. N \in T /\ N \in 1 .. N
      <3>1. Nat \subseteq T
        <4> HIDE DEF T
        <4> QED
          BY <2>3, <2>4, NatSetInduction
      <3> HIDE DEF T
      <3> QED
        BY <1>1, <2>2, <3>1
    <2>6. long[N] = flat[N]
      BY <2>5
    <2>7. long[N + 1] = long[N] \o more[N + 1]
      BY <1>3, <2>5
    <2> QED
      BY <1>1, <1>3, <2>1, <2>6, <2>7 DEF more
  <1> QED
    BY <1>4, <1>5

\* The cells of an entry.
Block(e) == [p \in 1 .. SizeOf[e.ver] |-> [entry |-> e, part |-> p]]

\* The cells of one entry are numbered from the first to the last.
LEMMA BlockElements ==
    ASSUME NEW e \in Entry
    PROVE  /\ SizeOf[e.ver] \in Nat \ {0}
           /\ Block(e) \in Seq(Cell) /\ Len(Block(e)) = SizeOf[e.ver]
           /\ \A p \in 1 .. SizeOf[e.ver] : Block(e)[p] = [entry |-> e, part |-> p]
  <1>1. SizeOf[e.ver] \in Nat \ {0}
    BY ListManagerAssumption DEF Entry
  <1>2. \A p \in 1 .. SizeOf[e.ver] : [entry |-> e, part |-> p] \in Cell
    BY <1>1 DEF Cell
  <1>3. Block(e) \in [1 .. SizeOf[e.ver] -> Cell]
    BY <1>2 DEF Block
  <1>4. Block(e) \in Seq(Cell) /\ Len(Block(e)) = SizeOf[e.ver]
    <2> DEFINE n == SizeOf[e.ver]
    <2>1. n \in Nat
      BY <1>1
    <2> HIDE DEF n
    <2> QED
      BY <1>3, <2>1 DEF n
  <1> QED
    BY <1>1, <1>4 DEF Block

\* One more entry has its cells at the end.
LEMMA CellsAppend ==
    ASSUME NEW entries \in Seq(Entry), NEW e \in Entry
    PROVE  Cells(entries \o <<e>>) = Cells(entries) \o Block(e)
  <1> DEFINE n == Len(entries)
             seqs == [i \in 1 .. n |-> Block(entries[i])]
             more == entries \o <<e>>
             longer == [i \in 1 .. n + 1 |-> Block(more[i])]
  <1>1. /\ n \in Nat /\ DOMAIN entries = 1 .. n /\ \A i \in 1 .. n : entries[i] \in Entry
        /\ more \in Seq(Entry) /\ Len(more) = n + 1 /\ DOMAIN more = 1 .. n + 1
        /\ more[n + 1] = e /\ \A k \in 1 .. n : more[k] = entries[k]
    BY AppendElements, LenProperties, ElementOfSeq
  <1>2. Cells(entries) = FlattenSeq(seqs)
    BY <1>1 DEF Cells, Block
  <1>3. Cells(more) = FlattenSeq(longer)
    BY <1>1 DEF Cells, Block
  <1> HIDE DEF more, n
  <1>4. seqs \in Seq(Seq(Cell)) /\ Len(seqs) = n
    <2>1. \A i \in 1 .. n : Block(entries[i]) \in Seq(Cell)
      BY <1>1, BlockElements
    <2>2. seqs \in [1 .. n -> Seq(Cell)]
      BY <2>1
    <2> HIDE DEF seqs
    <2> QED
      BY <1>1, <2>2
  <1>5. longer = seqs \o <<Block(e)>>
    <2>1. Block(e) \in Seq(Cell)
      BY BlockElements
    <2> DEFINE b == Block(e)
               t == seqs \o <<b>>
    <2>2. /\ t \in Seq(Seq(Cell)) /\ Len(t) = n + 1 /\ t[n + 1] = b
          /\ \A k \in 1 .. n : t[k] = seqs[k]
      <3> HIDE DEF b, seqs
      <3> QED
        BY <1>4, <2>1, AppendElements DEF b
    <2>3. DOMAIN t = 1 .. n + 1
      BY <2>2, LenProperties
    <2>4. t = [i \in 1 .. n + 1 |-> t[i]]
      <3> HIDE DEF t
      <3> QED
        BY <2>2, <2>3, LenProperties
    <2>5. \A i \in 1 .. n + 1 : t[i] = Block(more[i])
      <3> TAKE i \in 1 .. n + 1
      <3>1. CASE i = n + 1
        BY <1>1, <2>2, <3>1
      <3>2. CASE i \in 1 .. n
        BY <1>1, <2>2, <3>2
      <3> QED
        BY <1>1, <3>1, <3>2
    <2> HIDE DEF t
    <2>6. longer = t
      BY <2>4, <2>5
    <2> QED
      BY <2>6 DEF t
  <1>6. Block(e) \in Seq(Cell)
    BY BlockElements
  <1> HIDE DEF seqs, longer
  <1> QED
    BY <1>2, <1>3, <1>4, <1>5, <1>6, FlattenAppend DEF more

\* No entries, no cells.
LEMMA CellsOfNone == Cells(<<>>) = <<>>
  BY DEF Cells, FlattenSeq

\* The cells of two lists joined.
LEMMA CellsConcat ==
    ASSUME NEW one \in Seq(Entry), NEW two \in Seq(Entry)
    PROVE  Cells(one \o two) = Cells(one) \o Cells(two)
  <1> DEFINE T == {s \in Seq(Entry) : Cells(one \o s) = Cells(one) \o Cells(s)}
  <1>1. <<>> \in T
    <2>1. one \o <<>> = one /\ <<>> \in Seq(Entry)
      BY ConcatEmptySeq
    <2>2. Cells(one) \in Seq(Cell)
      BY CellsElements
    <2>3. Cells(one) \o <<>> = Cells(one)
      BY <2>2, ConcatEmptySeq
    <2> QED
      BY <2>1, <2>3, CellsOfNone
  <1>2. ASSUME NEW s \in Seq(Entry), NEW e \in Entry, s \in T
        PROVE  s \o <<e>> \in T
    <2>1. <<e>> \in Seq(Entry) /\ s \o <<e>> \in Seq(Entry) /\ one \o s \in Seq(Entry)
      BY AppendElements, ConcatElements
    <2>2. one \o (s \o <<e>>) = (one \o s) \o <<e>>
      <3> DEFINE last == <<e>>
      <3>1. last \in Seq(Entry)
        BY <2>1
      <3> HIDE DEF last
      <3>2. (one \o s) \o last = one \o (s \o last)
        BY <3>1, ConcatAssociative
      <3> QED
        BY <3>2 DEF last
    <2>3. Cells((one \o s) \o <<e>>) = Cells(one \o s) \o Block(e)
      BY <2>1, CellsAppend
    <2>4. Cells(s \o <<e>>) = Cells(s) \o Block(e)
      BY CellsAppend
    <2>5. Cells(one) \in Seq(Cell) /\ Cells(s) \in Seq(Cell) /\ Block(e) \in Seq(Cell)
      BY CellsElements, BlockElements
    <2>6. (Cells(one) \o Cells(s)) \o Block(e) = Cells(one) \o (Cells(s) \o Block(e))
      BY <2>5, ConcatAssociative
    <2>7. Cells(one \o s) = Cells(one) \o Cells(s)
      BY <1>2
    <2>8. Cells(one \o (s \o <<e>>)) = Cells(one) \o Cells(s \o <<e>>)
      BY <2>2, <2>3, <2>4, <2>6, <2>7
    <2> QED
      BY <2>1, <2>8
  <1>3. Seq(Entry) \subseteq T
    <2> HIDE DEF T
    <2> QED
      BY <1>1, <1>2, ListSetInduction
  <1> QED
    BY <1>3

\* A later date of a grouping has a later timestamp.
LEMMA LaterTimestamp ==
    ASSUME NEW e \in Entry, NEW f \in Entry, e.grp = f.grp
    PROVE  e.date < f.date <=> Timestamp(e) < Timestamp(f)
  <1> DEFINE a == e.date  b == f.date  days == PeriodDays[e.grp]
  <1>1. a \in Int /\ b \in Int /\ days \in Nat \ {0}
    BY ListManagerAssumption DEF Entry, Dates
  <1>2. Timestamp(e) = (a - 1) * days + 1 /\ Timestamp(f) = (b - 1) * days + 1
    BY DEF Timestamp
  <1> HIDE DEF a, b, days
  <1>3. a < b => (a - 1) * days + 1 < (b - 1) * days + 1
    BY <1>1
  <1>4. b <= a => (b - 1) * days + 1 <= (a - 1) * days + 1
    BY <1>1
  <1>5. (a - 1) * days + 1 \in Int /\ (b - 1) * days + 1 \in Int
    BY <1>1
  <1> QED
    BY <1>1, <1>2, <1>3, <1>4, <1>5 DEF a, b

\* Entries of a grouping have one timestamp if and only if they have one date.
LEMMA SameTimestamp ==
    ASSUME NEW e \in Entry, NEW f \in Entry, e.grp = f.grp
    PROVE  e.date = f.date <=> Timestamp(e) = Timestamp(f)
  <1>1. e.date \in Int /\ f.date \in Int /\ Timestamp(e) \in Int /\ Timestamp(f) \in Int
    BY TimestampType DEF Entry, Dates
  <1>2. e.date < f.date <=> Timestamp(e) < Timestamp(f)
    BY LaterTimestamp
  <1>3. f.date < e.date <=> Timestamp(f) < Timestamp(e)
    BY LaterTimestamp
  <1> QED
    BY <1>1, <1>2, <1>3

\* What is kept of a list stays in its order.
LEMMA KeptSorted ==
    ASSUME NEW s \in Seq(Entry), NEW P \in SUBSET DOMAIN s, Sorted(s)
    PROVE  Sorted(Kept(s, P))
  <1> DEFINE order == {p \in P \X P : p[1] <= p[2]}
             at == Listing(P, order)
             n == Cardinality(P)
  <1>1. DOMAIN s = 1 .. Len(s) /\ Len(s) \in Nat
    BY LenProperties
  <1>2. IsFiniteSet(P)
    <2>1. IsFiniteSet(1 .. Len(s)) /\ P \in SUBSET (1 .. Len(s))
      BY <1>1, FS_Interval
    <2> QED
      BY <2>1, FS_Subset
  <1>3. Orders(order, P)
    BY <1>1 DEF Orders
  <1>4. n \in Nat /\ Lists(at, P) /\ InOrderOf(at, order, P)
    BY <1>2, <1>3, ListingLists
  <1>5. Kept(s, P) = [k \in 1 .. n |-> s[at[k]]] /\ at \in [1 .. n -> P]
    BY <1>4 DEF Kept, Lists
  <1>6. ASSUME NEW k \in 1 .. n, NEW l \in 1 .. n, k < l
        PROVE  at[k] \in DOMAIN s /\ at[l] \in DOMAIN s /\ at[k] < at[l]
    <2> HIDE DEF at, n
    <2>1. at[k] \in P /\ at[l] \in P /\ <<at[k], at[l]>> \in order
      BY <1>4, <1>5, <1>6 DEF InOrderOf, n
    <2>2. at[k] # at[l]
      <3>1. k # l
        BY <1>4, <1>6
      <3> QED
        BY <1>4, <1>6, <3>1 DEF Lists, n
    <2> QED
      BY <1>1, <2>1, <2>2
  <1> HIDE DEF at, n
  <1> QED
    BY <1>5, <1>6 DEF Sorted

\* Entries of one grouping and different dates are in order when listed by date.
LEMMA ByDateSorted ==
    ASSUME NEW S \in SUBSET Entry, \A e, f \in S : e.date = f.date => e = f,
           NEW g, \A e \in S : e.grp = g
    PROVE  Sorted(ByDate(S))
  <1> DEFINE order == {p \in S \X S : p[1].date <= p[2].date}
             n == Cardinality(S)
             dates == [e \in S |-> e.date]
  <1>1. \A e \in S : e.date \in Int /\ e \in Entry
    BY DEF Entry, Dates
  <1>2. IsFiniteSet(S)
    <2>1. IsFiniteSet(1 .. MaxDate)
      BY ListManagerAssumption, FS_Interval
    <2>2. dates \in Injection(S, 1 .. MaxDate)
      BY DEF Entry, Dates, Injection, IsInjective
    <2> QED
      BY <2>1, <2>2, FS_Injection
  <1>3. Orders(order, S)
    BY <1>1 DEF Orders
  <1>4. n \in Nat /\ Lists(ByDate(S), S) /\ InOrderOf(ByDate(S), order, S)
    BY <1>2, <1>3, ListingLists DEF ByDate
  <1> HIDE DEF n
  <1>5. ByDate(S) \in [1 .. n -> S]
    BY <1>4 DEF Lists, n
  <1>6. ASSUME NEW k \in 1 .. n, NEW l \in 1 .. n, k < l
        PROVE  Timestamp(ByDate(S)[k]) < Timestamp(ByDate(S)[l])
    <2> DEFINE e == ByDate(S)[k]  f == ByDate(S)[l]
    <2>1. e \in S /\ f \in S /\ <<e, f>> \in order
      BY <1>4, <1>5, <1>6 DEF InOrderOf, n
    <2>2. k # l
      BY <1>4, <1>6
    <2>3. e # f
      BY <1>4, <1>6, <2>2 DEF Lists, n
    <2> HIDE DEF e, f
    <2>4. e.date < f.date
      BY <1>1, <2>1, <2>3
    <2> QED
      BY <1>1, <2>1, <2>4, LaterTimestamp DEF e, f
  <1>7. DOMAIN ByDate(S) = 1 .. n
    BY <1>5
  <1> QED
    BY <1>6, <1>7 DEF Sorted

\* Two lists that hold the same numbers in increasing order are the same.
Ascends(f, P, n) ==
    /\ f \in [1 .. n -> P] /\ \A k, l \in 1 .. n : k < l => f[k] < f[l]
    /\ \A i \in P : \E k \in 1 .. n : f[k] = i

\* There is one way to list numbers in ascending order.
LEMMA AscendsOneWay ==
    ASSUME NEW n \in Nat, NEW P \in SUBSET Int, NEW f, Ascends(f, P, n), NEW g, Ascends(g, P, n)
    PROVE  f = g
  <1> DEFINE other == {k \in 1 .. n : f[k] # g[k]}
  <1>1. f \in [1 .. n -> P] /\ g \in [1 .. n -> P]
    BY DEF Ascends
  <1>2. ASSUME other # {}
        PROVE  FALSE
    <2>1. PICK k \in other : \A m \in other : k <= m
      <3>1. other \in SUBSET Nat
        OBVIOUS
      <3> HIDE DEF other
      <3> QED
        BY <1>2, <3>1, LeastNumber
    <2>2. k \in 1 .. n /\ f[k] # g[k] /\ f[k] \in P /\ g[k] \in P
          /\ k \in Int /\ f[k] \in Int /\ g[k] \in Int
      <3>1. k \in 1 .. n /\ f[k] # g[k]
        BY <2>1
      <3>2. f[k] \in P /\ g[k] \in P
        BY <1>1, <3>1
      <3>3. \A i \in P : i \in Int
        OBVIOUS
      <3>4. f[k] \in Int /\ g[k] \in Int
        BY <3>2, <3>3
      <3>5. k \in Int
        BY <3>1
      <3> HIDE DEF other
      <3> QED
        BY <3>1, <3>2, <3>4, <3>5
    <2>3. \A l \in 1 .. n : l < k => f[l] = g[l]
      <3> TAKE l \in 1 .. n
      <3> QED
        BY <2>1, <2>2
    <2>4. ~(f[k] < g[k])
      <3> SUFFICES ASSUME f[k] < g[k] PROVE FALSE
        OBVIOUS
      <3>1. PICK l \in 1 .. n : g[l] = f[k]
        BY <2>2 DEF Ascends
      <3>2. l < k \/ l = k \/ k < l
        BY <2>2
      <3>3. CASE l < k
        <4>1. f[l] = f[k] /\ f[l] < f[k]
          BY <2>2, <2>3, <3>1, <3>3 DEF Ascends
        <4> QED
          BY <2>2, <4>1
      <3>4. CASE k < l
        <4>1. g[k] < g[l]
          BY <2>2, <3>4 DEF Ascends
        <4> QED
          BY <2>2, <3>1, <4>1
      <3>5. CASE l = k
        BY <2>2, <3>1, <3>5
      <3> QED
        BY <3>2, <3>3, <3>4, <3>5
    <2>5. ~(g[k] < f[k])
      <3> SUFFICES ASSUME g[k] < f[k] PROVE FALSE
        OBVIOUS
      <3>1. PICK l \in 1 .. n : f[l] = g[k]
        BY <2>2 DEF Ascends
      <3>2. l < k \/ l = k \/ k < l
        BY <2>2
      <3>3. CASE l < k
        <4>1. g[l] = g[k] /\ g[l] < g[k]
          BY <2>2, <2>3, <3>1, <3>3 DEF Ascends
        <4> QED
          BY <2>2, <4>1
      <3>4. CASE k < l
        <4>1. f[k] < f[l]
          BY <2>2, <3>4 DEF Ascends
        <4> QED
          BY <2>2, <3>1, <4>1
      <3>5. CASE l = k
        BY <2>2, <3>1, <3>5
      <3> QED
        BY <3>2, <3>3, <3>4, <3>5
    <2> QED
      BY <2>2, <2>4, <2>5
  <1> QED
    BY <1>1, <1>2

\* Positions of a list, listed from the first to the last.
LEMMA PositionsAscend ==
    ASSUME NEW n \in Nat, NEW P \in SUBSET (1 .. n)
    PROVE  /\ IsFiniteSet(P) /\ Cardinality(P) \in Nat
           /\ Ascends(Listing(P, {p \in P \X P : p[1] <= p[2]}), P, Cardinality(P))
  <1> DEFINE order == {p \in P \X P : p[1] <= p[2]}
             at == Listing(P, order)
             c == Cardinality(P)
  <1>1. IsFiniteSet(P)
    <2>1. IsFiniteSet(1 .. n)
      BY FS_Interval
    <2> QED
      BY <2>1, FS_Subset
  <1>2. Orders(order, P)
    BY DEF Orders
  <1>3. c \in Nat /\ Lists(at, P) /\ InOrderOf(at, order, P)
    BY <1>1, <1>2, ListingLists
  <1> HIDE DEF at, c
  <1>4. at \in [1 .. c -> P] /\ \A i \in P : \E k \in 1 .. c : at[k] = i
    BY <1>3 DEF Lists, c
  <1>5. ASSUME NEW k \in 1 .. c, NEW l \in 1 .. c, k < l
        PROVE  at[k] < at[l]
    <2>1. <<at[k], at[l]>> \in order
      BY <1>3, <1>5 DEF InOrderOf, c
    <2>2. at[k] # at[l]
      <3>1. k # l
        BY <1>3, <1>5
      <3> QED
        BY <1>3, <1>5, <3>1 DEF Lists, c
    <2>3. at[k] \in P /\ at[l] \in P
      BY <1>4, <1>5
    <2>4. at[k] \in 1 .. n /\ at[l] \in 1 .. n
      BY <2>3
    <2> QED
      BY <2>1, <2>2, <2>4
  <1> QED
    BY <1>1, <1>3, <1>4, <1>5 DEF Ascends, at, c

\* One more position, behind the others, keeps one more element.
LEMMA KeptAppend ==
    ASSUME NEW S, NEW s \in Seq(S), NEW t \in Seq(S), NEW P \in SUBSET (1 .. Len(s)),
           NEW q \in Len(s) + 1 .. Len(s) + Len(t)
    PROVE  Kept(s \o t, P \cup {q}) = Kept(s, P) \o <<(s \o t)[q]>>
  <1> DEFINE u == s \o t
             Q == P \cup {q}
             at == Listing(P, {p \in P \X P : p[1] <= p[2]})
             to == Listing(Q, {p \in Q \X Q : p[1] <= p[2]})
             c == Cardinality(P)
             f == [k \in 1 .. c + 1 |-> IF k = c + 1 THEN q ELSE at[k]]
  <1>1. /\ Len(s) \in Nat /\ Len(t) \in Nat /\ u \in Seq(S) /\ Len(u) = Len(s) + Len(t)
        /\ \A i \in 1 .. Len(s) : u[i] = s[i]
    BY ConcatProperties, LenProperties
  <1>2. IsFiniteSet(P) /\ c \in Nat /\ Ascends(at, P, c)
    BY <1>1, PositionsAscend
  <1>3. q \in Int /\ q \notin P /\ Q \in SUBSET (1 .. Len(u)) /\ \A i \in P : i < q /\ i \in Int
    BY <1>1
  <1>4. Cardinality(Q) = c + 1
    BY <1>2, <1>3, FS_AddElement
  <1>5. Ascends(to, Q, c + 1)
    <2>1. Len(u) \in Nat
      BY <1>1
    <2> HIDE DEF u, Q, c
    <2> QED
      BY <1>3, <1>4, <2>1, PositionsAscend
  <1> HIDE DEF at, to, c, u
  <1>6. at \in [1 .. c -> P] /\ \A k, l \in 1 .. c : k < l => at[k] < at[l]
    BY <1>2 DEF Ascends
  <1>7. Ascends(f, Q, c + 1)
    <2>1. f \in [1 .. c + 1 -> Q]
      BY <1>2, <1>6
    <2>2. ASSUME NEW k \in 1 .. c + 1, NEW l \in 1 .. c + 1, k < l
          PROVE  f[k] < f[l]
      <3>1. k \in 1 .. c /\ f[k] = at[k] /\ at[k] \in P
        BY <1>2, <1>6, <2>2
      <3>2. CASE l = c + 1
        BY <1>3, <3>1, <3>2
      <3>3. CASE l \in 1 .. c
        BY <1>2, <1>6, <2>2, <3>1, <3>3
      <3> QED
        BY <1>2, <3>2, <3>3
    <2>3. \A i \in Q : \E k \in 1 .. c + 1 : f[k] = i
      <3>1. \A i \in P : \E k \in 1 .. c : at[k] = i
        BY <1>2 DEF Ascends
      <3>2. \A k \in 1 .. c : k \in 1 .. c + 1 /\ f[k] = at[k]
        BY <1>2
      <3>3. c + 1 \in 1 .. c + 1 /\ f[c + 1] = q
        BY <1>2
      <3> HIDE DEF f
      <3> QED
        BY <3>1, <3>2, <3>3
    <2> HIDE DEF f, Q
    <2> QED
      BY <2>1, <2>2, <2>3 DEF Ascends
  <1>8. f = to
    <2>1. c + 1 \in Nat /\ Q \in SUBSET Int
      BY <1>2, <1>3
    <2> HIDE DEF f, Q
    <2> QED
      BY <1>5, <1>7, <2>1, AscendsOneWay
  <1>9. Kept(u, Q) = [k \in 1 .. c + 1 |-> u[f[k]]]
    <2>1. DOMAIN to = 1 .. c + 1
      BY <1>5 DEF Ascends
    <2> HIDE DEF f
    <2> QED
      BY <1>8, <2>1 DEF Kept, to
  <1>10. Kept(s, P) = [k \in 1 .. c |-> s[at[k]]]
    BY <1>6 DEF Kept, at
  <1> DEFINE kept == Kept(s, P)
             v == kept \o <<u[q]>>
  <1>11. \A k \in 1 .. c : s[at[k]] \in S /\ s[at[k]] = u[at[k]]
    BY <1>1, <1>6, ElementOfSeq
  <1>12. kept \in Seq(S) /\ Len(kept) = c
    <2>1. kept \in [1 .. c -> S]
      BY <1>10, <1>11
    <2> HIDE DEF kept
    <2> QED
      BY <1>2, <2>1
  <1>13. u[q] \in S
    BY <1>1, ElementOfSeq
  <1>14. /\ v \in Seq(S) /\ Len(v) = c + 1 /\ v[c + 1] = u[q]
         /\ \A k \in 1 .. c : v[k] = kept[k]
    <2> HIDE DEF kept
    <2> QED
      BY <1>12, <1>13, AppendElements
  <1>15. v = [k \in 1 .. c + 1 |-> v[k]]
    <2> HIDE DEF v
    <2> QED
      BY <1>14, LenProperties
  <1>16. \A k \in 1 .. c + 1 : v[k] = u[f[k]]
    <2> TAKE k \in 1 .. c + 1
    <2>1. CASE k = c + 1
      BY <1>14, <2>1
    <2>2. CASE k \in 1 .. c
      <3>1. v[k] = kept[k] /\ kept[k] = s[at[k]] /\ f[k] = at[k]
        BY <1>2, <1>10, <1>14, <2>2
      <3> QED
        BY <1>11, <2>2, <3>1
    <2>3. k = c + 1 \/ k \in 1 .. c
      BY <1>2
    <2> QED
      BY <2>1, <2>2, <2>3
  <1> HIDE DEF v, f, Q
  <1>17. Kept(u, Q) = v
    BY <1>9, <1>15, <1>16
  <1> QED
    BY <1>17 DEF v, u, Q

\* The cells of a list, and of one more entry behind them.
LEMMA CellsGrow ==
    ASSUME NEW s \in Seq(Entry), NEW e \in Entry
    PROVE  LET C == Cells(s)  D == Cells(s \o <<e>>)  m == Len(Cells(s))  n == SizeOf[e.ver] IN
           /\ C \in Seq(Cell) /\ D \in Seq(Cell) /\ m \in Nat /\ n \in Nat \ {0}
           /\ D = C \o Block(e) /\ Block(e) \in Seq(Cell) /\ Len(Block(e)) = n
           /\ Len(D) = m + n
           /\ \A i \in 1 .. m : D[i] = C[i]
           /\ \A p \in 1 .. n : D[m + p] = [entry |-> e, part |-> p]
  <1> DEFINE C == Cells(s)
             B == Block(e)
             n == SizeOf[e.ver]
  <1>1. C \in Seq(Cell) /\ Len(C) \in Nat
    BY CellsElements, LenProperties
  <1>2. /\ B \in Seq(Cell) /\ Len(B) = n /\ n \in Nat \ {0}
        /\ \A p \in 1 .. n : B[p] = [entry |-> e, part |-> p]
    BY BlockElements
  <1>3. Cells(s \o <<e>>) = C \o B
    BY CellsAppend
  <1> HIDE DEF C, B, n
  <1>4. /\ C \o B \in Seq(Cell) /\ Len(C \o B) = Len(C) + n
        /\ \A i \in 1 .. Len(C) + n : (C \o B)[i] = IF i <= Len(C) THEN C[i] ELSE B[i - Len(C)]
    <2>1. /\ C \o B \in Seq(Cell) /\ Len(C \o B) = Len(C) + Len(B)
          /\ \A i \in 1 .. Len(C) + Len(B) : (C \o B)[i] = IF i <= Len(C) THEN C[i] ELSE B[i - Len(C)]
      BY <1>1, <1>2, ConcatProperties, Zenon
    <2> QED
      BY <1>2, <2>1, Zenon
  <1>5. \A i \in 1 .. Len(C) : (C \o B)[i] = C[i]
    <2> TAKE i \in 1 .. Len(C)
    <2>1. i \in 1 .. Len(C) + n /\ i <= Len(C)
      BY <1>1, <1>2
    <2> QED
      BY <1>4, <2>1
  <1>6. \A p \in 1 .. n : (C \o B)[Len(C) + p] = [entry |-> e, part |-> p]
    <2> TAKE p \in 1 .. n
    <2>1. /\ Len(C) + p \in 1 .. Len(C) + n /\ ~(Len(C) + p <= Len(C))
          /\ (Len(C) + p) - Len(C) = p
      BY <1>1, <1>2
    <2> QED
      BY <1>2, <1>4, <2>1
  <1> DEFINE D == Cells(s \o <<e>>)
  <1>7. D = C \o B
    BY <1>3
  <1> HIDE DEF D
  <1>8. /\ D \in Seq(Cell) /\ Len(D) = Len(C) + n
        /\ \A i \in 1 .. Len(C) : D[i] = C[i]
        /\ \A p \in 1 .. n : D[Len(C) + p] = [entry |-> e, part |-> p]
    BY <1>4, <1>5, <1>6, <1>7
  <1> QED
    BY <1>1, <1>2, <1>7, <1>8 DEF C, B, D, n

\* Every line written is a whole estimate.
LEMMA CellsParse ==
    ASSUME NEW entries \in Seq(Entry)
    PROVE  Parses(Cells(entries))
  <1> DEFINE T == {s \in Seq(Entry) : Parses(Cells(s))}
  <1>1. <<>> \in T
    <2>1. Parses(<<>>)
      BY DEF Parses
    <2> QED
      BY <2>1, CellsOfNone
  <1>2. ASSUME NEW s \in Seq(Entry), NEW e \in Entry, s \in T
        PROVE  s \o <<e>> \in T
    <2> DEFINE C == Cells(s)
               D == Cells(s \o <<e>>)
               m == Len(C)
               n == SizeOf[e.ver]
    <2>1. /\ C \in Seq(Cell) /\ D \in Seq(Cell) /\ m \in Nat /\ n \in Nat \ {0}
          /\ Len(D) = m + n
          /\ \A i \in 1 .. m : D[i] = C[i]
          /\ \A p \in 1 .. n : D[m + p] = [entry |-> e, part |-> p]
      BY CellsGrow
    <2>2. Parses(C)
      BY <1>2
    <2> DEFINE B(p) == [entry |-> e, part |-> p]
    <2>3. \A p \in 1 .. n : B(p).entry = e /\ B(p).part = p /\ (IsLastPart(B(p)) <=> p = n)
      BY DEF IsLastPart
    <2>4. \A p \in 1 .. n - 1 : B(p + 1) = [B(p) EXCEPT !.part = @ + 1]
      OBVIOUS
    <2>5. \A p \in 1 .. n : D[m + p] = B(p)
      BY <2>1
    <2> HIDE DEF C, D, m, n, B
    <2>6. D[1].part = 1
      <3>1. CASE m = 0
        BY <2>1, <2>3, <2>5, <3>1
      <3>2. CASE m # 0
        <4>1. C # <<>> /\ 1 \in 1 .. m
          BY <2>1, <3>2, EmptySeq DEF m
        <4> QED
          BY <2>1, <2>2, <4>1 DEF Parses
      <3> QED
        BY <3>1, <3>2
    <2>7. IsLastPart(Last(D))
      <3>1. Last(D) = D[m + n]
        BY <2>1 DEF Last
      <3>2. n \in 1 .. n
        BY <2>1
      <3> QED
        BY <2>3, <2>5, <3>1, <3>2
    <2>8. ASSUME NEW i \in 1 .. Len(D) - 1
          PROVE  IF IsLastPart(D[i]) THEN D[i + 1].part = 1
                 ELSE D[i + 1] = [D[i] EXCEPT !.part = @ + 1]
      <3>1. i \in 1 .. m - 1 \/ i = m \/ i - m \in 1 .. n - 1
        BY <2>1, <2>8
      <3>2. CASE i \in 1 .. m - 1
        <4>1. D[i] = C[i] /\ D[i + 1] = C[i + 1]
          BY <2>1, <3>2
        <4>2. IF IsLastPart(C[i]) THEN C[i + 1].part = 1 ELSE C[i + 1] = [C[i] EXCEPT !.part = @ + 1]
          BY <2>2, <3>2 DEF Parses, m
        <4> QED
          BY <4>1, <4>2
      <3>3. CASE i = m
        <4>1. m \in 1 .. m /\ m # 0
          BY <2>1, <2>8, <3>3
        <4>2. C # <<>>
          BY <4>1 DEF m
        <4>3. IsLastPart(C[m])
          BY <2>2, <4>2 DEF Parses, Last, m
        <4>4. D[i] = C[m]
          BY <2>1, <3>3, <4>1
        <4>5. 1 \in 1 .. n
          BY <2>1
        <4>6. D[i + 1].part = 1
          BY <2>3, <2>5, <3>3, <4>5
        <4> QED
          BY <4>3, <4>4, <4>6
      <3>4. CASE i - m \in 1 .. n - 1
        <4> DEFINE p == i - m
        <4>1. p \in 1 .. n - 1 /\ p \in 1 .. n /\ p + 1 \in 1 .. n /\ i = m + p /\ i + 1 = m + (p + 1)
              /\ p # n
          BY <2>1, <2>8, <3>4
        <4> HIDE DEF p
        <4>2. D[i] = B(p) /\ D[i + 1] = B(p + 1) /\ ~IsLastPart(B(p))
          BY <2>3, <2>5, <4>1
        <4> QED
          BY <2>4, <4>1, <4>2
      <3> QED
        BY <3>1, <3>2, <3>3, <3>4
    <2>9. Parses(D)
      BY <2>6, <2>7, <2>8 DEF Parses
    <2> QED
      BY <2>9, AppendElements DEF D
  <1>3. Seq(Entry) \subseteq T
    <2> HIDE DEF T
    <2> QED
      BY <1>1, <1>2, ListSetInduction
  <1> QED
    BY <1>3

\* What was written is read back.
LEMMA CellsReadBack ==
    ASSUME NEW entries \in Seq(Entry)
    PROVE  CachedData(Cells(entries)) = entries
  <1> DEFINE Heads(cells) == {i \in DOMAIN cells : cells[i].part = 1}
             T == {s \in Seq(Entry) : EntriesOf(Cells(s)) = s}
  <1>1. <<>> \in T
    <2>1. DOMAIN <<>> = {} /\ Heads(<<>>) = {}
      OBVIOUS
    <2>2. Kept(<<>>, {}) \in Seq(Cell) /\ Range(Kept(<<>>, {})) = {}
      <3>1. <<>> \in Seq(Cell) /\ {} \in SUBSET DOMAIN <<>>
        OBVIOUS
      <3>2. Range(Kept(<<>>, {})) = {<<>>[i] : i \in {}}
        BY <3>1, KeptElements
      <3> QED
        BY <3>1, <3>2, KeptElements
    <2> DEFINE heads == Kept(<<>>, {})
    <2>3. DOMAIN heads = {}
      <3> HIDE DEF heads
      <3> QED
        BY <2>2 DEF Range, heads
    <2>4. EntriesOf(<<>>) = [i \in DOMAIN heads |-> heads[i].entry]
      BY <2>1 DEF EntriesOf
    <2> HIDE DEF heads
    <2>5. EntriesOf(<<>>) = [i \in {} |-> heads[i].entry]
      BY <2>3, <2>4
    <2>6. [i \in {} |-> heads[i].entry] = <<>>
      OBVIOUS
    <2> QED
      BY <2>5, <2>6, CellsOfNone
  <1>2. ASSUME NEW s \in Seq(Entry), NEW e \in Entry, s \in T
        PROVE  s \o <<e>> \in T
    <2> DEFINE C == Cells(s)
               D == Cells(s \o <<e>>)
               m == Len(C)
               n == SizeOf[e.ver]
               P == Heads(C)
               q == m + 1
               old == Kept(C, P)
               new == Kept(D, P \cup {q})
    <2>1. /\ C \in Seq(Cell) /\ D \in Seq(Cell) /\ m \in Nat /\ n \in Nat \ {0}
          /\ D = C \o Block(e) /\ Block(e) \in Seq(Cell) /\ Len(Block(e)) = n
          /\ Len(D) = m + n
          /\ \A i \in 1 .. m : D[i] = C[i]
          /\ \A p \in 1 .. n : D[m + p] = [entry |-> e, part |-> p]
      BY CellsGrow
    <2>2. DOMAIN C = 1 .. m /\ DOMAIN D = 1 .. m + n
      BY <2>1, LenProperties
    <2>3. D[q] = [entry |-> e, part |-> 1]
      <3>1. 1 \in 1 .. n
        BY <2>1
      <3> HIDE DEF C, D, n, m
      <3> QED
        BY <2>1, <3>1
    <2>4. Heads(D) = P \cup {q}
      <3> HIDE DEF C, D, n, m
      <3>1. ASSUME NEW i \in 1 .. m + n
            PROVE  D[i].part = 1 <=> i \in P \cup {q}
        <4>1. i \in 1 .. m \/ i - m \in 1 .. n
          BY <2>1, <3>1
        <4>2. CASE i \in 1 .. m
          <5>1. D[i] = C[i] /\ i # q
            BY <2>1, <4>2
          <5> QED
            BY <2>2, <4>2, <5>1
        <4>3. CASE i - m \in 1 .. n
          <5> DEFINE p == i - m
          <5>1. i = m + p /\ p \in 1 .. n /\ i \notin 1 .. m /\ (p = 1 <=> i = q)
            BY <2>1, <3>1, <4>3
          <5> HIDE DEF p
          <5>2. D[m + p] = [entry |-> e, part |-> p]
            BY <2>1, <5>1
          <5>3. D[i].part = p
            BY <5>1, <5>2
          <5> QED
            BY <2>2, <5>1, <5>3
        <4> QED
          BY <4>1, <4>2, <4>3
      <3>2. P \cup {q} \subseteq 1 .. m + n
        BY <2>1, <2>2
      <3> HIDE DEF P, q
      <3> QED
        BY <2>2, <3>1, <3>2
    <2>5. new = old \o <<D[q]>>
      <3> DEFINE B == Block(e)
      <3>1. C \in Seq(Cell) /\ B \in Seq(Cell) /\ D = C \o B /\ Len(B) = n
        BY <2>1
      <3>2. P \in SUBSET (1 .. Len(C))
        BY <2>2
      <3> HIDE DEF C, P, D, B, n
      <3>3. q \in Len(C) + 1 .. Len(C) + Len(B)
        BY <2>1, <3>1
      <3> HIDE DEF q
      <3>4. Kept(C \o B, P \cup {q}) = Kept(C, P) \o <<(C \o B)[q]>>
        BY <3>1, <3>2, <3>3, KeptAppend, ZenonT(60)
      <3> QED
        BY <3>1, <3>4
    <2>6. old \in Seq(Cell)
      <3> HIDE DEF C
      <3> QED
        BY <2>1, KeptElements
    <2>7. D[q] \in Cell
      <3> HIDE DEF D, C, n, m, q
      <3>1. q \in 1 .. Len(D)
        BY <2>1 DEF q
      <3> QED
        BY <2>1, <3>1, ElementOfSeq
    <2>8. EntriesOf(C) = [i \in DOMAIN old |-> old[i].entry] /\ EntriesOf(C) = s
      BY <1>2 DEF EntriesOf
    <2>9. EntriesOf(D) = [i \in DOMAIN new |-> new[i].entry]
      BY <2>4 DEF EntriesOf
    <2> DEFINE k == Len(old)
    <2>10. /\ new \in Seq(Cell) /\ Len(new) = k + 1 /\ new[k + 1] = D[q]
           /\ \A i \in 1 .. k : new[i] = old[i]
      <3> HIDE DEF new, old, D, q
      <3> QED
        BY <2>5, <2>6, <2>7, AppendElements
    <2>11. k \in Nat /\ DOMAIN old = 1 .. k /\ DOMAIN new = 1 .. k + 1
      <3> HIDE DEF new, old
      <3> QED
        BY <2>6, <2>10, LenProperties
    <2> HIDE DEF C, D, m, n, P, q, old, new
    <2>12. Len(s) = k /\ \A i \in 1 .. k : s[i] = old[i].entry
      <3>1. s = [i \in 1 .. k |-> old[i].entry]
        BY <2>8, <2>11
      <3> HIDE DEF k
      <3>2. DOMAIN s = 1 .. k /\ \A i \in 1 .. k : s[i] = old[i].entry
        BY <3>1
      <3>3. DOMAIN s = 1 .. Len(s) /\ Len(s) \in Nat
        BY LenProperties
      <3> QED
        BY <2>11, <3>2, <3>3
    <2> DEFINE t == s \o <<e>>
    <2>13. /\ t \in Seq(Entry) /\ Len(t) = k + 1 /\ t[k + 1] = e
           /\ \A i \in 1 .. k : t[i] = s[i]
      BY <2>12, AppendElements
    <2>14. t = [i \in 1 .. k + 1 |-> t[i]]
      <3> HIDE DEF t
      <3> QED
        BY <2>13, LenProperties
    <2>15. \A i \in 1 .. k + 1 : new[i].entry = t[i]
      <3> TAKE i \in 1 .. k + 1
      <3>1. CASE i = k + 1
        BY <2>3, <2>10, <2>13, <3>1
      <3>2. CASE i \in 1 .. k
        BY <2>10, <2>12, <2>13, <3>2
      <3>3. i = k + 1 \/ i \in 1 .. k
        BY <2>11
      <3> QED
        BY <3>1, <3>2, <3>3
    <2> HIDE DEF t, k
    <2>16. EntriesOf(D) = t
      BY <2>9, <2>11, <2>14, <2>15
    <2> QED
      BY <2>13, <2>16 DEF t, D
  <1>3. Seq(Entry) \subseteq T
    <2> HIDE DEF T
    <2> QED
      BY <1>1, <1>2, ListSetInduction
  <1>4. EntriesOf(Cells(entries)) = entries
    BY <1>3
  <1> QED
    BY <1>4, CellsParse DEF CachedData

\* A list is its first elements and the rest.
LEMMA SplitAt ==
    ASSUME NEW S, NEW s \in Seq(S), NEW k \in 0 .. Len(s)
    PROVE  /\ SubSeq(s, 1, k) \in Seq(S) /\ SubSeq(s, k + 1, Len(s)) \in Seq(S)
           /\ Len(SubSeq(s, 1, k)) = k /\ Len(SubSeq(s, k + 1, Len(s))) = Len(s) - k
           /\ \A i \in 1 .. k : SubSeq(s, 1, k)[i] = s[i]
           /\ s = SubSeq(s, 1, k) \o SubSeq(s, k + 1, Len(s))
  <1> DEFINE n == Len(s)
  <1>1. n \in Nat /\ k \in Int /\ 0 <= k /\ k <= n /\ \A i \in 1 .. n : s[i] \in S
    BY LenProperties, ElementOfSeq
  <1>2. 1 \in 1 .. n + 1 /\ k \in 0 .. n /\ n \in k .. n /\ k \in 1 - 1 .. n
    BY <1>1
  <1>3. SubSeq(s, 1, k) \o SubSeq(s, k + 1, n) = SubSeq(s, 1, n)
    BY <1>2, ConcatAdjacentSubSeq
  <1>4. SubSeq(s, 1, n) = s
    BY SubSeqFull
  <1> HIDE DEF n
  <1>5. /\ SubSeq(s, 1, k) \in Seq(S) /\ Len(SubSeq(s, 1, k)) = IF 1 <= k THEN k - 1 + 1 ELSE 0
        /\ \A i \in 1 .. k - 1 + 1 : SubSeq(s, 1, k)[i] = s[1 + i - 1]
    <2>1. \A i \in 1 .. k : s[i] \in S
      BY <1>1
    <2> QED
      BY <1>1, <2>1, SubSeqProperties
  <1>6. /\ SubSeq(s, k + 1, n) \in Seq(S)
        /\ Len(SubSeq(s, k + 1, n)) = IF k + 1 <= n THEN n - (k + 1) + 1 ELSE 0
    <2>1. k + 1 \in Int /\ \A i \in k + 1 .. n : s[i] \in S
      BY <1>1
    <2> QED
      BY <1>1, <2>1, SubSeqProperties
  <1>7. Len(SubSeq(s, 1, k)) = k /\ Len(SubSeq(s, k + 1, n)) = n - k
    BY <1>1, <1>5, <1>6
  <1>8. \A i \in 1 .. k : SubSeq(s, 1, k)[i] = s[i]
    <2> TAKE i \in 1 .. k
    <2>1. i \in 1 .. k - 1 + 1 /\ 1 + i - 1 = i
      BY <1>1
    <2>2. SubSeq(s, 1, k)[i] = s[1 + i - 1]
      BY <1>5, <2>1
    <2> QED
      BY <2>1, <2>2
  <1> QED
    BY <1>3, <1>4, <1>5, <1>6, <1>7, <1>8 DEF n

\* A window of a list and what comes after it.
LEMMA WindowAndRest ==
    ASSUME NEW S, NEW s \in Seq(S), NEW n \in Nat \ {0}
    PROVE  /\ Slice(s, 1, n) \in Seq(S) /\ SubSeq(s, n + 1, Len(s)) \in Seq(S)
           /\ s = Slice(s, 1, n) \o SubSeq(s, n + 1, Len(s))
           /\ Len(SubSeq(s, n + 1, Len(s))) = IF n <= Len(s) THEN Len(s) - n ELSE 0
  <1>1. Len(s) \in Nat
    BY LenProperties
  <1>2. CASE n <= Len(s)
    <2>1. n \in 0 .. Len(s)
      BY <1>1, <1>2
    <2>2. Slice(s, 1, n) = SubSeq(s, 1, n)
      BY <1>1, <1>2 DEF Slice
    <2> QED
      BY <1>2, <2>1, <2>2, SplitAt
  <1>3. CASE ~(n <= Len(s))
    <2>1. Slice(s, 1, n) = s
      BY <1>1, <1>3, SubSeqFull DEF Slice
    <2>2. SubSeq(s, n + 1, Len(s)) = <<>>
      BY <1>1, <1>3, SubSeqEmpty
    <2> QED
      BY <1>3, <2>1, <2>2, ConcatEmptySeq, EmptySeq
  <1> QED
    BY <1>2, <1>3

(* Writing over a file from the end of its first part on leaves that part,  *)
(* what is written, and what of the second part is behind it.               *)
LEMMA OverlayBehind ==
    ASSUME NEW S, NEW done \in Seq(S), NEW old \in Seq(S), NEW new \in Seq(S)
    PROVE  Overlay(done \o old, Len(done), new)
               = (done \o new) \o SubSeq(old, Len(new) + 1, Len(old))
  <1> DEFINE whole == done \o old
             m == Len(done)  n == Len(new)  k == Len(old)
             hole == [i \in 1 .. m - Len(whole) |-> [entry |-> new[1].entry, part |-> 0]]
             after == Slice(whole, m + n + 1, Len(whole))
             behind == SubSeq(old, n + 1, k)
  <1>1. /\ m \in Nat /\ n \in Nat /\ k \in Nat
        /\ whole \in Seq(S) /\ Len(whole) = m + k
        /\ \A i \in 1 .. m + k : whole[i] = IF i <= m THEN done[i] ELSE old[i - m]
        /\ \A i \in 1 .. k : old[i] \in S
        /\ \A i \in 1 .. m + k : whole[i] \in S
    BY ConcatProperties, LenProperties, ElementOfSeq
  <1> HIDE DEF whole, m, n, k
  <1>2. Slice(whole, 1, m) = done
    <2>1. Slice(whole, 1, m) = SubSeq(whole, 1, m)
      BY <1>1 DEF Slice
    <2>2. m \in 0 .. Len(whole)
      BY <1>1
    <2> DEFINE part == SubSeq(whole, 1, m)
    <2>3. part \in Seq(S) /\ Len(part) = m /\ \A i \in 1 .. m : part[i] = whole[i]
      BY <1>1, <2>2, SplitAt
    <2> HIDE DEF part
    <2>4. Len(done) = m /\ \A i \in 1 .. m : part[i] = done[i]
      BY <1>1, <2>3 DEF m
    <2>5. part = done
      BY <2>3, <2>4, SeqEqual
    <2> QED
      BY <2>1, <2>5 DEF part
  <1>3. hole = <<>>
    <2>1. 1 .. m - Len(whole) = {}
      BY <1>1
    <2> DEFINE c == [entry |-> new[1].entry, part |-> 0]
    <2>2. [i \in {} |-> c] = <<>>
      OBVIOUS
    <2> QED
      BY <2>1, <2>2
  <1>4. after = behind
    <2>1. after = SubSeq(whole, m + n + 1, m + k)
      BY <1>1 DEF Slice
    <2>2. CASE n >= k
      <3>1. m + n + 1 \in Int /\ m + k \in Int /\ m + k < m + n + 1 /\ k < n + 1
        BY <1>1, <2>2
      <3>2. SubSeq(whole, m + n + 1, m + k) = <<>> /\ SubSeq(old, n + 1, k) = <<>>
        BY <1>1, <3>1, SubSeqEmpty
      <3> QED
        BY <2>1, <3>2
    <2>3. CASE n < k
      <3> DEFINE a == m + n + 1  b == m + k
      <3>1. a \in Int /\ b \in Int /\ a <= b /\ b - a + 1 = k - n /\ n + 1 <= k
        BY <1>1, <2>3
      <3>2. \A i \in a .. b : i \in 1 .. m + k
        BY <1>1
      <3> HIDE DEF a, b
      <3>3. /\ SubSeq(whole, a, b) \in Seq(S) /\ Len(SubSeq(whole, a, b)) = k - n
            /\ \A i \in 1 .. k - n : SubSeq(whole, a, b)[i] = whole[a + i - 1]
        <4>1. \A i \in a .. b : whole[i] \in S
          BY <1>1, <3>2
        <4> QED
          BY <3>1, <4>1, SubSeqProperties
      <3>4. /\ SubSeq(old, n + 1, k) \in Seq(S) /\ Len(SubSeq(old, n + 1, k)) = k - n
            /\ \A i \in 1 .. k - n : SubSeq(old, n + 1, k)[i] = old[n + 1 + i - 1]
        <4>1. /\ n + 1 \in Int /\ k \in Int /\ k - (n + 1) + 1 = k - n
              /\ \A i \in n + 1 .. k : old[i] \in S
          BY <1>1
        <4> QED
          BY <3>1, <4>1, SubSeqProperties
      <3>5. ASSUME NEW i \in 1 .. k - n
            PROVE  whole[a + i - 1] = old[n + 1 + i - 1]
        <4> DEFINE j == a + i - 1
        <4>1. j \in 1 .. m + k /\ ~(j <= m) /\ j - m = n + 1 + i - 1
          BY <1>1, <2>3 DEF a
        <4> HIDE DEF j
        <4>2. whole[j] = old[j - m]
          BY <1>1, <4>1
        <4> QED
          BY <4>1, <4>2 DEF j
      <3>6. SubSeq(whole, a, b) = SubSeq(old, n + 1, k)
        <4> DEFINE x == SubSeq(whole, a, b)  y == SubSeq(old, n + 1, k)
        <4>1. x \in Seq(S) /\ y \in Seq(S) /\ Len(x) = Len(y) /\ Len(x) = k - n
          BY <3>3, <3>4
        <4>2. \A i \in 1 .. k - n : x[i] = y[i]
          BY <3>3, <3>4, <3>5
        <4> HIDE DEF x, y
        <4>3. x = y
          BY <4>1, <4>2, SeqEqual
        <4> QED
          BY <4>3 DEF x, y
      <3> QED
        BY <2>1, <3>6 DEF a, b
    <2> QED
      BY <1>1, <2>2, <2>3
  <1>5. Overlay(whole, m, new) = Slice(whole, 1, m) \o hole \o new \o after
    BY DEF Overlay, n
  <1> HIDE DEF hole, after, behind
  <1>6. done \o <<>> = done
    BY ConcatEmptySeq
  <1>7. Overlay(whole, m, new) = done \o new \o behind
    BY <1>2, <1>3, <1>4, <1>5, <1>6
  <1> QED
    BY <1>7 DEF whole, m, n, k, behind

\* The end of a list in order is left away: it is still in order.
LEMMA SortedBeginning ==
    ASSUME NEW s \in Seq(Entry), Sorted(s), NEW k \in 0 .. Len(s)
    PROVE  Sorted(SubSeq(s, 1, k))
  <1> DEFINE t == SubSeq(s, 1, k)
  <1>1. t \in Seq(Entry) /\ Len(t) = k /\ \A i \in 1 .. k : t[i] = s[i]
    BY SplitAt
  <1>2. DOMAIN t = 1 .. k /\ DOMAIN s = 1 .. Len(s) /\ Len(s) \in Nat
    BY <1>1, LenProperties
  <1> HIDE DEF t
  <1>3. \A i \in 1 .. k : i \in 1 .. Len(s)
    BY <1>2
  <1>4. Sorted(t)
    BY <1>1, <1>2, <1>3 DEF Sorted
  <1> QED
    BY <1>4 DEF t

\* A list has, for every entry of another, one of its date that is not shorter.
Outsizes(one, two) ==
    \A e \in Range(two) : \E f \in Range(one) :
        Timestamp(f) = Timestamp(e) /\ SizeOf[e.ver] <= SizeOf[f.ver]

\* A list that outsizes another needs no fewer cells.
LEMMA SortedFits ==
    ASSUME NEW one \in Seq(Entry), NEW two \in Seq(Entry), Sorted(one), Sorted(two),
           Outsizes(one, two)
    PROVE  Len(Cells(two)) <= Len(Cells(one))
  <1> DEFINE Fits(s) == \A t \in Seq(Entry) :
                 Sorted(t) /\ Sorted(s) /\ Outsizes(t, s) => Len(Cells(s)) <= Len(Cells(t))
             T == {s \in Seq(Entry) : Fits(s)}
  <1>1. <<>> \in T
    <2>1. ASSUME NEW t \in Seq(Entry)
          PROVE  Len(Cells(<<>>)) <= Len(Cells(t))
      <3>1. Cells(t) \in Seq(Cell)
        BY CellsElements
      <3>2. Len(Cells(t)) \in Nat
        BY <3>1, LenProperties
      <3> QED
        BY <3>2, CellsOfNone, EmptySeq
    <2> QED
      BY <2>1
  <1>2. ASSUME NEW s \in Seq(Entry), NEW e \in Entry, s \in T
        PROVE  s \o <<e>> \in T
    <2> DEFINE u == s \o <<e>>
               k == Len(s)
    <2>1. /\ u \in Seq(Entry) /\ Len(u) = k + 1 /\ u[k + 1] = e /\ k \in Nat
          /\ Range(u) = Range(s) \cup {e} /\ \A i \in 1 .. k : u[i] = s[i]
          /\ DOMAIN u = 1 .. k + 1 /\ DOMAIN s = 1 .. k
      BY AppendElements, LenProperties
    <2>2. Fits(s)
      BY <1>2
    <2> HIDE DEF u
    <2>3. ASSUME NEW t \in Seq(Entry), Sorted(t), Sorted(u), Outsizes(t, u)
          PROVE  Len(Cells(u)) <= Len(Cells(t))
      <3> HIDE DEF k
      <3>1. Sorted(s)
        BY <2>1, <2>3 DEF Sorted
      <3>2. \A d \in Range(s) : Timestamp(d) < Timestamp(e)
        <4>1. ASSUME NEW i \in 1 .. k
              PROVE  Timestamp(s[i]) < Timestamp(e)
          <5>1. i \in 1 .. k + 1 /\ k + 1 \in 1 .. k + 1 /\ i < k + 1
            BY <2>1
          <5> QED
            BY <2>1, <2>3, <5>1 DEF Sorted
        <4> QED
          BY <2>1, <4>1 DEF Range
      <3>3. PICK f \in Range(t) : Timestamp(f) = Timestamp(e) /\ SizeOf[e.ver] <= SizeOf[f.ver]
        BY <2>1, <2>3 DEF Outsizes
      <3>4. PICK m \in DOMAIN t : t[m] = f
        BY DEF Range
      <3>5. /\ DOMAIN t = 1 .. Len(t) /\ Len(t) \in Nat /\ m \in 1 .. Len(t) /\ f \in Entry
            /\ \A i \in 1 .. Len(t) : t[i] \in Entry /\ Timestamp(t[i]) \in Int
        BY <3>4, LenProperties, ElementOfSeq, TimestampType
      <3> DEFINE first == SubSeq(t, 1, m - 1)
                 upTo == SubSeq(t, 1, m)
                 rest == SubSeq(t, m + 1, Len(t))
      <3>6. m - 1 \in 0 .. Len(t) /\ m \in 0 .. Len(t) /\ 1 \in 1 .. Len(t) /\ m \in 1 .. Len(t)
        BY <3>5
      <3>7. /\ first \in Seq(Entry) /\ Len(first) = m - 1
            /\ \A i \in 1 .. m - 1 : first[i] = t[i]
        BY <3>6, SplitAt
      <3>8. t = upTo \o rest /\ upTo \in Seq(Entry) /\ rest \in Seq(Entry)
        BY <3>6, SplitAt
      <3>9. upTo = first \o <<f>>
        BY <3>4, <3>6, SubSeqRecursiveSecond
      <3>10. Sorted(first)
        BY <2>3, <3>6, SortedBeginning
      <3> HIDE DEF first, upTo, rest
      <3>11. Outsizes(first, s)
        <4> SUFFICES ASSUME NEW d \in Range(s)
                     PROVE  \E x \in Range(first) :
                                Timestamp(x) = Timestamp(d) /\ SizeOf[d.ver] <= SizeOf[x.ver]
          BY DEF Outsizes
        <4>1. PICK x \in Range(t) : Timestamp(x) = Timestamp(d) /\ SizeOf[d.ver] <= SizeOf[x.ver]
          BY <2>1, <2>3 DEF Outsizes
        <4>2. PICK j \in DOMAIN t : t[j] = x
          BY DEF Range
        <4>3. Timestamp(t[j]) < Timestamp(t[m])
          BY <3>2, <3>3, <3>4, <4>1, <4>2
        <4>4. ~(m < j) /\ m # j
          <5>1. Timestamp(t[j]) \in Int /\ Timestamp(t[m]) \in Int
            BY <3>5, <4>2
          <5>2. m < j => Timestamp(t[m]) < Timestamp(t[j])
            BY <2>3, <4>2 DEF Sorted
          <5> QED
            BY <4>3, <5>1, <5>2
        <4>5. j \in 1 .. m - 1
          BY <3>5, <4>2, <4>4
        <4>6. DOMAIN first = 1 .. m - 1
          BY <3>7, LenProperties
        <4>7. x \in Range(first)
          BY <3>7, <4>2, <4>5, <4>6 DEF Range
        <4> QED
          BY <4>1, <4>7
      <3>12. Len(Cells(s)) <= Len(Cells(first))
        <4> HIDE DEF T
        <4> QED
          BY <2>2, <3>1, <3>7, <3>10, <3>11
      <3>13. Len(Cells(u)) = Len(Cells(s)) + SizeOf[e.ver] /\ Len(Cells(s)) \in Nat
        BY CellsGrow DEF u
      <3>14. /\ Len(Cells(upTo)) = Len(Cells(first)) + SizeOf[f.ver]
             /\ Len(Cells(first)) \in Nat
        BY <3>5, <3>7, <3>9, CellsGrow
      <3>15. Len(Cells(t)) = Len(Cells(upTo)) + Len(Cells(rest)) /\ Len(Cells(rest)) \in Nat
        <4>1. Cells(upTo) \in Seq(Cell) /\ Cells(rest) \in Seq(Cell)
          BY <3>8, CellsElements
        <4>2. Cells(t) = Cells(upTo) \o Cells(rest)
          BY <3>8, CellsConcat
        <4> DEFINE a == Cells(upTo)  b == Cells(rest)
        <4> HIDE DEF a, b
        <4>3. Len(a \o b) = Len(a) + Len(b) /\ Len(b) \in Nat
          BY <4>1, ConcatProperties, LenProperties DEF a, b
        <4> QED
          BY <4>2, <4>3 DEF a, b
      <3>16. SizeOf[e.ver] \in Nat /\ SizeOf[f.ver] \in Nat
        BY <3>5, BlockElements
      <3> DEFINE lu == Len(Cells(u))  ls == Len(Cells(s))  lf == Len(Cells(first))
                 lt == Len(Cells(t))  lm == Len(Cells(upTo))  lr == Len(Cells(rest))
                 x == SizeOf[e.ver]  y == SizeOf[f.ver]
      <3>17. /\ lu = ls + x /\ lm = lf + y /\ lt = lm + lr /\ ls <= lf /\ x <= y
             /\ ls \in Nat /\ lf \in Nat /\ lr \in Nat /\ x \in Nat /\ y \in Nat
        BY <3>3, <3>12, <3>13, <3>14, <3>15, <3>16
      <3> HIDE DEF lu, ls, lf, lt, lm, lr, x, y
      <3>18. lu <= lt
        BY <3>17
      <3> QED
        BY <3>18 DEF lu, lt
    <2> QED
      BY <2>1, <2>3 DEF u
  <1>3. Seq(Entry) \subseteq T
    <2> HIDE DEF T
    <2> QED
      BY <1>1, <1>2, ListSetInduction
  <1> QED
    BY <1>3

-----------------------------------------------------------------------------
(* The files while requests come one at a time and contents only grow: each *)
(* holds a list in order, or will when the write under way is over.         *)

\* The estimates of later usage are not shorter.
ContentsGrow == \A v, w \in Versions : v <= w => SizeOf[v] <= SizeOf[w]

Quiet ==
    ContentsGrow /\ overlapped = {} /\ crashes = 0 /\ Faults \cap {"access", "store"} = {}

Storable == Faults \cap {"access", "store", "create"} = {}

DatesOf(list) == {e.date : e \in Range(list)}

\* Entries of a grouping in order, none of later usage than there is.
Orderly(list, g) ==
    /\ list \in Seq(Entry) /\ Sorted(list)
    /\ \A e \in Range(list) : e.grp = g /\ e.ver <= usage[g][e.date]

\* Of the list r writes a part is done, and over the rest of the file it goes on.
Written(r, list) ==
    \E done \in Seq(Entry), old \in Seq(Cell) :
        /\ list = done \o io[r].out /\ io[r].at = Len(Cells(done))
        /\ file[req[r].grp] = Cells(done) \o old /\ Len(old) <= Len(Cells(io[r].out))

FileIs(g, list) == IF file[g] = NoFile THEN list = <<>> ELSE file[g] = Cells(list)

Becomes(g, list) ==
    /\ (\A r \in Requests : pc[r] = "write" => req[r].grp # g) => FileIs(g, list)
    /\ \A r \in Requests : pc[r] = "write" /\ req[r].grp = g => Written(r, list)

\* Of the dates of the list there is later usage, if any other.
Supersedes(entries, list) ==
    \A x \in Range(entries), e \in Range(list) : x.date = e.date => e.ver <= x.ver

\* How far a request has come with the list its file holds.
Progress(r, list) ==
    LET g == req[r].grp IN
    /\ pc[r] \in {"access", "create", "read", "open"} =>
          Orderly(io[r].toStore, g) /\ Supersedes(io[r].toStore, list)
    /\ pc[r] \in {"access", "open"} => io[r].buf = <<>>
    /\ pc[r] = "create" => file[g] = NoFile
    /\ pc[r] = "read" => /\ Len(io[r].buf) <= Len(file[g])
                         /\ io[r].buf = SubSeq(file[g], 1, Len(io[r].buf))
    /\ pc[r] = "fetch" =>
          /\ Orderly(cachedEstimates, g) /\ Range(cachedEstimates) \subseteq Range(list)
          /\ \A x \in call[r].got : x.ver <= usage[g][x.date]
          /\ \A e \in Range(list) : e.date \in call[r].missing \ call[r].pending =>
                 e.ver = 0 \/ \E x \in call[r].got : x.date = e.date /\ e.ver <= x.ver

\* What a request uses or used of the list of its file is in it.
Recalls(r, list) ==
    LET g == req[r].grp IN
    /\ pc[r] = "fetch" \/ Storing(r) =>
          \A e \in Range(cachedEstimates) : e.grp = g /\ e.date \in DatesOf(list)
    /\ pc[r] \in {"write", "close"} => io[r].toStore = <<>>
    /\ Served(r) => AnsweredDates(r) \subseteq DatesOf(list)

\* What was fetched earlier is in the file of its grouping, or is being stored.
FetchedKept(content) ==
    \A e \in Range(fetchedEstimates) :
        \/ e.date \in DatesOf(content[e.grp])
        \/ \E r \in InFlight : e.grp = req[r].grp /\ e \in Range(io[r].toStore)

Holding(content) ==
    /\ \A g \in Groupings : Orderly(content[g], g) /\ Becomes(g, content[g])
    /\ \A r \in InFlight : Progress(r, content[req[r].grp])
    /\ Storable => /\ FetchedKept(content)
                   /\ \A r \in Requests : Recalls(r, content[req[r].grp])

OrderlyInv == Quiet => \E content \in [Groupings -> Seq(Entry)] : Holding(content)

\* Of the requests at most one is in progress.
LEMMA QuietAlone ==
    ASSUME StateInv, Quiet, NEW r \in InFlight
    PROVE  /\ r \in Requests
           /\ \A p \in Requests : p # r => pc[p] \in {"idle", "done", "failed"}
  BY DEF StateInv, ManagerInv, Quiet, InFlight

\* No entries are in order and replace nothing.
LEMMA NothingOrderly ==
    ASSUME NEW g
    PROVE  Orderly(<<>>, g) /\ \A list : Supersedes(<<>>, list)
  BY EmptyList DEF Orderly, Sorted, Supersedes

\* At first there are no files and nothing is fetched.
LEMMA OrderlyInitially == Init => OrderlyInv
  <1> SUFFICES ASSUME Init PROVE OrderlyInv
    OBVIOUS
  <1> DEFINE content == [g \in Groupings |-> <<>>]
  <1>1. /\ pc = [r \in Requests |-> "idle"] /\ file = [g \in Groupings |-> NoFile]
        /\ fetchedEstimates = <<>> /\ InFlight = {}
    BY DEF Init, ManagerInit, InFlight
  <1>2. content \in [Groupings -> Seq(Entry)]
    <2>1. <<>> \in Seq(Entry)
      OBVIOUS
    <2> QED
      BY <2>1
  <1>3. \A g \in Groupings : Orderly(content[g], g)
    BY NothingOrderly
  <1>4. \A g \in Groupings : Becomes(g, content[g])
    BY <1>1 DEF Becomes, FileIs
  <1>5. FetchedKept(content)
    BY <1>1, EmptyList DEF FetchedKept
  <1> HIDE DEF content
  <1>6. \A r \in Requests : Recalls(r, content[req[r].grp])
    BY <1>1 DEF Recalls, Storing, Served
  <1> QED
    BY <1>1, <1>2, <1>3, <1>4, <1>5, <1>6 DEF OrderlyInv, Holding

(* A step of a request keeps the files in order when it does so with its    *)
(* own, and leaves every date in it.                                        *)
LEMMA StepKeepsOrderly ==
    ASSUME StateInv, Quiet, NEW r \in InFlight, UNCHANGED <<usage, req>>,
           NEW content \in [Groupings -> Seq(Entry)], Holding(content),
           \A p \in Requests : p # r =>
               pc'[p] = pc[p] /\ answer'[p] = answer[p],
           \A h \in Groupings : h # req[r].grp => file'[h] = file[h],
           fetchedEstimates' \in Seq(Entry), NEW list, Orderly(list, req[r].grp),
           pc'[r] = "write" => Written(r, list)',
           pc'[r] # "write" => FileIs(req[r].grp, list)',
           pc'[r] \notin {"idle", "done", "failed"} => Progress(r, list)',
           Storable =>
               /\ DatesOf(content[req[r].grp]) \subseteq DatesOf(list)
               /\ Recalls(r, list)'
               /\ \A e \in Range(fetchedEstimates') :
                     \/ e.grp # req[r].grp /\ e.date \in DatesOf(content[e.grp])
                     \/ e.grp = req[r].grp /\ e.date \in DatesOf(list)
                     \/ /\ pc'[r] \notin {"idle", "done", "failed"}
                        /\ e.grp = req[r].grp /\ e \in Range(io'[r].toStore)
    PROVE  OrderlyInv'
  <1>1. /\ r \in Requests /\ req[r].grp \in Groupings
        /\ \A p \in Requests : p # r => pc[p] \in {"idle", "done", "failed"}
    BY QuietAlone, RequestState
  <1>2. PICK g \in Groupings : g = req[r].grp
    BY <1>1
  <1>3. PICK next \in [Groupings -> Seq(Entry)] :
            next[g] = list /\ \A h \in Groupings : h # g => next[h] = content[h]
    <2> DEFINE f == [content EXCEPT ![g] = list]
    <2>1. list \in Seq(Entry)
      BY DEF Orderly
    <2>2. /\ f \in [Groupings -> Seq(Entry)]
          /\ f[g] = list /\ \A h \in Groupings : h # g => f[h] = content[h]
      BY <2>1
    <2> QED
      BY <2>2
  <1>4. ASSUME NEW h \in Groupings
        PROVE  Orderly(next[h], h)' /\ Becomes(h, next[h])'
    <2>1. Orderly(next[h], h)
      <3>1. CASE h = g
        BY <1>2, <1>3, <3>1
      <3>2. CASE h # g
        BY <1>3, <3>2 DEF Holding
      <3> QED
        BY <3>1, <3>2
    <2>2. Orderly(next[h], h)'
      BY <2>1 DEF Orderly
    <2>3. \A p \in Requests : pc'[p] = "write" => p = r
      BY <1>1
    <2>4. Becomes(h, next[h])'
      <3>1. CASE h = g
        <4>1. (pc'[r] = "write" => Written(r, next[h])') /\ (pc'[r] # "write" => FileIs(h, next[h])')
          BY <1>2, <1>3, <3>1
        <4>2. req'[r].grp = h
          BY <1>2, <3>1
        <4> QED
          BY <1>1, <2>3, <4>1, <4>2 DEF Becomes
      <3>2. CASE h # g
        <4>1. Becomes(h, content[h])
          BY DEF Holding
        <4>2. \A p \in Requests : pc[p] = "write" => req[p].grp # h
          BY <1>1, <1>2, <3>2
        <4>3. FileIs(h, next[h])
          BY <1>3, <3>2, <4>1, <4>2 DEF Becomes
        <4>4. file'[h] = file[h]
          BY <1>2, <3>2
        <4>5. FileIs(h, next[h])'
          BY <4>3, <4>4 DEF FileIs
        <4>6. \A p \in Requests : pc'[p] = "write" => req'[p].grp # h
          BY <1>2, <2>3, <3>2
        <4> QED
          BY <4>5, <4>6 DEF Becomes
      <3> QED
        BY <3>1, <3>2
    <2> QED
      BY <2>2, <2>4
  <1>5. ASSUME NEW p \in InFlight'
        PROVE  Progress(p, next[req[p].grp])'
    <2>1. p = r /\ pc'[r] \notin {"idle", "done", "failed"}
      BY <1>1, <1>5 DEF InFlight
    <2>2. Progress(r, list)'
      BY <2>1
    <2>3. next[req'[p].grp] = list
      BY <1>2, <1>3, <2>1
    <2> QED
      BY <2>1, <2>2, <2>3
  <1>6. ASSUME Storable
        PROVE  FetchedKept(next)' /\ \A p \in Requests : Recalls(p, next[req[p].grp])'
    <2>1. ASSUME NEW p \in Requests, p # r
          PROVE  Recalls(p, next[req[p].grp])'
      <3>1. pc'[p] = pc[p] /\ pc[p] \in {"idle", "done", "failed"} /\ answer'[p] = answer[p]
        BY <1>1, <2>1
      <3>2. ASSUME Served(p)'
            PROVE  AnsweredDates(p)' \subseteq DatesOf(next[req'[p].grp])
        <4>1. Served(p) /\ req[p] \in RequestSpace
          BY <3>1, <3>2 DEF Served, StateInv, ManagerInv
        <4>2. AnsweredDates(p) \subseteq DatesOf(content[req[p].grp])
          BY <1>6, <4>1 DEF Holding, Recalls
        <4>3. AnsweredDates(p)' = AnsweredDates(p)
          BY <3>1 DEF AnsweredDates
        <4>4. req[p].grp \in Groupings
          BY <4>1, RequestFields
        <4>5. DatesOf(content[req[p].grp]) \subseteq DatesOf(next[req[p].grp])
          <5>1. CASE req[p].grp = g
            BY <1>2, <1>3, <1>6, <5>1
          <5>2. CASE req[p].grp # g
            BY <1>3, <4>4, <5>2
          <5> QED
            BY <5>1, <5>2
        <4> QED
          BY <4>2, <4>3, <4>5
      <3>3. ~(pc'[p] = "fetch" \/ Storing(p)')
        BY <3>1 DEF Storing
      <3> QED
        BY <3>1, <3>2, <3>3 DEF Recalls, DatesOf
    <2>2. Recalls(r, next[req[r].grp])'
      <3>1. next[req'[r].grp] = list
        BY <1>2, <1>3
      <3> QED
        BY <1>6, <3>1
    <2>3. FetchedKept(next)'
      <3> SUFFICES ASSUME NEW e \in Range(fetchedEstimates')
                   PROVE  \/ e.date \in DatesOf(next[e.grp])
                          \/ \E p \in InFlight' : e.grp = req'[p].grp /\ e \in Range(io'[p].toStore)
        BY DEF FetchedKept, DatesOf
      <3>1. e.grp \in Groupings
        <4>1. PICK k \in DOMAIN fetchedEstimates' : e = fetchedEstimates'[k]
          BY DEF Range
        <4>2. e \in Entry
          BY <4>1, LenProperties, ElementOfSeq
        <4> QED
          BY <4>2 DEF Entry
      <3>2. pc'[r] \notin {"idle", "done", "failed"} => r \in InFlight'
        BY <1>1 DEF InFlight
      <3> QED
        BY <1>2, <1>3, <1>6, <3>1, <3>2
    <2> QED
      BY <2>1, <2>2, <2>3
  <1>7. Holding(next)'
    BY <1>4, <1>5, <1>6 DEF Holding, Storable
  <1> QED
    BY <1>3, <1>7 DEF OrderlyInv

\* What is known of a request in progress, its file and what was fetched.
LEMMA OrderlyRequest ==
    ASSUME StateInv, Quiet, NEW r \in InFlight,
           NEW content \in [Groupings -> Seq(Entry)], Holding(content)
    PROVE  LET g == req[r].grp  list == content[req[r].grp] IN
           /\ list \in Seq(Entry) /\ Orderly(list, g) /\ Progress(r, list)
           /\ pc[r] = "write" => Written(r, list)
           /\ pc[r] # "write" => FileIs(g, list)
           /\ Storable =>
                 /\ Recalls(r, list)
                 /\ \A e \in Range(fetchedEstimates) :
                       \/ e.grp # g /\ e.date \in DatesOf(content[e.grp])
                       \/ e.grp = g /\ e.date \in DatesOf(list)
                       \/ e.grp = g /\ e \in Range(io[r].toStore)
  <1>1. /\ r \in Requests /\ req[r].grp \in Groupings
        /\ \A p \in Requests : p # r => pc[p] \in {"idle", "done", "failed"}
    BY QuietAlone, RequestState
  <1> DEFINE list == content[req[r].grp]
  <1>2. list \in Seq(Entry) /\ Orderly(list, req[r].grp) /\ Progress(r, list) /\ Becomes(req[r].grp, list)
    BY <1>1 DEF Holding
  <1>3. (pc[r] = "write" => Written(r, list)) /\ (pc[r] # "write" => FileIs(req[r].grp, list))
    BY <1>1, <1>2 DEF Becomes
  <1>4. ASSUME Storable
        PROVE  /\ Recalls(r, list)
               /\ \A e \in Range(fetchedEstimates) :
                       \/ e.grp # req[r].grp /\ e.date \in DatesOf(content[e.grp])
                       \/ e.grp = req[r].grp /\ e.date \in DatesOf(list)
                       \/ e.grp = req[r].grp /\ e \in Range(io[r].toStore)
    <2>1. Recalls(r, list) /\ FetchedKept(content)
      BY <1>1, <1>4 DEF Holding
    <2>2. InFlight = {r}
      BY <1>1 DEF InFlight
    <2> QED
      BY <2>1, <2>2 DEF FetchedKept
  <1> QED
    BY <1>2, <1>3, <1>4

\* A step that leaves the file and the lists keeps what is in order.
LEMMA WaitKeepsOrderly ==
    ASSUME StateInv, OrderlyInv, Quiet, NEW r \in InFlight,
           UNCHANGED <<usage, lists, req, answer, file>>,
           NEW phase \in Phases \ {"idle", "write", "close", "done"},
           pc[r] # "write", phase = "fetch" => pc[r] = "fetch", pc' = [pc EXCEPT ![r] = phase],
           io'[r].toStore = io[r].toStore, phase = "failed" /\ Storable => io[r].toStore = <<>>,
           Storing(r)' => Storing(r),
           \A list : phase # "failed" /\ Orderly(list, req[r].grp) /\ Progress(r, list)
                       => Progress(r, list)'
    PROVE  OrderlyInv'
  <1>1. PICK content \in [Groupings -> Seq(Entry)] : Holding(content)
    BY DEF OrderlyInv
  <1>2. PICK list \in Seq(Entry) : list = content[req[r].grp]
    BY <1>1, OrderlyRequest
  <1>3. /\ Orderly(list, req[r].grp) /\ Progress(r, list) /\ FileIs(req[r].grp, list)
        /\ Storable =>
              /\ Recalls(r, list)
              /\ \A e \in Range(fetchedEstimates) :
                    \/ e.grp # req[r].grp /\ e.date \in DatesOf(content[e.grp])
                    \/ e.grp = req[r].grp /\ e.date \in DatesOf(list)
                    \/ e.grp = req[r].grp /\ e \in Range(io[r].toStore)
    BY <1>1, <1>2, OrderlyRequest
  <1>4. /\ r \in Requests /\ pc = [p \in Requests |-> pc[p]] /\ fetchedEstimates \in Seq(Entry)
        /\ pc'[r] = phase /\ \A p \in Requests : p # r => pc'[p] = pc[p] /\ answer'[p] = answer[p]
    <2>1. r \in Requests /\ pc = [p \in Requests |-> pc[p]] /\ fetchedEstimates \in Seq(Entry)
      BY RequestState DEF RequestsTyped
    <2>2. pc'[r] = phase /\ \A p \in Requests : p # r => pc'[p] = pc[p]
      BY <2>1
    <2> QED
      BY <2>1, <2>2
  <1>5. FileIs(req[r].grp, list)'
    <2>1. file' = file /\ req' = req
      OBVIOUS
    <2> QED
      BY <1>3, <2>1 DEF FileIs
  <1>6. ASSUME pc'[r] \notin {"idle", "done", "failed"}
        PROVE  Progress(r, list)'
    BY <1>3, <1>4, <1>6
  <1>7. ASSUME Storable
        PROVE  Recalls(r, list)'
    <2>1. Recalls(r, list)
      BY <1>3, <1>7
    <2>2. pc'[r] \notin {"write", "close", "done"} /\ (pc'[r] = "fetch" => pc[r] = "fetch")
      BY <1>4
    <2>3. cachedEstimates' = cachedEstimates /\ req' = req
      BY DEF lists
    <2> QED
      BY <2>1, <2>2, <2>3 DEF Recalls, Served, DatesOf
  <1>8. ASSUME Storable, NEW e \in Range(fetchedEstimates')
        PROVE  \/ e.grp # req[r].grp /\ e.date \in DatesOf(content[e.grp])
               \/ e.grp = req[r].grp /\ e.date \in DatesOf(list)
               \/ /\ pc'[r] \notin {"idle", "done", "failed"}
                  /\ e.grp = req[r].grp /\ e \in Range(io'[r].toStore)
    <2>1. phase \notin {"idle", "done"} /\ (phase = "failed" => Range(io[r].toStore) = {})
      BY <1>8, EmptyList
    <2>2. fetchedEstimates' = fetchedEstimates
      BY DEF lists
    <2> QED
      BY <1>3, <1>4, <1>8, <2>1, <2>2
  <1>9. /\ pc'[r] # "write" /\ DatesOf(content[req[r].grp]) \subseteq DatesOf(list)
        /\ fetchedEstimates' \in Seq(Entry) /\ UNCHANGED <<usage, req>>
        /\ \A h \in Groupings : file'[h] = file[h]
    BY <1>2, <1>4 DEF lists
  <1> QED
    BY <1>1, <1>3, <1>4, <1>5, <1>6, <1>7, <1>8, <1>9, StepKeepsOrderly

\* Whether the file exists is known from the access to it.
LEMMA AccessKeepsOrderly ==
    ASSUME StateInv, OrderlyInv, Quiet, NEW r \in Requests, AccessFile(r)
    PROVE  OrderlyInv'
  <1>1. /\ pc[r] = "access" /\ r \in InFlight
        /\ pc' = [pc EXCEPT ![r] = IF file[req[r].grp] = NoFile THEN "create" ELSE "read"]
        /\ UNCHANGED <<usage, lists, req, call, answer, file, io>>
    BY DEF AccessFile, InFlight
  <1>2. /\ pc = [p \in Requests |-> pc[p]] /\ req[r].grp \in Groupings
        /\ file \in [Groupings -> Seq(Cell) \cup {NoFile}]
    BY <1>1, RequestState DEF RequestsTyped
  <1>3. PICK phase : phase = IF file[req[r].grp] = NoFile THEN "create" ELSE "read"
    OBVIOUS
  <1>4. phase \in Phases \ {"idle", "write", "close", "done"} /\ phase \in {"create", "read"}
    BY <1>3 DEF Phases
  <1>5. pc' = [pc EXCEPT ![r] = phase] /\ pc'[r] = phase
    BY <1>1, <1>2, <1>3
  <1>6. ASSUME NEW list, Progress(r, list)
        PROVE  Progress(r, list)'
    <2>1. /\ io[r].buf = <<>> /\ Orderly(io[r].toStore, req[r].grp) /\ Supersedes(io[r].toStore, list)
      BY <1>1, <1>6 DEF Progress
    <2>2. phase = "read" => Len(<<>>) <= Len(file[req[r].grp])
                            /\ <<>> = SubSeq(file[req[r].grp], 1, Len(<<>>))
      <3>1. ASSUME phase = "read" PROVE file[req[r].grp] \in Seq(Cell)
        BY <1>2, <1>3, <3>1
      <3>2. ASSUME NEW s \in Seq(Cell) PROVE Len(<<>>) <= Len(s) /\ <<>> = SubSeq(s, 1, Len(<<>>))
        BY LenProperties
      <3> QED
        BY <3>1, <3>2
    <2>3. Orderly(io[r].toStore, req[r].grp)' /\ Supersedes(io[r].toStore, list)'
      <3>1. usage' = usage /\ req' = req /\ io' = io
        BY <1>1
      <3> QED
        BY <2>1, <3>1 DEF Orderly, Supersedes
    <2>4. phase = "create" => file[req[r].grp] = NoFile
      BY <1>3
    <2> QED
      BY <1>1, <1>4, <1>5, <2>1, <2>2, <2>3, <2>4 DEF Progress
  <1>7. Storing(r)' => Storing(r)
    BY <1>1, <1>4, <1>5 DEF Storing
  <1> QED
    BY <1>1, <1>4, <1>5, <1>6, <1>7, WaitKeepsOrderly

\* Opening the file for update changes nothing in it.
LEMMA OpenKeepsOrderly ==
    ASSUME StateInv, OrderlyInv, Quiet, NEW r \in Requests, OpenFile(r)
    PROVE  OrderlyInv'
  <1>1. /\ pc[r] = "open" /\ r \in InFlight
        /\ pc' = [pc EXCEPT ![r] = "access"]
        /\ UNCHANGED <<usage, lists, req, call, answer, file, io>>
    BY DEF OpenFile, InFlight
  <1>2. pc = [p \in Requests |-> pc[p]]
    BY <1>1, RequestState DEF RequestsTyped
  <1>3. pc'[r] = "access" /\ "access" \in Phases \ {"idle", "write", "close", "done"}
    BY <1>1, <1>2 DEF Phases
  <1>4. ASSUME NEW list, Progress(r, list)
        PROVE  Progress(r, list)'
    <2>1. /\ io[r].buf = <<>> /\ Orderly(io[r].toStore, req[r].grp) /\ Supersedes(io[r].toStore, list)
      BY <1>1, <1>4 DEF Progress
    <2>2. Orderly(io[r].toStore, req[r].grp)' /\ Supersedes(io[r].toStore, list)'
      <3>1. usage' = usage /\ req' = req /\ io' = io
        BY <1>1
      <3> QED
        BY <2>1, <3>1 DEF Orderly, Supersedes
    <2> QED
      BY <1>1, <1>3, <2>1, <2>2 DEF Progress
  <1>5. Storing(r)' => Storing(r)
    BY <1>1 DEF Storing
  <1> QED
    BY <1>1, <1>3, <1>4, <1>5, WaitKeepsOrderly

\* A request is only rejected before it stores anything, unless no file can be created.
LEMMA RejectKeepsOrderly ==
    ASSUME StateInv, OrderlyInv, Quiet, NEW r \in InFlight, Reject(r), UNCHANGED <<file, io>>,
           pc[r] = "fetch" \/ (pc[r] = "create" /\ "create" \in Faults)
    PROVE  OrderlyInv'
  <1>1. pc' = [pc EXCEPT ![r] = "failed"] /\ UNCHANGED <<usage, lists, req, answer>>
    BY DEF Reject
  <1>2. pc = [p \in Requests |-> pc[p]] /\ IoReady(r) /\ r \in Requests
    BY <1>1, RequestState DEF RequestsTyped
  <1>3. "failed" \in Phases \ {"idle", "write", "close", "done"} /\ pc'[r] = "failed"
    BY <1>1, <1>2 DEF Phases
  <1>4. Storable => io[r].toStore = <<>>
    BY <1>2 DEF Storable, IoReady, NoIO
  <1>5. ~Storing(r)'
    BY <1>3 DEF Storing
  <1> QED
    BY <1>1, <1>3, <1>4, <1>5, WaitKeepsOrderly

\* A beginning of a list and the next part of it are a longer beginning.
LEMMA PrefixGrows ==
    ASSUME NEW S, NEW s \in Seq(S), NEW k \in 0 .. Len(s) - 1, NEW n \in Nat \ {0}
    PROVE  \E m \in 0 .. Len(s) :
               SubSeq(s, 1, k) \o Slice(s, k + 1, k + n) = SubSeq(s, 1, m)
                   /\ Len(SubSeq(s, 1, m)) = m
  <1>1. Len(s) \in Nat
    BY LenProperties
  <1>2. PICK m : m = IF k + n < Len(s) THEN k + n ELSE Len(s)
    OBVIOUS
  <1>3. m \in k + 1 .. Len(s) /\ m \in 0 .. Len(s)
    BY <1>1, <1>2
  <1>4. Slice(s, k + 1, k + n) = SubSeq(s, k + 1, m)
    BY <1>2 DEF Slice
  <1>5. SubSeq(s, 1, k) \o SubSeq(s, k + 1, m) = SubSeq(s, 1, m)
    BY <1>1, <1>3, ConcatAdjacentSubSeq
  <1>6. Len(SubSeq(s, 1, m)) = m
    BY <1>1, <1>3, SplitAt
  <1> QED
    BY <1>3, <1>4, <1>5, <1>6

\* What has been read remains a beginning of the file.
LEMMA ReadKeepsOrderly ==
    ASSUME StateInv, OrderlyInv, Quiet, NEW r \in Requests, ReadChunk(r)
    PROVE  OrderlyInv'
  <1>1. /\ pc[r] = "read" /\ r \in InFlight /\ Len(io[r].buf) < Len(file[req[r].grp])
        /\ io' = [io EXCEPT ![r].buf =
                     @ \o Slice(file[req[r].grp], Len(io[r].buf) + 1, Len(io[r].buf) + ReadSize)]
        /\ UNCHANGED <<usage, lists, pc, req, call, answer, file>>
    BY DEF ReadChunk, InFlight, managerVars
  <1>2. /\ pc = [p \in Requests |-> pc[p]] /\ req[r].grp \in Groupings /\ io[r] \in IOState
        /\ IoReady(r) /\ file \in [Groupings -> Seq(Cell) \cup {NoFile}] /\ TypeOK
    BY <1>1, RequestState DEF RequestsTyped, StateInv
  <1>3. pc' = [pc EXCEPT ![r] = "read"] /\ "read" \in Phases \ {"idle", "write", "close", "done"}
    BY <1>1, <1>2 DEF Phases
  <1>4. PICK cells \in Seq(Cell) : cells = file[req[r].grp]
    BY <1>1, <1>2 DEF IoReady
  <1>5. PICK buf : buf = io[r].buf \o Slice(cells, Len(io[r].buf) + 1, Len(io[r].buf) + ReadSize)
    OBVIOUS
  <1>6. io' = [io EXCEPT ![r].buf = buf]
    BY <1>1, <1>4, <1>5
  <1>7. io'[r].toStore = io[r].toStore /\ io'[r].buf = buf
    <2>1. io[r] = [buf |-> io[r].buf, toStore |-> io[r].toStore, out |-> io[r].out, at |-> io[r].at]
      BY <1>2 DEF IOState
    <2>2. io \in [Requests -> IOState]
      BY <1>2 DEF TypeOK, IOState
    <2>3. io'[r] = [io[r] EXCEPT !.buf = buf]
      BY <1>6, <2>2
    <2> QED
      BY <2>1, <2>3
  <1>8. ASSUME NEW list, Progress(r, list)
        PROVE  Progress(r, list)'
    <2>1. /\ io[r].buf = SubSeq(cells, 1, Len(io[r].buf)) /\ Orderly(io[r].toStore, req[r].grp)
          /\ Supersedes(io[r].toStore, list)
      BY <1>1, <1>4, <1>8 DEF Progress
    <2>2. Len(io[r].buf) \in 0 .. Len(cells) - 1
      <3>1. io[r].buf \in Seq(Cell)
        BY <1>2 DEF IOState
      <3> QED
        BY <1>1, <1>4, <3>1, LenProperties
    <2>3. \E m \in 0 .. Len(cells) : buf = SubSeq(cells, 1, m) /\ Len(SubSeq(cells, 1, m)) = m
      <3>1. PICK k \in 0 .. Len(cells) - 1 : k = Len(io[r].buf)
        BY <2>2
      <3>2. \E m \in 0 .. Len(cells) : 
               SubSeq(cells, 1, k) \o Slice(cells, k + 1, k + ReadSize) = SubSeq(cells, 1, m)
                   /\ Len(SubSeq(cells, 1, m)) = m
        BY PrefixGrows, LocalCacheAssumption
      <3> QED
        BY <1>5, <2>1, <3>1, <3>2
    <2>4. Len(buf) <= Len(cells) /\ buf = SubSeq(cells, 1, Len(buf))
      BY <2>3, LenProperties
    <2>5. Orderly(io[r].toStore, req[r].grp)' /\ Supersedes(io[r].toStore, list)'
      <3>1. usage' = usage /\ req' = req
        BY <1>1
      <3> QED
        BY <1>7, <2>1, <3>1 DEF Orderly, Supersedes
    <2> QED
      BY <1>1, <1>4, <1>7, <2>1, <2>4, <2>5 DEF Progress, Orderly, Supersedes
  <1>9. Storing(r)' => Storing(r)
    BY <1>1, <1>7 DEF Storing
  <1> QED
    BY <1>1, <1>3, <1>7, <1>8, <1>9, WaitKeepsOrderly

\* What is fetched is the usage there is, so no older than what the list holds.
LEMMA FetchedLatest ==
    ASSUME StateInv, NEW r \in Requests, pc[r] = "fetch", NEW run \in SUBSET Dates,
           NEW list, Orderly(list, req[r].grp), Progress(r, list)
    PROVE  LET got == call[r].got \cup EntriesFetched(r, run) IN
           /\ \A x \in got : x.ver <= usage[req[r].grp][x.date]
           /\ \A e \in Range(list) : e.date \in call[r].missing \ (call[r].pending \ run) =>
                 e.ver = 0 \/ \E x \in got : x.date = e.date /\ e.ver <= x.ver
  <1>1. /\ req[r].grp \in Groupings /\ usage \in [Groupings -> [Dates -> Versions]]
        /\ call \in [Requests -> [missing: SUBSET Dates, pending: SUBSET Dates, got: SUBSET Entry]]
    BY RequestState DEF RequestsTyped, ManagerTypeOK, InFlight
  <1>2. PICK g \in Groupings : g = req[r].grp
    BY <1>1
  <1>3. PICK new : new = EntriesFetched(r, run)
    OBVIOUS
  <1>4. new = {e \in Entry : e.grp = g /\ e.date \in run /\ e.ver = usage[g][e.date] /\ e.ver # 0}
    BY <1>2, <1>3 DEF EntriesFetched
  <1>5. /\ \A x \in call[r].got : x.ver <= usage[g][x.date]
        /\ \A e \in Range(list) : e.date \in call[r].missing \ call[r].pending =>
              e.ver = 0 \/ \E x \in call[r].got : x.date = e.date /\ e.ver <= x.ver
    BY <1>2 DEF Progress
  <1>6. \A d \in Dates : usage[g][d] \in Nat
    BY <1>1 DEF Versions
  <1>7. ASSUME NEW x \in call[r].got \cup new
        PROVE  x.ver <= usage[g][x.date]
    <2>1. CASE x \in call[r].got
      BY <1>5, <2>1
    <2>2. CASE x \in new
      <3>1. x.date \in Dates /\ x.ver = usage[g][x.date]
        BY <1>4, <2>2 DEF Entry
      <3> QED
        BY <1>6, <3>1
    <2> QED
      BY <2>1, <2>2
  <1>8. ASSUME NEW e \in Range(list), e.date \in call[r].missing \ (call[r].pending \ run)
        PROVE  e.ver = 0 \/ \E x \in call[r].got \cup new : x.date = e.date /\ e.ver <= x.ver
    <2>1. CASE e.date \notin run
      BY <1>5, <1>8, <2>1
    <2>2. CASE e.date \in run /\ e.ver # 0
      <3>1. e \in Entry /\ e.ver <= usage[g][e.date]
        <4>1. list \in Seq(Entry) /\ e.ver <= usage[g][e.date]
          BY <1>2, <1>8 DEF Orderly
        <4>2. PICK k \in DOMAIN list : e = list[k]
          BY <1>8 DEF Range
        <4> QED
          BY <4>1, <4>2, ElementOfSeq, LenProperties
      <3>2. e.ver \in Nat /\ e.date \in Dates
        BY <3>1 DEF Entry, Versions
      <3>3. usage[g][e.date] \in Versions /\ usage[g][e.date] # 0
        BY <1>1, <1>6, <2>2, <3>1, <3>2
      <3>4. PICK x \in Entry : x = [grp |-> g, date |-> e.date, ver |-> usage[g][e.date]]
        BY <3>2, <3>3 DEF Entry
      <3>5. x \in new
        BY <1>4, <2>2, <3>3, <3>4
      <3>6. x.date = e.date /\ e.ver <= x.ver
        BY <3>1, <3>4
      <3> QED
        BY <3>5, <3>6
    <2> QED
      BY <2>1, <2>2
  <1> QED
    BY <1>2, <1>3, <1>7, <1>8

\* A sub-request that answers adds the latest usage of its dates.
LEMMA FetchSomeKeepsOrderly ==
    ASSUME StateInv, OrderlyInv, Quiet, NEW r \in Requests, NEW run \in SUBSET Dates,
           FetchSome(r, run), UNCHANGED <<file, io>>
    PROVE  OrderlyInv'
  <1>1. /\ pc[r] = "fetch" /\ r \in InFlight
        /\ call' = [call EXCEPT ![r].pending = @ \ run,
                                ![r].got = @ \cup EntriesFetched(r, run)]
        /\ UNCHANGED <<usage, lists, pc, req, answer, file, io>>
    BY DEF FetchSome, InFlight
  <1>2. /\ pc = [p \in Requests |-> pc[p]]
        /\ call \in [Requests -> [missing: SUBSET Dates, pending: SUBSET Dates, got: SUBSET Entry]]
    BY <1>1, RequestState DEF RequestsTyped
  <1>3. pc' = [pc EXCEPT ![r] = "fetch"] /\ "fetch" \in Phases \ {"idle", "write", "close", "done"}
    BY <1>1, <1>2 DEF Phases
  <1>4. PICK new : new = EntriesFetched(r, run)
    OBVIOUS
  <1>5. /\ call'[r].missing = call[r].missing /\ call'[r].pending = call[r].pending \ run
        /\ call'[r].got = call[r].got \cup new
    BY <1>1, <1>2, <1>4
  <1>6. ASSUME NEW list, Orderly(list, req[r].grp), Progress(r, list)
        PROVE  Progress(r, list)'
    <2>1. /\ \A x \in call'[r].got : x.ver <= usage[req[r].grp][x.date]
          /\ \A e \in Range(list) : e.date \in call'[r].missing \ call'[r].pending =>
                e.ver = 0 \/ \E x \in call'[r].got : x.date = e.date /\ e.ver <= x.ver
      BY <1>1, <1>4, <1>5, <1>6, FetchedLatest
    <2>2. Orderly(cachedEstimates, req[r].grp) /\ Range(cachedEstimates) \subseteq Range(list)
      BY <1>1, <1>6 DEF Progress
    <2>3. usage' = usage /\ req' = req /\ pc' = pc /\ cachedEstimates' = cachedEstimates
      BY <1>1 DEF lists
    <2>4. Orderly(cachedEstimates, req[r].grp)'
      BY <2>2, <2>3 DEF Orderly
    <2> QED
      BY <1>1, <2>1, <2>2, <2>3, <2>4 DEF Progress
  <1>7. (Storing(r)' => Storing(r)) /\ io'[r].toStore = io[r].toStore
    BY <1>1 DEF Storing
  <1> QED
    BY <1>1, <1>3, <1>6, <1>7, WaitKeepsOrderly

\* The dates of an answer are those of its entries of the request's grouping.
LEMMA AnswerDates ==
    ASSUME NEW r \in Requests, answer \in [Requests -> Seq(Entry)], UNCHANGED req,
           NEW entries \in Seq(Entry), answer' = [answer EXCEPT ![r] = entries],
           NEW D, \A e \in Range(entries) : e.grp = req[r].grp => e.date \in D
    PROVE  AnsweredDates(r)' \subseteq D
  <1>1. answer'[r] = entries /\ req' = req
    OBVIOUS
  <1> QED
    BY <1>1 DEF AnsweredDates, Range

\* A request answered from the lists of its manager leaves the file as it is.
LEMMA AnswerKeepsOrderly ==
    ASSUME StateInv, OrderlyInv, Quiet, NEW r \in InFlight, pc[r] \in {"fetch", "close"},
           NEW cached \in Seq(Entry), NEW fetched \in Seq(Entry), AnswerFrom(r, cached, fetched),
           ~req[r].ignoreCache => cached = cachedEstimates /\ fetched = fetchedEstimates,
           UNCHANGED <<usage, lists, req, file>>
    PROVE  OrderlyInv'
  <1>1. PICK content \in [Groupings -> Seq(Entry)] : Holding(content)
    BY DEF OrderlyInv
  <1>2. PICK list \in Seq(Entry) : list = content[req[r].grp]
    BY <1>1, OrderlyRequest
  <1>3. /\ Orderly(list, req[r].grp) /\ Progress(r, list) /\ FileIs(req[r].grp, list)
        /\ Storable =>
              /\ Recalls(r, list)
              /\ \A e \in Range(fetchedEstimates) :
                    \/ e.grp # req[r].grp /\ e.date \in DatesOf(content[e.grp])
                    \/ e.grp = req[r].grp /\ e.date \in DatesOf(list)
                    \/ e.grp = req[r].grp /\ e \in Range(io[r].toStore)
    BY <1>1, <1>2, OrderlyRequest
  <1>4. /\ r \in Requests /\ pc = [p \in Requests |-> pc[p]] /\ fetchedEstimates \in Seq(Entry)
        /\ answer \in [Requests -> Seq(Entry)] /\ IoReady(r)
    BY RequestState DEF RequestsTyped
  <1>5. PICK entries \in Seq(Entry) :
            /\ Range(entries) = {e \in Range(cached) \cup Range(fetched) : e.ver # 0}
            /\ answer' = [answer EXCEPT ![r] = entries]
            /\ pc' = [pc EXCEPT ![r] = "done"]
    BY <1>4, AnswerElements
  <1>6. pc'[r] = "done" /\ \A p \in Requests : p # r => pc'[p] = pc[p] /\ answer'[p] = answer[p]
    <2>1. pc'[r] = "done" /\ \A p \in Requests : p # r => pc'[p] = pc[p]
      BY <1>4, <1>5
    <2>2. \A p \in Requests : p # r => answer'[p] = answer[p]
      BY <1>4, <1>5
    <2> QED
      BY <2>1, <2>2
  <1>7. FileIs(req[r].grp, list)'
    <2>1. file' = file /\ req' = req
      OBVIOUS
    <2> QED
      BY <1>3, <2>1 DEF FileIs
  <1>8. ASSUME Storable
        PROVE  io[r].toStore = <<>> /\ \A e \in Range(fetchedEstimates) : e.grp = req[r].grp => e.date \in DatesOf(list)
    <2>1. io[r].toStore = <<>>
      <3>1. CASE pc[r] = "fetch"
        BY <1>4, <3>1 DEF IoReady, NoIO
      <3>2. CASE pc[r] = "close"
        BY <1>3, <1>8, <3>2 DEF Recalls
      <3> QED
        BY <3>1, <3>2
    <2> QED
      BY <1>3, <1>8, <2>1, EmptyList
  <1>9. ASSUME Storable
        PROVE  Recalls(r, list)'
    <2>1. ASSUME Served(r)'
          PROVE  AnsweredDates(r)' \subseteq DatesOf(list)
      <3>1. cached = cachedEstimates /\ fetched = fetchedEstimates
        BY <2>1 DEF Served
      <3>2. \A e \in Range(cachedEstimates) : e.grp = req[r].grp /\ e.date \in DatesOf(list)
        BY <1>3, <1>9 DEF Recalls, Storing
      <3>3. \A e \in Range(entries) : e.grp = req[r].grp => e.date \in DatesOf(list)
        BY <1>5, <1>8, <1>9, <3>1, <3>2
      <3> QED
        BY <1>4, <1>5, <3>3, AnswerDates
    <2>2. ~(pc[r] = "fetch" \/ Storing(r))' /\ pc'[r] \notin {"write", "close"}
      BY <1>6 DEF Storing
    <2> QED
      BY <2>1, <2>2 DEF Recalls, DatesOf
  <1>10. ASSUME Storable, NEW e \in Range(fetchedEstimates')
         PROVE  \/ e.grp # req[r].grp /\ e.date \in DatesOf(content[e.grp])
                \/ e.grp = req[r].grp /\ e.date \in DatesOf(list)
    <2>1. fetchedEstimates' = fetchedEstimates
      BY DEF lists
    <2> QED
      BY <1>3, <1>8, <1>10, <2>1, EmptyList
  <1>11. /\ pc'[r] # "write" /\ DatesOf(content[req[r].grp]) \subseteq DatesOf(list)
         /\ fetchedEstimates' \in Seq(Entry) /\ UNCHANGED <<usage, req>>
         /\ pc'[r] \in {"idle", "done", "failed"}
         /\ \A h \in Groupings : file'[h] = file[h]
    BY <1>2, <1>4, <1>6 DEF lists
  <1> QED
    BY <1>1, <1>3, <1>6, <1>7, <1>9, <1>10, <1>11, StepKeepsOrderly

\* A request with nothing to store is answered from the lists.
LEMMA UnstoredKeepsOrderly ==
    ASSUME StateInv, OrderlyInv, Quiet, NEW r \in Requests, FetchUnstored(r), UNCHANGED <<file, io>>
    PROVE  OrderlyInv'
  <1>1. /\ pc[r] = "fetch" /\ r \in InFlight /\ UNCHANGED <<usage, lists, req, file>>
        /\ AnswerUnstored(r, AllFetched(r)) /\ LastFetch(r)
    BY DEF FetchUnstored, LastFetch, AnswerUnstored, InFlight
  <1>2. cachedEstimates \in Seq(Entry) /\ fetchedEstimates \in Seq(Entry)
    BY <1>1, RequestState
  <1>3. CASE req[r].ignoreCache
    <2>1. AnswerFrom(r, <<>>, ByDate(AllFetched(r)))
      BY <1>1, <1>3 DEF AnswerUnstored
    <2>2. HoldsUsageOf(usage, req[r].grp, call[r].missing, AllFetched(r))
      BY <1>1, AllFetchedHolds DEF StateInv
    <2>3. ByDate(AllFetched(r)) \in Seq(Entry) /\ <<>> \in Seq(Entry)
      BY <2>2, ByDateElements DEF HoldsUsageOf
    <2> QED
      BY <1>1, <1>3, <2>1, <2>3, AnswerKeepsOrderly
  <1>4. CASE ~req[r].ignoreCache
    <2>1. AnswerFrom(r, cachedEstimates, fetchedEstimates)
      BY <1>1, <1>4 DEF AnswerUnstored
    <2> QED
      BY <1>1, <1>2, <2>1, AnswerKeepsOrderly
  <1> QED
    BY <1>3, <1>4

\* So no step of fetching touches what the files hold.
LEMMA FetchKeepsOrderly ==
    ASSUME StateInv, OrderlyInv, Quiet, NEW r \in Requests, Fetch(r)
    PROVE  OrderlyInv'
  <1>1. UNCHANGED <<file, io>>
    BY DEF Fetch
  <1>2. ASSUME NEW run \in SUBSET Dates, FetchSome(r, run) PROVE OrderlyInv'
    BY <1>1, <1>2, FetchSomeKeepsOrderly
  <1>3. CASE FetchUnstored(r)
    BY <1>1, <1>3, UnstoredKeepsOrderly
  <1>4. CASE FetchFails(r)
    <2>1. r \in InFlight /\ pc[r] = "fetch" /\ Reject(r)
      BY <1>4 DEF FetchFails, InFlight
    <2> QED
      BY <1>1, <2>1, RejectKeepsOrderly
  <1> QED
    BY <1>2, <1>3, <1>4 DEF Fetch

\* A request that has stored its entries is answered from the lists.
LEMMA CloseKeepsOrderly ==
    ASSUME StateInv, OrderlyInv, Quiet, NEW r \in Requests, Close(r)
    PROVE  OrderlyInv'
  <1>1. /\ pc[r] = "close" /\ r \in InFlight /\ UNCHANGED <<usage, lists, req, file>>
        /\ AnswerFrom(r, cachedEstimates, fetchedEstimates)
    BY DEF Close, InFlight
  <1>2. cachedEstimates \in Seq(Entry) /\ fetchedEstimates \in Seq(Entry)
    BY <1>1, RequestState
  <1> QED
    BY <1>1, <1>2, AnswerKeepsOrderly

\* A list in order holds one entry of a date.
LEMMA SortedOfDate ==
    ASSUME NEW list \in Seq(Entry), Sorted(list), NEW x \in Range(list), NEW e \in Range(list),
           x.grp = e.grp, x.date = e.date
    PROVE  x = e
  <1>1. PICK i \in DOMAIN list : list[i] = x
    BY DEF Range
  <1>2. PICK j \in DOMAIN list : list[j] = e
    BY DEF Range
  <1>3. x \in Entry /\ e \in Entry /\ i \in Int /\ j \in Int
    BY <1>1, <1>2, ElementOfSeq, LenProperties
  <1>4. Timestamp(x) = Timestamp(e) /\ Timestamp(x) \in Int
    BY <1>3, SameTimestamp, TimestampType
  <1>5. i = j
    <2>1. (i < j => Timestamp(x) < Timestamp(e)) /\ (j < i => Timestamp(e) < Timestamp(x))
      BY <1>1, <1>2 DEF Sorted
    <2> QED
      BY <1>3, <1>4, <2>1
  <1> QED
    BY <1>1, <1>2, <1>5

\* What a request stores is in order and replaces nothing later.
LEMMA StoredOrderly ==
    ASSUME StateInv, NEW r \in Requests, pc[r] = "fetch", LastFetch(r),
           NEW list, Orderly(list, req[r].grp), Progress(r, list)
    PROVE  LET persist == ToPersist(r, AllFetched(r))
               merged == MergeEstimates(persist, cachedEstimates)
           IN /\ persist \in Seq(Entry) /\ \A e \in Range(persist) : e.grp = req[r].grp
              /\ Orderly(merged, req[r].grp) /\ Supersedes(merged, list)
              /\ Range(persist) \subseteq Range(merged)
  <1>1. /\ r \in InFlight /\ req[r] \in RequestSpace /\ ManagerTypeOK /\ cachedEstimates \in Seq(Entry)
        /\ usage \in [Groupings -> [Dates -> Versions]] /\ req[r].grp \in Groupings
        /\ call[r].pending \in SUBSET Dates
    <2>1. r \in InFlight
      BY DEF InFlight
    <2>2. /\ req[r] \in RequestSpace /\ ManagerTypeOK /\ req[r].grp \in Groupings
          /\ cachedEstimates \in Seq(Entry) /\ RequestsTyped
      BY <2>1, RequestState
    <2> QED
      BY <2>1, <2>2 DEF ManagerTypeOK, RequestsTyped
  <1>2. HoldsUsageOf(usage, req[r].grp, call[r].missing, AllFetched(r))
    BY AllFetchedHolds DEF StateInv
  <1>3. PICK got : got = AllFetched(r)
    OBVIOUS
  <1>4. PICK persist : persist = ToPersist(r, got)
    OBVIOUS
  <1>5. /\ persist \in Seq(Entry) /\ OfDifferentDates(persist) /\ got \subseteq Range(persist)
        /\ \A e \in Range(persist) :
              /\ e.grp = req[r].grp /\ e.date \in call[r].missing
              /\ e \in got \/ e.ver = 0
        /\ persist = ByDate(Range(persist))
    BY <1>1, <1>2, <1>3, <1>4, PersistElements
  <1>6. PICK g \in Groupings : g = req[r].grp
    BY <1>1
  <1>7. /\ \A x \in got : x.ver <= usage[g][x.date]
        /\ \A e \in Range(list) : e.date \in call[r].missing =>
              e.ver = 0 \/ \E x \in got : x.date = e.date /\ e.ver <= x.ver
    <2>1. call[r].missing \ (call[r].pending \ call[r].pending) = call[r].missing
      OBVIOUS
    <2> QED
      BY <1>1, <1>3, <1>6, <2>1, FetchedLatest DEF AllFetched
  <1>8. Range(persist) \in SUBSET Entry /\ \A e, f \in Range(persist) : e.date = f.date => e = f
    <2>1. \A e \in Range(persist) : e \in Entry
      BY <1>5, ElementOfSeq, LenProperties DEF Range
    <2>2. \A e, f \in Range(persist) : e.date = f.date => e = f
      BY <1>5 DEF Range, OfDifferentDates
    <2> QED
      BY <2>1, <2>2
  <1>9. Sorted(persist)
    BY <1>5, <1>8, ByDateSorted
  <1>10. /\ Orderly(cachedEstimates, g) /\ Range(cachedEstimates) \subseteq Range(list)
         /\ Sorted(list) /\ list \in Seq(Entry) /\ \A e \in Range(list) : e.grp = g
    BY <1>6 DEF Progress, Orderly
  <1>11. PICK merged : merged = MergeEstimates(persist, cachedEstimates)
    OBVIOUS
  <1>12. /\ merged \in Seq(Entry) /\ Range(persist) \subseteq Range(merged)
         /\ Range(merged) \subseteq Range(persist) \cup Range(cachedEstimates)
         /\ Sorted(merged)
    <2>1. Sorted(cachedEstimates)
      BY <1>10 DEF Orderly
    <2> QED
      BY <1>1, <1>5, <1>9, <1>11, <2>1, MergeElements
  <1>13. \A e \in Range(persist) : e.ver <= usage[g][e.date]
    <2> TAKE e \in Range(persist)
    <2>1. e.date \in Dates
      BY <1>8 DEF Entry
    <2>2. usage[g][e.date] \in Nat
      BY <1>1, <2>1 DEF Versions
    <2> QED
      BY <1>5, <1>7, <2>2
  <1>14. Orderly(merged, g)
    BY <1>5, <1>6, <1>10, <1>12, <1>13 DEF Orderly
  <1>15. Supersedes(merged, list)
    <2> SUFFICES ASSUME NEW x \in Range(merged), NEW e \in Range(list), x.date = e.date
                 PROVE  e.ver <= x.ver
      BY DEF Supersedes
    <2>1. x \in Entry /\ e \in Entry
      BY <1>10, <1>12, ElementOfSeq, LenProperties DEF Range
    <2>2. x.ver \in Nat /\ e.ver \in Nat
      BY <2>1 DEF Entry, Versions
    <2>3. CASE x \in Range(cachedEstimates)
      <3>1. x = e
        BY <1>10, <2>3, SortedOfDate
      <3> QED
        BY <2>2, <3>1
    <2>4. CASE x \in Range(persist)
      <3>1. e.ver = 0 \/ \E y \in got : y.date = e.date /\ e.ver <= y.ver
        BY <1>5, <1>7, <2>4
      <3>2. \A y \in got : y.date = e.date => y = x
        BY <1>5, <1>8, <2>4
      <3> QED
        BY <2>2, <3>1, <3>2
    <2> QED
      BY <1>12, <2>3, <2>4
  <1> QED
    BY <1>3, <1>4, <1>5, <1>6, <1>11, <1>12, <1>14, <1>15

\* setEstimates has in order what it is going to store.
LEMMA SetKeepsOrderly ==
    ASSUME StateInv, OrderlyInv, Quiet, NEW r \in Requests, SetEstimates(r)
    PROVE  OrderlyInv'
  <1>1. /\ pc[r] = "fetch" /\ LastFetch(r) /\ r \in InFlight
        /\ fetchedEstimates' = ToPersist(r, AllFetched(r))
        /\ io' = [io EXCEPT ![r].toStore = MergeEstimates(ToPersist(r, AllFetched(r)), cachedEstimates)]
        /\ pc' = [pc EXCEPT ![r] = "open"]
        /\ UNCHANGED <<usage, cachedEstimates, req, answer, file>>
    BY DEF SetEstimates, LastFetch, InFlight
  <1>2. PICK content \in [Groupings -> Seq(Entry)] : Holding(content)
    BY DEF OrderlyInv
  <1>3. PICK list \in Seq(Entry) : list = content[req[r].grp]
    BY <1>1, <1>2, OrderlyRequest
  <1>4. /\ Orderly(list, req[r].grp) /\ Progress(r, list) /\ FileIs(req[r].grp, list)
        /\ Storable => Recalls(r, list)
    BY <1>1, <1>2, <1>3, OrderlyRequest
  <1>5. PICK persist : persist = ToPersist(r, AllFetched(r))
    OBVIOUS
  <1>6. PICK merged : merged = MergeEstimates(persist, cachedEstimates)
    OBVIOUS
  <1>7. /\ persist \in Seq(Entry) /\ \A e \in Range(persist) : e.grp = req[r].grp
        /\ Orderly(merged, req[r].grp) /\ Supersedes(merged, list)
        /\ Range(persist) \subseteq Range(merged)
    BY <1>1, <1>4, <1>5, <1>6, StoredOrderly
  <1>8. /\ pc = [p \in Requests |-> pc[p]] /\ io[r] = NoIO /\ io \in [Requests -> IOState]
    BY <1>1, RequestState DEF RequestsTyped, IoReady, StateInv, TypeOK, IOState
  <1>9. io'[r].toStore = merged /\ io'[r].buf = <<>>
    <2>1. io' = [io EXCEPT ![r].toStore = merged]
      BY <1>1, <1>5, <1>6
    <2>2. io'[r] = [NoIO EXCEPT !.toStore = merged]
      BY <1>8, <2>1
    <2> QED
      BY <2>2 DEF NoIO
  <1>10. /\ pc'[r] = "open" /\ \A p \in Requests : p # r => pc'[p] = pc[p] /\ answer'[p] = answer[p]
    <2>1. pc'[r] = "open" /\ \A p \in Requests : p # r => pc'[p] = pc[p]
      BY <1>1, <1>8
    <2> QED
      BY <1>1, <2>1
  <1>11. FileIs(req[r].grp, list)'
    BY <1>1, <1>4 DEF FileIs
  <1>12. Progress(r, list)'
    <2>1. Orderly(merged, req[r].grp)'
      BY <1>1, <1>7 DEF Orderly
    <2>2. Supersedes(merged, list)
      BY <1>7
    <2> QED
      BY <1>9, <1>10, <2>1, <2>2 DEF Progress, Orderly, Supersedes
  <1>13. ASSUME Storable
         PROVE  Recalls(r, list)'
    <2>1. \A e \in Range(cachedEstimates) : e.grp = req[r].grp /\ e.date \in DatesOf(list)
      BY <1>1, <1>4, <1>13 DEF Recalls
    <2>2. cachedEstimates' = cachedEstimates /\ req' = req
      BY <1>1
    <2> QED
      BY <1>10, <2>1, <2>2 DEF Recalls, Served, DatesOf
  <1>14. \A e \in Range(fetchedEstimates') : e.grp = req[r].grp /\ e \in Range(io'[r].toStore)
    BY <1>1, <1>5, <1>7, <1>9
  <1>15. /\ pc'[r] \notin {"write", "idle", "done", "failed"} /\ UNCHANGED <<usage, req>>
         /\ DatesOf(content[req[r].grp]) \subseteq DatesOf(list)
         /\ fetchedEstimates' \in Seq(Entry) /\ \A h \in Groupings : file'[h] = file[h]
    BY <1>1, <1>3, <1>5, <1>7, <1>10
  <1> QED
    BY <1>1, <1>2, <1>4, <1>10, <1>11, <1>12, <1>13, <1>14, <1>15, StepKeepsOrderly

\* Of three lists of entries it does not matter which two are joined first.
LEMMA EntriesConcat ==
    ASSUME NEW one \in Seq(Entry), NEW two \in Seq(Entry), NEW three \in Seq(Entry)
    PROVE  (one \o two) \o three = one \o (two \o three)
  BY ConcatAssociative

\* A window is written where the old content goes on.
LEMMA WindowOverOld ==
    ASSUME NEW done \in Seq(Entry), NEW old \in Seq(Cell), NEW out \in Seq(Entry),
           Len(old) <= Len(Cells(out))
    PROVE  LET window == Slice(out, 1, WindowSize)
               rest == SubSeq(out, WindowSize + 1, Len(out))
           IN /\ done \o window \in Seq(Entry) /\ rest \in Seq(Entry)
              /\ done \o out = (done \o window) \o rest
              /\ Len(Cells(done \o window)) = Len(Cells(done)) + Len(Cells(window))
              /\ \E tail \in Seq(Cell) :
                    /\ Overlay(Cells(done) \o old, Len(Cells(done)), Cells(window))
                           = Cells(done \o window) \o tail
                    /\ Len(tail) <= Len(Cells(rest))
  <1>1. PICK window \in Seq(Entry) : window = Slice(out, 1, WindowSize)
    BY WindowAndRest, LocalCacheAssumption
  <1>2. PICK rest \in Seq(Entry) : rest = SubSeq(out, WindowSize + 1, Len(out))
    BY WindowAndRest, LocalCacheAssumption
  <1>3. out = window \o rest
    BY <1>1, <1>2, WindowAndRest, LocalCacheAssumption
  <1>4. /\ Cells(out) = Cells(window) \o Cells(rest) /\ Cells(done \o window) = Cells(done) \o Cells(window)
        /\ Cells(window) \in Seq(Cell) /\ Cells(rest) \in Seq(Cell) /\ Cells(done) \in Seq(Cell)
    BY <1>3, CellsConcat, CellsElements
  <1>5. PICK head \in Seq(Cell) : head = Cells(window)
    BY <1>4
  <1>6. /\ done \o window \in Seq(Entry) /\ done \o out = (done \o window) \o rest
    <2>1. (done \o window) \o rest = done \o (window \o rest)
      BY EntriesConcat, Zenon
    <2>2. done \o window \in Seq(Entry)
      BY ConcatProperties
    <2> QED
      BY <1>3, <2>1, <2>2
  <1>7. /\ Len(Cells(done \o window)) = Len(Cells(done)) + Len(head)
        /\ Len(Cells(out)) = Len(head) + Len(Cells(rest))
    BY <1>4, <1>5, ConcatProperties
  <1>8. PICK tail : tail = SubSeq(old, Len(head) + 1, Len(old))
    OBVIOUS
  <1>9. Overlay(Cells(done) \o old, Len(Cells(done)), head) = (Cells(done) \o head) \o tail
    BY <1>4, <1>8, OverlayBehind
  <1>10. tail \in Seq(Cell) /\ Len(tail) <= Len(Cells(rest))
    <2>1. Len(head) \in Nat /\ Len(old) \in Nat /\ Len(Cells(rest)) \in Nat
      BY <1>4, LenProperties
    <2>2. CASE Len(head) = 0
      <3>1. tail = SubSeq(old, 1, Len(old))
        BY <1>8, <2>2
      <3>2. tail = old
        BY <3>1, SubSeqFull
      <3> QED
        BY <1>7, <2>1, <2>2, <3>2
    <2>3. CASE Len(head) \in Nat \ {0}
      <3>1. tail \in Seq(Cell) /\ Len(tail) = IF Len(head) <= Len(old) THEN Len(old) - Len(head) ELSE 0
        BY <1>8, <2>3, WindowAndRest
      <3> QED
        BY <1>7, <2>1, <3>1
    <2> QED
      BY <2>1, <2>2, <2>3
  <1> QED
    BY <1>1, <1>2, <1>4, <1>5, <1>6, <1>7, <1>9, <1>10

\* A window keeps the list being written, and the last one completes it.
LEMMA WindowKeepsWritten ==
    ASSUME StateInv, NEW r \in Requests, WriteWindow(r), NEW list, Written(r, list)
    PROVE  /\ pc'[r] \in {"write", "close"} /\ io'[r].toStore = io[r].toStore
           /\ pc'[r] = "write" => Written(r, list)'
           /\ pc'[r] # "write" => FileIs(req[r].grp, list)'
           /\ \A h \in Groupings : h # req[r].grp => file'[h] = file[h]
           /\ \A p \in Requests : p # r => pc'[p] = pc[p]
  <1>1. PICK out : out = io[r].out
    OBVIOUS
  <1>2. PICK window : window = Slice(out, 1, WindowSize)
    OBVIOUS
  <1>3. PICK rest : rest = SubSeq(out, WindowSize + 1, Len(out))
    OBVIOUS
  <1>4. /\ pc[r] = "write" /\ r \in InFlight
        /\ file' = [file EXCEPT ![req[r].grp] = Overlay(@, io[r].at, Cells(window))]
        /\ io' = [io EXCEPT ![r].out = rest, ![r].at = @ + Len(Cells(window))]
        /\ pc' = IF rest = <<>> THEN [pc EXCEPT ![r] = "close"] ELSE pc
        /\ req' = req
    BY <1>1, <1>2, <1>3 DEF WriteWindow, InFlight
  <1>5. /\ pc = [p \in Requests |-> pc[p]] /\ io[r] \in IOState /\ io \in [Requests -> IOState]
        /\ file \in [Groupings -> Seq(Cell) \cup {NoFile}] /\ req[r].grp \in Groupings
    BY <1>4, RequestState DEF RequestsTyped, StateInv, TypeOK, IOState
  <1>6. PICK done \in Seq(Entry), old \in Seq(Cell) :
            /\ list = done \o out /\ io[r].at = Len(Cells(done))
            /\ file[req[r].grp] = Cells(done) \o old /\ Len(old) <= Len(Cells(out))
    BY <1>1 DEF Written
  <1>7. out \in Seq(Entry)
    BY <1>1, <1>5 DEF IOState
  <1>8. /\ done \o window \in Seq(Entry) /\ rest \in Seq(Entry) /\ list = (done \o window) \o rest
        /\ Len(Cells(done \o window)) = Len(Cells(done)) + Len(Cells(window))
        /\ \E tail \in Seq(Cell) :
              /\ Overlay(Cells(done) \o old, Len(Cells(done)), Cells(window)) = Cells(done \o window) \o tail
              /\ Len(tail) <= Len(Cells(rest))
    BY <1>2, <1>3, <1>6, <1>7, WindowOverOld
  <1>9. PICK tail \in Seq(Cell) :
            /\ file'[req[r].grp] = Cells(done \o window) \o tail /\ Len(tail) <= Len(Cells(rest))
    <2>1. file'[req[r].grp] = Overlay(Cells(done) \o old, Len(Cells(done)), Cells(window))
      BY <1>4, <1>5, <1>6
    <2> QED
      BY <1>8, <2>1
  <1>10. /\ io'[r].out = rest /\ io'[r].toStore = io[r].toStore
         /\ io'[r].at = Len(Cells(done \o window))
    <2>1. PICK n : n = Len(Cells(window))
      OBVIOUS
    <2>2. io'[r].out = rest /\ io'[r].toStore = io[r].toStore /\ io'[r].at = io[r].at + n
      BY <1>4, <1>5, <2>1 DEF IOState
    <2> QED
      BY <1>6, <1>8, <2>1, <2>2
  <1>11. /\ pc'[r] = (IF rest = <<>> THEN "close" ELSE "write")
         /\ \A p \in Requests : p # r => pc'[p] = pc[p]
    BY <1>4, <1>5
  <1>12. ASSUME pc'[r] = "write"
         PROVE  Written(r, list)'
    <2>1. PICK now \in Seq(Entry) : now = done \o window
      BY <1>8
    <2>2. list = now \o io'[r].out /\ io'[r].at = Len(Cells(now))
      BY <1>8, <1>10, <2>1
    <2>3. file'[req'[r].grp] = Cells(now) \o tail /\ Len(tail) <= Len(Cells(io'[r].out))
      BY <1>4, <1>9, <1>10, <2>1
    <2> QED
      BY <2>2, <2>3 DEF Written
  <1>13. ASSUME pc'[r] # "write"
         PROVE  FileIs(req[r].grp, list)'
    <2>1. rest = <<>> /\ Cells(rest) = <<>>
      BY <1>11, <1>13, CellsOfNone
    <2>2. tail = <<>>
      <3>1. Len(tail) = 0
        BY <1>9, <2>1, LenProperties
      <3> QED
        BY <3>1, EmptySeq
    <2>3. file'[req[r].grp] = Cells(done \o window) /\ list = done \o window
      <3>1. Cells(done \o window) \in Seq(Cell)
        BY <1>8, CellsElements
      <3> QED
        BY <1>8, <1>9, <2>1, <2>2, <3>1, ConcatEmptySeq
    <2>4. file'[req[r].grp] # NoFile
      BY <1>8, <2>3, CellsElements, LocalCacheAssumption
    <2>5. req' = req
      BY <1>4
    <2> QED
      BY <2>3, <2>4, <2>5 DEF FileIs
  <1>14. \A h \in Groupings : h # req[r].grp => file'[h] = file[h]
    BY <1>4, <1>5
  <1> QED
    BY <1>10, <1>11, <1>12, <1>13, <1>14

\* Every window written keeps the list on its way into the file.
LEMMA WriteKeepsOrderly ==
    ASSUME StateInv, OrderlyInv, Quiet, NEW r \in Requests, WriteWindow(r)
    PROVE  OrderlyInv'
  <1>1. /\ pc[r] = "write" /\ r \in InFlight
        /\ UNCHANGED <<usage, lists, req, answer>>
    BY DEF WriteWindow, InFlight
  <1>2. PICK content \in [Groupings -> Seq(Entry)] : Holding(content)
    BY DEF OrderlyInv
  <1>3. PICK list \in Seq(Entry) : list = content[req[r].grp]
    BY <1>1, <1>2, OrderlyRequest
  <1>4. /\ Orderly(list, req[r].grp) /\ Written(r, list)
        /\ Storable =>
              /\ Recalls(r, list)
              /\ \A e \in Range(fetchedEstimates) :
                    \/ e.grp # req[r].grp /\ e.date \in DatesOf(content[e.grp])
                    \/ e.grp = req[r].grp /\ e.date \in DatesOf(list)
                    \/ e.grp = req[r].grp /\ e \in Range(io[r].toStore)
    BY <1>1, <1>2, <1>3, OrderlyRequest
  <1>5. /\ pc'[r] \in {"write", "close"} /\ io'[r].toStore = io[r].toStore
        /\ pc'[r] = "write" => Written(r, list)'
        /\ pc'[r] # "write" => FileIs(req[r].grp, list)'
        /\ \A h \in Groupings : h # req[r].grp => file'[h] = file[h]
        /\ \A p \in Requests : p # r => pc'[p] = pc[p]
    BY <1>4, WindowKeepsWritten
  <1>6. Progress(r, list)'
    BY <1>5 DEF Progress
  <1>7. ASSUME Storable
        PROVE  Recalls(r, list)'
    <2>1. /\ io[r].toStore = <<>>
          /\ \A e \in Range(cachedEstimates) : e.grp = req[r].grp /\ e.date \in DatesOf(list)
      BY <1>1, <1>4, <1>7 DEF Recalls, Storing
    <2>2. cachedEstimates' = cachedEstimates /\ req' = req
      BY <1>1 DEF lists
    <2> QED
      BY <1>5, <2>1, <2>2 DEF Recalls, Served, DatesOf
  <1>8. ASSUME Storable, NEW e \in Range(fetchedEstimates')
        PROVE  \/ e.grp # req[r].grp /\ e.date \in DatesOf(content[e.grp])
               \/ e.grp = req[r].grp /\ e.date \in DatesOf(list)
    <2>1. fetchedEstimates' = fetchedEstimates /\ Range(io[r].toStore) = {}
      BY <1>1, <1>4, <1>8, EmptyList DEF lists, Recalls
    <2> QED
      BY <1>4, <1>8, <2>1
  <1>9. /\ fetchedEstimates' \in Seq(Entry) /\ UNCHANGED <<usage, req, answer>>
        /\ DatesOf(content[req[r].grp]) \subseteq DatesOf(list)
    BY <1>1, <1>3, RequestState DEF lists
  <1> QED
    BY <1>1, <1>2, <1>4, <1>5, <1>6, <1>7, <1>8, <1>9, StepKeepsOrderly

\* A request that has read its file to the end, or has created it, has the list it holds.
LEMMA LoadsOwn ==
    ASSUME StateInv, NEW r \in Requests, CreateCacheFile(r) \/ ReadEnd(r),
           NEW list \in Seq(Entry), Progress(r, list), FileIs(req[r].grp, list)
    PROVE  /\ r \in InFlight /\ pc[r] \in {"create", "read"} /\ Loaded(r, list)
           /\ UNCHANGED <<usage, req>>
           /\ file'[req[r].grp] = Cells(list) /\ file'[req[r].grp] # NoFile
           /\ \A h \in Groupings : h # req[r].grp => file'[h] = file[h]
  <1>1. r \in InFlight /\ pc[r] \in {"create", "read"} /\ UNCHANGED <<usage, req>>
    BY DEF CreateCacheFile, ReadEnd, AtEndOfFile, InFlight
  <1>2. /\ file \in [Groupings -> Seq(Cell) \cup {NoFile}] /\ req[r].grp \in Groupings
        /\ io[r] \in IOState /\ IoReady(r)
    BY <1>1, RequestState
  <1>3. Cells(list) \in Seq(Cell) /\ Cells(list) # NoFile
    BY CellsElements, LocalCacheAssumption
  <1>4. CASE CreateCacheFile(r)
    <2>1. /\ pc[r] = "create" /\ Loaded(r, <<>>)
          /\ file' = [file EXCEPT ![req[r].grp] = <<>>]
      BY <1>4 DEF CreateCacheFile
    <2>2. list = <<>>
      <3>1. file[req[r].grp] = NoFile
        BY <2>1 DEF Progress
      <3> QED
        BY <3>1 DEF FileIs
    <2>3. Cells(list) = <<>>
      BY <2>2, CellsOfNone
    <2> QED
      BY <1>1, <1>2, <1>3, <2>1, <2>2, <2>3
  <1>5. CASE ReadEnd(r)
    <2>1. /\ pc[r] = "read" /\ Len(file[req[r].grp]) <= Len(io[r].buf)
          /\ Loaded(r, CachedData(io[r].buf)) /\ file' = file
      BY <1>5 DEF ReadEnd, AtEndOfFile
    <2>2. file[req[r].grp] # NoFile
      BY <1>2, <2>1 DEF IoReady
    <2>3. PICK cells \in Seq(Cell) : cells = file[req[r].grp]
      BY <1>2, <2>2
    <2>4. cells = Cells(list)
      BY <2>2, <2>3 DEF FileIs
    <2>5. Len(io[r].buf) <= Len(cells) /\ io[r].buf = SubSeq(cells, 1, Len(io[r].buf))
      BY <2>1, <2>3 DEF Progress
    <2>6. io[r].buf = cells
      <3>1. Len(io[r].buf) \in Nat /\ Len(cells) \in Nat
        BY <1>2, LenProperties DEF IOState
      <3>2. Len(io[r].buf) = Len(cells)
        BY <2>1, <2>3, <2>5, <3>1
      <3> QED
        BY <2>5, <3>2, SubSeqFull
    <2>7. CachedData(io[r].buf) = list
      BY <2>4, <2>6, CellsReadBack
    <2> QED
      BY <1>1, <1>3, <2>1, <2>3, <2>4, <2>7
  <1> QED
    BY <1>4, <1>5

\* Merged entries hold all dates of both lists, and need no less room than the second.
LEMMA MergedOrderly ==
    ASSUME StateInv, ContentsGrow, NEW g \in Groupings, NEW entries, NEW list, Orderly(entries, g),
           Orderly(list, g), Supersedes(entries, list)
    PROVE  LET merged == MergeEstimates(entries, list) IN
           /\ Orderly(merged, g) /\ DatesOf(list) \subseteq DatesOf(merged)
           /\ DatesOf(entries) \subseteq DatesOf(merged)
           /\ Len(Cells(list)) <= Len(Cells(merged))
  <1>1. /\ entries \in Seq(Entry) /\ list \in Seq(Entry) /\ Sorted(entries) /\ Sorted(list)
        /\ \A e \in Range(entries) \cup Range(list) : e.grp = g /\ e.ver <= usage[g][e.date]
    BY DEF Orderly
  <1>2. PICK merged : merged = MergeEstimates(entries, list)
    OBVIOUS
  <1>3. /\ merged \in Seq(Entry) /\ Sorted(merged)
        /\ Range(entries) \subseteq Range(merged) /\ Range(merged) \subseteq Range(entries) \cup Range(list)
        /\ \A e \in Range(list) :
              e \in Range(merged) \/ \E f \in Range(entries) : Timestamp(f) = Timestamp(e)
    BY <1>1, <1>2, MergeElements
  <1>4. \A e \in Range(entries) \cup Range(list) : e \in Entry
    BY <1>1, ElementOfSeq, LenProperties DEF Range
  <1>5. ASSUME NEW e \in Range(list)
        PROVE  \E f \in Range(merged) : f.date = e.date /\ e.ver <= f.ver
    <2>1. CASE e \in Range(merged)
      <3>1. e.ver \in Nat
        BY <1>4 DEF Entry, Versions
      <3> QED
        BY <2>1, <3>1
    <2>2. CASE e \notin Range(merged)
      <3>1. PICK f \in Range(entries) : Timestamp(f) = Timestamp(e)
        BY <1>3, <2>2
      <3>2. f.date = e.date
        BY <1>1, <1>4, <3>1, SameTimestamp
      <3>3. e.ver <= f.ver
        BY <3>2 DEF Supersedes
      <3> QED
        BY <1>3, <3>1, <3>2, <3>3
    <2> QED
      BY <2>1, <2>2
  <1>6. Orderly(merged, g)
    BY <1>1, <1>3 DEF Orderly
  <1>7. DatesOf(list) \subseteq DatesOf(merged) /\ DatesOf(entries) \subseteq DatesOf(merged)
    BY <1>3, <1>5 DEF DatesOf
  <1>8. Outsizes(merged, list)
    <2> SUFFICES ASSUME NEW e \in Range(list)
                 PROVE  \E f \in Range(merged) : Timestamp(f) = Timestamp(e) /\ SizeOf[e.ver] <= SizeOf[f.ver]
      BY DEF Outsizes
    <2>1. PICK f \in Range(merged) : f.date = e.date /\ e.ver <= f.ver
      BY <1>5
    <2>2. e \in Entry /\ f \in Entry /\ e.grp = g /\ f.grp = g
      BY <1>1, <1>3, <1>4
    <2>3. Timestamp(f) = Timestamp(e)
      BY <2>1, <2>2, SameTimestamp
    <2>4. SizeOf[e.ver] <= SizeOf[f.ver]
      BY <2>1, <2>2 DEF ContentsGrow, Entry
    <2> QED
      BY <2>3, <2>4
  <1>9. Len(Cells(list)) <= Len(Cells(merged))
    BY <1>1, <1>3, <1>8, SortedFits
  <1> QED
    BY <1>2, <1>6, <1>7, <1>9

\* A request that stores goes on to write what it stores, merged into what its file holds.
LEMMA MergeKeepsOrderly ==
    ASSUME StateInv, OrderlyInv, Quiet, NEW r \in Requests, CreateCacheFile(r) \/ ReadEnd(r),
           io[r].toStore # <<>>
    PROVE  OrderlyInv'
  <1>1. r \in InFlight /\ pc[r] \in {"create", "read"}
    BY DEF CreateCacheFile, ReadEnd, AtEndOfFile, InFlight
  <1>2. PICK content \in [Groupings -> Seq(Entry)] : Holding(content)
    BY DEF OrderlyInv
  <1>3. PICK list \in Seq(Entry) : list = content[req[r].grp]
    BY <1>1, <1>2, OrderlyRequest
  <1>4. /\ Orderly(list, req[r].grp) /\ Progress(r, list) /\ FileIs(req[r].grp, list)
        /\ Storable =>
              /\ Recalls(r, list)
              /\ \A e \in Range(fetchedEstimates) :
                    \/ e.grp # req[r].grp /\ e.date \in DatesOf(content[e.grp])
                    \/ e.grp = req[r].grp /\ e.date \in DatesOf(list)
                    \/ e.grp = req[r].grp /\ e \in Range(io[r].toStore)
    BY <1>1, <1>2, <1>3, OrderlyRequest
  <1>5. /\ Loaded(r, list) /\ UNCHANGED <<usage, req>>
        /\ file'[req[r].grp] = Cells(list) /\ file'[req[r].grp] # NoFile
        /\ \A h \in Groupings : h # req[r].grp => file'[h] = file[h]
    BY <1>4, LoadsOwn
  <1>6. PICK merged : merged = MergeEstimates(io[r].toStore, list)
    OBVIOUS
  <1>7. /\ io' = [io EXCEPT ![r] = [NoIO EXCEPT !.out = merged]]
        /\ pc' = [pc EXCEPT ![r] = "write"]
        /\ UNCHANGED <<lists, answer>>
    BY <1>5, <1>6 DEF Loaded, MergeIntoFile
  <1>8. /\ pc = [p \in Requests |-> pc[p]] /\ io \in [Requests -> IOState] /\ req[r].grp \in Groupings
        /\ fetchedEstimates \in Seq(Entry)
    BY <1>1, RequestState DEF RequestsTyped, StateInv, TypeOK, IOState
  <1>9. /\ pc'[r] = "write" /\ \A p \in Requests : p # r => pc'[p] = pc[p] /\ answer'[p] = answer[p]
        /\ io'[r].out = merged /\ io'[r].at = 0 /\ io'[r].toStore = <<>>
    <2>1. pc'[r] = "write" /\ \A p \in Requests : p # r => pc'[p] = pc[p]
      BY <1>7, <1>8
    <2>2. io'[r] = [NoIO EXCEPT !.out = merged]
      BY <1>7, <1>8
    <2> QED
      BY <1>7, <2>1, <2>2 DEF NoIO
  <1>10. /\ Orderly(merged, req[r].grp) /\ DatesOf(list) \subseteq DatesOf(merged)
         /\ DatesOf(io[r].toStore) \subseteq DatesOf(merged)
         /\ Len(Cells(list)) <= Len(Cells(merged))
    <2>1. Orderly(io[r].toStore, req[r].grp) /\ Supersedes(io[r].toStore, list)
      BY <1>1, <1>4 DEF Progress
    <2> QED
      BY <1>4, <1>6, <1>8, <2>1, MergedOrderly DEF Quiet
  <1>11. Written(r, merged)'
    <2>1. PICK none \in Seq(Entry), old \in Seq(Cell) : none = <<>> /\ old = Cells(list)
      <3>1. <<>> \in Seq(Entry) /\ Cells(list) \in Seq(Cell)
        BY CellsElements
      <3> QED
        BY <3>1
    <2>2. merged \in Seq(Entry) /\ Cells(none) = <<>> /\ Len(Cells(none)) = 0
      BY <1>10, <2>1, CellsOfNone, LenProperties DEF Orderly
    <2>3. merged = none \o merged /\ Cells(none) \o old = old
      BY <2>1, <2>2, ConcatEmptySeq
    <2>4. req' = req
      BY <1>5
    <2>5. /\ merged = none \o io'[r].out /\ io'[r].at = Len(Cells(none))
          /\ file'[req'[r].grp] = Cells(none) \o old /\ Len(old) <= Len(Cells(io'[r].out))
      BY <1>5, <1>9, <1>10, <2>1, <2>2, <2>3, <2>4
    <2> QED
      BY <2>5 DEF Written
  <1>12. ASSUME Storable
         PROVE  Recalls(r, merged)'
    <2>1. \A e \in Range(cachedEstimates) : e.grp = req[r].grp /\ e.date \in DatesOf(list)
      BY <1>1, <1>4, <1>12 DEF Recalls, Storing
    <2>2. cachedEstimates' = cachedEstimates /\ req' = req
      BY <1>5, <1>7 DEF lists
    <2> QED
      BY <1>9, <1>10, <2>1, <2>2 DEF Recalls, Served, DatesOf
  <1>13. ASSUME Storable, NEW e \in Range(fetchedEstimates')
         PROVE  \/ e.grp # req[r].grp /\ e.date \in DatesOf(content[e.grp])
                \/ e.grp = req[r].grp /\ e.date \in DatesOf(merged)
    <2>1. fetchedEstimates' = fetchedEstimates
      BY <1>7 DEF lists
    <2>2. e \in Range(io[r].toStore) => e.date \in DatesOf(io[r].toStore)
      BY DEF DatesOf
    <2> QED
      BY <1>4, <1>10, <1>13, <2>1, <2>2
  <1>14. Progress(r, merged)'
    BY <1>9 DEF Progress
  <1>15. fetchedEstimates' \in Seq(Entry) /\ DatesOf(content[req[r].grp]) \subseteq DatesOf(merged)
    BY <1>3, <1>7, <1>8, <1>10 DEF lists
  <1> QED
    BY <1>1, <1>2, <1>5, <1>9, <1>10, <1>11, <1>12, <1>13, <1>14, <1>15, StepKeepsOrderly

\* What a request looking for missing dates takes from the list is in the order of the list.
LEMMA FoundInOrder ==
    ASSUME NEW r \in Requests, NEW list, Orderly(list, req[r].grp), FindMissingDates(r, list)
    PROVE  Orderly(cachedEstimates', req[r].grp) /\ Range(cachedEstimates') \subseteq Range(list)
  <1> DEFINE P == {i \in DOMAIN list : InWindow(req[r], list[i])}
  <1>1. cachedEstimates' = Kept(list, P) /\ P \in SUBSET DOMAIN list
    BY DEF FindMissingDates
  <1>2. list \in Seq(Entry) /\ Sorted(list) /\ \A e \in Range(list) : e.grp = req[r].grp /\ e.ver <= usage[req[r].grp][e.date]
    BY DEF Orderly
  <1> HIDE DEF P
  <1>3. /\ Kept(list, P) \in Seq(Entry) /\ Sorted(Kept(list, P))
        /\ Range(Kept(list, P)) = {list[i] : i \in P}
    BY <1>1, <1>2, KeptElements, KeptSorted
  <1>4. Range(cachedEstimates') \subseteq Range(list)
    <2>1. \A i \in P : list[i] \in Range(list)
      BY <1>1 DEF Range
    <2> QED
      BY <1>1, <1>3, <2>1
  <1> QED
    BY <1>1, <1>2, <1>3, <1>4 DEF Orderly

\* A request looking for missing dates keeps what it found in the file in order.
LEMMA FindKeepsOrderly ==
    ASSUME StateInv, OrderlyInv, Quiet, NEW r \in Requests, CreateCacheFile(r) \/ ReadEnd(r),
           io[r].toStore = <<>>
    PROVE  OrderlyInv'
  <1>1. r \in InFlight /\ pc[r] \in {"create", "read"}
    BY DEF CreateCacheFile, ReadEnd, AtEndOfFile, InFlight
  <1>2. PICK content \in [Groupings -> Seq(Entry)] : Holding(content)
    BY DEF OrderlyInv
  <1>3. PICK list \in Seq(Entry) : list = content[req[r].grp]
    BY <1>1, <1>2, OrderlyRequest
  <1>4. /\ Orderly(list, req[r].grp) /\ Progress(r, list) /\ FileIs(req[r].grp, list)
        /\ Storable =>
              /\ Recalls(r, list)
              /\ \A e \in Range(fetchedEstimates) :
                    \/ e.grp # req[r].grp /\ e.date \in DatesOf(content[e.grp])
                    \/ e.grp = req[r].grp /\ e.date \in DatesOf(list)
                    \/ e.grp = req[r].grp /\ e \in Range(io[r].toStore)
    BY <1>1, <1>2, <1>3, OrderlyRequest
  <1>5. /\ Loaded(r, list) /\ UNCHANGED <<usage, req>>
        /\ file'[req[r].grp] = Cells(list) /\ file'[req[r].grp] # NoFile
        /\ \A h \in Groupings : h # req[r].grp => file'[h] = file[h]
    BY <1>4, LoadsOwn
  <1>6. FindMissingDates(r, list)
    BY <1>5 DEF Loaded
  <1>7. /\ pc = [p \in Requests |-> pc[p]] /\ req[r] \in RequestSpace
        /\ fetchedEstimates \in Seq(Entry) /\ answer \in [Requests -> Seq(Entry)]
        /\ call \in [Requests -> [missing: SUBSET Dates, pending: SUBSET Dates, got: SUBSET Entry]]
    BY <1>1, RequestState DEF RequestsTyped
  <1>8. PICK found \in Seq(Entry), dates \in SUBSET DatesWithinRequestTimeFrame(req[r]) :
            Finds(r, list, found, dates)
    BY <1>6, <1>7, FoundElements
  <1>9. cachedEstimates' = found /\ fetchedEstimates' = fetchedEstimates
    BY <1>8 DEF Finds
  <1>10. Orderly(found, req[r].grp) /\ Range(found) \subseteq Range(list)
    BY <1>4, <1>6, <1>9, FoundInOrder
  <1>11. /\ pc'[r] \in {"fetch", "done"}
         /\ \A p \in Requests : p # r => pc'[p] = pc[p] /\ answer'[p] = answer[p]
         /\ pc'[r] = "fetch" => call'[r] = [missing |-> dates, pending |-> dates, got |-> {}]
    <2>1. CASE pc' = [pc EXCEPT ![r] = "fetch"] /\ answer' = answer
               /\ call' = [call EXCEPT ![r] = [missing |-> dates, pending |-> dates, got |-> {}]]
      <3>1. pc'[r] = "fetch" /\ \A p \in Requests : p # r => pc'[p] = pc[p]
        BY <1>7, <2>1
      <3>2. call'[r] = [missing |-> dates, pending |-> dates, got |-> {}]
        BY <1>7, <2>1
      <3> QED
        BY <2>1, <3>1, <3>2
    <2>2. ASSUME NEW entries \in Seq(Entry), pc' = [pc EXCEPT ![r] = "done"],
                 answer' = [answer EXCEPT ![r] = entries]
          PROVE  /\ pc'[r] = "done"
                 /\ \A p \in Requests : p # r => pc'[p] = pc[p] /\ answer'[p] = answer[p]
      <3>1. pc'[r] = "done" /\ \A p \in Requests : p # r => pc'[p] = pc[p]
        BY <1>7, <2>2
      <3>2. \A p \in Requests : p # r => answer'[p] = answer[p]
        BY <1>7, <2>2
      <3> QED
        BY <3>1, <3>2
    <2> QED
      BY <1>8, <2>1, <2>2 DEF Finds
  <1>12. FileIs(req[r].grp, list)'
    BY <1>5 DEF FileIs
  <1>13. ASSUME pc'[r] = "fetch"
         PROVE  Progress(r, list)'
    <2>1. Orderly(found, req[r].grp)'
      BY <1>5, <1>10 DEF Orderly
    <2>2. Orderly(cachedEstimates, req[r].grp)' /\ Range(cachedEstimates') \subseteq Range(list)
      BY <1>9, <1>10, <2>1 DEF Orderly
    <2>3. call'[r].missing \ call'[r].pending = {} /\ call'[r].got = {}
      BY <1>11, <1>13
    <2> QED
      BY <1>13, <2>2, <2>3 DEF Progress
  <1>14. ASSUME Storable, NEW e \in Range(fetchedEstimates')
         PROVE  \/ e.grp # req[r].grp /\ e.date \in DatesOf(content[e.grp])
                \/ e.grp = req[r].grp /\ e.date \in DatesOf(list)
    BY <1>4, <1>9, <1>14, EmptyList
  <1>15. ASSUME Storable
         PROVE  Recalls(r, list)'
    <2>1. \A e \in Range(cachedEstimates') : e.grp = req[r].grp /\ e.date \in DatesOf(list)
      <3>1. \A e \in Range(found) : e.grp = req[r].grp /\ e \in Range(list)
        BY <1>10 DEF Orderly
      <3> QED
        BY <1>9, <3>1 DEF DatesOf
    <2>2. ASSUME Served(r)'
          PROVE  AnsweredDates(r)' \subseteq DatesOf(list)
      <3>1. pc'[r] = "done" /\ ~req[r].ignoreCache
        BY <1>5, <2>2 DEF Served
      <3>2. PICK entries \in Seq(Entry) :
                /\ answer' = [answer EXCEPT ![r] = entries]
                /\ Range(entries) \subseteq Range(found) \cup Range(fetchedEstimates)
        <4>1. pc' # [pc EXCEPT ![r] = "fetch"]
          BY <1>7, <3>1
        <4> QED
          BY <1>8, <3>1, <4>1 DEF Finds
      <3>3. \A e \in Range(entries) : e.grp = req[r].grp => e.date \in DatesOf(list)
        BY <1>9, <1>14, <1>15, <2>1, <3>2
      <3> QED
        BY <1>5, <1>7, <3>2, <3>3, AnswerDates
    <2>3. req' = req
      BY <1>5
    <2> QED
      BY <1>11, <2>1, <2>2, <2>3 DEF Recalls, DatesOf
  <1>16. fetchedEstimates' \in Seq(Entry) /\ DatesOf(content[req[r].grp]) \subseteq DatesOf(list)
         /\ pc'[r] # "write" /\ (pc'[r] \notin {"idle", "done", "failed"} => pc'[r] = "fetch")
    BY <1>3, <1>7, <1>9, <1>11
  <1> QED
    BY <1>1, <1>2, <1>4, <1>5, <1>11, <1>12, <1>13, <1>14, <1>15, <1>16, StepKeepsOrderly

\* As usage only grows, nothing becomes later than there is usage.
LEMMA UsageKeepsOrderly ==
    ASSUME StateInv, OrderlyInv, Quiet, UNCHANGED <<lists, pc, req, call, answer, file, io>>,
           \A h \in Groupings, c \in Dates, v \in Nat : v <= usage[h][c] => v <= usage'[h][c]
    PROVE  OrderlyInv'
  <1>1. UNCHANGED <<lists, pc, req, call, answer, file, io>>
    OBVIOUS
  <1>2. \A h \in Groupings, c \in Dates, v \in Nat : v <= usage[h][c] => v <= usage'[h][c]
    OBVIOUS
  <1>3. PICK content \in [Groupings -> Seq(Entry)] : Holding(content)
    BY DEF OrderlyInv
  <1>4. ASSUME NEW e \in Entry, NEW h \in Groupings, e.ver <= usage[h][e.date]
        PROVE  e.ver <= usage'[h][e.date]
    <2>1. e.ver \in Nat /\ e.date \in Dates
      BY DEF Entry, Versions
    <2> QED
      BY <1>2, <1>4, <2>1
  <1>5. ASSUME NEW list, NEW h \in Groupings, Orderly(list, h)
        PROVE  Orderly(list, h)'
    <2>1. /\ list \in Seq(Entry) /\ Sorted(list)
          /\ \A e \in Range(list) : e.grp = h /\ e.ver <= usage[h][e.date]
      BY <1>5 DEF Orderly
    <2>2. \A e \in Range(list) : e \in Entry
      BY <2>1, ElementOfSeq, LenProperties DEF Range
    <2>3. \A e \in Range(list) : e.grp = h /\ e.ver <= usage'[h][e.date]
      BY <1>4, <2>1, <2>2
    <2> QED
      BY <2>1, <2>3 DEF Orderly, Sorted
  <1>6. ASSUME NEW list, NEW r \in InFlight, Progress(r, list)
        PROVE  Progress(r, list)'
    <2>1. /\ req[r].grp \in Groupings
          /\ call[r] \in [missing: SUBSET Dates, pending: SUBSET Dates, got: SUBSET Entry]
      BY RequestState DEF RequestsTyped
    <2>2. /\ pc' = pc /\ io' = io /\ file' = file /\ call' = call /\ req' = req
          /\ cachedEstimates' = cachedEstimates
      BY <1>1 DEF lists
    <2>3. ASSUME pc[r] \in {"access", "create", "read", "open"}
          PROVE  Orderly(io[r].toStore, req[r].grp)' /\ Supersedes(io[r].toStore, list)
      <3>1. Orderly(io[r].toStore, req[r].grp) /\ Supersedes(io[r].toStore, list)
        BY <1>6, <2>3 DEF Progress
      <3>2. PICK h \in Groupings : h = req[r].grp
        BY <2>1
      <3>3. PICK entries : entries = io[r].toStore
        OBVIOUS
      <3>4. Orderly(entries, h)'
        BY <1>5, <3>1, <3>2, <3>3
      <3> QED
        BY <2>2, <3>1, <3>2, <3>3, <3>4
    <2>4. ASSUME pc[r] = "fetch"
          PROVE  /\ Orderly(cachedEstimates, req[r].grp)'
                 /\ \A x \in call[r].got : x.ver <= usage'[req[r].grp][x.date]
      <3>1. /\ Orderly(cachedEstimates, req[r].grp)
            /\ \A x \in call[r].got : x.ver <= usage[req[r].grp][x.date]
        BY <1>6, <2>4 DEF Progress
      <3>2. PICK h \in Groupings : h = req[r].grp
        BY <2>1
      <3>3. PICK entries : entries = cachedEstimates
        OBVIOUS
      <3>4. Orderly(entries, h)'
        BY <1>5, <3>1, <3>2, <3>3
      <3>5. \A x \in call[r].got : x.ver <= usage'[h][x.date]
        BY <1>4, <2>1, <3>1, <3>2
      <3> QED
        BY <2>2, <3>2, <3>3, <3>4, <3>5
    <2> QED
      BY <1>6, <2>2, <2>3, <2>4 DEF Progress, Supersedes
  <1>7. ASSUME NEW h \in Groupings
        PROVE  Orderly(content[h], h)' /\ Becomes(h, content[h])'
    <2>1. Orderly(content[h], h) /\ Becomes(h, content[h])
      BY <1>3 DEF Holding
    <2>2. PICK list : list = content[h]
      OBVIOUS
    <2>3. Orderly(list, h)'
      BY <1>5, <2>1, <2>2
    <2>4. Becomes(h, list)'
      <3>1. pc' = pc /\ io' = io /\ file' = file /\ req' = req
        BY <1>1
      <3> QED
        BY <2>1, <2>2, <3>1 DEF Becomes, FileIs, Written
    <2> QED
      BY <2>2, <2>3, <2>4
  <1>8. ASSUME NEW r \in InFlight'
        PROVE  Progress(r, content[req[r].grp])'
    <2>1. r \in InFlight
      BY <1>1, <1>8 DEF InFlight
    <2>2. PICK list : list = content[req[r].grp]
      OBVIOUS
    <2>3. Progress(r, list)
      BY <1>3, <2>1, <2>2 DEF Holding
    <2>4. Progress(r, list)'
      BY <1>6, <2>1, <2>3
    <2>5. list = content[req'[r].grp]
      BY <1>1, <2>2
    <2> QED
      BY <2>4, <2>5
  <1>9. ASSUME Storable
         PROVE  FetchedKept(content)' /\ \A r \in Requests : Recalls(r, content[req[r].grp])'
    <2>1. FetchedKept(content) /\ \A r \in Requests : Recalls(r, content[req[r].grp])
      BY <1>3, <1>9 DEF Holding
    <2>2. /\ pc' = pc /\ io' = io /\ req' = req /\ answer' = answer
          /\ cachedEstimates' = cachedEstimates /\ fetchedEstimates' = fetchedEstimates
      BY <1>1 DEF lists
    <2>3. FetchedKept(content)'
      BY <2>1, <2>2 DEF FetchedKept, InFlight, DatesOf
    <2>4. ASSUME NEW r \in Requests
          PROVE  Recalls(r, content[req[r].grp])'
      <3>1. PICK list : list = content[req[r].grp]
        OBVIOUS
      <3>2. Recalls(r, list)
        BY <2>1, <3>1
      <3>3. Recalls(r, list)'
        BY <2>2, <3>2 DEF Recalls, Storing, Served, AnsweredDates, DatesOf
      <3> QED
        BY <2>2, <3>1, <3>3
    <2> QED
      BY <2>3, <2>4
  <1>10. Holding(content)'
    BY <1>7, <1>8, <1>9 DEF Holding, Storable
  <1> QED
    BY <1>3, <1>10 DEF OrderlyInv

\* The provider bills more usage, never less.
LEMMA PublishKeepsOrderly ==
    ASSUME StateInv, OrderlyInv, Quiet, NEW g \in Groupings, NEW d \in Dates, Publish(g, d)
    PROVE  OrderlyInv'
  <1>1. /\ usage' = [usage EXCEPT ![g][d] = @ + 1]
        /\ UNCHANGED <<lists, pc, req, call, answer, file, io>>
    BY DEF Publish, PublishUsage
  <1>2. usage \in [Groupings -> [Dates -> Versions]]
    BY DEF StateInv, TypeOK, ManagerTypeOK
  <1>3. \A h \in Groupings, c \in Dates, v \in Nat : v <= usage[h][c] => v <= usage'[h][c]
    <2> TAKE h \in Groupings, c \in Dates, v \in Nat
    <2>1. usage[h][c] \in Nat /\ usage'[h][c] \in {usage[h][c], usage[h][c] + 1}
      BY <1>1, <1>2 DEF Versions
    <2> QED
      BY <2>1
  <1> QED
    BY <1>1, <1>3, UsageKeepsOrderly

\* A request that comes when no other is in progress finds every file whole.
LEMMA ArriveKeepsOrderly ==
    ASSUME StateInv, OrderlyInv, Quiet, Quiet', NEW r \in Requests, NEW q \in RequestSpace, Arrive(r, q)
    PROVE  OrderlyInv'
  <1>1. /\ pc[r] = "idle" /\ req' = [req EXCEPT ![r] = q] /\ pc' = [pc EXCEPT ![r] = "access"]
        /\ UNCHANGED <<usage, lists, call, answer, file, io>>
        /\ overlapped' = IF InFlight = {} THEN overlapped ELSE overlapped \cup InFlight \cup {r}
    BY DEF Arrive, Admit
  <1>2. InFlight = {}
    BY <1>1 DEF Quiet
  <1>3. PICK content \in [Groupings -> Seq(Entry)] : Holding(content)
    BY DEF OrderlyInv
  <1>4. /\ pc = [p \in Requests |-> pc[p]] /\ io[r] = NoIO
        /\ req \in [Requests -> RequestSpace \cup {NoRequest}]
    BY <1>1 DEF StateInv, ManagerInv, ManagerTypeOK, IoReady
  <1>5. /\ pc'[r] = "access" /\ req'[r] = q /\ q.grp \in Groupings
        /\ \A p \in Requests : p # r => pc'[p] = pc[p] /\ req'[p] = req[p]
        /\ \A p \in Requests : pc[p] \in {"idle", "done", "failed"}
    <2>1. pc'[r] = "access" /\ \A p \in Requests : p # r => pc'[p] = pc[p]
      BY <1>1, <1>4
    <2>2. req'[r] = q /\ \A p \in Requests : p # r => req'[p] = req[p]
      BY <1>1, <1>4
    <2>3. \A p \in Requests : pc[p] \in {"idle", "done", "failed"}
      BY <1>2 DEF InFlight
    <2> QED
      BY <2>1, <2>2, <2>3, RequestFields
  <1>6. ASSUME NEW h \in Groupings
        PROVE  Orderly(content[h], h)' /\ Becomes(h, content[h])'
    <2>1. PICK list : list = content[h]
      OBVIOUS
    <2>2. Orderly(list, h) /\ FileIs(h, list)
      BY <1>3, <1>5, <2>1 DEF Holding, Becomes
    <2>3. Orderly(list, h)' /\ FileIs(h, list)'
      BY <1>1, <2>2 DEF Orderly, FileIs
    <2>4. \A p \in Requests : pc'[p] # "write"
      BY <1>5
    <2> QED
      BY <2>1, <2>3, <2>4 DEF Becomes
  <1>7. ASSUME NEW p \in InFlight'
        PROVE  Progress(p, content[req[p].grp])'
    <2>1. p = r
      BY <1>5, <1>7 DEF InFlight
    <2>2. PICK list : list = content[req'[r].grp]
      OBVIOUS
    <2>3. io'[r] = NoIO
      BY <1>1, <1>4
    <2>4. PICK g : g = req'[r].grp
      OBVIOUS
    <2>5. Orderly(<<>>, g)' /\ Supersedes(<<>>, list)
      BY NothingOrderly, EmptyList DEF Orderly, Sorted
    <2>6. io'[r].toStore = <<>> /\ io'[r].buf = <<>>
      BY <2>3 DEF NoIO
    <2>7. Orderly(io[r].toStore, req[r].grp)' /\ Supersedes(io[r].toStore, list)'
      BY <2>4, <2>5, <2>6 DEF Orderly, Supersedes
    <2>8. Progress(r, list)'
      BY <1>5, <2>6, <2>7 DEF Progress
    <2> QED
      BY <2>1, <2>2, <2>8
  <1>8. ASSUME Storable
        PROVE  FetchedKept(content)' /\ \A p \in Requests : Recalls(p, content[req[p].grp])'
    <2>1. FetchedKept(content) /\ \A p \in Requests : Recalls(p, content[req[p].grp])
      BY <1>3, <1>8 DEF Holding
    <2>2. \A e \in Range(fetchedEstimates) : e.date \in DatesOf(content[e.grp])
      BY <1>2, <2>1 DEF FetchedKept
    <2>3. FetchedKept(content)'
      <3>1. fetchedEstimates' = fetchedEstimates
        BY <1>1 DEF lists
      <3> QED
        BY <2>2, <3>1 DEF FetchedKept, DatesOf
    <2>4. ASSUME NEW p \in Requests
          PROVE  Recalls(p, content[req[p].grp])'
      <3>1. PICK list : list = content[req'[p].grp]
        OBVIOUS
      <3>2. CASE p = r
        <4>1. pc'[p] = "access" /\ io'[p].toStore = <<>>
          BY <1>1, <1>4, <1>5, <3>2 DEF NoIO
        <4>2. Recalls(p, list)'
          BY <4>1 DEF Recalls, Storing, Served
        <4> QED
          BY <3>1, <4>2
      <3>3. CASE p # r
        <4>1. pc'[p] = pc[p] /\ req'[p] = req[p] /\ answer' = answer /\ pc[p] \in {"idle", "done", "failed"}
          BY <1>1, <1>5, <3>3
        <4>2. Recalls(p, list)
          BY <2>1, <3>1, <4>1
        <4>3. ~(pc[p] = "fetch" \/ Storing(p))' /\ pc'[p] \notin {"write", "close"}
          BY <4>1 DEF Storing
        <4>4. (Served(p)' => Served(p)) /\ AnsweredDates(p)' = AnsweredDates(p)
          BY <4>1 DEF Served, AnsweredDates
        <4>5. Recalls(p, list)'
          BY <4>2, <4>3, <4>4 DEF Recalls, DatesOf
        <4> QED
          BY <3>1, <4>5
      <3> QED
        BY <3>2, <3>3
    <2> QED
      BY <2>3, <2>4
  <1>9. Holding(content)'
    BY <1>6, <1>7, <1>8 DEF Holding, Storable
  <1> QED
    BY <1>3, <1>9 DEF OrderlyInv

\* Overlapping and crashes are not forgotten.
LEMMA QuietBefore ==
    ASSUME StateInv, [Next]_vars, Quiet'
    PROVE  Quiet
  <1>1. overlapped \subseteq overlapped' /\ crashes \in Nat /\ crashes' \in {crashes, crashes + 1}
    <2>1. crashes \in Nat
      BY ListManagerAssumption DEF StateInv, TypeOK, ManagerTypeOK
    <2>2. CASE vars' = vars
      BY <2>1, <2>2 DEF vars, managerVars
    <2>3. ASSUME NEW g \in Groupings, NEW d \in Dates, Publish(g, d)
          PROVE  overlapped' = overlapped /\ crashes' = crashes
      BY <2>3 DEF Publish, PublishUsage
    <2>4. ASSUME NEW r \in Requests, NEW q \in RequestSpace, Arrive(r, q)
          PROVE  overlapped \subseteq overlapped' /\ crashes' = crashes
      BY <2>4 DEF Arrive, Admit
    <2>5. CASE ProcessEnds
      <3>1. LoseMemory
        BY <2>5 DEF ProcessEnds
      <3>2. overlapped' = overlapped /\ crashes' = crashes + 1
        BY <3>1 DEF LoseMemory
      <3> QED
        BY <2>1, <3>2
    <2>6. ASSUME NEW r \in Requests, Step(r)
          PROVE  overlapped' = overlapped /\ crashes' = crashes
      <3>1. CASE Fetch(r)
        BY <3>1 DEF Fetch, FetchSome, FetchUnstored, FetchFails, Reject
      <3>2. CASE CreateFails(r)
        BY <3>2 DEF CreateFails, Reject
      <3> QED
        BY <2>6, <3>1, <3>2 DEF Step, AccessFile, CreateCacheFile, AccessFails, ReadChunk, ReadEnd,
             SetEstimates, OpenFile, StoreFails, WriteWindow, Close, managerVars
    <2> QED
      BY <2>1, <2>2, <2>3, <2>4, <2>5, <2>6 DEF Next, Crash, ReadStreamFails
  <1> QED
    BY <1>1 DEF Quiet, ContentsGrow

\* The invariant is inductive together with the types.
LEMMA OrderlyKept == StateInv /\ OrderlyInv /\ [Next]_vars => OrderlyInv'
  <1> SUFFICES ASSUME StateInv, OrderlyInv, [Next]_vars, Quiet' PROVE OrderlyInv'
    BY DEF OrderlyInv
  <1>1. Quiet
    BY QuietBefore
  <1>2. CASE vars' = vars
    <2>1. UNCHANGED <<lists, pc, req, call, answer, file, io>> /\ usage' = usage
      BY <1>2 DEF vars, managerVars
    <2> QED
      BY <1>1, <2>1, UsageKeepsOrderly
  <1>3. ASSUME NEW g \in Groupings, NEW d \in Dates, Publish(g, d) PROVE OrderlyInv'
    BY <1>1, <1>3, PublishKeepsOrderly
  <1>4. ASSUME NEW r \in Requests, NEW q \in RequestSpace, Arrive(r, q) PROVE OrderlyInv'
    BY <1>1, <1>4, ArriveKeepsOrderly
  <1>5. CASE ProcessEnds
    <2>1. crashes = 0 /\ crashes' = crashes + 1
      BY <1>1, <1>5 DEF Quiet, ProcessEnds, LoseMemory
    <2> QED
      BY <2>1 DEF Quiet
  <1>6. ASSUME NEW r \in Requests, Step(r) PROVE OrderlyInv'
    <2>1. CASE AccessFile(r)
      BY <1>1, <2>1, AccessKeepsOrderly
    <2>2. CASE CreateCacheFile(r) \/ ReadEnd(r)
      BY <1>1, <2>2, MergeKeepsOrderly, FindKeepsOrderly
    <2>3. CASE CreateFails(r)
      <3>1. /\ r \in InFlight /\ Reject(r) /\ UNCHANGED <<file, io>>
            /\ pc[r] = "create" /\ "create" \in Faults
        BY <2>3 DEF CreateFails, InFlight
      <3> QED
        BY <1>1, <3>1, RejectKeepsOrderly
    <2>4. CASE ReadChunk(r)
      BY <1>1, <2>4, ReadKeepsOrderly
    <2>5. CASE Fetch(r)
      BY <1>1, <2>5, FetchKeepsOrderly
    <2>6. CASE SetEstimates(r)
      BY <1>1, <2>6, SetKeepsOrderly
    <2>7. CASE OpenFile(r)
      BY <1>1, <2>7, OpenKeepsOrderly
    <2>8. ~AccessFails(r) /\ ~StoreFails(r)
      BY <1>1 DEF AccessFails, StoreFails, Quiet
    <2>9. CASE WriteWindow(r)
      BY <1>1, <2>9, WriteKeepsOrderly
    <2>10. CASE Close(r)
      BY <1>1, <2>10, CloseKeepsOrderly
    <2> QED
      BY <1>6, <2>1, <2>2, <2>3, <2>4, <2>5, <2>6, <2>7, <2>8, <2>9, <2>10 DEF Step
  <1> QED
    BY <1>2, <1>3, <1>4, <1>5, <1>6 DEF Next, Crash, ReadStreamFails

\* While nobody writes, the files hold the lists the invariant names.
LEMMA FilesHold ==
    ASSUME OrderlyInv, ContentsGrow, Undisturbed, Faults \cap {"access", "store"} = {}
    PROVE  \E content \in [Groupings -> Seq(Entry)] :
               /\ Holding(content)
               /\ \A g \in Groupings : /\ file[g] # NoFile => Parses(file[g])
                                       /\ StoredEntries(g) = content[g] /\ Sorted(content[g])
  <1>1. Quiet /\ \A r \in Requests : pc[r] # "write"
    BY DEF Quiet, Undisturbed, InFlight
  <1>2. PICK content \in [Groupings -> Seq(Entry)] : Holding(content)
    BY <1>1 DEF OrderlyInv
  <1>3. ASSUME NEW g \in Groupings
        PROVE  /\ file[g] # NoFile => Parses(file[g])
               /\ StoredEntries(g) = content[g] /\ Sorted(content[g])
    <2>1. FileIs(g, content[g]) /\ Sorted(content[g]) /\ content[g] \in Seq(Entry)
      BY <1>1, <1>2 DEF Holding, Becomes, Orderly
    <2>2. Parses(Cells(content[g])) /\ CachedData(Cells(content[g])) = content[g]
      BY <2>1, CellsParse, CellsReadBack
    <2> QED
      BY <2>1, <2>2 DEF FileIs, StoredEntries
  <1> QED
    BY <1>2, <1>3

\* A file that holds a list in order is sound.
LEMMA HoldingSound ==
    ASSUME OrderlyInv, ContentsGrow
    PROVE  FileSound
  <1> SUFFICES ASSUME Undisturbed, Faults \cap {"access", "store"} = {}, NEW g \in Groupings
               PROVE  /\ file[g] # NoFile => Parses(file[g])
                      /\ Sorted(StoredEntries(g))
    BY DEF FileSound, Sorted
  <1> QED
    BY FilesHold

\* A file whose list keeps every date forgets none.
LEMMA HoldingForgetsNothing ==
    ASSUME StateInv, OrderlyInv, ContentsGrow
    PROVE  NothingForgotten
  <1> SUFFICES ASSUME Undisturbed, Storable, NEW r \in Requests, Served(r)
               PROVE  AnsweredDates(r) \subseteq StoredDates(req[r].grp)
    BY DEF NothingForgotten, Storable
  <1>1. PICK content \in [Groupings -> Seq(Entry)] :
            Holding(content) /\ \A g \in Groupings : StoredEntries(g) = content[g]
    BY FilesHold DEF Storable
  <1>2. req[r].grp \in Groupings
    <2>1. req[r] \in RequestSpace
      BY DEF Served, StateInv, ManagerInv
    <2> QED
      BY <2>1, RequestFields
  <1>3. AnsweredDates(r) \subseteq DatesOf(content[req[r].grp])
    BY <1>1 DEF Holding, Recalls
  <1>4. StoredDates(req[r].grp) = DatesOf(StoredEntries(req[r].grp))
    BY DEF StoredDates, DatesOf, Range
  <1> QED
    BY <1>1, <1>2, <1>3, <1>4

(* If estimates of later usage are not shorter, then as long as requests    *)
(* come one at a time and every access and write succeeds, the writing over *)
(* of a file leaves no part of an older estimate behind: every line of      *)
(* every file parses, and its entries are in order, of different dates.     *)
THEOREM FileSoundHolds == Spec => [](ContentsGrow => FileSound)
  <1>1. Init => StateInv /\ OrderlyInv
    BY StateInitially, OrderlyInitially
  <1>2. StateInv /\ OrderlyInv /\ [Next]_vars => (StateInv /\ OrderlyInv)'
    BY StateKept, OrderlyKept
  <1>3. StateInv /\ OrderlyInv => (ContentsGrow => FileSound)
    BY HoldingSound
  <1> QED
    BY <1>1, <1>2, <1>3, PTL DEF Spec

(* Then no date a request was answered on is lost to the windows written    *)
(* after it, if files can be created too.                                   *)
THEOREM NothingForgottenHolds == Spec => [](ContentsGrow => NothingForgotten)
  <1>1. Init => StateInv /\ OrderlyInv
    BY StateInitially, OrderlyInitially
  <1>2. StateInv /\ OrderlyInv /\ [Next]_vars => (StateInv /\ OrderlyInv)'
    BY StateKept, OrderlyKept
  <1>3. StateInv /\ OrderlyInv => (ContentsGrow => NothingForgotten)
    BY HoldingForgetsNothing
  <1> QED
    BY <1>1, <1>2, <1>3, PTL DEF Spec
================================================================================
