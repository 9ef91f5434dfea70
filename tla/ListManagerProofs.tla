--------------------------- MODULE ListManagerProofs ---------------------------
(***************************************************************************)
(* What the lists of ListManager hold, for lists and sets of any size, and *)
(* the lemmas about its actions that the proofs about its two modes share. *)
(***************************************************************************)
EXTENDS ListManager, FiniteSetTheorems, SequenceTheorems, TLAPS

-----------------------------------------------------------------------------
(* Listing, and the lists made with it.                                     *)

\* A set of pairs that puts the members of a set one after the other.
Orders(order, P) ==
    /\ \A i, j \in P : <<i, j>> \in order \/ <<j, i>> \in order
    /\ \A i, j \in P : <<i, j>> \in order /\ <<j, i>> \in order => i = j
    /\ \A i, j, k \in P : <<i, j>> \in order /\ <<j, k>> \in order => <<i, k>> \in order

\* A list holds the members of a set, each once.
Lists(list, P) ==
    /\ list \in [1 .. Cardinality(P) -> P]
    /\ \A i \in P : \E k \in 1 .. Cardinality(P) : list[k] = i
    /\ \A k, l \in 1 .. Cardinality(P) : list[k] = list[l] => k = l

\* A list of the members of a set has them in an order.
InOrderOf(list, order, P) == \A k, l \in 1 .. Cardinality(P) : k < l => <<list[k], list[l]>> \in order

\* The listing of a finite set holds its members, each once and in their order.
LEMMA ListingLists ==
    ASSUME NEW P, IsFiniteSet(P), NEW order, Orders(order, P)
    PROVE  /\ Cardinality(P) \in Nat /\ Lists(Listing(P, order), P)
           /\ InOrderOf(Listing(P, order), order, P)
  <1> DEFINE n == Cardinality(P)
             upTo(i) == {j \in P : <<j, i>> \in order}
             rank == [i \in P |-> Cardinality(upTo(i))]
             list == Listing(P, order)
  <1>1. n \in Nat /\ IsFiniteSet(1 .. n) /\ Cardinality(1 .. n) = n
    BY FS_CardinalityType, FS_Interval
  <1>2. \A i \in P : IsFiniteSet(upTo(i)) /\ Cardinality(upTo(i)) \in 1 .. n
    <2> TAKE i \in P
    <2>1. upTo(i) \in SUBSET P /\ i \in upTo(i)
      BY DEF Orders
    <2>2. IsFiniteSet(upTo(i)) /\ Cardinality(upTo(i)) <= n
      BY <2>1, FS_Subset
    <2>3. Cardinality(upTo(i)) \in Nat /\ Cardinality(upTo(i)) # 0
      BY <2>1, <2>2, FS_CardinalityType, FS_EmptySet
    <2> HIDE DEF upTo, n
    <2> QED
      BY <1>1, <2>2, <2>3
  <1>3. \A i, j \in P : i # j /\ <<i, j>> \in order => Cardinality(upTo(i)) < Cardinality(upTo(j))
    <2> SUFFICES ASSUME NEW i \in P, NEW j \in P, i # j, <<i, j>> \in order
                 PROVE  Cardinality(upTo(i)) < Cardinality(upTo(j))
      OBVIOUS
    <2>1. upTo(i) \in SUBSET upTo(j) /\ j \notin upTo(i) /\ j \in upTo(j)
      BY DEF Orders
    <2>2. /\ Cardinality(upTo(i)) <= Cardinality(upTo(j))
          /\ Cardinality(upTo(i)) # Cardinality(upTo(j))
      BY <2>1, <1>2, FS_Subset
    <2> HIDE DEF upTo
    <2> QED
      BY <1>2, <2>2
  <1>4. rank \in Injection(P, 1 .. n)
    <2>1. rank \in [P -> 1 .. n]
      BY <1>2
    <2>2. \A i, j \in P : rank[i] = rank[j] => i = j
      <3> SUFFICES ASSUME NEW i \in P, NEW j \in P, i # j
                   PROVE  rank[i] # rank[j]
        OBVIOUS
      <3>1. rank[i] = Cardinality(upTo(i)) /\ rank[j] = Cardinality(upTo(j))
        OBVIOUS
      <3>2. <<i, j>> \in order \/ <<j, i>> \in order
        BY DEF Orders
      <3>3. rank[i] \in 1 .. n /\ rank[j] \in 1 .. n
        BY <2>1
      <3>4. rank[i] < rank[j] \/ rank[j] < rank[i]
        BY <1>3, <3>1, <3>2
      <3> HIDE DEF rank, n
      <3> QED
        BY <3>3, <3>4, <1>1
    <2> QED
      BY <2>1, <2>2 DEF Injection, IsInjective
  <1>5. rank \in Surjection(P, 1 .. n)
    BY <1>1, <1>4, FS_Injection
  <1>6. \A k \in 1 .. n : list[k] \in P /\ rank[list[k]] = k
    <2> TAKE k \in 1 .. n
    <2>1. \E i \in P : Cardinality(upTo(i)) = k
      BY <1>5 DEF Surjection
    <2>2. list[k] = CHOOSE i \in P : Cardinality(upTo(i)) = k
      BY DEF Listing
    <2> QED
      BY <2>1, <2>2
  <1>7. list \in [1 .. n -> P]
    BY <1>6 DEF Listing
  <1>8. \A i \in P : \E k \in 1 .. n : list[k] = i
    <2> TAKE i \in P
    <2>1. rank[i] \in 1 .. n /\ list[rank[i]] \in P /\ rank[list[rank[i]]] = rank[i]
      BY <1>2, <1>6
    <2>2. list[rank[i]] = i
      BY <2>1, <1>4 DEF Injection, IsInjective
    <2> QED
      BY <2>1, <2>2
  <1>9. \A k, l \in 1 .. n : list[k] = list[l] => k = l
    BY <1>6
  <1>10. ASSUME NEW k \in 1 .. n, NEW l \in 1 .. n, k < l
         PROVE  <<list[k], list[l]>> \in order
    <2>1. /\ list[k] \in P /\ Cardinality(upTo(list[k])) = k
          /\ list[l] \in P /\ Cardinality(upTo(list[l])) = l
      BY <1>6
    <2>2. k \in Int /\ l \in Int /\ k # l
      BY <1>1, <1>10
    <2>3. <<list[k], list[l]>> \in order \/ <<list[l], list[k]>> \in order
      BY <2>1 DEF Orders
    <2> HIDE DEF n, list, upTo
    <2>4. list[k] # list[l]
      BY <2>1, <2>2
    <2>5. <<list[l], list[k]>> \in order => l < k
      BY <1>3, <2>1, <2>4
    <2> QED
      BY <1>10, <2>2, <2>3, <2>5
  <1> QED
    BY <1>1, <1>7, <1>8, <1>9, <1>10 DEF Lists, InOrderOf

\* No two entries of a list are of the same date.
OfDifferentDates(list) == \A i, j \in DOMAIN list : list[i].date = list[j].date => i = j

\* What is kept of a list is what was at the positions kept, each position once.
LEMMA KeptElements ==
    ASSUME NEW S, NEW s \in Seq(S), NEW P \in SUBSET DOMAIN s
    PROVE  /\ Kept(s, P) \in Seq(S)
           /\ Range(Kept(s, P)) = {s[i] : i \in P}
           /\ OfDifferentDates(s) => OfDifferentDates(Kept(s, P))
  <1> DEFINE at == Listing(P, {p \in P \X P : p[1] <= p[2]})
             n == Cardinality(P)
  <1>1. DOMAIN s = 1 .. Len(s) /\ Len(s) \in Nat
    BY LenProperties
  <1>2. IsFiniteSet(P)
    <2>1. IsFiniteSet(1 .. Len(s)) /\ P \in SUBSET (1 .. Len(s))
      BY <1>1, FS_Interval
    <2> QED
      BY <2>1, FS_Subset
  <1>3. \A i \in P : i \in Int /\ s[i] \in S
    BY <1>1
  <1>4. Orders({p \in P \X P : p[1] <= p[2]}, P)
    BY <1>3 DEF Orders
  <1>5. n \in Nat /\ Lists(at, P)
    BY <1>2, <1>4, ListingLists
  <1>6. Kept(s, P) = [k \in 1 .. n |-> s[at[k]]] /\ at \in [1 .. n -> P]
    BY <1>5 DEF Kept, Lists
  <1> HIDE DEF at, n
  <1>7. Kept(s, P) \in [1 .. n -> S]
    BY <1>3, <1>6
  <1>8. Kept(s, P) \in Seq(S)
    BY <1>5, <1>7
  <1>9. Range(Kept(s, P)) = {s[i] : i \in P}
    <2>1. \A k \in 1 .. n : Kept(s, P)[k] \in {s[i] : i \in P}
      BY <1>6
    <2>2. \A i \in P : \E k \in 1 .. n : Kept(s, P)[k] = s[i]
      <3> TAKE i \in P
      <3>1. PICK k \in 1 .. n : at[k] = i
        BY <1>5 DEF Lists, n
      <3> QED
        BY <1>6, <3>1
    <2>3. DOMAIN Kept(s, P) = 1 .. n
      BY <1>6
    <2> QED
      BY <2>1, <2>2, <2>3 DEF Range
  <1>10. OfDifferentDates(s) => OfDifferentDates(Kept(s, P))
    BY <1>5, <1>6 DEF Lists, n, OfDifferentDates
  <1> QED
    BY <1>8, <1>9, <1>10

\* An entry's timestamp is a number, and tells the date within a grouping.
LEMMA TimestampType ==
    ASSUME NEW e \in Entry
    PROVE  Timestamp(e) \in Int
  BY ListManagerAssumption DEF Entry, Timestamp, Dates

LEMMA TimestampOfDate ==
    ASSUME NEW a \in Int, NEW b \in Int, NEW days \in Nat \ {0},
           (a - 1) * days + 1 = (b - 1) * days + 1
    PROVE  a = b
  <1>1. (a - 1) * days = (b - 1) * days
    OBVIOUS
  <1> QED
    BY <1>1

\* Sorting a list loses and adds nothing.
LEMMA InOrderElements ==
    ASSUME NEW s \in Seq(Entry)
    PROVE  /\ InOrder(s) \in Seq(Entry)
           /\ Range(InOrder(s)) = Range(s)
           /\ OfDifferentDates(s) => OfDifferentDates(InOrder(s))
  <1> DEFINE positions == DOMAIN s
             order == {p \in positions \X positions : NotAfter(s, p[1], p[2])}
             at == Listing(positions, order)
             n == Cardinality(positions)
  <1>1. positions = 1 .. Len(s) /\ Len(s) \in Nat /\ IsFiniteSet(positions)
    BY FS_Interval
  <1>2. n = Len(s)
    BY <1>1, FS_Interval
  <1>3. \A i \in positions : s[i] \in Entry /\ Timestamp(s[i]) \in Int /\ i \in Int
    BY <1>1, TimestampType
  <1>4. Orders(order, positions)
    BY <1>3 DEF Orders, NotAfter
  <1>5. n \in Nat /\ Lists(at, positions)
    BY <1>1, <1>4, ListingLists
  <1>6. InOrder(s) = [k \in 1 .. n |-> s[at[k]]] /\ at \in [1 .. n -> positions]
    BY <1>5 DEF InOrder, Lists
  <1> HIDE DEF at, n, order
  <1>7. InOrder(s) \in [1 .. n -> Entry]
    BY <1>3, <1>6
  <1>8. InOrder(s) \in Seq(Entry)
    BY <1>5, <1>7
  <1>9. Range(InOrder(s)) = Range(s)
    <2>1. \A k \in 1 .. n : InOrder(s)[k] \in {s[i] : i \in positions}
      BY <1>6
    <2>2. \A i \in positions : \E k \in 1 .. n : InOrder(s)[k] = s[i]
      <3> TAKE i \in positions
      <3>1. PICK k \in 1 .. n : at[k] = i
        BY <1>5 DEF Lists, n
      <3> QED
        BY <1>6, <3>1
    <2>3. DOMAIN InOrder(s) = 1 .. n
      BY <1>6
    <2> QED
      BY <2>1, <2>2, <2>3 DEF Range
  <1>10. OfDifferentDates(s) => OfDifferentDates(InOrder(s))
    BY <1>5, <1>6 DEF Lists, n, OfDifferentDates
  <1> QED
    BY <1>8, <1>9, <1>10

\* Entries of different dates, listed by date.
LEMMA ByDateElements ==
    ASSUME NEW S \in SUBSET Entry, \A e, f \in S : e.date = f.date => e = f
    PROVE  /\ ByDate(S) \in Seq(Entry)
           /\ Range(ByDate(S)) = S
           /\ OfDifferentDates(ByDate(S))
  <1> DEFINE order == {p \in S \X S : p[1].date <= p[2].date}
             n == Cardinality(S)
             dates == [e \in S |-> e.date]
  <1>1. \A e \in S : e.date \in Int /\ e \in Entry
    BY DEF Entry, Dates
  <1>2. IsFiniteSet(S)
    <2>1. IsFiniteSet(1 .. MaxDate)
      BY ListManagerAssumption, FS_Interval
    <2>2. dates \in Injection(S, 1 .. MaxDate)
      BY DEF Entry, Dates, Injection, IsInjective
    <2> QED
      BY <2>1, <2>2, FS_Injection
  <1>3. Orders(order, S)
    BY <1>1 DEF Orders
  <1>4. n \in Nat /\ Lists(ByDate(S), S)
    BY <1>2, <1>3, ListingLists DEF ByDate
  <1> HIDE DEF n
  <1>5. ByDate(S) \in [1 .. n -> S]
    BY <1>4 DEF Lists, n
  <1>6. ByDate(S) \in Seq(Entry)
    BY <1>4, <1>5, <1>1
  <1>7. Range(ByDate(S)) = S
    BY <1>4, <1>5 DEF Lists, n, Range
  <1>8. OfDifferentDates(ByDate(S))
    BY <1>4, <1>5 DEF Lists, n, OfDifferentDates
  <1> QED
    BY <1>6, <1>7, <1>8

\* Two lists joined.
LEMMA ConcatElements ==
    ASSUME NEW S, NEW s \in Seq(S), NEW t \in Seq(S)
    PROVE  /\ s \o t \in Seq(S)
           /\ Range(s \o t) = Range(s) \cup Range(t)
           /\ OfDifferentDates(s) /\ OfDifferentDates(t)
                /\ (\A e \in Range(s), f \in Range(t) : e.date # f.date)
              => OfDifferentDates(s \o t)
  <1>1. s \o t \in Seq(S) /\ Len(s) \in Nat /\ Len(t) \in Nat
    OBVIOUS
  <1>2. /\ DOMAIN s = 1 .. Len(s) /\ DOMAIN t = 1 .. Len(t)
        /\ DOMAIN (s \o t) = 1 .. Len(s) + Len(t)
    OBVIOUS
  <1>3. \A i \in 1 .. Len(s) : i \in 1 .. Len(s) + Len(t) /\ (s \o t)[i] = s[i]
    BY <1>1
  <1>4. \A i \in 1 .. Len(t) :
            Len(s) + i \in 1 .. Len(s) + Len(t) /\ (s \o t)[Len(s) + i] = t[i]
    BY <1>1
  <1>5. \A i \in 1 .. Len(s) + Len(t) :
            i \in 1 .. Len(s) \/ (i - Len(s) \in 1 .. Len(t) /\ (s \o t)[i] = t[i - Len(s)])
    BY <1>1
  <1>6. Range(s \o t) = Range(s) \cup Range(t)
    <2>1. Range(s \o t) \subseteq Range(s) \cup Range(t)
      BY <1>2, <1>3, <1>5 DEF Range
    <2>2. Range(s) \cup Range(t) \subseteq Range(s \o t)
      BY <1>2, <1>3, <1>4 DEF Range
    <2> QED
      BY <2>1, <2>2
  <1>7. ASSUME OfDifferentDates(s), OfDifferentDates(t),
               \A e \in Range(s), f \in Range(t) : e.date # f.date
        PROVE  OfDifferentDates(s \o t)
    <2>1. \A i \in 1 .. Len(s), j \in 1 .. Len(t) : s[i].date # t[j].date
      BY <1>2, <1>7 DEF Range
    <2>2. ASSUME NEW i \in 1 .. Len(s) + Len(t), NEW j \in 1 .. Len(s) + Len(t),
                 (s \o t)[i].date = (s \o t)[j].date
          PROVE  i = j
      <3>1. CASE i \in 1 .. Len(s) /\ j \in 1 .. Len(s)
        BY <1>2, <1>3, <1>7, <2>2, <3>1 DEF OfDifferentDates
      <3>2. CASE i \in 1 .. Len(s) /\ j \notin 1 .. Len(s)
        BY <1>3, <1>5, <2>1, <2>2, <3>2
      <3>3. CASE i \notin 1 .. Len(s) /\ j \in 1 .. Len(s)
        BY <1>3, <1>5, <2>1, <2>2, <3>3
      <3>4. CASE i \notin 1 .. Len(s) /\ j \notin 1 .. Len(s)
        <4> DEFINE k == i - Len(s)  l == j - Len(s)
        <4>1. k \in DOMAIN t /\ l \in DOMAIN t /\ t[k].date = t[l].date
          BY <1>2, <1>5, <2>2, <3>4
        <4>2. k = l
          <5> HIDE DEF k, l
          <5> QED
            BY <1>7, <4>1 DEF OfDifferentDates
        <4> QED
          BY <4>2, <1>1
      <3> QED
        BY <3>1, <3>2, <3>3, <3>4
    <2> QED
      BY <1>2, <2>2 DEF OfDifferentDates
  <1> QED
    BY <1>1, <1>6, <1>7

-----------------------------------------------------------------------------
(* What the actions of ListManager do.                                      *)

\* A request asks for dates of the calendar, by a grouping there is.
LEMMA RequestFields ==
    ASSUME NEW q \in RequestSpace
    PROVE  /\ q.grp \in Groupings /\ q.ignoreCache \in BOOLEAN /\ q # NoRequest
           /\ DatesWithinRequestTimeFrame(q) \subseteq Dates
  BY ListManagerAssumption DEF Request, DatesWithinRequestTimeFrame, Dates

\* All the entries of a list are of one grouping.
OfGrouping(list, g) == \A e \in Range(list) : e.grp = g

\* A list entry dated like the request's grouping's d is of date d, when it is of that grouping.
LEMMA TimestampDated ==
    ASSUME NEW e \in Entry, NEW d \in Dates
    PROVE  (Timestamp(e) = (d - 1) * PeriodDays[e.grp] + 1) <=> (e.date = d)
  <1>1. e.date \in Int /\ d \in Int /\ PeriodDays[e.grp] \in Nat \ {0}
    BY ListManagerAssumption DEF Entry, Dates
  <1> QED
    BY <1>1, TimestampOfDate DEF Timestamp

(* An answer holds what is in the two lists it is made from but for the     *)
(* entries without services.                                                *)
LEMMA AnswerElements ==
    ASSUME NEW r \in Requests, NEW cached \in Seq(Entry), NEW fetched \in Seq(Entry),
           AnswerFrom(r, cached, fetched)
    PROVE  \E list \in Seq(Entry) :
               /\ Range(list) = {e \in Range(cached) \cup Range(fetched) : e.ver # 0}
               /\ answer' = [answer EXCEPT ![r] = list]
               /\ pc' = [pc EXCEPT ![r] = "done"]
               /\ call' = [call EXCEPT ![r] = NoCall]
  <1> DEFINE both == cached \o fetched
             entries == WithServices(both)
  <1>1. both \in Seq(Entry) /\ Range(both) = Range(cached) \cup Range(fetched)
    BY ConcatElements
  <1> HIDE DEF both
  <1>2. /\ entries \in Seq(Entry)
        /\ Range(entries) = {both[i] : i \in {j \in DOMAIN both : both[j].ver # 0}}
    BY <1>1, KeptElements DEF WithServices
  <1>3. Range(entries) = {e \in Range(both) : e.ver # 0}
    BY <1>2 DEF Range
  <1>4. InOrder(entries) \in Seq(Entry) /\ Range(InOrder(entries)) = Range(entries)
    BY <1>2, InOrderElements
  <1>5. answer' = [answer EXCEPT ![r] = InOrder(entries)]
    BY DEF AnswerFrom, both
  <1> HIDE DEF entries
  <1> QED
    BY <1>1, <1>3, <1>4, <1>5 DEF AnswerFrom

(* What looking for missing dates does with the entries found in the window *)
(* and the dates that are missing.                                          *)
Finds(r, entries, found, dates) ==
    /\ cachedEstimates' = found /\ fetchedEstimates' = fetchedEstimates
    /\ Range(found) \subseteq Range(entries)
    /\ OfDifferentDates(entries) => OfDifferentDates(found)
    /\ OfGrouping(entries, req[r].grp) =>
          /\ \A d \in DatesWithinRequestTimeFrame(req[r]) \ dates : \E e \in Range(found) : e.date = d
          /\ \A e \in Range(found) : e.date \notin dates
    /\ \/ /\ dates # {}
          /\ pc' = [pc EXCEPT ![r] = "fetch"]
          /\ call' = [call EXCEPT ![r] = [missing |-> dates, pending |-> dates, got |-> {}]]
          /\ answer' = answer
       \/ \E list \in Seq(Entry) :
          /\ dates = {}
          /\ pc' = [pc EXCEPT ![r] = "done"]
          /\ call' = [call EXCEPT ![r] = NoCall]
          /\ answer' = [answer EXCEPT ![r] = list]
          /\ ~req[r].ignoreCache =>
                Range(list) = {e \in Range(found) \cup Range(fetchedEstimates) : e.ver # 0}

(* Looking for missing dates takes over entries of the file's: those found  *)
(* cover all of the window but the dates to be fetched.                     *)
LEMMA FoundElements ==
    ASSUME NEW r \in Requests, req[r] \in RequestSpace, fetchedEstimates \in Seq(Entry),
           NEW entries \in Seq(Entry), FindMissingDates(r, entries)
    PROVE  \E found \in Seq(Entry), dates \in SUBSET DatesWithinRequestTimeFrame(req[r]) :
               Finds(r, entries, found, dates)
  <1> DEFINE q == req[r]
             P == {i \in DOMAIN entries : InWindow(req[r], entries[i])}
             found == Kept(entries, P)
             dates == DatesMissing(CachedDates(q, found), q)
  <1>1. found \in Seq(Entry) /\ Range(found) = {entries[i] : i \in P}
    BY KeptElements
  <1>2. OfDifferentDates(entries) => OfDifferentDates(found)
    BY KeptElements
  <1>3. Range(found) \subseteq Range(entries)
    BY <1>1 DEF Range
  <1>4. /\ cachedEstimates' = found /\ fetchedEstimates' = fetchedEstimates
        /\ CASE dates # {} ->
                 /\ pc' = [pc EXCEPT ![r] = "fetch"]
                 /\ call' = [call EXCEPT ![r] = [missing |-> dates, pending |-> dates, got |-> {}]]
                 /\ UNCHANGED answer
            [] dates = {} /\ req[r].ignoreCache -> AnswerFrom(r, <<>>, <<>>)
            [] dates = {} /\ ~req[r].ignoreCache -> AnswerFrom(r, found, fetchedEstimates)
    BY DEF FindMissingDates
  <1>5. dates \in SUBSET DatesWithinRequestTimeFrame(req[r])
    BY DEF DatesMissing
  <1>6. ASSUME OfGrouping(entries, q.grp)
        PROVE  /\ \A d \in DatesWithinRequestTimeFrame(q) \ dates : \E e \in Range(found) : e.date = d
               /\ \A e \in Range(found) : e.date \notin dates
    <2>1. \A e \in Range(found) : e \in Entry /\ e.grp = q.grp
      <3>1. found \in Seq(Entry) /\ Range(found) \subseteq Range(entries)
        BY <1>1, <1>3
      <3> HIDE DEF found
      <3>2. \A e \in Range(found) : e \in Entry
        BY <3>1 DEF Range
      <3> QED
        BY <3>1, <3>2, <1>6 DEF OfGrouping
    <2>2. \A e \in Range(found), d \in Dates :
              (Timestamp(e) = (d - 1) * PeriodDays[q.grp] + 1) <=> (e.date = d)
      <3> TAKE e \in Range(found), d \in Dates
      <3>1. e \in Entry /\ e.grp = q.grp
        BY <2>1
      <3>2. (Timestamp(e) = (d - 1) * PeriodDays[e.grp] + 1) <=> (e.date = d)
        BY <3>1, TimestampDated
      <3> QED
        BY <3>1, <3>2
    <2>3. CachedDates(q, found) = {d \in Dates : \E e \in Range(found) : e.date = d}
      <3>1. CachedDates(q, found) =
                {d \in Dates : \E e \in Range(found) :
                    Timestamp(e) = (d - 1) * PeriodDays[q.grp] + 1}
        BY DEF CachedDates, Range
      <3> HIDE DEF found, q
      <3> QED
        BY <3>1, <2>2
    <2>4. \A e \in Range(found) : e.date \in Dates
      BY <2>1 DEF Entry
    <2>5. DatesWithinRequestTimeFrame(q) \subseteq Dates
      BY RequestFields
    <2> HIDE DEF found, q
    <2> QED
      BY <2>3, <2>4, <2>5 DEF DatesMissing
  <1>7. CASE dates # {}
    <2>1. Finds(r, entries, found, dates)
      <3> HIDE DEF found, dates
      <3> QED
        BY <1>2, <1>3, <1>4, <1>6, <1>7 DEF Finds
    <2> QED
      BY <1>1, <1>5, <2>1
  <1>8. CASE dates = {}
    <2> HIDE DEF found, dates
    <2>1. <<>> \in Seq(Entry)
      OBVIOUS
    <2>2. PICK list \in Seq(Entry) :
              /\ pc' = [pc EXCEPT ![r] = "done"]
              /\ call' = [call EXCEPT ![r] = NoCall]
              /\ answer' = [answer EXCEPT ![r] = list]
              /\ ~req[r].ignoreCache =>
                     Range(list) = {e \in Range(found) \cup Range(fetchedEstimates) : e.ver # 0}
      <3>1. CASE req[r].ignoreCache
        BY <2>1, <1>4, <1>8, <3>1, AnswerElements
      <3>2. CASE ~req[r].ignoreCache
        <4>1. found \in Seq(Entry) /\ AnswerFrom(r, found, fetchedEstimates)
          BY <1>1, <1>4, <1>8, <3>2
        <4> QED
          BY <4>1, AnswerElements
      <3> QED
        BY <3>1, <3>2
    <2>3. Finds(r, entries, found, dates)
      BY <1>2, <1>3, <1>4, <1>6, <1>8, <2>2 DEF Finds
    <2> QED
      BY <1>1, <1>5, <2>3
  <1> QED
    BY <1>7, <1>8

\* An entry of a closed date was made from the usage billed for it.
Genuine(billed, e) == e.date \in LateDates \/ e.ver = billed[e.grp][e.date]

\* Entries that hold the usage of some dates, one entry of a date.
HoldsUsageOf(billed, g, dates, got) ==
    /\ got \subseteq Entry
    /\ \A e \in got : e.grp = g /\ e.date \in dates /\ e.ver # 0 /\ Genuine(billed, e)
    /\ \A e, f \in got : e.date = f.date => e = f
    /\ \A d \in dates \ LateDates : billed[g][d] > 0 => \E e \in got : e.date = d

\* What is fetched for further dates joins what was fetched before.
LEMMA FetchedHolds ==
    ASSUME ManagerTypeOK, NEW r \in Requests, req[r] \in RequestSpace,
           NEW before \in SUBSET Dates, NEW run \in SUBSET Dates, before \cap run = {},
           NEW got, HoldsUsageOf(usage, req[r].grp, before, got)
    PROVE  HoldsUsageOf(usage, req[r].grp, before \cup run, got \cup EntriesFetched(r, run))
  <1> DEFINE g == req[r].grp
             more == EntriesFetched(r, run)
  <1>1. g \in Groupings /\ \A d \in Dates : usage[g][d] \in Versions
    BY RequestFields DEF ManagerTypeOK
  <1>2. more \subseteq Entry
    BY DEF EntriesFetched
  <1>3. \A e \in more : e.grp = g /\ e.date \in run /\ e.ver # 0 /\ Genuine(usage, e)
                            /\ e.ver = usage[g][e.date]
    BY DEF EntriesFetched, Genuine
  <1>4. \A e, f \in more : e.date = f.date => e = f
    BY <1>2, <1>3 DEF Entry
  <1>5. \A e \in got : \A f \in more : e.date # f.date
    BY <1>3 DEF HoldsUsageOf
  <1>6. ASSUME NEW d \in run, usage[g][d] > 0
        PROVE  \E e \in more : e.date = d
    <2>1. [grp |-> g, date |-> d, ver |-> usage[g][d]] \in Entry
      BY <1>1 DEF Entry
    <2>2. [grp |-> g, date |-> d, ver |-> usage[g][d]] \in more
      BY <1>1, <1>6, <2>1 DEF EntriesFetched, Versions
    <2> QED
      BY <2>2
  <1> HIDE DEF g, more
  <1>7. HoldsUsageOf(usage, g, before, got)
    BY DEF g
  <1>8. /\ got \cup more \subseteq Entry
        /\ \A e \in got \cup more : e.grp = g /\ e.date \in before \cup run /\ e.ver # 0 /\ Genuine(usage, e)
        /\ \A e, f \in got \cup more : e.date = f.date => e = f
    BY <1>2, <1>3, <1>4, <1>5, <1>7 DEF HoldsUsageOf
  <1>9. \A d \in (before \cup run) \ LateDates : usage[g][d] > 0 => \E e \in got \cup more : e.date = d
    BY <1>6, <1>7 DEF HoldsUsageOf
  <1> QED
    BY <1>8, <1>9 DEF HoldsUsageOf, g, more

\* The entries to persist are one for each missing date.
LEMMA PersistElements ==
    ASSUME ManagerTypeOK, NEW r \in Requests, req[r] \in RequestSpace,
           NEW got, HoldsUsageOf(usage, req[r].grp, call[r].missing, got)
    PROVE  /\ ToPersist(r, got) \in Seq(Entry)
           /\ OfDifferentDates(ToPersist(r, got))
           /\ got \subseteq Range(ToPersist(r, got))
           /\ \A e \in Range(ToPersist(r, got)) :
                 /\ e.grp = req[r].grp /\ e.date \in call[r].missing /\ Genuine(usage, e)
                 /\ e \in got \/ e.ver = 0
           /\ call[r].missing # {} => ToPersist(r, got) # <<>>
           /\ ToPersist(r, got) = ByDate(Range(ToPersist(r, got)))
  <1> DEFINE g == req[r].grp
             dates == call[r].missing
             filled == FillDates(dates, got)
             empty(d) == [grp |-> g, date |-> d, ver |-> 0]
             of(d) == IF filled[d] = {} THEN {empty(d)} ELSE filled[d]
             S == UNION {of(d) : d \in DOMAIN filled}
  <1>1. dates \in SUBSET Dates /\ g \in Groupings /\ \A d \in Dates : usage[g][d] \in Versions
    BY RequestFields DEF ManagerTypeOK
  <1>2. /\ got \subseteq Entry
        /\ \A e \in got : e.grp = g /\ e.date \in dates /\ Genuine(usage, e)
        /\ \A e, f \in got : e.date = f.date => e = f
        /\ \A d \in dates \ LateDates : usage[g][d] > 0 => \E e \in got : e.date = d
    BY DEF HoldsUsageOf
  <1> HIDE DEF g, dates
  <1>3. /\ DOMAIN filled = dates
        /\ \A d \in dates : filled[d] = {f \in got : f.date = d}
    BY <1>2 DEF FillDates
  <1> HIDE DEF filled
  <1>4. \A d \in dates : /\ of(d) # {}
                         /\ \A e \in of(d) : e = empty(d) \/ (e \in got /\ e.date = d)
                         /\ (\E e \in got : e.date = d) => of(d) \subseteq got
    <2> TAKE d \in dates
    <2>1. filled[d] = {f \in got : f.date = d}
      BY <1>3
    <2>2. CASE filled[d] = {}
      <3>1. of(d) = {empty(d)} /\ \A e \in got : e.date # d
        BY <2>1, <2>2
      <3> HIDE DEF of, empty
      <3> QED
        BY <3>1
    <2>3. CASE filled[d] # {}
      <3>1. of(d) = filled[d]
        BY <2>3
      <3> HIDE DEF of, empty
      <3> QED
        BY <2>1, <2>3, <3>1
    <2> QED
      BY <2>2, <2>3
  <1>5. S = UNION {of(d) : d \in dates}
    BY <1>3
  <1>6. \A d \in dates : /\ empty(d) \in Entry
                         /\ (\A e \in got : e.date # d) => Genuine(usage, empty(d))
    <2> TAKE d \in dates
    <2>1. 0 \in Versions /\ d \in Dates
      BY <1>1, ListManagerAssumption DEF Versions
    <2>2. empty(d) \in Entry
      BY <1>1, <2>1 DEF Entry
    <2>3. ASSUME \A e \in got : e.date # d, d \notin LateDates
          PROVE  usage[g][d] = 0
      BY <1>1, <1>2, <2>1, <2>3 DEF Versions
    <2> QED
      BY <2>2, <2>3 DEF Genuine
  <1>7. \A e \in S : e \in Entry /\ e.grp = g /\ e.date \in dates /\ Genuine(usage, e)
    <2> TAKE e \in S
    <2>1. PICK d \in dates : e \in of(d)
      BY <1>5
    <2>2. CASE e \in got
      BY <1>2, <2>2
    <2>3. CASE e = empty(d) /\ e \notin got
      <3>1. \A f \in got : f.date # d
        BY <1>4, <2>1, <2>3
      <3> QED
        BY <1>6, <2>3, <3>1
    <2> QED
      BY <1>4, <2>1, <2>2, <2>3
  <1>8. \A e, f \in S : e.date = f.date => e = f
    <2> SUFFICES ASSUME NEW e \in S, NEW f \in S, e.date = f.date
                 PROVE  e = f
      OBVIOUS
    <2>1. PICK c \in dates : e \in of(c)
      BY <1>5
    <2>2. PICK d \in dates : f \in of(d)
      BY <1>5
    <2>3. e.date = c /\ f.date = d
      BY <1>4, <2>1, <2>2
    <2>4. c = d
      BY <2>3
    <2>5. CASE \E x \in got : x.date = d
      BY <1>2, <1>4, <2>1, <2>2, <2>4, <2>5
    <2>6. CASE \A x \in got : x.date # d
      BY <1>4, <2>1, <2>2, <2>4, <2>6
    <2> QED
      BY <2>5, <2>6
  <1>9. got \subseteq S
    <2> SUFFICES ASSUME NEW e \in got PROVE e \in S
      OBVIOUS
    <2>1. e.date \in dates /\ e \in filled[e.date]
      BY <1>2, <1>3
    <2>2. e \in of(e.date)
      BY <2>1
    <2> QED
      BY <1>5, <2>1, <2>2
  <1>10. dates # {} => S # {}
    BY <1>4, <1>5
  <1>11. ToPersist(r, got) = ByDate(S)
    BY DEF ToPersist, filled, dates, g
  <1>12. \A e \in S : e \in got \/ e.ver = 0
    BY <1>4, <1>5
  <1> HIDE DEF S
  <1>13. /\ ByDate(S) \in Seq(Entry)
         /\ Range(ByDate(S)) = S
         /\ OfDifferentDates(ByDate(S))
    BY <1>7, <1>8, ByDateElements
  <1>14. ByDate(S) = <<>> => S = {}
    BY <1>13 DEF Range
  <1>15. Range(ToPersist(r, got)) = S
    BY <1>11, <1>13
  <1>16. ToPersist(r, got) = ByDate(Range(ToPersist(r, got)))
    BY <1>11, <1>15
  <1> QED
    BY <1>7, <1>9, <1>10, <1>11, <1>13, <1>14, <1>12, <1>15, <1>16 DEF g, dates

\* The usage of a closed date does not change, nor does what holds of it.
LEMMA UsageKept ==
    ASSUME NEW billed, NEW later, NEW g \in Groupings,
           NEW dates \in SUBSET Dates, NEW got \in SUBSET Entry,
           \A h \in Groupings, d \in Dates \ LateDates : later[h][d] = billed[h][d]
    PROVE  /\ \A e \in Entry : Genuine(billed, e) => Genuine(later, e)
           /\ HoldsUsageOf(billed, g, dates, got) => HoldsUsageOf(later, g, dates, got)
  <1>1. \A e \in Entry : Genuine(billed, e) => Genuine(later, e)
    BY DEF Genuine, Entry
  <1>2. HoldsUsageOf(billed, g, dates, got) => HoldsUsageOf(later, g, dates, got)
    BY <1>1 DEF HoldsUsageOf
  <1> QED
    BY <1>1, <1>2

-----------------------------------------------------------------------------
(* The invariant of the requests, in either mode: requests in progress      *)
(* together have overlapped, and what a request has fetched so far is one   *)
(* entry for each date of the sub-requests answered that has usage.         *)

Consistent(r) ==
    /\ call[r].missing \subseteq DatesWithinRequestTimeFrame(req[r])
    /\ call[r].pending \subseteq call[r].missing
    /\ HoldsUsageOf(usage, req[r].grp, call[r].missing \ call[r].pending, call[r].got)

ManagerInv ==
    /\ ManagerTypeOK
    /\ pc = [p \in Requests |-> pc[p]]
    /\ \A p, q \in InFlight : p # q => p \in overlapped
    /\ \A r \in Requests : IF pc[r] = "idle" THEN r \notin overlapped ELSE req[r] \in RequestSpace
    /\ \A r \in Requests : pc[r] = "fetch" => Consistent(r)

LEMMA ManagerInitially == ManagerInit => ManagerInv
  <1> SUFFICES ASSUME ManagerInit PROVE ManagerInv
    OBVIOUS
  <1>1. usage \in [Groupings -> [Dates -> Versions]] /\ crashes \in 0 .. MaxCrashes
    BY ListManagerAssumption DEF ManagerInit
  <1>2. /\ pc = [p \in Requests |-> pc[p]] /\ \A r \in Requests : pc[r] = "idle"
        /\ overlapped = {}
    BY DEF ManagerInit
  <1>3. ManagerTypeOK
    BY <1>1 DEF ManagerInit, ManagerTypeOK, NoCall
  <1> QED
    BY <1>2, <1>3 DEF ManagerInv, InFlight

LEMMA PublishKeeps ==
    ASSUME ManagerInv, NEW g \in Groupings, NEW d \in Dates, PublishUsage(g, d)
    PROVE  /\ ManagerInv'
           /\ \A h \in Groupings, c \in Dates \ LateDates : usage'[h][c] = usage[h][c]
  <1>1. /\ UNCHANGED <<lists, pc, req, call, answer, crashes, overlapped>>
        /\ usage' = [usage EXCEPT ![g][d] = usage[g][d] + 1]
        /\ usage[g][d] < MaxVersion /\ d \in LateDates
    BY DEF PublishUsage
  <1>2. usage \in [Groupings -> [Dates -> Versions]]
    BY DEF ManagerInv, ManagerTypeOK
  <1>3. usage[g][d] + 1 \in Versions
    BY <1>1, <1>2, ListManagerAssumption DEF Versions
  <1>4. usage' \in [Groupings -> [Dates -> Versions]]
    BY <1>1, <1>2, <1>3
  <1>5. \A h \in Groupings, c \in Dates \ LateDates : usage'[h][c] = usage[h][c]
    BY <1>1, <1>2
  <1>6. ManagerTypeOK'
    BY <1>1, <1>4 DEF ManagerInv, ManagerTypeOK, lists
  <1>7. ASSUME NEW r \in Requests, pc[r] = "fetch"
        PROVE  Consistent(r)'
    <2>1. Consistent(r) /\ req[r] \in RequestSpace /\ req[r].grp \in Groupings
      BY <1>7, RequestFields DEF ManagerInv
    <2>2. call[r].missing \ call[r].pending \in SUBSET Dates /\ call[r].got \in SUBSET Entry
      BY DEF ManagerInv, ManagerTypeOK
    <2>3. HoldsUsageOf(usage', req[r].grp, call[r].missing \ call[r].pending, call[r].got)
      <3>1. HoldsUsageOf(usage, req[r].grp, call[r].missing \ call[r].pending, call[r].got)
        BY <2>1 DEF Consistent
      <3> QED
        BY <1>5, <2>1, <2>2, <3>1, UsageKept
    <2> QED
      BY <1>1, <2>1, <2>3 DEF Consistent
  <1> QED
    BY <1>1, <1>5, <1>6, <1>7 DEF ManagerInv, InFlight

LEMMA AdmitKeeps ==
    ASSUME ManagerInv, NEW r \in Requests, NEW q \in RequestSpace,
           NEW phase, phase \notin {"idle", "fetch"}, Admit(r, q, phase)
    PROVE  /\ ManagerInv'
           /\ \A p \in overlapped : req'[p] = req[p]
           /\ \A p \in Requests : p # r => req'[p] = req[p] /\ pc'[p] = pc[p]
  <1>1. /\ pc[r] = "idle" /\ req' = [req EXCEPT ![r] = q] /\ pc' = [pc EXCEPT ![r] = phase]
        /\ overlapped' = IF InFlight = {} THEN overlapped ELSE overlapped \cup InFlight \cup {r}
        /\ UNCHANGED <<usage, lists, call, answer, crashes>>
    BY DEF Admit
  <1>2. /\ req \in [Requests -> RequestSpace \cup {NoRequest}] /\ pc = [p \in Requests |-> pc[p]]
        /\ overlapped \subseteq Requests /\ r \notin overlapped
    BY <1>1 DEF ManagerInv, ManagerTypeOK
  <1>3. /\ \A p \in Requests : p # r => req'[p] = req[p] /\ pc'[p] = pc[p]
        /\ pc'[r] = phase /\ req'[r] = q
        /\ pc' = [p \in Requests |-> pc'[p]] /\ req' \in [Requests -> RequestSpace \cup {NoRequest}]
    BY <1>1, <1>2
  <1>4. InFlight \subseteq Requests /\ InFlight' \subseteq InFlight \cup {r}
    BY <1>3 DEF InFlight
  <1>5. ManagerTypeOK'
    BY <1>1, <1>3, <1>4 DEF ManagerInv, ManagerTypeOK, lists
  <1>6. \A p, o \in InFlight' : p # o => p \in overlapped'
    BY <1>1, <1>4 DEF ManagerInv
  <1>7. \A p \in Requests : IF pc'[p] = "idle" THEN p \notin overlapped' ELSE req'[p] \in RequestSpace
    BY <1>1, <1>3 DEF ManagerInv, InFlight
  <1>8. \A p \in Requests : pc'[p] = "fetch" => Consistent(p)'
    BY <1>1, <1>3 DEF ManagerInv, Consistent
  <1> QED
    BY <1>2, <1>3, <1>5, <1>6, <1>7, <1>8 DEF ManagerInv

LEMMA LoseMemoryKeeps ==
    ASSUME ManagerInv, LoseMemory
    PROVE  /\ ManagerInv'
           /\ InFlight' = {} /\ \A r \in Requests : pc'[r] \in {pc[r], "failed"}
  <1>1. /\ crashes < MaxCrashes /\ crashes' = crashes + 1
        /\ cachedEstimates' = <<>> /\ fetchedEstimates' = <<>>
        /\ pc' = [r \in Requests |-> IF r \in InFlight THEN "failed" ELSE pc[r]]
        /\ call' = [r \in Requests |-> NoCall]
        /\ UNCHANGED <<usage, req, answer, overlapped>>
    BY DEF LoseMemory
  <1>2. /\ pc' = [p \in Requests |-> pc'[p]]
        /\ \A r \in Requests : pc'[r] \in {pc[r], "failed"} /\ pc'[r] \in {"idle", "done", "failed"}
    <2>2. \A r \in Requests : r \in InFlight <=> pc[r] \notin {"idle", "done", "failed"}
      BY DEF InFlight
    <2>3. \A r \in Requests : pc'[r] = IF r \in InFlight THEN "failed" ELSE pc[r]
      BY <1>1
    <2>4. \A r \in Requests : pc'[r] \in {pc[r], "failed"} /\ pc'[r] \in {"idle", "done", "failed"}
      BY <2>2, <2>3
    <2> QED
      BY <1>1, <2>4
  <1>3. ManagerTypeOK'
    BY <1>1, ListManagerAssumption DEF ManagerInv, ManagerTypeOK, NoCall
  <1>4. InFlight' = {}
    BY <1>2 DEF InFlight
  <1>5. \A r \in Requests : IF pc'[r] = "idle" THEN r \notin overlapped' ELSE req'[r] \in RequestSpace
    BY <1>1, <1>2 DEF ManagerInv, InFlight
  <1> QED
    BY <1>2, <1>3, <1>4, <1>5 DEF ManagerInv

\* What the requests have: who waits for what, what they fetch and what they were answered.
RequestsTyped ==
    /\ pc = [p \in Requests |-> pc[p]]
    /\ call \in [Requests -> [missing: SUBSET Dates, pending: SUBSET Dates, got: SUBSET Entry]]
    /\ answer \in [Requests -> Seq(Entry)]

\* A request in progress goes on, and the others stay where they are.
LEMMA MoveKeeps ==
    ASSUME ManagerInv, NEW r \in InFlight,
           UNCHANGED <<usage, req, crashes, overlapped>>,
           cachedEstimates' \in Seq(Entry), fetchedEstimates' \in Seq(Entry), RequestsTyped',
           \A p \in Requests : p # r => pc'[p] = pc[p] /\ call'[p] = call[p],
           pc'[r] # "idle", pc'[r] = "fetch" => Consistent(r)'
    PROVE  ManagerInv'
  <1>1. ManagerTypeOK'
    BY DEF ManagerInv, ManagerTypeOK, RequestsTyped
  <1>2. InFlight' \subseteq InFlight
    BY DEF InFlight
  <1>3. \A p \in Requests : IF pc'[p] = "idle" THEN p \notin overlapped' ELSE req'[p] \in RequestSpace
    BY DEF ManagerInv, InFlight
  <1>4. \A p \in Requests : pc'[p] = "fetch" => Consistent(p)'
    BY DEF ManagerInv, Consistent
  <1> QED
    BY <1>1, <1>2, <1>3, <1>4 DEF ManagerInv, RequestsTyped

\* The request ends, answered or rejected.
LEMMA EndKeeps ==
    ASSUME ManagerInv, NEW r \in InFlight,
           UNCHANGED <<usage, req, crashes, overlapped>>,
           cachedEstimates' \in Seq(Entry), fetchedEstimates' \in Seq(Entry),
           pc' = [pc EXCEPT ![r] = "done"] \/ pc' = [pc EXCEPT ![r] = "failed"],
           call' = [call EXCEPT ![r] = NoCall], answer' \in [Requests -> Seq(Entry)]
    PROVE  ManagerInv'
  <1>1. r \in Requests /\ pc = [p \in Requests |-> pc[p]]
    BY DEF InFlight, ManagerInv
  <1>2. /\ pc' = [p \in Requests |-> pc'[p]] /\ pc'[r] \in {"done", "failed"}
        /\ \A p \in Requests : p # r => pc'[p] = pc[p]
    BY <1>1
  <1>3. /\ call' \in [Requests -> [missing: SUBSET Dates, pending: SUBSET Dates, got: SUBSET Entry]]
        /\ \A p \in Requests : p # r => call'[p] = call[p]
    BY <1>1 DEF ManagerInv, ManagerTypeOK, NoCall
  <1> QED
    BY <1>2, <1>3, MoveKeeps DEF RequestsTyped

LEMMA InFlightAsks ==
    ASSUME ManagerInv, NEW r \in InFlight
    PROVE  /\ r \in Requests /\ req[r] \in RequestSpace /\ req[r].grp \in Groupings
           /\ DatesWithinRequestTimeFrame(req[r]) \subseteq Dates
           /\ cachedEstimates \in Seq(Entry) /\ fetchedEstimates \in Seq(Entry)
           /\ call[r] \in [missing: SUBSET Dates, pending: SUBSET Dates, got: SUBSET Entry]
           /\ RequestsTyped
  <1>1. r \in Requests /\ req[r] \in RequestSpace
    BY DEF ManagerInv, InFlight
  <1> QED
    BY <1>1, RequestFields DEF ManagerInv, ManagerTypeOK, RequestsTyped

LEMMA AnswerKeeps ==
    ASSUME ManagerInv, NEW r \in InFlight, NEW cached \in Seq(Entry), NEW fetched \in Seq(Entry),
           AnswerFrom(r, cached, fetched), UNCHANGED <<usage, req, crashes, overlapped>>,
           cachedEstimates' \in Seq(Entry), fetchedEstimates' \in Seq(Entry)
    PROVE  ManagerInv'
  <1>1. r \in Requests
    BY DEF InFlight
  <1>2. PICK list \in Seq(Entry) :
            /\ answer' = [answer EXCEPT ![r] = list]
            /\ pc' = [pc EXCEPT ![r] = "done"]
            /\ call' = [call EXCEPT ![r] = NoCall]
    BY <1>1, AnswerElements
  <1>3. answer' \in [Requests -> Seq(Entry)]
    BY <1>1, <1>2 DEF ManagerInv, ManagerTypeOK
  <1> QED
    BY <1>2, <1>3, EndKeeps

LEMMA RejectKeeps ==
    ASSUME ManagerInv, NEW r \in InFlight, Reject(r)
    PROVE  ManagerInv'
  <1>1. /\ pc' = [pc EXCEPT ![r] = "failed"] /\ call' = [call EXCEPT ![r] = NoCall]
        /\ UNCHANGED <<usage, cachedEstimates, fetchedEstimates, req, answer, crashes, overlapped>>
    BY DEF Reject, lists
  <1>2. /\ cachedEstimates \in Seq(Entry) /\ fetchedEstimates \in Seq(Entry)
        /\ answer \in [Requests -> Seq(Entry)]
    BY DEF ManagerInv, ManagerTypeOK
  <1> QED
    BY <1>1, <1>2, EndKeeps

LEMMA FindKeeps ==
    ASSUME ManagerInv, NEW r \in InFlight, NEW entries \in Seq(Entry),
           FindMissingDates(r, entries), UNCHANGED <<usage, req, crashes, overlapped>>
    PROVE  ManagerInv'
  <1>1. /\ r \in Requests /\ req[r] \in RequestSpace
        /\ DatesWithinRequestTimeFrame(req[r]) \subseteq Dates
        /\ fetchedEstimates \in Seq(Entry) /\ RequestsTyped
    BY InFlightAsks
  <1>2. PICK found \in Seq(Entry), dates \in SUBSET DatesWithinRequestTimeFrame(req[r]) :
            Finds(r, entries, found, dates)
    BY <1>1, FoundElements
  <1>3. cachedEstimates' = found /\ fetchedEstimates' = fetchedEstimates
    BY <1>2 DEF Finds
  <1>4. CASE /\ pc' = [pc EXCEPT ![r] = "fetch"]
             /\ call' = [call EXCEPT ![r] = [missing |-> dates, pending |-> dates, got |-> {}]]
             /\ answer' = answer
    <2> DEFINE made == [missing |-> dates, pending |-> dates, got |-> {}]
    <2>1. made \in [missing: SUBSET Dates, pending: SUBSET Dates, got: SUBSET Entry]
      BY <1>1
    <2>2. /\ call'[r] = made /\ pc'[r] = "fetch" /\ RequestsTyped'
          /\ \A p \in Requests : p # r => pc'[p] = pc[p] /\ call'[p] = call[p]
      <3> HIDE DEF made
      <3> QED
        BY <1>1, <1>4, <2>1 DEF RequestsTyped, made
    <2>3. HoldsUsageOf(usage, req[r].grp, {}, {})
      BY DEF HoldsUsageOf
    <2>4. HoldsUsageOf(usage, req[r].grp, made.missing \ made.pending, made.got)
      <3>1. made.missing \ made.pending = {} /\ made.got = {}
        OBVIOUS
      <3> QED
        BY <2>3, <3>1
    <2>5. made.missing \subseteq DatesWithinRequestTimeFrame(req[r]) /\ made.pending = made.missing
      OBVIOUS
    <2> HIDE DEF made
    <2>6. Consistent(r)'
      BY <2>2, <2>4, <2>5 DEF Consistent
    <2> QED
      BY <1>1, <1>3, <2>2, <2>6, MoveKeeps
  <1>5. CASE \E list \in Seq(Entry) :
                /\ pc' = [pc EXCEPT ![r] = "done"]
                /\ call' = [call EXCEPT ![r] = NoCall]
                /\ answer' = [answer EXCEPT ![r] = list]
    <2>1. answer' \in [Requests -> Seq(Entry)]
      BY <1>1, <1>5 DEF RequestsTyped
    <2> QED
      BY <1>1, <1>3, <1>5, <2>1, EndKeeps
  <1> QED
    BY <1>2, <1>4, <1>5 DEF Finds

LEMMA FetchSomeKeeps ==
    ASSUME ManagerInv, NEW r \in Requests, NEW run \in SUBSET Dates, FetchSome(r, run)
    PROVE  ManagerInv'
  <1>1. /\ pc[r] = "fetch"
        /\ call' = [call EXCEPT ![r].pending = @ \ run,
                                ![r].got = @ \cup EntriesFetched(r, run)]
        /\ UNCHANGED <<usage, cachedEstimates, fetchedEstimates, pc, req, answer, crashes, overlapped>>
        /\ run \subseteq call[r].pending
    BY DEF FetchSome, lists, MissingDataRequests
  <1>2. r \in InFlight /\ Consistent(r)
    BY <1>1 DEF ManagerInv, InFlight
  <1>3. /\ req[r] \in RequestSpace /\ cachedEstimates \in Seq(Entry) /\ fetchedEstimates \in Seq(Entry)
        /\ call[r] \in [missing: SUBSET Dates, pending: SUBSET Dates, got: SUBSET Entry]
        /\ RequestsTyped
    BY <1>2, InFlightAsks
  <1> DEFINE c == call[r]
             made == [missing |-> c.missing, pending |-> c.pending \ run,
                      got |-> c.got \cup EntriesFetched(r, run)]
  <1>4. EntriesFetched(r, run) \subseteq Entry
    BY DEF EntriesFetched
  <1>5. made \in [missing: SUBSET Dates, pending: SUBSET Dates, got: SUBSET Entry]
    BY <1>3, <1>4
  <1>6. /\ call'[r] = made /\ pc'[r] = "fetch" /\ RequestsTyped'
        /\ \A p \in Requests : p # r => pc'[p] = pc[p] /\ call'[p] = call[p]
    <2>1. /\ call'[r] = [call[r] EXCEPT !.pending = call[r].pending \ run,
                                       !.got = call[r].got \cup EntriesFetched(r, run)]
          /\ DOMAIN call' = Requests
          /\ \A p \in Requests : p # r => pc'[p] = pc[p] /\ call'[p] = call[p]
      BY <1>1, <1>3 DEF RequestsTyped
    <2>2. call'[r] = made
      BY <1>3, <2>1
    <2>3. call' = [p \in Requests |-> IF p = r THEN made ELSE call[p]]
      BY <1>1, <2>1, <2>2, <1>3 DEF RequestsTyped
    <2> HIDE DEF made
    <2> QED
      BY <1>1, <1>3, <1>5, <2>1, <2>2, <2>3 DEF RequestsTyped
  <1>7. c.missing \ (c.pending \ run) = (c.missing \ c.pending) \cup run
    BY <1>1, <1>2 DEF Consistent
  <1>8. HoldsUsageOf(usage, req[r].grp, (c.missing \ c.pending) \cup run,
                     c.got \cup EntriesFetched(r, run))
    <2>1. /\ HoldsUsageOf(usage, req[r].grp, c.missing \ c.pending, c.got)
          /\ c.missing \ c.pending \in SUBSET Dates
          /\ (c.missing \ c.pending) \cap run = {}
      BY <1>1, <1>2, <1>3 DEF Consistent
    <2>2. ManagerTypeOK
      BY DEF ManagerInv
    <2> HIDE DEF c
    <2> QED
      BY <1>3, <2>1, <2>2, FetchedHolds
  <1>9. HoldsUsageOf(usage, req[r].grp, made.missing \ made.pending, made.got)
    BY <1>7, <1>8
  <1>10. made.missing \subseteq DatesWithinRequestTimeFrame(req[r]) /\ made.pending \subseteq made.missing
    BY <1>2 DEF Consistent
  <1> HIDE DEF made
  <1>11. Consistent(r)'
    BY <1>1, <1>6, <1>9, <1>10 DEF Consistent
  <1> QED
    BY <1>1, <1>2, <1>3, <1>6, <1>11, MoveKeeps

\* When the last sub-request answers, there is the usage of all missing dates.
LEMMA AllFetchedHolds ==
    ASSUME ManagerInv, NEW r \in Requests, LastFetch(r)
    PROVE  /\ r \in InFlight /\ Consistent(r)
           /\ HoldsUsageOf(usage, req[r].grp, call[r].missing, AllFetched(r))
  <1>1. r \in InFlight /\ Consistent(r)
    BY DEF ManagerInv, InFlight, LastFetch
  <1>2. /\ req[r] \in RequestSpace /\ ManagerTypeOK
        /\ call[r] \in [missing: SUBSET Dates, pending: SUBSET Dates, got: SUBSET Entry]
    BY <1>1, InFlightAsks DEF ManagerInv
  <1> DEFINE m == call[r].missing  p == call[r].pending
  <1>3. /\ m \ p \in SUBSET Dates /\ p \in SUBSET Dates /\ (m \ p) \cap p = {}
        /\ HoldsUsageOf(usage, req[r].grp, m \ p, call[r].got)
        /\ (m \ p) \cup p = m
    BY <1>1, <1>2 DEF Consistent
  <1> HIDE DEF m, p
  <1>4. HoldsUsageOf(usage, req[r].grp, (m \ p) \cup p, call[r].got \cup EntriesFetched(r, p))
    BY <1>2, <1>3, FetchedHolds
  <1> QED
    BY <1>1, <1>3, <1>4 DEF AllFetched, m, p

LEMMA FetchUnstoredKeeps ==
    ASSUME ManagerInv, NEW r \in Requests, FetchUnstored(r)
    PROVE  ManagerInv'
  <1>1. /\ LastFetch(r) /\ AnswerUnstored(r, AllFetched(r))
        /\ UNCHANGED <<usage, req, crashes, overlapped, cachedEstimates, fetchedEstimates>>
    BY DEF FetchUnstored, AnswerUnstored, lists
  <1>2. r \in InFlight /\ HoldsUsageOf(usage, req[r].grp, call[r].missing, AllFetched(r))
    BY <1>1, AllFetchedHolds
  <1>3. /\ cachedEstimates \in Seq(Entry) /\ fetchedEstimates \in Seq(Entry) /\ <<>> \in Seq(Entry)
        /\ ByDate(AllFetched(r)) \in Seq(Entry)
    BY <1>2, InFlightAsks, ByDateElements DEF HoldsUsageOf
  <1>4. CASE AnswerFrom(r, <<>>, ByDate(AllFetched(r)))
    BY <1>1, <1>2, <1>3, <1>4, AnswerKeeps
  <1>5. CASE AnswerFrom(r, cachedEstimates, fetchedEstimates)
    BY <1>1, <1>2, <1>3, <1>5, AnswerKeeps
  <1> QED
    BY <1>1, <1>4, <1>5 DEF AnswerUnstored

\* Requests that overlapped keep their parameters, so that one grouping of them was one before.
LEMMA GroupingStays ==
    ASSUME overlapped \subseteq overlapped', \A p \in overlapped : req'[p] = req[p]
    PROVE  OneGroupingOverlapped' => OneGroupingOverlapped
  BY DEF OneGroupingOverlapped

LEMMA InFlightTogether ==
    ASSUME ManagerInv, NEW p \in InFlight, NEW q \in InFlight
    PROVE  /\ OneGroupingOverlapped => req[p].grp = req[q].grp
           /\ p \notin overlapped => p = q
  BY DEF ManagerInv, OneGroupingOverlapped

LEMMA EmptyList == Range(<<>>) = {} /\ OfDifferentDates(<<>>) /\ \A g : OfGrouping(<<>>, g)
  BY DEF Range, OfDifferentDates, OfGrouping

\* What an answer covers, said of the entries it holds.
LEMMA CompleteEntries ==
    ASSUME NEW r
    PROVE  Complete(r) <=>
              \A d \in DatesWithinRequestTimeFrame(req[r]) \ LateDates :
                  usage[req[r].grp][d] > 0 =>
                      \E e \in Range(answer[r]) : e.grp = req[r].grp /\ e.date = d
  BY DEF Complete, AnswersDate, Range
================================================================================
