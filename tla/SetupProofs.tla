---------------------------- MODULE SetupProofs ----------------------------
(***************************************************************************)
(* Theorems about what sets organizations up.                              *)
(*                                                                         *)
(* Schedule, for any length of a day, dates, clock changes, resources,     *)
(* members, lists of intervals, settings and service: what is shown is     *)
(* what was saved, what is offered is free, and the next free date is the  *)
(* first.  The invariant relates the rows of every key to what the last    *)
(* save of it answered: a list in order, which the rows of the key give    *)
(* back.  On lists in order the walks of module Slots do what their names  *)
(* say.  The recursive functions there are shown to exist, with a set in   *)
(* the place of the induction hypothesis.                                  *)
(*                                                                         *)
(* Onboarding, for any users, administrators, requests, slugs, names and   *)
(* number of operations at a time: every operation decides on what it has  *)
(* read under a lock: an applicant without a pending request, a request    *)
(* that is pending, a slug that is free.  The invariant says that the      *)
(* locks keep apart and that what was read under one stays true while it   *)
(* is held, since only its holder writes what it covers.                   *)
(*                                                                         *)
(* Paging (instance Listing), for any ids, filters and size of a page: a   *)
(* row keeps its time, so what a load has read stays in order, whatever    *)
(* comes and goes behind and between its cursors.                          *)
(*                                                                         *)
(* Slug (instance Naming), for names of any length: collapsing, cutting    *)
(* and slicing leave what the database accepts, and a number behind the    *)
(* last dash tells the candidates apart.                                   *)
(***************************************************************************)
EXTENDS Onboarding, Schedule, SequenceTheorems, FiniteSetTheorems, TLAPS

-----------------------------------------------------------------------------
(* Lists of intervals.                                                     *)

\* Every set of numbers that is not empty has a least one.
LEMMA Least ==
    ASSUME NEW T, T \subseteq Nat, T # {}
    PROVE  \E n \in T : \A m \in T : n <= m
  <1>1. PICK n \in T : \A m \in T : ~(<<m, n>> \in OpToRel(<, Nat))
    BY NatLessThanWellFounded, WFMin
  <1>2. \A m \in T : ~(m < n)
    BY <1>1 DEF OpToRel
  <1> QED
    BY <1>2


\* What holds at 0 and of every number after one it holds of holds up to N.
LEMMA Climbs ==
    ASSUME NEW N \in Nat, NEW G, 0 \in G, \A d \in 1..N : d - 1 \in G => d \in G
    PROVE  0..N \subseteq G
  <1> DEFINE T == {d \in 0..N : d \notin G}
  <1> SUFFICES ASSUME T # {}
               PROVE  FALSE
    OBVIOUS
  <1>0. T \subseteq Nat
    OBVIOUS
  <1>1. PICK n \in T : \A m \in T : n <= m
    <2> HIDE DEF T
    <2> QED
      BY <1>0, Least
  <1>2. n \in 1..N
    BY <1>1
  <1>3. n - 1 \in 0..N /\ ~(n <= n - 1)
    BY <1>2
  <1>4. n - 1 \in G
    BY <1>1, <1>3
  <1> QED
    BY <1>1, <1>2, <1>4

\* f takes each value to the next.
Takes(f, N, a, step) == f[0] = a /\ \A d \in 1..N : f[d] = step[d][f[d - 1]]

\* A value for 0 and a step from each value to the next make a function.
LEMMA Recursion ==
    ASSUME NEW N \in Nat, NEW V, NEW a \in V, NEW step \in [1..N -> [V -> V]]
    PROVE  \E f \in [0..N -> V] : Takes(f, N, a, step)
  <1> DEFINE Makes(f, n) == f[0] = a /\ \A d \in 1..n : f[d] = step[d][f[d - 1]]
             Made(n) == \E f \in [0..n -> V] : Makes(f, n)
             G == {n \in 0..N : Made(n)}
  <1>1. Made(0)
    <2>1. [d \in 0..0 |-> a] \in [0..0 -> V] /\ Makes([d \in 0..0 |-> a], 0)
      OBVIOUS
    <2> QED
      BY <2>1
  <1>2. ASSUME NEW n \in 1..N, Made(n - 1)
        PROVE  Made(n)
    <2>1. PICK f \in [0..n - 1 -> V] : Makes(f, n - 1)
      BY <1>2
    <2> DEFINE g == [d \in 0..n |-> IF d = n THEN step[n][f[n - 1]] ELSE f[d]]
    <2>2. g \in [0..n -> V]
      OBVIOUS
    <2>3. Makes(g, n)
      <3>1. g[0] = a
        BY <2>1
      <3>2. ASSUME NEW d \in 1..n
            PROVE  g[d] = step[d][g[d - 1]]
        <4>1. d - 1 \in 0..n /\ d - 1 # n /\ g[d - 1] = f[d - 1]
          OBVIOUS
        <4>2. CASE d = n
          BY <4>1, <4>2
        <4>3. CASE d # n
          <5>1. d \in 1..n - 1 /\ g[d] = f[d]
            BY <4>3
          <5> QED
            BY <2>1, <4>1, <5>1
        <4> QED
          BY <4>2, <4>3
      <3> QED
        BY <3>1, <3>2
    <2> HIDE DEF g, Makes
    <2> QED
      BY <2>2, <2>3
  <1> HIDE DEF Made
  <1>3. 0 \in G /\ \A d \in 1..N : d - 1 \in G => d \in G
    BY <1>1, <1>2
  <1> HIDE DEF G
  <1>4. 0..N \subseteq G
    BY <1>3, Climbs
  <1>5. Made(N)
    BY <1>4 DEF G
  <1>6. PICK f \in [0..N -> V] : Makes(f, N)
    BY <1>5 DEF Made
  <1> QED
    BY <1>6 DEF Takes

Spans == {i \in Bounds : i.from < i.until}

\* Intervals that follow each other, and what they are cut out of.
Lined(list) == \A m, n \in DOMAIN list : m < n => list[m].until <= list[n].from
Entries(list) == {list[n] : n \in DOMAIN list}
NoOverlaps(S) == \A g, h \in S : g # h => ~Overlap(g, h)

\* Neighbours that follow each other are enough.
LEMMA NeighboursAreEnough ==
    ASSUME NEW list \in Seq(Spans),
           \A n \in 1..Len(list) - 1 : list[n].until <= list[n + 1].from
    PROVE  Lined(list)
  <1> SUFFICES ASSUME NEW m \in DOMAIN list, NEW k \in DOMAIN list, m < k, ~(list[m].until <= list[k].from)
               PROVE  FALSE
    BY DEF Lined
  <1> DEFINE T == {n \in 1..Len(list) : m < n /\ ~(list[m].until <= list[n].from)}
  <1>1. T \subseteq Nat /\ k \in T
    OBVIOUS
  <1>2. PICK n \in T : \A j \in T : n <= j
    BY <1>1, Least
  <1>3. n \in 1..Len(list) /\ m < n /\ ~(list[m].until <= list[n].from) /\ m \in 1..Len(list)
    BY <1>2
  <1>4. \A i \in 1..Len(list) : list[i].from \in Int /\ list[i].until \in Int /\ list[i].from < list[i].until
    BY DEF Spans, Bounds
  <1>5. n - 1 # m
    BY <1>3
  <1>6. n - 1 \in 1..Len(list) /\ m < n - 1 /\ n - 1 \in 1..Len(list) - 1 /\ (n - 1) + 1 = n
    BY <1>3, <1>5
  <1>7. n - 1 \notin T
    BY <1>2, <1>6
  <1>8. list[m].until <= list[n - 1].from
    BY <1>6, <1>7
  <1>9. list[n - 1].until <= list[n].from
    BY <1>6
  <1> HIDE DEF T
  <1> QED
    BY <1>3, <1>4, <1>6, <1>8, <1>9

\* As many come before an interval of a list in order as its place says.
LEMMA PlacesInOrder ==
    ASSUME NEW list \in Seq(Spans), Lined(list)
    PROVE  /\ \A m, n \in DOMAIN list : Before(list[m], list[n]) <=> m < n
           /\ \A m, n \in DOMAIN list : list[m] = list[n] => m = n
           /\ IsFiniteSet(Entries(list)) /\ Cardinality(Entries(list)) = Len(list)
           /\ \A n \in DOMAIN list : Cardinality({g \in Entries(list) : Before(g, list[n])}) = n - 1
  <1>1. DOMAIN list = 1..Len(list) /\ Len(list) \in Nat
    OBVIOUS
  <1>2. \A i \in 1..Len(list) : list[i].from \in Int /\ list[i].until \in Int /\ list[i].from < list[i].until
    BY DEF Spans, Bounds
  <1>3. \A m, n \in 1..Len(list) : m < n => list[m].from < list[n].from
    BY <1>1, <1>2 DEF Lined
  <1>4. \A m, n \in 1..Len(list) : Before(list[m], list[n]) <=> m < n
    BY <1>2, <1>3 DEF Before
  <1>5. \A m, n \in 1..Len(list) : list[m] = list[n] => m = n
    BY <1>2, <1>3
  <1>6. ASSUME NEW k \in 0..Len(list)
        PROVE  /\ IsFiniteSet({list[n] : n \in 1..k})
               /\ Cardinality({list[n] : n \in 1..k}) = k
    <2> DEFINE f == [n \in 1..k |-> list[n]]
               S == {list[n] : n \in 1..k}
    <2>1. f \in [1..k -> S]
      OBVIOUS
    <2>2. IsInjective(f)
      BY <1>5 DEF IsInjective
    <2>3. \A t \in S : \E n \in 1..k : f[n] = t
      OBVIOUS
    <2>4. ExistsBijection(1..k, S)
      BY <2>1, <2>2, <2>3 DEF ExistsBijection, Bijection, Injection, Surjection
    <2>5. IsFiniteSet(1..k) /\ Cardinality(1..k) = k
      BY FS_Interval
    <2> HIDE DEF f, S
    <2>6. IsFiniteSet(S) /\ Cardinality(S) = k
      BY <2>4, <2>5, FS_Bijection
    <2> QED
      BY <2>6 DEF S
  <1>7. Entries(list) = {list[n] : n \in 1..Len(list)}
    BY <1>1 DEF Entries
  <1>8. ASSUME NEW n \in 1..Len(list)
        PROVE  Cardinality({g \in Entries(list) : Before(g, list[n])}) = n - 1
    <2>1. {g \in Entries(list) : Before(g, list[n])} = {list[m] : m \in 1..n - 1}
      BY <1>4, <1>7, <1>1
    <2>2. n - 1 \in 0..Len(list)
      OBVIOUS
    <2> QED
      BY <1>6, <2>1, <2>2
  <1>9. IsFiniteSet(Entries(list)) /\ Cardinality(Entries(list)) = Len(list)
    <2>1. Len(list) \in 0..Len(list)
      BY <1>1
    <2> QED
      BY <2>1, <1>6, <1>7
  <1>10. \A n \in 1..Len(list) : Cardinality({g \in Entries(list) : Before(g, list[n])}) = n - 1
    BY <1>8
  <1> QED
    BY <1>1, <1>4, <1>5, <1>9, <1>10

\* The intervals of a list in order are in order already.
LEMMA InOrderStays ==
    ASSUME NEW list \in Seq(Spans), Lined(list)
    PROVE  InOrder(Entries(list)) = list
  <1>1. DOMAIN list = 1..Len(list) /\ Len(list) \in Nat /\ list = [n \in 1..Len(list) |-> list[n]]
    OBVIOUS
  <1>2. ASSUME NEW n \in 1..Len(list)
        PROVE  list[n] = CHOOSE h \in Entries(list) :
                   Cardinality({g \in Entries(list) : Before(g, h)}) = n - 1
    <2>1. list[n] \in Entries(list)
      BY <1>1 DEF Entries
    <2>2. Cardinality({g \in Entries(list) : Before(g, list[n])}) = n - 1
      BY <1>1, PlacesInOrder
    <2>3. ASSUME NEW h \in Entries(list), Cardinality({g \in Entries(list) : Before(g, h)}) = n - 1
          PROVE  h = list[n]
      <3>1. PICK m \in 1..Len(list) : h = list[m]
        BY <1>1 DEF Entries
      <3>2. Cardinality({g \in Entries(list) : Before(g, list[m])}) = m - 1
        BY <1>1, PlacesInOrder
      <3>3. m = n
        BY <2>3, <3>1, <3>2
      <3> QED
        BY <3>1, <3>3
    <2> QED
      BY <2>1, <2>2, <2>3
  <1>3. Cardinality(Entries(list)) = Len(list)
    BY PlacesInOrder
  <1>4. InOrder(Entries(list)) =
            [n \in 1..Len(list) |-> CHOOSE h \in Entries(list) :
                Cardinality({g \in Entries(list) : Before(g, h)}) = n - 1]
    BY <1>3 DEF InOrder
  <1> QED
    BY <1>1, <1>2, <1>4

\* A list in order is sorted already.
LEMMA SortedStays ==
    ASSUME NEW list \in Seq(Spans), Lined(list)
    PROVE  Sorted(list) = list
  <1>1. DOMAIN list = 1..Len(list) /\ Len(list) \in Nat /\ list = [n \in 1..Len(list) |-> list[n]]
    OBVIOUS
  <1>2. ASSUME NEW i \in 1..Len(list)
        PROVE  Cardinality(Ahead(list, i)) = i - 1
    <2>1. Ahead(list, i) = 1..i - 1
      BY <1>1, PlacesInOrder DEF Ahead
    <2> QED
      BY <2>1, FS_Interval
  <1>3. ASSUME NEW n \in 1..Len(list)
        PROVE  n = CHOOSE i \in 1..Len(list) : Cardinality(Ahead(list, i)) = n - 1
    BY <1>2
  <1>4. Sorted(list) =
            [n \in 1..Len(list) |->
                list[CHOOSE i \in 1..Len(list) : Cardinality(Ahead(list, i)) = n - 1]]
    BY <1>1 DEF Sorted
  <1> QED
    BY <1>1, <1>3, <1>4

\* As many places as elements, each for one: every element has a place and
\* every place an element.
LEMMA Ranked ==
    ASSUME NEW S, IsFiniteSet(S), NEW rank \in [S -> 0..Cardinality(S) - 1], IsInjective(rank)
    PROVE  \A n \in 0..Cardinality(S) - 1 : \E h \in S : rank[h] = n
  <1>1. Cardinality(S) \in Nat
    BY FS_CardinalityType
  <1>2. IsFiniteSet(0..Cardinality(S) - 1) /\ Cardinality(0..Cardinality(S) - 1) = Cardinality(S)
    BY <1>1, FS_Interval
  <1>3. rank \in Injection(S, 0..Cardinality(S) - 1)
    BY DEF Injection
  <1>4. rank \in Surjection(S, 0..Cardinality(S) - 1)
    BY <1>2, <1>3, FS_Injection
  <1> QED
    BY <1>4 DEF Surjection

\* Intervals that do not overlap are put in order.
LEMMA OrderExists ==
    ASSUME NEW S \in SUBSET Spans, IsFiniteSet(S), NoOverlaps(S)
    PROVE  /\ InOrder(S) \in Seq(Spans) /\ Lined(InOrder(S))
           /\ Entries(InOrder(S)) = S
  <1> DEFINE before(h) == {g \in S : Before(g, h)}
             rank == [h \in S |-> Cardinality(before(h))]
             list == InOrder(S)
             size == Cardinality(S)
  <1>1. \A h \in S : h.from \in Int /\ h.until \in Int /\ h.from < h.until
    BY DEF Spans, Bounds
  <1>2. \A g, h \in S : g # h => Before(g, h) \/ Before(h, g)
    BY <1>1 DEF Before, NoOverlaps, Overlap
  <1>3. size \in Nat
    BY FS_CardinalityType
  <1>4. \A h \in S : IsFiniteSet(before(h)) /\ Cardinality(before(h)) \in 0..size - 1
    <2> SUFFICES ASSUME NEW h \in S
                 PROVE  IsFiniteSet(before(h)) /\ Cardinality(before(h)) \in 0..size - 1
      OBVIOUS
    <2>1. before(h) \in SUBSET S /\ h \notin before(h)
      BY <1>1 DEF Before
    <2>2. IsFiniteSet(before(h)) /\ Cardinality(before(h)) <= size /\ Cardinality(before(h)) # size
      BY <2>1, FS_Subset
    <2>3. Cardinality(before(h)) \in Nat
      BY <2>2, FS_CardinalityType
    <2> QED
      BY <2>2, <2>3, <1>3
  <1>5. \A g, h \in S : Before(g, h) => Cardinality(before(g)) < Cardinality(before(h))
    <2> SUFFICES ASSUME NEW g \in S, NEW h \in S, Before(g, h)
                 PROVE  Cardinality(before(g)) < Cardinality(before(h))
      OBVIOUS
    <2>1. before(g) \in SUBSET before(h) /\ g \in before(h) /\ g \notin before(g)
      BY <1>1 DEF Before
    <2>2. Cardinality(before(g)) <= Cardinality(before(h)) /\ Cardinality(before(g)) # Cardinality(before(h))
      BY <2>1, <1>4, FS_Subset
    <2> HIDE DEF before
    <2>3. Cardinality(before(g)) \in Int /\ Cardinality(before(h)) \in Int
      BY <1>4, <1>3
    <2> QED
      BY <2>2, <2>3
  <1> HIDE DEF before
  <1>6. rank \in [S -> 0..size - 1]
    BY <1>4
  <1>7. IsInjective(rank)
    <2> SUFFICES ASSUME NEW g \in S, NEW h \in S, rank[g] = rank[h]
                 PROVE  g = h
      BY DEF IsInjective
    <2> QED
      BY <1>2, <1>3, <1>4, <1>5
  <1>8. \A n \in 0..size - 1 : \E h \in S : Cardinality(before(h)) = n
    <2>1. \A n \in 0..size - 1 : \E h \in S : rank[h] = n
      BY <1>6, <1>7, Ranked
    <2> QED
      BY <2>1
  <1>9. list = [n \in 1..size |-> CHOOSE h \in S : Cardinality(before(h)) = n - 1]
    BY DEF InOrder, before
  <1>10. \A n \in 1..size : list[n] \in S /\ Cardinality(before(list[n])) = n - 1
    <2> SUFFICES ASSUME NEW n \in 1..size
                 PROVE  list[n] \in S /\ Cardinality(before(list[n])) = n - 1
      OBVIOUS
    <2>1. n - 1 \in 0..size - 1
      BY <1>3
    <2>2. \E h \in S : Cardinality(before(h)) = n - 1
      BY <2>1, <1>8
    <2>3. list[n] = CHOOSE h \in S : Cardinality(before(h)) = n - 1
      BY <1>9
    <2> QED
      BY <2>2, <2>3
  <1>11. list \in [1..size -> Spans]
    <2>1. \A n \in 1..size : list[n] \in Spans
      BY <1>10
    <2>2. list = [n \in 1..size |-> list[n]]
      BY <1>9
    <2> HIDE DEF list
    <2> QED
      BY <2>1, <2>2
  <1> HIDE DEF rank, list
  <1>12. list \in Seq(Spans) /\ DOMAIN list = 1..size
    BY <1>3, <1>11
  <1>13. Lined(list)
    <2> SUFFICES ASSUME NEW m \in 1..size, NEW n \in 1..size, m < n
                 PROVE  list[m].until <= list[n].from
      BY <1>12 DEF Lined
    <2>1. list[m] \in S /\ list[n] \in S /\ list[m] # list[n]
          /\ Cardinality(before(list[m])) = m - 1 /\ Cardinality(before(list[n])) = n - 1
      BY <1>10, <1>3
    <2>2. ~Before(list[n], list[m])
      BY <2>1, <1>5, <1>3
    <2>3. Before(list[m], list[n]) /\ ~Overlap(list[m], list[n])
      BY <2>1, <2>2, <1>2 DEF NoOverlaps
    <2> QED
      BY <2>1, <2>3, <1>1 DEF Before, Overlap
  <1>14. Entries(list) = S
    <2>1. Entries(list) \subseteq S
      BY <1>10, <1>12 DEF Entries
    <2>2. ASSUME NEW h \in S
          PROVE  h \in Entries(list)
      <3> DEFINE n == Cardinality(before(h)) + 1
      <3>1. n \in 1..size /\ Cardinality(before(h)) = n - 1
        BY <1>4, <1>3
      <3>2. list[n] \in S /\ Cardinality(before(list[n])) = n - 1
        BY <3>1, <1>10
      <3>3. list[n] = h
        BY <3>1, <3>2, <1>2, <1>5, <1>3
      <3> QED
        BY <3>1, <3>3, <1>12 DEF Entries
    <2> QED
      BY <2>1, <2>2
  <1> QED
    BY <1>12, <1>13, <1>14 DEF list

\* Sorting a list keeps its entries.
LEMMA SortedIs ==
    ASSUME NEW list \in Seq(Bounds)
    PROVE  Sorted(list) \in Seq(Bounds) /\ Len(Sorted(list)) = Len(list)
  <1> DEFINE size == Len(list)
             S == 1..size
             ahead(i) == Ahead(list, i)
             rank == [i \in S |-> Cardinality(ahead(i))]
  <1>1. DOMAIN list = S /\ size \in Nat
    OBVIOUS
  <1>2. IsFiniteSet(S) /\ Cardinality(S) = size
    BY <1>1, FS_Interval
  <1>3. \A i \in S : list[i] \in Bounds /\ list[i].from \in Int /\ list[i].until \in Int
    <2>1. \A i \in S : list[i] \in Bounds
      BY <1>1
    <2> QED
      BY <2>1 DEF Bounds
  <1>4. \A i \in S : ahead(i) = {j \in S : Before(list[j], list[i]) \/ (list[j] = list[i] /\ j < i)}
    BY <1>1 DEF Ahead
  <1>5. \A i, j \in S : list[i] # list[j] => Before(list[i], list[j]) \/ Before(list[j], list[i])
    <2> SUFFICES ASSUME NEW i \in S, NEW j \in S, list[i] # list[j]
                 PROVE  Before(list[i], list[j]) \/ Before(list[j], list[i])
      OBVIOUS
    <2>1. /\ list[i].from \in Int /\ list[i].until \in Int
          /\ list[j].from \in Int /\ list[j].until \in Int
      BY <1>3
    <2>2. list[i] \in Bounds /\ list[j] \in Bounds
      BY <1>3
    <2>3. list[i].from # list[j].from \/ list[i].until # list[j].until
      BY <2>2 DEF Bounds
    <2> QED
      BY <2>1, <2>3 DEF Before
  <1>6. \A i \in S : ahead(i) \in SUBSET S /\ i \notin ahead(i)
    <2> SUFFICES ASSUME NEW i \in S
                 PROVE  ahead(i) \in SUBSET S /\ i \notin ahead(i)
      OBVIOUS
    <2>1. ahead(i) = {j \in S : Before(list[j], list[i]) \/ (list[j] = list[i] /\ j < i)}
      BY <1>4
    <2>2. list[i].from \in Int /\ list[i].until \in Int /\ i \in Int
      BY <1>3, <1>1
    <2>3. ~Before(list[i], list[i]) /\ ~(i < i)
      BY <2>2 DEF Before
    <2> QED
      BY <2>1, <2>3
  <1>7. ASSUME NEW i \in S
        PROVE  IsFiniteSet(ahead(i)) /\ Cardinality(ahead(i)) \in 0..size - 1
    <2>1. IsFiniteSet(ahead(i)) /\ Cardinality(ahead(i)) <= size /\ Cardinality(ahead(i)) # size
      BY <1>2, <1>6, FS_Subset
    <2>2. Cardinality(ahead(i)) \in Nat
      BY <2>1, FS_CardinalityType
    <2> QED
      BY <2>1, <2>2, <1>1
  <1>8. \A i, j \in S : i # j => i \in ahead(j) \/ j \in ahead(i)
    BY <1>4, <1>5
  <1>9. \A i, j \in S : i \in ahead(j) => ahead(i) \subseteq ahead(j)
    <2> SUFFICES ASSUME NEW i \in S, NEW j \in S, i \in ahead(j), NEW k \in ahead(i)
                 PROVE  k \in ahead(j)
      OBVIOUS
    <2>1. /\ k \in S
          /\ Before(list[k], list[i]) \/ (list[k] = list[i] /\ k < i)
          /\ Before(list[i], list[j]) \/ (list[i] = list[j] /\ i < j)
      BY <1>4
    <2>2. /\ list[i].from \in Int /\ list[i].until \in Int /\ i \in Int
          /\ list[j].from \in Int /\ list[j].until \in Int /\ j \in Int
          /\ list[k].from \in Int /\ list[k].until \in Int /\ k \in Int
      BY <1>3, <1>1, <2>1
    <2>3. Before(list[k], list[j]) \/ (list[k] = list[j] /\ k < j)
      BY <2>1, <2>2 DEF Before
    <2> QED
      BY <2>1, <2>3, <1>4
  <1> HIDE DEF ahead
  <1>10. ASSUME NEW i \in S, NEW j \in S, i \in ahead(j)
         PROVE  Cardinality(ahead(i)) # Cardinality(ahead(j))
    BY <1>6, <1>7, <1>9, <1>10, FS_Subset
  <1>11. rank \in [S -> 0..Cardinality(S) - 1]
    BY <1>2, <1>7
  <1>12. IsInjective(rank)
    <2> SUFFICES ASSUME NEW i \in S, NEW j \in S, rank[i] = rank[j]
                 PROVE  i = j
      BY DEF IsInjective
    <2> QED
      BY <1>8, <1>10
  <1>13. \A n \in 0..size - 1 : \E i \in S : Cardinality(ahead(i)) = n
    <2>1. \A n \in 0..Cardinality(S) - 1 : \E i \in S : rank[i] = n
      BY <1>2, <1>11, <1>12, Ranked
    <2> QED
      BY <2>1, <1>2
  <1>14. Sorted(list) = [n \in S |-> list[CHOOSE i \in S : Cardinality(ahead(i)) = n - 1]]
    BY <1>1 DEF Sorted, ahead
  <1>15. \A n \in S : list[CHOOSE i \in S : Cardinality(ahead(i)) = n - 1] \in Bounds
    <2> SUFFICES ASSUME NEW n \in S
                 PROVE  list[CHOOSE i \in S : Cardinality(ahead(i)) = n - 1] \in Bounds
      OBVIOUS
    <2>1. n - 1 \in 0..size - 1
      BY <1>1
    <2>2. \E i \in S : Cardinality(ahead(i)) = n - 1
      BY <2>1, <1>13
    <2>3. (CHOOSE i \in S : Cardinality(ahead(i)) = n - 1) \in S
      BY <2>2
    <2> QED
      BY <2>3, <1>3
  <1>16. Sorted(list) \in [S -> Bounds]
    BY <1>14, <1>15
  <1> QED
    BY <1>1, <1>16

\* What a save takes is in order, inside the day and of the length that was sent.
LEMMA Normalized ==
    ASSUME ScheduleFits, NEW list \in Seq(Bounds), NormalizeMinuteIntervals(list) # Invalid
    PROVE  LET sorted == NormalizeMinuteIntervals(list) IN
           /\ sorted \in Seq(Spans) /\ Lined(sorted) /\ Len(sorted) = Len(list)
           /\ \A n \in DOMAIN sorted : IsMinuteInterval(sorted[n])
  <1> DEFINE sorted == Sorted(list)
  <1>1. sorted \in Seq(Bounds) /\ Len(sorted) = Len(list)
    BY SortedIs
  <1>2. /\ NormalizeMinuteIntervals(list) = sorted
        /\ \A n \in DOMAIN sorted : IsMinuteInterval(sorted[n])
        /\ \A n \in 1..Len(sorted) - 1 : sorted[n].until <= sorted[n + 1].from
    BY DEF NormalizeMinuteIntervals
  <1> HIDE DEF sorted
  <1>3. \A n \in DOMAIN sorted : sorted[n] \in Spans
    BY <1>1, <1>2 DEF Spans, IsMinuteInterval
  <1>4. sorted \in Seq(Spans)
    BY <1>1, <1>3
  <1>5. Lined(sorted)
    BY <1>2, <1>4, NeighboursAreEnough
  <1> QED
    BY <1>1, <1>2, <1>4, <1>5

\* An override is taken with intervals exactly if it is a custom one.
LEMMA OverrideNormalized ==
    ASSUME ScheduleFits, NEW mode \in Modes, NEW list \in Seq(Bounds),
           NormalizeDateOverride(mode, list) # Invalid
    PROVE  LET sorted == NormalizeDateOverride(mode, list) IN
           /\ sorted \in Seq(Spans) /\ Lined(sorted)
           /\ \A n \in DOMAIN sorted : IsMinuteInterval(sorted[n])
           /\ (mode = "custom") <=> (sorted # <<>>)
  <1>1. /\ (mode = "custom") # (list = <<>>)
        /\ NormalizeDateOverride(mode, list) = NormalizeMinuteIntervals(list)
    BY DEF NormalizeDateOverride
  <1>2. LET sorted == NormalizeMinuteIntervals(list) IN
        /\ sorted \in Seq(Spans) /\ Lined(sorted) /\ Len(sorted) = Len(list)
        /\ \A n \in DOMAIN sorted : IsMinuteInterval(sorted[n])
    BY <1>1, Normalized
  <1> DEFINE sorted == NormalizeMinuteIntervals(list)
  <1>3. (list = <<>>) <=> (Len(list) = 0)
    OBVIOUS
  <1>4. (sorted = <<>>) <=> (Len(sorted) = 0)
    BY <1>2
  <1> HIDE DEF sorted
  <1>5. (mode = "custom") <=> (sorted # <<>>)
    BY <1>1, <1>2, <1>3, <1>4 DEF sorted
  <1> QED
    BY <1>1, <1>2, <1>5 DEF sorted

\* The rows of a key show the list they were made from.
LEMMA HoursShown ==
    ASSUME NEW s, NEW k, NEW list \in Seq(Spans), Lined(list),
           {g \in s.hours : g.key = k} = Hours(k, list)
    PROVE  HoursOf(s, k) = list
  <1>1. {[from |-> h.from, until |-> h.until] : h \in Hours(k, list)} = Entries(list)
    <2>1. \A n \in DOMAIN list : [from |-> list[n].from, until |-> list[n].until] = list[n]
      <3> SUFFICES ASSUME NEW n \in DOMAIN list
                   PROVE  [from |-> list[n].from, until |-> list[n].until] = list[n]
        OBVIOUS
      <3>1. list[n] \in Spans
        OBVIOUS
      <3>2. list[n] \in Bounds
        BY <3>1 DEF Spans
      <3> QED
        BY <3>2 DEF Bounds
    <2>2. {[from |-> h.from, until |-> h.until] : h \in Hours(k, list)}
            = {[from |-> list[n].from, until |-> list[n].until] : n \in DOMAIN list}
      <3> DEFINE row(n) == [key |-> k, from |-> list[n].from, until |-> list[n].until]
                 shape(h) == [from |-> h.from, until |-> h.until]
      <3>1. Hours(k, list) = {row(n) : n \in DOMAIN list}
        BY DEF Hours
      <3>2. \A n \in DOMAIN list : shape(row(n)) = [from |-> list[n].from, until |-> list[n].until]
        OBVIOUS
      <3> HIDE DEF row
      <3>3. {shape(h) : h \in Hours(k, list)} = {shape(row(n)) : n \in DOMAIN list}
        BY <3>1
      <3> HIDE DEF shape
      <3>4. {shape(row(n)) : n \in DOMAIN list}
              = {[from |-> list[n].from, until |-> list[n].until] : n \in DOMAIN list}
        BY <3>2
      <3> QED
        BY <3>3, <3>4 DEF shape
    <2> QED
      BY <2>1, <2>2 DEF Entries
  <1> QED
    BY <1>1, InOrderStays DEF HoursOf

-----------------------------------------------------------------------------
(* Instants. *)

\* The function that Elapsed is defined by exists, and its instants are numbers.
LEMMA ElapsedIs ==
    ASSUME ScheduleFits
    PROVE  /\ Elapsed = [d \in 0..LastDate + 1 |->
                            IF d = 0 THEN 0 ELSE Elapsed[d - 1] + Day + Shift[d - 1].by]
           /\ Elapsed \in [0..LastDate + 1 -> Int]
  <1> DEFINE K == LastDate + 1
             day == [d \in 1..K |-> [m \in Int |-> m + Day + Shift[d - 1].by]]
             G == {d \in 0..K : Elapsed[d] \in Int}
  <1>1. K \in Nat /\ \A d \in 1..K : d - 1 \in Dates /\ Day \in Int /\ Shift[d - 1].by \in Int
    BY DEF ScheduleFits, Dates
  <1>2. day \in [1..K -> [Int -> Int]]
    BY <1>1
  <1> HIDE DEF K, day
  <1>3. PICK f \in [0..K -> Int] : f[0] = 0 /\ \A d \in 1..K : f[d] = day[d][f[d - 1]]
    <2>1. K \in Nat /\ 0 \in Int
      BY <1>1
    <2>2. \E f \in [0..K -> Int] : Takes(f, K, 0, day)
      BY <2>1, <1>2, Recursion, Zenon
    <2> QED
      BY <2>2 DEF Takes
  <1>4. f = [d \in 0..K |-> IF d = 0 THEN 0 ELSE f[d - 1] + Day + Shift[d - 1].by]
    <2>1. \A d \in 1..K : f[d] = f[d - 1] + Day + Shift[d - 1].by
      <3> SUFFICES ASSUME NEW d \in 1..K
                   PROVE  f[d] = f[d - 1] + Day + Shift[d - 1].by
        OBVIOUS
      <3>1. d - 1 \in 0..K
        BY <1>1
      <3>2. f[d - 1] \in Int /\ f[d] = day[d][f[d - 1]]
        BY <1>3, <3>1
      <3> QED
        BY <3>2 DEF day
    <2>2. \A d \in 0..K : d # 0 => d \in 1..K
      BY <1>1
    <2>3. \A d \in 0..K : f[d] = IF d = 0 THEN 0 ELSE f[d - 1] + Day + Shift[d - 1].by
      BY <1>3, <2>1, <2>2
    <2> QED
      BY <2>3
  <1>5. Elapsed = [d \in 0..K |-> IF d = 0 THEN 0 ELSE Elapsed[d - 1] + Day + Shift[d - 1].by]
    BY <1>4 DEF Elapsed, K
  <1>6. 0 \in G
    BY <1>1, <1>5
  <1>7. \A d \in 1..K : d - 1 \in G => d \in G
    <2> SUFFICES ASSUME NEW d \in 1..K, d - 1 \in G
                 PROVE  d \in G
      OBVIOUS
    <2>1. d \in 0..K /\ d # 0 /\ Elapsed[d - 1] \in Int
      BY <1>1
    <2>2. Elapsed[d] = Elapsed[d - 1] + Day + Shift[d - 1].by
      BY <1>5, <2>1
    <2> QED
      BY <1>1, <2>1, <2>2
  <1> HIDE DEF G
  <1>8. 0..K \subseteq G
    BY <1>1, <1>6, <1>7, Climbs
  <1>9. \A d \in 0..K : Elapsed[d] \in Int
    BY <1>8 DEF G
  <1>10. Elapsed \in [0..K -> Int]
    <2>1. Elapsed = [d \in 0..K |-> Elapsed[d]]
      BY <1>5
    <2> QED
      BY <1>9, <2>1
  <1> QED
    BY <1>5, <1>10 DEF K

-----------------------------------------------------------------------------
(* The inductive invariant of the hours. *)

WeeklyKeys == {OrganizationWeekly(w) : w \in Weekdays}
HourRows == [key : Keys, from : Int, until : Int]
BookingRows == [resource : Resources, from : Int, until : Int]

StoredTyped ==
    /\ stored \in [parents : SUBSET Keys, hours : SUBSET HourRows, blocks : SUBSET Blocks,
                   settings : Settings, bookings : SUBSET BookingRows]
    /\ saves \in 0..MaxSaves /\ now \in 0..MaxNow

\* What a save of a key may have answered.
Answer(k, plan) ==
    /\ plan \in [mode : Modes, intervals : Seq(Spans)]
    /\ Lined(plan.intervals)
    /\ \A n \in DOMAIN plan.intervals : IsMinuteInterval(plan.intervals[n])
    /\ plan.mode = "custom" => plan.intervals # <<>>
    /\ plan.mode = "closed" => plan.intervals = <<>>
    /\ (plan.mode = "inherit" /\ k \notin WeeklyKeys) => plan.intervals = <<>>

\* The rows of a key are those of the answer.
RowsOf(s, k, plan) ==
    /\ {h \in s.hours : h.key = k} = Hours(k, plan.intervals)
    /\ (k \in s.parents) <=> (plan.mode # "inherit")

HoursKept ==
    /\ DOMAIN meant = Keys
    /\ \A k \in Keys : Answer(k, meant[k]) /\ RowsOf(stored, k, meant[k])

BlocksKept ==
    /\ IsFiniteSet(stored.blocks)
    /\ \A b \in stored.blocks : IsMinuteInterval(b)
    /\ \A b, c \in stored.blocks :
          (b # c /\ b.resource = c.resource /\ b.date = c.date) => ~Overlap(b, c)

\* A booking takes time, and so will the one under way.
BookingsKept ==
    /\ \A b \in stored.bookings : b.from < b.until
    /\ \/ attempt = Invalid
       \/ /\ attempt.resource \in Resources
          /\ Slot(attempt).from \in Int /\ Slot(attempt).until \in Int
          /\ Slot(attempt).from < Slot(attempt).until

ScheduleInv == StoredTyped /\ HoursKept /\ BlocksKept /\ BookingsKept

\* The instant of a wall time that has one.
LEMMA InstantIs ==
    ASSUME ScheduleFits, NEW d \in Dates, NEW m \in Int, LocalBookingStartToUtc(d, m) # Invalid
    PROVE  LocalBookingStartToUtc(d, m) \in Int
  <1>1. Elapsed[d] \in Int
    BY ElapsedIs DEF Dates, ScheduleFits
  <1>2. Shift[d].by \in Int /\ Shift[d].at \in Int
    BY DEF ScheduleFits
  <1> QED
    BY <1>1, <1>2 DEF LocalBookingStartToUtc

\* A start that is offered has an instant, and the booking takes time.
LEMMA OfferedSlot ==
    ASSUME ScheduleFits, NEW s, NEW r \in Resources, NEW d \in Dates, NEW m \in 0..Day - 1, NEW at,
           Offered(s, r, d, at) # Invalid, m \in Offered(s, r, d, at), NEW a,
           a.resource = r, a.date = d, a.minute = m
    PROVE  Slot(a).from \in Int /\ Slot(a).until \in Int /\ Slot(a).from < Slot(a).until
  <1> DEFINE starts == ConfiguredStarts(s, r, d, Duration, Buffer)
  <1>1. m \in FreeStarts(s, r, d, starts, Duration, Buffer)
    BY DEF Offered, PublicStarts, FilterStartsByPublicBookingWindow
  <1>2. LocalBookingStartToUtc(d, m) # Invalid
    BY <1>1 DEF FreeStarts
  <1>3. LocalBookingStartToUtc(d, m) \in Int /\ Duration \in Nat \ {0} /\ Buffer \in Nat
    BY <1>2, InstantIs DEF ScheduleFits
  <1>4. /\ Slot(a).from = LocalBookingStartToUtc(d, m)
        /\ Slot(a).until = LocalBookingStartToUtc(d, m) + Duration + Buffer
    BY DEF Slot, Occupied
  <1> QED
    BY <1>3, <1>4

\* Nothing is saved at the start.
LEMMA ScheduleInvInit ==
    ASSUME ScheduleFits, ScheduleInit
    PROVE  ScheduleInv
  <1>1. StoredTyped
    BY DEF StoredTyped, ScheduleInit, ScheduleFits
  <1>2. HoursKept
    <2>1. \A k \in Keys : meant[k] = [mode |-> "inherit", intervals |-> <<>>]
      BY DEF ScheduleInit
    <2>2. stored.hours = {} /\ stored.parents = {}
      BY DEF ScheduleInit
    <2>3. \A k \in Keys : Answer(k, meant[k])
      <3>1. <<>> \in Seq(Spans) /\ DOMAIN <<>> = {}
        OBVIOUS
      <3>2. Lined(<<>>) /\ \A n \in DOMAIN <<>> : IsMinuteInterval(<<>>[n])
        BY <3>1 DEF Lined
      <3>3. [mode |-> "inherit", intervals |-> <<>>] \in [mode : Modes, intervals : Seq(Spans)]
        BY <3>1 DEF Modes
      <3>4. \A k \in Keys : Answer(k, [mode |-> "inherit", intervals |-> <<>>])
        BY <3>2, <3>3 DEF Answer
      <3> QED
        BY <2>1, <3>4
    <2>4. \A k \in Keys : Hours(k, <<>>) = {}
      BY DEF Hours
    <2>5. \A k \in Keys : RowsOf(stored, k, meant[k])
      BY <2>1, <2>2, <2>4 DEF RowsOf
    <2>6. DOMAIN meant = Keys
      BY DEF ScheduleInit
    <2> QED
      BY <2>3, <2>5, <2>6 DEF HoursKept
  <1>3. BlocksKept
    <2>1. stored.blocks = {}
      BY DEF ScheduleInit
    <2> QED
      BY <2>1, FS_EmptySet DEF BlocksKept
  <1>4. BookingsKept
    BY DEF BookingsKept, ScheduleInit
  <1> QED
    BY <1>1, <1>2, <1>3, <1>4 DEF ScheduleInv

\* A save of hours replaces the rows of its keys by those of what it answers
\* and leaves the rows of every other key.
LEMMA SavedHours ==
    ASSUME ScheduleFits, ScheduleInv, saves < MaxSaves, NEW plan, DOMAIN plan \subseteq Keys,
           \A k \in DOMAIN plan : Answer(k, plan[k]),
           Save(Replaced(plan)), Means(plan), UNCHANGED attempt
    PROVE  ScheduleInv'
  <1> DEFINE new == Replaced(plan)
             rows == UNION {Hours(k, plan[k].intervals) : k \in DOMAIN plan}
             typed == [parents : SUBSET Keys, hours : SUBSET HourRows, blocks : SUBSET Blocks,
                       settings : Settings, bookings : SUBSET BookingRows]
  <1>1. stored' = new /\ saves' = saves + 1 /\ now' = now
    BY DEF Save
  <1>2. stored \in typed /\ saves \in 0..MaxSaves /\ now \in 0..MaxNow
    BY DEF ScheduleInv, StoredTyped
  <1>3. /\ new.parents = (stored.parents \ DOMAIN plan) \cup {k \in DOMAIN plan : plan[k].mode # "inherit"}
        /\ new.hours = {h \in stored.hours : h.key \notin DOMAIN plan} \cup rows
        /\ new.blocks = stored.blocks /\ new.settings = stored.settings
        /\ new.bookings = stored.bookings
        /\ DOMAIN new = DOMAIN stored
    BY <1>2 DEF Replaced
  <1>4. \A k \in DOMAIN plan : Hours(k, plan[k].intervals) \subseteq HourRows
    <2> SUFFICES ASSUME NEW k \in DOMAIN plan, NEW n \in DOMAIN plan[k].intervals
                 PROVE  [key |-> k, from |-> plan[k].intervals[n].from,
                         until |-> plan[k].intervals[n].until] \in HourRows
      BY DEF Hours
    <2>1. plan[k].intervals[n] \in Spans /\ k \in Keys
      BY DEF Answer
    <2> QED
      BY <2>1 DEF HourRows, Spans, Bounds
  <1>5. rows \subseteq HourRows
    BY <1>4
  <1>6. new \in typed
    <2>1. new.hours \subseteq HourRows /\ new.parents \subseteq Keys
      BY <1>2, <1>3, <1>5
    <2> DEFINE parents == (stored.parents \ DOMAIN plan) \cup {k \in DOMAIN plan : plan[k].mode # "inherit"}
               hours == {h \in stored.hours : h.key \notin DOMAIN plan} \cup rows
    <2>2. parents \in SUBSET Keys /\ hours \in SUBSET HourRows
      BY <1>3, <2>1
    <2>3. new = [stored EXCEPT !.parents = parents, !.hours = hours]
      BY DEF Replaced
    <2> HIDE DEF new, parents, hours
    <2> QED
      BY <1>2, <2>2, <2>3
  <1>7. StoredTyped'
    BY <1>1, <1>2, <1>6 DEF StoredTyped, ScheduleFits
  <1>8. \A k \in Keys : RowsOf(new, k, IF k \in DOMAIN plan THEN plan[k] ELSE meant[k])
    <2> SUFFICES ASSUME NEW k \in Keys
                 PROVE  RowsOf(new, k, IF k \in DOMAIN plan THEN plan[k] ELSE meant[k])
      OBVIOUS
    <2>1. \A j \in DOMAIN plan : \A h \in Hours(j, plan[j].intervals) : h.key = j
      BY DEF Hours
    <2>2. RowsOf(stored, k, meant[k])
      BY DEF ScheduleInv, HoursKept
    <2>3. CASE k \in DOMAIN plan
      <3>1. {h \in new.hours : h.key = k} = Hours(k, plan[k].intervals)
        BY <1>3, <2>1, <2>3
      <3>2. (k \in new.parents) <=> (plan[k].mode # "inherit")
        BY <1>3, <2>3
      <3> QED
        BY <2>3, <3>1, <3>2 DEF RowsOf
    <2>4. CASE k \notin DOMAIN plan
      <3>1. {h \in new.hours : h.key = k} = {h \in stored.hours : h.key = k}
        BY <1>3, <2>1, <2>4
      <3>2. (k \in new.parents) <=> (k \in stored.parents)
        BY <1>3, <2>4
      <3> QED
        BY <2>2, <2>4, <3>1, <3>2 DEF RowsOf
    <2> QED
      BY <2>3, <2>4
  <1>9. HoursKept'
    <2>1. meant' = [k \in Keys |-> IF k \in DOMAIN plan THEN plan[k] ELSE meant[k]]
      BY DEF Means
    <2>2. \A k \in Keys : Answer(k, meant'[k])
      BY <2>1 DEF ScheduleInv, HoursKept
    <2>3. \A k \in Keys : RowsOf(stored', k, meant'[k])
      BY <1>1, <1>8, <2>1
    <2> QED
      BY <2>1, <2>2, <2>3 DEF HoursKept
  <1> HIDE DEF new
  <1>10. BlocksKept'
    BY <1>1, <1>3 DEF ScheduleInv, BlocksKept
  <1>11. BookingsKept'
    BY <1>1, <1>3 DEF ScheduleInv, BookingsKept
  <1> QED
    BY <1>7, <1>9, <1>10, <1>11 DEF ScheduleInv

\* What an override answers is what its key may hold.
LEMMA OverridesSaved ==
    ASSUME ScheduleFits, ScheduleInv, saves < MaxSaves, NEW sent,
           DOMAIN sent \subseteq Keys, \A k \in DOMAIN sent : sent[k] \in Sent,
           ReplaceOverrides(sent)
    PROVE  ScheduleInv'
  <1> DEFINE plan == [k \in DOMAIN sent |->
                        [mode |-> sent[k].mode,
                         intervals |-> NormalizeDateOverride(sent[k].mode, sent[k].intervals)]]
  <1>1. /\ \A k \in DOMAIN plan : plan[k].intervals # Invalid
        /\ Save(Replaced(plan)) /\ Means(plan) /\ UNCHANGED attempt
    BY DEF ReplaceOverrides
  <1>2. \A k \in DOMAIN plan : Answer(k, plan[k])
    <2> SUFFICES ASSUME NEW k \in DOMAIN sent
                 PROVE  Answer(k, plan[k])
      OBVIOUS
    <2> DEFINE sorted == NormalizeDateOverride(sent[k].mode, sent[k].intervals)
    <2>1. sent[k].mode \in Modes /\ sent[k].intervals \in Seq(Bounds)
      BY DEF Sent, ScheduleFits
    <2>2. plan[k] = [mode |-> sent[k].mode, intervals |-> sorted] /\ sorted # Invalid
      BY <1>1
    <2>3. /\ sorted \in Seq(Spans) /\ Lined(sorted)
          /\ \A n \in DOMAIN sorted : IsMinuteInterval(sorted[n])
          /\ (sent[k].mode = "custom") <=> (sorted # <<>>)
      BY <2>1, <2>2, OverrideNormalized
    <2> HIDE DEF plan, sorted
    <2> QED
      BY <2>1, <2>2, <2>3 DEF Answer, Modes
  <1>3. DOMAIN plan \subseteq Keys
    OBVIOUS
  <1> HIDE DEF plan
  <1> QED
    BY <1>1, <1>2, <1>3, SavedHours

\* The hours of the week of the organization.
LEMMA WeeklySaved ==
    ASSUME ScheduleFits, ScheduleInv, saves < MaxSaves, NEW actor, NEW days \in [Weekdays -> Lists],
           ReplaceOrganizationWeeklyHours(actor, days)
    PROVE  ScheduleInv'
  <1> DEFINE plan == [k \in WeeklyKeys |->
                        [mode |-> "inherit", intervals |-> NormalizeMinuteIntervals(days[k[2]])]]
  <1>1. /\ \A k \in DOMAIN plan : plan[k].intervals # Invalid
        /\ Save(Replaced(plan)) /\ Means(plan) /\ UNCHANGED attempt
    BY DEF ReplaceOrganizationWeeklyHours, WeeklyKeys
  <1>2. \A k \in DOMAIN plan : Answer(k, plan[k])
    <2> SUFFICES ASSUME NEW k \in WeeklyKeys
                 PROVE  Answer(k, plan[k])
      OBVIOUS
    <2> DEFINE sorted == NormalizeMinuteIntervals(days[k[2]])
    <2>1. PICK w \in Weekdays : k = <<"organizationWeekly", w>>
      BY DEF WeeklyKeys, OrganizationWeekly
    <2>2. k[2] = w
      BY <2>1
    <2>3. days[k[2]] \in Seq(Bounds)
      BY <2>2 DEF ScheduleFits
    <2>4. plan[k] = [mode |-> "inherit", intervals |-> sorted] /\ sorted # Invalid
      BY <1>1
    <2>5. /\ sorted \in Seq(Spans) /\ Lined(sorted)
          /\ \A n \in DOMAIN sorted : IsMinuteInterval(sorted[n])
      BY <2>3, <2>4, Normalized
    <2> HIDE DEF plan, sorted
    <2> QED
      BY <2>4, <2>5 DEF Answer, Modes
  <1>3. DOMAIN plan \subseteq Keys
    BY DEF WeeklyKeys, Keys
  <1> HIDE DEF plan
  <1> QED
    BY <1>1, <1>2, <1>3, SavedHours

\* The blocks.
LEMMA BlocksSaved ==
    ASSUME ScheduleFits, ScheduleInv, saves < MaxSaves, NEW actor, NEW block \in Blocks,
           CreateResourceTimeBlock(actor, block) \/ DeleteResourceTimeBlock(actor, block)
    PROVE  ScheduleInv'
  <1>1. PICK blocks \in {stored.blocks \cup {block}, stored.blocks \ {block}} :
            /\ stored' = [stored EXCEPT !.blocks = blocks]
            /\ blocks = stored.blocks \cup {block} => IsMinuteInterval(block) /\ BlockFits(block)
    <2>1. CASE CreateResourceTimeBlock(actor, block)
      <3>1. /\ stored' = [stored EXCEPT !.blocks = stored.blocks \cup {block}]
            /\ IsMinuteInterval(block) /\ BlockFits(block)
        BY <2>1 DEF CreateResourceTimeBlock, Save
      <3> QED
        BY <3>1
    <2>2. CASE DeleteResourceTimeBlock(actor, block)
      <3>1. stored' = [stored EXCEPT !.blocks = stored.blocks \ {block}] /\ block \in stored.blocks
        BY <2>2 DEF DeleteResourceTimeBlock, Save
      <3>2. stored.blocks \ {block} # stored.blocks \cup {block}
        BY <3>1
      <3> QED
        BY <3>1, <3>2
    <2> QED
      BY <2>1, <2>2
  <1>2. saves' = saves + 1 /\ now' = now /\ UNCHANGED <<meant, attempt>>
    BY DEF CreateResourceTimeBlock, DeleteResourceTimeBlock, Save
  <1>3. stored \in [parents : SUBSET Keys, hours : SUBSET HourRows, blocks : SUBSET Blocks,
                    settings : Settings, bookings : SUBSET BookingRows]
        /\ saves \in 0..MaxSaves /\ now \in 0..MaxNow
    BY DEF ScheduleInv, StoredTyped
  <1>4. blocks \in SUBSET Blocks
    BY <1>1, <1>3
  <1>5. StoredTyped'
    <2>1. stored' \in [parents : SUBSET Keys, hours : SUBSET HourRows, blocks : SUBSET Blocks,
                       settings : Settings, bookings : SUBSET BookingRows]
      BY <1>1, <1>3, <1>4
    <2> QED
      BY <1>2, <1>3, <2>1 DEF StoredTyped, ScheduleFits
  <1>6. /\ stored'.blocks = blocks /\ stored'.hours = stored.hours
        /\ stored'.parents = stored.parents /\ stored'.bookings = stored.bookings
    BY <1>1, <1>3
  <1>7. HoursKept'
    BY <1>2, <1>6 DEF ScheduleInv, HoursKept, RowsOf
  <1>8. BlocksKept'
    <2>1. /\ IsFiniteSet(stored.blocks) /\ \A b \in stored.blocks : IsMinuteInterval(b)
          /\ \A b, c \in stored.blocks :
                (b # c /\ b.resource = c.resource /\ b.date = c.date) => ~Overlap(b, c)
      BY DEF ScheduleInv, BlocksKept
    <2>2. CASE blocks = stored.blocks \ {block}
      <3>1. IsFiniteSet(blocks)
        BY <2>1, <2>2, FS_RemoveElement
      <3> QED
        BY <1>6, <2>1, <2>2, <3>1 DEF BlocksKept
    <2>3. CASE blocks = stored.blocks \cup {block}
      <3>1. IsFiniteSet(blocks)
        BY <2>1, <2>3, FS_AddElement
      <3>2. IsMinuteInterval(block) /\ BlockFits(block)
        BY <1>1, <2>3
      <3>3. \A b \in stored.blocks :
               (b.resource = block.resource /\ b.date = block.date) =>
                   ~Overlap(b, block) /\ ~Overlap(block, b)
        BY <3>2 DEF BlockFits, Overlap
      <3>4. \A b, c \in blocks :
                (b # c /\ b.resource = c.resource /\ b.date = c.date) => ~Overlap(b, c)
        BY <2>1, <2>3, <3>3
      <3>5. \A b \in blocks : IsMinuteInterval(b)
        BY <2>1, <2>3, <3>2
      <3> QED
        BY <1>6, <3>1, <3>4, <3>5 DEF BlocksKept
    <2> QED
      BY <1>1, <2>2, <2>3
  <1>9. BookingsKept'
    BY <1>2, <1>6 DEF ScheduleInv, BookingsKept
  <1> QED
    BY <1>5, <1>7, <1>8, <1>9 DEF ScheduleInv

\* The settings.
LEMMA SettingsSaved ==
    ASSUME ScheduleFits, ScheduleInv, saves < MaxSaves, NEW actor, NEW settings \in Settings,
           UpdateOrganizationAvailabilitySettings(actor, settings)
    PROVE  ScheduleInv'
  <1>1. /\ stored' = [stored EXCEPT !.settings = settings] /\ saves' = saves + 1
        /\ now' = now /\ meant' = meant
        /\ attempt' = IF attempt = Invalid THEN Invalid ELSE [attempt EXCEPT !.stale = TRUE]
    BY DEF UpdateOrganizationAvailabilitySettings, Save
  <1>2. stored \in [parents : SUBSET Keys, hours : SUBSET HourRows, blocks : SUBSET Blocks,
                    settings : Settings, bookings : SUBSET BookingRows]
        /\ saves \in 0..MaxSaves /\ now \in 0..MaxNow
    BY DEF ScheduleInv, StoredTyped
  <1>3. StoredTyped'
    <2>1. stored' \in [parents : SUBSET Keys, hours : SUBSET HourRows, blocks : SUBSET Blocks,
                       settings : Settings, bookings : SUBSET BookingRows]
      BY <1>1, <1>2
    <2>2. saves' \in 0..MaxSaves /\ now' \in 0..MaxNow
      BY <1>1, <1>2 DEF ScheduleFits
    <2> QED
      BY <2>1, <2>2 DEF StoredTyped
  <1>4. /\ stored'.blocks = stored.blocks /\ stored'.hours = stored.hours
        /\ stored'.parents = stored.parents /\ stored'.bookings = stored.bookings
    BY <1>1, <1>2
  <1>5. HoursKept'
    BY <1>1, <1>4 DEF ScheduleInv, HoursKept, RowsOf
  <1>6. BlocksKept'
    BY <1>4 DEF ScheduleInv, BlocksKept
  <1>7. BookingsKept'
    <2>1. CASE attempt = Invalid
      BY <1>1, <1>4, <2>1 DEF ScheduleInv, BookingsKept
    <2>2. CASE attempt # Invalid
      <3>1. attempt' = [attempt EXCEPT !.stale = TRUE]
        BY <1>1, <2>2
      <3>2. /\ attempt'.resource = attempt.resource /\ attempt'.date = attempt.date
            /\ attempt'.minute = attempt.minute
        BY <3>1
      <3>3. Slot(attempt') = Slot(attempt)
        BY <3>2 DEF Slot
      <3> QED
        BY <1>4, <2>2, <3>2, <3>3 DEF ScheduleInv, BookingsKept
    <2> QED
      BY <2>1, <2>2
  <1> QED
    BY <1>3, <1>5, <1>6, <1>7 DEF ScheduleInv

\* A booking is inserted as the slot its attempt stands for.
LEMMA Booked ==
    ASSUME ScheduleFits, ScheduleInv, Book
    PROVE  ScheduleInv'
  <1>1. saves' = saves /\ now' = now /\ meant' = meant
    BY DEF Book, BeginBooking, CommitBooking, RetryBooking, CancelBooking
  <1>2. stored \in [parents : SUBSET Keys, hours : SUBSET HourRows, blocks : SUBSET Blocks,
                    settings : Settings, bookings : SUBSET BookingRows]
        /\ saves \in 0..MaxSaves /\ now \in 0..MaxNow
    BY DEF ScheduleInv, StoredTyped
  <1>3. ASSUME NEW bookings \in SUBSET BookingRows, \A b \in bookings : b.from < b.until,
               stored' = [stored EXCEPT !.bookings = bookings],
               \/ attempt' = Invalid
               \/ attempt' = attempt
        PROVE  ScheduleInv'
    <2>1. stored' \in [parents : SUBSET Keys, hours : SUBSET HourRows, blocks : SUBSET Blocks,
                       settings : Settings, bookings : SUBSET BookingRows]
      BY <1>2, <1>3
    <2>2. /\ stored'.blocks = stored.blocks /\ stored'.hours = stored.hours
          /\ stored'.parents = stored.parents /\ stored'.bookings = bookings
      BY <1>2, <1>3
    <2>3. StoredTyped'
      BY <1>1, <1>2, <2>1 DEF StoredTyped
    <2>4. HoursKept'
      BY <1>1, <2>2 DEF ScheduleInv, HoursKept, RowsOf
    <2>5. BlocksKept'
      BY <2>2 DEF ScheduleInv, BlocksKept
    <2>6. BookingsKept'
      BY <1>3, <2>2 DEF ScheduleInv, BookingsKept
    <2> QED
      BY <2>3, <2>4, <2>5, <2>6 DEF ScheduleInv
  <1>4. stored.bookings \in SUBSET BookingRows /\ \A b \in stored.bookings : b.from < b.until
    BY <1>2 DEF ScheduleInv, BookingsKept
  <1>5. ASSUME NEW r \in Resources, NEW d \in Dates, NEW m \in 0..Day - 1, BeginBooking(r, d, m)
        PROVE  ScheduleInv'
    <2>1. /\ Offered(stored, r, d, now) # Invalid /\ m \in Offered(stored, r, d, now)
          /\ attempt' = [resource |-> r, date |-> d, minute |-> m, now |-> now, stale |-> FALSE]
          /\ stored' = stored
      BY <1>5 DEF BeginBooking
    <2>2. attempt'.resource = r /\ attempt'.date = d /\ attempt'.minute = m
      BY <2>1
    <2>3. /\ Slot(attempt').from \in Int /\ Slot(attempt').until \in Int
          /\ Slot(attempt').from < Slot(attempt').until
      BY <2>1, <2>2, OfferedSlot
    <2>4. BookingsKept'
      BY <1>4, <2>1, <2>2, <2>3 DEF BookingsKept
    <2>5. StoredTyped' /\ HoursKept' /\ BlocksKept'
      BY <1>1, <2>1 DEF ScheduleInv, StoredTyped, HoursKept, RowsOf, BlocksKept
    <2> QED
      BY <2>4, <2>5 DEF ScheduleInv
  <1>6. CASE CommitBooking
    <2>1. /\ attempt # Invalid /\ attempt' = Invalid
          /\ stored' = [stored EXCEPT !.bookings = stored.bookings \cup {Slot(attempt)}]
      BY <1>6 DEF CommitBooking
    <2>2. /\ attempt.resource \in Resources
          /\ Slot(attempt).from \in Int /\ Slot(attempt).until \in Int
          /\ Slot(attempt).from < Slot(attempt).until
      BY <2>1 DEF ScheduleInv, BookingsKept
    <2>3. Slot(attempt) = [resource |-> attempt.resource, from |-> Slot(attempt).from,
                           until |-> Slot(attempt).until]
      BY DEF Slot
    <2>4. Slot(attempt) \in BookingRows
      BY <2>2, <2>3 DEF BookingRows
    <2> QED
      BY <1>3, <1>4, <2>1, <2>2, <2>4
  <1>7. CASE RetryBooking
    <2>1. /\ stored' = stored /\ attempt # Invalid
          /\ attempt' = Invalid \/ attempt' = [attempt EXCEPT !.stale = FALSE]
      BY <1>7 DEF RetryBooking
    <2>2. CASE attempt' = Invalid
      BY <1>1, <2>1, <2>2 DEF ScheduleInv, StoredTyped, HoursKept, RowsOf, BlocksKept, BookingsKept
    <2>3. CASE attempt' = [attempt EXCEPT !.stale = FALSE]
      <3>1. /\ attempt'.resource = attempt.resource /\ attempt'.date = attempt.date
            /\ attempt'.minute = attempt.minute
        BY <2>3
      <3>2. Slot(attempt') = Slot(attempt)
        BY <3>1 DEF Slot
      <3>3. BookingsKept'
        BY <2>1, <3>1, <3>2 DEF ScheduleInv, BookingsKept
      <3>4. StoredTyped' /\ HoursKept' /\ BlocksKept'
        BY <1>1, <2>1 DEF ScheduleInv, StoredTyped, HoursKept, RowsOf, BlocksKept
      <3> QED
        BY <3>3, <3>4 DEF ScheduleInv
    <2> QED
      BY <2>1, <2>2, <2>3
  <1>8. ASSUME NEW b \in stored.bookings, CancelBooking(b)
        PROVE  ScheduleInv'
    <2>1. stored' = [stored EXCEPT !.bookings = stored.bookings \ {b}] /\ attempt' = attempt
      BY <1>8 DEF CancelBooking
    <2>2. /\ stored.bookings \ {b} \in SUBSET BookingRows
          /\ \A c \in stored.bookings \ {b} : c.from < c.until
      BY <1>4
    <2> QED
      BY <1>3, <2>1, <2>2
  <1> QED
    BY <1>5, <1>6, <1>7, <1>8 DEF Book

\* No step leaves the invariant.
LEMMA ScheduleInvNext ==
    ASSUME ScheduleFits, ScheduleInv, [ScheduleNext]_scheduleVars
    PROVE  ScheduleInv'
  <1>1. CASE SaveHours
    <2>1. saves < MaxSaves
      BY <1>1 DEF SaveHours
    <2>2. ASSUME NEW actor \in Actors, NEW days \in [Weekdays -> Lists],
                 ReplaceOrganizationWeeklyHours(actor, days)
          PROVE  ScheduleInv'
      BY <2>1, <2>2, WeeklySaved
    <2>3. ASSUME NEW actor \in Actors, NEW resource \in Resources, NEW days \in [Weekdays -> Sent],
                 ReplaceResourceWeeklyHours(actor, resource, days)
          PROVE  ScheduleInv'
      <3> DEFINE sent == [k \in {ResourceWeekly(resource, w) : w \in Weekdays} |-> days[k[3]]]
      <3>1. ReplaceOverrides(sent)
        BY <2>3 DEF ReplaceResourceWeeklyHours
      <3>2. DOMAIN sent \subseteq Keys
        BY DEF Keys
      <3>3. \A k \in DOMAIN sent : sent[k] \in Sent
        <4> SUFFICES ASSUME NEW w \in Weekdays
                     PROVE  sent[ResourceWeekly(resource, w)] \in Sent
          OBVIOUS
        <4>1. ResourceWeekly(resource, w)[3] = w
          BY DEF ResourceWeekly
        <4> QED
          BY <4>1
      <3> HIDE DEF sent
      <3> QED
        BY <2>1, <3>1, <3>2, <3>3, OverridesSaved
    <2>4. ASSUME NEW actor \in Actors, NEW date \in Dates, NEW day \in Sent,
                 ReplaceOrganizationDateOverride(actor, date, day)
          PROVE  ScheduleInv'
      <3> DEFINE sent == [k \in {OrganizationDate(date)} |-> day]
      <3>1. ReplaceOverrides(sent)
        BY <2>4 DEF ReplaceOrganizationDateOverride
      <3>2. DOMAIN sent \subseteq Keys /\ \A k \in DOMAIN sent : sent[k] \in Sent
        BY DEF Keys
      <3> HIDE DEF sent
      <3> QED
        BY <2>1, <3>1, <3>2, OverridesSaved
    <2>5. ASSUME NEW actor \in Actors, NEW resource \in Resources, NEW date \in Dates, NEW day \in Sent,
                 ReplaceResourceDateOverride(actor, resource, date, day)
          PROVE  ScheduleInv'
      <3> DEFINE sent == [k \in {ResourceDate(resource, date)} |-> day]
      <3>1. ReplaceOverrides(sent)
        BY <2>5 DEF ReplaceResourceDateOverride
      <3>2. DOMAIN sent \subseteq Keys /\ \A k \in DOMAIN sent : sent[k] \in Sent
        BY DEF Keys
      <3> HIDE DEF sent
      <3> QED
        BY <2>1, <3>1, <3>2, OverridesSaved
    <2> QED
      BY <1>1, <2>2, <2>3, <2>4, <2>5 DEF SaveHours
  <1>2. CASE SaveBlocksOrSettings
    <2>1. saves < MaxSaves
      BY <1>2 DEF SaveBlocksOrSettings
    <2>2. stored.blocks \subseteq Blocks
      BY DEF ScheduleInv, StoredTyped
    <2> QED
      BY <1>2, <2>1, <2>2, BlocksSaved, SettingsSaved DEF SaveBlocksOrSettings
  <1>3. CASE Book
    BY <1>3, Booked
  <1>4. CASE Tick
    <2>1. now' = now + 1 /\ now < MaxNow /\ UNCHANGED <<stored, meant, saves, attempt>>
      BY <1>4 DEF Tick
    <2>2. StoredTyped'
      BY <2>1 DEF ScheduleInv, StoredTyped, ScheduleFits
    <2> QED
      BY <2>1, <2>2 DEF ScheduleInv, HoursKept, RowsOf, BlocksKept, BookingsKept
  <1>5. CASE UNCHANGED scheduleVars
    BY <1>5 DEF scheduleVars, ScheduleInv, StoredTyped, HoursKept, RowsOf, BlocksKept, BookingsKept
  <1> QED
    BY <1>1, <1>2, <1>3, <1>4, <1>5 DEF ScheduleNext

\* The rows of every key are what its last save answered, blocks keep apart, and
\* bookings take time.
THEOREM ScheduleInvariance == ASSUME ScheduleFits PROVE ScheduleSpec => []ScheduleInv
  <1>1. ScheduleInit => ScheduleInv
    BY ScheduleInvInit
  <1>2. ScheduleInv /\ [ScheduleNext]_scheduleVars => ScheduleInv'
    BY ScheduleInvNext
  <1> QED
    BY <1>1, <1>2, PTL DEF ScheduleSpec

\* Every stored key shows what was meant by it.
LEMMA KeysShow ==
    ASSUME ScheduleInv, NEW k \in Keys
    PROVE  /\ HoursOf(stored, k) = meant[k].intervals
           /\ ProjectScheduleOverride(stored, k) = meant[k]
  <1>1. Answer(k, meant[k]) /\ RowsOf(stored, k, meant[k])
    BY DEF ScheduleInv, HoursKept
  <1>2. /\ meant[k] \in [mode : Modes, intervals : Seq(Spans)] /\ Lined(meant[k].intervals)
        /\ meant[k].mode = "custom" => meant[k].intervals # <<>>
        /\ meant[k].mode = "closed" => meant[k].intervals = <<>>
    BY <1>1 DEF Answer
  <1>3. HoursOf(stored, k) = meant[k].intervals
    <2>1. meant[k].intervals \in Seq(Spans)
      BY <1>2
    <2> QED
      BY <1>1, <1>2, <2>1, HoursShown DEF RowsOf
  <1>4. meant[k] = [mode |-> meant[k].mode, intervals |-> meant[k].intervals]
        /\ meant[k].mode \in Modes
    BY <1>2
  <1>5. (k \in stored.parents) <=> (meant[k].mode # "inherit")
    BY <1>1 DEF RowsOf
  <1>6. ProjectScheduleOverride(stored, k) =
            [mode |-> meant[k].mode, intervals |-> meant[k].intervals]
    BY <1>2, <1>3, <1>4, <1>5 DEF ProjectScheduleOverride, Modes
  <1> QED
    BY <1>3, <1>4, <1>6

\* Rows with the foreign keys and check constraints of the tables.
LEMMA TypesFollow == ASSUME ScheduleFits, ScheduleInv PROVE ScheduleTypeOK
  <1>1. stored \in [parents : SUBSET Keys, hours : SUBSET HourRows, blocks : SUBSET Blocks,
                    settings : Settings, bookings : SUBSET BookingRows]
        /\ saves \in 0..MaxSaves /\ now \in 0..MaxNow
    BY DEF ScheduleInv, StoredTyped
  <1>2. DOMAIN stored = Rows
    BY <1>1 DEF Rows
  <1>3. \A k \in Keys : Answer(k, meant[k]) /\ RowsOf(stored, k, meant[k])
    BY DEF ScheduleInv, HoursKept
  <1>4. \A k \in Keys : meant[k].mode \in Modes
    BY <1>3 DEF Answer
  <1>5. ASSUME NEW h \in stored.hours
        PROVE  IsMinuteInterval(h) /\ h.key \in stored.parents \cup {OrganizationWeekly(w) : w \in Weekdays}
    <2>1. h \in HourRows
      BY <1>1
    <2>2. h.key \in Keys
      BY <2>1 DEF HourRows
    <2> DEFINE k == h.key
    <2>3. h \in Hours(k, meant[k].intervals)
      BY <1>3, <2>2 DEF RowsOf
    <2>4. PICK n \in DOMAIN meant[k].intervals :
              h.from = meant[k].intervals[n].from /\ h.until = meant[k].intervals[n].until
      BY <2>3 DEF Hours
    <2>5. Answer(k, meant[k])
      BY <1>3, <2>2
    <2>6. IsMinuteInterval(meant[k].intervals[n])
      BY <2>4, <2>5 DEF Answer
    <2>7. IsMinuteInterval(h)
      BY <2>4, <2>6 DEF IsMinuteInterval
    <2>8. meant[k].intervals # <<>>
      BY <2>4
    <2>9. meant[k].mode # "inherit" \/ k \in WeeklyKeys
      BY <2>5, <2>8 DEF Answer
    <2>10. k \in stored.parents \/ k \in WeeklyKeys
      BY <1>3, <2>2, <2>9 DEF RowsOf
    <2> QED
      BY <2>7, <2>10 DEF WeeklyKeys
  <1>6. \A b \in stored.blocks :
            b.id \in BlockIds /\ b.resource \in Resources /\ b.date \in Dates /\ IsMinuteInterval(b)
    BY <1>1 DEF Blocks, ScheduleInv, BlocksKept
  <1>7. \A b \in stored.bookings : b.resource \in Resources /\ b.from < b.until
    BY <1>1 DEF BookingRows, ScheduleInv, BookingsKept
  <1>8. stored.parents \subseteq Keys /\ stored.settings \in Settings
    BY <1>1
  <1> QED
    BY <1>1, <1>2, <1>4, <1>5, <1>6, <1>7, <1>8 DEF ScheduleTypeOK

\* Rows of one list keep apart.
LEMMA ApartFollows == ASSUME ScheduleInv PROVE IntervalsApart
  <1>1. \A b, c \in stored.blocks :
            (b # c /\ b.resource = c.resource /\ b.date = c.date) => ~Overlap(b, c)
    BY DEF ScheduleInv, BlocksKept
  <1>2. ASSUME NEW g \in stored.hours, NEW h \in stored.hours, g # h, g.key = h.key
        PROVE  ~Overlap(g, h)
    <2> DEFINE k == g.key
               list == meant[k].intervals
    <2>1. k \in Keys
      BY DEF ScheduleInv, StoredTyped, HourRows
    <2>2. Answer(k, meant[k]) /\ RowsOf(stored, k, meant[k])
      BY <2>1 DEF ScheduleInv, HoursKept
    <2>3. g \in Hours(k, list) /\ h \in Hours(k, list)
      BY <1>2, <2>2 DEF RowsOf
    <2>4. PICK m \in DOMAIN list : g = [key |-> k, from |-> list[m].from, until |-> list[m].until]
      BY <2>3 DEF Hours
    <2>5. PICK n \in DOMAIN list : h = [key |-> k, from |-> list[n].from, until |-> list[n].until]
      BY <2>3 DEF Hours
    <2>6. list \in Seq(Spans) /\ Lined(list)
      BY <2>2 DEF Answer
    <2>7. m # n
      BY <1>2, <2>4, <2>5
    <2>8. list[m] \in Spans /\ list[n] \in Spans /\ m \in Int /\ n \in Int
      BY <2>6
    <2>9. list[m].until <= list[n].from \/ list[n].until <= list[m].from
      <3> HIDE DEF list
      <3> QED
        BY <2>6, <2>7, <2>8 DEF Lined
    <2>10. /\ g.from = list[m].from /\ g.until = list[m].until
           /\ h.from = list[n].from /\ h.until = list[n].until
      BY <2>4, <2>5
    <2>11. /\ list[m].from \in Int /\ list[m].until \in Int
           /\ list[n].from \in Int /\ list[n].until \in Int
      BY <2>8 DEF Spans, Bounds
    <2> HIDE DEF k, list
    <2> QED
      BY <2>9, <2>10, <2>11 DEF Overlap
  <1> QED
    BY <1>1, <1>2 DEF IntervalsApart

\* Who may read a schedule reads what was meant.
LEMMA ShownFollows == ASSUME ScheduleFits, ScheduleInv PROVE ShownAsSaved
  <1>1. /\ \A w \in Weekdays : OrganizationWeekly(w) \in Keys
        /\ \A d \in Dates : OrganizationDate(d) \in Keys
        /\ \A r \in Resources, w \in Weekdays : ResourceWeekly(r, w) \in Keys
        /\ \A r \in Resources, d \in Dates : ResourceDate(r, d) \in Keys
    BY DEF Keys
  <1>2. \A k \in Keys : /\ HoursOf(stored, k) = meant[k].intervals
                        /\ ProjectScheduleOverride(stored, k) = meant[k]
    BY KeysShow
  <1>3. \A k \in Keys : meant[k] # Invalid
    <2> SUFFICES ASSUME NEW k \in Keys
                 PROVE  meant[k] # Invalid
      OBVIOUS
    <2>1. meant[k] \in [mode : Modes, intervals : Seq(Spans)]
      BY DEF ScheduleInv, HoursKept, Answer
    <2>2. Seq(Spans) \subseteq Seq(Bounds)
      <3>1. Spans \subseteq Bounds
        BY DEF Spans
      <3> QED
        BY <3>1
    <2>3. meant[k] \in [mode : Modes, intervals : Seq(Bounds)]
      BY <2>1, <2>2
    <2> QED
      BY <2>3 DEF ScheduleFits
  <1> SUFFICES ASSUME NEW actor \in Actors
               PROVE  /\ GetOrganizationWeeklyHours(actor) # Refused =>
                            \A w \in Weekdays : GetOrganizationWeeklyHours(actor)[w]
                                                    = meant[OrganizationWeekly(w)].intervals
                      /\ \A d \in Dates :
                            \/ GetOrganizationDateOverride(actor, d) = Refused
                            \/ GetOrganizationDateOverride(actor, d) = meant[OrganizationDate(d)]
                      /\ \A r \in Resources, d \in Dates :
                            /\ GetResourceDateOverride(actor, r, d) # Refused
                                  <=> r \in ListManageableScheduleResources(actor)
                            /\ r \in ListManageableScheduleResources(actor) =>
                                  /\ GetResourceDateOverride(actor, r, d) = meant[ResourceDate(r, d)]
                                  /\ GetResourceWeeklyHours(actor, r)
                                        = [w \in Weekdays |-> meant[ResourceWeekly(r, w)]]
    BY DEF ShownAsSaved
  <1>4. GetOrganizationWeeklyHours(actor) # Refused =>
            \A w \in Weekdays : GetOrganizationWeeklyHours(actor)[w]
                                    = meant[OrganizationWeekly(w)].intervals
    BY <1>1, <1>2 DEF GetOrganizationWeeklyHours
  <1>5. \A d \in Dates :
            \/ GetOrganizationDateOverride(actor, d) = Refused
            \/ GetOrganizationDateOverride(actor, d) = meant[OrganizationDate(d)]
    BY <1>1, <1>2 DEF GetOrganizationDateOverride
  <1>6. ASSUME NEW r \in Resources, NEW d \in Dates
        PROVE  /\ GetResourceDateOverride(actor, r, d) # Refused
                     <=> r \in ListManageableScheduleResources(actor)
               /\ r \in ListManageableScheduleResources(actor) =>
                     /\ GetResourceDateOverride(actor, r, d) = meant[ResourceDate(r, d)]
                     /\ GetResourceWeeklyHours(actor, r)
                           = [w \in Weekdays |-> meant[ResourceWeekly(r, w)]]
    <2>1. r \in ListManageableScheduleResources(actor)
              <=> CanManageResourceAvailability(actor, r)
      BY DEF ListManageableScheduleResources
    <2>2. CASE CanManageResourceAvailability(actor, r)
      <3>1. GetResourceDateOverride(actor, r, d) = meant[ResourceDate(r, d)]
        BY <1>1, <1>2, <2>2 DEF GetResourceDateOverride
      <3>2. GetResourceWeeklyHours(actor, r) = [w \in Weekdays |-> meant[ResourceWeekly(r, w)]]
        BY <1>1, <1>2, <2>2 DEF GetResourceWeeklyHours
      <3> QED
        BY <1>1, <1>3, <2>1, <2>2, <3>1, <3>2 DEF Refused
    <2>3. CASE ~CanManageResourceAvailability(actor, r)
      BY <2>1, <2>3 DEF GetResourceDateOverride
    <2> QED
      BY <2>2, <2>3
  <1> QED
    BY <1>4, <1>5, <1>6

-----------------------------------------------------------------------------
(* Blocks are cut out of a window. *)

Within(i, m) == i.from <= m /\ m < i.until

\* What the walk has kept when n blocks are behind it.
Walked(window, blocks, n, acc) ==
    /\ acc.cursor \in Int /\ window.from <= acc.cursor
    /\ acc.kept \in SUBSET Spans /\ IsFiniteSet(acc.kept) /\ NoOverlaps(acc.kept)
    /\ \A i \in acc.kept : window.from <= i.from /\ i.until <= acc.cursor /\ i.until <= window.until
    /\ acc.cursor = window.from \/ \A j \in n + 1..Len(blocks) : acc.cursor <= blocks[j].from
    /\ \A j \in 1..n : blocks[j].until <= acc.cursor \/ window.until <= blocks[j].from
    /\ \A m \in Int : (Within(window, m) /\ m < acc.cursor) =>
          ((\E i \in acc.kept : Within(i, m)) <=> ~\E j \in 1..n : Within(blocks[j], m))

\* One more block is cut out.
LEMMA CutWalks ==
    ASSUME NEW window \in Spans, NEW blocks \in Seq(Spans), Lined(blocks),
           NEW n \in 1..Len(blocks), NEW acc, Walked(window, blocks, n - 1, acc)
    PROVE  Walked(window, blocks, n, Cut(window, acc, blocks[n]))
  <1> DEFINE block == blocks[n]
             cut == Cut(window, acc, block)
             piece == [from |-> acc.cursor, until |-> block.from]
  <1>1. /\ window.from \in Int /\ window.until \in Int /\ window.from < window.until
        /\ block.from \in Int /\ block.until \in Int /\ block.from < block.until
        /\ acc.cursor \in Int /\ window.from <= acc.cursor
    <2>1. blocks[n] \in Spans
      OBVIOUS
    <2> QED
      BY <2>1 DEF Spans, Bounds, Walked
  <1>2. /\ acc.kept \in SUBSET Spans /\ IsFiniteSet(acc.kept) /\ NoOverlaps(acc.kept)
        /\ \A i \in acc.kept : window.from <= i.from /\ i.until <= acc.cursor /\ i.until <= window.until
    BY DEF Walked
  <1>3. acc.cursor = window.from \/ \A j \in n..Len(blocks) : acc.cursor <= blocks[j].from
    BY DEF Walked
  <1>4. \A j \in 1..n - 1 : blocks[j].until <= acc.cursor \/ window.until <= blocks[j].from
    BY DEF Walked
  <1>5. \A m \in Int : (Within(window, m) /\ m < acc.cursor) =>
            ((\E i \in acc.kept : Within(i, m)) <=> ~\E j \in 1..n - 1 : Within(blocks[j], m))
    BY DEF Walked
  <1>6. \A j \in n + 1..Len(blocks) : block.until <= blocks[j].from
    BY DEF Lined
  <1>7. \A i \in acc.kept : i.from \in Int /\ i.until \in Int /\ i.from < i.until
    BY <1>2 DEF Spans, Bounds
  <1>8. n \in 1..Len(blocks) /\ \A j \in 1..n : j = n \/ j \in 1..n - 1
    OBVIOUS
  <1>9. \A j \in 1..Len(blocks) : blocks[j].from \in Int /\ blocks[j].until \in Int
    BY DEF Spans, Bounds
  <1>10. CASE block.from >= window.until \/ block.until <= acc.cursor
    <2>1. cut = acc
      BY <1>10 DEF Cut
    <2>2. acc.cursor = window.from \/ \A j \in n + 1..Len(blocks) : acc.cursor <= blocks[j].from
      BY <1>3
    <2>3. \A j \in 1..n : blocks[j].until <= acc.cursor \/ window.until <= blocks[j].from
      BY <1>1, <1>4, <1>8, <1>10
    <2>4. ASSUME NEW m \in Int, Within(window, m), m < acc.cursor
          PROVE  (\E i \in acc.kept : Within(i, m)) <=> ~\E j \in 1..n : Within(blocks[j], m)
      <3>1. acc.cursor # window.from
        BY <1>1, <2>4 DEF Within
      <3>2. acc.cursor <= block.from
        BY <1>3, <3>1
      <3>3. ~Within(block, m)
        BY <1>1, <2>4, <3>2 DEF Within
      <3> QED
        BY <1>5, <1>8, <2>4, <3>3
    <2> QED
      BY <1>1, <1>2, <2>1, <2>2, <2>3, <2>4 DEF Walked
  <1>11. CASE block.from < window.until /\ acc.cursor < block.until
    <2> DEFINE kept == IF block.from > acc.cursor THEN acc.kept \cup {piece} ELSE acc.kept
    <2>1. cut = [cursor |-> block.until, kept |-> kept]
      <3>1. ~(block.from >= window.until \/ block.until <= acc.cursor)
        BY <1>1, <1>11
      <3>2. Later(acc.cursor, block.until) = block.until
        BY <1>1, <1>11 DEF Later
      <3> QED
        BY <3>1, <3>2 DEF Cut
    <2>2. cut.cursor = block.until /\ cut.kept = kept
      BY <2>1
    <2>3. block.from > acc.cursor => piece \in Spans
      BY <1>1 DEF Spans, Bounds
    <2>4. kept \in SUBSET Spans /\ IsFiniteSet(kept)
      BY <1>2, <2>3, FS_AddElement
    <2>5. \A i \in acc.kept : ~Overlap(i, piece) /\ ~Overlap(piece, i)
      BY <1>1, <1>2, <1>7 DEF Overlap
    <2>6. NoOverlaps(kept)
      BY <1>2, <2>5 DEF NoOverlaps
    <2>7. \A i \in kept : window.from <= i.from /\ i.until <= block.until /\ i.until <= window.until
      <3> SUFFICES ASSUME NEW i \in kept
                   PROVE  window.from <= i.from /\ i.until <= block.until /\ i.until <= window.until
        OBVIOUS
      <3>1. CASE i \in acc.kept
        BY <1>1, <1>2, <1>7, <1>11, <3>1
      <3>2. CASE i = piece /\ block.from > acc.cursor
        BY <1>1, <1>11, <3>2
      <3> QED
        BY <3>1, <3>2
    <2>8. \A j \in 1..n : blocks[j].until <= block.until \/ window.until <= blocks[j].from
      BY <1>1, <1>4, <1>8, <1>9, <1>11
    <2>9. ASSUME NEW m \in Int, Within(window, m), m < block.until
          PROVE  (\E i \in kept : Within(i, m)) <=> ~\E j \in 1..n : Within(blocks[j], m)
      <3>1. CASE m < acc.cursor
        <4>1. acc.cursor # window.from
          BY <1>1, <2>9, <3>1 DEF Within
        <4>2. acc.cursor <= block.from
          BY <1>3, <4>1
        <4>3. ~Within(block, m) /\ ~Within(piece, m)
          BY <1>1, <3>1, <4>2 DEF Within
        <4>4. (\E i \in kept : Within(i, m)) <=> (\E i \in acc.kept : Within(i, m))
          BY <4>3
        <4> QED
          BY <1>5, <1>8, <2>9, <3>1, <4>3, <4>4
      <3>2. CASE ~(m < acc.cursor)
        <4>1. \A i \in acc.kept : ~Within(i, m)
          BY <1>1, <1>2, <1>7, <3>2 DEF Within
        <4>2. \A j \in 1..n - 1 : ~Within(blocks[j], m)
          <5> SUFFICES ASSUME NEW j \in 1..n - 1
                       PROVE  ~Within(blocks[j], m)
            OBVIOUS
          <5>1. j \in 1..Len(blocks) /\ (blocks[j].until <= acc.cursor \/ window.until <= blocks[j].from)
            BY <1>4, <1>8
          <5>2. blocks[j].from \in Int /\ blocks[j].until \in Int
            BY <1>9, <5>1
          <5>3. m < window.until /\ acc.cursor <= m
            BY <1>1, <2>9, <3>2 DEF Within
          <5> QED
            BY <1>1, <5>1, <5>2, <5>3 DEF Within
        <4>3. (\E j \in 1..n : Within(blocks[j], m)) <=> Within(block, m)
          BY <1>8, <4>2
        <4>4. (\E i \in kept : Within(i, m)) <=> (block.from > acc.cursor /\ Within(piece, m))
          BY <4>1
        <4>5. Within(block, m) <=> block.from <= m
          BY <1>1, <2>9 DEF Within
        <4>6. (block.from > acc.cursor /\ Within(piece, m)) <=> m < block.from
          BY <1>1, <3>2 DEF Within
        <4>7. block.from <= m <=> ~(m < block.from)
          BY <1>1
        <4> QED
          BY <4>3, <4>4, <4>5, <4>6, <4>7
      <3> QED
        BY <3>1, <3>2
    <2>10. \A m \in Int : (Within(window, m) /\ m < block.until) =>
               ((\E i \in kept : Within(i, m)) <=> ~\E j \in 1..n : Within(blocks[j], m))
      BY <2>9
    <2>11. block.until \in Int /\ window.from <= block.until
      BY <1>1, <1>11
    <2> HIDE DEF kept, cut, piece
    <2>12. Walked(window, blocks, n, cut)
      BY <1>6, <2>2, <2>4, <2>6, <2>7, <2>8, <2>10, <2>11 DEF Walked
    <2> QED
      BY <2>12 DEF cut
  <1> QED
    BY <1>1, <1>10, <1>11

\* The function that Walk is defined by exists.
LEMMA WalkIs ==
    ASSUME NEW window \in Spans, NEW blocks \in Seq(Spans)
    PROVE  LET first == [cursor |-> window.from, kept |-> {}] IN
           Walk(window, blocks) = [n \in 0..Len(blocks) |->
               IF n = 0 THEN first ELSE Cut(window, Walk(window, blocks)[n - 1], blocks[n])]
  <1> DEFINE N == Len(blocks)
             V == [cursor : Int, kept : SUBSET Spans]
             first == [cursor |-> window.from, kept |-> {}]
             step == [n \in 1..N |-> [acc \in V |-> Cut(window, acc, blocks[n])]]
             walk == Walk(window, blocks)
  <1>1. N \in Nat
    OBVIOUS
  <1>2. window.from \in Int
    BY DEF Spans, Bounds
  <1>3. first \in V
    BY <1>2
  <1>4. \A n \in 1..N : \A acc \in V : Cut(window, acc, blocks[n]) \in V
    <2> SUFFICES ASSUME NEW n \in 1..N, NEW acc \in V
                 PROVE  Cut(window, acc, blocks[n]) \in V
      OBVIOUS
    <2> DEFINE block == blocks[n]
    <2>1. block \in Spans
      OBVIOUS
    <2>2. block.from \in Int /\ block.until \in Int /\ acc.cursor \in Int /\ acc.kept \in SUBSET Spans
      BY <2>1 DEF Spans, Bounds
    <2>3. block.from > acc.cursor => [from |-> acc.cursor, until |-> block.from] \in Spans
      BY <2>2 DEF Spans, Bounds
    <2>4. Later(acc.cursor, block.until) \in Int
      BY <2>2 DEF Later
    <2> DEFINE kept == IF block.from > acc.cursor
                       THEN acc.kept \cup {[from |-> acc.cursor, until |-> block.from]}
                       ELSE acc.kept
    <2>5. kept \in SUBSET Spans
      BY <2>2, <2>3
    <2>6. Cut(window, acc, block) = acc
          \/ Cut(window, acc, block) = [cursor |-> Later(acc.cursor, block.until), kept |-> kept]
      BY DEF Cut
    <2> HIDE DEF kept, block
    <2> QED
      BY <2>4, <2>5, <2>6 DEF block
  <1>5. step \in [1..N -> [V -> V]]
    BY <1>4
  <1> HIDE DEF V, step, first, N
  <1>6. \E f \in [0..N -> V] : Takes(f, N, first, step)
    BY <1>1, <1>3, <1>5, Recursion
  <1>7. PICK f \in [0..N -> V] : f[0] = first /\ \A n \in 1..N : f[n] = step[n][f[n - 1]]
    BY <1>6 DEF Takes
  <1>8. f = [n \in 0..N |-> IF n = 0 THEN first ELSE Cut(window, f[n - 1], blocks[n])]
    <2>1. \A n \in 1..N : f[n] = Cut(window, f[n - 1], blocks[n])
      <3> SUFFICES ASSUME NEW n \in 1..N
                   PROVE  f[n] = Cut(window, f[n - 1], blocks[n])
        OBVIOUS
      <3>1. n - 1 \in 0..N
        BY <1>1
      <3>2. f[n - 1] \in V /\ f[n] = step[n][f[n - 1]]
        BY <1>7, <3>1
      <3> QED
        BY <3>2 DEF step
    <2>2. \A n \in 0..N : n # 0 => n \in 1..N
      BY <1>1
    <2>3. \A n \in 0..N : f[n] = IF n = 0 THEN first ELSE Cut(window, f[n - 1], blocks[n])
      BY <1>7, <2>1, <2>2
    <2> QED
      BY <2>3
  <1>9. walk = [n \in 0..N |-> IF n = 0 THEN first ELSE Cut(window, walk[n - 1], blocks[n])]
    <2>1. f = [n \in 0..Len(blocks) |-> IF n = 0 THEN [cursor |-> window.from, kept |-> {}]
                                        ELSE Cut(window, f[n - 1], blocks[n])]
      BY <1>8 DEF first, N
    <2>2. walk = [n \in 0..Len(blocks) |-> IF n = 0 THEN [cursor |-> window.from, kept |-> {}]
                                           ELSE Cut(window, walk[n - 1], blocks[n])]
      BY <2>1 DEF Walk
    <2> QED
      BY <2>2 DEF first, N
  <1> QED
    BY <1>9 DEF first, N

\* The walk to the end of the blocks.
LEMMA WalkEnds ==
    ASSUME NEW window \in Spans, NEW blocks \in Seq(Spans), Lined(blocks)
    PROVE  Walked(window, blocks, Len(blocks), Walk(window, blocks)[Len(blocks)])
  <1> DEFINE N == Len(blocks)
             first == [cursor |-> window.from, kept |-> {}]
             walk == Walk(window, blocks)
             G == {n \in 0..N : Walked(window, blocks, n, walk[n])}
  <1>1. N \in Nat
    OBVIOUS
  <1>2. walk = [n \in 0..N |-> IF n = 0 THEN first ELSE Cut(window, walk[n - 1], blocks[n])]
    BY WalkIs
  <1>3. Walked(window, blocks, 0, first)
    <2>1. window.from \in Int
      BY DEF Spans, Bounds
    <2>2. first.cursor = window.from /\ first.kept = {}
      OBVIOUS
    <2>3. IsFiniteSet(first.kept)
      BY <2>2, FS_EmptySet
    <2>4. \A m \in Int : ~(Within(window, m) /\ m < first.cursor)
      BY <2>1, <2>2 DEF Within
    <2>5. NoOverlaps(first.kept)
      BY <2>2 DEF NoOverlaps
    <2> HIDE DEF first
    <2> QED
      BY <2>1, <2>2, <2>3, <2>4, <2>5 DEF Walked
  <1> HIDE DEF walk, first
  <1>4. 0 \in G
    BY <1>1, <1>2, <1>3
  <1>5. \A n \in 1..N : n - 1 \in G => n \in G
    <2> SUFFICES ASSUME NEW n \in 1..N, n - 1 \in G
                 PROVE  n \in G
      OBVIOUS
    <2>1. Walked(window, blocks, n - 1, walk[n - 1])
      OBVIOUS
    <2>2. n \in 0..N /\ n # 0
      BY <1>1
    <2>3. walk[n] = Cut(window, walk[n - 1], blocks[n])
      BY <1>2, <2>2
    <2>4. Walked(window, blocks, n, Cut(window, walk[n - 1], blocks[n]))
      BY <2>1, CutWalks
    <2> QED
      BY <2>2, <2>3, <2>4
  <1> HIDE DEF G
  <1>6. 0..N \subseteq G
    BY <1>1, <1>4, <1>5, Climbs
  <1>7. N \in G
    BY <1>1, <1>6
  <1> QED
    BY <1>7 DEF G, walk

\* What is left of a window: what no block takes, in pieces that keep apart.
LEMMA RestIs ==
    ASSUME NEW window \in Spans, NEW blocks \in Seq(Spans), Lined(blocks)
    PROVE  LET rest == Rest(window, blocks) IN
           /\ rest \in SUBSET Spans /\ IsFiniteSet(rest) /\ NoOverlaps(rest)
           /\ \A i \in rest : window.from <= i.from /\ i.until <= window.until
           /\ \A m \in Int : Within(window, m) =>
                 ((\E i \in rest : Within(i, m)) <=> ~\E j \in DOMAIN blocks : Within(blocks[j], m))
  <1> DEFINE N == Len(blocks)
             cut == Walk(window, blocks)[N]
             last == [from |-> cut.cursor, until |-> window.until]
             rest == Rest(window, blocks)
  <1>1. Walked(window, blocks, N, cut)
    BY WalkEnds
  <1>2. /\ window.from \in Int /\ window.until \in Int /\ window.from < window.until
        /\ \A j \in DOMAIN blocks : blocks[j].from \in Int /\ blocks[j].until \in Int
    BY DEF Spans, Bounds
  <1>3. rest = IF cut.cursor < window.until THEN cut.kept \cup {last} ELSE cut.kept
    BY DEF Rest
  <1>4. DOMAIN blocks = 1..N
    OBVIOUS
  <1> HIDE DEF cut, rest
  <1>5. /\ cut.cursor \in Int /\ window.from <= cut.cursor
        /\ cut.kept \in SUBSET Spans /\ IsFiniteSet(cut.kept) /\ NoOverlaps(cut.kept)
        /\ \A i \in cut.kept : window.from <= i.from /\ i.until <= cut.cursor /\ i.until <= window.until
    BY <1>1 DEF Walked
  <1>6. \A j \in DOMAIN blocks : blocks[j].until <= cut.cursor \/ window.until <= blocks[j].from
    BY <1>1, <1>4 DEF Walked
  <1>7. \A m \in Int : (Within(window, m) /\ m < cut.cursor) =>
            ((\E i \in cut.kept : Within(i, m)) <=> ~\E j \in DOMAIN blocks : Within(blocks[j], m))
    BY <1>1, <1>4 DEF Walked
  <1>8. \A i \in cut.kept : i.from \in Int /\ i.until \in Int /\ i.from < i.until
    BY <1>5 DEF Spans, Bounds
  <1>9. cut.cursor < window.until => last \in Spans
    BY <1>2, <1>5 DEF Spans, Bounds
  <1>10. rest \in SUBSET Spans /\ IsFiniteSet(rest)
    BY <1>3, <1>5, <1>9, FS_AddElement
  <1>11. \A i \in cut.kept : ~Overlap(i, last) /\ ~Overlap(last, i)
    BY <1>2, <1>5, <1>8 DEF Overlap
  <1>12. NoOverlaps(rest)
    BY <1>3, <1>5, <1>11 DEF NoOverlaps
  <1>13. \A i \in rest : window.from <= i.from /\ i.until <= window.until
    BY <1>2, <1>3, <1>5
  <1>14. ASSUME NEW m \in Int, Within(window, m)
         PROVE  (\E i \in rest : Within(i, m)) <=> ~\E j \in DOMAIN blocks : Within(blocks[j], m)
    <2>1. CASE m < cut.cursor
      <3>1. ~Within(last, m)
        BY <1>5, <2>1 DEF Within
      <3>2. (\E i \in rest : Within(i, m)) <=> (\E i \in cut.kept : Within(i, m))
        BY <1>3, <3>1
      <3> QED
        BY <1>7, <1>14, <2>1, <3>2
    <2>2. CASE ~(m < cut.cursor)
      <3>1. m < window.until /\ cut.cursor <= m
        BY <1>5, <1>14, <2>2 DEF Within
      <3>2. cut.cursor < window.until /\ Within(last, m)
        BY <1>2, <1>5, <3>1 DEF Within
      <3>3. \E i \in rest : Within(i, m)
        BY <1>3, <3>2
      <3>4. \A j \in DOMAIN blocks : ~Within(blocks[j], m)
        BY <1>2, <1>5, <1>6, <3>1 DEF Within
      <3> QED
        BY <3>3, <3>4
    <2> QED
      BY <2>1, <2>2
  <1> QED
    BY <1>10, <1>12, <1>13, <1>14 DEF rest

\* The values of a function of a finite domain.
LEMMA ValuesFinite ==
    ASSUME NEW f, IsFiniteSet(DOMAIN f)
    PROVE  IsFiniteSet({f[x] : x \in DOMAIN f})
  <1> DEFINE T == {f[x] : x \in DOMAIN f}
             g == [x \in DOMAIN f |-> f[x]]
  <1>1. g \in Surjection(DOMAIN f, T)
    BY DEF Surjection
  <1> QED
    BY <1>1, FS_Surjection

\* What is in a list of intervals that are in order is in its minutes.
LEMMA MinutesOf ==
    ASSUME NEW list \in Seq(Spans)
    PROVE  /\ Minutes(list) \subseteq Int
           /\ \A m \in Int : m \in Minutes(list) <=> \E i \in Entries(list) : Within(i, m)
  <1>1. \A n \in DOMAIN list : list[n].from \in Int /\ list[n].until \in Int
    BY DEF Spans, Bounds
  <1>2. \A n \in DOMAIN list : \A m : m \in list[n].from .. list[n].until - 1
                                          <=> m \in Int /\ Within(list[n], m)
    BY <1>1 DEF Within
  <1> QED
    BY <1>2 DEF Minutes, Entries

\* Subtracting blocks from hours leaves the minutes of the hours that no block
\* takes, in order.
LEMMA Subtracted ==
    ASSUME NEW working \in Seq(Spans), Lined(working), NEW blocked \in Seq(Spans), Lined(blocked)
    PROVE  LET left == SubtractIntervals(working, blocked) IN
           /\ left \in Seq(Spans) /\ Lined(left)
           /\ Minutes(left) = Minutes(working) \ Minutes(blocked)
  <1> DEFINE rests == [n \in DOMAIN working |-> Rest(working[n], blocked)]
             parts == {rests[n] : n \in DOMAIN working}
             S == UNION parts
             left == InOrder(S)
  <1>1. Sorted(blocked) = blocked
    BY SortedStays
  <1>2. SubtractIntervals(working, blocked) = left
    <2>1. {rests[n] : n \in DOMAIN working} = {Rest(working[n], blocked) : n \in DOMAIN working}
      OBVIOUS
    <2> QED
      BY <1>1, <2>1 DEF SubtractIntervals
  <1>3. DOMAIN working = 1..Len(working) /\ Len(working) \in Nat
        /\ \A n \in DOMAIN working : working[n] \in Spans
    OBVIOUS
  <1>4. \A n \in DOMAIN working :
            /\ rests[n] \in SUBSET Spans /\ IsFiniteSet(rests[n]) /\ NoOverlaps(rests[n])
            /\ \A i \in rests[n] : working[n].from <= i.from /\ i.until <= working[n].until
            /\ \A m \in Int : Within(working[n], m) =>
                  ((\E i \in rests[n] : Within(i, m))
                      <=> ~\E j \in DOMAIN blocked : Within(blocked[j], m))
    <2> SUFFICES ASSUME NEW n \in DOMAIN working
                 PROVE  /\ rests[n] \in SUBSET Spans /\ IsFiniteSet(rests[n]) /\ NoOverlaps(rests[n])
                        /\ \A i \in rests[n] : working[n].from <= i.from /\ i.until <= working[n].until
                        /\ \A m \in Int : Within(working[n], m) =>
                              ((\E i \in rests[n] : Within(i, m))
                                  <=> ~\E j \in DOMAIN blocked : Within(blocked[j], m))
      OBVIOUS
    <2>1. rests[n] = Rest(working[n], blocked) /\ working[n] \in Spans
      BY <1>3
    <2> QED
      BY <2>1, RestIs
  <1>5. DOMAIN rests = DOMAIN working
    OBVIOUS
  <1> HIDE DEF rests
  <1>6. IsFiniteSet(parts)
    <2>1. IsFiniteSet(DOMAIN rests)
      BY <1>3, <1>5, FS_Interval
    <2> QED
      BY <1>5, <2>1, ValuesFinite
  <1>7. IsFiniteSet(S)
    BY <1>4, <1>6, FS_UNION
  <1>8. S \in SUBSET Spans
    BY <1>4
  <1>9. NoOverlaps(S)
    <2> SUFFICES ASSUME NEW g \in S, NEW h \in S, g # h
                 PROVE  ~Overlap(g, h)
      BY DEF NoOverlaps
    <2>1. PICK m \in DOMAIN working : g \in rests[m]
      OBVIOUS
    <2>2. PICK n \in DOMAIN working : h \in rests[n]
      OBVIOUS
    <2>3. CASE m = n
      BY <1>4, <2>1, <2>2, <2>3 DEF NoOverlaps
    <2>4. CASE m # n
      <3>1. working[m].until <= working[n].from \/ working[n].until <= working[m].from
        BY <1>3, <2>4 DEF Lined
      <3>2. /\ working[m].from <= g.from /\ g.until <= working[m].until
            /\ working[n].from <= h.from /\ h.until <= working[n].until
        BY <1>4, <2>1, <2>2
      <3>3. g \in Spans /\ h \in Spans /\ working[m] \in Spans /\ working[n] \in Spans
        BY <1>3, <1>8
      <3>4. /\ g.from \in Int /\ g.until \in Int /\ h.from \in Int /\ h.until \in Int
            /\ working[m].from \in Int /\ working[m].until \in Int
            /\ working[n].from \in Int /\ working[n].until \in Int
        BY <3>3 DEF Spans, Bounds
      <3> QED
        BY <3>1, <3>2, <3>4 DEF Overlap
    <2> QED
      BY <2>3, <2>4
  <1>10. left \in Seq(Spans) /\ Lined(left) /\ Entries(left) = S
    BY <1>7, <1>8, <1>9, OrderExists
  <1> HIDE DEF left
  <1>11. \A m \in Int : m \in Minutes(left) <=> m \in Minutes(working) \ Minutes(blocked)
    <2> SUFFICES ASSUME NEW m \in Int
                 PROVE  m \in Minutes(left) <=> m \in Minutes(working) \ Minutes(blocked)
      OBVIOUS
    <2>1. m \in Minutes(left) <=> \E i \in S : Within(i, m)
      BY <1>10, MinutesOf
    <2>2. m \in Minutes(working) <=> \E n \in DOMAIN working : Within(working[n], m)
      BY MinutesOf DEF Entries
    <2>3. m \in Minutes(blocked) <=> \E j \in DOMAIN blocked : Within(blocked[j], m)
      BY MinutesOf DEF Entries
    <2>4. (\E i \in S : Within(i, m)) <=> (\E n \in DOMAIN working : \E i \in rests[n] : Within(i, m))
      OBVIOUS
    <2>5. \A n \in DOMAIN working : (\E i \in rests[n] : Within(i, m)) => Within(working[n], m)
      <3> SUFFICES ASSUME NEW n \in DOMAIN working, NEW i \in rests[n], Within(i, m)
                   PROVE  Within(working[n], m)
        OBVIOUS
      <3>1. working[n].from <= i.from /\ i.until <= working[n].until
        BY <1>4
      <3>2. i \in Spans /\ working[n] \in Spans
        BY <1>3, <1>4
      <3>3. /\ i.from \in Int /\ i.until \in Int
            /\ working[n].from \in Int /\ working[n].until \in Int
        BY <3>2 DEF Spans, Bounds
      <3> QED
        BY <3>1, <3>3 DEF Within
    <2>6. \A n \in DOMAIN working : Within(working[n], m) =>
              ((\E i \in rests[n] : Within(i, m))
                  <=> ~\E j \in DOMAIN blocked : Within(blocked[j], m))
      BY <1>4
    <2> HIDE DEF S
    <2> QED
      BY <2>1, <2>2, <2>3, <2>4, <2>5, <2>6
  <1>12. Minutes(left) \subseteq Int /\ Minutes(working) \subseteq Int
    BY <1>10, MinutesOf
  <1>13. Minutes(left) = Minutes(working) \ Minutes(blocked)
    BY <1>11, <1>12
  <1> QED
    BY <1>2, <1>10, <1>13

\* What the layers leave of the hours.
LEMMA HoursOpen ==
    ASSUME ScheduleFits, ScheduleInv, NEW r \in Resources, NEW d \in Dates
    PROVE  /\ Schedule(stored, r, d) \in Seq(Spans) /\ Lined(Schedule(stored, r, d))
           /\ Minutes(Schedule(stored, r, d)) = OpenMinutes(r, d)
  <1> DEFINE w == WeekdayOf[d]
             onDate == meant[ResourceDate(r, d)]
             forAll == meant[OrganizationDate(d)]
             weekly == meant[ResourceWeekly(r, w)]
             hours == meant[OrganizationWeekly(w)]
             list == Schedule(stored, r, d)
  <1>1. /\ ResourceDate(r, d) \in Keys /\ OrganizationDate(d) \in Keys
        /\ ResourceWeekly(r, w) \in Keys /\ OrganizationWeekly(w) \in Keys
    BY DEF Keys, Weekdays
  <1>2. list = ResolveAvailabilityLayers(hours.intervals, weekly, forAll, onDate)
    BY <1>1, KeysShow DEF Schedule
  <1>3. /\ onDate.intervals \in Seq(Spans) /\ Lined(onDate.intervals)
        /\ forAll.intervals \in Seq(Spans) /\ Lined(forAll.intervals)
        /\ weekly.intervals \in Seq(Spans) /\ Lined(weekly.intervals)
        /\ hours.intervals \in Seq(Spans) /\ Lined(hours.intervals)
    BY <1>1 DEF ScheduleInv, HoursKept, Answer
  <1>4. <<>> \in Seq(Spans) /\ Lined(<<>>) /\ Minutes(<<>>) = {}
    BY DEF Lined, Minutes
  <1>5. OpenMinutes(r, d) =
            IF forAll.mode = "closed" THEN {}
            ELSE IF onDate.mode # "inherit" THEN Minutes(onDate.intervals)
            ELSE IF forAll.mode # "inherit" THEN Minutes(forAll.intervals)
            ELSE IF weekly.mode # "inherit" THEN Minutes(weekly.intervals)
            ELSE Minutes(hours.intervals)
    <2> DEFINE layers == <<ResourceDate(r, d), OrganizationDate(d), ResourceWeekly(r, w)>>
               says(n) == meant[layers[n]].mode # "inherit"
               first == {n \in DOMAIN layers : says(n) /\ \A k \in 1..n - 1 : ~says(k)}
    <2>1. /\ DOMAIN layers = {1, 2, 3} /\ 1..1 - 1 = {} /\ 1..2 - 1 = {1} /\ 1..3 - 1 = {1, 2}
          /\ meant[layers[1]] = onDate /\ meant[layers[2]] = forAll /\ meant[layers[3]] = weekly
      OBVIOUS
    <2>2. OpenMinutes(r, d) =
              IF forAll.mode = "closed" THEN {}
              ELSE IF first = {} THEN Minutes(hours.intervals)
              ELSE UNION {Minutes(meant[layers[n]].intervals) : n \in first}
      BY DEF OpenMinutes
    <2> HIDE DEF layers
    <2>3. /\ says(1) <=> onDate.mode # "inherit"
          /\ says(2) <=> forAll.mode # "inherit"
          /\ says(3) <=> weekly.mode # "inherit"
      BY <2>1
    <2>4. first = {n \in {1, 2, 3} : says(n) /\ \A k \in 1..n - 1 : ~says(k)}
      BY <2>1
    <2>0. /\ first \subseteq {1, 2, 3}
          /\ 1 \in first <=> says(1)
          /\ 2 \in first <=> (says(2) /\ ~says(1))
          /\ 3 \in first <=> (says(3) /\ ~says(1) /\ ~says(2))
      <3> HIDE DEF says
      <3> QED
        BY <2>1, <2>4
    <2> HIDE DEF says, first, onDate, forAll, weekly, hours
    <2>5. CASE says(1)
      <3>1. first = {1}
        BY <2>0, <2>5
      <3> QED
        BY <2>1, <2>2, <2>3, <2>5, <3>1
    <2>6. CASE ~says(1) /\ says(2)
      <3>1. first = {2}
        BY <2>0, <2>6
      <3> QED
        BY <2>1, <2>2, <2>3, <2>6, <3>1
    <2>7. CASE ~says(1) /\ ~says(2) /\ says(3)
      <3>1. first = {3}
        BY <2>0, <2>7
      <3> QED
        BY <2>1, <2>2, <2>3, <2>7, <3>1
    <2>8. CASE ~says(1) /\ ~says(2) /\ ~says(3)
      <3>1. first = {}
        BY <2>0, <2>8
      <3> QED
        BY <2>1, <2>2, <2>3, <2>8, <3>1
    <2> QED
      BY <2>5, <2>6, <2>7, <2>8
  <1> HIDE DEF onDate, forAll, weekly, hours
  <1>6. list = IF forAll.mode = "closed" THEN <<>>
               ELSE IF onDate.mode # "inherit" THEN onDate.intervals
               ELSE IF forAll.mode # "inherit" THEN forAll.intervals
               ELSE IF weekly.mode # "inherit" THEN weekly.intervals
               ELSE hours.intervals
    BY <1>2 DEF ResolveAvailabilityLayers, Override
  <1> HIDE DEF list
  <1>7. list \in Seq(Spans) /\ Lined(list) /\ Minutes(list) = OpenMinutes(r, d)
    BY <1>3, <1>4, <1>5, <1>6
  <1> QED
    BY <1>7 DEF list

\* The blocks of a date, as they are cut out of the hours.
LEMMA BlocksTaken ==
    ASSUME ScheduleInv, NEW r \in Resources, NEW d \in Dates
    PROVE  /\ BlocksOf(stored, r, d) \in Seq(Spans) /\ Lined(BlocksOf(stored, r, d))
           /\ Minutes(BlocksOf(stored, r, d)) = BlockedMinutes(BlocksAt(r, d))
  <1> DEFINE B == BlocksAt(r, d)
             shape == [b \in B |-> [from |-> b.from, until |-> b.until]]
             S == {shape[b] : b \in B}
             list == InOrder(S)
  <1>1. /\ B \subseteq stored.blocks /\ IsFiniteSet(stored.blocks)
        /\ \A b, c \in B : b # c => ~Overlap(b, c)
        /\ \A b \in B : IsMinuteInterval(b)
    BY DEF ScheduleInv, BlocksKept, BlocksAt
  <1>2. BlocksOf(stored, r, d) = list
    <2>1. S = {[from |-> b.from, until |-> b.until] : b \in B}
      OBVIOUS
    <2> QED
      BY <2>1 DEF BlocksOf, BlocksAt
  <1>3. \A b \in B : b.from \in Int /\ b.until \in Int /\ b.from < b.until
    BY <1>1 DEF IsMinuteInterval
  <1>4. \A b \in B : shape[b].from = b.from /\ shape[b].until = b.until /\ shape[b] \in Spans
    BY <1>3 DEF Spans, Bounds
  <1>5. DOMAIN shape = B
    OBVIOUS
  <1> HIDE DEF B, shape
  <1>6. S \in SUBSET Spans
    BY <1>4
  <1>7. IsFiniteSet(S)
    <2>1. IsFiniteSet(B)
      BY <1>1, FS_Subset
    <2> QED
      BY <1>5, <2>1, ValuesFinite
  <1>8. NoOverlaps(S)
    <2> SUFFICES ASSUME NEW b \in B, NEW c \in B, shape[b] # shape[c]
                 PROVE  ~Overlap(shape[b], shape[c])
      BY DEF NoOverlaps
    <2>1. ~Overlap(b, c)
      BY <1>1
    <2> QED
      BY <1>4, <2>1 DEF Overlap
  <1>9. list \in Seq(Spans) /\ Lined(list) /\ Entries(list) = S
    BY <1>6, <1>7, <1>8, OrderExists
  <1> HIDE DEF list
  <1>10. \A m \in Int : m \in Minutes(list) <=> \E b \in B : Within(b, m)
    <2>1. \A m \in Int : m \in Minutes(list) <=> \E i \in S : Within(i, m)
      BY <1>9, MinutesOf
    <2>2. \A m \in Int : \A b \in B : Within(shape[b], m) <=> Within(b, m)
      BY <1>4 DEF Within
    <2> QED
      BY <2>1, <2>2
  <1>11. \A m : m \in BlockedMinutes(B) <=> (m \in Int /\ \E b \in B : Within(b, m))
    <2>1. \A b \in B : \A m : m \in b.from .. b.until - 1 <=> (m \in Int /\ Within(b, m))
      BY <1>3 DEF Within
    <2> QED
      BY <2>1 DEF BlockedMinutes
  <1>12. Minutes(list) \subseteq Int
    BY <1>9, MinutesOf
  <1>13. Minutes(list) = BlockedMinutes(B)
    BY <1>10, <1>11, <1>12
  <1> QED
    BY <1>2, <1>9, <1>13 DEF B

\* The open minutes are minutes of the day.
LEMMA OpenInDay ==
    ASSUME ScheduleFits, ScheduleInv, NEW r \in Resources, NEW d \in Dates
    PROVE  OpenMinutes(r, d) \subseteq Minute
  <1>1. ASSUME NEW k \in Keys
        PROVE  Minutes(meant[k].intervals) \subseteq Minute
    <2> DEFINE list == meant[k].intervals
    <2>1. \A n \in DOMAIN list : IsMinuteInterval(list[n])
      BY DEF ScheduleInv, HoursKept, Answer
    <2>2. Day \in Nat
      BY DEF ScheduleFits
    <2> SUFFICES ASSUME NEW n \in DOMAIN list, NEW m \in list[n].from .. list[n].until - 1
                 PROVE  m \in Minute
      BY DEF Minutes
    <2>3. list[n].from \in 0..Day - 1 /\ list[n].until \in 1..Day
      BY <2>1 DEF IsMinuteInterval
    <2> HIDE DEF list
    <2> QED
      BY <2>2, <2>3 DEF Minute
  <1>2. /\ ResourceDate(r, d) \in Keys /\ OrganizationDate(d) \in Keys
        /\ ResourceWeekly(r, WeekdayOf[d]) \in Keys /\ OrganizationWeekly(WeekdayOf[d]) \in Keys
    BY DEF Keys, Weekdays
  <1> DEFINE layers == <<ResourceDate(r, d), OrganizationDate(d), ResourceWeekly(r, WeekdayOf[d])>>
  <1>3. \A n \in DOMAIN layers : layers[n] \in Keys
    BY <1>2
  <1>4. \A n \in DOMAIN layers : Minutes(meant[layers[n]].intervals) \subseteq Minute
    BY <1>1, <1>3
  <1> QED
    BY <1>1, <1>2, <1>4 DEF OpenMinutes

\* The working windows of a date.
LEMMA WindowsOpen ==
    ASSUME ScheduleFits, ScheduleInv, NEW r \in Resources, NEW d \in Dates
    PROVE  LET windows == WorkingWindows(stored, r, d) IN
           /\ windows \in Seq(Spans) /\ Lined(windows)
           /\ Minutes(windows) = OpenMinutes(r, d) \ BlockedMinutes(BlocksAt(r, d))
  <1>1. /\ Schedule(stored, r, d) \in Seq(Spans) /\ Lined(Schedule(stored, r, d))
        /\ Minutes(Schedule(stored, r, d)) = OpenMinutes(r, d)
    BY HoursOpen
  <1>2. /\ BlocksOf(stored, r, d) \in Seq(Spans) /\ Lined(BlocksOf(stored, r, d))
        /\ Minutes(BlocksOf(stored, r, d)) = BlockedMinutes(BlocksAt(r, d))
    BY BlocksTaken
  <1>3. WorkingWindows(stored, r, d)
            = SubtractIntervals(Schedule(stored, r, d), BlocksOf(stored, r, d))
    BY DEF WorkingWindows
  <1>4. LET left == SubtractIntervals(Schedule(stored, r, d), BlocksOf(stored, r, d)) IN
        /\ left \in Seq(Spans) /\ Lined(left)
        /\ Minutes(left) = Minutes(Schedule(stored, r, d)) \ Minutes(BlocksOf(stored, r, d))
    BY <1>1, <1>2, Subtracted
  <1> QED
    BY <1>1, <1>2, <1>3, <1>4

\* The minutes of the windows, for whoever may see the blocks.
LEMMA WindowsFollow == ASSUME ScheduleFits, ScheduleInv PROVE WindowsAreOpenMinutes
  <1> SUFFICES ASSUME NEW r \in Resources, NEW d \in Dates
               PROVE  LET windows == WorkingWindows(stored, r, d) IN
                      /\ \A actor \in Actors : r \in ListManageableScheduleResources(actor) =>
                            Minutes(windows)
                                = OpenMinutes(r, d) \ BlockedMinutes(ListResourceTimeBlocks(actor, r, d))
                      /\ \A n \in DOMAIN windows : windows[n].from < windows[n].until
                      /\ \A n \in 1..Len(windows) - 1 : windows[n].until <= windows[n + 1].from
    BY DEF WindowsAreOpenMinutes
  <1> DEFINE windows == WorkingWindows(stored, r, d)
  <1>1. /\ windows \in Seq(Spans) /\ Lined(windows)
        /\ Minutes(windows) = OpenMinutes(r, d) \ BlockedMinutes(BlocksAt(r, d))
    BY WindowsOpen
  <1> HIDE DEF windows
  <1>2. \A actor \in Actors : r \in ListManageableScheduleResources(actor) =>
            ListResourceTimeBlocks(actor, r, d) = BlocksAt(r, d)
    BY DEF ListManageableScheduleResources, ListResourceTimeBlocks
  <1>3. \A n \in DOMAIN windows : windows[n].from < windows[n].until
    BY <1>1 DEF Spans
  <1>4. \A n \in 1..Len(windows) - 1 : windows[n].until <= windows[n + 1].from
    BY <1>1 DEF Lined
  <1> QED
    BY <1>1, <1>2, <1>3, <1>4 DEF windows

\* A start passes the fit, the bookings and the notice before it is offered.
LEMMA OffersFollow == ASSUME ScheduleFits, ScheduleInv PROVE OfferedStartsAreFree
  <1> SUFFICES ASSUME NEW r \in Resources, NEW d \in Dates, Offered(stored, r, d, now) # Invalid,
                      NEW m \in Offered(stored, r, d, now)
               PROVE  /\ m .. m + Duration + Buffer - 1
                             \subseteq OpenMinutes(r, d) \ BlockedMinutes(BlocksAt(r, d))
                      /\ LocalBookingStartToUtc(d, m) >= now + stored.settings.notice
                      /\ \A b \in stored.bookings : b.resource = r =>
                            \A t \in b.from .. b.until - 1 :
                                t \notin LocalBookingStartToUtc(d, m) ..
                                             LocalBookingStartToUtc(d, m) + Duration + Buffer - 1
    BY DEF OfferedStartsAreFree
  <1> DEFINE windows == WorkingWindows(stored, r, d)
             starts == ConfiguredStarts(stored, r, d, Duration, Buffer)
             at == LocalBookingStartToUtc(d, m)
  <1>1. /\ windows \in Seq(Spans) /\ Lined(windows)
        /\ Minutes(windows) = OpenMinutes(r, d) \ BlockedMinutes(BlocksAt(r, d))
    BY WindowsOpen
  <1>2. m \in FreeStarts(stored, r, d, starts, Duration, Buffer)
        /\ at >= now + stored.settings.notice
    BY DEF Offered, PublicStarts, FilterStartsByPublicBookingWindow
  <1>3. /\ m \in starts /\ at # Invalid
        /\ \A b \in stored.bookings : b.resource = r =>
              ~Overlap(Occupied(d, m, Duration, Buffer), b)
    BY <1>2 DEF FreeStarts
  <1>4. PICK k \in DOMAIN windows : /\ m >= windows[k].from
                                    /\ m + Duration + Buffer <= windows[k].until
    BY <1>3 DEF ConfiguredStarts, FilterCandidateSlotStartsByServiceFit
  <1>5. \E n \in DOMAIN windows : m \in windows[n].from .. windows[n].until - 1
    BY <1>3 DEF ConfiguredStarts, FilterCandidateSlotStartsByServiceFit, GenerateCandidateSlotStarts
  <1> HIDE DEF windows
  <1>6. \A n \in DOMAIN windows : windows[n].from \in Int /\ windows[n].until \in Int
    BY <1>1 DEF Spans, Bounds
  <1>7. m \in Int /\ Duration \in Nat \ {0} /\ Buffer \in Nat
    BY <1>5, <1>6 DEF ScheduleFits
  <1>8. at \in Int
    BY <1>3, <1>7, InstantIs
  <1>9. m .. m + Duration + Buffer - 1 \subseteq Minutes(windows)
    <2> SUFFICES ASSUME NEW t \in m .. m + Duration + Buffer - 1
                 PROVE  t \in Minutes(windows)
      OBVIOUS
    <2>1. t \in windows[k].from .. windows[k].until - 1
      BY <1>4, <1>6, <1>7
    <2> QED
      BY <2>1 DEF Minutes
  <1>10. ASSUME NEW b \in stored.bookings, b.resource = r, NEW t \in b.from .. b.until - 1
         PROVE  t \notin at .. at + Duration + Buffer - 1
    <2>1. b.from \in Int /\ b.until \in Int
      BY DEF ScheduleInv, StoredTyped, BookingRows
    <2>2. /\ Occupied(d, m, Duration, Buffer).from = at
          /\ Occupied(d, m, Duration, Buffer).until = at + Duration + Buffer
      BY DEF Occupied
    <2>3. ~(at < b.until /\ b.from < at + Duration + Buffer)
      BY <1>3, <1>10, <2>2 DEF Overlap
    <2> HIDE DEF at
    <2> QED
      BY <1>7, <1>8, <2>1, <2>3
  <1> QED
    BY <1>1, <1>2, <1>9, <1>10

\* Every instant of the calendar is on one of its dates.
LEMMA DateIs ==
    ASSUME ScheduleFits, NEW t \in 0..MaxNow
    PROVE  DateAt(t) \in Dates
  <1>1. /\ LastDate \in Nat /\ MaxNow \in Nat /\ MaxNow < Elapsed[LastDate + 1]
        /\ Dates = 0..LastDate
    BY DEF ScheduleFits, Dates
  <1>2. \A d \in 0..LastDate + 1 : Elapsed[d] \in Int
    BY ElapsedIs
  <1>3. Elapsed[0] = 0
    <2>1. Elapsed = [d \in 0..LastDate + 1 |->
                        IF d = 0 THEN 0 ELSE Elapsed[d - 1] + Day + Shift[d - 1].by]
      BY ElapsedIs
    <2>2. 0 \in 0..LastDate + 1
      BY <1>1
    <2> QED
      BY <2>1, <2>2
  <1> DEFINE T == {d \in Dates : t < Elapsed[d + 1]}
  <1>4. T \subseteq Nat /\ LastDate \in T
    BY <1>1, <1>2
  <1>5. PICK d \in T : \A e \in T : d <= e
    <2> HIDE DEF T
    <2> QED
      BY <1>4, Least
  <1>6. d \in Dates /\ t < Elapsed[d + 1]
    BY <1>5
  <1>7. Elapsed[d] <= t
    <2>1. CASE d = 0
      BY <1>3, <2>1
    <2>2. CASE d # 0
      <3>1. d - 1 \in Dates /\ (d - 1) + 1 = d /\ ~(d <= d - 1)
        BY <1>1, <1>6, <2>2
      <3>2. d - 1 \notin T
        BY <1>5, <3>1
      <3>3. ~(t < Elapsed[d])
        BY <3>1, <3>2
      <3>4. Elapsed[d] \in Int
        BY <1>1, <1>2, <1>6
      <3> QED
        BY <3>3, <3>4
    <2> QED
      BY <2>1, <2>2
  <1>8. \E e \in Dates : Elapsed[e] <= t /\ t < Elapsed[e + 1]
    BY <1>6, <1>7
  <1> QED
    BY <1>8 DEF DateAt

\* The function that FirstPublicDate is defined by exists: from the last date
\* back to the first.
LEMMA SearchIs ==
    ASSUME ScheduleFits, NEW s, NEW r, NEW duration, NEW buffer, NEW t
    PROVE  LET last == DateAt(t) + s.settings.horizon
               search == FirstPublicDate(s, r, duration, buffer, t)
           IN  search = [d \in Dates |->
                   IF d > last THEN Invalid
                   ELSE IF PublicStarts(s, r, d, duration, buffer, t) # {} THEN d
                   ELSE IF d + 1 \in Dates THEN search[d + 1] ELSE Invalid]
  <1> DEFINE last == DateAt(t) + s.settings.horizon
             search == FirstPublicDate(s, r, duration, buffer, t)
             starts(d) == PublicStarts(s, r, d, duration, buffer, t)
             V == Dates \cup {Invalid}
             Try(d, v) == IF d > last THEN Invalid ELSE IF starts(d) # {} THEN d ELSE v
             first == Try(LastDate, Invalid)
             step == [n \in 1..LastDate |-> [v \in V |-> Try(LastDate - n, v)]]
  <1>1. LastDate \in Nat /\ Dates = 0..LastDate
    BY DEF ScheduleFits, Dates
  <1>2. \A d \in Dates : \A v \in V : Try(d, v) \in V
    OBVIOUS
  <1>3. first \in V
    BY <1>1, <1>2
  <1>4. step \in [1..LastDate -> [V -> V]]
    BY <1>1, <1>2
  <1> HIDE DEF V, Try, step, first
  <1>5. \E f \in [0..LastDate -> V] : Takes(f, LastDate, first, step)
    BY <1>1, <1>3, <1>4, Recursion
  <1>6. PICK f \in [0..LastDate -> V] : f[0] = first /\ \A n \in 1..LastDate : f[n] = step[n][f[n - 1]]
    BY <1>5 DEF Takes
  <1> DEFINE g == [d \in Dates |-> f[LastDate - d]]
  <1>7. \A d \in Dates : g[d] = Try(d, IF d + 1 \in Dates THEN g[d + 1] ELSE Invalid)
    <2> SUFFICES ASSUME NEW d \in Dates
                 PROVE  g[d] = Try(d, IF d + 1 \in Dates THEN g[d + 1] ELSE Invalid)
      OBVIOUS
    <2>1. CASE d = LastDate
      <3>1. d + 1 \notin Dates /\ LastDate - d = 0
        BY <1>1, <2>1
      <3> QED
        BY <1>6, <2>1, <3>1 DEF first
    <2>2. CASE d # LastDate
      <3> DEFINE n == LastDate - d
      <3>1. n \in 1..LastDate /\ n - 1 \in 0..LastDate /\ LastDate - n = d /\ d + 1 \in Dates
            /\ LastDate - (d + 1) = n - 1
        BY <1>1, <2>2
      <3>2. f[n - 1] \in V /\ f[n] = step[n][f[n - 1]]
        BY <1>6, <3>1
      <3>3. f[n] = Try(d, f[n - 1])
        BY <3>1, <3>2 DEF step
      <3>4. g[d + 1] = f[n - 1] /\ g[d] = f[n]
        BY <3>1
      <3> HIDE DEF g, n
      <3> QED
        BY <3>1, <3>3, <3>4
    <2> QED
      BY <2>1, <2>2
  <1>8. g = [d \in Dates |->
                IF d > last THEN Invalid
                ELSE IF starts(d) # {} THEN d
                ELSE IF d + 1 \in Dates THEN g[d + 1] ELSE Invalid]
    <2>1. DOMAIN g = Dates /\ g = [d \in Dates |-> g[d]]
      OBVIOUS
    <2> HIDE DEF g, starts, last
    <2> QED
      BY <1>7, <2>1 DEF Try
  <1> HIDE DEF g
  <1> QED
    BY <1>8 DEF FirstPublicDate

\* The search goes from a date to the one after it.
LEMMA NextFollows == ASSUME ScheduleFits, ScheduleInv PROVE NextDateIsFirst
  <1> SUFFICES ASSUME NEW r \in Resources
               PROVE  LET free == {e \in Dates : Offered(stored, r, e, now) \notin {Invalid, {}}} IN
                      \A d \in Dates :
                          LET found == NextPublicDate(stored, r, d, Duration, Buffer, now) IN
                          IF found = Invalid
                          THEN d >= DateAt(now) => \A e \in free : e < d
                          ELSE found \in free /\ found >= d /\ \A e \in d..found - 1 : e \notin free
    BY DEF NextDateIsFirst
  <1> DEFINE free == {e \in Dates : Offered(stored, r, e, now) \notin {Invalid, {}}}
             today == DateAt(now)
             last == today + stored.settings.horizon
             search == FirstPublicDate(stored, r, Duration, Buffer, now)
             Right(d) == IF search[d] = Invalid
                         THEN \A e \in free : e < d
                         ELSE search[d] \in free /\ search[d] >= d
                              /\ \A e \in d..search[d] - 1 : e \notin free
  <1>1. LastDate \in Nat /\ Dates = 0..LastDate /\ Invalid \notin Dates
    BY DEF ScheduleFits, Dates
  <1>2. today \in Dates
    BY DateIs DEF ScheduleInv, StoredTyped
  <1>3. stored.settings.horizon \in Nat
    BY DEF ScheduleInv, StoredTyped, ScheduleFits
  <1>4. last \in Int /\ today \in Int
    BY <1>1, <1>2, <1>3
  <1>5. \A e \in Dates : Offered(stored, r, e, now) = PublicStarts(stored, r, e, Duration, Buffer, now)
    BY DEF Offered
  <1>6. \A e \in Dates : (e < today \/ e > last) => Offered(stored, r, e, now) = Invalid
    BY DEF Offered, PublicStarts, FilterStartsByPublicBookingWindow
  <1>7. \A e \in Dates : (e >= today /\ e <= last) => Offered(stored, r, e, now) # Invalid
    <2> SUFFICES ASSUME NEW e \in Dates, e >= today, e <= last
                 PROVE  Offered(stored, r, e, now) # Invalid
      OBVIOUS
    <2> DEFINE configured == ConfiguredStarts(stored, r, e, Duration, Buffer)
               fs == FreeStarts(stored, r, e, configured, Duration, Buffer)
               windows == WorkingWindows(stored, r, e)
               offered == {m \in fs : LocalBookingStartToUtc(e, m) >= now + stored.settings.notice}
    <2>1. e \in Int
      BY <1>1
    <2>2. Offered(stored, r, e, now) = offered
      BY <1>4, <2>1 DEF Offered, PublicStarts, FilterStartsByPublicBookingWindow
    <2>3. offered \subseteq configured
      BY DEF FreeStarts
    <2>4. configured \subseteq Minutes(windows)
      BY DEF ConfiguredStarts, FilterCandidateSlotStartsByServiceFit,
             GenerateCandidateSlotStarts, Minutes
    <2>5. Minutes(windows) \subseteq OpenMinutes(r, e)
      BY WindowsOpen
    <2>6. OpenMinutes(r, e) \subseteq Minute
      BY OpenInDay
    <2>7. offered \in SUBSET Minute
      BY <2>3, <2>4, <2>5, <2>6
    <2> HIDE DEF offered
    <2> QED
      BY <2>2, <2>7 DEF ScheduleFits
  <1>8. \A e \in Dates : e >= today =>
            (e \in free <=> (e <= last /\ PublicStarts(stored, r, e, Duration, Buffer, now) # {}))
    BY <1>1, <1>4, <1>5, <1>6, <1>7
  <1>9. search = [d \in Dates |->
                    IF d > last THEN Invalid
                    ELSE IF PublicStarts(stored, r, d, Duration, Buffer, now) # {} THEN d
                    ELSE IF d + 1 \in Dates THEN search[d + 1] ELSE Invalid]
    BY SearchIs
  <1>10. free \subseteq Dates
    OBVIOUS
  <1> HIDE DEF free, last, search, today
  <1>11. \A d \in Dates : d >= today =>
             /\ d > last => search[d] = Invalid
             /\ (d <= last /\ d \in free) => search[d] = d
             /\ (d <= last /\ d \notin free /\ d + 1 \in Dates) => search[d] = search[d + 1]
             /\ (d <= last /\ d \notin free /\ d + 1 \notin Dates) => search[d] = Invalid
    <2> SUFFICES ASSUME NEW d \in Dates, d >= today
                 PROVE  /\ d > last => search[d] = Invalid
                        /\ (d <= last /\ d \in free) => search[d] = d
                        /\ (d <= last /\ d \notin free /\ d + 1 \in Dates) => search[d] = search[d + 1]
                        /\ (d <= last /\ d \notin free /\ d + 1 \notin Dates) => search[d] = Invalid
      OBVIOUS
    <2>1. search[d] = IF d > last THEN Invalid
                      ELSE IF PublicStarts(stored, r, d, Duration, Buffer, now) # {} THEN d
                      ELSE IF d + 1 \in Dates THEN search[d + 1] ELSE Invalid
      BY <1>9
    <2>2. d > last <=> ~(d <= last)
      BY <1>1, <1>4
    <2> QED
      BY <1>8, <2>1, <2>2
  <1> DEFINE G == {n \in 0..LastDate : LastDate - n >= today => Right(LastDate - n)}
  <1>12. ASSUME NEW d \in Dates, d >= today, d + 1 \in Dates => Right(d + 1)
         PROVE  Right(d)
    <2>1. d \in Int /\ \A e \in free : e \in Int
      BY <1>1, <1>10
    <2>2. CASE d > last
      <3>1. \A e \in free : e < d
        <4> SUFFICES ASSUME NEW e \in free, ~(e < d)
                     PROVE  FALSE
          OBVIOUS
        <4>1. e >= today /\ ~(e <= last) /\ e \in Dates
          BY <1>4, <1>10, <1>12, <2>1, <2>2
        <4> QED
          BY <1>8, <4>1
      <3> QED
        BY <1>11, <1>12, <2>2, <3>1
    <2>3. CASE d <= last /\ d \in free
      <3>1. search[d] = d /\ d # Invalid
        BY <1>1, <1>11, <1>12, <2>3
      <3>2. d..d - 1 = {}
        BY <2>1
      <3> QED
        BY <2>1, <2>3, <3>1, <3>2
    <2>4. CASE d <= last /\ d \notin free /\ d + 1 \in Dates
      <3>1. search[d] = search[d + 1] /\ Right(d + 1)
        BY <1>11, <1>12, <2>4
      <3>2. CASE search[d + 1] = Invalid
        <4>1. \A e \in free : e < d + 1
          BY <3>1, <3>2
        <4>2. \A e \in free : e < d
          BY <2>1, <2>4, <4>1
        <4> QED
          BY <3>1, <3>2, <4>2
      <3>3. CASE search[d + 1] # Invalid
        <4> DEFINE found == search[d + 1]
        <4>1. found \in free /\ found >= d + 1 /\ \A e \in d + 1..found - 1 : e \notin free
          BY <3>1, <3>3
        <4>2. \A e \in d..found - 1 : e = d \/ e \in d + 1..found - 1
          BY <2>1, <4>1
        <4>3. found >= d
          BY <2>1, <4>1
        <4> QED
          BY <2>4, <3>1, <3>3, <4>1, <4>2, <4>3
      <3> QED
        BY <3>2, <3>3
    <2>5. CASE d <= last /\ d \notin free /\ d + 1 \notin Dates
      <3>1. \A e \in free : e < d
        <4> SUFFICES ASSUME NEW e \in free
                     PROVE  e < d
          OBVIOUS
        <4>1. e \in Dates /\ e # d
          BY <1>10, <2>5
        <4>2. d = LastDate
          BY <1>1, <2>5
        <4> QED
          BY <1>1, <4>1, <4>2
      <3> QED
        BY <1>11, <1>12, <2>5, <3>1
    <2> QED
      BY <1>4, <2>1, <2>2, <2>3, <2>4, <2>5
  <1> HIDE DEF Right
  <1>13. 0 \in G
    <2>1. LastDate - 0 = LastDate /\ LastDate \in Dates /\ LastDate + 1 \notin Dates /\ 0 \in 0..LastDate
      BY <1>1
    <2> QED
      BY <1>12, <2>1
  <1>14. \A n \in 1..LastDate : n - 1 \in G => n \in G
    <2> SUFFICES ASSUME NEW n \in 1..LastDate, n - 1 \in G, LastDate - n >= today
                 PROVE  Right(LastDate - n)
      BY <1>1
    <2> DEFINE d == LastDate - n
    <2>1. d \in Dates /\ d + 1 = LastDate - (n - 1) /\ d + 1 >= today
      BY <1>1, <1>4
    <2>2. Right(d + 1)
      BY <2>1
    <2> QED
      BY <1>12, <2>1, <2>2
  <1>15. 0..LastDate \subseteq G
    <2> HIDE DEF G
    <2> QED
      BY <1>1, <1>13, <1>14, Climbs
  <1>16. \A d \in Dates : d >= today => Right(d)
    <2> SUFFICES ASSUME NEW d \in Dates, d >= today
                 PROVE  Right(d)
      OBVIOUS
    <2>1. LastDate - d \in 0..LastDate /\ LastDate - (LastDate - d) = d
      BY <1>1
    <2>2. LastDate - d \in G
      BY <1>15, <2>1
    <2> QED
      BY <2>1, <2>2
  <1> SUFFICES ASSUME NEW d \in Dates
               PROVE  LET found == NextPublicDate(stored, r, d, Duration, Buffer, now) IN
                      IF found = Invalid
                      THEN d >= DateAt(now) => \A e \in free : e < d
                      ELSE found \in free /\ found >= d /\ \A e \in d..found - 1 : e \notin free
    BY DEF free
  <1>17. CASE d < today
    <2>1. NextPublicDate(stored, r, d, Duration, Buffer, now) = Invalid
      BY <1>17 DEF NextPublicDate, today
    <2>2. ~(d >= today)
      BY <1>1, <1>4, <1>17
    <2> QED
      BY <2>1, <2>2 DEF today
  <1>18. CASE ~(d < today)
    <2>1. NextPublicDate(stored, r, d, Duration, Buffer, now) = search[d]
      BY <1>18 DEF NextPublicDate, today, search
    <2>2. d >= today
      BY <1>1, <1>4, <1>18
    <2>3. Right(d)
      BY <1>16, <2>2
    <2> QED
      BY <2>1, <2>3 DEF Right
  <1> QED
    BY <1>17, <1>18

\* The stored rows satisfy the foreign keys and check constraints of their tables
\* after any saves, bookings and cancellations.
THEOREM ScheduleTypes == ASSUME ScheduleFits PROVE ScheduleSpec => []ScheduleTypeOK
  BY ScheduleInvariance, TypesFollow, PTL

\* Whoever may read a schedule is shown what the last save of it answered, whatever
\* was saved before: the replace operations leave no row behind and lose none.
THEOREM SavedIsShown == ASSUME ScheduleFits PROVE ScheduleSpec => []ShownAsSaved
  BY ScheduleInvariance, ShownFollows, PTL

\* Hours of one day and blocks of one date never overlap.
THEOREM IntervalsStayApart == ASSUME ScheduleFits PROVE ScheduleSpec => []IntervalsApart
  BY ScheduleInvariance, ApartFollows, PTL

\* The working windows of a resource are exactly the minutes its layers leave open
\* and no block takes, in order: resolving the layers and subtracting the blocks
\* neither lose a minute nor invent one.
THEOREM WindowsOpenMinutes == ASSUME ScheduleFits PROVE ScheduleSpec => []WindowsAreOpenMinutes
  BY ScheduleInvariance, WindowsFollow, PTL

\* A start on offer has the time of the service and its buffer inside the open
\* hours, overlaps no booking in real time, whatever the clocks do, and keeps the
\* notice.
THEOREM OffersAreFree == ASSUME ScheduleFits PROVE ScheduleSpec => []OfferedStartsAreFree
  BY ScheduleInvariance, OffersFollow, PTL

\* The search for the next date with a free start skips none.
THEOREM NextIsFirst == ASSUME ScheduleFits PROVE ScheduleSpec => []NextDateIsFirst
  BY ScheduleInvariance, NextFollows, PTL

-----------------------------------------------------------------------------
(* Requests for organizations.                                             *)

USE NamedAssumption

-----------------------------------------------------------------------------
(* The inductive invariant.                                                *)

\* What an operation has read under its locks is so.
Holds(t) ==
    txn[t] # None =>
        /\ txn[t].op = "create" /\ txn[t].stage = "locked" => PendingOf(txn[t].user) = {}
        /\ txn[t].op \in {"approve", "reject"} =>
              /\ txn[t].request \in DOMAIN request
              /\ txn[t].stage # "begun" => request[txn[t].request].status = "pending"
        /\ txn[t].op = "approve" => txn[t].slug \in Slugs
        /\ txn[t].op = "reject" => txn[t].stage # "provisioned"
        /\ txn[t].stage = "provisioned" =>
              txn[t].slug \in Slugs /\ txn[t].slug \notin DOMAIN organization
ReadsHold == \A t \in Transactions : Holds(t)

\* No two transactions hold the same lock.
Apart(t, o) ==
    /\ LocksUser(t) \cap LocksUser(o) = {}
    /\ LocksRequest(t) \cap LocksRequest(o) = {}
    /\ HoldsSlug(t) \cap HoldsSlug(o) = {}
LocksKeepApart == \A t, o \in Transactions : t # o => Apart(t, o)

\* The organizations made by approvals are of requests that are there.
RequestsKnown ==
    \A s \in DOMAIN organization :
        organization[s].request # None => organization[s].request \in DOMAIN request

\* The outbox, event by event.
Told ==
    \A type \in EventTypes, r \in Requests :
        <<type, r>> \in event
            <=> r \in DOMAIN request /\ (type = "submitted" \/ type = request[r].status)

Data == TypeOK /\ NeverFails /\ OrganizationsComeFromApprovals /\ RequestsKnown /\ Told

IInv == Data /\ ReadsHold /\ LocksKeepApart

-----------------------------------------------------------------------------
(* One transaction takes a step.                                           *)

\* Only t goes on, as v.
Becomes(t, v) ==
    /\ txn' = [txn EXCEPT ![t] = v]
    /\ v \in Operation \cup {None}

\* A transaction that becomes v leaves every other transaction as it is.
LEMMA BecomesFacts ==
    ASSUME IInv, NEW t \in Transactions, NEW v, Becomes(t, v)
    PROVE  /\ txn' \in [Transactions -> Operation \cup {None}]
           /\ txn'[t] = v
           /\ \A o \in Transactions : o # t => txn'[o] = txn[o]
BY DEF Becomes, IInv, Data, TypeOK

\* What t writes it has locked.
WritesLocked(t) ==
    /\ \A user : user \notin LocksUser(t) => PendingOf(user)' \subseteq PendingOf(user)
    /\ \A r \in DOMAIN request :
          /\ r \in DOMAIN request'
          /\ r \notin LocksRequest(t) => request'[r] = request[r]
    /\ \A s \in DOMAIN organization' : s \notin HoldsSlug(t) => s \in DOMAIN organization

\* Its locks are its own, or were free.
LocksFree(t) ==
    /\ \A user \in LocksUser(t)' : user \in LocksUser(t) \/ UserFree(t, user)
    /\ \A r \in LocksRequest(t)' : r \in LocksRequest(t) \/ RequestFree(t, r)
    /\ \A s \in HoldsSlug(t)' : s \in HoldsSlug(t) \/ SlugFree(t, s)

\* The others keep their locks, and what they have read.
LEMMA OthersHold ==
    ASSUME IInv, NEW t \in Transactions, NEW v, Becomes(t, v), WritesLocked(t), LocksFree(t),
           Holds(t)'
    PROVE  ReadsHold' /\ LocksKeepApart'
<1>1. txn'[t] = v /\ \A o \in Transactions : o # t => txn'[o] = txn[o]
  BY BecomesFacts
<1>2. \A o \in Transactions : o # t =>
        /\ LocksUser(o)' = LocksUser(o) /\ LocksRequest(o)' = LocksRequest(o)
        /\ HoldsSlug(o)' = HoldsSlug(o)
  BY <1>1 DEF LocksUser, LocksRequest, HoldsSlug
<1>3. \A o \in Transactions : o # t => Apart(t, o)' /\ Apart(o, t)'
  BY <1>2 DEF IInv, LocksKeepApart, Apart, LocksFree, UserFree, RequestFree, SlugFree
<1>4. LocksKeepApart'
  <2> SUFFICES ASSUME NEW p \in Transactions, NEW o \in Transactions, p # o
               PROVE  Apart(p, o)'
    BY DEF LocksKeepApart
  <2>1. CASE p = t \/ o = t
    BY <1>3, <2>1
  <2>2. CASE p # t /\ o # t
    BY <1>2, <2>2 DEF IInv, LocksKeepApart, Apart
  <2> QED
    BY <2>1, <2>2
<1>5. ASSUME NEW o \in Transactions, o # t
      PROVE  Holds(o)'
  <2>1. txn'[o] = txn[o] /\ Holds(o)
    BY <1>1, <1>5 DEF IInv, ReadsHold
  <2>2. Apart(t, o)
    BY <1>5 DEF IInv, LocksKeepApart
  <2> SUFFICES ASSUME txn[o] # None PROVE Holds(o)'
    BY <2>1 DEF Holds
  <2>3. txn[o].op = "create" /\ txn[o].stage = "locked" => PendingOf(txn[o].user)' = {}
    <3> SUFFICES ASSUME txn[o].op = "create" /\ txn[o].stage = "locked"
                 PROVE  PendingOf(txn[o].user)' = {}
      OBVIOUS
    <3>1. PICK user : user = txn[o].user
      OBVIOUS
    <3>2. user \notin LocksUser(t) /\ PendingOf(user) = {}
      BY <2>1, <2>2, <3>1 DEF Apart, LocksUser, Holds
    <3>3. PendingOf(user)' = {}
      BY <3>2 DEF WritesLocked
    <3> QED
      BY <2>1, <3>1, <3>3 DEF PendingOf
  <2>4. txn[o].op \in {"approve", "reject"} =>
          /\ txn[o].request \in DOMAIN request'
          /\ txn[o].stage # "begun" => request'[txn[o].request].status = "pending"
    BY <2>1, <2>2 DEF Apart, LocksRequest, Holds, WritesLocked
  <2>5. txn[o].stage = "provisioned" =>
          txn[o].slug \in Slugs /\ txn[o].slug \notin DOMAIN organization'
    BY <2>1, <2>2 DEF Apart, HoldsSlug, Holds, WritesLocked
  <2> QED
    BY <2>1, <2>3, <2>4, <2>5 DEF Holds, PendingOf
<1> QED
  BY <1>4, <1>5 DEF ReadsHold

\* A step that writes no table.
LEMMA QuietKeepsIInv ==
    ASSUME IInv, NEW t \in Transactions, NEW v, Becomes(t, v), LocksFree(t), Holds(t)',
           UNCHANGED <<request, organization, event, failed>>
    PROVE  IInv'
<1>1. txn' \in [Transactions -> Operation \cup {None}]
  BY BecomesFacts
<1>2. Data'
  BY <1>1 DEF IInv, Data, TypeOK, NeverFails, OrganizationsComeFromApprovals, RequestsKnown, Told
<1>3. WritesLocked(t)
  BY DEF WritesLocked, PendingOf
<1> QED
  BY <1>2, <1>3, OthersHold DEF IInv

\* What is known of an operation under way.
LEMMA UnderWay ==
    ASSUME IInv, NEW t \in Transactions, txn[t] # None
    PROVE  /\ txn[t] \in Operation /\ Holds(t)
           /\ txn[t].op = "create" => txn[t] \in Creation
           /\ txn[t].op \in {"approve", "reject"} => txn[t] \in Decision
           /\ txn[t].op = "manual" => txn[t] \in Provision
           /\ txn[t].op \in {"create", "approve", "reject", "manual"}
<1>1. txn[t] \in Operation /\ Holds(t)
  BY DEF IInv, Data, TypeOK, ReadsHold
<1>2. CASE txn[t] \in Creation
  BY <1>1, <1>2 DEF Creation
<1>3. CASE txn[t] \in Decision
  BY <1>1, <1>3 DEF Decision
<1>4. CASE txn[t] \in Provision
  BY <1>1, <1>4 DEF Provision
<1> QED
  BY <1>1, <1>2, <1>3, <1>4 DEF Operation

\* An operation is no nothing.
LEMMA OperationIsSome ==
    ASSUME NEW v \in Operation
    PROVE  v # None
BY DEF Named

\* A transaction that ends holds nothing.
LEMMA EndsFree ==
    ASSUME IInv, NEW t \in Transactions, Becomes(t, None)
    PROVE  LocksFree(t) /\ Holds(t)'
<1>1. txn'[t] = None
  BY BecomesFacts
<1> QED
  BY <1>1 DEF LocksFree, Holds, LocksUser, LocksRequest, HoldsSlug

\* A transaction that ends holds nothing any more.
LEMMA EndBecomes ==
    ASSUME NEW t, End(t)
    PROVE  Becomes(t, None)
BY DEF End, Becomes

\* A refusal, or an end that writes nothing.
LEMMA EndKeepsIInv ==
    ASSUME IInv, NEW t \in Transactions, End(t),
           UNCHANGED <<request, organization, event, failed>>
    PROVE  IInv'
BY EndBecomes, EndsFree, QuietKeepsIInv

\* A transaction that begins holds nothing, either.
LEMMA BeginsFree ==
    ASSUME IInv, NEW t \in Transactions, NEW v, Becomes(t, v), v.stage = "begun"
    PROVE  LocksFree(t)
<1>1. txn'[t] = v
  BY BecomesFacts
<1> QED
  BY <1>1 DEF LocksFree, LocksUser, LocksRequest, HoldsSlug

-----------------------------------------------------------------------------
(* The beginnings.                                                         *)

\* An applicant's transaction begins without a lock.
LEMMA BeginRequestKeeps ==
    ASSUME IInv, NEW t \in Transactions, NEW user \in Users, BeginRequest(t, user)
    PROVE  IInv'
<1>1. PICK v : v = [op |-> "create", stage |-> "begun", user |-> user]
  OBVIOUS
<1>2. v \in Operation /\ v.stage = "begun" /\ v.op = "create"
  BY <1>1 DEF Operation, Creation
<1>3. Becomes(t, v) /\ UNCHANGED <<request, organization, event, failed>>
  BY <1>1, <1>2 DEF BeginRequest, Begin, Becomes
<1>4. txn'[t] = v
  BY <1>3, BecomesFacts
<1>5. Holds(t)'
  BY <1>2, <1>4 DEF Holds
<1> QED
  BY <1>2, <1>3, <1>5, BeginsFree, QuietKeepsIInv

\* So does a decision, for whatever request,
LEMMA BeginDecisionKeeps ==
    ASSUME IInv, NEW t \in Transactions, NEW op \in {"approve", "reject"},
           NEW admin \in Admins, NEW r \in Requests, NEW slug \in Slugs \cup {None},
           op = "approve" => slug \in Slugs, BeginDecision(t, op, admin, r, slug)
    PROVE  IInv'
<1>1. PICK v : v = [op |-> op, stage |-> "begun", user |-> admin, request |-> r, slug |-> slug]
  OBVIOUS
<1>2. /\ v \in Operation /\ v.stage = "begun" /\ v.op = op /\ v.request = r /\ v.slug = slug
  BY <1>1 DEF Operation, Decision
<1>3. Becomes(t, v) /\ UNCHANGED <<request, organization, event, failed>> /\ r \in DOMAIN request
  BY <1>1, <1>2 DEF BeginDecision, Begin, Becomes
<1>4. txn'[t] = v
  BY <1>3, BecomesFacts
<1>5. Holds(t)'
  BY <1>2, <1>3, <1>4 DEF Holds
<1> QED
  BY <1>2, <1>3, <1>5, BeginsFree, QuietKeepsIInv

\* and provisioning by hand, with no slug tried yet.
LEMMA BeginManualProvisionKeeps ==
    ASSUME IInv, NEW t \in Transactions, NEW owner \in Users,
           NEW name \in DOMAIN Candidates, BeginManualProvision(t, owner, name)
    PROVE  IInv'
<1>1. PICK v : v = [op |-> "manual", stage |-> "begun", user |-> owner, name |-> name,
                    tried |-> 0, slug |-> None]
  OBVIOUS
<1>2. v \in Operation /\ v.stage = "begun" /\ v.op = "manual"
  BY <1>1 DEF Operation, Provision
<1>3. Becomes(t, v) /\ UNCHANGED <<request, organization, event, failed>>
  BY <1>1, <1>2 DEF BeginManualProvision, Begin, Becomes
<1>4. txn'[t] = v
  BY <1>3, BecomesFacts
<1>5. Holds(t)'
  BY <1>2, <1>4 DEF Holds
<1> QED
  BY <1>2, <1>3, <1>5, BeginsFree, QuietKeepsIInv

-----------------------------------------------------------------------------
(* The locks.                                                              *)

\* The lock of an applicant without a pending request.
LEMMA LockApplicantKeeps ==
    ASSUME IInv, NEW t \in Transactions, LockApplicant(t)
    PROVE  IInv'
<1>1. /\ txn[t] # None /\ txn[t].op = "create" /\ txn[t].stage = "begun"
      /\ UserFree(t, txn[t].user) /\ UNCHANGED <<request, organization, event, failed>>
  BY DEF LockApplicant, Doing
<1>2. CASE End(t)
  BY <1>1, <1>2, EndKeepsIInv
<1>3. CASE PendingOf(txn[t].user) = {} /\ Stage(t, "locked")
  <2>1. PICK v : v = [txn[t] EXCEPT !.stage = "locked"]
    OBVIOUS
  <2>2. txn[t] \in Creation
    BY <1>1, UnderWay
  <2>3. v \in Creation /\ v.stage = "locked" /\ v.op = "create" /\ v.user = txn[t].user
    BY <2>1, <2>2 DEF Creation
  <2>4. Becomes(t, v)
    BY <1>3, <2>1, <2>3 DEF Stage, Becomes, Operation
  <2>5. txn'[t] = v
    BY <2>4, BecomesFacts
  <2>6. Holds(t)'
    BY <1>1, <1>3, <2>3, <2>5 DEF Holds, PendingOf
  <2>7. LocksFree(t)
    BY <1>1, <2>3, <2>5 DEF LocksFree, LocksUser, LocksRequest, HoldsSlug
  <2> QED
    BY <1>1, <2>4, <2>6, <2>7, QuietKeepsIInv
<1> QED
  BY <1>2, <1>3 DEF LockApplicant

\* The lock of a request that is pending.
LEMMA LockRequestKeeps ==
    ASSUME IInv, NEW t \in Transactions, LockRequest(t)
    PROVE  IInv'
<1>1. /\ txn[t] # None /\ txn[t].op \in {"approve", "reject"} /\ txn[t].stage = "begun"
      /\ RequestFree(t, txn[t].request) /\ UNCHANGED <<request, organization, event, failed>>
  BY DEF LockRequest, Doing
<1>2. CASE End(t)
  BY <1>1, <1>2, EndKeepsIInv
<1>3. CASE request[txn[t].request].status = "pending" /\ Stage(t, "locked")
  <2>1. PICK v : v = [txn[t] EXCEPT !.stage = "locked"]
    OBVIOUS
  <2>2. txn[t] \in Decision /\ Holds(t)
    BY <1>1, UnderWay
  <2>3. /\ v \in Decision /\ v.stage = "locked" /\ v.op = txn[t].op
        /\ v.request = txn[t].request /\ v.slug = txn[t].slug
    BY <2>1, <2>2 DEF Decision
  <2>4. Becomes(t, v)
    BY <1>3, <2>1, <2>3 DEF Stage, Becomes, Operation
  <2>5. txn'[t] = v
    BY <2>4, BecomesFacts
  <2>6. Holds(t)'
    BY <1>1, <1>3, <2>2, <2>3, <2>5 DEF Holds
  <2>7. LocksFree(t)
    BY <1>1, <2>3, <2>5 DEF LocksFree, LocksUser, LocksRequest, HoldsSlug
  <2> QED
    BY <1>1, <2>4, <2>6, <2>7, QuietKeepsIInv
<1> QED
  BY <1>2, <1>3 DEF LockRequest

\* The slug of an approval, if it is free.
LEMMA ProvisionRequestedKeeps ==
    ASSUME IInv, NEW t \in Transactions, ProvisionRequested(t)
    PROVE  IInv'
<1>1. /\ txn[t] # None /\ txn[t].op = "approve" /\ txn[t].stage = "locked"
      /\ SlugFree(t, txn[t].slug) /\ UNCHANGED <<request, organization, event, failed>>
  BY DEF ProvisionRequested, Doing
<1>2. CASE End(t)
  BY <1>1, <1>2, EndKeepsIInv
<1>3. CASE txn[t].slug \notin DOMAIN organization /\ Stage(t, "provisioned")
  <2>1. PICK v : v = [txn[t] EXCEPT !.stage = "provisioned"]
    OBVIOUS
  <2>2. txn[t] \in Decision /\ Holds(t)
    BY <1>1, UnderWay
  <2>3. /\ v \in Decision /\ v.stage = "provisioned" /\ v.op = "approve"
        /\ v.request = txn[t].request /\ v.slug = txn[t].slug
    BY <1>1, <2>1, <2>2 DEF Decision
  <2>4. Becomes(t, v)
    BY <1>3, <2>1, <2>3 DEF Stage, Becomes, Operation
  <2>5. txn'[t] = v
    BY <2>4, BecomesFacts
  <2>6. Holds(t)'
    BY <1>1, <1>3, <2>2, <2>3, <2>5 DEF Holds
  <2>7. LocksFree(t)
    BY <1>1, <2>3, <2>5 DEF LocksFree, LocksUser, LocksRequest, HoldsSlug
  <2> QED
    BY <1>1, <2>4, <2>6, <2>7, QuietKeepsIInv
<1> QED
  BY <1>2, <1>3 DEF ProvisionRequested

\* The first candidate that is free.
LEMMA TryCandidateKeeps ==
    ASSUME IInv, NEW t \in Transactions, TryCandidate(t)
    PROVE  IInv'
<1>0. PICK slug : slug = Candidates[txn[t].name][txn[t].tried + 1]
  OBVIOUS
<1>1. /\ txn[t] # None /\ txn[t].op = "manual" /\ txn[t].stage = "begun"
      /\ txn[t].tried < Len(Candidates[txn[t].name])
      /\ SlugFree(t, slug) /\ UNCHANGED <<request, organization, event, failed>>
  BY <1>0 DEF TryCandidate, Doing
<1>2. txn[t] \in Provision
  BY <1>1, UnderWay
<1>3. slug \in Slugs
  <2>1. /\ txn[t].name \in DOMAIN Candidates /\ txn[t].tried \in Nat
    BY <1>2 DEF Provision
  <2>2. Candidates[txn[t].name] \in Seq(Slugs)
    BY <2>1 DEF Named
  <2>3. txn[t].tried + 1 \in 1 .. Len(Candidates[txn[t].name])
    BY <1>1, <2>1, <2>2, LenProperties
  <2> QED
    BY <1>0, <2>2, <2>3, ElementOfSeq
<1>4. CASE txn' = [txn EXCEPT ![t].tried = @ + 1]
  <2>1. PICK v : v = [txn[t] EXCEPT !.tried = @ + 1]
    OBVIOUS
  <2>2. v \in Provision /\ v.stage = "begun" /\ v.op = "manual"
    BY <1>1, <1>2, <2>1 DEF Provision
  <2>3. Becomes(t, v)
    BY <1>4, <2>1, <2>2 DEF Becomes, Operation
  <2>4. txn'[t] = v
    BY <2>3, BecomesFacts
  <2>5. Holds(t)'
    BY <2>2, <2>4 DEF Holds
  <2> QED
    BY <1>1, <2>2, <2>3, <2>5, BeginsFree, QuietKeepsIInv
<1>5. CASE /\ slug \notin DOMAIN organization
           /\ txn' = [txn EXCEPT ![t].stage = "provisioned", ![t].slug = slug]
  <2>1. PICK v : v = [txn[t] EXCEPT !.stage = "provisioned", !.slug = slug]
    OBVIOUS
  <2>2. v \in Provision /\ v.stage = "provisioned" /\ v.op = "manual" /\ v.slug = slug
    BY <1>1, <1>2, <1>3, <2>1 DEF Provision
  <2>3. Becomes(t, v)
    <3>1. txn' = [txn EXCEPT ![t] = v]
      BY <1>5, <2>1 DEF IInv, Data, TypeOK
    <3> QED
      BY <2>2, <3>1 DEF Becomes, Operation
  <2>4. txn'[t] = v
    BY <2>3, BecomesFacts
  <2>5. Holds(t)'
    BY <1>1, <1>3, <1>5, <2>2, <2>4 DEF Holds
  <2>6. LocksFree(t)
    BY <1>1, <2>2, <2>4 DEF LocksFree, LocksUser, LocksRequest, HoldsSlug
  <2> QED
    BY <1>1, <2>3, <2>5, <2>6, QuietKeepsIInv
<1> QED
  BY <1>0, <1>4, <1>5 DEF TryCandidate

-----------------------------------------------------------------------------
(* The writes.                                                             *)

\* The tables as they were.
LEMMA TablesTyped ==
    ASSUME IInv
    PROVE  /\ DOMAIN request \subseteq Requests /\ \A r \in DOMAIN request : request[r] \in Request
           /\ request \in [DOMAIN request -> Request]
           /\ \A r \in DOMAIN request :
                 /\ request[r].status = "approved" <=> request[r].slug # None
                 /\ request[r].status = "pending" <=> request[r].reviewer = None
           /\ DOMAIN organization \subseteq Slugs
           /\ \A s \in DOMAIN organization : organization[s] \in Organization
           /\ organization \in [DOMAIN organization -> Organization]
           /\ event \subseteq EventTypes \X (Requests \cup Slugs)
           /\ failed = FALSE
BY DEF IInv, Data, TypeOK, NeverFails

\* A step that writes keeps the invariant if the tables agree after it.
LEMMA WriteKeepsIInv ==
    ASSUME IInv, NEW t \in Transactions, End(t), WritesLocked(t), Data'
    PROVE  IInv'
BY EndBecomes, EndsFree, OthersHold DEF IInv

\* A request is made while its applicant is locked and has none pending, so the
\* partial unique index is not met.
LEMMA CreateKeeps ==
    ASSUME IInv, NEW t \in Transactions, NEW r \in Requests,
           CreateOrganizationRequest(t, r)
    PROVE  IInv'
<1>1. /\ txn[t] # None /\ txn[t].op = "create" /\ txn[t].stage = "locked"
      /\ r \notin DOMAIN request /\ End(t) /\ organization' = organization
  BY DEF CreateOrganizationRequest, Doing
<1>2. txn[t] \in Creation /\ Holds(t)
  BY <1>1, UnderWay
<1>3. PICK user \in Users : user = txn[t].user
  BY <1>2 DEF Creation
<1>4. PendingOf(user) = {}
  BY <1>1, <1>2, <1>3 DEF Holds
<1>5. PICK v : v = [by |-> user, status |-> "pending", slug |-> None, reviewer |-> None]
  OBVIOUS
<1>6. request' = Put(request, r, v) /\ event' = event \cup {<<"submitted", r>>} /\ failed' = failed
  BY <1>3, <1>4, <1>5 DEF CreateOrganizationRequest
<1>7. v \in Request /\ v.by = user /\ v.status = "pending" /\ v.slug = None /\ v.reviewer = None
  BY <1>5 DEF Request, Status
<1>8. /\ DOMAIN request' = DOMAIN request \cup {r} /\ DOMAIN request' \subseteq Requests
      /\ request' \in [DOMAIN request' -> Request] /\ request'[r] = v
      /\ \A q \in DOMAIN request : q # r => request'[q] = request[q]
  <2>1. /\ DOMAIN request' = DOMAIN request \cup {r} /\ request'[r] = v
        /\ \A q \in DOMAIN request : q # r => request'[q] = request[q]
    BY <1>6 DEF Put
  <2>2. \A q \in DOMAIN request' : request'[q] \in Request
    BY <1>7, <2>1, TablesTyped
  <2>3. DOMAIN request' \subseteq Requests
    BY <2>1, TablesTyped
  <2>4. request' = [q \in DOMAIN request' |-> request'[q]]
    BY <1>6 DEF Put
  <2> QED
    BY <2>1, <2>2, <2>3, <2>4
<1>9. WritesLocked(t)
  <2>1. \A u : u \notin LocksUser(t) => u # user
    BY <1>1, <1>3 DEF LocksUser
  <2>2. \A u : u # user => PendingOf(u)' \subseteq PendingOf(u)
    BY <1>1, <1>7, <1>8 DEF PendingOf
  <2> QED
    BY <1>1, <1>8, <2>1, <2>2 DEF WritesLocked
<1>10. TypeOK'
  <2>1. txn' \in [Transactions -> Operation \cup {None}]
    BY <1>1, EndBecomes, BecomesFacts
  <2>2. event' \subseteq EventTypes \X (Requests \cup Slugs)
    BY <1>6, TablesTyped DEF EventTypes
  <2>3. \A q \in DOMAIN request' :
          /\ request'[q].status = "approved" <=> request'[q].slug # None
          /\ request'[q].status = "pending" <=> request'[q].reviewer = None
    BY <1>7, <1>8, TablesTyped
  <2> QED
    BY <1>1, <1>6, <1>8, <2>1, <2>2, <2>3, TablesTyped DEF TypeOK
<1>11. OrganizationsComeFromApprovals' /\ RequestsKnown'
  <2>1. \A s \in DOMAIN organization : organization[s].request # None => organization[s].request # r
    BY <1>1 DEF IInv, Data, RequestsKnown
  <2> QED
    BY <1>1, <1>6, <1>7, <1>8, <2>1
    DEF IInv, Data, OrganizationsComeFromApprovals, RequestsKnown
<1>12. Told'
  <2> SUFFICES ASSUME NEW type \in EventTypes, NEW q \in Requests
               PROVE  <<type, q>> \in event'
                        <=> q \in DOMAIN request'
                            /\ (type = "submitted" \/ type = request'[q].status)
    BY DEF Told
  <2>1. <<type, q>> \in event' <=> <<type, q>> \in event \/ (type = "submitted" /\ q = r)
    BY <1>6
  <2>2. <<type, q>> \in event
          <=> q \in DOMAIN request /\ (type = "submitted" \/ type = request[q].status)
    BY DEF IInv, Data, Told
  <2>3. CASE q = r
    <3>1. type # "pending"
      BY DEF EventTypes
    <3> QED
      BY <1>1, <1>7, <1>8, <2>1, <2>2, <2>3, <3>1
  <2>4. CASE q # r
    BY <1>8, <2>1, <2>2, <2>4
  <2> QED
    BY <2>3, <2>4
<1>13. NeverFails'
  BY <1>6, TablesTyped DEF NeverFails
<1>14. Data'
  BY <1>10, <1>11, <1>12, <1>13 DEF Data
<1> QED
  BY <1>1, <1>9, <1>14, WriteKeepsIInv

\* What a decision leaves of the requests.
LEMMA DecideFacts ==
    ASSUME IInv, NEW r \in DOMAIN request, NEW status \in {"approved", "rejected"},
           NEW slug \in Slugs \cup {None}, status = "approved" <=> slug # None,
           NEW admin \in Admins, Decide(r, status, slug, admin)
    PROVE  /\ DOMAIN request' = DOMAIN request /\ request' \in [DOMAIN request' -> Request]
           /\ request'[r].by = request[r].by /\ request'[r].status = status
           /\ request'[r].slug = slug
           /\ \A q \in DOMAIN request : q # r => request'[q] = request[q]
           /\ \A q \in DOMAIN request' :
                 /\ request'[q].status = "approved" <=> request'[q].slug # None
                 /\ request'[q].status = "pending" <=> request'[q].reviewer = None
           /\ \A user : PendingOf(user)' \subseteq PendingOf(user)
<1>1. request[r] \in Request
  BY TablesTyped
<1>2. PICK v : v = [request[r] EXCEPT !.status = status, !.slug = slug, !.reviewer = admin]
  OBVIOUS
<1>3. /\ v \in Request /\ v.by = request[r].by /\ v.status = status /\ v.slug = slug
      /\ v.reviewer = admin
  BY <1>1, <1>2 DEF Request, Status
<1>4. request' = [request EXCEPT ![r] = v]
  BY <1>2, TablesTyped DEF Decide
<1>5. /\ DOMAIN request' = DOMAIN request /\ request'[r] = v
      /\ \A q \in DOMAIN request : q # r => request'[q] = request[q]
      /\ request' \in [DOMAIN request' -> Request]
  BY <1>3, <1>4, TablesTyped
<1>6. admin # None
  BY DEF Named
<1>7. \A q \in DOMAIN request' :
        /\ request'[q].status = "approved" <=> request'[q].slug # None
        /\ request'[q].status = "pending" <=> request'[q].reviewer = None
  <2> SUFFICES ASSUME NEW q \in DOMAIN request'
               PROVE  /\ request'[q].status = "approved" <=> request'[q].slug # None
                      /\ request'[q].status = "pending" <=> request'[q].reviewer = None
    OBVIOUS
  <2>1. CASE q = r
    BY <1>3, <1>5, <1>6, <2>1
  <2>2. CASE q # r
    BY <1>5, <2>2, TablesTyped
  <2> QED
    BY <2>1, <2>2
<1>8. \A user : PendingOf(user)' \subseteq PendingOf(user)
  BY <1>3, <1>5 DEF PendingOf
<1> QED
  BY <1>3, <1>5, <1>7, <1>8

\* A decision is told next to what was told before.
LEMMA DecisionTold ==
    ASSUME IInv, NEW r \in DOMAIN request, NEW status \in {"approved", "rejected"},
           request[r].status = "pending", event' = event \cup {<<status, r>>},
           DOMAIN request' = DOMAIN request, request'[r].status = status,
           \A q \in DOMAIN request : q # r => request'[q] = request[q]
    PROVE  Told'
<1> SUFFICES ASSUME NEW type \in EventTypes, NEW q \in Requests
             PROVE  <<type, q>> \in event'
                      <=> q \in DOMAIN request'
                          /\ (type = "submitted" \/ type = request'[q].status)
  BY DEF Told
<1>1. <<type, q>> \in event' <=> <<type, q>> \in event \/ (type = status /\ q = r)
  OBVIOUS
<1>2. <<type, q>> \in event
        <=> q \in DOMAIN request /\ (type = "submitted" \/ type = request[q].status)
  BY DEF IInv, Data, Told
<1>3. type # "pending"
  BY DEF EventTypes
<1> QED
  BY <1>1, <1>2, <1>3

\* An approval makes the organization of its request under the slug it holds.
LEMMA ApproveKeeps ==
    ASSUME IInv, NEW t \in Transactions, ApproveOrganizationRequest(t)
    PROVE  IInv'
<1>1. /\ txn[t] # None /\ txn[t].op = "approve" /\ txn[t].stage = "provisioned" /\ End(t)
      /\ failed' = failed
  BY DEF ApproveOrganizationRequest, Doing
<1>2. txn[t] \in Decision /\ Holds(t)
  BY <1>1, UnderWay
<1>3. PICK r, slug, admin : r = txn[t].request /\ slug = txn[t].slug /\ admin = txn[t].user
  OBVIOUS
<1>4. /\ r \in DOMAIN request /\ request[r].status = "pending"
      /\ slug \in Slugs /\ slug \notin DOMAIN organization /\ admin \in Admins
  BY <1>1, <1>2, <1>3 DEF Holds, Decision
<1>5. PICK v : v = [owner |-> request[r].by, request |-> r]
  OBVIOUS
<1>6. /\ organization' = Put(organization, slug, v) /\ Decide(r, "approved", slug, admin)
      /\ event' = event \cup {<<"approved", r>>}
  BY <1>3, <1>5 DEF ApproveOrganizationRequest
<1>7. r \in Requests /\ r # None /\ slug # None /\ request[r].slug = None /\ request[r].by \in Users
  BY <1>4, TablesTyped DEF Named, Request
<1>8. v \in Organization /\ v.request = r /\ v.owner = request[r].by
  BY <1>5, <1>7 DEF Organization
<1>9. /\ DOMAIN organization' = DOMAIN organization \cup {slug}
      /\ DOMAIN organization' \subseteq Slugs
      /\ organization' \in [DOMAIN organization' -> Organization] /\ organization'[slug] = v
      /\ \A s \in DOMAIN organization : s # slug => organization'[s] = organization[s]
  <2>1. /\ DOMAIN organization' = DOMAIN organization \cup {slug} /\ organization'[slug] = v
        /\ \A s \in DOMAIN organization : s # slug => organization'[s] = organization[s]
    BY <1>6 DEF Put
  <2>2. \A s \in DOMAIN organization' : organization'[s] \in Organization
    BY <1>8, <2>1, TablesTyped
  <2>3. DOMAIN organization' \subseteq Slugs
    BY <1>4, <2>1, TablesTyped
  <2>4. organization' = [s \in DOMAIN organization' |-> organization'[s]]
    BY <1>6 DEF Put
  <2> QED
    BY <2>1, <2>2, <2>3, <2>4
<1>10. /\ DOMAIN request' = DOMAIN request /\ request' \in [DOMAIN request' -> Request]
       /\ request'[r].by = request[r].by /\ request'[r].status = "approved"
       /\ request'[r].slug = slug
       /\ \A q \in DOMAIN request : q # r => request'[q] = request[q]
       /\ \A q \in DOMAIN request' :
             /\ request'[q].status = "approved" <=> request'[q].slug # None
             /\ request'[q].status = "pending" <=> request'[q].reviewer = None
       /\ \A user : PendingOf(user)' \subseteq PendingOf(user)
  BY <1>4, <1>6, <1>7, DecideFacts
<1>11. WritesLocked(t)
  <2>1. \A q : q \notin LocksRequest(t) => q # r
    BY <1>1, <1>3 DEF LocksRequest
  <2>2. \A s : s \notin HoldsSlug(t) => s # slug
    BY <1>1, <1>3 DEF HoldsSlug
  <2> QED
    BY <1>9, <1>10, <2>1, <2>2 DEF WritesLocked
<1>12. TypeOK'
  <2>1. txn' \in [Transactions -> Operation \cup {None}]
    BY <1>1, EndBecomes, BecomesFacts
  <2>2. event' \subseteq EventTypes \X (Requests \cup Slugs)
    BY <1>6, <1>7, TablesTyped DEF EventTypes
  <2> QED
    BY <1>1, <1>9, <1>10, <2>1, <2>2, TablesTyped DEF TypeOK
<1>13. OrganizationsComeFromApprovals'
  <2>1. ASSUME NEW q \in DOMAIN request', request'[q].status = "approved"
        PROVE  /\ request'[q].slug \in DOMAIN organization'
               /\ organization'[request'[q].slug] = [owner |-> request'[q].by, request |-> q]
    <3>1. CASE q = r
      BY <1>5, <1>9, <1>10, <3>1
    <3>2. CASE q # r
      <4>1. /\ request'[q] = request[q] /\ request[q].status = "approved"
            /\ q \in DOMAIN request
        BY <1>10, <2>1, <3>2
      <4>2. /\ request[q].slug \in DOMAIN organization
            /\ organization[request[q].slug] = [owner |-> request[q].by, request |-> q]
        BY <4>1 DEF IInv, Data, OrganizationsComeFromApprovals
      <4> QED
        BY <1>4, <1>9, <4>1, <4>2
    <3> QED
      BY <3>1, <3>2
  <2>2. ASSUME NEW s \in DOMAIN organization'
        PROVE  IF organization'[s].request = None
               THEN <<"manuallyProvisioned", s>> \in event'
               ELSE request'[organization'[s].request].slug = s
    <3>1. CASE s = slug
      BY <1>7, <1>8, <1>9, <1>10, <3>1
    <3>2. CASE s # slug
      <4>1. s \in DOMAIN organization /\ organization'[s] = organization[s] /\ s # None
        BY <1>9, <2>2, <3>2 DEF Named
      <4>2. IF organization[s].request = None
            THEN <<"manuallyProvisioned", s>> \in event
            ELSE request[organization[s].request].slug = s
        BY <4>1 DEF IInv, Data, OrganizationsComeFromApprovals
      <4>3. CASE organization[s].request = None
        BY <1>6, <4>1, <4>2, <4>3
      <4>4. CASE organization[s].request # None
        <5>1. organization[s].request \in DOMAIN request /\ organization[s].request # r
          BY <1>7, <4>1, <4>2, <4>4 DEF IInv, Data, RequestsKnown
        <5> QED
          BY <1>10, <4>1, <4>2, <4>4, <5>1
      <4> QED
        BY <4>3, <4>4
    <3> QED
      BY <3>1, <3>2
  <2> QED
    BY <2>1, <2>2 DEF OrganizationsComeFromApprovals
<1>14. RequestsKnown'
  BY <1>4, <1>8, <1>9, <1>10 DEF IInv, Data, RequestsKnown
<1>15. Told'
  BY <1>4, <1>6, <1>10, DecisionTold
<1>16. NeverFails'
  BY <1>1, TablesTyped DEF NeverFails
<1>17. Data'
  BY <1>12, <1>13, <1>14, <1>15, <1>16 DEF Data
<1> QED
  BY <1>1, <1>11, <1>17, WriteKeepsIInv

\* A rejection writes nothing but the request it has locked.
LEMMA RejectKeeps ==
    ASSUME IInv, NEW t \in Transactions, RejectOrganizationRequest(t)
    PROVE  IInv'
<1>1. /\ txn[t] # None /\ txn[t].op = "reject" /\ txn[t].stage = "locked" /\ End(t)
      /\ failed' = failed /\ organization' = organization
  BY DEF RejectOrganizationRequest, Doing
<1>2. txn[t] \in Decision /\ Holds(t)
  BY <1>1, UnderWay
<1>3. PICK r, admin : r = txn[t].request /\ admin = txn[t].user
  OBVIOUS
<1>4. r \in DOMAIN request /\ request[r].status = "pending" /\ admin \in Admins
  BY <1>1, <1>2, <1>3 DEF Holds, Decision
<1>5. Decide(r, "rejected", None, admin) /\ event' = event \cup {<<"rejected", r>>}
  BY <1>3 DEF RejectOrganizationRequest
<1>6. r \in Requests /\ request[r].slug = None
  BY <1>4, TablesTyped
<1>7. /\ DOMAIN request' = DOMAIN request /\ request' \in [DOMAIN request' -> Request]
      /\ request'[r].by = request[r].by /\ request'[r].status = "rejected"
      /\ request'[r].slug = None
      /\ \A q \in DOMAIN request : q # r => request'[q] = request[q]
      /\ \A q \in DOMAIN request' :
            /\ request'[q].status = "approved" <=> request'[q].slug # None
            /\ request'[q].status = "pending" <=> request'[q].reviewer = None
      /\ \A user : PendingOf(user)' \subseteq PendingOf(user)
  BY <1>4, <1>5, DecideFacts
<1>8. WritesLocked(t)
  <2>1. \A q : q \notin LocksRequest(t) => q # r
    BY <1>1, <1>3 DEF LocksRequest
  <2> QED
    BY <1>1, <1>7, <2>1 DEF WritesLocked
<1>9. TypeOK'
  <2>1. txn' \in [Transactions -> Operation \cup {None}]
    BY <1>1, EndBecomes, BecomesFacts
  <2>2. event' \subseteq EventTypes \X (Requests \cup Slugs)
    BY <1>5, <1>6, TablesTyped DEF EventTypes
  <2> QED
    BY <1>1, <1>7, <2>1, <2>2, TablesTyped DEF TypeOK
<1>10. OrganizationsComeFromApprovals'
  <2>1. ASSUME NEW q \in DOMAIN request', request'[q].status = "approved"
        PROVE  /\ request'[q].slug \in DOMAIN organization'
               /\ organization'[request'[q].slug] = [owner |-> request'[q].by, request |-> q]
    <3>1. q # r /\ q \in DOMAIN request /\ request'[q] = request[q]
      BY <1>7, <2>1
    <3> QED
      BY <1>1, <2>1, <3>1 DEF IInv, Data, OrganizationsComeFromApprovals
  <2>2. ASSUME NEW s \in DOMAIN organization'
        PROVE  IF organization'[s].request = None
               THEN <<"manuallyProvisioned", s>> \in event'
               ELSE request'[organization'[s].request].slug = s
    <3>1. s \in DOMAIN organization /\ s \in Slugs /\ s # None
      BY <1>1, TablesTyped DEF Named
    <3>2. IF organization[s].request = None
          THEN <<"manuallyProvisioned", s>> \in event
          ELSE request[organization[s].request].slug = s
      BY <3>1 DEF IInv, Data, OrganizationsComeFromApprovals
    <3>3. CASE organization[s].request = None
      BY <1>1, <1>5, <3>2, <3>3
    <3>4. CASE organization[s].request # None
      <4>1. organization[s].request \in DOMAIN request /\ organization[s].request # r
        BY <1>6, <3>1, <3>2, <3>4 DEF IInv, Data, RequestsKnown
      <4> QED
        BY <1>1, <1>7, <3>2, <3>4, <4>1
    <3> QED
      BY <3>3, <3>4
  <2> QED
    BY <2>1, <2>2 DEF OrganizationsComeFromApprovals
<1>11. RequestsKnown'
  BY <1>1, <1>7 DEF IInv, Data, RequestsKnown
<1>12. Told'
  BY <1>4, <1>5, <1>7, DecisionTold
<1>13. NeverFails'
  BY <1>1, TablesTyped DEF NeverFails
<1>14. Data'
  BY <1>9, <1>10, <1>11, <1>12, <1>13 DEF Data
<1> QED
  BY <1>1, <1>8, <1>14, WriteKeepsIInv

\* An organization without a request, under the candidate it holds.
LEMMA ManualKeeps ==
    ASSUME IInv, NEW t \in Transactions, ManuallyProvisionOrganization(t)
    PROVE  IInv'
<1>1. /\ txn[t] # None /\ txn[t].op = "manual" /\ txn[t].stage = "provisioned" /\ End(t)
      /\ failed' = failed /\ request' = request
  BY DEF ManuallyProvisionOrganization, Doing
<1>2. txn[t] \in Provision /\ Holds(t)
  BY <1>1, UnderWay
<1>3. PICK slug, user : slug = txn[t].slug /\ user = txn[t].user
  OBVIOUS
<1>4. slug \in Slugs /\ slug \notin DOMAIN organization /\ user \in Users
  BY <1>1, <1>2, <1>3 DEF Holds, Provision
<1>5. PICK v : v = [owner |-> user, request |-> None]
  OBVIOUS
<1>6. /\ organization' = Put(organization, slug, v)
      /\ event' = event \cup {<<"manuallyProvisioned", slug>>}
  BY <1>3, <1>5 DEF ManuallyProvisionOrganization
<1>7. v \in Organization /\ v.request = None
  BY <1>4, <1>5 DEF Organization
<1>8. /\ DOMAIN organization' = DOMAIN organization \cup {slug}
      /\ DOMAIN organization' \subseteq Slugs
      /\ organization' \in [DOMAIN organization' -> Organization] /\ organization'[slug] = v
      /\ \A s \in DOMAIN organization : s # slug => organization'[s] = organization[s]
  <2>1. /\ DOMAIN organization' = DOMAIN organization \cup {slug} /\ organization'[slug] = v
        /\ \A s \in DOMAIN organization : s # slug => organization'[s] = organization[s]
    BY <1>6 DEF Put
  <2>2. \A s \in DOMAIN organization' : organization'[s] \in Organization
    BY <1>7, <2>1, TablesTyped
  <2>3. DOMAIN organization' \subseteq Slugs
    BY <1>4, <2>1, TablesTyped
  <2>4. organization' = [s \in DOMAIN organization' |-> organization'[s]]
    BY <1>6 DEF Put
  <2> QED
    BY <2>1, <2>2, <2>3, <2>4
<1>9. WritesLocked(t)
  <2>1. \A s : s \notin HoldsSlug(t) => s # slug
    BY <1>1, <1>3 DEF HoldsSlug
  <2> QED
    BY <1>1, <1>8, <2>1 DEF WritesLocked, PendingOf
<1>10. TypeOK'
  <2>1. txn' \in [Transactions -> Operation \cup {None}]
    BY <1>1, EndBecomes, BecomesFacts
  <2>2. event' \subseteq EventTypes \X (Requests \cup Slugs)
    BY <1>4, <1>6, TablesTyped DEF EventTypes
  <2> QED
    BY <1>1, <1>8, <2>1, <2>2, TablesTyped DEF TypeOK
<1>11. OrganizationsComeFromApprovals'
  <2>1. ASSUME NEW q \in DOMAIN request', request'[q].status = "approved"
        PROVE  /\ request'[q].slug \in DOMAIN organization'
               /\ organization'[request'[q].slug] = [owner |-> request'[q].by, request |-> q]
    <3>1. /\ request[q].slug \in DOMAIN organization
          /\ organization[request[q].slug] = [owner |-> request[q].by, request |-> q]
      BY <1>1, <2>1 DEF IInv, Data, OrganizationsComeFromApprovals
    <3> QED
      BY <1>1, <1>4, <1>8, <3>1
  <2>2. ASSUME NEW s \in DOMAIN organization'
        PROVE  IF organization'[s].request = None
               THEN <<"manuallyProvisioned", s>> \in event'
               ELSE request'[organization'[s].request].slug = s
    <3>1. CASE s = slug
      BY <1>6, <1>7, <1>8, <3>1
    <3>2. CASE s # slug
      <4>1. s \in DOMAIN organization /\ organization'[s] = organization[s]
        BY <1>8, <2>2, <3>2
      <4> QED
        BY <1>1, <1>6, <4>1 DEF IInv, Data, OrganizationsComeFromApprovals
    <3> QED
      BY <3>1, <3>2
  <2> QED
    BY <2>1, <2>2 DEF OrganizationsComeFromApprovals
<1>12. RequestsKnown'
  BY <1>1, <1>7, <1>8 DEF IInv, Data, RequestsKnown
<1>13. Told'
  <2>1. \A type \in EventTypes, r \in Requests : <<type, r>> \in event' <=> <<type, r>> \in event
    BY <1>4, <1>6 DEF Named
  <2> QED
    BY <1>1, <2>1 DEF IInv, Data, Told
<1>14. NeverFails'
  BY <1>1, TablesTyped DEF NeverFails
<1>15. Data'
  BY <1>10, <1>11, <1>12, <1>13, <1>14 DEF Data
<1> QED
  BY <1>1, <1>9, <1>15, WriteKeepsIInv

-----------------------------------------------------------------------------
(* The invariant.                                                          *)

\* Empty tables and nobody at work.
LEMMA InitIInv ==
    ASSUME Init
    PROVE  IInv
<1>1. /\ request = [r \in {} |-> None] /\ organization = [s \in {} |-> None] /\ event = {}
      /\ txn = [t \in Transactions |-> None] /\ failed = FALSE
  BY DEF Init
<1>2. DOMAIN request = {} /\ DOMAIN organization = {} /\ \A t \in Transactions : txn[t] = None
  BY <1>1
<1>3. request \in [DOMAIN request -> Request] /\ organization \in [DOMAIN organization -> Organization]
  BY <1>1
<1>4. TypeOK
  BY <1>1, <1>2, <1>3 DEF TypeOK
<1>5. NeverFails /\ OrganizationsComeFromApprovals /\ RequestsKnown /\ Told
  BY <1>1, <1>2 DEF NeverFails, OrganizationsComeFromApprovals, RequestsKnown, Told
<1>6. ReadsHold /\ LocksKeepApart
  BY <1>2 DEF ReadsHold, Holds, LocksKeepApart, Apart, LocksUser, LocksRequest, HoldsSlug
<1> QED
  BY <1>4, <1>5, <1>6 DEF IInv, Data

\* Every step keeps the invariant.
LEMMA NextKeepsIInv ==
    ASSUME IInv, [Next]_vars
    PROVE  IInv'
<1>1. CASE UNCHANGED vars
  <2>1. Data'
    BY <1>1 DEF vars, IInv, Data, TypeOK, NeverFails, OrganizationsComeFromApprovals,
                RequestsKnown, Told
  <2>2. ReadsHold' /\ LocksKeepApart'
    BY <1>1 DEF vars, IInv, ReadsHold, Holds, PendingOf, LocksKeepApart, Apart, LocksUser,
                LocksRequest, HoldsSlug
  <2> QED
    BY <2>1, <2>2 DEF IInv
<1>2. ASSUME NEW t \in Transactions, Start(t)
      PROVE  IInv'
  <2>1. ASSUME NEW user \in Users, BeginRequest(t, user) PROVE IInv'
    BY <2>1, BeginRequestKeeps
  <2>2. ASSUME NEW admin \in Admins, NEW r \in Requests, NEW slug \in Slugs,
               BeginDecision(t, "approve", admin, r, slug)
        PROVE  IInv'
    BY <2>2, BeginDecisionKeeps
  <2>3. ASSUME NEW admin \in Admins, NEW r \in Requests,
               BeginDecision(t, "reject", admin, r, None)
        PROVE  IInv'
    BY <2>3, BeginDecisionKeeps
  <2>4. ASSUME NEW owner \in Users, NEW name \in DOMAIN Candidates,
               BeginManualProvision(t, owner, name)
        PROVE  IInv'
    BY <2>4, BeginManualProvisionKeeps
  <2> QED
    BY <1>2, <2>1, <2>2, <2>3, <2>4 DEF Start
<1>3. ASSUME NEW t \in Transactions, Step(t)
      PROVE  IInv'
  <2>1. CASE LockApplicant(t)
    BY <2>1, LockApplicantKeeps
  <2>2. CASE \E r \in Requests : CreateOrganizationRequest(t, r)
    BY <2>2, CreateKeeps
  <2>3. CASE LockRequest(t)
    BY <2>3, LockRequestKeeps
  <2>4. CASE ProvisionRequested(t)
    BY <2>4, ProvisionRequestedKeeps
  <2>5. CASE ApproveOrganizationRequest(t)
    BY <2>5, ApproveKeeps
  <2>6. CASE RejectOrganizationRequest(t)
    BY <2>6, RejectKeeps
  <2>7. CASE TryCandidate(t)
    BY <2>7, TryCandidateKeeps
  <2>8. CASE NoCandidateLeft(t)
    <3>1. End(t) /\ UNCHANGED <<request, organization, event, failed>>
      BY <2>8 DEF NoCandidateLeft
    <3> QED
      BY <3>1, EndKeepsIInv
  <2>9. CASE ManuallyProvisionOrganization(t)
    BY <2>9, ManualKeeps
  <2> QED
    BY <1>3, <2>1, <2>2, <2>3, <2>4, <2>5, <2>6, <2>7, <2>8, <2>9 DEF Step
<1>4. ASSUME NEW t \in Transactions, GiveUp(t)
      PROVE  IInv'
  <2>1. End(t) /\ UNCHANGED <<request, organization, event, failed>>
    BY <1>4 DEF GiveUp
  <2> QED
    BY <2>1, EndKeepsIInv
<1> QED
  BY <1>1, <1>2, <1>3, <1>4 DEF Next

\* Locks keep apart and what was read under them stays so, in every state.
THEOREM Invariance == Spec => []IInv
<1>1. Init => IInv
  BY InitIInv
<1>2. IInv /\ [Next]_vars => IInv'
  BY NextKeepsIInv
<1> QED
  BY <1>1, <1>2, PTL DEF Spec

\* However many applicants and administrators act at once: no operation meets
\* the unique index on pending requests, an approved request has the one
\* organization its approval made, every organization comes from one approval
\* or from manual provisioning, and the outbox tells of a request the decision
\* that stands.
THEOREM OnboardingStaysConsistent == Spec => []OnboardingConsistent
<1>1. IInv => OnboardingConsistent
  <2> SUFFICES ASSUME IInv PROVE EventsTellTheDecision
    BY DEF OnboardingConsistent, IInv, Data
  <2> SUFFICES ASSUME NEW r \in Requests
               PROVE  {type \in EventTypes : <<type, r>> \in event}
                        = IF r \notin DOMAIN request THEN {}
                          ELSE {"submitted"} \cup ({request[r].status} \ {"pending"})
    BY DEF EventsTellTheDecision
  <2>1. \A type \in EventTypes :
          <<type, r>> \in event
            <=> r \in DOMAIN request /\ (type = "submitted" \/ type = request[r].status)
    BY DEF IInv, Data, Told
  <2>2. r \in DOMAIN request => request[r].status \in Status
    BY TablesTyped DEF Request
  <2> QED
    BY <2>1, <2>2 DEF EventTypes, Status
<1> QED
  BY <1>1, Invariance, PTL

-----------------------------------------------------------------------------
(* The platform's listings.                                                *)

CONSTANTS Ids, LastTime, Filters, Limit

VARIABLES clock, row, filter, shown, fetch

Listing == INSTANCE Paging

\* The instance counts like this module.
LEMMA SameCount == ASSUME NEW S PROVE Listing!Cardinality(S) = Cardinality(S)
  BY DEF Listing!Cardinality, Cardinality

\* The orders of the query, for any rows r.
Precedes(r, a, b) ==
    \/ r[a].created > r[b].created
    \/ r[a].created = r[b].created /\ a > b
Behind(r, id, cursor) ==
    \/ cursor = None
    \/ r[id].created < cursor.created
    \/ r[id].created = cursor.created /\ id < cursor.id

\* A page of a listing: newest first, and a cursor is that of its last row.
PageFits(r, p, f) ==
    /\ \A n \in DOMAIN p.items : p.items[n] \in DOMAIN r
    /\ \A m, n \in DOMAIN p.items : m < n => Precedes(r, p.items[m], p.items[n])
    /\ Len(p.items) <= Limit
    /\ p.next # None =>
          /\ p.items # <<>>
          /\ p.next = [created |-> r[p.items[Len(p.items)]].created,
                       id |-> p.items[Len(p.items)], status |-> f]

\* Every page lies behind the cursors of the pages before it.
PagesFollow(r, load, f) ==
    /\ \A i \in DOMAIN load.pages : PageFits(r, load.pages[i], f)
    /\ \A i, j \in DOMAIN load.pages : i < j =>
          /\ load.pages[i].next # None
          /\ \A n \in DOMAIN load.pages[j].items :
                Behind(r, load.pages[j].items[n], load.pages[i].next)

\* A row that was there from the first page on and has stayed is on a page or
\* behind the last cursor.
NoneSkipped(r, load, f) ==
    \A id \in load.since :
        /\ id \in DOMAIN r /\ r[id].committed /\ r[id].state = f
        /\ \/ load.pages = <<>>
           \/ Listing!Has(load, id)
           \/ ~Listing!AtEnd(load) /\ Behind(r, id, Listing!LastCursor(load))

LoadFits(r, load, f) == PagesFollow(r, load, f) /\ NoneSkipped(r, load, f)

ListingTyped ==
    /\ clock \in 0..LastTime
    /\ DOMAIN row \subseteq Ids /\ IsFiniteSet(DOMAIN row)
    /\ row \in [DOMAIN row -> Listing!Row]
    /\ filter \in Filters
    /\ shown \in [Filters -> Listing!Load]
    /\ fetch \in Listing!Fetching \cup {None}

\* The inductive invariant of the listings.
ListingInv ==
    /\ ListingTyped
    /\ \A f \in Filters : LoadFits(row, shown[f], f)
    /\ fetch # None => LoadFits(row, fetch, filter) /\ ~Listing!AtEnd(fetch)

\* The instance orders rows like this module.
LEMMA Orders ==
    /\ \A a, b : Listing!Newer(a, b) <=> Precedes(row, a, b)
    /\ \A id, c : Listing!After(id, c) <=> Behind(row, id, c)
  BY DEF Listing!Newer, Listing!After, Precedes, Behind

\* What a page holds.
LEMMA PageParts ==
    ASSUME NEW p \in Listing!Page
    PROVE  p.items \in Seq(Ids) /\ p.next \in Listing!Cursor \cup {None}
  BY DEF Listing!Page

\* A cursor has a time and an id.
LEMMA CursorParts ==
    ASSUME NEW c \in Listing!Cursor, Ids \subseteq Int, LastTime \in Nat
    PROVE  c.created \in Int /\ c.id \in Int
  <1>1. c.created \in 0..LastTime /\ c.id \in Ids
    BY DEF Listing!Cursor
  <1>2. c.created \in Int
    BY <1>1
  <1>3. c.id \in Int
    BY <1>1, Zenon
  <1> QED
    BY <1>2, <1>3

\* The rows of a set, each once and newest first.
LEMMA NewestFirst ==
    ASSUME Listing!ListingFits, ListingTyped, NEW S \in SUBSET DOMAIN row
    PROVE  /\ Listing!Newest(S) \in Seq(S)
           /\ \A m, n \in DOMAIN Listing!Newest(S) :
                  m < n => Listing!Newer(Listing!Newest(S)[m], Listing!Newest(S)[n])
           /\ \A id \in S : \E n \in DOMAIN Listing!Newest(S) : Listing!Newest(S)[n] = id
  <1> DEFINE before(id) == {x \in S : Listing!Newer(x, id)}
             rank == [id \in S |-> Cardinality(before(id))]
             size == Cardinality(S)
             list == Listing!Newest(S)
  <1>1. \A id \in S : id \in Int /\ row[id].created \in Int
    BY DEF ListingTyped, Listing!ListingFits, Listing!Row
  <1>2. \A x, y \in S : x # y => Listing!Newer(x, y) \/ Listing!Newer(y, x)
    BY <1>1 DEF Listing!Newer
  <1>3. \A x \in S : ~Listing!Newer(x, x)
    BY <1>1 DEF Listing!Newer
  <1>4. \A x, y, z \in S : Listing!Newer(x, y) /\ Listing!Newer(y, z) => Listing!Newer(x, z)
    BY <1>1 DEF Listing!Newer
  <1>5. IsFiniteSet(S) /\ size \in Nat
    BY FS_Subset, FS_CardinalityType DEF ListingTyped
  <1>6. \A id \in S : IsFiniteSet(before(id)) /\ Cardinality(before(id)) \in 0..size - 1
    <2> SUFFICES ASSUME NEW id \in S
                 PROVE  IsFiniteSet(before(id)) /\ Cardinality(before(id)) \in 0..size - 1
      OBVIOUS
    <2>1. before(id) \in SUBSET S /\ id \notin before(id)
      BY <1>3
    <2>2. IsFiniteSet(before(id)) /\ Cardinality(before(id)) <= size /\ Cardinality(before(id)) # size
      BY <2>1, <1>5, FS_Subset
    <2>3. Cardinality(before(id)) \in Nat
      BY <2>2, FS_CardinalityType
    <2> QED
      BY <2>2, <2>3, <1>5
  <1>7. \A x, y \in S : Listing!Newer(x, y) => Cardinality(before(x)) < Cardinality(before(y))
    <2> SUFFICES ASSUME NEW x \in S, NEW y \in S, Listing!Newer(x, y)
                 PROVE  Cardinality(before(x)) < Cardinality(before(y))
      OBVIOUS
    <2>1. before(x) \in SUBSET before(y) /\ x \in before(y) /\ x \notin before(x)
      BY <1>3, <1>4
    <2>2. Cardinality(before(x)) <= Cardinality(before(y)) /\ Cardinality(before(x)) # Cardinality(before(y))
      BY <2>1, <1>6, FS_Subset
    <2> HIDE DEF before
    <2>3. Cardinality(before(x)) \in Int /\ Cardinality(before(y)) \in Int
      BY <1>6, <1>5
    <2> QED
      BY <2>2, <2>3
  <1> HIDE DEF before
  <1>8. rank \in [S -> 0..size - 1]
    BY <1>6
  <1>9. IsInjective(rank)
    <2> SUFFICES ASSUME NEW x \in S, NEW y \in S, rank[x] = rank[y]
                 PROVE  x = y
      BY DEF IsInjective
    <2>1. rank[x] = Cardinality(before(x)) /\ rank[y] = Cardinality(before(y))
      OBVIOUS
    <2>2. Cardinality(before(x)) \in Int /\ Cardinality(before(y)) \in Int
      BY <1>6, <1>5
    <2> QED
      BY <1>2, <1>7, <2>1, <2>2
  <1>10. \A n \in 0..size - 1 : \E id \in S : rank[id] = n
    BY <1>5, <1>8, <1>9, Ranked
  <1>11. list = [n \in 1..size |-> CHOOSE id \in S : Listing!Cardinality(before(id)) = n - 1]
    <2>1. list = [n \in 1..Listing!Cardinality(S) |->
                    CHOOSE id \in S : Listing!Cardinality(before(id)) = n - 1]
      BY DEF Listing!Newest, before
    <2> QED
      BY <2>1, SameCount
  <1> HIDE DEF list
  <1>12. ASSUME NEW n \in 1..size
         PROVE  list[n] \in S /\ Cardinality(before(list[n])) = n - 1
    <2>1. n - 1 \in 0..size - 1
      BY <1>5
    <2>2. \A id \in S : Listing!Cardinality(before(id)) = rank[id] /\ rank[id] = Cardinality(before(id))
      BY SameCount
    <2>3. \E id \in S : Listing!Cardinality(before(id)) = n - 1
      BY <1>10, <2>1, <2>2
    <2>4. list[n] = CHOOSE id \in S : Listing!Cardinality(before(id)) = n - 1
      BY <1>11
    <2>5. list[n] \in S /\ Listing!Cardinality(before(list[n])) = n - 1
      BY <2>3, <2>4
    <2> QED
      BY <2>2, <2>5
  <1>13. list \in Seq(S) /\ DOMAIN list = 1..size
    <2>1. list \in [1..size -> S]
      BY <1>11, <1>12
    <2> QED
      BY <2>1, <1>5
  <1>14. \A m, n \in 1..size : m < n => Listing!Newer(list[m], list[n])
    <2> SUFFICES ASSUME NEW m \in 1..size, NEW n \in 1..size, m < n
                 PROVE  Listing!Newer(list[m], list[n])
      OBVIOUS
    <2>1. list[m] \in S /\ list[n] \in S /\ Cardinality(before(list[m])) = m - 1 /\ Cardinality(before(list[n])) = n - 1
      BY <1>12
    <2>2. list[m] # list[n] /\ ~(n - 1 < m - 1)
      BY <2>1, <1>5
    <2> QED
      BY <2>1, <2>2, <1>2, <1>7
  <1>15. \A id \in S : \E n \in 1..size : list[n] = id
    <2> SUFFICES ASSUME NEW id \in S
                 PROVE  \E n \in 1..size : list[n] = id
      OBVIOUS
    <2> DEFINE n == Cardinality(before(id)) + 1
    <2>1. n \in 1..size /\ n - 1 = rank[id]
      BY <1>6, <1>5
    <2>2. list[n] \in S /\ Cardinality(before(list[n])) = n - 1
      BY <1>12, <2>1
    <2>3. rank[list[n]] = rank[id]
      BY <2>1, <2>2
    <2>4. list[n] = id
      BY <1>9, <2>2, <2>3 DEF IsInjective
    <2> QED
      BY <2>1, <2>4
  <1> QED
    BY <1>13, <1>14, <1>15 DEF list

\* A page of a query: its rows newest first, and behind it what comes next.
LEMMA PageIs ==
    ASSUME Listing!ListingFits, ListingTyped, NEW f \in Filters, NEW c
    PROVE  LET p == Listing!ListPage(f, c)
               rest == {id \in Listing!Listed(f) : Behind(row, id, c)} IN
           /\ p \in Listing!Page /\ PageFits(row, p, f)
           /\ \A n \in DOMAIN p.items : p.items[n] \in rest
           /\ \A id \in rest : \/ \E n \in DOMAIN p.items : p.items[n] = id
                               \/ p.next # None /\ Behind(row, id, p.next)
  <1> DEFINE p == Listing!ListPage(f, c)
             rest == {id \in Listing!Listed(f) : Behind(row, id, c)}
             rows == Listing!Newest(rest)
             upto == IF Len(rows) > Limit THEN Limit ELSE Len(rows)
  <1>1. rest \in SUBSET DOMAIN row
    BY DEF Listing!Listed
  <1>2. /\ rows \in Seq(rest)
        /\ \A m, n \in DOMAIN rows : m < n => Precedes(row, rows[m], rows[n])
        /\ \A id \in rest : \E n \in DOMAIN rows : rows[n] = id
    BY <1>1, NewestFirst, Orders
  <1>3. p.items = SubSeq(rows, 1, upto)
        /\ p.next = (IF Len(rows) > Limit THEN Listing!EncodeCursor(rows[Limit], f) ELSE None)
        /\ p = [items |-> p.items, next |-> p.next]
    BY Orders DEF Listing!ListPage
  <1>4. Limit \in Nat /\ Limit > 0 /\ Ids \subseteq Int /\ DOMAIN row \subseteq Ids /\ None \notin Listing!Cursor
    BY DEF Listing!ListingFits, ListingTyped
  <1> HIDE DEF p, rest, rows
  <1>5. Len(rows) \in Nat /\ DOMAIN rows = 1..Len(rows) /\ \A n \in 1..Len(rows) : rows[n] \in rest
    BY <1>2
  <1>6. upto \in Nat /\ upto <= Len(rows) /\ upto <= Limit
    BY <1>4, <1>5
  <1>7. /\ Len(p.items) = upto /\ DOMAIN p.items = 1..upto
        /\ \A n \in 1..upto : p.items[n] = rows[n]
        /\ p.items \in Seq(rest)
    <2>1. SubSeq(rows, 1, upto) = [n \in 1..upto |-> rows[n]]
      BY <1>2, <1>5, <1>6, SubSeqProperties
    <2> HIDE DEF upto
    <2>2. \A n \in 1..upto : rows[n] \in rest
      BY <1>5, <1>6
    <2>3. [n \in 1..upto |-> rows[n]] \in Seq(rest)
      BY <2>2, <1>6
    <2>4. p.items = [n \in 1..upto |-> rows[n]]
      BY <2>1, <1>3
    <2> QED
      BY <2>3, <2>4, <1>6
  <1>8. \A id \in DOMAIN row : id \in Int /\ row[id].created \in 0..LastTime
    BY <1>4 DEF ListingTyped, Listing!Row
  <1>9. ASSUME Len(rows) > Limit
        PROVE  /\ p.next = Listing!EncodeCursor(rows[Limit], f) /\ rows[Limit] \in rest
               /\ p.next \in Listing!Cursor /\ upto = Limit
    <2>1. Limit \in 1..Len(rows) /\ rows[Limit] \in DOMAIN row
      BY <1>9, <1>1, <1>4, <1>5
    <2> QED
      BY <2>1, <1>3, <1>4, <1>5, <1>8, <1>9 DEF Listing!EncodeCursor, Listing!Cursor
  <1>10. p \in Listing!Page
    <2>1. p.items \in Seq(Ids)
      BY <1>7, <1>1, <1>4
    <2>2. p.next \in Listing!Cursor \cup {None}
      BY <1>3, <1>9
    <2> QED
      BY <2>1, <2>2, <1>3 DEF Listing!Page
  <1>11. PageFits(row, p, f)
    <2>1. \A n \in DOMAIN p.items : p.items[n] \in DOMAIN row
      BY <1>1, <1>5, <1>6, <1>7
    <2>2. \A m, n \in DOMAIN p.items : m < n => Precedes(row, p.items[m], p.items[n])
      BY <1>2, <1>5, <1>6, <1>7
    <2>3. p.next # None => p.items # <<>> /\ p.next = Listing!EncodeCursor(p.items[Len(p.items)], f)
      <3> SUFFICES ASSUME p.next # None
                   PROVE  p.items # <<>> /\ p.next = Listing!EncodeCursor(p.items[Len(p.items)], f)
        OBVIOUS
      <3>1. Len(rows) > Limit
        BY <1>3
      <3>2. upto = Limit /\ Limit \in 1..upto
        BY <3>1, <1>4
      <3> QED
        BY <3>1, <3>2, <1>4, <1>7, <1>9
    <2> QED
      BY <2>1, <2>2, <2>3, <1>6, <1>7 DEF PageFits, Listing!EncodeCursor
  <1>12. ASSUME NEW id \in rest
         PROVE  \/ \E n \in DOMAIN p.items : p.items[n] = id
                \/ p.next # None /\ Behind(row, id, p.next)
    <2>1. PICK n \in 1..Len(rows) : rows[n] = id
      BY <1>2, <1>5
    <2>2. CASE n \in 1..upto
      BY <2>1, <2>2, <1>7
    <2>3. CASE n \notin 1..upto
      <3>1. Len(rows) > Limit /\ Limit \in 1..Len(rows) /\ Limit < n
        BY <2>1, <2>3, <1>4, <1>5
      <3>2. Precedes(row, rows[Limit], id)
        BY <3>1, <2>1, <1>2, <1>5
      <3>3. p.next = [created |-> row[rows[Limit]].created, id |-> rows[Limit], status |-> f] /\ p.next # None
        BY <3>1, <1>4, <1>9 DEF Listing!EncodeCursor
      <3>4. id \in DOMAIN row /\ rows[Limit] \in DOMAIN row
        BY <3>1, <1>1, <1>5
      <3> QED
        BY <3>2, <3>3, <3>4, <1>8 DEF Precedes, Behind
    <2> QED
      BY <2>2, <2>3
  <1>13. \A n \in DOMAIN p.items : p.items[n] \in rest
    BY <1>5, <1>6, <1>7
  <1> QED
    BY <1>10, <1>11, <1>12, <1>13 DEF p, rest

\* One page more: no row of it was there, and a row that was there from the
\* start is on it, before it or behind it.
LEMMA PageAdded ==
    ASSUME Listing!ListingFits, ListingTyped, NEW f \in Filters, NEW load, NEW grown,
           load.pages \in Seq(Listing!Page), LoadFits(row, load, f), ~Listing!AtEnd(load),
           grown.pages = Append(load.pages, Listing!ListPage(f, Listing!LastCursor(load))),
           grown.since = IF load.pages = <<>> THEN Listing!Listed(f) ELSE load.since
    PROVE  LoadFits(row, grown, f) /\ grown.pages \in Seq(Listing!Page)
  <1> DEFINE c == Listing!LastCursor(load)
             p == Listing!ListPage(f, c)
             k == Len(load.pages)
  <1>1. /\ p \in Listing!Page /\ PageFits(row, p, f)
        /\ \A n \in DOMAIN p.items : p.items[n] \in Listing!Listed(f) /\ Behind(row, p.items[n], c)
        /\ \A id \in Listing!Listed(f) : Behind(row, id, c) =>
              \/ \E n \in DOMAIN p.items : p.items[n] = id
              \/ p.next # None /\ Behind(row, id, p.next)
    BY PageIs
  <1> HIDE DEF p
  <1>2. /\ grown.pages \in Seq(Listing!Page) /\ k \in Nat
        /\ DOMAIN grown.pages = 1..k + 1 /\ DOMAIN load.pages = 1..k /\ Len(grown.pages) = k + 1
        /\ \A i \in 1..k : grown.pages[i] = load.pages[i]
        /\ grown.pages[k + 1] = p
    <2>1. grown.pages = Append(load.pages, p)
      BY DEF p
    <2> QED
      BY <2>1, <1>1
  <1>3. load.pages = <<>> <=> k = 0
    BY EmptySeq
  <1>4. k # 0 => c = load.pages[k].next /\ c # None
    BY <1>3 DEF Listing!LastCursor, Listing!AtEnd
  <1>5. \A id \in DOMAIN row : id \in Int /\ row[id].created \in Int
    BY DEF ListingTyped, Listing!Row, Listing!ListingFits
  <1>6. \A i \in 1..k + 1 : i \in 1..k \/ i = k + 1
    BY <1>2
  <1>7. \A i \in 1..k + 1 : PageFits(row, grown.pages[i], f)
    BY <1>1, <1>2, <1>6 DEF LoadFits, PagesFollow
  <1>8. ASSUME NEW i \in 1..k
        PROVE  /\ load.pages[i].next # None
               /\ \A n \in DOMAIN p.items : Behind(row, p.items[n], load.pages[i].next)
    <2>1. k # 0 /\ k \in 1..k /\ \A n \in DOMAIN p.items : Behind(row, p.items[n], load.pages[k].next)
      BY <1>1, <1>2, <1>4
    <2>2. CASE i = k
      BY <2>1, <2>2, <1>4
    <2>3. CASE i # k
      <3> DEFINE q == load.pages[k]
                 d == q.items[Len(q.items)]
                 e == load.pages[i].next
      <3>1. PageFits(row, q, f) /\ q.next # None /\ q \in Listing!Page
        BY <2>1, <1>2, <1>4 DEF LoadFits, PagesFollow
      <3>2. q.items \in Seq(Ids) /\ q.items # <<>>
            /\ q.next = [created |-> row[d].created, id |-> d, status |-> f]
        BY <3>1 DEF PageFits, Listing!Page
      <3>3. Len(q.items) \in DOMAIN q.items
        BY <3>2
      <3>4. d \in DOMAIN row
        BY <3>1, <3>3 DEF PageFits
      <3>5. e # None /\ Behind(row, d, e)
        BY <3>3, <2>1, <2>3, <1>2 DEF LoadFits, PagesFollow
      <3>6. PageFits(row, load.pages[i], f) /\ load.pages[i] \in Listing!Page
        BY <1>2 DEF LoadFits, PagesFollow
      <3>7. e.created \in Int /\ e.id \in Int
        <4>1. e \in Listing!Cursor /\ Ids \subseteq Int /\ LastTime \in Nat
          BY <3>5, <3>6, PageParts DEF Listing!ListingFits
        <4> QED
          BY <4>1, CursorParts
      <3>8. \A n \in DOMAIN p.items : p.items[n] \in DOMAIN row
        BY <1>1 DEF PageFits
      <3> HIDE DEF d, e
      <3>9. \A n \in DOMAIN p.items : Behind(row, p.items[n], e)
        BY <2>1, <3>1, <3>2, <3>4, <3>5, <3>7, <3>8, <1>5 DEF Behind
      <3> QED
        BY <3>5, <3>9 DEF e
    <2> QED
      BY <2>2, <2>3
  <1>9. PagesFollow(row, grown, f)
    <2> SUFFICES ASSUME NEW i \in 1..k + 1, NEW j \in 1..k + 1, i < j
                 PROVE  /\ grown.pages[i].next # None
                        /\ \A n \in DOMAIN grown.pages[j].items :
                              Behind(row, grown.pages[j].items[n], grown.pages[i].next)
      BY <1>2, <1>7 DEF PagesFollow
    <2>1. i \in 1..k
      BY <1>2
    <2>2. CASE j = k + 1
      BY <2>1, <2>2, <1>2, <1>8
    <2>3. CASE j \in 1..k
      BY <2>1, <2>3, <1>2 DEF LoadFits, PagesFollow
    <2> QED
      BY <2>2, <2>3, <1>6
  <1>10. ASSUME NEW id \in grown.since
         PROVE  /\ id \in Listing!Listed(f)
                /\ \/ Listing!Has(grown, id)
                   \/ ~Listing!AtEnd(grown) /\ Behind(row, id, Listing!LastCursor(grown))
    <2>1. id \in Listing!Listed(f)
      BY <1>10, <1>3 DEF LoadFits, NoneSkipped, Listing!Listed
    <2>2. Listing!LastCursor(grown) = p.next /\ (Listing!AtEnd(grown) <=> p.next = None)
      BY <1>2 DEF Listing!LastCursor, Listing!AtEnd
    <2>3. CASE \E n \in DOMAIN p.items : p.items[n] = id
      <3>1. k + 1 \in DOMAIN grown.pages
        BY <1>2
      <3> QED
        BY <2>1, <2>3, <3>1, <1>2 DEF Listing!Has
    <2>4. CASE p.next # None /\ Behind(row, id, p.next)
      BY <2>1, <2>2, <2>4
    <2>5. CASE k # 0 /\ Listing!Has(load, id)
      <3>1. Listing!Has(grown, id)
        BY <2>5, <1>2 DEF Listing!Has
      <3> QED
        BY <2>1, <3>1
    <2>6. CASE Behind(row, id, c)
      BY <1>1, <2>1, <2>3, <2>4, <2>6
    <2>7. k = 0 => c = None
      BY <1>3 DEF Listing!LastCursor
    <2> QED
      BY <2>5, <2>6, <2>7, <1>3, <1>10 DEF LoadFits, NoneSkipped, Behind
  <1> QED
    BY <1>2, <1>9, <1>10 DEF LoadFits, NoneSkipped, Listing!Listed

\* Rows that are inserted, committed and changed keep their time: what was loaded
\* stays in order, if rows that leave the listing are not counted on any more.
LEMMA LoadKept ==
    ASSUME NEW r, NEW s, NEW load, NEW kept, NEW f,
           load.pages \in Seq(Listing!Page), LoadFits(r, load, f), kept.pages = load.pages,
           kept.since \subseteq load.since, DOMAIN r \subseteq DOMAIN s,
           \A id \in DOMAIN r : s[id].created = r[id].created,
           \A id \in kept.since : s[id].committed = r[id].committed /\ s[id].state = r[id].state
    PROVE  LoadFits(s, kept, f)
  <1>1. \A i \in DOMAIN load.pages : load.pages[i].items \in Seq(Ids)
    <2>1. \A i \in DOMAIN load.pages : load.pages[i] \in Listing!Page
      OBVIOUS
    <2> QED
      BY <2>1, PageParts
  <1>2. ASSUME NEW i \in DOMAIN load.pages
        PROVE  PageFits(s, load.pages[i], f)
    <2> DEFINE p == load.pages[i]
    <2>1. PageFits(r, p, f) /\ p.items \in Seq(Ids)
      BY <1>1 DEF LoadFits, PagesFollow
    <2> HIDE DEF p
    <2>2. p.items # <<>> => Len(p.items) \in DOMAIN p.items
      BY <2>1
    <2>3. PageFits(s, p, f)
      BY <2>1, <2>2 DEF PageFits, Precedes
    <2> QED
      BY <2>3 DEF p
  <1>3. \A i \in DOMAIN load.pages : \A n \in DOMAIN load.pages[i].items : load.pages[i].items[n] \in DOMAIN r
    BY DEF LoadFits, PagesFollow, PageFits
  <1>4. PagesFollow(s, kept, f)
    BY <1>2, <1>3 DEF LoadFits, PagesFollow, Behind
  <1>5. Listing!LastCursor(kept) = Listing!LastCursor(load) /\ (Listing!AtEnd(kept) <=> Listing!AtEnd(load))
        /\ \A id : Listing!Has(kept, id) <=> Listing!Has(load, id)
    BY DEF Listing!LastCursor, Listing!AtEnd, Listing!Has
  <1>6. NoneSkipped(s, kept, f)
    BY <1>5 DEF LoadFits, NoneSkipped, Behind
  <1> QED
    BY <1>4, <1>6 DEF LoadFits

\* Nothing is loaded at first.
LEMMA NothingFits ==
    ASSUME NEW r, NEW load, NEW f, load.pages = <<>>, load.since = {}
    PROVE  LoadFits(r, load, f) /\ ~Listing!AtEnd(load)
  BY DEF LoadFits, PagesFollow, NoneSkipped, Listing!AtEnd

\* The invariant holds at first.
LEMMA ListingInit ==
    ASSUME Listing!ListingFits, Listing!Init
    PROVE  ListingInv
  <1>1. Listing!Nothing = [pages |-> <<>>, since |-> {}]
        /\ Listing!Nothing \in Listing!Load
        /\ fetch = [pages |-> <<>>, since |-> {}, want |-> 1] /\ fetch \in Listing!Fetching
    BY DEF Listing!Init, Listing!Nothing, Listing!Fetch, Listing!Load, Listing!Fetching
  <1>2. row = <<>> /\ DOMAIN row = {} /\ IsFiniteSet(DOMAIN row)
    BY FS_EmptySet DEF Listing!Init
  <1>3. ListingTyped
    BY <1>1, <1>2 DEF ListingTyped, Listing!Init, Listing!ListingFits
  <1>4. \A f \in Filters : LoadFits(row, shown[f], f)
    <2> SUFFICES ASSUME NEW f \in Filters
                 PROVE  LoadFits(row, shown[f], f)
      OBVIOUS
    <2>1. shown[f].pages = <<>> /\ shown[f].since = {}
      BY <1>1 DEF Listing!Init
    <2> QED
      BY <2>1, NothingFits
  <1>5. LoadFits(row, fetch, filter) /\ ~Listing!AtEnd(fetch)
    <2>1. fetch.pages = <<>> /\ fetch.since = {}
      BY <1>1
    <2> QED
      BY <2>1, NothingFits
  <1> QED
    BY <1>3, <1>4, <1>5 DEF ListingInv

\* A load that is kept with its rows.
LEMMA LoadTyped ==
    ASSUME NEW load \in Listing!Load \cup Listing!Fetching
    PROVE  load.pages \in Seq(Listing!Page) /\ load.since \subseteq Ids
  BY DEF Listing!Load, Listing!Fetching

\* What InsertRow and CommitRow leave of the loads.
LEMMA RowsGrow ==
    ASSUME Listing!ListingFits, ListingInv, UNCHANGED <<clock, filter, shown, fetch>>,
           DOMAIN row' \subseteq Ids, IsFiniteSet(DOMAIN row'), row' \in [DOMAIN row' -> Listing!Row],
           DOMAIN row \subseteq DOMAIN row',
           \A id \in DOMAIN row : row'[id].created = row[id].created /\ row'[id].state = row[id].state
                                /\ (row[id].committed => row'[id].committed = row[id].committed)
    PROVE  ListingInv'
  <1>1. ListingTyped'
    BY DEF ListingInv, ListingTyped
  <1>2. \A f \in Filters : LoadFits(row', shown[f], f)
    <2> SUFFICES ASSUME NEW f \in Filters
                 PROVE  LoadFits(row', shown[f], f)
      OBVIOUS
    <2>1. LoadFits(row, shown[f], f) /\ shown[f] \in Listing!Load
      BY DEF ListingInv, ListingTyped
    <2>2. shown[f].pages \in Seq(Listing!Page)
      BY <2>1, LoadTyped
    <2>3. \A id \in shown[f].since : id \in DOMAIN row /\ row[id].committed
      BY <2>1 DEF LoadFits, NoneSkipped
    <2>4. \A id \in shown[f].since :
              row'[id].committed = row[id].committed /\ row'[id].state = row[id].state
      BY <2>3
    <2> QED
      BY <2>1, <2>2, <2>4, LoadKept
  <1>3. ASSUME fetch # None
        PROVE  LoadFits(row', fetch, filter)
    <2>1. LoadFits(row, fetch, filter) /\ fetch \in Listing!Fetching
      BY <1>3 DEF ListingInv, ListingTyped
    <2>2. fetch.pages \in Seq(Listing!Page)
      BY <2>1, LoadTyped
    <2>3. \A id \in fetch.since : id \in DOMAIN row /\ row[id].committed
      BY <2>1 DEF LoadFits, NoneSkipped
    <2>4. \A id \in fetch.since :
              row'[id].committed = row[id].committed /\ row'[id].state = row[id].state
      BY <2>3
    <2> QED
      BY <2>1, <2>2, <2>4, LoadKept
  <1> QED
    BY <1>1, <1>2, <1>3 DEF ListingInv

\* InsertRow: the new row is not committed yet, so no load counts on it.
LEMMA RowInserted ==
    ASSUME Listing!ListingFits, ListingInv, NEW x \in Ids, NEW f \in Filters, Listing!InsertRow(x, f)
    PROVE  ListingInv'
  <1>1. row' = [y \in (DOMAIN row) \cup {x} |->
                   IF y = x THEN [created |-> clock, state |-> f, committed |-> FALSE] ELSE row[y]]
        /\ x \notin DOMAIN row /\ UNCHANGED <<clock, filter, shown, fetch>>
    BY DEF Listing!InsertRow
  <1>2. DOMAIN row' = (DOMAIN row) \cup {x} /\ IsFiniteSet(DOMAIN row')
    BY <1>1, FS_AddElement DEF ListingInv, ListingTyped
  <1>3. row' \in [DOMAIN row' -> Listing!Row] /\ DOMAIN row' \subseteq Ids
    BY <1>1, <1>2 DEF ListingInv, ListingTyped, Listing!Row
  <1>4. \A id \in DOMAIN row : row'[id] = row[id]
    BY <1>1
  <1> QED
    BY <1>1, <1>2, <1>3, <1>4, RowsGrow

\* CommitRow: a late row changes no load, wherever its time puts it.
LEMMA RowCommitted ==
    ASSUME Listing!ListingFits, ListingInv, NEW x \in Ids, Listing!CommitRow(x)
    PROVE  ListingInv'
  <1>1. row' = [row EXCEPT ![x].committed = TRUE] /\ UNCHANGED <<clock, filter, shown, fetch>>
        /\ row \in [DOMAIN row -> Listing!Row]
    BY DEF Listing!CommitRow, ListingInv, ListingTyped
  <1>2. DOMAIN row' = DOMAIN row /\ \A id \in DOMAIN row : row'[id] = IF id = x THEN [row[id] EXCEPT !.committed = TRUE] ELSE row[id]
    BY <1>1
  <1>3. \A id \in DOMAIN row : row[id] \in Listing!Row /\ row'[id] \in Listing!Row
    BY <1>1, <1>2 DEF Listing!Row
  <1>4. row' \in [DOMAIN row' -> Listing!Row]
    BY <1>1, <1>2, <1>3
  <1>5. \A id \in DOMAIN row : row'[id].created = row[id].created /\ row'[id].state = row[id].state
                               /\ (row[id].committed => row'[id].committed = row[id].committed)
    BY <1>2, <1>3 DEF Listing!Row
  <1> QED
    BY <1>1, <1>2, <1>4, <1>5, RowsGrow DEF ListingInv, ListingTyped

\* A change of a row takes it out of what the loads count on.
LEMMA RowChanged ==
    ASSUME Listing!ListingFits, ListingInv, NEW x \in Ids, NEW f \in Filters, Listing!ChangeRow(x, f)
    PROVE  ListingInv'
  <1>1. /\ row' = [row EXCEPT ![x].state = f] /\ row \in [DOMAIN row -> Listing!Row]
        /\ shown' = [g \in Filters |-> Listing!Without(shown[g], x)]
        /\ fetch' = Listing!Without(fetch, x) /\ UNCHANGED <<clock, filter>>
        /\ x \in DOMAIN row
    BY DEF Listing!ChangeRow, ListingInv, ListingTyped
  <1>2. /\ DOMAIN row' = DOMAIN row
        /\ \A id \in DOMAIN row : row'[id] = IF id = x THEN [row[id] EXCEPT !.state = f] ELSE row[id]
    BY <1>1
  <1>3. \A id \in DOMAIN row : row[id] \in Listing!Row /\ row'[id] \in Listing!Row
    BY <1>1, <1>2 DEF Listing!Row
  <1>4. row' \in [DOMAIN row' -> Listing!Row]
    BY <1>1, <1>2, <1>3
  <1>5. \A id \in DOMAIN row : row'[id].created = row[id].created /\ row'[id].committed = row[id].committed
                               /\ (id # x => row'[id].state = row[id].state)
    BY <1>2, <1>3 DEF Listing!Row
  <1>6. None \notin Listing!Load /\ None \notin Listing!Fetching
    BY DEF Listing!ListingFits
  <1>7. ASSUME NEW g \in Filters
        PROVE  shown'[g] \in Listing!Load /\ LoadFits(row', shown'[g], g)
    <2>1. LoadFits(row, shown[g], g) /\ shown[g] \in Listing!Load
      BY DEF ListingInv, ListingTyped
    <2>2. shown'[g] = [shown[g] EXCEPT !.since = @ \ {x}]
      BY <1>1, <1>6, <2>1 DEF Listing!Without
    <2>3. /\ shown'[g] \in Listing!Load /\ shown'[g].pages = shown[g].pages
          /\ shown'[g].since = shown[g].since \ {x}
      BY <2>1, <2>2 DEF Listing!Load
    <2>4. shown[g].pages \in Seq(Listing!Page)
      BY <2>1, LoadTyped
    <2>5. \A id \in shown'[g].since : id \in DOMAIN row /\ id # x
      BY <2>1, <2>3 DEF LoadFits, NoneSkipped
    <2>6. \A id \in shown'[g].since :
              row'[id].committed = row[id].committed /\ row'[id].state = row[id].state
      BY <2>5, <1>5
    <2> QED
      BY <2>1, <2>3, <2>4, <2>6, <1>2, <1>5, LoadKept
  <1>8. ASSUME fetch' # None
        PROVE  /\ fetch' \in Listing!Fetching /\ LoadFits(row', fetch', filter)
               /\ ~Listing!AtEnd(fetch')
    <2>1. LoadFits(row, fetch, filter) /\ fetch \in Listing!Fetching /\ ~Listing!AtEnd(fetch)
      BY <1>1, <1>8 DEF ListingInv, ListingTyped, Listing!Without
    <2>2. fetch' = [fetch EXCEPT !.since = @ \ {x}]
      BY <1>1, <1>6, <2>1 DEF Listing!Without
    <2>3. /\ fetch' \in Listing!Fetching /\ fetch'.pages = fetch.pages
          /\ fetch'.since = fetch.since \ {x}
      BY <2>1, <2>2 DEF Listing!Fetching
    <2>4. fetch.pages \in Seq(Listing!Page)
      BY <2>1, LoadTyped
    <2>5. \A id \in fetch'.since : id \in DOMAIN row /\ id # x
      BY <2>1, <2>3 DEF LoadFits, NoneSkipped
    <2>6. \A id \in fetch'.since :
              row'[id].committed = row[id].committed /\ row'[id].state = row[id].state
      BY <2>5, <1>5
    <2>7. ~Listing!AtEnd(fetch')
      BY <2>1, <2>3 DEF Listing!AtEnd, Listing!LastCursor
    <2> QED
      BY <2>1, <2>3, <2>4, <2>6, <2>7, <1>2, <1>5, LoadKept
  <1>9. shown' \in [Filters -> Listing!Load]
    BY <1>1, <1>7
  <1>10. ListingTyped'
    BY <1>1, <1>2, <1>4, <1>8, <1>9 DEF ListingInv, ListingTyped
  <1> QED
    BY <1>1, <1>7, <1>8, <1>10 DEF ListingInv

\* Making a load under way.
LEMMA FetchingOf ==
    ASSUME NEW pages \in Seq(Listing!Page), NEW since \in SUBSET Ids, NEW want \in Nat
    PROVE  [pages |-> pages, since |-> since, want |-> want] \in Listing!Fetching
  BY DEF Listing!Fetching

\* A load under way with other pages.
LEMMA FetchingWith ==
    ASSUME NEW load \in Listing!Fetching, NEW pages, NEW since
    PROVE  [load EXCEPT !.pages = pages, !.since = since]
               = [pages |-> pages, since |-> since, want |-> load.want]
  <1>1. DOMAIN load = {"pages", "since", "want"}
    BY DEF Listing!Fetching
  <1> DEFINE e == [load EXCEPT !.pages = pages, !.since = since]
             g == [pages |-> pages, since |-> since, want |-> load.want]
  <1>2. e = [x \in {"pages", "since", "want"} |-> e[x]]
        /\ g = [x \in {"pages", "since", "want"} |-> g[x]]
    BY <1>1
  <1>3. \A x \in {"pages", "since", "want"} : e[x] = g[x]
    <2>1. e["pages"] = pages /\ e["since"] = since /\ e["want"] = load["want"]
      BY <1>1
    <2>2. g["pages"] = pages /\ g["since"] = since /\ g["want"] = load["want"]
      OBVIOUS
    <2> HIDE DEF e, g
    <2> QED
      BY <2>1, <2>2
  <1> HIDE DEF e, g
  <1>4. e = g
    BY <1>2, <1>3
  <1> QED
    BY <1>4 DEF e, g

\* The page: a load begins with nothing, or goes on behind what is shown.
LEMMA LoadBegun ==
    ASSUME Listing!ListingFits, ListingInv, UNCHANGED <<clock, row, shown>>, filter' \in Filters,
           NEW load, NEW want, fetch' = Listing!Fetch(load, want), want \in Nat,
           \/ load = Listing!Nothing
           \/ load = shown[filter] /\ filter' = filter /\ ~Listing!AtEnd(load)
    PROVE  ListingInv'
  <1>1. fetch' = [pages |-> load.pages, since |-> load.since, want |-> want]
    BY DEF Listing!Fetch
  <1>2. \/ load.pages = <<>> /\ load.since = {}
        \/ load \in Listing!Load /\ LoadFits(row, load, filter') /\ ~Listing!AtEnd(load)
    BY DEF Listing!Nothing, ListingInv, ListingTyped
  <1>3. fetch' \in Listing!Fetching /\ fetch'.pages = load.pages /\ fetch'.since = load.since
    <2>1. load.pages \in Seq(Listing!Page) /\ load.since \subseteq Ids
      BY <1>2, LoadTyped, EmptySeq
    <2>2. [pages |-> load.pages, since |-> load.since, want |-> want] \in Listing!Fetching
      BY <2>1, FetchingOf
    <2> QED
      BY <1>1, <2>2
  <1>4. LoadFits(row, fetch', filter') /\ ~Listing!AtEnd(fetch')
    <2>1. CASE load.pages = <<>> /\ load.since = {}
      BY <2>1, <1>3, NothingFits
    <2>2. CASE load \in Listing!Load /\ LoadFits(row, load, filter') /\ ~Listing!AtEnd(load)
      <3>1. load.pages \in Seq(Listing!Page)
        BY <2>2, LoadTyped
      <3>2. LoadFits(row, fetch', filter')
        BY <2>2, <3>1, <1>3, LoadKept
      <3> QED
        BY <2>2, <3>2, <1>3 DEF Listing!AtEnd, Listing!LastCursor
    <2> QED
      BY <1>2, <2>1, <2>2
  <1> QED
    BY <1>3, <1>4 DEF ListingInv, ListingTyped

\* FetchPage: one page more, kept as loaded or shown as done.
LEMMA PageFetched ==
    ASSUME Listing!ListingFits, ListingInv, Listing!FetchPage
    PROVE  ListingInv'
  <1> DEFINE p == Listing!ListPage(filter, Listing!LastCursor(fetch))
             loaded == [fetch EXCEPT !.pages = Append(@, p),
                                     !.since = IF fetch.pages = <<>> THEN Listing!Listed(filter) ELSE @]
             done == [pages |-> loaded.pages, since |-> loaded.since]
  <1>1. /\ fetch \in Listing!Fetching /\ LoadFits(row, fetch, filter) /\ ~Listing!AtEnd(fetch)
        /\ filter \in Filters /\ UNCHANGED <<clock, row, filter>> /\ ListingTyped
    BY DEF ListingInv, ListingTyped, Listing!FetchPage
  <1>2. \/ fetch' = None /\ shown' = [shown EXCEPT ![filter] = done]
        \/ fetch' = loaded /\ shown' = shown /\ ~Listing!AtEnd(loaded)
    BY DEF Listing!FetchPage
  <1>3. /\ loaded.pages = Append(fetch.pages, p)
        /\ loaded.since = IF fetch.pages = <<>> THEN Listing!Listed(filter) ELSE fetch.since
        /\ loaded = [pages |-> loaded.pages, since |-> loaded.since, want |-> fetch.want]
    <2>2. loaded = [pages |-> Append(fetch.pages, p),
                    since |-> IF fetch.pages = <<>> THEN Listing!Listed(filter) ELSE fetch.since,
                    want |-> fetch.want]
      BY <1>1, FetchingWith
    <2> HIDE DEF loaded
    <2> QED
      BY <2>2
  <1> HIDE DEF loaded
  <1>4. fetch.pages \in Seq(Listing!Page) /\ fetch.since \subseteq Ids /\ fetch.want \in Nat
    BY <1>1 DEF Listing!Fetching
  <1>5. LoadFits(row, loaded, filter) /\ loaded.pages \in Seq(Listing!Page)
    BY <1>1, <1>3, <1>4, PageAdded
  <1>6. Listing!Listed(filter) \subseteq Ids
    BY <1>1 DEF Listing!Listed, ListingTyped
  <1>7. loaded.since \subseteq Ids
    BY <1>3, <1>4, <1>6
  <1>8. loaded \in Listing!Fetching /\ done \in Listing!Load /\ done.pages = loaded.pages /\ done.since = loaded.since
    <2>1. loaded \in Listing!Fetching
      BY <1>3, <1>4, <1>5, <1>7, FetchingOf
    <2>2. done \in Listing!Load
      BY <1>5, <1>7 DEF Listing!Load
    <2> QED
      BY <2>1, <2>2
  <1>9. LoadFits(row, done, filter)
    BY <1>5, <1>8, LoadKept
  <1> HIDE DEF done
  <1>10. CASE fetch' = None /\ shown' = [shown EXCEPT ![filter] = done]
    BY <1>1, <1>8, <1>9, <1>10 DEF ListingInv, ListingTyped
  <1>11. CASE fetch' = loaded /\ shown' = shown /\ ~Listing!AtEnd(loaded)
    BY <1>1, <1>5, <1>8, <1>11 DEF ListingInv, ListingTyped
  <1> QED
    BY <1>2, <1>10, <1>11

\* Every step keeps the invariant.
LEMMA ListingStep ==
    ASSUME Listing!ListingFits, ListingInv, [Listing!Next]_(Listing!vars)
    PROVE  ListingInv'
  <1>1. CASE UNCHANGED Listing!vars
    <2>1. UNCHANGED <<clock, row, filter, shown, fetch>>
      BY <1>1 DEF Listing!vars
    <2> QED
      BY <2>1 DEF ListingInv, ListingTyped
  <1>2. CASE Listing!Tick
    BY <1>2 DEF Listing!Tick, ListingInv, ListingTyped, Listing!ListingFits
  <1>3. CASE Listing!FetchPage
    BY <1>3, PageFetched
  <1>4. CASE Listing!FetchFails
    BY <1>4 DEF Listing!FetchFails, ListingInv, ListingTyped
  <1>5. CASE Listing!LoadMore
    <2>1. Len(shown[filter].pages) + 1 \in Nat /\ filter \in Filters
      BY LoadTyped DEF ListingInv, ListingTyped
    <2> QED
      BY <1>5, <2>1, LoadBegun DEF Listing!LoadMore
  <1>6. CASE Listing!Reload
    <2>1. (IF shown[filter].pages = <<>> THEN 1 ELSE Len(shown[filter].pages)) \in Nat /\ filter \in Filters
      BY LoadTyped DEF ListingInv, ListingTyped
    <2> QED
      BY <1>6, <2>1, LoadBegun DEF Listing!Reload
  <1>7. ASSUME NEW id \in Ids, Listing!CommitRow(id)
        PROVE  ListingInv'
    BY <1>7, RowCommitted
  <1>8. ASSUME NEW id \in Ids, NEW f \in Filters, Listing!InsertRow(id, f)
        PROVE  ListingInv'
    BY <1>8, RowInserted
  <1>9. ASSUME NEW id \in Ids, NEW f \in Filters, Listing!ChangeRow(id, f)
        PROVE  ListingInv'
    BY <1>9, RowChanged
  <1>10. ASSUME NEW f \in Filters, Listing!SelectFilter(f)
         PROVE  ListingInv'
    <2>1. (IF shown[f].pages = <<>> THEN 1 ELSE Len(shown[f].pages)) \in Nat
      BY LoadTyped DEF ListingInv, ListingTyped
    <2> QED
      BY <1>10, <2>1, LoadBegun DEF Listing!SelectFilter
  <1> QED
    BY <1>1, <1>2, <1>3, <1>4, <1>5, <1>6, <1>7, <1>8, <1>9, <1>10 DEF Listing!Next

\* ListingInv is inductive: the pages of every load are in order behind each
\* other's cursors, and rows that stayed are on a page or behind the last cursor.
THEOREM ListingInvariance ==
    ASSUME Listing!ListingFits
    PROVE  Listing!Spec => []ListingInv
  <1>1. Listing!Init => ListingInv
    BY ListingInit
  <1>2. ListingInv /\ [Listing!Next]_(Listing!vars) => ListingInv'
    BY ListingStep
  <1> QED
    BY <1>1, <1>2, PTL DEF Listing!Spec

\* The invariant is enough for what the listings promise.
LEMMA OnePlaceEach ==
    ASSUME ListingInv, NEW f \in Filters,
           NEW i \in DOMAIN shown[f].pages, NEW j \in DOMAIN shown[f].pages,
           NEW m \in DOMAIN shown[f].pages[i].items, NEW n \in DOMAIN shown[f].pages[j].items,
           Listing!ListingFits, i < j
    PROVE  shown[f].pages[i].items[m] # shown[f].pages[j].items[n]
  <1> DEFINE p == shown[f].pages[i]
             q == shown[f].pages[j]
             c == p.items[Len(p.items)]
             x == q.items[n]
  <1>1. /\ PageFits(row, p, f) /\ PageFits(row, q, f) /\ p.next # None /\ Behind(row, x, p.next)
        /\ shown[f].pages \in Seq(Listing!Page)
    BY LoadTyped DEF ListingInv, ListingTyped, LoadFits, PagesFollow
  <1>2. p.items \in Seq(Ids) /\ m \in DOMAIN p.items
    BY <1>1, PageParts
  <1>3. p.items # <<>> /\ p.next = [created |-> row[c].created, id |-> c, status |-> f]
    BY <1>1 DEF PageFits
  <1>4. Len(p.items) \in DOMAIN p.items /\ (m = Len(p.items) \/ m < Len(p.items))
    BY <1>2, <1>3
  <1>5. c \in DOMAIN row /\ x \in DOMAIN row
    BY <1>1, <1>4 DEF PageFits
  <1>6. c \in Int /\ x \in Int /\ row[c].created \in Int /\ row[x].created \in Int
    BY <1>5 DEF ListingInv, ListingTyped, Listing!Row, Listing!ListingFits
  <1>7. p.items[m] = c \/ Precedes(row, p.items[m], c)
    BY <1>1, <1>4 DEF PageFits
  <1>8. Behind(row, x, [created |-> row[c].created, id |-> c, status |-> f])
        /\ [created |-> row[c].created, id |-> c, status |-> f] # None
    BY <1>1, <1>3
  <1> HIDE DEF c, x
  <1>9. x # c /\ ~Precedes(row, x, c)
    BY <1>6, <1>8 DEF Behind, Precedes
  <1>10. p.items[m] # x
    BY <1>7, <1>9
  <1> QED
    BY <1>10 DEF x

\* Two places with one row would be on one page, in its order, or on two, of
\* which one lies behind the other.
LEMMA ListedOnceFollows ==
    ASSUME Listing!ListingFits, ListingInv
    PROVE  Listing!ListedOnce
  <1> SUFFICES ASSUME NEW f \in Filters
               PROVE  /\ \A i, j \in DOMAIN shown[f].pages :
                            \A m \in DOMAIN shown[f].pages[i].items, n \in DOMAIN shown[f].pages[j].items :
                               shown[f].pages[i].items[m] = shown[f].pages[j].items[n] => i = j /\ m = n
                      /\ Listing!AtEnd(shown[f]) =>
                            \A id \in shown[f].since : Listing!Has(shown[f], id)
    BY DEF Listing!ListedOnce
  <1>1. shown[f].pages \in Seq(Listing!Page) /\ LoadFits(row, shown[f], f)
    BY LoadTyped DEF ListingInv, ListingTyped
  <1>2. ASSUME NEW i \in DOMAIN shown[f].pages, NEW j \in DOMAIN shown[f].pages,
               NEW m \in DOMAIN shown[f].pages[i].items, NEW n \in DOMAIN shown[f].pages[j].items,
               shown[f].pages[i].items[m] = shown[f].pages[j].items[n]
        PROVE  i = j /\ m = n
    <2>1. i \in Int /\ j \in Int
      BY <1>1
    <2>2. i = j
      BY <1>2, <2>1, OnePlaceEach
    <2>3. PageFits(row, shown[f].pages[i], f) /\ shown[f].pages[i].items \in Seq(Ids)
      BY <1>1, PageParts DEF LoadFits, PagesFollow
    <2>4. m \in Int /\ n \in Int /\ n \in DOMAIN shown[f].pages[i].items
      BY <2>2, <2>3
    <2>5. shown[f].pages[i].items[m] \in DOMAIN row
      BY <2>3 DEF PageFits
    <2>6. ~Precedes(row, shown[f].pages[i].items[m], shown[f].pages[i].items[m])
      BY <2>5 DEF ListingInv, ListingTyped, Listing!Row, Listing!ListingFits, Precedes
    <2>7. m = n
      BY <1>2, <2>2, <2>3, <2>4, <2>6 DEF PageFits
    <2> QED
      BY <2>2, <2>7
  <1>3. ASSUME Listing!AtEnd(shown[f]), NEW id \in shown[f].since
        PROVE  Listing!Has(shown[f], id)
    BY <1>1, <1>3 DEF LoadFits, NoneSkipped, Listing!AtEnd
  <1> QED
    BY <1>2, <1>3

\* The last cursor was made from a page of the same listing.
LEMMA CursorsFollow ==
    ASSUME ListingInv
    PROVE  Listing!CursorsFitTheListing
  <1> SUFFICES ASSUME fetch # None, Listing!LastCursor(fetch) # None
               PROVE  Listing!LastCursor(fetch).status = filter
    BY DEF Listing!CursorsFitTheListing
  <1>1. LoadFits(row, fetch, filter) /\ fetch.pages \in Seq(Listing!Page) /\ fetch.pages # <<>>
    BY LoadTyped DEF ListingInv, ListingTyped, Listing!LastCursor
  <1>2. Len(fetch.pages) \in DOMAIN fetch.pages
    BY <1>1
  <1>3. PageFits(row, fetch.pages[Len(fetch.pages)], filter)
    BY <1>1, <1>2 DEF LoadFits, PagesFollow
  <1> QED
    BY <1>1, <1>3 DEF PageFits, Listing!LastCursor

\* The invariant is enough for the types.
LEMMA ListingTypesFollow ==
    ASSUME Listing!ListingFits, ListingInv
    PROVE  Listing!PagingTypeOK
  <1>1. ASSUME NEW load, NEW f, load \in Listing!Load \cup Listing!Fetching, LoadFits(row, load, f)
        PROVE  /\ \A i \in DOMAIN load.pages :
                     load.pages[i] \in Listing!Page /\ Len(load.pages[i].items) <= Limit
               /\ load.since \subseteq DOMAIN row
    <2>1. load.pages \in Seq(Listing!Page)
      BY <1>1, LoadTyped
    <2>2. \A i \in DOMAIN load.pages : load.pages[i] \in Listing!Page
      BY <2>1
    <2>3. \A i \in DOMAIN load.pages : Len(load.pages[i].items) <= Limit
      BY <1>1 DEF LoadFits, PagesFollow, PageFits
    <2>4. load.since \subseteq DOMAIN row
      BY <1>1 DEF LoadFits, NoneSkipped
    <2> QED
      BY <2>2, <2>3, <2>4
  <1>2. \A load \in {fetch} \cup {shown[f] : f \in Filters} : load # None =>
            \E f : load \in Listing!Load \cup Listing!Fetching /\ LoadFits(row, load, f)
    BY DEF ListingInv, ListingTyped
  <1> QED
    BY <1>1, <1>2 DEF ListingInv, ListingTyped, Listing!PagingTypeOK

\* Paging!ListingsConsistent: a listing shows no row twice, shows all that stayed
\* when it is read to its end, and asks with its own cursors, however rows are
\* inserted, committed late and decided between its pages.
THEOREM ListingsStayConsistent ==
    ASSUME Listing!ListingFits
    PROVE  Listing!Spec => []Listing!ListingsConsistent
  <1>1. ListingInv => Listing!ListingsConsistent
    BY ListedOnceFollows, CursorsFollow, ListingTypesFollow DEF Listing!ListingsConsistent
  <1> QED
    BY <1>1, ListingInvariance, PTL

-----------------------------------------------------------------------------
(* The slugs of a name.                                                    *)

CONSTANTS MaxName, MaxBase, MaxSuggestion, Tries

VARIABLE name

Naming == INSTANCE Slug

\* What names and slugs are written with.
Symbols == 0..11
Texts == Seq(Symbols)

NoDouble(s) == \A i \in 1..Len(s) - 1 : ~(s[i] = Naming!Dash /\ s[i + 1] = Naming!Dash)
StartsPlain(s) == s # <<>> => s[1] # Naming!Dash

\* One character after the other.
Joined(t, c) ==
    IF c = Naming!Dash /\ Naming!EndsWith(t, Naming!Dash) THEN t ELSE Append(t, c)

\* The function that Collapsed is defined by exists.
LEMMA CollapsedIs ==
    ASSUME NEW s \in Texts
    PROVE  Naming!Collapsed(s) = [n \in 0..Len(s) |->
               IF n = 0 THEN <<>> ELSE Joined(Naming!Collapsed(s)[n - 1], s[n])]
  <1> DEFINE N == Len(s)
             step == [n \in 1..N |-> [t \in Texts |-> Joined(t, s[n])]]
             first == Naming!Collapsed(s)
  <1>1. N \in Nat /\ \A n \in 1..N : s[n] \in Symbols
    BY DEF Texts
  <1>2. \A n \in 1..N : \A t \in Texts : Joined(t, s[n]) \in Texts
    BY <1>1 DEF Joined, Texts
  <1>3. step \in [1..N -> [Texts -> Texts]]
    BY <1>2
  <1>4. <<>> \in Texts
    BY DEF Texts
  <1> HIDE DEF step, N
  <1>5. \E f \in [0..N -> Texts] : Takes(f, N, <<>>, step)
    BY <1>1, <1>3, <1>4, Recursion
  <1>6. PICK f \in [0..N -> Texts] : f[0] = <<>> /\ \A n \in 1..N : f[n] = step[n][f[n - 1]]
    BY <1>5 DEF Takes
  <1>7. f = [n \in 0..N |-> IF n = 0 THEN <<>> ELSE Joined(f[n - 1], s[n])]
    <2>1. \A n \in 1..N : f[n] = Joined(f[n - 1], s[n])
      <3> SUFFICES ASSUME NEW n \in 1..N
                   PROVE  f[n] = Joined(f[n - 1], s[n])
        OBVIOUS
      <3>1. n - 1 \in 0..N
        BY <1>1
      <3>2. f[n - 1] \in Texts /\ f[n] = step[n][f[n - 1]]
        BY <1>6, <3>1
      <3> QED
        BY <3>2 DEF step
    <2>2. \A n \in 0..N : n # 0 => n \in 1..N
      BY <1>1
    <2>3. \A n \in 0..N : f[n] = IF n = 0 THEN <<>> ELSE Joined(f[n - 1], s[n])
      BY <1>6, <2>1, <2>2
    <2> QED
      BY <2>3
  <1>8. first = [n \in 0..N |-> IF n = 0 THEN <<>> ELSE Joined(first[n - 1], s[n])]
    <2>1. f = [n \in 0..Len(s) |->
                  IF n = 0 THEN <<>>
                  ELSE IF s[n] = Naming!Dash /\ Naming!EndsWith(f[n - 1], Naming!Dash) THEN f[n - 1]
                  ELSE Append(f[n - 1], s[n])]
      BY <1>7 DEF N, Joined
    <2>2. first = [n \in 0..Len(s) |->
                  IF n = 0 THEN <<>>
                  ELSE IF s[n] = Naming!Dash /\ Naming!EndsWith(first[n - 1], Naming!Dash) THEN first[n - 1]
                  ELSE Append(first[n - 1], s[n])]
      BY <2>1 DEF Naming!Collapsed
    <2> QED
      BY <2>2 DEF N, Joined
  <1> QED
    BY <1>8 DEF N

\* A character that is joined makes no two dashes of one.
LEMMA JoinedKeeps ==
    ASSUME NEW t \in Texts, NEW c \in Symbols, NoDouble(t)
    PROVE  Joined(t, c) \in Texts /\ NoDouble(Joined(t, c))
  <1>1. CASE c = Naming!Dash /\ Naming!EndsWith(t, Naming!Dash)
    BY <1>1 DEF Joined
  <1>2. CASE ~(c = Naming!Dash /\ Naming!EndsWith(t, Naming!Dash))
    <2>1. Joined(t, c) = Append(t, c) /\ t \in Seq(Symbols)
      BY <1>2 DEF Joined, Texts
    <2>2. Append(t, c) \in Seq(Symbols) /\ Len(Append(t, c)) = Len(t) + 1 /\ Len(t) \in Nat
          /\ \A i \in 1..Len(t) : Append(t, c)[i] = t[i]
          /\ Append(t, c)[Len(t) + 1] = c
      BY <2>1
    <2>3. ASSUME NEW i \in 1..Len(t)
          PROVE  ~(Append(t, c)[i] = Naming!Dash /\ Append(t, c)[i + 1] = Naming!Dash)
      <3>1. CASE i = Len(t)
        <4>1. t # <<>>
          BY <3>1, <2>2, EmptySeq
        <4> QED
          BY <4>1, <3>1, <2>2, <1>2 DEF Naming!EndsWith
      <3>2. CASE i # Len(t)
        <4>1. i \in 1..Len(t) - 1 /\ i + 1 \in 1..Len(t)
          BY <3>2, <2>2
        <4> QED
          BY <4>1, <2>2 DEF NoDouble
      <3> QED
        BY <3>1, <3>2
    <2>4. NoDouble(Append(t, c))
      BY <2>2, <2>3 DEF NoDouble
    <2> QED
      BY <2>1, <2>2, <2>4 DEF Texts
  <1> QED
    BY <1>1, <1>2

\* Collapsing leaves no two dashes side by side.
LEMMA CollapseIs ==
    ASSUME NEW s \in Texts
    PROVE  Naming!Collapse(s) \in Texts /\ NoDouble(Naming!Collapse(s))
  <1> DEFINE N == Len(s)
             first == Naming!Collapsed(s)
             G == {n \in 0..N : first[n] \in Texts /\ NoDouble(first[n])}
  <1>1. N \in Nat /\ \A n \in 1..N : s[n] \in Symbols
    BY DEF Texts
  <1>2. first = [n \in 0..N |-> IF n = 0 THEN <<>> ELSE Joined(first[n - 1], s[n])]
    BY CollapsedIs
  <1>3. <<>> \in Texts /\ NoDouble(<<>>)
    BY DEF Texts, NoDouble
  <1> HIDE DEF first
  <1>4. 0 \in G
    BY <1>1, <1>2, <1>3
  <1>5. \A n \in 1..N : n - 1 \in G => n \in G
    <2> SUFFICES ASSUME NEW n \in 1..N, n - 1 \in G
                 PROVE  n \in G
      OBVIOUS
    <2>1. n \in 0..N /\ n # 0 /\ first[n - 1] \in Texts /\ NoDouble(first[n - 1])
      BY <1>1
    <2>2. first[n] = Joined(first[n - 1], s[n])
      BY <1>2, <2>1
    <2> QED
      BY <1>1, <2>1, <2>2, JoinedKeeps
  <1> HIDE DEF G
  <1>6. 0..N \subseteq G
    BY <1>1, <1>4, <1>5, Climbs
  <1>7. N \in G
    BY <1>1, <1>6
  <1> QED
    BY <1>7 DEF G, first, Naming!Collapse

\* Without a dash at the start.
LEMMA CutLeftIs ==
    ASSUME NEW s \in Texts, NoDouble(s)
    PROVE  LET t == Naming!CutLeft(s) IN t \in Texts /\ NoDouble(t) /\ StartsPlain(t)
  <1>1. s \in Seq(Symbols) /\ Len(s) \in Nat
    BY DEF Texts
  <1>2. CASE ~(s # <<>> /\ Head(s) = Naming!Dash)
    BY <1>1, <1>2 DEF Naming!CutLeft, StartsPlain
  <1>3. CASE s # <<>> /\ Head(s) = Naming!Dash
    <2>1. Naming!CutLeft(s) = Tail(s) /\ s[1] = Naming!Dash /\ 1 \in 1..Len(s)
      BY <1>1, <1>3 DEF Naming!CutLeft
    <2>2. Tail(s) \in Seq(Symbols) /\ Len(Tail(s)) = Len(s) - 1 /\ \A i \in 1..Len(s) - 1 : Tail(s)[i] = s[i + 1]
      BY <1>1, <1>3
    <2>3. NoDouble(Tail(s))
      <3> SUFFICES ASSUME NEW i \in 1..Len(s) - 2
                   PROVE  ~(Tail(s)[i] = Naming!Dash /\ Tail(s)[i + 1] = Naming!Dash)
        BY <1>1, <2>2 DEF NoDouble
      <3>1. i \in 1..Len(s) - 1 /\ i + 1 \in 1..Len(s) - 1
        BY <1>1
      <3> QED
        BY <2>2, <3>1 DEF NoDouble
    <2>4. StartsPlain(Tail(s))
      <3> SUFFICES ASSUME Tail(s) # <<>>
                   PROVE  Tail(s)[1] # Naming!Dash
        BY DEF StartsPlain
      <3>1. 1 \in 1..Len(s) - 1
        BY <1>1, <2>1, <2>2, EmptySeq
      <3> QED
        BY <2>1, <2>2, <3>1 DEF NoDouble
    <2> QED
      BY <2>1, <2>2, <2>3, <2>4 DEF Texts
  <1> QED
    BY <1>2, <1>3

\* The first k characters.
LEMMA FrontIs ==
    ASSUME NEW s \in Texts, NEW k \in 0..Len(s)
    PROVE  /\ SubSeq(s, 1, k) \in Texts /\ Len(SubSeq(s, 1, k)) = k
           /\ \A i \in 1..k : SubSeq(s, 1, k)[i] = s[i]
           /\ NoDouble(s) => NoDouble(SubSeq(s, 1, k))
           /\ StartsPlain(s) => StartsPlain(SubSeq(s, 1, k))
  <1>1. s \in Seq(Symbols) /\ Len(s) \in Nat /\ k \in Nat
    BY DEF Texts
  <1>2. \A i \in 1..k : s[i] \in Symbols
    BY <1>1
  <1>3. /\ SubSeq(s, 1, k) \in Seq(Symbols) /\ Len(SubSeq(s, 1, k)) = k
        /\ \A i \in 1..k : SubSeq(s, 1, k)[i] = s[i]
    BY <1>1, <1>2, SubSeqProperties
  <1> DEFINE t == SubSeq(s, 1, k)
  <1> HIDE DEF t
  <1>4. t \in Seq(Symbols) /\ Len(t) = k /\ \A i \in 1..k : t[i] = s[i]
    BY <1>3 DEF t
  <1>5. NoDouble(s) => NoDouble(t)
    <2> SUFFICES ASSUME NoDouble(s), NEW i \in 1..k - 1
                 PROVE  ~(t[i] = Naming!Dash /\ t[i + 1] = Naming!Dash)
      BY <1>4 DEF NoDouble
    <2>1. i \in 1..Len(s) - 1 /\ i \in 1..k /\ i + 1 \in 1..k
      BY <1>1
    <2> QED
      BY <2>1, <1>4 DEF NoDouble
  <1>6. StartsPlain(s) => StartsPlain(t)
    <2> SUFFICES ASSUME StartsPlain(s), t # <<>>
                 PROVE  t[1] # Naming!Dash
      BY DEF StartsPlain
    <2>1. k # 0
      BY <1>4, EmptySeq
    <2>2. 1 \in 1..k /\ Len(s) # 0
      BY <1>1, <2>1
    <2>3. s # <<>>
      BY <2>2
    <2> QED
      BY <2>2, <2>3, <1>4 DEF StartsPlain
  <1> QED
    BY <1>4, <1>5, <1>6 DEF t, Texts

\* Without a dash at the end; there is one at most.
LEMMA CutRightIs ==
    ASSUME NEW s \in Texts, NoDouble(s), StartsPlain(s)
    PROVE  LET t == Naming!CutRight(s) IN
           /\ t \in Texts /\ NoDouble(t) /\ StartsPlain(t) /\ Len(t) <= Len(s)
           /\ ~Naming!EndsWith(t, Naming!Dash)
  <1>1. s \in Seq(Symbols) /\ Len(s) \in Nat
    BY DEF Texts
  <1>2. CASE ~Naming!EndsWith(s, Naming!Dash)
    BY <1>1, <1>2 DEF Naming!CutRight
  <1>3. CASE Naming!EndsWith(s, Naming!Dash)
    <2> DEFINE t == SubSeq(s, 1, Len(s) - 1)
    <2>1. Naming!CutRight(s) = t /\ s # <<>> /\ s[Len(s)] = Naming!Dash
      BY <1>3 DEF Naming!CutRight, Naming!EndsWith
    <2>2. Len(s) # 0 /\ Len(s) # 1
      BY <1>1, <2>1, EmptySeq DEF StartsPlain
    <2>3. Len(s) - 1 \in 0..Len(s) /\ Len(s) - 1 \in 1..Len(s) - 1 /\ (Len(s) - 1) + 1 = Len(s)
      <3> DEFINE n == Len(s)
      <3>1. n \in Nat /\ n # 0 /\ n # 1
        BY <1>1, <2>2
      <3> HIDE DEF n
      <3>2. n - 1 \in 0..n /\ n - 1 \in 1..n - 1 /\ (n - 1) + 1 = n
        BY <3>1
      <3> QED
        BY <3>2 DEF n
    <2>4. /\ t \in Texts /\ Len(t) = Len(s) - 1 /\ NoDouble(t) /\ StartsPlain(t)
          /\ \A i \in 1..Len(s) - 1 : t[i] = s[i]
      BY <2>3, FrontIs
    <2>5. s[Len(s) - 1] # Naming!Dash
      BY <2>1, <2>3 DEF NoDouble
    <2> HIDE DEF t
    <2>6. ~Naming!EndsWith(t, Naming!Dash)
      BY <2>3, <2>4, <2>5 DEF Naming!EndsWith
    <2> QED
      BY <1>1, <2>1, <2>4, <2>6
  <1> QED
    BY <1>2, <1>3

\* The first n characters, or all.
LEMMA SliceIs ==
    ASSUME NEW s \in Texts, NEW n \in Nat
    PROVE  LET t == Naming!Slice(s, n) IN
           /\ t \in Texts /\ Len(t) <= n /\ (Len(s) <= n => t = s) /\ (Len(s) > n => Len(t) = n)
           /\ NoDouble(s) => NoDouble(t)
           /\ StartsPlain(s) => StartsPlain(t)
  <1> DEFINE k == IF Len(s) < n THEN Len(s) ELSE n
  <1>1. s \in Seq(Symbols) /\ Len(s) \in Nat
    BY DEF Texts
  <1>2. k \in 0..Len(s) /\ Naming!Slice(s, n) = SubSeq(s, 1, k)
    BY <1>1 DEF Naming!Slice
  <1>3. k <= n /\ (Len(s) <= n => k = Len(s)) /\ (Len(s) > n => k = n)
    BY <1>1
  <1> HIDE DEF k
  <1>4. /\ SubSeq(s, 1, k) \in Texts /\ Len(SubSeq(s, 1, k)) = k
        /\ \A i \in 1..k : SubSeq(s, 1, k)[i] = s[i]
        /\ NoDouble(s) => NoDouble(SubSeq(s, 1, k))
        /\ StartsPlain(s) => StartsPlain(SubSeq(s, 1, k))
    BY <1>2, FrontIs
  <1>5. Len(s) <= n => SubSeq(s, 1, k) = s
    <2> DEFINE t == SubSeq(s, 1, k)
    <2> SUFFICES ASSUME Len(s) <= n
                 PROVE  t = s
      OBVIOUS
    <2>1. t \in Seq(Symbols) /\ Len(t) = Len(s) /\ \A i \in 1..Len(s) : t[i] = s[i]
      BY <1>3, <1>4 DEF Texts
    <2> HIDE DEF t
    <2> QED
      BY <2>1, <1>1, SeqEqual
  <1> QED
    BY <1>2, <1>3, <1>4, <1>5

\* What is left of a name is nothing, or what the database accepts.
LEMMA NormalizedIs ==
    ASSUME NEW s \in Texts, NEW n \in Nat
    PROVE  LET t == Naming!Normalized(s, n) IN
           /\ t \in Texts /\ Len(t) <= n
           /\ t # <<>> => Naming!WellFormed(t)
  <1> DEFINE a == Naming!CutLeft(Naming!Collapse(s))
             b == Naming!CutRight(a)
             c == Naming!Slice(b, n)
             t == Naming!CutRight(c)
  <1>1. a \in Texts /\ NoDouble(a) /\ StartsPlain(a)
    BY CollapseIs, CutLeftIs
  <1> HIDE DEF a
  <1>2. b \in Texts /\ NoDouble(b) /\ StartsPlain(b)
    BY <1>1, CutRightIs
  <1> HIDE DEF b
  <1>3. c \in Texts /\ NoDouble(c) /\ StartsPlain(c) /\ Len(c) <= n
    BY <1>2, SliceIs
  <1> HIDE DEF c
  <1>4. /\ t \in Texts /\ NoDouble(t) /\ StartsPlain(t) /\ Len(t) <= Len(c)
        /\ ~Naming!EndsWith(t, Naming!Dash)
    BY <1>3, CutRightIs
  <1> HIDE DEF t
  <1>5. Len(t) <= n
    BY <1>3, <1>4 DEF Texts
  <1>6. t # <<>> => Naming!WellFormed(t)
    BY <1>4 DEF Naming!WellFormed, NoDouble, StartsPlain, Texts
  <1> QED
    BY <1>4, <1>5, <1>6 DEF Naming!Normalized, t, c, b, a

\* The base is accepted and leaves room for a number.
LEMMA BaseIs ==
    ASSUME Naming!SlugFits, NEW s \in Texts
    PROVE  LET b == Naming!OrganizationSlugBase(s) IN
           b \in Texts /\ Len(b) <= MaxBase /\ Naming!WellFormed(b)
  <1>1. MaxBase \in Nat /\ MaxBase >= 4
    BY DEF Naming!SlugFits
  <1>2. CASE Naming!Normalized(s, MaxBase) # <<>>
    BY <1>1, <1>2, NormalizedIs DEF Naming!OrganizationSlugBase
  <1>3. CASE Naming!Normalized(s, MaxBase) = <<>>
    <2> DEFINE d == <<10, 10, 10, 10>>
    <2>1. d \in Texts /\ Len(d) = 4
      BY DEF Texts, Symbols
    <2>2. Naming!Slice(d, MaxBase) = d
      BY <2>1, <1>1, SliceIs
    <2>3. Naming!WellFormed(d)
      BY DEF Naming!WellFormed, Naming!EndsWith, Naming!Dash
    <2>4. Naming!OrganizationSlugBase(s) = d
      BY <1>3, <2>2 DEF Naming!OrganizationSlugBase
    <2> HIDE DEF d
    <2> QED
      BY <2>1, <2>3, <2>4, <1>1
  <1> QED
    BY <1>2, <1>3

\* The digits of a number, and that no two numbers have the same.
LEMMA DigitsAre ==
    ASSUME NEW k \in 2..100
    PROVE  /\ Naming!Digits(k) \in Texts /\ Len(Naming!Digits(k)) \in 1..3
           /\ \A i \in DOMAIN Naming!Digits(k) : Naming!Digits(k)[i] \in 0..9
  <1>1. CASE k < 10
    <2>1. Naming!Digits(k) = <<k>> /\ k \in 0..9
      BY <1>1 DEF Naming!Digits
    <2> QED
      BY <2>1 DEF Texts, Symbols
  <1>2. CASE k >= 10 /\ k < 100
    <2> DEFINE a == k \div 10
               b == k % 10
    <2>1. a \in 0..9 /\ b \in 0..9
      BY <1>2
    <2>2. Naming!Digits(k) = <<a, b>>
      BY <1>2 DEF Naming!Digits
    <2> HIDE DEF a, b
    <2> QED
      BY <2>1, <2>2 DEF Texts, Symbols
  <1>3. CASE k = 100
    <2>1. Naming!Digits(k) = <<1, 0, 0>>
      BY <1>3 DEF Naming!Digits
    <2> QED
      BY <2>1 DEF Texts, Symbols
  <1> QED
    BY <1>1, <1>2, <1>3

\* Digits are no dashes.
LEMMA PlainDigits ==
    ASSUME NEW k \in 2..100, NEW d, d = Naming!Digits(k)
    PROVE  d \in Seq(Symbols) /\ Len(d) \in 1..3 /\ \A i \in 1..Len(d) : d[i] # Naming!Dash
  <1>1. d \in Seq(Symbols) /\ Len(d) \in 1..3 /\ \A i \in DOMAIN d : d[i] \in 0..9
    BY DigitsAre DEF Texts
  <1>2. \A i \in 1..Len(d) : d[i] \in 0..9
    BY <1>1
  <1> QED
    BY <1>1, <1>2 DEF Naming!Dash

\* How many digits, and which.
LEMMA DigitsTell ==
    ASSUME NEW k \in 2..100, NEW d, d = Naming!Digits(k)
    PROVE  /\ k < 10 => Len(d) = 1 /\ d[1] = k
           /\ k >= 10 /\ k < 100 => Len(d) = 2 /\ d[1] = k \div 10 /\ d[2] = k % 10
           /\ k = 100 => Len(d) = 3
  <1>1. CASE k < 10
    <2>1. d = <<k>>
      BY <1>1 DEF Naming!Digits
    <2> QED
      BY <1>1, <2>1
  <1>2. CASE k >= 10 /\ k < 100
    <2>1. d = <<k \div 10, k % 10>>
      BY <1>2 DEF Naming!Digits
    <2>2. Len(d) = 2 /\ d[1] = k \div 10 /\ d[2] = k % 10
      BY <2>1
    <2> QED
      BY <1>2, <2>2
  <1>3. CASE k = 100
    <2>1. d = <<1, 0, 0>>
      BY <1>3 DEF Naming!Digits
    <2> QED
      BY <1>3, <2>1
  <1> QED
    BY <1>1, <1>2, <1>3

\* Digits tell their number.
LEMMA DigitsDiffer ==
    ASSUME NEW k \in 2..100, NEW m \in 2..100, Naming!Digits(k) = Naming!Digits(m)
    PROVE  k = m
  <1> DEFINE d == Naming!Digits(k)
  <1>1. /\ k < 10 => Len(d) = 1 /\ d[1] = k
        /\ k >= 10 /\ k < 100 => Len(d) = 2 /\ d[1] = k \div 10 /\ d[2] = k % 10
        /\ k = 100 => Len(d) = 3
    BY DigitsTell
  <1>2. /\ m < 10 => Len(d) = 1 /\ d[1] = m
        /\ m >= 10 /\ m < 100 => Len(d) = 2 /\ d[1] = m \div 10 /\ d[2] = m % 10
        /\ m = 100 => Len(d) = 3
    BY DigitsTell
  <1> HIDE DEF d
  <1>3. CASE k < 10
    BY <1>1, <1>2, <1>3
  <1>4. CASE k >= 10 /\ k < 100
    <2>1. m >= 10 /\ m < 100
      BY <1>1, <1>2, <1>4
    <2>2. k \div 10 = m \div 10 /\ k % 10 = m % 10
      BY <1>1, <1>2, <1>4, <2>1
    <2> QED
      BY <2>2
  <1>5. CASE k = 100
    BY <1>1, <1>2, <1>5
  <1> QED
    BY <1>3, <1>4, <1>5

\* A text that ends in a dash and d.
DashedEnd(c, d) ==
    /\ c[Len(c) - Len(d)] = Naming!Dash
    /\ \A i \in 1..Len(d) : c[(Len(c) - Len(d)) + i] = d[i]

\* Joining a text, a dash and digits.
LEMMA DashedEndOf ==
    ASSUME NEW a \in Texts, NEW d \in Texts, NEW c, c = a \o <<Naming!Dash>> \o d
    PROVE  /\ Len(c) = Len(a) + 1 + Len(d)
           /\ DashedEnd(c, d)
  <1> DEFINE e == <<Naming!Dash>>
             f == a \o e
  <1>1. a \in Seq(Symbols) /\ d \in Seq(Symbols) /\ Len(a) \in Nat /\ Len(d) \in Nat
    BY DEF Texts
  <1>2. e \in Seq(Symbols) /\ Len(e) = 1 /\ e[1] = Naming!Dash
    BY DEF Naming!Dash, Symbols
  <1> HIDE DEF e
  <1>3. /\ f \in Seq(Symbols) /\ Len(f) = Len(a) + 1
        /\ \A i \in 1..Len(a) + Len(e) : f[i] = IF i <= Len(a) THEN a[i] ELSE e[i - Len(a)]
    <2>1. /\ f \in Seq(Symbols) /\ Len(f) = Len(a) + Len(e)
          /\ \A i \in 1..Len(a) + Len(e) : f[i] = IF i <= Len(a) THEN a[i] ELSE e[i - Len(a)]
      BY <1>1, <1>2, ConcatProperties
    <2> QED
      BY <2>1, <1>2
  <1>4. f[Len(a) + 1] = Naming!Dash
    <2>1. Len(a) + 1 \in 1..Len(a) + Len(e) /\ ~(Len(a) + 1 <= Len(a)) /\ (Len(a) + 1) - Len(a) = 1
      BY <1>1, <1>2
    <2> QED
      BY <2>1, <1>2, <1>3
  <1>5. c = f \o d
    BY DEF e
  <1> HIDE DEF f
  <1>6. /\ Len(c) = Len(f) + Len(d)
        /\ \A i \in 1..Len(f) + Len(d) : c[i] = IF i <= Len(f) THEN f[i] ELSE d[i - Len(f)]
    BY <1>1, <1>3, <1>5, ConcatProperties
  <1>7. Len(c) - Len(d) = Len(a) + 1 /\ Len(c) = Len(a) + 1 + Len(d)
    BY <1>1, <1>3, <1>6
  <1>8. c[Len(a) + 1] = Naming!Dash
    BY <1>1, <1>3, <1>4, <1>6
  <1>9. ASSUME NEW i \in 1..Len(d)
        PROVE  c[(Len(a) + 1) + i] = d[i]
    <2>1. /\ (Len(a) + 1) + i \in 1..Len(f) + Len(d) /\ ~((Len(a) + 1) + i <= Len(f))
          /\ ((Len(a) + 1) + i) - Len(f) = i
      BY <1>1, <1>3
    <2> QED
      BY <2>1, <1>6
  <1> QED
    BY <1>7, <1>8, <1>9 DEF DashedEnd

\* A numbered candidate: a piece of the base, a dash and the digits; it is longer
\* than the base.
LEMMA NumberedIs ==
    ASSUME Naming!SlugFits, NEW s \in Texts, NEW k \in 2..100, NEW c, c = Naming!Candidate(s, k)
    PROVE  /\ Len(c) \in Nat /\ Len(c) > Len(Naming!OrganizationSlugBase(s))
           /\ DashedEnd(c, Naming!Digits(k))
  <1> DEFINE b == Naming!OrganizationSlugBase(s)
             d == Naming!Digits(k)
             a == Naming!Slice(b, MaxBase - Len(d))
  <1>1. b \in Texts /\ Len(b) <= MaxBase /\ MaxBase \in Nat /\ MaxBase >= 4
    BY BaseIs DEF Naming!SlugFits
  <1>2. d \in Texts /\ Len(d) \in 1..3
    BY DigitsAre
  <1>3. c = a \o <<Naming!Dash>> \o d
    BY DEF Naming!Candidate
  <1> HIDE DEF b, d
  <1>4. MaxBase - Len(d) \in Nat
    <2> DEFINE n == Len(d)
    <2>1. n \in 1..3
      BY <1>2
    <2> HIDE DEF n
    <2>2. MaxBase - n \in Nat
      BY <2>1, <1>1
    <2> QED
      BY <2>2 DEF n
  <1>5. a \in Texts /\ (Len(b) <= MaxBase - Len(d) => a = b) /\ (Len(b) > MaxBase - Len(d) => Len(a) = MaxBase - Len(d))
    BY <1>1, <1>4, SliceIs
  <1> HIDE DEF a
  <1>6. Len(a) \in Nat /\ Len(b) \in Nat
    BY <1>1, <1>5 DEF Texts
  <1>7. Len(c) = Len(a) + 1 + Len(d) /\ DashedEnd(c, d)
    BY <1>2, <1>3, <1>5, DashedEndOf
  <1>8. Len(a) + Len(d) >= Len(b)
    BY <1>1, <1>2, <1>5, <1>6
  <1>9. Len(c) \in Nat /\ Len(c) > Len(b)
    BY <1>2, <1>6, <1>7, <1>8
  <1> QED
    BY <1>7, <1>9 DEF b, d

\* Two candidates differ: in length from the base, or behind the last dash.
LEMMA CandidatesApart ==
    ASSUME Naming!SlugFits, NEW s \in Texts, NEW k \in 1..100, NEW m \in 1..100,
           Naming!Candidate(s, k) = Naming!Candidate(s, m), k <= m
    PROVE  k = m
  <1> SUFFICES ASSUME k # m
               PROVE  FALSE
    OBVIOUS
  <1>1. m \in 2..100
    OBVIOUS
  <1>2. CASE k = 1
    <2>1. Naming!Candidate(s, k) = Naming!OrganizationSlugBase(s)
      BY <1>2 DEF Naming!Candidate
    <2>2. Len(Naming!OrganizationSlugBase(s)) \in Nat
      BY BaseIs DEF Texts
    <2>3. Len(Naming!Candidate(s, m)) \in Nat
          /\ Len(Naming!Candidate(s, m)) > Len(Naming!OrganizationSlugBase(s))
      BY <1>1, NumberedIs
    <2>4. Naming!Candidate(s, m) = Naming!OrganizationSlugBase(s)
      BY <2>1
    <2> QED
      BY <2>2, <2>3, <2>4
  <1>3. CASE k # 1
    <2> DEFINE c == Naming!Candidate(s, k)
               d == Naming!Digits(k)
               e == Naming!Digits(m)
    <2>1. k \in 2..100
      BY <1>3
    <2>2. Len(c) \in Nat /\ DashedEnd(c, d)
      BY <2>1, NumberedIs
    <2>3. DashedEnd(c, e)
      BY <1>1, NumberedIs
    <2>4. /\ d \in Seq(Symbols) /\ Len(d) \in 1..3 /\ \A i \in 1..Len(d) : d[i] # Naming!Dash
      BY <2>1, PlainDigits
    <2>5. /\ e \in Seq(Symbols) /\ Len(e) \in 1..3 /\ \A i \in 1..Len(e) : e[i] # Naming!Dash
      BY <1>1, PlainDigits
    <2> HIDE DEF c, d, e
    <2>6. ~(Len(e) < Len(d))
      <3> SUFFICES ASSUME Len(e) < Len(d)
                   PROVE  FALSE
        OBVIOUS
      <3> DEFINE i == Len(d) - Len(e)
      <3>1. i \in 1..Len(d) /\ (Len(c) - Len(d)) + i = Len(c) - Len(e)
        BY <2>2, <2>4, <2>5
      <3> QED
        BY <3>1, <2>2, <2>3, <2>4 DEF DashedEnd
    <2>7. ~(Len(d) < Len(e))
      <3> SUFFICES ASSUME Len(d) < Len(e)
                   PROVE  FALSE
        OBVIOUS
      <3> DEFINE i == Len(e) - Len(d)
      <3>1. i \in 1..Len(e) /\ (Len(c) - Len(e)) + i = Len(c) - Len(d)
        BY <2>2, <2>4, <2>5
      <3> QED
        BY <3>1, <2>2, <2>3, <2>5 DEF DashedEnd
    <2>8. Len(d) = Len(e)
      BY <2>4, <2>5, <2>6, <2>7
    <2>9. \A i \in 1..Len(d) : d[i] = e[i]
      BY <2>2, <2>3, <2>8 DEF DashedEnd
    <2>10. d = e
      BY <2>4, <2>5, <2>8, <2>9, SeqEqual
    <2> QED
      BY <1>1, <2>1, <2>10, DigitsDiffer DEF d, e
  <1> QED
    BY <1>2, <1>3

\* Names are texts.
LEMMA NamesAreTexts ==
    ASSUME Naming!SlugFits, name \in Naming!Names
    PROVE  name \in Texts
  <1>1. PICK n \in 0..MaxName : name \in [1..n -> Naming!Chars]
    BY DEF Naming!Names
  <1>2. n \in Nat
    BY DEF Naming!SlugFits
  <1>3. name \in [1..n -> Symbols]
    BY <1>1 DEF Naming!Chars, Naming!Letter, Naming!Dash, Symbols
  <1> QED
    BY <1>2, <1>3 DEF Texts

\* Slug!SlugsFit: whatever the name and however long, the slug that is tried first
\* has the form the database demands, so has the suggestion, and no two of the
\* numbered candidates are the same.
THEOREM FirstSlugsFit ==
    ASSUME Naming!SlugFits
    PROVE  Naming!Spec => []Naming!SlugsFit
  <1>1. Naming!Init => name \in Naming!Names
    BY DEF Naming!Init
  <1>2. name \in Naming!Names /\ [Naming!Next]_name => (name \in Naming!Names)'
    <2>1. ASSUME Naming!Next
          PROVE  name' \in Naming!Names
      <3>1. MaxName \in 0..MaxName
        BY DEF Naming!SlugFits
      <3> QED
        BY <2>1, <3>1 DEF Naming!Next, Naming!Rename, Naming!Names
    <2> QED
      BY <2>1
  <1>3. name \in Naming!Names => Naming!SlugsFit
    <2> SUFFICES ASSUME name \in Naming!Names
                 PROVE  Naming!FirstSlugAccepted /\ Naming!CandidatesDiffer
      BY DEF Naming!SlugsFit
    <2>1. name \in Texts
      BY NamesAreTexts
    <2>2. MaxSuggestion \in Nat /\ Tries \in 1..100
      BY DEF Naming!SlugFits
    <2>3. Naming!FirstSlugAccepted
      BY <2>1, <2>2, BaseIs, NormalizedIs DEF Naming!FirstSlugAccepted, Naming!SlugSuggestion
    <2>4. Naming!CandidatesDiffer
      <3> SUFFICES ASSUME NEW k \in 1..Tries, NEW m \in 1..Tries, k # m
                   PROVE  Naming!Candidate(name, k) # Naming!Candidate(name, m)
        BY DEF Naming!CandidatesDiffer
      <3>1. k \in 1..100 /\ m \in 1..100 /\ (k <= m \/ m <= k)
        BY <2>2
      <3> QED
        BY <2>1, <3>1, CandidatesApart
    <2> QED
      BY <2>3, <2>4
  <1> QED
    BY <1>1, <1>2, <1>3, PTL DEF Naming!Spec
=============================================================================
