----------------------------- MODULE SessionProofs -----------------------------
(***************************************************************************)
(* What holds for every size of a session, in two independent parts:       *)
(*                                                                         *)
(* - a dashboard (Dashboard.tla, DashboardTree.tla): that its list shows   *)
(*   what there was, in order and headed once, that its screen shows the   *)
(*   selection and a click hits what is drawn, and that requests act as    *)
(*   what the user saw, for any number of forwards, panes, places, heights *)
(*   and faults.  The lists are sorted and flattened, which needs no       *)
(*   induction here: the elements of a finite set are counted, and a least *)
(*   counterexample over positions is refuted;                             *)
(* - the wrapper's threads (Transport.tla): what they promise together for *)
(*   any number of requests, endpoints and masters.                        *)
(***************************************************************************)
EXTENDS Dashboard, Transport, FiniteSetTheorems, SequenceTheorems, TLAPS

-----------------------------------------------------------------------------
(* Sorting by counting what comes before.                                  *)

\* R orders the elements of S strictly and totally.
StrictOrder(S, R) ==
    /\ \A x \in S : <<x, x>> \notin R
    /\ \A x, y, z \in S : <<x, y>> \in R /\ <<y, z>> \in R => <<x, z>> \in R
    /\ \A x, y \in S : x # y => <<x, y>> \in R \/ <<y, x>> \in R

\* How many elements are before one is less than how many there are, and grows along
\* the order.
LEMMA CountsBefore ==
  ASSUME NEW S, NEW R, IsFiniteSet(S), StrictOrder(S, R)
  PROVE  /\ \A x \in S : Cardinality(Before(x, S, R)) \in 0..Cardinality(S) - 1
         /\ \A x, y \in S : <<x, y>> \in R =>
                Cardinality(Before(x, S, R)) < Cardinality(Before(y, S, R))
<1>0. Cardinality(S) \in Nat
  BY FS_CardinalityType
<1>1. ASSUME NEW x \in S PROVE Cardinality(Before(x, S, R)) \in 0..Cardinality(S) - 1
  <2>1. Before(x, S, R) \in SUBSET (S \ {x})
    BY DEF Before, StrictOrder
  <2>2. IsFiniteSet(S \ {x}) /\ Cardinality(S \ {x}) = Cardinality(S) - 1
    BY FS_RemoveElement
  <2>3. /\ IsFiniteSet(Before(x, S, R))
        /\ Cardinality(Before(x, S, R)) <= Cardinality(S \ {x})
    BY <2>1, <2>2, FS_Subset
  <2>4. Cardinality(Before(x, S, R)) \in Nat
    BY <2>3, FS_CardinalityType
  <2> QED BY <1>0, <2>2, <2>3, <2>4
<1>2. ASSUME NEW x \in S, NEW y \in S, <<x, y>> \in R
      PROVE  Cardinality(Before(x, S, R)) < Cardinality(Before(y, S, R))
  <2>1. Before(y, S, R) \in SUBSET S
    BY DEF Before
  <2>2. IsFiniteSet(Before(y, S, R))
    BY <2>1, FS_Subset
  <2>3. x \in Before(y, S, R)
    BY <1>2 DEF Before
  <2>4. Before(x, S, R) \in SUBSET (Before(y, S, R) \ {x})
    BY <1>2 DEF Before, StrictOrder
  <2>5. /\ IsFiniteSet(Before(y, S, R) \ {x})
        /\ Cardinality(Before(y, S, R) \ {x}) = Cardinality(Before(y, S, R)) - 1
    BY <2>2, <2>3, FS_RemoveElement
  <2>6. /\ IsFiniteSet(Before(x, S, R))
        /\ Cardinality(Before(x, S, R)) <= Cardinality(Before(y, S, R) \ {x})
    BY <2>4, <2>5, FS_Subset
  <2>7. Cardinality(Before(x, S, R)) \in Nat /\ Cardinality(Before(y, S, R)) \in Nat
    BY <2>2, <2>6, FS_CardinalityType
  <2> QED BY <2>5, <2>6, <2>7
<1> QED BY <1>1, <1>2

\* Every position is taken.
LEMMA EveryPositionIsTaken ==
  ASSUME NEW S, NEW R, IsFiniteSet(S), StrictOrder(S, R)
  PROVE  \A k \in 1..Cardinality(S) : \E x \in S : Cardinality(Before(x, S, R)) = k - 1
<1> DEFINE n == Cardinality(S)
           position == [x \in S |-> Cardinality(Before(x, S, R)) + 1]
<1>0. n \in Nat
  BY FS_CardinalityType
<1>1. \A x \in S : Cardinality(Before(x, S, R)) \in 0..n - 1
  BY CountsBefore
<1>2. \A x, y \in S : <<x, y>> \in R => Cardinality(Before(x, S, R)) < Cardinality(Before(y, S, R))
  BY CountsBefore
<1>3. position \in [S -> 1..n]
  BY <1>0, <1>1
<1>4. \A x, y \in S : x # y => position[x] # position[y]
  <2> SUFFICES ASSUME NEW x \in S, NEW y \in S, x # y PROVE position[x] # position[y]
    OBVIOUS
  <2>1. <<x, y>> \in R \/ <<y, x>> \in R
    BY DEF StrictOrder
  <2>2. Cardinality(Before(x, S, R)) \in Int /\ Cardinality(Before(y, S, R)) \in Int
    BY <1>0, <1>1
  <2>3. Cardinality(Before(x, S, R)) # Cardinality(Before(y, S, R))
    BY <1>2, <2>1, <2>2
  <2> QED BY <2>2, <2>3
<1>5. position \in Injection(S, 1..n)
  BY <1>3, <1>4 DEF Injection, IsInjective
<1>6. IsFiniteSet(1..n) /\ Cardinality(1..n) = n
  BY <1>0, FS_Interval
<1>7. position \in Surjection(S, 1..n)
  BY <1>5, <1>6, FS_Injection
<1>8. \A k \in 1..n : \E x \in S : position[x] = k
  BY <1>7 DEF Surjection
<1> QED
  <2> SUFFICES ASSUME NEW k \in 1..n PROVE \E x \in S : Cardinality(Before(x, S, R)) = k - 1
    OBVIOUS
  <2>1. PICK x \in S : position[x] = k
    BY <1>8
  <2>2. Cardinality(Before(x, S, R)) + 1 = k /\ Cardinality(Before(x, S, R)) \in Int
    BY <1>0, <1>1, <2>1
  <2> QED BY <2>2

\* Sorted: a sequence of the elements, each once, in the given order.
LEMMA SortedIsSorted ==
  ASSUME NEW S, NEW R, IsFiniteSet(S), StrictOrder(S, R)
  PROVE  /\ Cardinality(S) \in Nat
         /\ Sorted(S, R) \in [1..Cardinality(S) -> S]
         /\ \A x \in S : \E k \in 1..Cardinality(S) : Sorted(S, R)[k] = x
         /\ \A j, k \in 1..Cardinality(S) : j < k => <<Sorted(S, R)[j], Sorted(S, R)[k]>> \in R
<1> DEFINE n == Cardinality(S)
           s == Sorted(S, R)
           before(x) == Cardinality(Before(x, S, R))
<1>0. n \in Nat
  BY FS_CardinalityType
<1>1. \A k \in 1..n : s[k] \in S /\ before(s[k]) = k - 1
  BY EveryPositionIsTaken DEF Sorted
<1>2. s \in [1..n -> S]
  BY <1>1 DEF Sorted
<1>3. \A x \in S : before(x) \in 0..n - 1
  BY CountsBefore
<1>4. \A x, y \in S : <<x, y>> \in R => before(x) < before(y)
  BY CountsBefore
<1> HIDE DEF s, before
<1>5. \A x, y \in S : x # y => before(x) # before(y)
  <2> SUFFICES ASSUME NEW x \in S, NEW y \in S, x # y PROVE before(x) # before(y)
    OBVIOUS
  <2>1. <<x, y>> \in R \/ <<y, x>> \in R
    BY DEF StrictOrder
  <2>2. before(x) \in Int /\ before(y) \in Int
    BY <1>0, <1>3
  <2> QED BY <1>4, <2>1, <2>2
<1>6. ASSUME NEW x \in S PROVE \E k \in 1..n : s[k] = x
  <2>1. before(x) + 1 \in 1..n
    BY <1>0, <1>3
  <2>2. s[before(x) + 1] \in S /\ before(s[before(x) + 1]) = before(x)
    BY <1>1, <1>3, <2>1, <1>0
  <2>3. s[before(x) + 1] = x
    BY <1>5, <2>2
  <2> QED BY <2>1, <2>3
<1>7. ASSUME NEW j \in 1..n, NEW k \in 1..n, j < k PROVE <<s[j], s[k]>> \in R
  <2>1. s[j] \in S /\ s[k] \in S /\ before(s[j]) = j - 1 /\ before(s[k]) = k - 1
    BY <1>1
  <2>2. s[j] # s[k]
    BY <1>0, <1>7, <2>1
  <2>3. CASE <<s[k], s[j]>> \in R
    <3>1. before(s[k]) < before(s[j])
      BY <1>4, <2>1, <2>3
    <3> QED BY <1>0, <1>7, <2>1, <3>1
  <2> QED BY <2>1, <2>2, <2>3 DEF StrictOrder
<1> QED BY <1>0, <1>2, <1>6, <1>7 DEF s

\* How many numbers an interval holds.
LEMMA IntervalSize ==
  ASSUME NEW n \in Nat
  PROVE  IsFiniteSet(1..n) /\ Cardinality(1..n) = n
BY FS_Interval

\* A set of positions that is not empty has a first one.
LEMMA LeastElement ==
  ASSUME NEW n \in Nat, NEW T \in SUBSET (1..n), T # {}
  PROVE  \E m \in T : \A x \in T : m <= x
<1> DEFINE R == {p \in T \X T : p[1] < p[2]}
<1>0. T \subseteq Int
  OBVIOUS
<1>1. IsFiniteSet(T)
  <2>1. IsFiniteSet(1..n)
    BY IntervalSize
  <2> QED BY <2>1, FS_Subset
<1>2. \A x, y \in T : <<x, y>> \in R <=> x < y
  OBVIOUS
<1>3. StrictOrder(T, R)
  <2> HIDE DEF R
  <2> QED BY <1>2 DEF StrictOrder
<1> HIDE DEF R
<1>4. /\ Cardinality(T) \in Nat
      /\ Sorted(T, R) \in [1..Cardinality(T) -> T]
      /\ \A x \in T : \E k \in 1..Cardinality(T) : Sorted(T, R)[k] = x
      /\ \A j, k \in 1..Cardinality(T) : j < k => <<Sorted(T, R)[j], Sorted(T, R)[k]>> \in R
  BY <1>1, <1>3, SortedIsSorted
<1>5. Cardinality(T) # 0
  BY <1>1, FS_EmptySet
<1>6. 1 \in 1..Cardinality(T) /\ Sorted(T, R)[1] \in T
  BY <1>4, <1>5
<1>7. ASSUME NEW x \in T PROVE Sorted(T, R)[1] <= x
  <2>1. PICK k \in 1..Cardinality(T) : Sorted(T, R)[k] = x
    BY <1>4
  <2>2. CASE k = 1
    BY <1>6, <2>1, <2>2
  <2>3. CASE k # 1
    <3>1. 1 < k
      BY <1>4, <2>3
    <3>2. <<Sorted(T, R)[1], x>> \in R
      BY <1>4, <1>6, <2>1, <3>1
    <3>3. Sorted(T, R)[1] < x
      BY <1>2, <1>6, <3>2
    <3>4. Sorted(T, R)[1] \in Int /\ x \in Int
      BY <1>0, <1>6
    <3> QED BY <3>3, <3>4
  <2> QED BY <2>2, <2>3
<1> QED BY <1>6, <1>7

\* The keys of the sort.
Keys == [1..5 -> Int]

\* They are ordered strictly and totally.
LEMMA BelowIsAnOrder ==
  /\ \A a \in Keys : ~Below(a, a)
  /\ \A a, b, c \in Keys : Below(a, b) /\ Below(b, c) => Below(a, c)
  /\ \A a, b \in Keys : a # b => Below(a, b) \/ Below(b, a)
<1>1. ASSUME NEW a \in Keys PROVE ~Below(a, a)
  BY DEF Keys, Below
<1>2. ASSUME NEW a \in Keys, NEW b \in Keys, NEW c \in Keys, Below(a, b), Below(b, c)
      PROVE  Below(a, c)
  <2>1. PICK i \in 1..5 : a[i] < b[i] /\ \A j \in 1..i - 1 : a[j] = b[j]
    BY <1>2 DEF Keys, Below
  <2>2. PICK k \in 1..5 : b[k] < c[k] /\ \A j \in 1..k - 1 : b[j] = c[j]
    BY <1>2 DEF Keys, Below
  <2>3. DOMAIN a = 1..5 /\ \A j \in 1..5 : a[j] \in Int /\ b[j] \in Int /\ c[j] \in Int
    BY DEF Keys
  <2>4. CASE i <= k
    <3>1. a[i] < c[i] /\ \A j \in 1..i - 1 : a[j] = c[j]
      <4>1. b[i] <= c[i]
        BY <2>2, <2>3, <2>4
      <4>2. \A j \in 1..i - 1 : j \in 1..k - 1
        BY <2>4
      <4> QED BY <2>1, <2>2, <2>3, <4>1, <4>2
    <3> QED BY <2>3, <3>1 DEF Below
  <2>5. CASE k < i
    <3>1. a[k] < c[k] /\ \A j \in 1..k - 1 : a[j] = c[j]
      <4>1. a[k] = b[k]
        BY <2>1, <2>5
      <4>2. \A j \in 1..k - 1 : j \in 1..i - 1
        BY <2>5
      <4> QED BY <2>1, <2>2, <2>3, <4>1, <4>2
    <3> QED BY <2>3, <3>1 DEF Below
  <2> QED BY <2>4, <2>5
<1>3. ASSUME NEW a \in Keys, NEW b \in Keys, a # b PROVE Below(a, b) \/ Below(b, a)
  <2> DEFINE T == {k \in 1..5 : a[k] # b[k]}
  <2>1. T # {}
    BY <1>3 DEF Keys
  <2>2. PICK m \in T : \A x \in T : m <= x
    BY <2>1, LeastElement
  <2>3. DOMAIN a = 1..5 /\ DOMAIN b = 1..5 /\ a[m] \in Int /\ b[m] \in Int /\ a[m] # b[m]
    BY DEF Keys
  <2>4. \A j \in 1..m - 1 : a[j] = b[j]
    BY <2>2
  <2> QED BY <2>3, <2>4 DEF Below
<1> QED BY <1>1, <1>2, <1>3

\* What a snapshot may say: places are numbers.
Known(places) == \A p \in DOMAIN places : places[p] \in [space : Nat, tab : Nat]

\* The fields that the display is sorted by are numbers.
LEMMA RecordsAreNumbers ==
  ASSUME NEW f \in Records
  PROVE  f.id \in Nat /\ f.pane \in Nat /\ f.automatic \in BOOLEAN
<1>1. MaxId \in Nat /\ Panes \subseteq Nat
  BY DashboardAssumption
<1>2. f.id \in 1..MaxId /\ f.pane \in Panes \cup {0} /\ f.automatic \in BOOLEAN
  BY DEF Records, NoPane
<1>3. 1..MaxId \subseteq Nat /\ Panes \cup {0} \subseteq Nat
  BY <1>1
<1> QED BY <1>2, <1>3

\* So are the places of a forward, known or not.
LEMMA PlacesAreNumbers ==
  ASSUME NEW f \in Records, NEW places, Known(places)
  PROVE  SpaceOf(f, places) \in Nat /\ TabOf(f, places) \in Nat
<1>1. f.pane \in Nat
  BY RecordsAreNumbers
<1> QED BY <1>1 DEF SpaceOf, TabOf, Known, Far

\* A forward is sorted by a key.
LEMMA RankIsAKey ==
  ASSUME NEW list, NEW i \in Int, list[i] \in Records, NEW places, Known(places)
  PROVE  Rank(list, places, i) \in Keys
<1>1. SpaceOf(list[i], places) \in Int /\ TabOf(list[i], places) \in Int
  BY PlacesAreNumbers
<1>2. list[i].id \in Int /\ list[i].pane \in Int
  BY RecordsAreNumbers
<1>3. CASE list[i].automatic
  <2>1. Rank(list, places, i)
          = <<0, SpaceOf(list[i], places), TabOf(list[i], places), list[i].pane, i>>
    BY <1>3 DEF Rank
  <2> QED BY <1>1, <1>2, <2>1 DEF Keys
<1>4. CASE ~list[i].automatic
  <2>1. Rank(list, places, i) = <<1, list[i].id, 0, 0, i>>
    BY <1>4 DEF Rank
  <2> QED BY <1>2, <2>1 DEF Keys
<1> QED BY <1>3, <1>4

\* The last part of the key is the position, so that no two keys are equal.
LEMMA RankEndsWithIndex ==
  ASSUME NEW list, NEW i, NEW places
  PROVE  Rank(list, places, i)[5] = i
BY DEF Rank

\* The order of the display orders the positions of a list.
LEMMA DisplayOrderIsAnOrder ==
  ASSUME NEW list \in Seq(Records), NEW places, Known(places)
  PROVE  StrictOrder(1..Len(list), DisplayOrder(list, places))
<1> DEFINE R == DisplayOrder(list, places)
           r(i) == Rank(list, places, i)
<1>1. DOMAIN list = 1..Len(list) /\ Len(list) \in Nat
  OBVIOUS
<1>2. \A i \in 1..Len(list) : r(i) \in Keys /\ r(i)[5] = i
  BY RankIsAKey, RankEndsWithIndex
<1>3. \A i, j \in 1..Len(list) : <<i, j>> \in R <=> Below(r(i), r(j))
  BY <1>1 DEF DisplayOrder
<1> HIDE DEF R, r
<1>4. \A i, j \in 1..Len(list) : i # j => r(i) # r(j)
  BY <1>2
<1>5. \A x \in 1..Len(list) : <<x, x>> \notin R
  BY <1>2, <1>3, BelowIsAnOrder
<1>6. \A x, y, z \in 1..Len(list) : <<x, y>> \in R /\ <<y, z>> \in R => <<x, z>> \in R
  BY <1>2, <1>3, BelowIsAnOrder
<1>7. \A x, y \in 1..Len(list) : x # y => <<x, y>> \in R \/ <<y, x>> \in R
  BY <1>2, <1>3, <1>4, BelowIsAnOrder
<1> QED BY <1>5, <1>6, <1>7 DEF StrictOrder, R

-----------------------------------------------------------------------------
(* The order of the display.                                               *)

\* A function on 1..n is a sequence.
LEMMA FunctionIsASequence ==
  ASSUME NEW n \in Nat, NEW S, NEW s \in [1..n -> S]
  PROVE  s \in Seq(S) /\ Len(s) = n
<1>1. s \in Seq(S)
  BY SeqDef
<1>2. DOMAIN s = 1..n /\ DOMAIN s = 1..Len(s) /\ Len(s) \in Nat
  BY <1>1, LenProperties
<1> QED BY <1>1, <1>2

\* One forward may stand before another in the list.
InOrder(f, g, places) ==
    \/ f.automatic /\ ~g.automatic
    \/ ~f.automatic /\ ~g.automatic
    \/ /\ f.automatic /\ g.automatic
       /\ \/ SpaceOf(f, places) < SpaceOf(g, places)
          \/ /\ SpaceOf(f, places) = SpaceOf(g, places)
             /\ \/ TabOf(f, places) < TabOf(g, places)
                \/ TabOf(f, places) = TabOf(g, places) /\ f.pane <= g.pane

\* Every forward of the list stands where it may.
InDisplayOrder(list, places) ==
    \A j, k \in 1..Len(list) : j < k => InOrder(list[j], list[k], places)

\* A forward with the lower key may stand first.
LEMMA BelowMeansInOrder ==
  ASSUME NEW list, NEW places, Known(places), NEW i \in Int, NEW j \in Int,
         list[i] \in Records, list[j] \in Records,
         Below(Rank(list, places, i), Rank(list, places, j))
  PROVE  InOrder(list[i], list[j], places)
<1> DEFINE f == list[i]
           g == list[j]
           a == Rank(list, places, i)
           b == Rank(list, places, j)
<1>1. /\ SpaceOf(f, places) \in Int /\ SpaceOf(g, places) \in Int
      /\ TabOf(f, places) \in Int /\ TabOf(g, places) \in Int
  BY PlacesAreNumbers
<1>2. /\ f.pane \in Int /\ g.pane \in Int
      /\ f.automatic \in BOOLEAN /\ g.automatic \in BOOLEAN
  BY RecordsAreNumbers
<1>3. DOMAIN a = 1..5
  BY RankIsAKey DEF Keys
<1>4. PICK k \in 1..5 : a[k] < b[k] /\ \A n \in 1..k - 1 : a[n] = b[n]
  BY <1>3 DEF Below
<1>5. CASE f.automatic /\ g.automatic
  <2>1. /\ a[1] = 0 /\ b[1] = 0 
        /\ a[2] = SpaceOf(f, places) /\ b[2] = SpaceOf(g, places)
        /\ a[3] = TabOf(f, places) /\ b[3] = TabOf(g, places)
        /\ a[4] = f.pane /\ b[4] = g.pane
    BY <1>5 DEF Rank
  <2>2. \/ a[1] < b[1]
        \/ a[1] = b[1] /\ a[2] < b[2]
        \/ a[1] = b[1] /\ a[2] = b[2] /\ a[3] < b[3]
        \/ a[1] = b[1] /\ a[2] = b[2] /\ a[3] = b[3] /\ a[4] < b[4]
        \/ a[1] = b[1] /\ a[2] = b[2] /\ a[3] = b[3] /\ a[4] = b[4]
    BY <1>4
  <2> HIDE DEF a, b
  <2> QED BY <1>1, <1>2, <1>5, <2>1, <2>2 DEF InOrder
<1>6. CASE ~f.automatic /\ g.automatic
  <2>1. a[1] = 1 /\ b[1] = 0
    BY <1>6 DEF Rank
  <2>2. a[1] < b[1] \/ a[1] = b[1]
    BY <1>4
  <2> QED BY <2>1, <2>2
<1>7. CASE ~g.automatic
  BY <1>2, <1>7 DEF InOrder
<1> QED BY <1>2, <1>5, <1>6, <1>7

\* ForDisplay: as many forwards, in the order of the display.
LEMMA ForDisplayProperties ==
  ASSUME NEW list \in Seq(Records), NEW places, Known(places)
  PROVE  /\ ForDisplay(list, places) \in Seq(Records)
         /\ Len(ForDisplay(list, places)) = Len(list)
         /\ InDisplayOrder(ForDisplay(list, places), places)
<1> DEFINE n == Len(list)
           R == DisplayOrder(list, places)
           order == Sorted(1..n, R)
           d == ForDisplay(list, places)
<1>1. n \in Nat /\ DOMAIN list = 1..n /\ \A i \in 1..n : list[i] \in Records
  BY LenProperties
<1>2. StrictOrder(1..n, R)
  BY DisplayOrderIsAnOrder
<1>3. IsFiniteSet(1..n) /\ Cardinality(1..n) = n
  BY <1>1, IntervalSize
<1> HIDE DEF R
<1>4. /\ order \in [1..n -> 1..n]
      /\ \A j, k \in 1..n : j < k => <<order[j], order[k]>> \in R
  BY <1>2, <1>3, SortedIsSorted
<1>5. d = [k \in 1..n |-> list[order[k]]]
  BY <1>1 DEF ForDisplay, R
<1> HIDE DEF order, d
<1>6. d \in [1..n -> Records]
  BY <1>1, <1>4, <1>5
<1>7. d \in Seq(Records) /\ Len(d) = n
  BY <1>1, <1>6, FunctionIsASequence
<1>8. ASSUME NEW j \in 1..n, NEW k \in 1..n, j < k
      PROVE  InOrder(d[j], d[k], places)
  <2>1. order[j] \in 1..n /\ order[k] \in 1..n /\ <<order[j], order[k]>> \in R
    BY <1>4, <1>8
  <2>2. Below(Rank(list, places, order[j]), Rank(list, places, order[k]))
    BY <2>1 DEF R, DisplayOrder
  <2>3. list[order[j]] \in Records /\ list[order[k]] \in Records
    BY <1>1, <2>1
  <2>4. InOrder(list[order[j]], list[order[k]], places)
    BY <2>1, <2>2, <2>3, BelowMeansInOrder
  <2> QED BY <1>5, <2>4
<1> QED BY <1>7, <1>8 DEF InDisplayOrder, d

\* Listing: every forward of the companion, in the order of their ids.
LEMMA ListingProperties ==
  ASSUME DOMAIN registered \subseteq 1..MaxId,
         \A i \in DOMAIN registered : registered[i] \in Records
  PROVE  Listing \in Seq(Records) /\ Len(Listing) \in 0..MaxId
<1> DEFINE ids == DOMAIN registered
           R == {p \in ids \X ids : p[1] < p[2]}
           order == Sorted(ids, R)
           n == Cardinality(ids)
<1>0. MaxId \in Nat
  BY DashboardAssumption
<1>1. IsFiniteSet(1..MaxId) /\ Cardinality(1..MaxId) = MaxId
  BY <1>0, IntervalSize
<1>2. IsFiniteSet(ids) /\ n <= MaxId
  BY <1>1, FS_Subset
<1>3. StrictOrder(ids, R)
  <2>1. \A x, y \in ids : <<x, y>> \in R <=> x < y
    OBVIOUS
  <2>2. ids \subseteq Int
    BY <1>0
  <2> HIDE DEF R, ids
  <2> QED BY <2>1, <2>2 DEF StrictOrder
<1> HIDE DEF R
<1>4. n \in Nat /\ order \in [1..n -> ids]
  BY <1>2, <1>3, SortedIsSorted
<1>5. DOMAIN order = 1..n
  BY <1>4
<1>6. Listing = [k \in DOMAIN order |-> registered[order[k]]]
  BY DEF Listing, R
<1> HIDE DEF order, n
<1>7. Listing \in [1..n -> Records]
  BY <1>4, <1>5, <1>6
<1>8. Listing \in Seq(Records) /\ Len(Listing) = n
  BY <1>4, <1>7, FunctionIsASequence
<1> QED BY <1>0, <1>2, <1>4, <1>8

-----------------------------------------------------------------------------
(* The invariant of the dashboard, and the parts of it that say what the lists hold.*)

\* What the companion and its link are like: every loss of the link is a fault, and the
\* session file names an address at most one greater than there were losses.
WorldInv ==
    /\ DOMAIN registered \subseteq 1..MaxId
    /\ \A i \in DOMAIN registered : registered[i] \in Records /\ registered[i].id = i
    /\ next \in Ids /\ placed \in Places /\ faults \in 0..MaxFaults
    /\ channel = 0 \/ channel = session
    /\ \/ session = Gone /\ channel = 0
       \/ session \in 1..faults + 1 /\ channel # 0
       \/ session \in 1..faults /\ channel = 0

\* What the dashboard shows is in the order of the display, for the places it knows.
ListsInv ==
    /\ got \in Seq(Records) /\ Len(got) <= MaxId
    /\ shown \in Seq(Records) /\ Len(shown) <= MaxId
    /\ locations \in Places \cup {<<>>}
    /\ InDisplayOrder(shown, locations)

\* The selection is on the list whenever the screen was just drawn: Draw clamps it, and
\* a refresh that shortens the list leads to Draw.
LoopInv ==
    /\ pc \in {"starting", "listing", "locating", "top", "drawn", "reading", "asking", "closed"}
    /\ selected \in 0..MaxId
    /\ pc = "drawn" => selected <= Monus(Len(shown), 1)

\* The notice that nothing could be read is there whenever the dashboard is about to
\* draw and its last refresh failed, and never without its cause.
MarksInv ==
    /\ message \in {"other", "unavailable"}
    /\ unavailable \in BOOLEAN /\ failed \in BOOLEAN
    /\ message = "unavailable" => unavailable
    /\ pc \in {"top", "drawn"} =>
          (unavailable <=> failed) /\ (unavailable => message = "unavailable")

\* What forms and requests are about.
Aims == [id : Ids, automatic : BOOLEAN, enabled : BOOLEAN]

\* A form that asks whether to remove a forward was opened on that one.
FormInv ==
    /\ form \in [kind : {"none", "create"}, id : {0}]
                  \cup [kind : {"remove", "retarget"}, id : Ids \ {0}]
    /\ aim \in Aims
    /\ form.kind = "remove" => form.id = aim.id /\ ~aim.automatic

\* Requests that create name a pane, those that toggle want the opposite of what was seen.
Asks ==
    {r \in [op : {"toggle", "remove", "retarget", "create"}, id : Nat, want : BOOLEAN, aim : Aims] :
        /\ r.op = "create" => r.id \in Panes \cup {NoPane}
        /\ r.op = "toggle" => r.want = ~r.aim.enabled}

\* Every request on its way is one that the dashboard may send.
AskedInv == asked \in Seq(Asks)

\* The inductive invariant.
DashboardInv == WorldInv /\ ListsInv /\ LoopInv /\ MarksInv /\ FormInv /\ AskedInv

\* The bounds are numbers.
LEMMA Bounds ==
  /\ MaxId \in Nat /\ MaxFaults \in Nat /\ Panes \subseteq Nat
  /\ \A start \in Starts : DOMAIN start \subseteq 1..MaxId
  /\ \A start \in Starts : \A i \in DOMAIN start : start[i] \in Records /\ start[i].id = i
<1>1. MaxId \in Nat /\ MaxFaults \in Nat
  BY DashboardAssumption
<1>2. Panes \subseteq Nat
  BY DashboardAssumption
<1>3. /\ \A start \in Starts : DOMAIN start \subseteq 1..MaxId
      /\ \A start \in Starts : \A i \in DOMAIN start : start[i] \in Records /\ start[i].id = i
  BY DashboardAssumption
<1> QED BY <1>1, <1>2, <1>3

\* Whatever a snapshot said, or none, places are numbers.
LEMMA PlacesAreKnown ==
  ASSUME NEW known \in Places \cup {<<>>}
  PROVE  Known(known)
<1>1. CASE known \in Places
  BY <1>1, DashboardAssumption DEF Known
<1>2. CASE known = <<>>
  BY <1>2 DEF Known
<1> QED BY <1>1, <1>2

\* Nothing is listed yet when a dashboard opens.
LEMMA DashboardInitInv == DashboardInit => DashboardInv
<1> SUFFICES ASSUME DashboardInit PROVE DashboardInv
  OBVIOUS
<1> USE DEF DashboardInit
<1>1. WorldInv
  <2>1. /\ DOMAIN registered \subseteq 1..MaxId
        /\ \A i \in DOMAIN registered : registered[i] \in Records /\ registered[i].id = i
    BY Bounds
  <2>2. next \in Ids
    BY <2>1, Bounds DEF Ids
  <2> QED BY <2>1, <2>2, Bounds DEF WorldInv
<1>2. ListsInv
  <2>1. got \in Seq(Records) /\ shown \in Seq(Records) /\ Len(got) = 0 /\ Len(shown) = 0
    BY EmptySeq
  <2>2. InDisplayOrder(shown, locations)
    BY <2>1 DEF InDisplayOrder
  <2> QED BY <2>1, <2>2, Bounds DEF ListsInv
<1>3. LoopInv
  BY Bounds DEF LoopInv
<1>4. MarksInv
  BY DEF MarksInv
<1>5. FormInv
  <2>1. form \in [kind : {"none", "create"}, id : {0}] /\ form.kind = "none"
    BY DEF NoForm
  <2>2. aim \in Aims
    BY Bounds DEF NoAim, Aims, Ids
  <2> QED BY <2>1, <2>2 DEF FormInv
<1>6. AskedInv
  BY EmptySeq DEF AskedInv
<1> QED BY <1>1, <1>2, <1>3, <1>4, <1>5, <1>6 DEF DashboardInv

USE DEF world, view

\* What changes the world: the companion's handlers and the others.
LEMMA WorldFrame == DashboardNext =>
    \/ UNCHANGED <<registered, next, placed, channel, session>> /\ faults' = faults
    \/ /\ UNCHANGED <<registered, next, placed, channel, session>>
       /\ faults < MaxFaults /\ faults' = faults + 1
    \/ Others
    \/ \E n \in DOMAIN asked : Handle(n)
<1> SUFFICES ASSUME DashboardNext, ~Others, ~\E n \in DOMAIN asked : Handle(n)
    PROVE  /\ UNCHANGED <<registered, next, placed, channel, session>>
           /\ (faults' = faults \/ (faults < MaxFaults /\ faults' = faults + 1))
  OBVIOUS
<1>1. CASE Loop
  BY <1>1 DEF Loop, Start, Leave, Draw, ReadSession, List, ListFails, Refresh, RefreshBlind,
    Refreshed, AnswerIsLate
<1>2. CASE NotYetDue \/ RefreshIsDue
  BY <1>2 DEF NotYetDue, RefreshIsDue, Idle
<1>3. CASE User
  BY <1>3 DEF User, Move, Report, Escape, ClosePopup, OpenForm, AskRemoval, CancelForm, TypeInForm,
    Toggle, ConfirmRemoval, Retarget, Create, Click, Input, Send
<1> QED BY <1>1, <1>2, <1>3 DEF DashboardNext

\* What the companion may answer to a request.
LEMMA OutcomesAreTyped ==
  ASSUME WorldInv, NEW r \in Asks, NEW new \in Outcomes(r)
  PROVE  /\ DOMAIN new \subseteq 1..MaxId
         /\ \A i \in DOMAIN new : new[i] \in Records /\ new[i].id = i
         /\ DOMAIN new \subseteq DOMAIN registered \/ next < MaxId
<1> USE DEF WorldInv
<1>1. CASE new = registered
  BY <1>1
<1>2. CASE r.op = "create" /\ new # registered
  <2>1. next < MaxId /\ new = With(registered, Forward(next + 1, FALSE, TRUE, r.id))
    BY <1>2 DEF Outcomes
  <2>2. next + 1 \in 1..MaxId
    BY <2>1, Bounds DEF Ids
  <2>3. r.id \in Panes \cup {NoPane}
    BY <1>2 DEF Asks
  <2> DEFINE f == Forward(next + 1, FALSE, TRUE, r.id)
  <2>4. f \in Records /\ f.id = next + 1
    BY <2>2, <2>3 DEF Forward, Records
  <2> HIDE DEF f
  <2> QED BY <2>1, <2>2, <2>4 DEF With, f
<1>3. CASE r.op # "create" /\ new # registered
  <2>1. r.id \in DOMAIN registered
    BY <1>3 DEF Outcomes
  <2>2. CASE r.op = "toggle"
    <3> DEFINE f == Toggled(registered[r.id], r)
    <3>1. new = With(registered, f)
      BY <1>3, <2>1, <2>2 DEF Outcomes
    <3>2. f \in Records /\ f.id = r.id
      BY <2>1 DEF Toggled, Records, Asks
    <3> HIDE DEF f
    <3> QED BY <2>1, <3>1, <3>2 DEF With
  <2>3. CASE r.op = "remove"
    <3>1. new = Without(registered, r.id)
      BY <1>3, <2>1, <2>3 DEF Outcomes
    <3> QED BY <3>1 DEF Without
  <2>4. CASE r.op \notin {"create", "toggle", "remove"}
    BY <1>3, <2>4 DEF Outcomes
  <2> QED BY <1>3, <2>2, <2>3, <2>4
<1> QED BY <1>1, <1>2, <1>3

\* Every step keeps what the companion and its link are like.
LEMMA WorldStep == DashboardInv /\ DashboardNext => WorldInv'
<1> SUFFICES ASSUME DashboardInv, DashboardNext PROVE WorldInv'
  OBVIOUS
<1>0. WorldInv /\ AskedInv
  BY DEF DashboardInv
<1>1. CASE UNCHANGED <<registered, next, placed, channel, session>> /\ faults' = faults
  BY <1>0, <1>1 DEF WorldInv
<1>2. CASE /\ UNCHANGED <<registered, next, placed, channel, session>>
           /\ faults < MaxFaults /\ faults' = faults + 1
  <2>1. faults' \in 0..MaxFaults
    BY <1>0, <1>2, Bounds DEF WorldInv
  <2>2. session \in 1..faults + 1 => session' \in 1..faults' + 1
    BY <1>0, <1>2 DEF WorldInv
  <2>3. session \in 1..faults => session' \in 1..faults'
    BY <1>0, <1>2 DEF WorldInv
  <2> QED BY <1>0, <1>2, <2>1, <2>2, <2>3 DEF WorldInv
<1>3. CASE Others
  <2>1. CASE OthersChange
    <3>1. UNCHANGED <<placed, channel, session, faults>>
      BY <2>1 DEF OthersChange
    <3>2. /\ DOMAIN registered' \subseteq 1..MaxId
          /\ \A i \in DOMAIN registered' : registered'[i] \in Records /\ registered'[i].id = i
          /\ next' \in Ids
      <4>1. CASE \E i \in DOMAIN registered : registered' = Without(registered, i) /\ next' = next
        BY <1>0, <4>1 DEF WorldInv, Without
      <4>2. CASE \E i \in DOMAIN registered :
                   registered' = [registered EXCEPT ![i].enabled = ~@] /\ next' = next
        <5>0. PICK i \in DOMAIN registered :
                   registered' = [registered EXCEPT ![i].enabled = ~@] /\ next' = next
          BY <4>2
        <5>1. DOMAIN registered' = DOMAIN registered
          BY <5>0
        <5>2. registered'[i] = [registered[i] EXCEPT !.enabled = ~@]
          BY <5>0
        <5>3. \A j \in DOMAIN registered : j # i => registered'[j] = registered[j]
          BY <5>0
        <5>4. registered'[i] \in Records /\ registered'[i].id = i
          BY <1>0, <5>2 DEF WorldInv, Records
        <5> QED BY <1>0, <5>0, <5>1, <5>3, <5>4 DEF WorldInv
      <4>3. CASE \E p \in Panes :
                   /\ next < MaxId /\ next' = next + 1
                   /\ registered' = With(registered, Forward(next + 1, TRUE, TRUE, p))
        <5>0. PICK p \in Panes :
                   /\ next < MaxId /\ next' = next + 1
                   /\ registered' = With(registered, Forward(next + 1, TRUE, TRUE, p))
          BY <4>3
        <5> DEFINE f == Forward(next + 1, TRUE, TRUE, p)
        <5>1. next + 1 \in 1..MaxId /\ next + 1 \in Ids
          BY <1>0, <5>0, Bounds DEF WorldInv, Ids
        <5>2. f \in Records /\ f.id = next + 1
          BY <5>1 DEF Forward, Records
        <5>3. registered' = With(registered, f)
          BY <5>0
        <5> HIDE DEF f
        <5>4. DOMAIN registered' = DOMAIN registered \cup {f.id}
          BY <5>3 DEF With
        <5>5. \A i \in DOMAIN registered' :
                registered'[i] = IF i = f.id THEN f ELSE registered[i]
          BY <5>3, <5>4 DEF With
        <5>6. next' \in Ids
          BY <5>0, <5>1
        <5> QED BY <1>0, <5>1, <5>2, <5>4, <5>5, <5>6 DEF WorldInv
      <4>4. \/ \E i \in DOMAIN registered : registered' = Without(registered, i) /\ next' = next
            \/ \E i \in DOMAIN registered :
                 registered' = [registered EXCEPT ![i].enabled = ~@] /\ next' = next
            \/ \E p \in Panes :
                 /\ next < MaxId /\ next' = next + 1
                 /\ registered' = With(registered, Forward(next + 1, TRUE, TRUE, p))
        BY <2>1 DEF OthersChange
      <4> QED BY <4>1, <4>2, <4>3, <4>4
    <3> QED BY <1>0, <3>1, <3>2 DEF WorldInv
  <2>2. CASE PanesMove
    BY <1>0, <2>2 DEF WorldInv, PanesMove
  <2>3. CASE LoseLink
    <3>1. session' = session /\ channel' = 0 /\ faults' = faults + 1 /\ faults < MaxFaults
          /\ channel # 0 /\ UNCHANGED <<registered, next, placed>>
      BY <2>3 DEF LoseLink
    <3>2. session \in 1..faults + 1 /\ faults' \in 0..MaxFaults
      BY <1>0, <3>1, Bounds DEF WorldInv
    <3> QED BY <1>0, <3>1, <3>2 DEF WorldInv
  <2>4. CASE Recover
    <3>1. channel = 0 /\ session # Gone /\ session' = session + 1 /\ channel' = session'
          /\ UNCHANGED <<registered, next, placed, faults>>
      BY <2>4 DEF Recover
    <3>2. session' \in 1..faults' + 1 /\ channel' # 0
      BY <1>0, <3>1 DEF WorldInv
    <3> QED BY <1>0, <3>1, <3>2 DEF WorldInv
  <2>5. CASE EndSession
    BY <1>0, <2>5 DEF WorldInv, EndSession
  <2> QED BY <1>3, <2>1, <2>2, <2>3, <2>4, <2>5 DEF Others
<1>4. CASE \E n \in DOMAIN asked : Handle(n)
  <2>1. PICK n \in DOMAIN asked : Handle(n)
    BY <1>4
  <2>2. asked[n] \in Asks
    BY <1>0 DEF AskedInv
  <2>3. registered' \in Outcomes(asked[n]) /\ UNCHANGED <<placed, channel, session, faults>>
        /\ next' = IF DOMAIN registered' \subseteq DOMAIN registered THEN next ELSE next + 1
    BY <2>1 DEF Handle
  <2>4. /\ DOMAIN registered' \subseteq 1..MaxId
        /\ \A i \in DOMAIN registered' : registered'[i] \in Records /\ registered'[i].id = i
        /\ DOMAIN registered' \subseteq DOMAIN registered \/ next < MaxId
    BY <1>0, <2>2, <2>3, OutcomesAreTyped
  <2>5. next' \in Ids
    BY <1>0, <2>3, <2>4, Bounds DEF WorldInv, Ids
  <2> QED BY <1>0, <2>3, <2>4, <2>5 DEF WorldInv
<1> QED BY <1>1, <1>2, <1>3, <1>4, WorldFrame

\* Only these steps touch the lists.
LEMMA ListsFrame == DashboardNext =>
    UNCHANGED <<got, shown, locations>> \/ List \/ Refresh \/ RefreshBlind
<1> SUFFICES ASSUME DashboardNext, ~List, ~Refresh, ~RefreshBlind
    PROVE  UNCHANGED <<got, shown, locations>>
  OBVIOUS
<1>1. CASE Loop
  BY <1>1 DEF Loop, Start, Leave, Draw, ReadSession, ListFails, AnswerIsLate
<1>2. CASE NotYetDue \/ RefreshIsDue
  BY <1>2 DEF NotYetDue, RefreshIsDue, Idle
<1>3. CASE User
  BY <1>3 DEF User, Move, Report, Escape, ClosePopup, OpenForm, AskRemoval, CancelForm, TypeInForm,
    Toggle, ConfirmRemoval, Retarget, Create, Click, Input, Send
<1>4. CASE Others
  BY <1>4 DEF Others, OthersChange, PanesMove, LoseLink, Recover, EndSession, Elsewhere
<1>5. CASE \E n \in DOMAIN asked : Handle(n)
  BY <1>5 DEF Handle
<1> QED BY <1>1, <1>2, <1>3, <1>4, <1>5 DEF DashboardNext

\* What a refresh does to the lists, with the places or without.
LEMMA RefreshedIsSound ==
  ASSUME ListsInv, LoopInv, NEW places \in Places \cup {<<>>}, Refreshed(places)
  PROVE  /\ shown' \in Seq(Records) /\ Len(shown') = Len(got) /\ locations' = places
         /\ InDisplayOrder(shown', locations') /\ got' = <<>>
         /\ selected' = Preserved(shown') /\ selected' \in 0..MaxId /\ pc' = "top"
<1>1. /\ shown' = ForDisplay(got, places) /\ locations' = places /\ got' = <<>>
      /\ selected' = Preserved(shown') /\ pc' = "top"
  BY DEF Refreshed
<1>2. Known(places)
  BY PlacesAreKnown
<1>3. got \in Seq(Records) /\ Len(got) <= MaxId /\ Len(got) \in Nat
  BY DEF ListsInv
<1>4. /\ ForDisplay(got, places) \in Seq(Records) /\ Len(ForDisplay(got, places)) = Len(got)
      /\ InDisplayOrder(ForDisplay(got, places), places)
  BY <1>2, <1>3, ForDisplayProperties
<1>5. shown' \in Seq(Records) /\ Len(shown') = Len(got) /\ InDisplayOrder(shown', locations')
  BY <1>1, <1>4
<1>6. Preserved(shown') \in 0..MaxId
  <2> DEFINE same == {k \in DOMAIN shown' : HasSelected /\ shown'[k].id = Selected.id}
  <2>1. DOMAIN shown' = 1..Len(got)
    BY <1>5, LenProperties
  <2>2. CASE same # {}
    <3>1. (CHOOSE k \in same : TRUE) \in 1..Len(got)
      BY <2>1, <2>2
    <3>2. Preserved(shown') = (CHOOSE k \in same : TRUE) - 1
      BY <2>2 DEF Preserved
    <3> QED BY <1>3, <3>1, <3>2, Bounds
  <2>3. CASE same = {}
    <3>1. Preserved(shown') = Least(selected, Monus(Len(shown'), 1))
      BY <2>3 DEF Preserved
    <3>2. selected \in 0..MaxId
      BY DEF LoopInv
    <3> QED BY <1>3, <1>5, <3>1, <3>2, Bounds DEF Least, Monus
  <2> QED BY <2>2, <2>3
<1> QED BY <1>1, <1>5, <1>6

\* Every step keeps the lists in order.
LEMMA ListsStep == DashboardInv /\ DashboardNext => ListsInv'
<1> SUFFICES ASSUME DashboardInv, DashboardNext PROVE ListsInv'
  OBVIOUS
<1>0. ListsInv /\ LoopInv /\ WorldInv
  BY DEF DashboardInv
<1>1. CASE UNCHANGED <<got, shown, locations>>
  BY <1>0, <1>1 DEF ListsInv, InDisplayOrder, InOrder, SpaceOf, TabOf
<1>2. CASE List
  <2>1. got' = Listing /\ UNCHANGED <<shown, locations>>
    BY <1>2 DEF List
  <2>2. Listing \in Seq(Records) /\ Len(Listing) \in 0..MaxId
    BY <1>0, ListingProperties DEF WorldInv
  <2>3. got' \in Seq(Records) /\ Len(got') <= MaxId
    BY <2>1, <2>2, Bounds
  <2>4. InDisplayOrder(shown, locations)'
    BY <1>0, <2>1 DEF ListsInv, InDisplayOrder, InOrder, SpaceOf, TabOf
  <2> QED BY <1>0, <2>1, <2>3, <2>4 DEF ListsInv
<1>3. ASSUME NEW places \in Places \cup {<<>>}, Refreshed(places) PROVE ListsInv'
  <2>1. /\ shown' \in Seq(Records) /\ Len(shown') = Len(got) /\ locations' = places
        /\ InDisplayOrder(shown', locations') /\ got' = <<>>
    BY <1>0, <1>3, RefreshedIsSound
  <2>2. got' \in Seq(Records) /\ Len(got') <= MaxId
    BY <2>1, EmptySeq, Bounds
  <2>3. InDisplayOrder(shown, locations)'
    BY <2>1 DEF InDisplayOrder, InOrder, SpaceOf, TabOf
  <2> QED BY <1>0, <2>1, <2>2, <2>3 DEF ListsInv
<1>4. CASE Refresh
  BY <1>0, <1>3, <1>4 DEF Refresh, WorldInv
<1>5. CASE RefreshBlind
  BY <1>3, <1>5 DEF RefreshBlind
<1> QED BY <1>1, <1>2, <1>4, <1>5, ListsFrame

\* Only these steps open a form; the others keep it or close it.
LEMMA FormFrame == DashboardNext =>
    \/ UNCHANGED <<form, aim>>
    \/ form' = NoForm /\ aim' = NoAim
    \/ OpenForm \/ AskRemoval
<1> SUFFICES ASSUME DashboardNext, ~OpenForm, ~AskRemoval
    PROVE  \/ UNCHANGED <<form, aim>>
           \/ form' = NoForm /\ aim' = NoAim
  OBVIOUS
<1>1. CASE Loop
  BY <1>1 DEF Loop, Start, Leave, Draw, ReadSession, List, ListFails, AnswerIsLate, Refresh,
    RefreshBlind, Refreshed
<1>2. CASE NotYetDue \/ RefreshIsDue
  BY <1>2 DEF NotYetDue, RefreshIsDue, Idle
<1>3. CASE User
  BY <1>3 DEF User, Move, Report, Escape, ClosePopup, CancelForm, TypeInForm,
    Toggle, ConfirmRemoval, Retarget, Create, Click, Input, Send
<1>4. CASE Others
  BY <1>4 DEF Others, OthersChange, PanesMove, LoseLink, Recover, EndSession, Elsewhere
<1>5. CASE \E n \in DOMAIN asked : Handle(n)
  BY <1>5 DEF Handle
<1> QED BY <1>1, <1>2, <1>3, <1>4, <1>5 DEF DashboardNext

\* What is selected is a forward.
LEMMA SelectedIsAForward ==
  ASSUME ListsInv, LoopInv, HasSelected
  PROVE  Selected \in Records
<1>1. selected + 1 \in 1..Len(shown)
  BY DEF ListsInv, LoopInv, HasSelected
<1> QED BY <1>1, ElementOfSeq DEF ListsInv, Selected

\* The type of what forms are about.
LEMMA AimIsTyped ==
  ASSUME ListsInv, LoopInv, HasSelected
  PROVE  Aim \in Aims /\ Aim.id = Selected.id /\ Aim.automatic = Selected.automatic
         /\ Aim.enabled = Selected.enabled /\ Selected.id \in Ids \ {0}
<1>1. Selected.id \in 1..MaxId /\ Selected.automatic \in BOOLEAN /\ Selected.enabled \in BOOLEAN
  BY SelectedIsAForward DEF Records
<1>2. Selected.id \in Ids \ {0}
  BY <1>1, Bounds DEF Ids
<1> QED BY <1>1, <1>2 DEF Aim, Aims

\* So is what no form is about.
LEMMA NoAimIsTyped == NoAim \in Aims
BY Bounds DEF NoAim, Aims, Ids

\* Every step keeps forms to what they were opened on.
LEMMA FormStep == DashboardInv /\ DashboardNext => FormInv'
<1> SUFFICES ASSUME DashboardInv, DashboardNext PROVE FormInv'
  OBVIOUS
<1>0. FormInv /\ ListsInv /\ LoopInv
  BY DEF DashboardInv
<1>1. CASE UNCHANGED <<form, aim>>
  BY <1>0, <1>1 DEF FormInv
<1>2. CASE form' = NoForm /\ aim' = NoAim
  <2>1. NoForm \in [kind : {"none", "create"}, id : {0}] /\ NoForm.kind = "none"
    BY DEF NoForm
  <2> QED BY <1>2, <2>1, NoAimIsTyped DEF FormInv
<1>3. CASE OpenForm
  <2>1. CASE HasSelected /\ form' = Form("retarget", Selected.id) /\ aim' = Aim
    <3>1. Form("retarget", Selected.id) \in [kind : {"remove", "retarget"}, id : Ids \ {0}]
      BY <1>0, <2>1, AimIsTyped DEF Form
    <3>2. form'.kind = "retarget"
      BY <2>1 DEF Form
    <3> QED BY <1>0, <2>1, <3>1, <3>2, AimIsTyped DEF FormInv
  <2>2. CASE form' = Form("create", 0) /\ aim' = NoAim
    <3>1. Form("create", 0) \in [kind : {"none", "create"}, id : {0}] /\ form'.kind = "create"
      BY <2>2 DEF Form
    <3> QED BY <2>2, <3>1, NoAimIsTyped DEF FormInv
  <2> QED BY <1>3, <2>1, <2>2 DEF OpenForm
<1>4. CASE AskRemoval
  <2>1. CASE Removable
    <3>1. form' = Form("remove", Selected.id) /\ aim' = Aim /\ HasSelected
      BY <1>4, <2>1 DEF AskRemoval, Removable
    <3>2. Form("remove", Selected.id) \in [kind : {"remove", "retarget"}, id : Ids \ {0}]
      BY <1>0, <3>1, AimIsTyped DEF Form
    <3>3. form'.id = aim'.id /\ ~aim'.automatic
      BY <1>0, <2>1, <3>1, AimIsTyped DEF Form, Removable
    <3> QED BY <1>0, <3>1, <3>2, <3>3, AimIsTyped DEF FormInv
  <2>2. CASE ~Removable
    <3>1. UNCHANGED <<form, aim>>
      BY <1>4, <2>2 DEF AskRemoval
    <3> QED BY <1>0, <3>1 DEF FormInv
  <2> QED BY <2>1, <2>2
<1> QED BY <1>1, <1>2, <1>3, <1>4, FormFrame

\* Only these steps send a request, and only a handler takes one off.
LEMMA AskedFrame == DashboardNext =>
    \/ asked' = asked
    \/ Toggle \/ ConfirmRemoval \/ Retarget \/ Create
    \/ \E n \in DOMAIN asked : Handle(n)
<1> SUFFICES ASSUME DashboardNext, ~Toggle, ~ConfirmRemoval, ~Retarget, ~Create,
                    ~\E n \in DOMAIN asked : Handle(n)
    PROVE  asked' = asked
  OBVIOUS
<1>1. CASE Loop
  BY <1>1 DEF Loop, Start, Leave, Draw, ReadSession, List, ListFails, AnswerIsLate, Refresh,
    RefreshBlind, Refreshed
<1>2. CASE NotYetDue \/ RefreshIsDue
  BY <1>2 DEF NotYetDue, RefreshIsDue, Idle
<1>3. CASE User
  BY <1>3 DEF User, Move, Report, Escape, ClosePopup, OpenForm, AskRemoval, CancelForm, TypeInForm,
    Click, Input
<1>4. CASE Others
  BY <1>4 DEF Others, OthersChange, PanesMove, LoseLink, Recover, EndSession, Elsewhere
<1> QED BY <1>1, <1>2, <1>3, <1>4 DEF DashboardNext

\* The requests that a dashboard may send.
LEMMA SentIsTyped ==
  ASSUME FormInv, ListsInv, LoopInv, Toggle \/ ConfirmRemoval \/ Retarget \/ Create
  PROVE  \E r \in Asks : Send(r) /\ (r.op = "remove" => r.id = r.aim.id /\ ~r.aim.automatic)
<1>0. Ids \subseteq Nat
  BY Bounds DEF Ids
<1>1. CASE Toggle
  <2> DEFINE r == Request("toggle", Selected.id, ~Selected.enabled, Aim)
  <2>1. HasSelected /\ Send(r)
    BY <1>1 DEF Toggle
  <2>2. Aim \in Aims /\ Selected.id \in Nat /\ Aim.enabled = Selected.enabled
        /\ Selected.enabled \in BOOLEAN
    BY <1>0, <2>1, AimIsTyped, SelectedIsAForward DEF Records
  <2>3. r.op = "toggle" /\ r.want = ~r.aim.enabled
    BY <2>2 DEF Request
  <2>4. r \in Asks
    BY <2>2, <2>3 DEF Request, Asks
  <2> HIDE DEF r
  <2> QED BY <2>1, <2>3, <2>4
<1>2. CASE ConfirmRemoval
  <2> DEFINE r == Request("remove", form.id, FALSE, aim)
  <2>1. form.kind = "remove" /\ Send(r)
    BY <1>2 DEF ConfirmRemoval, ToRemove
  <2>2. form.id \in Nat /\ aim \in Aims /\ form.id = aim.id /\ ~aim.automatic
    BY <1>0, <2>1 DEF FormInv
  <2>3. r.op = "remove" /\ r.id = r.aim.id /\ ~r.aim.automatic
    BY <2>2 DEF Request
  <2>4. r \in Asks
    BY <2>2, <2>3 DEF Request, Asks
  <2> HIDE DEF r
  <2> QED BY <2>1, <2>3, <2>4
<1>3. CASE Retarget
  <2> DEFINE r == Request("retarget", form.id, FALSE, aim)
  <2>1. form.kind = "retarget" /\ Send(r)
    BY <1>3 DEF Retarget
  <2>2. form.id \in Nat /\ aim \in Aims
    BY <1>0, <2>1 DEF FormInv
  <2>3. r.op = "retarget" /\ r \in Asks
    BY <2>2 DEF Request, Asks
  <2> HIDE DEF r
  <2> QED BY <2>1, <2>3
<1>4. CASE Create
  <2> DEFINE pane == IF HasSelected THEN Selected.pane ELSE NoPane
             r == Request("create", pane, TRUE, aim)
  <2>1. Send(r)
    BY <1>4 DEF Create
  <2>2. pane \in Panes \cup {NoPane}
    BY SelectedIsAForward DEF Records
  <2>3. pane \in Nat /\ aim \in Aims
    <3>1. Panes \cup {NoPane} \subseteq Nat
      BY Bounds DEF NoPane
    <3> QED BY <2>2, <3>1 DEF FormInv
  <2> HIDE DEF pane
  <2>4. r.op = "create" /\ r \in Asks
    BY <2>2, <2>3 DEF Request, Asks
  <2> HIDE DEF r
  <2> QED BY <2>1, <2>4
<1> QED BY <1>1, <1>2, <1>3, <1>4

\* Removing one element of a sequence.
LEMMA RemoveAtProperties ==
  ASSUME NEW S, NEW s \in Seq(S), NEW n \in 1..Len(s)
  PROVE  /\ RemoveAt(s, n) \in Seq(S)
         /\ Len(RemoveAt(s, n)) = Len(s) - 1
         /\ \A i \in 1..Len(s) - 1 : RemoveAt(s, n)[i] = IF i < n THEN s[i] ELSE s[i + 1]
<1> DEFINE a == SubSeq(s, 1, n - 1)
           b == SubSeq(s, n + 1, Len(s))
<1>0. Len(s) \in Nat /\ n \in Int /\ \A i \in 1..Len(s) : s[i] \in S
  BY LenProperties
<1>1. /\ a \in Seq(S) /\ Len(a) = n - 1
      /\ \A i \in 1..n - 1 : a[i] = s[i]
  <2>1. \A i \in 1..n - 1 : s[i] \in S
    BY <1>0
  <2>2. /\ a \in Seq(S) /\ Len(a) = IF 1 <= n - 1 THEN n - 1 - 1 + 1 ELSE 0
        /\ \A i \in 1..n - 1 - 1 + 1 : a[i] = s[1 + i - 1]
    BY <1>0, <2>1, SubSeqProperties
  <2> QED BY <1>0, <2>2
<1>2. /\ b \in Seq(S) /\ Len(b) = Len(s) - n
      /\ \A i \in 1..Len(s) - n : b[i] = s[n + i]
  <2>1. \A i \in n + 1..Len(s) : s[i] \in S
    BY <1>0
  <2>2. /\ b \in Seq(S) /\ Len(b) = IF n + 1 <= Len(s) THEN Len(s) - (n + 1) + 1 ELSE 0
        /\ \A i \in 1..Len(s) - (n + 1) + 1 : b[i] = s[n + 1 + i - 1]
    BY <1>0, <2>1, SubSeqProperties
  <2> QED BY <1>0, <2>2
<1> HIDE DEF a, b
<1>3. /\ a \o b \in Seq(S) /\ Len(a \o b) = Len(a) + Len(b)
      /\ \A i \in 1..Len(a) + Len(b) : (a \o b)[i] = IF i <= Len(a) THEN a[i] ELSE b[i - Len(a)]
  BY <1>1, <1>2, ConcatProperties
<1>4. RemoveAt(s, n) = a \o b
  BY DEF RemoveAt, a, b
<1>5. ASSUME NEW i \in 1..Len(s) - 1 PROVE (a \o b)[i] = IF i < n THEN s[i] ELSE s[i + 1]
  <2>1. i \in 1..Len(a) + Len(b)
    BY <1>0, <1>1, <1>2
  <2>2. CASE i < n
    BY <1>0, <1>1, <1>3, <2>1, <2>2
  <2>3. CASE i >= n
    <3>1. i - (n - 1) \in 1..Len(s) - n /\ n + (i - (n - 1)) = i + 1
      BY <1>0, <2>3
    <3>2. (a \o b)[i] = b[i - (n - 1)]
      BY <1>0, <1>1, <1>3, <2>1, <2>3
    <3> QED BY <1>0, <1>2, <2>3, <3>1, <3>2
  <2>4. i < n \/ i >= n
    BY <1>0
  <2> QED BY <2>2, <2>3, <2>4
<1>6. Len(a \o b) = Len(s) - 1
  BY <1>0, <1>1, <1>2, <1>3
<1> QED BY <1>3, <1>4, <1>5, <1>6

\* Every step keeps the requests to those that may be sent.
LEMMA AskedStep == DashboardInv /\ DashboardNext => AskedInv'
<1> SUFFICES ASSUME DashboardInv, DashboardNext PROVE AskedInv'
  OBVIOUS
<1>0. AskedInv /\ FormInv /\ ListsInv /\ LoopInv
  BY DEF DashboardInv
<1>1. CASE asked' = asked
  BY <1>0, <1>1 DEF AskedInv
<1>2. CASE Toggle \/ ConfirmRemoval \/ Retarget \/ Create
  <2>1. PICK r \in Asks : Send(r)
    BY <1>0, <1>2, SentIsTyped
  <2>2. asked' = asked \/ asked' = Append(asked, r)
    BY <2>1 DEF Send
  <2> QED BY <1>0, <2>2 DEF AskedInv
<1>3. CASE \E n \in DOMAIN asked : Handle(n)
  <2>1. PICK n \in DOMAIN asked : asked' = RemoveAt(asked, n)
    BY <1>3 DEF Handle
  <2>2. n \in 1..Len(asked)
    BY <1>0 DEF AskedInv
  <2> QED BY <1>0, <2>1, <2>2, RemoveAtProperties DEF AskedInv
<1> QED BY <1>1, <1>2, <1>3, AskedFrame

-----------------------------------------------------------------------------
(* Flattening a sequence of sequences.                                     *)

\* A set of positions that holds the first one, and with each the next, holds them all.
LEMMA EveryPosition ==
  ASSUME NEW n \in Nat, NEW T \in SUBSET (1..n), n > 0 => 1 \in T,
         \A i \in T : i < n => i + 1 \in T
  PROVE  T = 1..n
<1> SUFFICES ASSUME (1..n) \ T # {} PROVE FALSE
  OBVIOUS
<1> DEFINE U == (1..n) \ T
<1>1. U \in SUBSET (1..n)
  OBVIOUS
<1>2. PICK m \in U : \A x \in U : m <= x
  BY <1>1, LeastElement
<1>3. m \in 1..n /\ m # 1
  BY <1>2
<1>4. m - 1 \in 1..n /\ m - 1 \notin U
  BY <1>2, <1>3
<1>5. m - 1 \in T /\ m - 1 < n
  BY <1>3, <1>4
<1>6. m - 1 + 1 \in T
  BY <1>5
<1> QED BY <1>2, <1>3, <1>6

\* f holds what the first parts of s make up together.
Appends(f, s, n) == f[1] = s[1] /\ \A j \in 2..n : f[j] = f[j - 1] \o s[j]

\* Flattening sequences appends one after the other.
LEMMA FlattenIsConcatenation ==
  ASSUME NEW T, NEW n \in Nat \ {0}, NEW s \in [1..n -> Seq(T)]
  PROVE  \E f \in [1..n -> Seq(T)] : Appends(f, s, n) /\ FlattenSeq(s) = f[n]
<1> DEFINE Solves(i, f) == f = [j \in 1..i |-> IF j = 1 THEN s[j] ELSE f[j - 1] \o s[j]]
           Good == {i \in 1..n : \E f : Solves(i, f)}
<1>1. 1 \in Good
  <2> DEFINE f == [j \in 1..1 |-> s[1]]
  <2>1. Solves(1, f)
    OBVIOUS
  <2>2. 1 \in 1..n
    OBVIOUS
  <2> HIDE DEF f, Solves
  <2> QED BY <2>1, <2>2
<1>2. ASSUME NEW i \in Good, i < n PROVE i + 1 \in Good
  <2>1. PICK f : Solves(i, f)
    OBVIOUS
  <2> DEFINE g == [j \in 1..i + 1 |-> IF j <= i THEN f[j] ELSE f[i] \o s[i + 1]]
  <2>2. ASSUME NEW j \in 1..i + 1 PROVE g[j] = IF j = 1 THEN s[j] ELSE g[j - 1] \o s[j]
    <3>1. CASE j = 1
      <4>1. 1 \in 1..i /\ g[1] = f[1]
        BY <1>2
      <4> QED BY <2>1, <3>1, <4>1
    <3>2. CASE j \in 2..i
      <4>1. g[j] = f[j] /\ g[j - 1] = f[j - 1] /\ j \in 1..i /\ j # 1
        BY <3>2
      <4> QED BY <2>1, <4>1
    <3>3. CASE j = i + 1
      <4>0. /\ i \in 1..i /\ i + 1 \in 1..i + 1 /\ i \in 1..i + 1
            /\ ~(i + 1 <= i) /\ j - 1 = i /\ j # 1
        BY <1>2, <3>3
      <4>1. g[i] = f[i]
        BY <4>0
      <4>2. g[i + 1] = f[i] \o s[i + 1]
        BY <4>0
      <4> HIDE DEF g
      <4> QED BY <3>3, <4>0, <4>1, <4>2
    <3> QED BY <1>2, <3>1, <3>2, <3>3
  <2>3. Solves(i + 1, g)
    <3> DEFINE h == [j \in 1..i + 1 |-> IF j = 1 THEN s[j] ELSE g[j - 1] \o s[j]]
    <3>1. \A j \in 1..i + 1 : g[j] = h[j]
      BY <2>2
    <3>2. DOMAIN g = 1..i + 1 /\ DOMAIN h = 1..i + 1
      OBVIOUS
    <3>3. g = [j \in 1..i + 1 |-> g[j]] /\ h = [j \in 1..i + 1 |-> h[j]]
      OBVIOUS
    <3> HIDE DEF g, h
    <3>4. g = h
      BY <3>1, <3>3
    <3> QED BY <3>4 DEF h
  <2>4. i + 1 \in 1..n
    BY <1>2
  <2> QED BY <2>3, <2>4
<1>3. Good = 1..n
  <2> HIDE DEF Good
  <2>1. Good \in SUBSET (1..n)
    BY DEF Good
  <2> QED BY <1>1, <1>2, <2>1, EveryPosition
<1>4. \E f : Solves(n, f)
  <2>1. \A i \in 1..n : \E f : Solves(i, f)
    BY <1>3
  <2>2. n \in 1..n
    OBVIOUS
  <2> HIDE DEF Solves
  <2> QED BY <2>1, <2>2
<1> DEFINE f == CHOOSE f : Solves(n, f)
<1>5. Solves(n, f)
  BY <1>4
<1>6. s \in Seq(Seq(T)) /\ Len(s) = n
  BY FunctionIsASequence
<1>7. FlattenSeq(s) = f[n]
  BY <1>6 DEF FlattenSeq
<1> HIDE DEF f
<1>8. /\ DOMAIN f = 1..n /\ f = [j \in 1..n |-> f[j]]
      /\ f[1] = s[1] /\ \A j \in 2..n : f[j] = f[j - 1] \o s[j]
  <2>1. f = [j \in 1..n |-> IF j = 1 THEN s[j] ELSE f[j - 1] \o s[j]]
    BY <1>5
  <2>2. DOMAIN f = 1..n /\ f = [j \in 1..n |-> f[j]]
    BY <2>1
  <2>3. \A j \in 1..n : f[j] = IF j = 1 THEN s[j] ELSE f[j - 1] \o s[j]
    BY <2>1
  <2>4. 1 \in 1..n /\ \A j \in 2..n : j \in 1..n /\ j # 1
    OBVIOUS
  <2> QED BY <2>2, <2>3, <2>4
<1> DEFINE Typed == {i \in 1..n : f[i] \in Seq(T)}
<1>9. Typed = 1..n
  <2>1. 1 \in Typed
    BY <1>8
  <2>2. ASSUME NEW i \in Typed, i < n PROVE i + 1 \in Typed
    <3> DEFINE k == i + 1
    <3>1. k \in 2..n /\ k \in 1..n /\ k - 1 = i /\ s[k] \in Seq(T) /\ f[i] \in Seq(T)
      BY <2>2
    <3> HIDE DEF k
    <3>2. f[k] = f[i] \o s[k]
      BY <1>8, <3>1
    <3>3. f[k] \in Seq(T)
      BY <3>1, <3>2, ConcatProperties
    <3>4. k \in Typed
      BY <3>1, <3>3
    <3> QED BY <3>4 DEF k
  <2> HIDE DEF Typed
  <2>3. Typed \in SUBSET (1..n)
    BY DEF Typed
  <2> QED BY <2>1, <2>2, <2>3, EveryPosition
<1>10. f \in [1..n -> Seq(T)]
  BY <1>8, <1>9
<1>11. Appends(f, s, n)
  BY <1>8 DEF Appends
<1> QED BY <1>7, <1>10, <1>11

\* The parts of s stand one after the other in whole, part k after at[k] elements.
Joins(whole, s, n, at) ==
    /\ at[1] = 0
    /\ \A k \in 1..n : at[k + 1] = at[k] + Len(s[k])
    /\ Len(whole) = at[n + 1]
    /\ \A k \in 1..n : \A j \in 1..Len(s[k]) :
          at[k] + j \in 1..at[n + 1] /\ whole[at[k] + j] = s[k][j]
    /\ \A m \in 1..at[n + 1] : \E k \in 1..n : m \in at[k] + 1..at[k + 1]

\* Where the parts are after flattening.
LEMMA FlattenLayout ==
  ASSUME NEW T, NEW n \in Nat, NEW s \in [1..n -> Seq(T)]
  PROVE  /\ FlattenSeq(s) \in Seq(T)
         /\ \E at \in [1..n + 1 -> Nat] : Joins(FlattenSeq(s), s, n, at)
<1>1. CASE n = 0
  <2> DEFINE at == [k \in 1..n + 1 |-> 0]
  <2>1. s \in Seq(Seq(T)) /\ Len(s) = 0 /\ s \in Seq(T)
    <3>1. s \in Seq(Seq(T)) /\ Len(s) = 0
      BY <1>1, FunctionIsASequence
    <3>2. s \in [1..0 -> T]
      BY <1>1
    <3> QED BY <3>1, <3>2, FunctionIsASequence
  <2>2. FlattenSeq(s) = s
    BY <2>1 DEF FlattenSeq
  <2>3. at \in [1..n + 1 -> Nat] /\ at[1] = 0 /\ at[n + 1] = 0
    BY <1>1
  <2> HIDE DEF at
  <2>4. Joins(FlattenSeq(s), s, n, at)
    BY <1>1, <2>1, <2>2, <2>3 DEF Joins
  <2> QED BY <2>1, <2>2, <2>3, <2>4
<1>2. CASE n # 0
  <2>0. PICK f \in [1..n -> Seq(T)] : Appends(f, s, n) /\ FlattenSeq(s) = f[n]
    <3>1. n \in Nat \ {0}
      BY <1>2
    <3> QED BY <3>1, FlattenIsConcatenation
  <2>1. /\ f[1] = s[1]
        /\ \A j \in 2..n : f[j] = f[j - 1] \o s[j]
        /\ FlattenSeq(s) = f[n]
    BY <2>0 DEF Appends
  <2> DEFINE at == [k \in 1..n + 1 |-> IF k = 1 THEN 0 ELSE Len(f[k - 1])]
  <2>2. \A k \in 1..n : Len(f[k]) \in Nat /\ Len(s[k]) \in Nat
    BY LenProperties
  <2>3. at \in [1..n + 1 -> Nat] /\ at[1] = 0
    <3>1. \A k \in 1..n + 1 : k # 1 => k - 1 \in 1..n
      OBVIOUS
    <3> QED BY <2>2, <3>1
  <2>4. \A k \in 1..n : at[k + 1] = Len(f[k])
    <3>1. \A k \in 1..n : k + 1 \in 1..n + 1 /\ k + 1 # 1 /\ k + 1 - 1 = k
      OBVIOUS
    <3> QED BY <3>1
  <2> HIDE DEF at
  <2>5. \A k \in 1..n - 1 : /\ f[k + 1] = f[k] \o s[k + 1]
                            /\ Len(f[k + 1]) = Len(f[k]) + Len(s[k + 1])
                            /\ \A i \in 1..Len(f[k]) + Len(s[k + 1]) :
                                  f[k + 1][i] = IF i <= Len(f[k]) THEN f[k][i]
                                                ELSE s[k + 1][i - Len(f[k])]
    <3> SUFFICES ASSUME NEW k \in 1..n - 1
        PROVE  /\ f[k + 1] = f[k] \o s[k + 1]
               /\ Len(f[k + 1]) = Len(f[k]) + Len(s[k + 1])
               /\ \A i \in 1..Len(f[k]) + Len(s[k + 1]) :
                     f[k + 1][i] = IF i <= Len(f[k]) THEN f[k][i]
                                   ELSE s[k + 1][i - Len(f[k])]
      OBVIOUS
    <3> DEFINE l == k + 1
    <3>1. l \in 2..n /\ l - 1 = k /\ k \in 1..n /\ l \in 1..n
      OBVIOUS
    <3> HIDE DEF l
    <3>2. f[l] = f[k] \o s[l] /\ f[k] \in Seq(T) /\ s[l] \in Seq(T)
      BY <2>1, <3>1
    <3>3. /\ Len(f[l]) = Len(f[k]) + Len(s[l])
          /\ \A i \in 1..Len(f[k]) + Len(s[l]) :
                f[l][i] = IF i <= Len(f[k]) THEN f[k][i] ELSE s[l][i - Len(f[k])]
      <4>1. /\ Len(f[k] \o s[l]) = Len(f[k]) + Len(s[l])
            /\ \A i \in 1..Len(f[k]) + Len(s[l]) :
                 (f[k] \o s[l])[i] = IF i <= Len(f[k]) THEN f[k][i] ELSE s[l][i - Len(f[k])]
        BY <3>2, ConcatProperties
      <4> QED BY <3>2, <4>1
    <3> QED BY <3>2, <3>3 DEF l
  <2>6. \A k \in 1..n : at[k + 1] = at[k] + Len(s[k])
    <3> SUFFICES ASSUME NEW k \in 1..n PROVE at[k + 1] = at[k] + Len(s[k])
      OBVIOUS
    <3>1. CASE k = 1
      BY <2>1, <2>2, <2>3, <2>4, <3>1
    <3>2. CASE k # 1
      <4> DEFINE h == k - 1
      <4>1. h \in 1..n - 1 /\ h \in 1..n /\ h + 1 = k
        BY <3>2
      <4> HIDE DEF h
      <4>2. Len(f[k]) = Len(f[h]) + Len(s[k]) /\ at[k] = Len(f[h])
        BY <2>4, <2>5, <4>1
      <4> QED BY <2>4, <4>2
    <3> QED BY <3>1, <3>2
  <2> DEFINE Laid(i) ==
        /\ \A k \in 1..i : \A j \in 1..Len(s[k]) :
              at[k] + j \in 1..Len(f[i]) /\ f[i][at[k] + j] = s[k][j]
        /\ \A m \in 1..Len(f[i]) : \E k \in 1..i : m \in at[k] + 1..at[k + 1]
      Good == {i \in 1..n : Laid(i)}
  <2>7. 1 \in Good
    <3>1. 1 \in 1..n
      BY <1>2
    <3>2. at[1] = 0 /\ at[1 + 1] = Len(s[1]) /\ f[1] = s[1] /\ Len(s[1]) \in Nat
      BY <2>1, <2>2, <2>3, <2>4, <3>1
    <3>3. Laid(1)
      BY <3>2
    <3> QED BY <3>1, <3>3
  <2>8. ASSUME NEW i \in Good, i < n PROVE i + 1 \in Good
    <3>0. i \in 1..n /\ i \in 1..n - 1 /\ Laid(i)
      BY <2>8
    <3> HIDE DEF Laid, Good
    <3> DEFINE l == i + 1
    <3>1. l \in 1..n /\ \A k \in 1..l : k = l \/ k \in 1..i
      BY <3>0
    <3>2. /\ Len(f[l]) = Len(f[i]) + Len(s[l]) /\ at[l] = Len(f[i])
          /\ \A m \in 1..Len(f[i]) + Len(s[l]) :
                f[l][m] = IF m <= Len(f[i]) THEN f[i][m] ELSE s[l][m - Len(f[i])]
      BY <2>4, <2>5, <3>0
    <3>3. Len(f[i]) \in Nat /\ Len(s[l]) \in Nat /\ at[l + 1] = Len(f[i]) + Len(s[l])
      BY <2>2, <2>6, <3>0, <3>1, <3>2
    <3>4. at[l] = Len(f[i])
      BY <3>2
    <3> DEFINE a == Len(f[i])
               b == Len(s[l])
    <3> a \in Nat /\ b \in Nat
      BY <3>3
    <3>5. l \in 1..l /\ \A k \in 1..i : k \in 1..l
      BY <3>0
    <3> HIDE DEF l
    <3>6. ASSUME NEW k \in 1..i, NEW j \in 1..Len(s[k])
          PROVE  at[k] + j \in 1..Len(f[l]) /\ f[l][at[k] + j] = s[k][j]
      <4> DEFINE m == at[k] + j
      <4>1. m \in 1..Len(f[i]) /\ f[i][m] = s[k][j]
        BY <3>0 DEF Laid
      <4> HIDE DEF m, a, b
      <4>2. m \in 1..a + b /\ m <= a
        <5>1. m \in 1..a
          BY <4>1 DEF a
        <5> QED BY <5>1
      <4>3. m \in 1..Len(f[l]) /\ f[l][m] = s[k][j]
        BY <3>2, <4>1, <4>2 DEF a, b
      <4> QED BY <4>3 DEF m
    <3>7. ASSUME NEW j \in 1..Len(s[l])
          PROVE  at[l] + j \in 1..Len(f[l]) /\ f[l][at[l] + j] = s[l][j]
      <4> DEFINE m == Len(f[i]) + j
      <4>0. j \in 1..b /\ m = a + j
        OBVIOUS
      <4> HIDE DEF m, a, b
      <4>1. m \in 1..a + b /\ ~(m <= a) /\ m - a = j
        BY <4>0
      <4>2. m \in 1..Len(f[l]) /\ f[l][m] = s[l][j]
        BY <3>2, <4>1 DEF a, b
      <4> QED BY <3>4, <4>2 DEF m
    <3>8. ASSUME NEW m \in 1..Len(f[l]) PROVE \E k \in 1..l : m \in at[k] + 1..at[k + 1]
      <4>1. CASE m \in 1..Len(f[i])
        BY <3>0, <3>5, <4>1 DEF Laid
      <4>2. CASE m \notin 1..Len(f[i])
        <5>1. m \in 1..a + b /\ m \notin 1..a
          BY <3>2, <4>2
        <5> HIDE DEF a, b
        <5>2. m \in a + 1..a + b
          BY <5>1
        <5>3. m \in at[l] + 1..at[l + 1]
          BY <3>3, <3>4, <5>2 DEF a, b
        <5> QED BY <3>5, <5>3
      <4> QED BY <4>1, <4>2
    <3>9. Laid(l)
      BY <3>1, <3>6, <3>7, <3>8 DEF Laid
    <3> QED BY <3>1, <3>9 DEF Good, l
  <2>9. n \in Good
    <3> HIDE DEF Laid
    <3>1. Good \in SUBSET (1..n)
      OBVIOUS
    <3> HIDE DEF Good
    <3>2. Good = 1..n
      BY <2>7, <2>8, <3>1, EveryPosition
    <3> QED BY <1>2, <3>2
  <2>10. Laid(n) /\ at[n + 1] = Len(f[n]) /\ f[n] \in Seq(T)
    BY <1>2, <2>4, <2>9
  <2>11. /\ at \in [1..n + 1 -> Nat] /\ at[1] = 0
         /\ \A k \in 1..n : at[k + 1] = at[k] + Len(s[k])
         /\ FlattenSeq(s) \in Seq(T) /\ Len(FlattenSeq(s)) = at[n + 1]
    BY <2>1, <2>3, <2>6, <2>10
  <2>12. \A k \in 1..n : \A j \in 1..Len(s[k]) :
            at[k] + j \in 1..at[n + 1] /\ FlattenSeq(s)[at[k] + j] = s[k][j]
    BY <2>1, <2>10
  <2>13. \A m \in 1..at[n + 1] : \E k \in 1..n : m \in at[k] + 1..at[k + 1]
    BY <2>1, <2>10
  <2>14. Joins(FlattenSeq(s), s, n, at)
    BY <2>11, <2>12, <2>13 DEF Joins
  <2> QED BY <2>11, <2>14
<1> QED BY <1>1, <1>2

\* The parts that are not empty begin at different places.
LEMMA LaterPartsBeginLater ==
  ASSUME NEW n \in Nat, NEW at \in [1..n + 1 -> Nat],
         \A k \in 1..n : at[k] < at[k + 1]
  PROVE  \A k \in 1..n : \A j \in 1..n : j < k => at[j] < at[k]
<1> DEFINE Later(k) == \A j \in 1..n : j < k => at[j] < at[k]
           Good == {k \in 1..n : Later(k)}
<1>1. n > 0 => 1 \in Good
  OBVIOUS
<1>2. ASSUME NEW k \in Good, k < n PROVE k + 1 \in Good
  <2> DEFINE l == k + 1
  <2>1. k \in 1..n /\ l \in 1..n /\ Later(k) /\ at[k] < at[l] /\ \A j \in 1..n : at[j] \in Nat
    BY <1>2
  <2>2. \A j \in 1..n : j < l => j < k \/ j = k
    BY <1>2
  <2>3. at[l] \in Nat
    BY <2>1
  <2> HIDE DEF l
  <2>4. ASSUME NEW j \in 1..n, j < l PROVE at[j] < at[l]
    <3>1. CASE j < k
      <4>1. at[j] < at[k] /\ at[j] \in Nat /\ at[k] \in Nat
        BY <2>1, <3>1
      <4> QED BY <2>1, <2>3, <4>1
    <3>2. CASE j = k
      BY <2>1, <3>2
    <3> QED BY <2>2, <2>4, <3>1, <3>2
  <2> QED BY <2>1, <2>4 DEF l
<1>3. Good = 1..n
  <2> HIDE DEF Later
  <2>1. Good \in SUBSET (1..n)
    OBVIOUS
  <2> HIDE DEF Good
  <2> QED BY <1>1, <1>2, <2>1, EveryPosition
<1> QED BY <1>3

-----------------------------------------------------------------------------
(* The lines of the tree.                                                  *)

\* A line of the tree: the headings belong to no forward.
HeadingKinds == {"space", "tab", "pane", "manual", "blank"}
TreeHeadings == [kind : HeadingKinds, index : {-1}]
Lines == [kind : HeadingKinds \cup {"forward"}, index : Int]

\* A sequence of at most three elements.
LEMMA ShortSequences ==
  ASSUME NEW S, NEW a \in S, NEW b \in S, NEW c \in S
  PROVE  /\ <<>> \in Seq(S) /\ <<a>> \in Seq(S) /\ <<a, b>> \in Seq(S) /\ <<a, b, c>> \in Seq(S)
         /\ Len(<<>>) = 0 /\ Len(<<a>>) = 1 /\ Len(<<a, b>>) = 2 /\ Len(<<a, b, c>>) = 3
OBVIOUS

\* Headings belong to no forward, the other lines to the one they name.
LEMMA HeadingsAreLines ==
  /\ \A kind \in HeadingKinds : Heading(kind) \in TreeHeadings /\ Heading(kind).kind = kind
                                /\ Heading(kind).index = -1
  /\ TreeHeadings \subseteq Lines
  /\ \A k \in Int : /\ Line("forward", k) \in Lines
                    /\ Line("forward", k).kind = "forward" /\ Line("forward", k).index = k
BY DEF Heading, Line, TreeHeadings, Lines, HeadingKinds

\* Which headings stand above a forward.
LEMMA HeadingsByCase ==
  ASSUME NEW list, NEW places, NEW k \in Nat \ {0}, list[k].automatic \in BOOLEAN
  PROVE  LET space  == StartsSpace(list, places, k)
             tab    == StartsTab(list, places, k)
             pane   == StartsPane(list, places, k)
             custom == StartsCustom(list, k)
             auto   == list[k].automatic
             h      == Headings(list, places, k)
         IN  \/ /\ auto /\ space /\ tab /\ pane
                /\ h = <<Heading("space"), Heading("tab"), Heading("pane")>>
             \/ auto /\ ~space /\ tab /\ pane /\ h = <<Heading("tab"), Heading("pane")>>
             \/ auto /\ ~space /\ ~tab /\ pane /\ h = <<Heading("pane")>>
             \/ auto /\ ~space /\ ~tab /\ ~pane /\ h = <<>>
             \/ ~auto /\ custom /\ k = 1 /\ h = <<Heading("manual")>>
             \/ ~auto /\ custom /\ k # 1 /\ h = <<Heading("blank"), Heading("manual")>>
             \/ ~auto /\ ~custom /\ h = <<>>
<1> DEFINE space  == StartsSpace(list, places, k)
           tab    == StartsTab(list, places, k)
           pane   == StartsPane(list, places, k)
           custom == StartsCustom(list, k)
           auto   == list[k].automatic
           h      == Headings(list, places, k)
<1>1. (space => tab) /\ (tab => pane)
  BY DEF StartsTab, StartsPane
<1>2. k = 1 => custom
  BY DEF StartsCustom
<1>3. k = 1 \/ k > 1
  OBVIOUS
<1>4. space \in BOOLEAN /\ tab \in BOOLEAN /\ pane \in BOOLEAN /\ custom \in BOOLEAN
  BY DEF StartsSpace, StartsTab, StartsPane, StartsCustom
<1>5. h = CASE auto /\ space -> <<Heading("space"), Heading("tab"), Heading("pane")>>
            [] auto /\ tab /\ ~space -> <<Heading("tab"), Heading("pane")>>
            [] auto /\ pane /\ ~tab -> <<Heading("pane")>>
            [] ~auto /\ k = 1 -> <<Heading("manual")>>
            [] ~auto /\ k > 1 /\ custom -> <<Heading("blank"), Heading("manual")>>
            [] OTHER -> <<>>
  BY DEF Headings
<1> HIDE DEF space, tab, pane, custom, h
<1>6. CASE auto /\ space
  <2>1. h = <<Heading("space"), Heading("tab"), Heading("pane")>>
    BY <1>1, <1>4, <1>5, <1>6
  <2> QED BY <1>1, <1>6, <2>1 DEF space, tab, pane, custom, h
<1>7. CASE auto /\ tab /\ ~space
  <2>1. h = <<Heading("tab"), Heading("pane")>>
    BY <1>1, <1>4, <1>5, <1>7
  <2> QED BY <1>1, <1>7, <2>1 DEF space, tab, pane, custom, h
<1>8. CASE auto /\ pane /\ ~tab
  <2>1. h = <<Heading("pane")>>
    BY <1>1, <1>4, <1>5, <1>8
  <2> QED BY <1>1, <1>8, <2>1 DEF space, tab, pane, custom, h
<1>9. CASE auto /\ ~pane
  <2>1. h = <<>>
    BY <1>1, <1>4, <1>5, <1>9
  <2> QED BY <1>1, <1>9, <2>1 DEF space, tab, pane, custom, h
<1>10. CASE ~auto /\ k = 1
  <2>1. h = <<Heading("manual")>>
    BY <1>3, <1>4, <1>5, <1>10
  <2> QED BY <1>2, <1>10, <2>1 DEF space, tab, pane, custom, h
<1>11. CASE ~auto /\ k # 1 /\ custom
  <2>1. h = <<Heading("blank"), Heading("manual")>>
    BY <1>3, <1>4, <1>5, <1>11
  <2> QED BY <1>11, <2>1 DEF space, tab, pane, custom, h
<1>12. CASE ~auto /\ ~custom
  <2>1. h = <<>>
    BY <1>2, <1>3, <1>4, <1>5, <1>12
  <2> QED BY <1>12, <2>1 DEF space, tab, pane, custom, h
<1> QED BY <1>6, <1>7, <1>8, <1>9, <1>10, <1>11, <1>12

\* A group of lines: up to three headings, each at its place, and two lines of the
\* forward itself.
LEMMA HeadingsProperties ==
  ASSUME NEW list, NEW places, NEW k \in Nat \ {0}, list[k].automatic \in BOOLEAN
  PROVE  LET space  == StartsSpace(list, places, k)
             tab    == StartsTab(list, places, k)
             pane   == StartsPane(list, places, k)
             custom == StartsCustom(list, k)
             auto   == list[k].automatic
             h      == Headings(list, places, k)
         IN  /\ h \in Seq(TreeHeadings)
             /\ \A j \in 1..Len(h) : h[j].kind = "space" <=> j = 1 /\ auto /\ space
             /\ \A j \in 1..Len(h) :
                   h[j].kind = "tab" <=> j = (IF space THEN 2 ELSE 1) /\ auto /\ tab
             /\ \A j \in 1..Len(h) : h[j].kind = "pane" <=> j = Len(h) /\ auto /\ pane
             /\ \A j \in 1..Len(h) : h[j].kind = "manual" <=> j = Len(h) /\ ~auto /\ custom
             /\ auto /\ space => Len(h) >= 1
             /\ auto /\ tab => Len(h) >= (IF space THEN 2 ELSE 1)
             /\ auto /\ pane => Len(h) >= 1
             /\ ~auto /\ custom => Len(h) >= 1
<1> DEFINE space  == StartsSpace(list, places, k)
           tab    == StartsTab(list, places, k)
           pane   == StartsPane(list, places, k)
           custom == StartsCustom(list, k)
           auto   == list[k].automatic
           h      == Headings(list, places, k)
           sp     == Heading("space")
           ta     == Heading("tab")
           pa     == Heading("pane")
           ma     == Heading("manual")
           bl     == Heading("blank")
           Goal   ==
             /\ h \in Seq(TreeHeadings)
             /\ \A j \in 1..Len(h) : h[j].kind = "space" <=> j = 1 /\ auto /\ space
             /\ \A j \in 1..Len(h) :
                   h[j].kind = "tab" <=> j = (IF space THEN 2 ELSE 1) /\ auto /\ tab
             /\ \A j \in 1..Len(h) : h[j].kind = "pane" <=> j = Len(h) /\ auto /\ pane
             /\ \A j \in 1..Len(h) : h[j].kind = "manual" <=> j = Len(h) /\ ~auto /\ custom
             /\ auto /\ space => Len(h) >= 1
             /\ auto /\ tab => Len(h) >= (IF space THEN 2 ELSE 1)
             /\ auto /\ pane => Len(h) >= 1
             /\ ~auto /\ custom => Len(h) >= 1
<1>1. /\ sp \in TreeHeadings /\ ta \in TreeHeadings /\ pa \in TreeHeadings
      /\ ma \in TreeHeadings /\ bl \in TreeHeadings
      /\ sp.kind = "space" /\ ta.kind = "tab" /\ pa.kind = "pane"
      /\ ma.kind = "manual" /\ bl.kind = "blank"
  BY HeadingsAreLines DEF HeadingKinds
<1>2. \/ auto /\ space /\ tab /\ pane /\ h = <<sp, ta, pa>>
      \/ auto /\ ~space /\ tab /\ pane /\ h = <<ta, pa>>
      \/ auto /\ ~space /\ ~tab /\ pane /\ h = <<pa>>
      \/ auto /\ ~space /\ ~tab /\ ~pane /\ h = <<>>
      \/ ~auto /\ custom /\ k = 1 /\ h = <<ma>>
      \/ ~auto /\ custom /\ k # 1 /\ h = <<bl, ma>>
      \/ ~auto /\ ~custom /\ h = <<>>
  BY HeadingsByCase
<1> HIDE DEF space, tab, pane, custom, auto, h, sp, ta, pa, ma, bl
<1>3. ASSUME auto /\ space /\ tab /\ pane /\ h = <<sp, ta, pa>> PROVE Goal
  <2>1. h \in Seq(TreeHeadings) /\ Len(h) = 3 /\ h[1] = sp /\ h[2] = ta /\ h[3] = pa
    BY <1>1, <1>3, ShortSequences
  <2> QED BY <1>1, <1>3, <2>1
<1>4. ASSUME auto /\ ~space /\ tab /\ pane /\ h = <<ta, pa>> PROVE Goal
  <2>1. h \in Seq(TreeHeadings) /\ Len(h) = 2 /\ h[1] = ta /\ h[2] = pa
    BY <1>1, <1>4, ShortSequences
  <2> QED BY <1>1, <1>4, <2>1
<1>5. ASSUME auto /\ ~space /\ ~tab /\ pane /\ h = <<pa>> PROVE Goal
  <2>1. h \in Seq(TreeHeadings) /\ Len(h) = 1 /\ h[1] = pa
    BY <1>1, <1>5, ShortSequences
  <2> QED BY <1>1, <1>5, <2>1
<1>6. ASSUME auto /\ ~space /\ ~tab /\ ~pane /\ h = <<>> PROVE Goal
  <2>1. h \in Seq(TreeHeadings) /\ Len(h) = 0
    BY <1>6, EmptySeq
  <2> QED BY <1>6, <2>1
<1>7. ASSUME ~auto /\ custom /\ k = 1 /\ h = <<ma>> PROVE Goal
  <2>1. h \in Seq(TreeHeadings) /\ Len(h) = 1 /\ h[1] = ma
    BY <1>1, <1>7, ShortSequences
  <2> QED BY <1>1, <1>7, <2>1
<1>8. ASSUME ~auto /\ custom /\ k # 1 /\ h = <<bl, ma>> PROVE Goal
  <2>1. h \in Seq(TreeHeadings) /\ Len(h) = 2 /\ h[1] = bl /\ h[2] = ma
    BY <1>1, <1>8, ShortSequences
  <2> QED BY <1>1, <1>8, <2>1
<1>9. ASSUME ~auto /\ ~custom /\ h = <<>> PROVE Goal
  <2>1. h \in Seq(TreeHeadings) /\ Len(h) = 0
    BY <1>9, EmptySeq
  <2> QED BY <1>9, <2>1
<1>10. Goal
  BY <1>2, <1>3, <1>4, <1>5, <1>6, <1>7, <1>8, <1>9
<1> QED BY <1>10 DEF space, tab, pane, custom, auto, h

\* The lines of one forward: its headings, then two lines that are its own.
LEMMA GroupProperties ==
  ASSUME NEW list, NEW places, NEW k \in Nat \ {0}, list[k].automatic \in BOOLEAN
  PROVE  LET h == Headings(list, places, k)
             g == Group(list, places, k)
         IN  /\ Len(h) \in Nat /\ g \in Seq(Lines) /\ Len(g) = Len(h) + 2
             /\ \A j \in 1..Len(h) : g[j] = h[j] /\ g[j].index = -1 /\ g[j].kind # "forward"
             /\ g[Len(h) + 1] = Line("forward", k - 1) /\ g[Len(h) + 2] = Line("forward", k - 1)
<1> DEFINE h == Headings(list, places, k)
           g == Group(list, places, k)
           l == Line("forward", k - 1)
           t == <<l, l>>
<1>1. h \in Seq(TreeHeadings)
  BY HeadingsProperties
<1>2. TreeHeadings \subseteq Lines /\ l \in Lines
  BY HeadingsAreLines
<1>3. g = h \o t
  BY DEF Group
<1> HIDE DEF h, g, l
<1>4. h \in Seq(Lines) /\ Len(h) \in Nat
  BY <1>1, <1>2, SeqMonotonic, LenProperties
<1>5. t \in Seq(Lines) /\ Len(t) = 2 /\ t[1] = l /\ t[2] = l
  BY <1>2, ShortSequences
<1> HIDE DEF t
<1>6. /\ h \o t \in Seq(Lines) /\ Len(h \o t) = Len(h) + Len(t)
      /\ \A i \in 1..Len(h) + Len(t) : (h \o t)[i] = IF i <= Len(h) THEN h[i] ELSE t[i - Len(h)]
  BY <1>4, <1>5, ConcatProperties
<1>7. g \in Seq(Lines) /\ Len(g) = Len(h) + 2
      /\ \A i \in 1..Len(h) + 2 : g[i] = IF i <= Len(h) THEN h[i] ELSE t[i - Len(h)]
  BY <1>3, <1>5, <1>6
<1>8. \A j \in 1..Len(h) : g[j] = h[j]
  BY <1>4, <1>7
<1>9. \A j \in 1..Len(h) : h[j] \in TreeHeadings
  BY <1>1
<1>10. \A j \in 1..Len(h) : g[j].index = -1 /\ g[j].kind # "forward"
  BY <1>8, <1>9 DEF TreeHeadings, HeadingKinds
<1> DEFINE n == Len(h)
<1>11. n + 1 \in 1..n + 2 /\ n + 2 \in 1..n + 2 /\ ~(n + 1 <= n) /\ ~(n + 2 <= n)
       /\ n + 1 - n = 1 /\ n + 2 - n = 2
  BY <1>4
<1>12. g[n + 1] = t[1] /\ g[n + 2] = t[2]
  BY <1>7, <1>11
<1> QED BY <1>4, <1>5, <1>7, <1>8, <1>10, <1>12 DEF h, g, l

\* The lines of forward k of a list begin after the first at[k] lines of its tree.
Laid(list, places, at) ==
    LET n     == Len(list)
        lines == TreeLines(list, places)
    IN  /\ at \in [1..n + 1 -> Nat] /\ at[1] = 0
        /\ lines \in Seq(Lines) /\ Len(lines) = at[n + 1]
        /\ \A k \in 1..n : at[k + 1] = at[k] + Len(Group(list, places, k))
        /\ \A k \in 1..n : \A j \in 1..Len(Group(list, places, k)) :
              at[k] + j \in 1..Len(lines) /\ lines[at[k] + j] = Group(list, places, k)[j]
        /\ \A m \in 1..Len(lines) : \E k \in 1..n : m \in at[k] + 1..at[k + 1]

\* The forwards of a list are records.
LEMMA ElementsAreRecords ==
  ASSUME NEW list \in Seq(Records)
  PROVE  /\ Len(list) \in Nat /\ DOMAIN list = 1..Len(list)
         /\ \A k \in 1..Len(list) : list[k] \in Records /\ list[k].automatic \in BOOLEAN
                                    /\ k \in Nat \ {0}
<1>1. \A k \in 1..Len(list) : list[k] \in Records
  BY ElementOfSeq
<1>2. \A k \in 1..Len(list) : list[k].automatic \in BOOLEAN
  BY <1>1, RecordsAreNumbers
<1> QED BY <1>1, <1>2, LenProperties

\* The tree has the lines of one forward after those of another.
LEMMA TreeLayout ==
  ASSUME NEW list \in Seq(Records), NEW places
  PROVE  \E at : Laid(list, places, at)
<1> DEFINE n == Len(list)
           s == [k \in 1..n |-> Group(list, places, k)]
           lines == TreeLines(list, places)
<1>1. n \in Nat /\ DOMAIN list = 1..n
  BY ElementsAreRecords
<1>2. \A k \in 1..n : Group(list, places, k) \in Seq(Lines)
  BY ElementsAreRecords, GroupProperties
<1>3. \A k \in 1..n : s[k] = Group(list, places, k)
  OBVIOUS
<1>10. s \in [1..n -> Seq(Lines)]
  BY <1>2
<1>11. n \in Nat
  BY <1>1
<1>4. lines = FlattenSeq(s)
  BY <1>1 DEF TreeLines
<1> HIDE DEF s, lines, n
<1>5. FlattenSeq(s) \in Seq(Lines) /\ \E at \in [1..n + 1 -> Nat] : Joins(FlattenSeq(s), s, n, at)
  BY <1>10, <1>11, FlattenLayout
<1>12. PICK at \in [1..n + 1 -> Nat] : Joins(FlattenSeq(s), s, n, at)
  BY <1>5
<1>6. at[1] = 0 /\ lines \in Seq(Lines) /\ Len(lines) = at[n + 1]
  BY <1>4, <1>5, <1>12 DEF Joins
<1>7. \A k \in 1..n : at[k + 1] = at[k] + Len(Group(list, places, k))
  BY <1>3, <1>5, <1>12 DEF Joins
<1>8. \A k \in 1..n : \A j \in 1..Len(Group(list, places, k)) :
         at[k] + j \in 1..Len(lines) /\ lines[at[k] + j] = Group(list, places, k)[j]
  BY <1>3, <1>4, <1>5, <1>12 DEF Joins
<1>9. \A m \in 1..Len(lines) : \E k \in 1..n : m \in at[k] + 1..at[k + 1]
  BY <1>4, <1>5, <1>12 DEF Joins
<1> QED BY <1>12, <1>6, <1>7, <1>8, <1>9 DEF Laid, n, lines

\* Every line belongs to the group of one forward, and stands where it does there.
LEMMA LineOfTree ==
  ASSUME NEW list \in Seq(Records), NEW places, NEW at, Laid(list, places, at),
         NEW m \in 1..Len(TreeLines(list, places))
  PROVE  \E k \in 1..Len(list) :
            /\ m - at[k] \in 1..Len(Group(list, places, k))
            /\ TreeLines(list, places)[m] = Group(list, places, k)[m - at[k]]
<1> DEFINE n == Len(list)
           lines == TreeLines(list, places)
<1>0. n \in Nat
  BY ElementsAreRecords
<1>1. PICK k \in 1..n : m \in at[k] + 1..at[k + 1]
  BY DEF Laid
<1> DEFINE b == Len(Group(list, places, k))
           a == at[k]
           j == m - a
<1>2. a \in Nat /\ at[k + 1] = a + b
  <2>1. at \in [1..n + 1 -> Nat] /\ k \in 1..n + 1
    BY <1>0 DEF Laid
  <2>2. at[k + 1] = at[k] + Len(Group(list, places, k))
    BY DEF Laid
  <2> QED BY <2>1, <2>2
<1>3. b \in Nat
  BY ElementsAreRecords, GroupProperties
<1>4. \A i \in 1..b : lines[a + i] = Group(list, places, k)[i]
  BY DEF Laid
<1>5. m \in a + 1..a + b
  BY <1>1, <1>2
<1> HIDE DEF a, b, lines
<1>6. j \in 1..b /\ a + j = m
  BY <1>2, <1>3, <1>5
<1> HIDE DEF j
<1>7. lines[m] = Group(list, places, k)[j]
  BY <1>4, <1>6
<1> QED BY <1>6, <1>7 DEF a, b, j, lines

\* The groups do not overlap.
LEMMA GroupsAreApart ==
  ASSUME NEW list \in Seq(Records), NEW places, NEW at, Laid(list, places, at)
  PROVE  \A j, k \in 1..Len(list) : j < k =>
            at[j] + Len(Group(list, places, j)) <= at[k]
<1> DEFINE n == Len(list)
<1>0. n \in Nat
  BY ElementsAreRecords
<1>1. \A k \in 1..n : Len(Group(list, places, k)) \in Nat /\ Len(Group(list, places, k)) > 0
  <2> SUFFICES ASSUME NEW k \in 1..n
      PROVE  Len(Group(list, places, k)) \in Nat /\ Len(Group(list, places, k)) > 0
    OBVIOUS
  <2>1. Len(Headings(list, places, k)) \in Nat
        /\ Len(Group(list, places, k)) = Len(Headings(list, places, k)) + 2
    BY ElementsAreRecords, GroupProperties
  <2> QED BY <2>1
<1>2. /\ at \in [1..n + 1 -> Nat]
      /\ \A k \in 1..n : at[k + 1] = at[k] + Len(Group(list, places, k))
  BY DEF Laid
<1>3. \A k \in 1..n : at[k] < at[k + 1]
  BY <1>0, <1>1, <1>2
<1>4. \A k \in 1..n : \A j \in 1..n : j < k => at[j] < at[k]
  BY <1>0, <1>2, <1>3, LaterPartsBeginLater
<1> SUFFICES ASSUME NEW j \in 1..n, NEW k \in 1..n, j < k
    PROVE  at[j] + Len(Group(list, places, j)) <= at[k]
  OBVIOUS
<1> DEFINE l == j + 1
<1>5. l \in 1..n /\ (l < k \/ l = k)
  BY <1>0
<1>6. at[l] = at[j] + Len(Group(list, places, j))
  BY <1>2
<1> HIDE DEF l
<1>7. at[l] \in Nat /\ at[k] \in Nat
  <2>1. l \in 1..n + 1 /\ k \in 1..n + 1
    BY <1>0, <1>5
  <2> QED BY <1>2, <2>1
<1>8. at[l] <= at[k]
  BY <1>4, <1>5, <1>7
<1> QED BY <1>6, <1>8

\* Those of one index are two lines below the first p ones.
TakesTwo(lines, i, p) ==
    /\ p + 2 <= Len(lines)
    /\ \A m \in 1..Len(lines) : lines[m].index = i <=> m = p + 1 \/ m = p + 2

\* The two lines of a forward stand together, and no other line is its.
LEMMA ForwardLines ==
  ASSUME NEW list \in Seq(Records), NEW places, NEW i \in 0..Len(list) - 1
  PROVE  \E p \in Nat : TakesTwo(TreeLines(list, places), i, p)
<1> DEFINE n == Len(list)
           lines == TreeLines(list, places)
           c == Len(lines)
           k == i + 1
<1>0. n \in Nat /\ k \in 1..n /\ k \in Nat \ {0} /\ k - 1 = i
  BY ElementsAreRecords
<1>1. PICK at : Laid(list, places, at)
  BY TreeLayout
<1>2. c \in Nat
  BY <1>1, LenProperties DEF Laid
<1> HIDE DEF k, lines, c
<1> DEFINE b == Len(Headings(list, places, k))
           a == at[k]
           p == a + b
           g == Group(list, places, k)
<1>3. a \in Nat
  <2>1. at \in [1..n + 1 -> Nat] /\ k \in 1..n + 1
    BY <1>0, <1>1 DEF Laid
  <2> QED BY <2>1
<1>4. /\ b \in Nat /\ Len(g) = b + 2 
      /\ g[b + 1] = Line("forward", i) /\ g[b + 2] = Line("forward", i)
      /\ \A j \in 1..b : g[j].index = -1
  BY <1>0, ElementsAreRecords, GroupProperties
<1>5. \A j \in 1..Len(g) : a + j \in 1..c /\ lines[a + j] = g[j]
  BY <1>0, <1>1 DEF Laid, lines, c
<1>6. \A j \in 1..n : \A x \in 1..Len(Group(list, places, j)) :
         Group(list, places, j)[x].index \in {-1, j - 1}
  <2> SUFFICES ASSUME NEW j \in 1..n, NEW x \in 1..Len(Group(list, places, j))
      PROVE  Group(list, places, j)[x].index \in {-1, j - 1}
    OBVIOUS
  <2> DEFINE h == Len(Headings(list, places, j))
             q == Group(list, places, j)
  <2>1. /\ h \in Nat /\ Len(q) = h + 2
        /\ q[h + 1] = Line("forward", j - 1) /\ q[h + 2] = Line("forward", j - 1)
        /\ \A y \in 1..h : q[y].index = -1
    BY ElementsAreRecords, GroupProperties
  <2>2. Line("forward", j - 1).index = j - 1
    BY DEF Line
  <2> HIDE DEF h, q
  <2>3. x \in 1..h + 2
    BY <2>1 DEF q
  <2>4. x \in 1..h \/ x = h + 1 \/ x = h + 2
    BY <2>1, <2>3
  <2>5. q[x].index = -1 \/ q[x].index = j - 1
    BY <2>1, <2>2, <2>4
  <2> QED BY <2>5 DEF q
<1> HIDE DEF a, b, g
<1>7. Line("forward", i).index = i
  BY DEF Line
<1>8. /\ p \in Nat /\ p + 2 <= c /\ p + 1 \in 1..c /\ p + 2 \in 1..c
      /\ lines[p + 1].index = i /\ lines[p + 2].index = i
  <2>1. b + 1 \in 1..Len(g) /\ b + 2 \in 1..Len(g)
    BY <1>4
  <2>2. /\ a + (b + 1) \in 1..c /\ lines[a + (b + 1)] = g[b + 1]
        /\ a + (b + 2) \in 1..c /\ lines[a + (b + 2)] = g[b + 2]
    BY <1>5, <2>1
  <2>3. a + (b + 1) = p + 1 /\ a + (b + 2) = p + 2 /\ p \in Nat
    BY <1>3, <1>4
  <2>4. p + 2 <= c
    BY <1>2, <2>2, <2>3
  <2> QED BY <1>4, <1>7, <2>2, <2>3, <2>4
<1>9. ASSUME NEW m \in 1..c, lines[m].index = i PROVE m = p + 1 \/ m = p + 2
  <2>1. PICK j \in 1..n : /\ m - at[j] \in 1..Len(Group(list, places, j))
                          /\ lines[m] = Group(list, places, j)[m - at[j]]
    BY <1>1, LineOfTree DEF lines, c
  <2>2. lines[m].index \in {-1, j - 1}
    BY <1>6, <2>1
  <2>3. j = k
    BY <1>0, <1>9, <2>2
  <2> DEFINE x == m - a
  <2>4. x \in 1..b + 2 /\ lines[m] = g[x] /\ m = a + x
    BY <1>3, <1>4, <2>1, <2>3 DEF a, g
  <2> HIDE DEF x
  <2>5. x \notin 1..b
    BY <1>4, <1>9, <2>4
  <2>6. x = b + 1 \/ x = b + 2
    BY <1>4, <2>4, <2>5
  <2> QED BY <1>3, <1>4, <2>4, <2>6
<1> HIDE DEF p
<1>10. p \in Nat /\ p + 2 <= c
  BY <1>8
<1>11. \A m \in 1..c : lines[m].index = i <=> m = p + 1 \/ m = p + 2
  BY <1>8, <1>9
<1>12. TakesTwo(lines, i, p)
  BY <1>10, <1>11 DEF TakesTwo, c
<1> QED BY <1>10, <1>12 DEF lines

\* Every line is a heading or one of a forward.
LEMMA LinesAreOfForwards ==
  ASSUME NEW list \in Seq(Records), NEW places
  PROVE  /\ TreeLines(list, places) \in Seq(Lines)
         /\ Len(TreeLines(list, places)) \in Nat
         /\ DOMAIN TreeLines(list, places) = 1..Len(TreeLines(list, places))
         /\ list = <<>> => Len(TreeLines(list, places)) = 0
         /\ \A m \in 1..Len(TreeLines(list, places)) :
               TreeLines(list, places)[m].index \in -1..Len(list) - 1
<1> DEFINE n == Len(list)
           lines == TreeLines(list, places)
<1>0. n \in Nat
  BY ElementsAreRecords
<1>1. PICK at : Laid(list, places, at)
  BY TreeLayout
<1>2. lines \in Seq(Lines) /\ Len(lines) \in Nat /\ DOMAIN lines = 1..Len(lines)
  BY <1>1, LenProperties DEF Laid
<1>3. list = <<>> => Len(lines) = 0
  <2> SUFFICES ASSUME list = <<>> PROVE Len(lines) = 0
    OBVIOUS
  <2>1. n = 0
    BY EmptySeq
  <2> QED BY <1>1, <2>1 DEF Laid
<1>4. ASSUME NEW m \in 1..Len(lines) PROVE lines[m].index \in -1..n - 1
  <2>1. PICK j \in 1..n : /\ m - at[j] \in 1..Len(Group(list, places, j))
                          /\ lines[m] = Group(list, places, j)[m - at[j]]
    BY <1>1, LineOfTree
  <2> DEFINE h == Len(Headings(list, places, j))
             q == Group(list, places, j)
             x == m - at[j]
  <2>2. /\ h \in Nat /\ Len(q) = h + 2
        /\ q[h + 1] = Line("forward", j - 1) /\ q[h + 2] = Line("forward", j - 1)
        /\ \A y \in 1..h : q[y].index = -1
    BY ElementsAreRecords, GroupProperties
  <2>3. Line("forward", j - 1).index = j - 1
    BY DEF Line
  <2>4. lines[m] = q[x] /\ x \in 1..Len(q)
    BY <2>1
  <2> HIDE DEF h, q, x, lines
  <2>5. x \in 1..h \/ x = h + 1 \/ x = h + 2
    BY <2>2, <2>4
  <2>6. lines[m].index = -1 \/ lines[m].index = j - 1
    BY <2>2, <2>3, <2>4, <2>5
  <2> QED BY <1>0, <2>6
<1> QED BY <1>2, <1>3, <1>4

-----------------------------------------------------------------------------
(* The window, and what is clicked in it.                                  *)

\* FirstLineOf: the number of lines above the first one of a forward.
LEMMA FirstLineIsTheFirst ==
  ASSUME NEW lines \in Seq(Lines), NEW i, NEW p \in Nat, p + 2 <= Len(lines),
         \A m \in 1..Len(lines) : lines[m].index = i <=> m = p + 1 \/ m = p + 2
  PROVE  FirstLineOf(lines, i) = p
<1> DEFINE at == {n \in DOMAIN lines : lines[n].index = i}
           c == Len(lines)
           first == CHOOSE n \in at : \A m \in at : n <= m
<1>1. c \in Nat /\ DOMAIN lines = 1..c
  BY LenProperties
<1>2. at = {p + 1, p + 2}
  <2>1. p + 1 \in 1..c /\ p + 2 \in 1..c
    BY <1>1
  <2> QED BY <1>1, <2>1
<1> HIDE DEF at
<1>3. \E n \in at : \A m \in at : n <= m
  BY <1>2
<1>4. first \in at /\ \A m \in at : first <= m
  BY <1>3
<1>5. FirstLineOf(lines, i) = IF at = {} THEN 0 ELSE first - 1
  BY DEF FirstLineOf, at
<1> HIDE DEF first
<1>6. first = p + 1
  BY <1>2, <1>4
<1> QED BY <1>2, <1>5, <1>6

\* It is a number whatever is looked for.
LEMMA FirstLineIsANumber ==
  ASSUME NEW lines \in Seq(Lines), NEW i
  PROVE  FirstLineOf(lines, i) \in Nat
<1> DEFINE at == {n \in DOMAIN lines : lines[n].index = i}
           c == Len(lines)
           first == CHOOSE n \in at : \A m \in at : n <= m
<1>1. c \in Nat /\ DOMAIN lines = 1..c
  BY LenProperties
<1>2. at \in SUBSET (1..c)
  BY <1>1
<1>3. FirstLineOf(lines, i) = IF at = {} THEN 0 ELSE first - 1
  BY DEF FirstLineOf
<1> HIDE DEF at
<1>4. CASE at # {}
  <2>1. \E n \in at : \A m \in at : n <= m
    BY <1>1, <1>2, <1>4, LeastElement
  <2>2. first \in at
    BY <2>1
  <2> HIDE DEF first
  <2> QED BY <1>1, <1>2, <1>3, <1>4, <2>2
<1> QED BY <1>3, <1>4

\* The window that is drawn lies inside the tree.
LEMMA WindowIsInside ==
  ASSUME NEW count \in Nat, NEW line \in Nat, NEW height \in Nat
  PROVE  LET room  == Monus(height, 5)
             fits  == Least(room, count)
             start == WindowStart(count, line, room)
         IN  /\ room \in Nat /\ fits \in Nat /\ start \in Nat
             /\ start + fits <= count /\ fits <= room /\ fits <= count
BY DEF Monus, Least, WindowStart

\* It ends with the second line of the selection, or later.
LEMMA WindowHoldsSelection ==
  ASSUME NEW count \in Nat, NEW line \in Nat, NEW height \in Nat, line + 2 <= count
  PROVE  LET room  == Monus(height, 5)
             fits  == Least(room, count)
             start == WindowStart(count, line, room)
         IN  /\ Least(2, room) = Least(2, fits)
             /\ line + 2 <= start + fits
             /\ fits >= 2 => start <= line
             /\ fits = 1 => start = line + 1
BY DEF Monus, Least, WindowStart

\* Screen: the rows from the third on show the lines of the window.
LEMMA ScreenShowsWindow ==
  ASSUME NEW list \in Seq(Records), NEW places, NEW i \in Nat, NEW height \in Nat
  PROVE  LET lines == TreeLines(list, places)
             room  == Monus(height, 5)
             fits  == Least(room, Len(lines))
             start == WindowStart(Len(lines), FirstLineOf(lines, i), room)
         IN  /\ DOMAIN Screen(list, places, i, height) = 3..fits + 2
             /\ \A row \in 3..fits + 2 :
                   Screen(list, places, i, height)[row] = lines[start + row - 2]
<1> DEFINE lines == TreeLines(list, places)
           c     == Len(lines)
           line  == FirstLineOf(lines, i)
           room  == Monus(height, 5)
           fits  == Least(room, c)
           start == WindowStart(c, line, room)
           drawn == {n \in 1..fits : start + n <= c}
           rows  == {TreeRow + n - 1 : n \in drawn}
           screen == Screen(list, places, i, height)
<1>1. c \in Nat /\ lines \in Seq(Lines)
  BY LinesAreOfForwards
<1>2. line \in Nat
  BY <1>1, FirstLineIsANumber
<1>3. fits \in Nat /\ start \in Nat /\ start + fits <= c
  BY <1>1, <1>2, WindowIsInside
<1>4. screen = [row \in rows |-> lines[start + (row - TreeRow) + 1]]
  BY DEF Screen
<1> HIDE DEF lines, line, c, room, fits, start, screen
<1>5. drawn = 1..fits
  BY <1>1, <1>3
<1> HIDE DEF drawn
<1>6. rows = 3..fits + 2
  <2>1. \A n \in 1..fits : 3 + n - 1 \in 3..fits + 2
    BY <1>3
  <2>2. \A r \in 3..fits + 2 : r - 2 \in 1..fits /\ r = 3 + (r - 2) - 1
    BY <1>3
  <2>3. rows = {3 + n - 1 : n \in 1..fits}
    BY <1>5 DEF TreeRow
  <2> HIDE DEF rows
  <2>4. ASSUME NEW r \in 3..fits + 2 PROVE r \in rows
    <3>1. \E n \in 1..fits : r = 3 + n - 1
      BY <2>2
    <3> QED BY <2>3, <3>1
  <2> QED BY <2>1, <2>3, <2>4
<1> HIDE DEF rows
<1>7. \A row \in 3..fits + 2 : start + (row - TreeRow) + 1 = start + row - 2
  BY <1>3 DEF TreeRow
<1>8. DOMAIN screen = 3..fits + 2 /\ \A row \in 3..fits + 2 : screen[row] = lines[start + row - 2]
  BY <1>4, <1>6, <1>7
<1> QED BY <1>8 DEF lines, line, c, room, fits, start, screen

\* ForwardIndexAt: the forward of the line that is drawn at the row.
LEMMA ForwardIndexIsOfWindow ==
  ASSUME NEW list \in Seq(Records), NEW places, NEW i \in Nat, NEW height \in Nat, NEW row \in Nat
  PROVE  LET lines == TreeLines(list, places)
             room  == Monus(height, 5)
             fits  == Least(room, Len(lines))
             start == WindowStart(Len(lines), FirstLineOf(lines, i), room)
         IN  ForwardIndexAt(row, height, i, list, places)
               = IF row \in 3..fits + 2 THEN lines[start + row - 2].index ELSE -1
<1> DEFINE lines == TreeLines(list, places)
           c     == Len(lines)
           line  == FirstLineOf(lines, i)
           room  == Monus(height, 5)
           fits  == Least(room, c)
           start == WindowStart(c, line, room)
           n     == start + (row - TreeRow)
           out   == \/ row < TreeRow \/ row >= Monus(height, 2) \/ list = <<>> \/ room = 0
                    \/ n >= start + fits
           found == ForwardIndexAt(row, height, i, list, places)
<1>1. c \in Nat /\ lines \in Seq(Lines) /\ (list = <<>> => c = 0)
  BY LinesAreOfForwards
<1>2. line \in Nat
  BY <1>1, FirstLineIsANumber
<1>3. room \in Nat /\ fits \in Nat /\ start \in Nat /\ fits <= room /\ fits <= c
  BY <1>1, <1>2, WindowIsInside
<1>4. found = IF out THEN -1 ELSE lines[n + 1].index
  BY DEF ForwardIndexAt
<1>5. room > 0 => room = height - 5 /\ height > 5 /\ Monus(height, 2) = height - 2
  BY DEF Monus
<1> HIDE DEF lines, line, c, room, fits, start, found
<1>6. n + 1 = start + row - 2
  BY <1>3 DEF TreeRow
<1>7. out <=> row \notin 3..fits + 2
  <2>1. CASE row \in 3..fits + 2
    <3>1. fits > 0 /\ room > 0 /\ list # <<>>
      BY <1>1, <1>3, <2>1
    <3>2. row < Monus(height, 2)
      BY <1>3, <1>5, <2>1, <3>1
    <3> QED BY <1>3, <1>5, <2>1, <3>1, <3>2 DEF TreeRow
  <2>2. CASE row \notin 3..fits + 2
    BY <1>3, <2>2 DEF TreeRow
  <2> QED BY <2>1, <2>2
<1> HIDE DEF n, out
<1>8. found = IF row \in 3..fits + 2 THEN lines[start + row - 2].index ELSE -1
  BY <1>4, <1>6, <1>7
<1> QED BY <1>8 DEF lines, line, c, room, fits, start, found

\* A click finds a forward of the list, or none.
LEMMA ClickFindsAForward ==
  ASSUME NEW list \in Seq(Records), NEW places, NEW i \in Nat, NEW height \in Nat, NEW row \in Nat
  PROVE  ForwardIndexAt(row, height, i, list, places) \in -1..Len(list) - 1
<1> DEFINE lines == TreeLines(list, places)
           c     == Len(lines)
           line  == FirstLineOf(lines, i)
           room  == Monus(height, 5)
           fits  == Least(room, c)
           start == WindowStart(c, line, room)
<1>1. c \in Nat /\ lines \in Seq(Lines) /\ \A m \in 1..c : lines[m].index \in -1..Len(list) - 1
  BY LinesAreOfForwards
<1>2. line \in Nat
  BY <1>1, FirstLineIsANumber
<1>3. fits \in Nat /\ start \in Nat /\ start + fits <= c
  BY <1>1, <1>2, WindowIsInside
<1>4. ForwardIndexAt(row, height, i, list, places)
        = IF row \in 3..fits + 2 THEN lines[start + row - 2].index ELSE -1
  BY ForwardIndexIsOfWindow
<1>5. Len(list) \in Nat
  BY ElementsAreRecords
<1> HIDE DEF lines, line, c, room, fits, start
<1>6. row \in 3..fits + 2 => start + row - 2 \in 1..c
  BY <1>1, <1>3
<1> QED BY <1>1, <1>4, <1>5, <1>6

\* How many there are of two things, of one and of none.
LEMMA SmallSets ==
  /\ Cardinality({}) = 0
  /\ \A a : Cardinality({a}) = 1
  /\ \A a, b : a # b => Cardinality({a, b}) = 2
<1>1. Cardinality({}) = 0
  BY FS_EmptySet
<1>2. ASSUME NEW a PROVE Cardinality({a}) = 1
  BY FS_Singleton
<1>3. ASSUME NEW a, NEW b, a # b PROVE Cardinality({a, b}) = 2
  <2>1. IsFiniteSet({a}) /\ Cardinality({a}) = 1
    BY FS_Singleton
  <2>2. Cardinality({a} \cup {b}) = 2
    BY <1>3, <2>1, FS_AddElement
  <2>3. {a} \cup {b} = {a, b}
    OBVIOUS
  <2> QED BY <2>2, <2>3
<1> QED BY <1>1, <1>2, <1>3

\* The rows that show a forward of the list: two where there is room.
LEMMA SelectionIsShown ==
  ASSUME NEW list \in Seq(Records), NEW places, NEW i \in 0..Len(list) - 1, NEW height \in Nat
  PROVE  LET screen == Screen(list, places, i, height)
         IN  Cardinality({r \in DOMAIN screen : screen[r].index = i}) = Least(2, Monus(height, 5))
<1> DEFINE lines == TreeLines(list, places)
           c     == Len(lines)
           line  == FirstLineOf(lines, i)
           room  == Monus(height, 5)
           fits  == Least(room, c)
           start == WindowStart(c, line, room)
           screen == Screen(list, places, i, height)
           rows  == {r \in DOMAIN screen : screen[r].index = i}
<1>0. i \in Nat
  BY ElementsAreRecords
<1>1. c \in Nat /\ lines \in Seq(Lines)
  BY LinesAreOfForwards
<1>10. PICK p \in Nat : TakesTwo(lines, i, p)
  BY ForwardLines
<1>2. p + 2 <= c /\ \A m \in 1..c : lines[m].index = i <=> m = p + 1 \/ m = p + 2
  BY <1>10 DEF TakesTwo
<1>3. line = p
  BY <1>1, <1>2, FirstLineIsTheFirst
<1>4. room \in Nat /\ fits \in Nat /\ start \in Nat /\ start + fits <= c
  BY <1>1, <1>2, <1>3, WindowIsInside
<1>5. /\ Least(2, room) = Least(2, fits) /\ p + 2 <= start + fits
      /\ fits >= 2 => start <= p
      /\ fits = 1 => start = p + 1
  BY <1>1, <1>2, <1>3, WindowHoldsSelection
<1>6. DOMAIN screen = 3..fits + 2 /\ \A r \in 3..fits + 2 : screen[r] = lines[start + r - 2]
  BY <1>0, ScreenShowsWindow
<1> HIDE DEF lines, line, c, room, fits, start, screen
<1>7. rows = {r \in 3..fits + 2 : start + r - 2 = p + 1 \/ start + r - 2 = p + 2}
  <2>1. \A r \in 3..fits + 2 : start + r - 2 \in 1..c
    BY <1>1, <1>4
  <2> QED BY <1>2, <1>6, <2>1
<1> HIDE DEF rows
<1>8. Cardinality(rows) = Least(2, fits)
  <2>1. CASE fits = 0
    <3>1. rows = {}
      BY <1>7, <2>1
    <3>2. Cardinality(rows) = 0
      BY <3>1, SmallSets
    <3> QED BY <2>1, <3>2 DEF Least
  <2>2. CASE fits = 1
    <3>1. rows = {3}
      BY <1>4, <1>5, <1>7, <2>2
    <3>2. Cardinality(rows) = 1
      BY <3>1, SmallSets, Zenon
    <3> QED BY <2>2, <3>2 DEF Least
  <2>3. CASE fits >= 2
    <3> DEFINE r == p + 3 - start
    <3>1. r \in Int /\ r >= 3 /\ r + 1 <= fits + 2
      BY <1>4, <1>5, <2>3
    <3>2. rows = {r, r + 1}
      BY <1>4, <1>7, <3>1
    <3> HIDE DEF r
    <3>3. r # r + 1
      BY <3>1
    <3>4. Least(2, fits) = 2
      BY <1>4, <2>3 DEF Least
    <3> QED BY <3>2, <3>3, <3>4, SmallSets
  <2> QED BY <1>4, <2>1, <2>2, <2>3
<1>9. Cardinality(rows) = Least(2, room)
  BY <1>5, <1>8
<1> QED BY <1>9 DEF rows, room, screen

\* A click agrees with the screen.
LEMMA ClickAgreesWithScreen ==
  ASSUME NEW list \in Seq(Records), NEW places, NEW i \in Nat, NEW height \in Nat, NEW row \in Nat
  PROVE  LET screen == Screen(list, places, i, height)
         IN  ForwardIndexAt(row, height, i, list, places)
               = IF row \in DOMAIN screen THEN screen[row].index ELSE -1
<1> DEFINE lines == TreeLines(list, places)
           room  == Monus(height, 5)
           fits  == Least(room, Len(lines))
           start == WindowStart(Len(lines), FirstLineOf(lines, i), room)
           screen == Screen(list, places, i, height)
<1>1. DOMAIN screen = 3..fits + 2 /\ \A r \in 3..fits + 2 : screen[r] = lines[start + r - 2]
  BY ScreenShowsWindow
<1>2. ForwardIndexAt(row, height, i, list, places)
        = IF row \in 3..fits + 2 THEN lines[start + row - 2].index ELSE -1
  BY ForwardIndexIsOfWindow
<1> HIDE DEF lines, room, fits, start
<1> QED BY <1>1, <1>2

-----------------------------------------------------------------------------
(* The rest of the invariant.                                              *)

\* What moves the selection, and what brings the loop to where the screen is drawn.
LEMMA LoopFrame == DashboardNext =>
    \/ UNCHANGED <<pc, selected, shown>>
    \/ /\ selected' = selected
       /\ pc' \in {"listing", "locating", "top", "reading", "asking", "closed"}
    \/ Draw \/ Refresh \/ RefreshBlind \/ Move
    \/ \E height \in Heights : \E row \in 0..height : Click(row, height)
<1> DEFINE Quiet ==
      \/ UNCHANGED <<pc, selected, shown>>
      \/ /\ selected' = selected
         /\ pc' \in {"listing", "locating", "top", "reading", "asking", "closed"}
<1> SUFFICES ASSUME DashboardNext, ~Draw, ~Refresh, ~RefreshBlind, ~Move,
                    ~\E height \in Heights : \E row \in 0..height : Click(row, height)
    PROVE  Quiet
  OBVIOUS
<1>1. CASE Loop
  BY <1>1 DEF Loop, Start, Leave, ReadSession, List, ListFails, AnswerIsLate, Step, AfterInput
<1>2. CASE NotYetDue \/ RefreshIsDue
  BY <1>2 DEF NotYetDue, RefreshIsDue, Idle, Step
<1>3. CASE User
  BY <1>3 DEF User, Report, Escape, ClosePopup, OpenForm, AskRemoval, CancelForm, TypeInForm,
    Toggle, ConfirmRemoval, Retarget, Create, Input, Send, Step, AfterInput
<1>4. CASE Others
  BY <1>4 DEF Others, OthersChange, PanesMove, LoseLink, Recover, EndSession, Elsewhere
<1>5. CASE \E n \in DOMAIN asked : Handle(n)
  BY <1>5 DEF Handle, AfterInput
<1> QED BY <1>1, <1>2, <1>3, <1>4, <1>5 DEF DashboardNext

\* The selection stays a position, and is one of the list whenever that is drawn.
LEMMA LoopStep == DashboardInv /\ DashboardNext => LoopInv'
<1> SUFFICES ASSUME DashboardInv, DashboardNext PROVE LoopInv'
  OBVIOUS
<1>0. LoopInv /\ ListsInv /\ WorldInv
  BY DEF DashboardInv
<1> DEFINE n == Len(shown)
<1>a. n \in Nat /\ n <= MaxId /\ MaxId \in Nat /\ selected \in 0..MaxId
  BY <1>0, LenProperties, Bounds DEF ListsInv, LoopInv
<1>1. CASE UNCHANGED <<pc, selected, shown>>
  BY <1>0, <1>1 DEF LoopInv
<1>2. CASE /\ selected' = selected
           /\ pc' \in {"listing", "locating", "top", "reading", "asking", "closed"}
  BY <1>0, <1>2 DEF LoopInv
<1>3. CASE Draw
  <2>1. pc' = "drawn" /\ shown' = shown /\ selected' = Least(selected, Monus(n, 1))
    BY <1>3 DEF Draw, Step, Select
  <2>2. Monus(n, 1)' = Monus(n, 1)
    BY <2>1
  <2> HIDE DEF n
  <2>3. selected' \in 0..MaxId /\ selected' <= Monus(n, 1)
    BY <1>a, <2>1 DEF Least, Monus
  <2> QED BY <2>1, <2>2, <2>3 DEF LoopInv, n
<1>4. ASSUME NEW places \in Places \cup {<<>>}, Refreshed(places) PROVE LoopInv'
  <2>1. selected' \in 0..MaxId /\ pc' = "top"
    BY <1>0, <1>4, RefreshedIsSound
  <2> QED BY <2>1 DEF LoopInv
<1>5. CASE Refresh
  BY <1>0, <1>4, <1>5 DEF Refresh, WorldInv
<1>6. CASE RefreshBlind
  BY <1>4, <1>6 DEF RefreshBlind
<1>7. CASE Move
  <2>1. PICK index \in {Monus(selected, 1), 0, Monus(n, 1)}
                         \cup (IF selected + 1 < n THEN {selected + 1} ELSE {}) : Select(index)
    BY <1>7 DEF Move
  <2>2. pc' = "reading" /\ selected' = index
    BY <1>7, <2>1 DEF Move, Input, Step, AfterInput, Select
  <2> HIDE DEF n
  <2>3. index \in 0..MaxId
    BY <1>a, <2>1 DEF Monus
  <2> QED BY <2>2, <2>3 DEF LoopInv
<1>8. CASE \E height \in Heights : \E row \in 0..height : Click(row, height)
  <2>0. PICK height \in Heights : \E row \in 0..height : Click(row, height)
    BY <1>8
  <2>1. PICK row \in 0..height : Click(row, height)
    BY <2>0
  <2>2. height \in Nat /\ row \in Nat /\ selected \in Nat
    BY <1>a, DashboardAssumption
  <2> DEFINE index == ForwardIndexAt(row, height, selected, shown, locations)
  <2>3. index \in -1..n - 1
    BY <1>0, <2>2, ClickFindsAForward DEF ListsInv
  <2>4. pc' = "reading" /\ (IF index # -1 THEN Select(index) ELSE selected' = selected)
    BY <2>1 DEF Click, Input, Step, AfterInput
  <2>5. selected' = index \/ selected' = selected
    BY <2>4 DEF Select
  <2> HIDE DEF n, index
  <2>6. selected' \in 0..MaxId
    <3>1. CASE index # -1
      <4>1. selected' = index
        BY <2>4, <3>1 DEF Select
      <4> QED BY <1>a, <2>3, <3>1, <4>1
    <3>2. CASE index = -1
      BY <1>a, <2>4, <3>2
    <3> QED BY <3>1, <3>2
  <2> QED BY <2>4, <2>6 DEF LoopInv
<1> QED BY <1>1, <1>2, <1>3, <1>5, <1>6, <1>7, <1>8, LoopFrame

\* What touches the notice, and where.
LEMMA MarksFrame == DashboardNext =>
    \/ /\ UNCHANGED <<message, unavailable, failed>>
       /\ pc' \in {"top", "drawn"} => pc \in {"top", "drawn"}
    \/ /\ pc' \in {"reading", "asking"} /\ failed' = failed
       /\ \/ message' = "other" /\ unavailable' \in {FALSE, unavailable}
          \/ message' = message /\ unavailable' = unavailable
    \/ pc' = "top" /\ ShowUnavailable /\ failed' = TRUE
    \/ Draw \/ Refresh \/ RefreshBlind
<1> DEFINE Quiet ==
      \/ /\ UNCHANGED <<message, unavailable, failed>>
         /\ pc' \in {"top", "drawn"} => pc \in {"top", "drawn"}
      \/ /\ pc' \in {"reading", "asking"} /\ failed' = failed
         /\ \/ message' = "other" /\ unavailable' \in {FALSE, unavailable}
            \/ message' = message /\ unavailable' = unavailable
      \/ pc' = "top" /\ ShowUnavailable /\ failed' = TRUE
<1> SUFFICES ASSUME DashboardNext, ~Draw, ~Refresh, ~RefreshBlind PROVE Quiet
  OBVIOUS
<1>1. CASE Loop
  BY <1>1 DEF Loop, Start, Leave, ReadSession, List, ListFails, AnswerIsLate, Step, AfterInput,
    ShowMessage
<1>2. CASE NotYetDue \/ RefreshIsDue
  BY <1>2 DEF NotYetDue, RefreshIsDue, Idle, Step
<1>3. CASE User
  <2>1. CASE Move \/ \E height \in Heights : \E row \in 0..height : Click(row, height)
    BY <2>1 DEF Move, Click, Input, Step, AfterInput, Select
  <2>2. CASE Report \/ Escape \/ ClosePopup \/ OpenForm \/ AskRemoval \/ CancelForm \/ TypeInForm
    BY <2>2 DEF Report, Escape, ClosePopup, OpenForm, AskRemoval, CancelForm, TypeInForm, Input,
      Step, AfterInput, ShowMessage
  <2>3. CASE Toggle \/ ConfirmRemoval \/ Retarget \/ Create
    BY <2>3 DEF Toggle, ConfirmRemoval, Retarget, Create, Send, AfterInput, ShowMessage
  <2> QED BY <1>3, <2>1, <2>2, <2>3 DEF User
<1>4. CASE Others
  BY <1>4 DEF Others, OthersChange, PanesMove, LoseLink, Recover, EndSession, Elsewhere
<1>5. CASE \E n \in DOMAIN asked : Handle(n)
  BY <1>5 DEF Handle, AfterInput, ShowMessage
<1> QED BY <1>1, <1>2, <1>3, <1>4, <1>5 DEF DashboardNext

\* The notice comes with the failure, and no key takes it away before a refresh succeeds.
LEMMA MarksStep == DashboardInv /\ DashboardNext => MarksInv'
<1> SUFFICES ASSUME DashboardInv, DashboardNext PROVE MarksInv'
  OBVIOUS
<1>0. MarksInv
  BY DEF DashboardInv
<1>1. CASE /\ UNCHANGED <<message, unavailable, failed>>
           /\ pc' \in {"top", "drawn"} => pc \in {"top", "drawn"}
  BY <1>0, <1>1 DEF MarksInv
<1>2. CASE /\ pc' \in {"reading", "asking"} /\ failed' = failed
           /\ \/ message' = "other" /\ unavailable' \in {FALSE, unavailable}
              \/ message' = message /\ unavailable' = unavailable
  <2>1. pc' \notin {"top", "drawn"}
    BY <1>2
  <2>2. message' \in {"other", "unavailable"} /\ (message' = "unavailable" => unavailable')
    <3>1. CASE message' = "other"
      BY <3>1
    <3>2. CASE message' = message /\ unavailable' = unavailable
      BY <1>0, <3>2 DEF MarksInv
    <3> QED BY <1>2, <3>1, <3>2
  <2>3. unavailable' \in BOOLEAN /\ failed' \in BOOLEAN
    BY <1>0, <1>2 DEF MarksInv
  <2> QED BY <2>1, <2>2, <2>3 DEF MarksInv
<1>3. CASE pc' = "top" /\ ShowUnavailable /\ failed' = TRUE
  BY <1>3 DEF MarksInv, ShowUnavailable
<1>4. CASE Draw
  BY <1>0, <1>4 DEF MarksInv, Draw, Step, Select
<1>5. CASE Refresh \/ RefreshBlind
  BY <1>0, <1>5 DEF MarksInv, Refresh, RefreshBlind, Refreshed, MarkAvailable
<1> QED BY <1>1, <1>2, <1>3, <1>4, <1>5, MarksFrame

\* The invariant is kept by every step.
LEMMA DashboardNextInv == DashboardInv /\ [DashboardNext]_dashboardVars => DashboardInv'
<1> SUFFICES ASSUME DashboardInv, [DashboardNext]_dashboardVars PROVE DashboardInv'
  OBVIOUS
<1>1. CASE DashboardNext
  BY <1>1, WorldStep, ListsStep, LoopStep, MarksStep, FormStep, AskedStep DEF DashboardInv
<1>2. CASE UNCHANGED dashboardVars
  <2> USE <1>2 DEF dashboardVars
  <2>1. WorldInv => WorldInv'
    BY DEF WorldInv
  <2>2. ListsInv => ListsInv'
    BY DEF ListsInv, InDisplayOrder, InOrder, SpaceOf, TabOf
  <2>3. LoopInv => LoopInv'
    BY DEF LoopInv
  <2>4. MarksInv => MarksInv'
    BY DEF MarksInv
  <2>5. FormInv => FormInv'
    BY DEF FormInv
  <2>6. AskedInv => AskedInv'
    BY DEF AskedInv
  <2> QED BY <2>1, <2>2, <2>3, <2>4, <2>5, <2>6 DEF DashboardInv
<1> QED BY <1>1, <1>2

\* DashboardInv always holds.
THEOREM DashboardAlways == DashboardSpec => []DashboardInv
<1> QED BY DashboardInitInv, DashboardNextInv, PTL DEF DashboardSpec

\* The list on the screen is a list of forwards, the selection is in it, and it is marked
\* exactly while the last attempt to read it failed.
THEOREM DashboardListIsSound == DashboardSpec => []ListIsSound
<1>1. DashboardInv => ListIsSound
  <2> SUFFICES ASSUME DashboardInv PROVE ListIsSound
    OBVIOUS
  <2>0. WorldInv /\ ListsInv /\ LoopInv /\ MarksInv /\ FormInv
    BY DEF DashboardInv
  <2>1. /\ DOMAIN registered \subseteq 1..MaxId
        /\ \A i \in DOMAIN registered : registered[i] \in Records /\ registered[i].id = i
        /\ next \in Ids /\ placed \in Places
    BY <2>0 DEF WorldInv
  <2>2. channel \in 0..MaxFaults + 1 /\ session \in {Gone} \cup 1..MaxFaults + 1
    <3>1. faults \in 0..MaxFaults /\ MaxFaults \in Nat
      BY <2>0, Bounds DEF WorldInv
    <3>2. session = Gone \/ session \in 1..faults + 1
      BY <2>0, <3>1 DEF WorldInv
    <3>3. session \in {Gone} \cup 1..MaxFaults + 1
      BY <3>1, <3>2
    <3>4. channel = 0 \/ channel \in 1..MaxFaults + 1
      BY <2>0, <3>1, <3>3 DEF WorldInv, Gone
    <3> QED BY <3>1, <3>3, <3>4
  <2>3. DashboardTypeOK
    BY <2>0, <2>1, <2>2 DEF DashboardTypeOK, ListsInv, LoopInv, MarksInv, FormInv
  <2>4. StaleIsMarked
    BY <2>0 DEF MarksInv, StaleIsMarked
  <2> QED BY <2>3, <2>4 DEF ListIsSound
<1> QED BY <1>1, DashboardAlways, PTL

-----------------------------------------------------------------------------
(* What the dashboard asks the companion to do.                            *)

\* Two positions whose removal leaves the same sequence hold the same.
LEMMA SameRemoval ==
  ASSUME NEW S, NEW s \in Seq(S), NEW m \in 1..Len(s), NEW n \in 1..Len(s), n < m,
         RemoveAt(s, m) = RemoveAt(s, n)
  PROVE  s[m] = s[n]
<1> DEFINE size == m - n + 1
           T == {i \in 1..size : s[n + i - 1] = s[n]}
<1>0. Len(s) \in Nat /\ m \in Int /\ n \in Int /\ size \in Nat
  BY LenProperties
<1>1. size > 0 => 1 \in T
  BY <1>0
<1>2. ASSUME NEW i \in T, i < size PROVE i + 1 \in T
  <2> DEFINE j == n + i - 1
  <2>1. i \in 1..size /\ s[j] = s[n] /\ i + 1 \in 1..size
    BY <1>0, <1>2
  <2>2. j \in 1..Len(s) - 1 /\ j < m /\ ~(j < n) /\ j + 1 = n + (i + 1) - 1
    BY <1>0, <1>2, <2>1
  <2> HIDE DEF j
  <2>3. RemoveAt(s, m)[j] = s[j] /\ RemoveAt(s, n)[j] = s[j + 1]
    BY <2>2, RemoveAtProperties
  <2>4. s[n + (i + 1) - 1] = s[n]
    BY <2>1, <2>2, <2>3
  <2> QED BY <2>1, <2>4
<1>3. T \in SUBSET (1..size)
  OBVIOUS
<1> HIDE DEF T
<1>4. T = 1..size
  BY <1>0, <1>1, <1>2, <1>3, EveryPosition
<1>5. size \in T /\ n + size - 1 = m
  BY <1>0, <1>4
<1>6. s[n + size - 1] = s[n]
  BY <1>5 DEF T
<1> QED BY <1>5, <1>6

\* Which request an answer was for can be told from what is left.
LEMMA RemovedIsKnown ==
  ASSUME NEW S, NEW s \in Seq(S), NEW m \in 1..Len(s), NEW n \in 1..Len(s),
         RemoveAt(s, m) = RemoveAt(s, n)
  PROVE  s[m] = s[n]
<1>1. m \in Int /\ n \in Int
  OBVIOUS
<1>2. CASE n < m
  BY <1>2, SameRemoval
<1>3. CASE m < n
  BY <1>3, SameRemoval
<1> QED BY <1>1, <1>2, <1>3

\* A removal is sent only for what the user pressed d on.
LEMMA RemovalStep ==
  ASSUME DashboardInv, [DashboardNext]_dashboardVars, NEW n \in DOMAIN asked' \ DOMAIN asked,
         asked'[n].op = "remove"
  PROVE  asked'[n].id = asked'[n].aim.id /\ ~asked'[n].aim.automatic
<1>0. FormInv /\ ListsInv /\ LoopInv /\ asked \in Seq(Asks)
  BY DEF DashboardInv, AskedInv
<1>1. asked' # asked
  OBVIOUS
<1>2. DashboardNext
  BY <1>1 DEF dashboardVars
<1>3. CASE Toggle \/ ConfirmRemoval \/ Retarget \/ Create
  <2>1. PICK r \in Asks : Send(r) /\ (r.op = "remove" => r.id = r.aim.id /\ ~r.aim.automatic)
    BY <1>0, <1>3, SentIsTyped
  <2>2. asked' = Append(asked, r)
    BY <1>1, <2>1 DEF Send
  <2>3. asked'[n] = r
    BY <1>0, <2>2
  <2> QED BY <2>1, <2>3
<1>4. CASE \E i \in DOMAIN asked : Handle(i)
  <2>1. PICK i \in DOMAIN asked : asked' = RemoveAt(asked, i)
    BY <1>4 DEF Handle
  <2>2. i \in 1..Len(asked)
    BY <1>0, <2>1
  <2>3. asked' \in Seq(Asks) /\ Len(asked') = Len(asked) - 1
    BY <1>0, <2>1, <2>2, RemoveAtProperties
  <2>4. DOMAIN asked' = 1..Len(asked') /\ DOMAIN asked = 1..Len(asked) /\ Len(asked) \in Nat
    BY <1>0, <2>3
  <2> QED BY <2>3, <2>4
<1> QED BY <1>1, <1>2, <1>3, <1>4, AskedFrame

\* What the companion does on a toggle.
LEMMA ToggleStep ==
  ASSUME DashboardInv, [DashboardNext]_dashboardVars, NEW n \in DOMAIN asked,
         asked' = RemoveAt(asked, n), asked[n].op = "toggle", registered' # registered
  PROVE  registered'[asked[n].id].enabled # asked[n].aim.enabled
<1> DEFINE r == asked[n]
<1>0. FormInv /\ ListsInv /\ LoopInv /\ asked \in Seq(Asks) /\ WorldInv
  BY DEF DashboardInv, AskedInv
<1>1. n \in 1..Len(asked) /\ Len(asked) \in Nat /\ r \in Asks
  BY <1>0, LenProperties
<1>2. Len(asked') = Len(asked) - 1
  BY <1>0, <1>1, RemoveAtProperties
<1>3. asked' # asked
  BY <1>1, <1>2
<1>4. DashboardNext
  BY <1>3 DEF dashboardVars
<1>5. ~(Toggle \/ ConfirmRemoval \/ Retarget \/ Create)
  <2> SUFFICES ASSUME Toggle \/ ConfirmRemoval \/ Retarget \/ Create PROVE FALSE
    OBVIOUS
  <2>1. PICK q \in Asks : Send(q)
    BY <1>0, SentIsTyped
  <2>2. asked' = Append(asked, q)
    BY <1>3, <2>1 DEF Send
  <2>3. Len(asked') = Len(asked) + 1
    BY <1>0, <2>2
  <2> QED BY <1>1, <1>2, <2>3
<1>6. PICK m \in DOMAIN asked : Handle(m)
  BY <1>3, <1>4, <1>5, AskedFrame
<1>7. asked[m] = r
  <2>1. RemoveAt(asked, m) = RemoveAt(asked, n)
    BY <1>6 DEF Handle
  <2>2. m \in 1..Len(asked)
    BY <1>0, <1>6
  <2> QED BY <1>0, <1>1, <2>1, <2>2, RemovedIsKnown
<1>8. registered' \in Outcomes(r)
  BY <1>6, <1>7 DEF Handle
<1> HIDE DEF r
<1>9. r.op = "toggle" /\ r.want = ~r.aim.enabled /\ r.aim.enabled \in BOOLEAN
  BY <1>1 DEF r, Asks, Aims
<1>10. r.id \in DOMAIN registered /\ registered' = With(registered, Toggled(registered[r.id], r))
  BY <1>8, <1>9 DEF Outcomes
<1>11. registered[r.id] \in Records /\ registered[r.id].id = r.id
  BY <1>0, <1>10 DEF WorldInv
<1> DEFINE f == Toggled(registered[r.id], r)
<1>12. f.id = r.id /\ f.enabled = r.want
  BY <1>11 DEF Toggled, Records
<1> HIDE DEF f
<1>13. registered' = With(registered, f)
  BY <1>10 DEF f
<1>14. registered'[r.id] = f
  BY <1>10, <1>12, <1>13 DEF With
<1>15. f.enabled # r.aim.enabled
  BY <1>9, <1>12
<1> QED BY <1>14, <1>15 DEF r

\* Only a refresh that got its list leads back from asking for the places.
LEMMA LocatedFrame == DashboardNext /\ pc = "locating" /\ pc' = "top" => Refresh \/ RefreshBlind
<1> SUFFICES ASSUME DashboardNext, pc = "locating", ~Refresh, ~RefreshBlind PROVE pc' # "top"
  OBVIOUS
<1>1. CASE Loop
  BY <1>1 DEF Loop, Start, Leave, Draw, ReadSession, List, ListFails, AnswerIsLate, Step
<1>2. CASE NotYetDue \/ RefreshIsDue
  BY <1>2 DEF NotYetDue, RefreshIsDue, Idle, Step
<1>3. CASE User
  BY <1>3 DEF User, Move, Report, Escape, ClosePopup, OpenForm, AskRemoval, CancelForm, TypeInForm,
    Toggle, ConfirmRemoval, Retarget, Create, Click, Input, Send, Step
<1>4. CASE Others
  BY <1>4 DEF Others, OthersChange, PanesMove, LoseLink, Recover, EndSession, Elsewhere
<1>5. CASE \E n \in DOMAIN asked : Handle(n)
  BY <1>5 DEF Handle
<1> QED BY <1>1, <1>2, <1>3, <1>4, <1>5 DEF DashboardNext

\* The selection goes where its forward has gone.
LEMMA SelectionStep ==
  ASSUME DashboardInv, [DashboardNext]_dashboardVars, pc = "locating", pc' = "top", HasSelected,
         \E f \in ToSet(shown') : f.id = Selected.id
  PROVE  Selected'.id = Selected.id
<1>1. DashboardNext
  BY DEF dashboardVars
<1>2. Refresh \/ RefreshBlind
  BY <1>1, LocatedFrame
<1>3. selected' = Preserved(shown')
  BY <1>2 DEF Refresh, RefreshBlind, Refreshed
<1> DEFINE same == {k \in DOMAIN shown' : HasSelected /\ shown'[k].id = Selected.id}
           k == CHOOSE k \in same : TRUE
<1>4. same # {}
  BY DEF ToSet
<1>5. k \in same
  BY <1>4
<1>6. selected' = k - 1
  BY <1>3, <1>4 DEF Preserved
<1>7. DashboardInv'
  BY DashboardNextInv
<1>8. k \in Int
  <2>1. shown' \in Seq(Records)
    BY <1>7 DEF DashboardInv, ListsInv
  <2>2. DOMAIN shown' = 1..Len(shown')
    BY <2>1
  <2> QED BY <1>5, <2>2
<1> HIDE DEF k
<1>9. selected' + 1 = k
  BY <1>6, <1>8
<1>10. Selected' = shown'[selected' + 1]
  BY DEF Selected
<1> QED BY <1>5, <1>9, <1>10

\* A removal is of what was selected when the user asked for it, a toggle leaves the opposite
\* of what the user saw, and the selection follows its forward through a refresh.
THEOREM DashboardActsAsSeen == DashboardSpec => ActsAsSeen
<1>1. DashboardInv /\ [DashboardNext]_dashboardVars =>
        [\A n \in DOMAIN asked' \ DOMAIN asked :
            asked'[n].op = "remove" =>
                asked'[n].id = asked'[n].aim.id /\ ~asked'[n].aim.automatic]_dashboardVars
  BY RemovalStep
<1>2. DashboardInv /\ [DashboardNext]_dashboardVars =>
        [\A n \in DOMAIN asked :
            asked' = RemoveAt(asked, n) /\ asked[n].op = "toggle" /\ registered' # registered =>
                registered'[asked[n].id].enabled # asked[n].aim.enabled]_dashboardVars
  BY ToggleStep
<1>3. DashboardInv /\ [DashboardNext]_dashboardVars =>
        [pc = "locating" /\ pc' = "top" /\ HasSelected
           /\ (\E f \in ToSet(shown') : f.id = Selected.id)
         => Selected'.id = Selected.id]_dashboardVars
  BY SelectionStep
<1>4. DashboardSpec => RemovalIsDeliberate
  BY <1>1, DashboardAlways, PTL DEF RemovalIsDeliberate, DashboardSpec
<1>5. DashboardSpec => ToggleIsAsSeen
  BY <1>2, DashboardAlways, PTL DEF ToggleIsAsSeen, DashboardSpec
<1>6. DashboardSpec => SelectionFollows
  BY <1>3, DashboardAlways, PTL DEF SelectionFollows, DashboardSpec
<1> QED BY <1>4, <1>5, <1>6 DEF ActsAsSeen

-----------------------------------------------------------------------------
(* How often a heading stands in the tree.                                 *)

\* Whether a heading of some kind stands above forward k of a list.
Heads(kind, list, places, k) ==
    \/ kind = "space" /\ list[k].automatic /\ StartsSpace(list, places, k)
    \/ kind = "tab" /\ list[k].automatic /\ StartsTab(list, places, k)
    \/ kind = "pane" /\ list[k].automatic /\ StartsPane(list, places, k)
    \/ kind = "manual" /\ ~list[k].automatic /\ StartsCustom(list, k)

\* The line of its group at which it stands, if it does.
PlaceOf(kind, list, places, k) ==
    IF kind = "space" THEN 1
    ELSE IF kind = "tab" THEN (IF StartsSpace(list, places, k) THEN 2 ELSE 1)
    ELSE Len(Headings(list, places, k))

\* A group has at most one heading of each kind.
LEMMA HeadingPlaces ==
  ASSUME NEW list, NEW places, NEW k \in Nat \ {0}, list[k].automatic \in BOOLEAN,
         NEW kind \in {"space", "tab", "pane", "manual"}
  PROVE  LET g == Group(list, places, k)
             p == PlaceOf(kind, list, places, k)
         IN  /\ \A j \in 1..Len(g) : g[j].kind = kind <=> j = p /\ Heads(kind, list, places, k)
             /\ Heads(kind, list, places, k) => p \in 1..Len(g)
<1> DEFINE space  == StartsSpace(list, places, k)
           tab    == StartsTab(list, places, k)
           pane   == StartsPane(list, places, k)
           custom == StartsCustom(list, k)
           auto   == list[k].automatic
           h      == Headings(list, places, k)
           g      == Group(list, places, k)
           p      == PlaceOf(kind, list, places, k)
           heads  == Heads(kind, list, places, k)
           n      == Len(h)
<1>1. /\ \A j \in 1..n : h[j].kind = "space" <=> j = 1 /\ auto /\ space
      /\ \A j \in 1..n : h[j].kind = "tab" <=> j = (IF space THEN 2 ELSE 1) /\ auto /\ tab
      /\ \A j \in 1..n : h[j].kind = "pane" <=> j = n /\ auto /\ pane
      /\ \A j \in 1..n : h[j].kind = "manual" <=> j = n /\ ~auto /\ custom
  BY HeadingsProperties
<1>2. /\ auto /\ space => n >= 1
      /\ auto /\ tab => n >= (IF space THEN 2 ELSE 1)
      /\ auto /\ pane => n >= 1
      /\ ~auto /\ custom => n >= 1
  BY HeadingsProperties
<1>3. /\ n \in Nat /\ Len(g) = n + 2
      /\ \A j \in 1..n : g[j] = h[j]
      /\ g[n + 1].kind = "forward" /\ g[n + 2].kind = "forward"
  <2>1. /\ n \in Nat /\ Len(g) = n + 2
        /\ \A j \in 1..n : g[j] = h[j]
        /\ g[n + 1] = Line("forward", k - 1) /\ g[n + 2] = Line("forward", k - 1)
    BY GroupProperties
  <2>2. Line("forward", k - 1).kind = "forward"
    BY DEF Line
  <2> HIDE DEF g, h, n
  <2> QED BY <2>1, <2>2
<1>4. /\ kind = "space" => p = 1 /\ (heads <=> auto /\ space)
      /\ kind = "tab" => p = (IF space THEN 2 ELSE 1) /\ (heads <=> auto /\ tab)
      /\ kind = "pane" => p = n /\ (heads <=> auto /\ pane)
      /\ kind = "manual" => p = n /\ (heads <=> ~auto /\ custom)
  BY DEF PlaceOf, Heads
<1> HIDE DEF space, tab, pane, custom, auto, h, g, p, heads, n
<1>5. \A j \in 1..n : h[j].kind = kind <=> j = p /\ heads
  BY <1>1, <1>4
<1>6. heads => p \in 1..n
  BY <1>2, <1>3, <1>4
<1>7. ASSUME NEW j \in 1..Len(g) PROVE g[j].kind = kind <=> j = p /\ heads
  <2>1. j \in 1..n \/ j = n + 1 \/ j = n + 2
    BY <1>3
  <2>2. CASE j \in 1..n
    BY <1>3, <1>5, <2>2
  <2>3. CASE j = n + 1 \/ j = n + 2
    <3>1. g[j].kind # kind
      BY <1>3, <2>3
    <3>2. heads => j # p
      BY <1>3, <1>6, <2>3
    <3> QED BY <3>1, <3>2
  <2> QED BY <2>1, <2>2, <2>3
<1>8. heads => p \in 1..Len(g)
  BY <1>3, <1>6
<1> QED BY <1>7, <1>8 DEF g, p, heads

\* There are as many headings of a kind as forwards that begin something of that kind.
LEMMA HeadingCount ==
  ASSUME NEW list \in Seq(Records), NEW places, NEW kind \in {"space", "tab", "pane", "manual"}
  PROVE  Cardinality({m \in DOMAIN TreeLines(list, places) :
                          TreeLines(list, places)[m].kind = kind})
           = Cardinality({k \in 1..Len(list) : Heads(kind, list, places, k)})
<1> DEFINE n == Len(list)
           lines == TreeLines(list, places)
           c == Len(lines)
           M == {m \in DOMAIN lines : lines[m].kind = kind}
           U == {k \in 1..n : Heads(kind, list, places, k)}
           b(k) == Len(Group(list, places, k))
           p(k) == PlaceOf(kind, list, places, k)
<1>0. n \in Nat /\ DOMAIN lines = 1..c
  BY ElementsAreRecords, LinesAreOfForwards
<1>1. PICK at : Laid(list, places, at)
  BY TreeLayout
<1> DEFINE f == [k \in U |-> at[k] + p(k)]
<1>2. /\ at \in [1..n + 1 -> Nat]
      /\ \A k \in 1..n : \A j \in 1..b(k) :
            at[k] + j \in 1..c /\ lines[at[k] + j] = Group(list, places, k)[j]
  BY <1>1 DEF Laid
<1>3. \A k \in 1..n : at[k] \in Nat
  <2>1. \A k \in 1..n : k \in 1..n + 1
    BY <1>0
  <2> QED BY <1>2, <2>1
<1>4. ASSUME NEW k \in 1..n
      PROVE  /\ b(k) \in Nat
             /\ \A j \in 1..b(k) : Group(list, places, k)[j].kind = kind
                                     <=> j = p(k) /\ Heads(kind, list, places, k)
             /\ Heads(kind, list, places, k) => p(k) \in 1..b(k)
  <2>1. k \in Nat \ {0} /\ list[k].automatic \in BOOLEAN
    BY ElementsAreRecords
  <2>2. b(k) \in Nat
    <3>1. Group(list, places, k) \in Seq(Lines)
      BY <2>1, GroupProperties
    <3> QED BY <3>1, LenProperties
  <2> QED BY <2>1, <2>2, HeadingPlaces
<1>5. \A j, k \in 1..n : j < k => at[j] + b(j) <= at[k]
  BY <1>1, GroupsAreApart
<1> HIDE DEF lines, c, n, b, p
<1>6. ASSUME NEW k \in U PROVE at[k] + p(k) \in M
  <2>1. k \in 1..n /\ p(k) \in 1..b(k) /\ Group(list, places, k)[p(k)].kind = kind
    BY <1>4
  <2> QED BY <1>0, <1>2, <2>1
<1>7. ASSUME NEW j \in U, NEW k \in U, j < k PROVE at[j] + p(j) < at[k] + p(k)
  <2>1. /\ p(j) \in 1..b(j) /\ b(j) \in Nat /\ at[j] \in Nat
        /\ p(k) \in 1..b(k) /\ b(k) \in Nat /\ at[k] \in Nat
        /\ at[j] + b(j) <= at[k]
    BY <1>3, <1>4, <1>5, <1>7
  <2> QED BY <2>1
<1>8. ASSUME NEW m \in M PROVE \E k \in U : at[k] + p(k) = m
  <2>1. m \in 1..c /\ lines[m].kind = kind
    BY <1>0
  <2>2. PICK k \in 1..n : /\ m - at[k] \in 1..b(k)
                          /\ lines[m] = Group(list, places, k)[m - at[k]]
    BY <1>1, <2>1, LineOfTree DEF lines, c, n, b
  <2> DEFINE j == m - at[k]
  <2>3. at[k] + j = m
    BY <1>3, <2>1
  <2>4. j \in 1..b(k) /\ Group(list, places, k)[j].kind = kind
    BY <2>1, <2>2
  <2> HIDE DEF j
  <2>5. j = p(k) /\ Heads(kind, list, places, k)
    BY <1>4, <2>4
  <2> QED BY <2>3, <2>5
<1> HIDE DEF M
<1>9. f \in [U -> M] /\ \A k \in U : f[k] = at[k] + p(k)
  BY <1>6
<1>10. \A j, k \in U : j # k => f[j] # f[k]
  <2> SUFFICES ASSUME NEW j \in U, NEW k \in U, j # k PROVE f[j] # f[k]
    OBVIOUS
  <2>1. j \in 1..n /\ k \in 1..n /\ j \in Int /\ k \in Int
    OBVIOUS
  <2>2. p(j) \in Int /\ p(k) \in Int /\ at[j] \in Int /\ at[k] \in Int
    BY <1>3, <1>4
  <2> HIDE DEF U, f
  <2>3. f[j] = at[j] + p(j) /\ f[k] = at[k] + p(k)
    BY <1>9
  <2>4. at[j] + p(j) # at[k] + p(k)
    <3>1. CASE j < k
      <4>1. at[j] + p(j) < at[k] + p(k)
        BY <1>7, <3>1
      <4> QED BY <2>2, <4>1
    <3>2. CASE k < j
      <4>1. at[k] + p(k) < at[j] + p(j)
        BY <1>7, <3>2
      <4> QED BY <2>2, <4>1
    <3> QED BY <2>1, <3>1, <3>2
  <2> QED BY <2>3, <2>4
<1>11. \A m \in M : \E k \in U : f[k] = m
  BY <1>8, <1>9
<1>12. IsFiniteSet(U)
  <2>1. IsFiniteSet(1..n) /\ U \subseteq 1..n
    BY <1>0, IntervalSize
  <2> QED BY <2>1, FS_Subset
<1> HIDE DEF U, f
<1>13. f \in Bijection(U, M)
  BY <1>9, <1>10, <1>11 DEF Bijection, Injection, IsInjective, Surjection
<1>14. ExistsBijection(U, M)
  BY <1>13 DEF ExistsBijection
<1>15. Cardinality(M) = Cardinality(U)
  BY <1>12, <1>14, FS_Bijection
<1> QED BY <1>15 DEF M, U, lines, n

\* A begins at the first position, and the places where val has one value are together.
InRuns(A, val) ==
    /\ \A k \in A : \A j \in 1..k : j \in A
    /\ \A i, k \in A : i < k /\ val[i] = val[k] => val[k - 1] = val[k]

\* The positions in A where a value begins, and the values.
Begins(A, val) == {k \in A : k = 1 \/ val[k] # val[k - 1]}
Values(A, val) == {val[k] : k \in A}

\* Then there are as many values as places where one begins.
LEMMA RunsAreValues ==
  ASSUME NEW n \in Nat, NEW A \in SUBSET (1..n), NEW val, InRuns(A, val)
  PROVE  Cardinality(Begins(A, val)) = Cardinality(Values(A, val))
<1> DEFINE F == Begins(A, val)
           V == Values(A, val)
           f == [k \in F |-> val[k]]
<1> USE DEF Begins, Values
<1>1. f \in [F -> V]
  OBVIOUS
<1>2. \A i, k \in F : i # k => f[i] # f[k]
  <2>1. ASSUME NEW i \in F, NEW k \in F, i < k PROVE f[i] # f[k]
    <3>1. k # 1 /\ val[k] # val[k - 1]
      BY <2>1
    <3>2. val[i] # val[k]
      BY <2>1, <3>1 DEF InRuns
    <3> QED BY <3>2
  <2>2. \A i \in F : i \in Int
    OBVIOUS
  <2> HIDE DEF F, f
  <2>3. ASSUME NEW i \in F, NEW k \in F, i # k PROVE f[i] # f[k]
    <3>1. CASE i < k
      BY <2>1, <3>1
    <3>2. CASE k < i
      BY <2>1, <3>2
    <3> QED BY <2>2, <2>3, <3>1, <3>2
  <2> QED BY <2>3
<1>3. \A v \in V : \E k \in F : f[k] = v
  <2> SUFFICES ASSUME NEW v \in V PROVE \E k \in F : f[k] = v
    OBVIOUS
  <2> DEFINE T == {k \in A : val[k] = v}
  <2>1. T \in SUBSET (1..n) /\ T # {}
    OBVIOUS
  <2>2. PICK m \in T : \A x \in T : m <= x
    BY <2>1, LeastElement
  <2>3. m \in A /\ m \in 1..n /\ val[m] = v
    BY <2>2
  <2>4. m = 1 \/ val[m] # val[m - 1]
    <3> SUFFICES ASSUME m # 1 PROVE val[m] # val[m - 1]
      OBVIOUS
    <3>1. m - 1 \in 1..m
      BY <2>3
    <3>2. m - 1 \in A
      BY <2>3, <3>1 DEF InRuns
    <3>3. m - 1 \notin T
      BY <2>2, <2>3
    <3> QED BY <2>3, <3>2, <3>3
  <2> QED BY <2>3, <2>4
<1>4. IsFiniteSet(F)
  <2>1. IsFiniteSet(1..n) /\ F \subseteq 1..n
    BY IntervalSize
  <2> QED BY <2>1, FS_Subset
<1> HIDE DEF F, V, f
<1>5. f \in Bijection(F, V)
  BY <1>1, <1>2, <1>3 DEF Bijection, Injection, IsInjective, Surjection
<1>6. Cardinality(V) = Cardinality(F)
  BY <1>4, <1>5, FS_Bijection DEF ExistsBijection
<1> QED BY <1>6 DEF F, V

\* The positions of the automatic forwards.
Automatic(list) == {k \in 1..Len(list) : list[k].automatic}

\* Automatic forwards come first, and in the order of their Spaces, tabs and panes.
LEMMA AutomaticInOrder ==
  ASSUME NEW list \in Seq(Records), NEW places, Known(places), InDisplayOrder(list, places)
  PROVE  /\ \A k \in Automatic(list) : \A j \in 1..k : j \in Automatic(list)
         /\ \A j, k \in Automatic(list) : j <= k =>
               \/ SpaceOf(list[j], places) < SpaceOf(list[k], places)
               \/ /\ SpaceOf(list[j], places) = SpaceOf(list[k], places)
                  /\ \/ TabOf(list[j], places) < TabOf(list[k], places)
                     \/ /\ TabOf(list[j], places) = TabOf(list[k], places)
                        /\ list[j].pane <= list[k].pane
<1> DEFINE n == Len(list)
<1>0. n \in Nat /\ \A k \in 1..n : list[k] \in Records /\ list[k].automatic \in BOOLEAN
  BY ElementsAreRecords
<1>1. ASSUME NEW k \in Automatic(list), NEW j \in 1..k PROVE j \in Automatic(list)
  <2>1. k \in 1..n /\ j \in 1..n /\ list[k].automatic
    BY <1>0 DEF Automatic
  <2>2. CASE j < k
    <3>1. InOrder(list[j], list[k], places)
      BY <2>1, <2>2 DEF InDisplayOrder
    <3> QED BY <2>1, <3>1 DEF InOrder, Automatic
  <2>3. CASE j = k
    BY <2>3
  <2> QED BY <2>1, <2>2, <2>3
<1>2. ASSUME NEW j \in Automatic(list), NEW k \in Automatic(list), j <= k
      PROVE  \/ SpaceOf(list[j], places) < SpaceOf(list[k], places)
             \/ /\ SpaceOf(list[j], places) = SpaceOf(list[k], places)
                /\ \/ TabOf(list[j], places) < TabOf(list[k], places)
                   \/ /\ TabOf(list[j], places) = TabOf(list[k], places)
                      /\ list[j].pane <= list[k].pane
  <2>1. j \in 1..n /\ k \in 1..n /\ list[j].automatic /\ list[k].automatic
    BY DEF Automatic
  <2>2. CASE j < k
    <3>1. InOrder(list[j], list[k], places)
      BY <2>1, <2>2 DEF InDisplayOrder
    <3> QED BY <2>1, <3>1 DEF InOrder
  <2>3. CASE j = k
    <3>1. list[k].pane \in Nat
      BY <1>0, <2>1, RecordsAreNumbers
    <3> QED BY <2>3, <3>1
  <2> QED BY <1>2, <2>1, <2>2, <2>3
<1> QED BY <1>1, <1>2

\* Spaces, tabs and panes are together in the order of the display.
LEMMA PlacesAreInRuns ==
  ASSUME NEW list \in Seq(Records), NEW places, Known(places), InDisplayOrder(list, places)
  PROVE  /\ Automatic(list) \in SUBSET (1..Len(list))
         /\ InRuns(Automatic(list), [k \in 1..Len(list) |-> SpaceOf(list[k], places)])
         /\ InRuns(Automatic(list),
                   [k \in 1..Len(list) |-> <<SpaceOf(list[k], places), TabOf(list[k], places)>>])
         /\ InRuns(Automatic(list), [k \in 1..Len(list) |-> list[k].pane])
<1> DEFINE n == Len(list)
           A == Automatic(list)
           space(k) == SpaceOf(list[k], places)
           tab(k) == TabOf(list[k], places)
           pane(k) == list[k].pane
<1>0. /\ n \in Nat /\ \A k \in 1..n : list[k] \in Records
      /\ \A k \in 1..n : space(k) \in Int /\ tab(k) \in Int /\ pane(k) \in Int
  BY ElementsAreRecords, PlacesAreNumbers, RecordsAreNumbers
<1>1. A \in SUBSET (1..n)
  BY DEF Automatic
<1>2. \A k \in A : \A j \in 1..k : j \in A
  BY AutomaticInOrder
<1>3. \A j, k \in A : j <= k =>
         \/ space(j) < space(k)
         \/ space(j) = space(k) /\ (tab(j) < tab(k) \/ (tab(j) = tab(k) /\ pane(j) <= pane(k)))
  BY AutomaticInOrder
<1>4. \A j, k \in 1..n : pane(j) = pane(k) => space(j) = space(k) /\ tab(j) = tab(k)
  BY DEF SpaceOf, TabOf
<1> HIDE DEF A, n, space, tab, pane
<1>5. ASSUME NEW i \in A, NEW k \in A, i < k
      PROVE  /\ k - 1 \in 1..n /\ k \in 1..n
             /\ space(i) = space(k) => space(k - 1) = space(k)
             /\ space(i) = space(k) /\ tab(i) = tab(k) =>
                   space(k - 1) = space(k) /\ tab(k - 1) = tab(k)
             /\ pane(i) = pane(k) => pane(k - 1) = pane(k)
  <2> DEFINE h == k - 1
  <2>1. i \in 1..n /\ k \in 1..n /\ h \in 1..n /\ h \in 1..k /\ i <= h /\ h <= k
    BY <1>0, <1>1, <1>5
  <2>2. h \in A
    BY <1>2, <2>1
  <2> HIDE DEF h
  <2>3. /\ space(i) \in Int /\ tab(i) \in Int /\ pane(i) \in Int
        /\ space(h) \in Int /\ tab(h) \in Int /\ pane(h) \in Int
        /\ space(k) \in Int /\ tab(k) \in Int /\ pane(k) \in Int
    BY <1>0, <2>1
  <2>4. \/ space(i) < space(h)
        \/ space(i) = space(h) /\ (tab(i) < tab(h) \/ (tab(i) = tab(h) /\ pane(i) <= pane(h)))
    BY <1>3, <2>1, <2>2
  <2>5. \/ space(h) < space(k)
        \/ space(h) = space(k) /\ (tab(h) < tab(k) \/ (tab(h) = tab(k) /\ pane(h) <= pane(k)))
    BY <1>3, <2>1, <2>2
  <2>6. pane(i) = pane(k) => space(i) = space(k) /\ tab(i) = tab(k)
    BY <1>4, <2>1
  <2>7. /\ space(i) = space(k) => space(h) = space(k)
        /\ space(i) = space(k) /\ tab(i) = tab(k) => space(h) = space(k) /\ tab(h) = tab(k)
        /\ pane(i) = pane(k) => pane(h) = pane(k)
    BY <2>3, <2>4, <2>5, <2>6
  <2> QED BY <2>1, <2>7 DEF h
<1>6. InRuns(A, [k \in 1..n |-> space(k)])
  BY <1>1, <1>2, <1>5 DEF InRuns
<1>7. InRuns(A, [k \in 1..n |-> <<space(k), tab(k)>>])
  BY <1>1, <1>2, <1>5 DEF InRuns
<1>8. InRuns(A, [k \in 1..n |-> pane(k)])
  BY <1>1, <1>2, <1>5 DEF InRuns
<1> QED BY <1>1, <1>6, <1>7, <1>8 DEF A, n, space, tab, pane

\* Which forwards begin a Space, a tab, a pane.
LEMMA HeadsOfRuns ==
  ASSUME NEW list \in Seq(Records), NEW places
  PROVE  LET n     == Len(list)
             A     == Automatic(list)
             space == [k \in 1..n |-> SpaceOf(list[k], places)]
             tab   == [k \in 1..n |-> <<SpaceOf(list[k], places), TabOf(list[k], places)>>]
             pane  == [k \in 1..n |-> list[k].pane]
         IN  /\ {k \in 1..n : Heads("space", list, places, k)} = Begins(A, space)
             /\ {k \in 1..n : Heads("tab", list, places, k)} = Begins(A, tab)
             /\ {k \in 1..n : Heads("pane", list, places, k)} = Begins(A, pane)
<1> DEFINE n     == Len(list)
           A     == Automatic(list)
           space == [k \in 1..n |-> SpaceOf(list[k], places)]
           tab   == [k \in 1..n |-> <<SpaceOf(list[k], places), TabOf(list[k], places)>>]
           pane  == [k \in 1..n |-> list[k].pane]
<1>1. ASSUME NEW k \in 1..n
      PROVE  /\ Heads("space", list, places, k) <=> k \in A /\ (k = 1 \/ space[k] # space[k - 1])
             /\ Heads("tab", list, places, k) <=> k \in A /\ (k = 1 \/ tab[k] # tab[k - 1])
             /\ Heads("pane", list, places, k) <=> k \in A /\ (k = 1 \/ pane[k] # pane[k - 1])
  <2>1. k \in A <=> list[k].automatic
    BY DEF Automatic
  <2>2. /\ Heads("space", list, places, k) <=> list[k].automatic /\ StartsSpace(list, places, k)
        /\ Heads("tab", list, places, k) <=> list[k].automatic /\ StartsTab(list, places, k)
        /\ Heads("pane", list, places, k) <=> list[k].automatic /\ StartsPane(list, places, k)
    BY DEF Heads
  <2>3. CASE k = 1
    BY <2>1, <2>2, <2>3 DEF StartsSpace, StartsTab, StartsPane
  <2>4. CASE k # 1
    <3> DEFINE h == k - 1
    <3>1. h \in 1..n
      BY <2>4, ElementsAreRecords
    <3>2. /\ StartsSpace(list, places, k) <=> SpaceOf(list[k], places) # SpaceOf(list[h], places)
          /\ StartsTab(list, places, k) <=>
                StartsSpace(list, places, k) \/ TabOf(list[k], places) # TabOf(list[h], places)
          /\ StartsPane(list, places, k) <=>
                StartsTab(list, places, k) \/ list[k].pane # list[h].pane
      BY <2>4 DEF StartsSpace, StartsTab, StartsPane
    <3> HIDE DEF h
    <3>3. /\ space[k] = SpaceOf(list[k], places) /\ space[h] = SpaceOf(list[h], places)
          /\ tab[k] = <<SpaceOf(list[k], places), TabOf(list[k], places)>>
          /\ tab[h] = <<SpaceOf(list[h], places), TabOf(list[h], places)>>
          /\ pane[k] = list[k].pane /\ pane[h] = list[h].pane
      BY <3>1
    <3> HIDE DEF space, tab, pane
    <3>4. list[k].pane = list[h].pane =>
             /\ SpaceOf(list[k], places) = SpaceOf(list[h], places)
             /\ TabOf(list[k], places) = TabOf(list[h], places)
      BY DEF SpaceOf, TabOf
    <3>5. StartsSpace(list, places, k) <=> space[k] # space[h]
      BY <3>2, <3>3
    <3>6. StartsTab(list, places, k) <=> tab[k] # tab[h]
      BY <3>2, <3>3
    <3>7. StartsPane(list, places, k) <=> pane[k] # pane[h]
      BY <3>2, <3>3, <3>4
    <3> QED BY <2>1, <2>2, <2>4, <3>5, <3>6, <3>7 DEF h
  <2> QED BY <2>3, <2>4
<1>2. A \subseteq 1..n
  BY DEF Automatic
<1> HIDE DEF n, A, space, tab, pane
<1>3. {k \in 1..n : Heads("space", list, places, k)} = Begins(A, space)
  BY <1>1, <1>2 DEF Begins
<1>4. {k \in 1..n : Heads("tab", list, places, k)} = Begins(A, tab)
  BY <1>1, <1>2 DEF Begins
<1>5. {k \in 1..n : Heads("pane", list, places, k)} = Begins(A, pane)
  BY <1>1, <1>2 DEF Begins
<1> QED BY <1>3, <1>4, <1>5 DEF n, A, space, tab, pane

\* What the automatic forwards of a list have, by position and by forward.
LEMMA ValuesOfRuns ==
  ASSUME NEW list \in Seq(Records), NEW places
  PROVE  LET n     == Len(list)
             A     == Automatic(list)
             auto  == {f \in ToSet(list) : f.automatic}
             space == [k \in 1..n |-> SpaceOf(list[k], places)]
             tab   == [k \in 1..n |-> <<SpaceOf(list[k], places), TabOf(list[k], places)>>]
             pane  == [k \in 1..n |-> list[k].pane]
         IN  /\ Values(A, space) = {SpaceOf(f, places) : f \in auto}
             /\ Values(A, tab) = {<<SpaceOf(f, places), TabOf(f, places)>> : f \in auto}
             /\ Values(A, pane) = {f.pane : f \in auto}
<1> DEFINE n     == Len(list)
           A     == Automatic(list)
           auto  == {f \in ToSet(list) : f.automatic}
           space == [k \in 1..n |-> SpaceOf(list[k], places)]
           tab   == [k \in 1..n |-> <<SpaceOf(list[k], places), TabOf(list[k], places)>>]
           pane  == [k \in 1..n |-> list[k].pane]
<1>1. A \subseteq 1..n /\ \A k \in A : list[k] \in auto
  BY LenProperties DEF ToSet, Automatic
<1>2. \A f \in auto : \E k \in A : list[k] = f
  BY LenProperties DEF ToSet, Automatic
<1> HIDE DEF A, auto, n
<1>3. Values(A, space) = {SpaceOf(f, places) : f \in auto}
  BY <1>1, <1>2 DEF Values
<1>4. Values(A, tab) = {<<SpaceOf(f, places), TabOf(f, places)>> : f \in auto}
  BY <1>1, <1>2 DEF Values
<1>5. Values(A, pane) = {f.pane : f \in auto}
  BY <1>1, <1>2 DEF Values
<1> QED BY <1>3, <1>4, <1>5 DEF A, auto, n

\* Custom forwards come last, so one of them is the first.
LEMMA ManualHeads ==
  ASSUME NEW list \in Seq(Records), NEW places, Known(places), InDisplayOrder(list, places)
  PROVE  Cardinality({k \in 1..Len(list) : Heads("manual", list, places, k)})
           = IF ToSet(list) = {f \in ToSet(list) : f.automatic} THEN 0 ELSE 1
<1> DEFINE n == Len(list)
           C == {k \in 1..n : ~list[k].automatic}
           U == {k \in 1..n : Heads("manual", list, places, k)}
           auto == {f \in ToSet(list) : f.automatic}
<1>0. n \in Nat /\ DOMAIN list = 1..n
  BY ElementsAreRecords
<1>1. \A k \in 1..n : k \in U <=> k \in C /\ (k = 1 \/ list[k - 1].automatic)
  BY DEF Heads, StartsCustom
<1>2. ToSet(list) = auto <=> C = {}
  BY <1>0 DEF ToSet
<1>3. CASE C = {}
  <2>1. U = {}
    BY <1>1, <1>3
  <2> HIDE DEF U, C, auto
  <2>2. Cardinality(U) = 0
    BY <2>1, SmallSets
  <2> QED BY <1>2, <1>3, <2>2 DEF U, auto
<1>4. CASE C # {}
  <2>1. C \in SUBSET (1..n)
    OBVIOUS
  <2>2. PICK m \in C : \A x \in C : m <= x
    BY <1>0, <1>4, <2>1, LeastElement
  <2>3. m \in 1..n /\ ~list[m].automatic
    BY <2>2
  <2>4. m \in U
    <3>1. CASE m = 1
      BY <1>1, <2>2, <2>3, <3>1
    <3>2. CASE m # 1
      <4>1. m - 1 \in 1..n /\ m - 1 \notin C
        BY <2>2, <2>3, <3>2
      <4> QED BY <1>1, <2>2, <2>3, <4>1
    <3> QED BY <3>1, <3>2
  <2>5. ASSUME NEW k \in U PROVE k = m
    <3>1. k \in 1..n /\ k \in C /\ (k = 1 \/ list[k - 1].automatic)
      BY <1>1
    <3>2. m <= k
      BY <2>2, <3>1
    <3>3. CASE m < k
      <4>1. k - 1 \in 1..n /\ list[k - 1].automatic /\ m \in 1..k - 1
        BY <2>3, <3>1, <3>3
      <4>2. k - 1 \in Automatic(list)
        BY <4>1 DEF Automatic
      <4>3. m \in Automatic(list)
        BY <4>1, <4>2, AutomaticInOrder
      <4> QED BY <2>3, <4>3 DEF Automatic
    <3> QED BY <2>3, <3>1, <3>2, <3>3
  <2> HIDE DEF U, C, auto
  <2>6. U = {m}
    BY <2>4, <2>5
  <2>7. Cardinality(U) = 1
    BY <2>6, SmallSets, Zenon
  <2> QED BY <1>2, <1>4, <2>7 DEF U, auto
<1> QED BY <1>3, <1>4

\* Every Space, tab and pane of the list is headed once.
LEMMA ListIsHeadedOnce ==
  ASSUME NEW list \in Seq(Records), NEW places, Known(places), InDisplayOrder(list, places)
  PROVE  LET lines == TreeLines(list, places)
             count(kind) == Cardinality({m \in DOMAIN lines : lines[m].kind = kind})
             auto  == {f \in ToSet(list) : f.automatic}
         IN  /\ count("space") = Cardinality({SpaceOf(f, places) : f \in auto})
             /\ count("tab") = Cardinality({<<SpaceOf(f, places), TabOf(f, places)>> : f \in auto})
             /\ count("pane") = Cardinality({f.pane : f \in auto})
             /\ count("manual") = IF ToSet(list) = auto THEN 0 ELSE 1
<1> DEFINE n     == Len(list)
           A     == Automatic(list)
           auto  == {f \in ToSet(list) : f.automatic}
           space == [k \in 1..n |-> SpaceOf(list[k], places)]
           tab   == [k \in 1..n |-> <<SpaceOf(list[k], places), TabOf(list[k], places)>>]
           pane  == [k \in 1..n |-> list[k].pane]
           spaces == {SpaceOf(f, places) : f \in auto}
           tabs   == {<<SpaceOf(f, places), TabOf(f, places)>> : f \in auto}
           panes  == {f.pane : f \in auto}
           lines == TreeLines(list, places)
           count(kind) == Cardinality({m \in DOMAIN lines : lines[m].kind = kind})
<1>0. n \in Nat
  BY ElementsAreRecords
<1>1. A \in SUBSET (1..n) /\ InRuns(A, space) /\ InRuns(A, tab) /\ InRuns(A, pane)
  BY PlacesAreInRuns
<1>2. /\ {k \in 1..n : Heads("space", list, places, k)} = Begins(A, space)
      /\ {k \in 1..n : Heads("tab", list, places, k)} = Begins(A, tab)
      /\ {k \in 1..n : Heads("pane", list, places, k)} = Begins(A, pane)
  BY HeadsOfRuns
<1>3. Values(A, space) = spaces /\ Values(A, tab) = tabs /\ Values(A, pane) = panes
  BY ValuesOfRuns
<1>4. /\ count("space") = Cardinality({k \in 1..n : Heads("space", list, places, k)})
      /\ count("tab") = Cardinality({k \in 1..n : Heads("tab", list, places, k)})
      /\ count("pane") = Cardinality({k \in 1..n : Heads("pane", list, places, k)})
      /\ count("manual") = Cardinality({k \in 1..n : Heads("manual", list, places, k)})
  BY HeadingCount
<1>5. Cardinality({k \in 1..n : Heads("manual", list, places, k)})
        = IF ToSet(list) = auto THEN 0 ELSE 1
  BY ManualHeads
<1> HIDE DEF A, space, tab, pane, spaces, tabs, panes, auto, n, count
<1>6. /\ Cardinality(Begins(A, space)) = Cardinality(Values(A, space))
      /\ Cardinality(Begins(A, tab)) = Cardinality(Values(A, tab))
      /\ Cardinality(Begins(A, pane)) = Cardinality(Values(A, pane))
  <2>1. ASSUME NEW val, InRuns(A, val)
        PROVE  Cardinality(Begins(A, val)) = Cardinality(Values(A, val))
    BY <1>0, <1>1, <2>1, RunsAreValues
  <2> QED BY <1>1, <2>1
<1>7. count("space") = Cardinality(spaces)
  BY <1>2, <1>3, <1>4, <1>6, Zenon
<1>8. count("tab") = Cardinality(tabs)
  BY <1>2, <1>3, <1>4, <1>6, Zenon
<1>9. count("pane") = Cardinality(panes)
  BY <1>2, <1>3, <1>4, <1>6, Zenon
<1>10. count("manual") = IF ToSet(list) = auto THEN 0 ELSE 1
  BY <1>4, <1>5, Zenon
<1> QED BY <1>7, <1>8, <1>9, <1>10 DEF spaces, tabs, panes, auto, count

\* The screen shows the selected forward, a click selects what it hits, and every Space, tab
\* and pane is headed once, for lists of every length and terminals of every height.
THEOREM DashboardScreenIsSound == DashboardSpec => []ScreenIsSound
<1>1. DashboardInv => ScreenIsSound
  <2> SUFFICES ASSUME DashboardInv PROVE ScreenIsSound
    OBVIOUS
  <2>0. shown \in Seq(Records) /\ InDisplayOrder(shown, locations) /\ Known(locations)
        /\ selected \in Nat
    <3>1. WorldInv /\ ListsInv /\ LoopInv
      BY DEF DashboardInv
    <3>2. locations \in Places \cup {<<>>} /\ selected \in 0..MaxId
      BY <3>1 DEF ListsInv, LoopInv
    <3>3. Known(locations)
      BY <3>2, PlacesAreKnown
    <3> QED BY <3>1, <3>2, <3>3, Bounds DEF ListsInv
  <2>1. \A height \in Heights : height \in Nat /\ \A row \in 0..height : row \in Nat
    BY DashboardAssumption
  <2>2. ClickHitsWhatIsDrawn
    <3> SUFFICES ASSUME NEW height \in Heights, NEW row \in 0..height
        PROVE  LET screen == Screen(shown, locations, selected, height)
               IN  ForwardIndexAt(row, height, selected, shown, locations)
                     = IF row \in DOMAIN screen THEN screen[row].index ELSE -1
      BY DEF ClickHitsWhatIsDrawn
    <3> QED BY <2>0, <2>1, ClickAgreesWithScreen
  <2>3. SelectionIsVisible
    <3> SUFFICES ASSUME pc = "drawn", ~Empty, NEW height \in Heights
        PROVE  LET screen == Screen(shown, locations, selected, height)
                   rows   == {r \in DOMAIN screen : screen[r].index = selected}
               IN  Cardinality(rows) = Least(2, Monus(height, 5))
      BY DEF SelectionIsVisible
    <3>1. Len(shown) \in Nat /\ Len(shown) # 0
      BY <2>0, EmptySeq DEF Empty
    <3>2. selected <= Monus(Len(shown), 1)
      BY DEF DashboardInv, LoopInv
    <3>3. selected \in 0..Len(shown) - 1
      BY <2>0, <3>1, <3>2 DEF Monus
    <3>4. shown \in Seq(Records) /\ height \in Nat
      BY <2>0, <2>1
    <3> QED BY <3>3, <3>4, SelectionIsShown
  <2>4. HeadedOnce
    BY <2>0, ListIsHeadedOnce DEF HeadedOnce
  <2> QED BY <2>2, <2>3, <2>4 DEF ScreenIsSound
<1> QED BY <1>1, DashboardAlways, PTL

-----------------------------------------------------------------------------
(* The threads of the wrapper.                                             *)

\* Where the supervisor owns no master.
Unowned == {"attempt", "connect", "wait", "gone"}

\* Where the registry has been replayed on the master, if that still runs.
Replayed == {"watch", "publish", "await"}

\* The tunnels are those of the running master, and belong to enabled forwards.
TunnelInv ==
    /\ served \subseteq forwards
    /\ alive = {} => served = {}
    /\ sup \in Unowned => cur = 0
    /\ sup \in Replayed /\ cur \in alive => served = forwards

\* What an attempt has published and persisted by the time it awaits a heartbeat.
AttemptInv ==
    /\ sup = "await" => published = cur
    /\ sup \in {"publish", "await"} => stateFile

\* The shutdown waits for the supervisor, then for the requests, before it cleans up.
ShutdownInv ==
    /\ main # "attach" <=> stop
    /\ main \notin {"attach", "join"} => sup \in {"stopped", "gone"}
    /\ main \in {"remove state", "remove remote", "drop", "exited"} =>
        \A r \in Requests : ~request[r]
    /\ main = "exited" => cur = 0

\* The inductive invariant.
TransportInv == TypeOK /\ OneMaster /\ TunnelInv /\ AttemptInv /\ ShutdownInv /\ NothingLeft

\* A wrapper that has just attached owns one master, which serves nothing yet.
LEMMA TransportInitInv == Init => TransportInv
<1> SUFFICES ASSUME Init PROVE TransportInv
  OBVIOUS
<1>1. TypeOK
  <2>1. 1 \in Masters /\ 1 \in 0..MaxMasters /\ 0 \in 0..MaxMasters
    BY MastersAssumption DEF Masters
  <2>2. request \in [Requests -> BOOLEAN]
    BY DEF Init
  <2>3. sup # "stopped" => (reconnecting <=> sup # "watch")
    BY DEF Init
  <2> QED BY <2>1, <2>2, <2>3 DEF Init, TypeOK
<1>2. OneMaster
  BY DEF Init, OneMaster
<1>3. TunnelInv
  BY DEF Init, TunnelInv, Unowned, Replayed
<1>4. AttemptInv
  BY DEF Init, AttemptInv
<1>5. ShutdownInv
  BY DEF Init, ShutdownInv
<1>6. NothingLeft
  BY DEF Init, NothingLeft
<1> QED BY <1>1, <1>2, <1>3, <1>4, <1>5, <1>6 DEF TransportInv

USE DEF thread, recovery, link, watcher, registry, Unowned, Replayed

\* Masters are numbered from one.
LEMMA Numbers ==
    /\ 0 \in 0..MaxMasters /\ 0 \notin Masters /\ Masters \subseteq 0..MaxMasters
    /\ \A n \in Masters : n < MaxMasters => n + 1 \in Masters
BY MastersAssumption DEF Masters

\* The part of the invariant that is not about types.
Safe == OneMaster /\ TunnelInv /\ AttemptInv /\ ShutdownInv /\ NothingLeft

-----------------------------------------------------------------------------
(* Steps of the supervisor.                                                *)

\* The supervisor keeps the types.
LEMMA SuperviseType == ASSUME TransportInv, Supervise PROVE TypeOK'
<1>1. CASE Detect
  <2>1. alive' \subseteq Masters /\ served' \subseteq Endpoints /\ cur' \in 0..MaxMasters
    BY <1>1, Numbers DEF TransportInv, TypeOK, Detect, Terminate
  <2> QED BY <1>1, <2>1 DEF TransportInv, TypeOK, Detect
<1>2. CASE StartAttempt
  BY <1>2 DEF TransportInv, TypeOK, StartAttempt, Stopped
<1>3. CASE Connect
  <2>1. masters' \in Masters
    BY <1>3, Numbers DEF TransportInv, TypeOK, Connect
  <2>2. cur' \in 0..MaxMasters /\ alive' \subseteq Masters
    BY <1>3, <2>1, Numbers DEF TransportInv, TypeOK, Connect
  <2> QED BY <1>3, <2>1, <2>2 DEF TransportInv, TypeOK, Connect
<1>4. CASE ConnectFails
  BY <1>4 DEF TransportInv, TypeOK, ConnectFails
<1>5. CASE EstablishReverse
  BY <1>5 DEF TransportInv, TypeOK, EstablishReverse
<1>6. CASE Replay
  BY <1>6 DEF TransportInv, TypeOK, Replay
<1>7. CASE Publish
  BY <1>7 DEF TransportInv, TypeOK, Publish
<1>8. CASE AttemptFails
  BY <1>8 DEF TransportInv, TypeOK, AttemptFails
<1>9. CASE AwaitFails
  BY <1>9 DEF TransportInv, TypeOK, AwaitFails, Stopped, Resumed
<1>10. CASE Discard
  <2>1. alive' \subseteq Masters /\ served' \subseteq Endpoints /\ cur' \in 0..MaxMasters
    BY <1>10, Numbers DEF TransportInv, TypeOK, Discard, Terminate
  <2> QED BY <1>10, <2>1 DEF TransportInv, TypeOK, Discard
<1>11. CASE Retry
  BY <1>11 DEF TransportInv, TypeOK, Retry
<1>12. CASE Recovered
  BY <1>12 DEF TransportInv, TypeOK, Recovered, Resumed
<1>13. CASE GiveUp
  BY <1>13 DEF TransportInv, TypeOK, GiveUp
<1>14. CASE Obey
  BY <1>14 DEF TransportInv, TypeOK, Obey
<1> QED BY <1>1, <1>2, <1>3, <1>4, <1>5, <1>6, <1>7, <1>8, <1>9, <1>10, <1>11, <1>12,
  <1>13, <1>14 DEF Supervise

\* Every step of a recovery keeps the rest of the invariant.
LEMMA SuperviseSafe == ASSUME TransportInv, Supervise PROVE Safe'
<1>1. CASE Detect
  BY <1>1 DEF TransportInv, Safe, OneMaster, TunnelInv, AttemptInv, ShutdownInv, NothingLeft,
    Detect, Terminate
<1>2. CASE StartAttempt
  BY <1>2 DEF TransportInv, Safe, OneMaster, TunnelInv, AttemptInv, ShutdownInv, NothingLeft,
    StartAttempt, Stopped
<1>3. CASE Connect
  <2>1. alive = {}
    BY <1>3, Numbers DEF TransportInv, TypeOK, OneMaster, TunnelInv, Connect
  <2>2. alive' = {cur'} /\ served' = {}
    BY <1>3, <2>1 DEF TransportInv, TunnelInv, Connect
  <2>3. main' \notin {"drop", "exited"}
    BY <1>3 DEF TransportInv, ShutdownInv, Connect
  <2> QED BY <1>3, <2>2, <2>3 DEF TransportInv, Safe, OneMaster, TunnelInv, AttemptInv,
    ShutdownInv, NothingLeft, Connect
<1>4. CASE ConnectFails
  BY <1>4 DEF TransportInv, Safe, OneMaster, TunnelInv, AttemptInv, ShutdownInv, NothingLeft,
    ConnectFails
<1>5. CASE EstablishReverse
  BY <1>5 DEF TransportInv, Safe, OneMaster, TunnelInv, AttemptInv, ShutdownInv, NothingLeft,
    EstablishReverse
<1>6. CASE Replay
  BY <1>6 DEF TransportInv, Safe, OneMaster, TunnelInv, AttemptInv, ShutdownInv, NothingLeft, Replay
<1>7. CASE Publish
  BY <1>7 DEF TransportInv, Safe, OneMaster, TunnelInv, AttemptInv, ShutdownInv, NothingLeft,
    Publish
<1>8. CASE AttemptFails
  BY <1>8 DEF TransportInv, Safe, OneMaster, TunnelInv, AttemptInv, ShutdownInv, NothingLeft,
    AttemptFails
<1>9. CASE AwaitFails
  BY <1>9 DEF TransportInv, Safe, OneMaster, TunnelInv, AttemptInv, ShutdownInv, NothingLeft,
    AwaitFails, Stopped, Resumed
<1>10. CASE Discard
  <2>1. alive' = {} /\ served' = {}
    BY <1>10 DEF TransportInv, OneMaster, TunnelInv, Discard, Terminate
  <2> QED BY <1>10, <2>1 DEF TransportInv, Safe, TypeOK, OneMaster, TunnelInv, AttemptInv,
    ShutdownInv, NothingLeft, Discard
<1>11. CASE Retry
  BY <1>11 DEF TransportInv, Safe, OneMaster, TunnelInv, AttemptInv, ShutdownInv, NothingLeft, Retry
<1>12. CASE Recovered
  BY <1>12 DEF TransportInv, Safe, OneMaster, TunnelInv, AttemptInv, ShutdownInv, NothingLeft,
    Recovered, Resumed
<1>13. CASE GiveUp
  BY <1>13 DEF TransportInv, Safe, OneMaster, TunnelInv, AttemptInv, ShutdownInv, NothingLeft,
    GiveUp
<1>14. CASE Obey
  BY <1>14 DEF TransportInv, Safe, OneMaster, TunnelInv, AttemptInv, ShutdownInv, NothingLeft, Obey
<1> QED BY <1>1, <1>2, <1>3, <1>4, <1>5, <1>6, <1>7, <1>8, <1>9, <1>10, <1>11, <1>12,
  <1>13, <1>14 DEF Supervise

-----------------------------------------------------------------------------
(* Steps of the main thread.                                               *)

\* The shutdown keeps the types.
LEMMA ShutdownType == ASSUME TransportInv, Shutdown PROVE TypeOK'
<1>1. CASE JoinSupervisor
  BY <1>1 DEF TransportInv, TypeOK, JoinSupervisor, Goto, SupervisorEnded
<1>2. CASE JoinServer
  BY <1>2 DEF TransportInv, TypeOK, JoinServer, Goto
<1>3. CASE CloseAll
  BY <1>3 DEF TransportInv, TypeOK, CloseAll, Goto, Drained
<1>4. CASE RemoveState
  BY <1>4 DEF TransportInv, TypeOK, RemoveState, Goto
<1>5. CASE RemoveRemote
  <2>1. published' \in {published, 0}
    BY <1>5 DEF RemoveRemote
  <2>2. published' \in 0..MaxMasters
    BY <2>1, Numbers DEF TransportInv, TypeOK
  <2> QED BY <1>5, <2>2 DEF TransportInv, TypeOK, RemoveRemote, Goto
<1>6. CASE DropMaster
  <2>1. alive' \subseteq Masters /\ served' \subseteq Endpoints /\ cur' \in 0..MaxMasters
    BY <1>6, Numbers DEF TransportInv, TypeOK, DropMaster, Terminate
  <2> QED BY <1>6, <2>1 DEF TransportInv, TypeOK, DropMaster, Goto
<1> QED BY <1>1, <1>2, <1>3, <1>4, <1>5, <1>6 DEF Shutdown

\* Every step of the shutdown keeps the rest of the invariant.
LEMMA ShutdownSafe == ASSUME TransportInv, Shutdown PROVE Safe'
<1>1. CASE JoinSupervisor
  BY <1>1 DEF TransportInv, Safe, OneMaster, TunnelInv, AttemptInv, ShutdownInv, NothingLeft,
    JoinSupervisor, Goto, SupervisorEnded
<1>2. CASE JoinServer
  BY <1>2 DEF TransportInv, Safe, OneMaster, TunnelInv, AttemptInv, ShutdownInv, NothingLeft,
    JoinServer, Goto
<1>3. CASE CloseAll
  BY <1>3 DEF TransportInv, Safe, OneMaster, TunnelInv, AttemptInv, ShutdownInv, NothingLeft,
    CloseAll, Goto, Drained
<1>4. CASE RemoveState
  BY <1>4 DEF TransportInv, Safe, OneMaster, TunnelInv, AttemptInv, ShutdownInv, NothingLeft,
    RemoveState, Goto
<1>5. CASE RemoveRemote
  BY <1>5 DEF TransportInv, Safe, OneMaster, TunnelInv, AttemptInv, ShutdownInv, NothingLeft,
    RemoveRemote, Goto
<1>6. CASE DropMaster
  BY <1>6 DEF TransportInv, Safe, OneMaster, TunnelInv, AttemptInv, ShutdownInv, NothingLeft,
    DropMaster, Terminate, Goto
<1> QED BY <1>1, <1>2, <1>3, <1>4, <1>5, <1>6 DEF Shutdown

\* The main thread leaves the attached client.
Departure == ClientExits \/ NoticeFailure \/ StartupTimeout

\* Leaving keeps the types.
LEMMA DepartureType == ASSUME TransportInv, Departure PROVE TypeOK'
<1>1. CASE ClientExits
  BY <1>1 DEF TransportInv, TypeOK, ClientExits
<1>2. CASE NoticeFailure
  BY <1>2 DEF TransportInv, TypeOK, NoticeFailure
<1>3. CASE StartupTimeout
  BY <1>3 DEF TransportInv, TypeOK, StartupTimeout
<1> QED BY <1>1, <1>2, <1>3 DEF Departure

\* Whatever makes the main thread leave keeps the rest of the invariant.
LEMMA DepartureSafe == ASSUME TransportInv, Departure PROVE Safe'
<1>1. CASE ClientExits
  BY <1>1 DEF TransportInv, Safe, OneMaster, TunnelInv, AttemptInv, ShutdownInv, NothingLeft,
    ClientExits
<1>2. CASE NoticeFailure
  BY <1>2 DEF TransportInv, Safe, OneMaster, TunnelInv, AttemptInv, ShutdownInv, NothingLeft,
    NoticeFailure
<1>3. CASE StartupTimeout
  BY <1>3 DEF TransportInv, Safe, OneMaster, TunnelInv, AttemptInv, ShutdownInv, NothingLeft,
    StartupTimeout
<1> QED BY <1>1, <1>2, <1>3 DEF Departure

-----------------------------------------------------------------------------
(* Steps of the environment and of requests.                               *)

\* The watcher, time and the network.
World ==
    \/ SendHeartbeat \/ (\E m \in Masters : HandleHeartbeat(m)) \/ LeaseExpires
    \/ DeadlinePasses \/ (\E m \in Masters : MasterDies(m))

\* The environment keeps the types.
LEMMA WorldType == ASSUME TransportInv, World PROVE TypeOK'
<1>1. CASE SendHeartbeat
  BY <1>1, ZenonT(60) DEF TransportInv, TypeOK, SendHeartbeat
<1>2. ASSUME NEW m \in Masters, HandleHeartbeat(m) PROVE TypeOK'
  <2>1. via' \in 0..MaxMasters
    BY <1>2, Numbers DEF HandleHeartbeat
  <2> QED BY <1>2, <2>1 DEF TransportInv, TypeOK, HandleHeartbeat
<1>3. CASE LeaseExpires
  BY <1>3, ZenonT(60) DEF TransportInv, TypeOK, LeaseExpires
<1>4. CASE DeadlinePasses
  BY <1>4, ZenonT(60) DEF TransportInv, TypeOK, DeadlinePasses
<1>5. ASSUME NEW m \in Masters, MasterDies(m) PROVE TypeOK'
  <2>1. alive' \subseteq Masters /\ served' \subseteq Endpoints
    BY <1>5 DEF TransportInv, TypeOK, MasterDies, Terminate
  <2> QED BY <1>5, <2>1, ZenonT(60) DEF TransportInv, TypeOK, MasterDies
<1> QED BY <1>1, <1>2, <1>3, <1>4, <1>5 DEF World

\* A heartbeat, an expiry or a death at any moment keeps the rest of the invariant.
LEMMA WorldSafe == ASSUME TransportInv, World PROVE Safe'
<1>1. CASE SendHeartbeat
  BY <1>1 DEF TransportInv, Safe, OneMaster, TunnelInv, AttemptInv, ShutdownInv, NothingLeft,
    SendHeartbeat
<1>2. ASSUME NEW m \in Masters, HandleHeartbeat(m) PROVE Safe'
  BY <1>2 DEF TransportInv, Safe, OneMaster, TunnelInv, AttemptInv, ShutdownInv, NothingLeft,
    HandleHeartbeat
<1>3. CASE LeaseExpires
  BY <1>3 DEF TransportInv, Safe, OneMaster, TunnelInv, AttemptInv, ShutdownInv, NothingLeft,
    LeaseExpires
<1>4. CASE DeadlinePasses
  BY <1>4 DEF TransportInv, Safe, OneMaster, TunnelInv, AttemptInv, ShutdownInv, NothingLeft,
    DeadlinePasses
<1>5. ASSUME NEW m \in Masters, MasterDies(m) PROVE Safe'
  BY <1>5 DEF TransportInv, Safe, OneMaster, TunnelInv, AttemptInv, ShutdownInv, NothingLeft,
    MasterDies, Terminate
<1> QED BY <1>1, <1>2, <1>3, <1>4, <1>5 DEF World

\* Some request is admitted or executed.
Serve == \E r \in Requests : Admit(r) \/ Execute(r)

\* Requests keep the types.
LEMMA ServeType == ASSUME TransportInv, Serve PROVE TypeOK'
<1>1. ASSUME NEW r \in Requests, Admit(r) PROVE TypeOK'
  BY <1>1 DEF TransportInv, TypeOK, Admit
<1>2. ASSUME NEW r \in Requests, OpenNothing(r) PROVE TypeOK'
  <2>1. stateFile' \in BOOLEAN /\ request' \in [Requests -> BOOLEAN]
    BY <1>2 DEF TransportInv, TypeOK, OpenNothing, Finish
  <2> QED BY <1>2, <2>1, ZenonT(60) DEF TransportInv, TypeOK, OpenNothing
<1>3. ASSUME NEW r \in Requests, NEW e \in Endpoints, Open(r, e) PROVE TypeOK'
  BY <1>3, ZenonT(60) DEF TransportInv, TypeOK, Open, Finish
<1>4. ASSUME NEW r \in Requests, NEW e \in Endpoints, Close(r, e) PROVE TypeOK'
  BY <1>4, ZenonT(60) DEF TransportInv, TypeOK, Close, Finish
<1> QED BY <1>1, <1>2, <1>3, <1>4 DEF Serve, Execute

\* A request executed at any moment after it was admitted keeps the rest.
LEMMA ServeSafe == ASSUME TransportInv, Serve PROVE Safe'
<1>1. ASSUME NEW r \in Requests, Admit(r) PROVE Safe'
  BY <1>1 DEF TransportInv, Safe, OneMaster, TunnelInv, AttemptInv, ShutdownInv, NothingLeft, Admit
<1>2. ASSUME NEW r \in Requests, OpenNothing(r) PROVE Safe'
  <2>1. main \notin {"remove state", "remove remote", "drop", "exited"}
    BY <1>2 DEF TransportInv, ShutdownInv, OpenNothing, Finish
  <2>2. stateFile => stateFile'
    BY <1>2 DEF OpenNothing
  <2> QED BY <1>2, <2>1, <2>2 DEF TransportInv, Safe, OneMaster, TunnelInv, AttemptInv,
    ShutdownInv, NothingLeft, OpenNothing
<1>3. ASSUME NEW r \in Requests, NEW e \in Endpoints, Open(r, e) PROVE Safe'
  BY <1>3 DEF TransportInv, Safe, OneMaster, TunnelInv, AttemptInv, ShutdownInv, NothingLeft, Open,
    Finish
<1>4. ASSUME NEW r \in Requests, NEW e \in Endpoints, Close(r, e) PROVE Safe'
  BY <1>4 DEF TransportInv, Safe, OneMaster, TunnelInv, AttemptInv, ShutdownInv, NothingLeft,
    Close, Finish
<1> QED BY <1>1, <1>2, <1>3, <1>4 DEF Serve, Execute

-----------------------------------------------------------------------------
\* Every step keeps the invariant.
LEMMA TransportStepInv == TransportInv /\ [Next]_vars => TransportInv'
<1> SUFFICES ASSUME TransportInv, [Next]_vars PROVE TypeOK' /\ Safe'
  BY DEF TransportInv, Safe
<1>1. CASE Supervise
  BY <1>1, SuperviseType, SuperviseSafe
<1>2. CASE Shutdown
  BY <1>2, ShutdownType, ShutdownSafe
<1>3. CASE Departure
  BY <1>3, DepartureType, DepartureSafe
<1>4. CASE World
  BY <1>4, WorldType, WorldSafe
<1>5. CASE Serve
  BY <1>5, ServeType, ServeSafe
<1>6. CASE UNCHANGED vars
  <2>1. UNCHANGED <<main, stop, sup, reconnecting, deadline, resumed, cur, masters, alive>>
    BY <1>6 DEF vars
  <2>2. UNCHANGED <<lease, via, beats, published, request, forwards, served, stateFile>>
    BY <1>6 DEF vars
  <2>3. TypeOK'
    BY <2>1, <2>2, ZenonT(60) DEF TransportInv, TypeOK
  <2>4. Safe'
    BY <2>1, <2>2 DEF TransportInv, Safe, OneMaster, TunnelInv, AttemptInv, ShutdownInv, NothingLeft
  <2> QED BY <2>3, <2>4
<1> QED BY <1>1, <1>2, <1>3, <1>4, <1>5, <1>6 DEF Next, Departure, World, Serve

\* Every step of every thread keeps the invariant that the theorems below rest on.
THEOREM TransportAlways == Spec => []TransportInv
BY TransportInitInv, TransportStepInv, PTL DEF Spec

\* The variables keep to their types, and requests are refused exactly while the
\* supervisor is in a recovery or has ended in one.
THEOREM TransportTypeCorrect == Spec => []TypeOK
<1>1. TransportInv => TypeOK
  BY DEF TransportInv
<1> QED BY <1>1, TransportAlways, PTL

\* Whatever is lost, told to stop or refused, and whenever: two masters never run at
\* once, a content supervisor serves every enabled forward, and an exited wrapper
\* leaves neither a state file nor a master behind.
THEOREM TransportIsSafe == Spec => []WrapperSafe
<1>1. TransportInv => WrapperSafe
  BY DEF TransportInv, TunnelInv, EverythingServed, WrapperSafe
<1> QED BY <1>1, TransportAlways, PTL

\* The supervisor ends a recovery only on a master that was replayed, persisted and
\* published in this attempt, after a heartbeat that was handled in this attempt.
THEOREM TransportRecovery == Spec => RecoveryIsWhole
<1> DEFINE Whole == reconnecting /\ ~reconnecting' =>
        /\ resumed /\ published = cur
        /\ cur \in alive => served = forwards
        /\ stateFile
<1>1. TransportInv /\ [Next]_vars => [Whole]_vars
  <2> SUFFICES ASSUME TransportInv, Next PROVE Whole
    OBVIOUS
  <2>1. CASE Recovered
    BY <2>1 DEF Recovered, Resumed, TransportInv, TunnelInv, AttemptInv
  <2>2. CASE Supervise /\ ~Recovered
    BY <2>2 DEF Supervise, Detect, StartAttempt, Connect, ConnectFails, EstablishReverse, Replay,
      Publish, AttemptFails, AwaitFails, Discard, Retry, GiveUp, Obey
  <2>3. CASE Shutdown
    BY <2>3 DEF Shutdown, JoinSupervisor, JoinServer, CloseAll, RemoveState, RemoveRemote,
      DropMaster
  <2>4. CASE Departure
    BY <2>4 DEF Departure, ClientExits, NoticeFailure, StartupTimeout
  <2>5. CASE World
    BY <2>5 DEF World, SendHeartbeat, HandleHeartbeat, LeaseExpires, DeadlinePasses,
      MasterDies
  <2>6. CASE Serve
    BY <2>6 DEF Serve, Admit, Execute, Open, Close, OpenNothing
  <2> QED BY <2>1, <2>2, <2>3, <2>4, <2>5, <2>6 DEF Next, Departure, World, Serve
<1> QED BY <1>1, TransportAlways, PTL DEF Spec, RecoveryIsWhole
=============================================================================
