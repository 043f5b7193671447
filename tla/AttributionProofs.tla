-------------------------- MODULE AttributionProofs --------------------------
(***************************************************************************)
(* Attribution, for any trees, history, sizes of page and window, and      *)
(* bounds.  The window of events that is loaded without a lock is whole.   *)
(* Where no line looks like a header to the parser (NoHeaders), the        *)
(* lineage follows the tree, the credit given is earned, and a removed     *)
(* line stays dead.                                                        *)
(*                                                                         *)
(* From the bottom: finite sets in order; pages and the window; alignments *)
(* of two files and the gaps between what they keep; a hunk, the hunks of  *)
(* a file and the files of a patch; the replay; what it says, beside the   *)
(* reference; and how long what it says has been so.                       *)
(***************************************************************************)
EXTENDS Attribution, TLAPS, FiniteSetTheorems, SequenceTheorems

-----------------------------------------------------------------------------
(* Finite sets in order.                                                   *)

\* A set of naturals has a least element.
LEMMA LeastNatural ==
  ASSUME NEW T, T \subseteq Nat, T # {}
  PROVE  \E n \in T : \A m \in T : n <= m
<1>1. PICK n \in T : \A m \in T : <<m, n>> \notin OpToRel(<, Nat)
  BY NatLessThanWellFounded, WFMin, Zenon
<1>2. ASSUME NEW m \in T, m < n
      PROVE  FALSE
  <2>1. <<m, n>> \in {ss \in Nat \X Nat : ss[1] < ss[2]}
    BY <1>2
  <2> QED BY <1>1, <2>1, Zenon DEF OpToRel
<1> QED BY <1>2

IsOrder(R, S) ==
  /\ \A a, b \in S : <<a, b>> \in R => <<b, a>> \notin R
  /\ \A a, b, c \in S : <<a, b>> \in R /\ <<b, c>> \in R => <<a, c>> \in R
  /\ \A a, b \in S : a = b \/ <<a, b>> \in R \/ <<b, a>> \in R

Below(R, S, x) == {y \in S : <<y, x>> \in R}

Sorted(s, R) == \A i, j \in DOMAIN s : i < j => <<s[i], s[j]>> \in R

\* An element of a finite ordered set is known by how many are below it.
LEMMA RankFacts ==
  ASSUME NEW S, IsFiniteSet(S), NEW R, IsOrder(R, S)
  PROVE  /\ \A x \in S : Cardinality(Below(R, S, x)) \in 0 .. Cardinality(S) - 1
         /\ \A x, y \in S : <<x, y>> \in R =>
              Cardinality(Below(R, S, x)) < Cardinality(Below(R, S, y))
<1>1. \A x \in S : IsFiniteSet(Below(R, S, x)) /\ Cardinality(Below(R, S, x)) \in Nat
  <2> TAKE x \in S
  <2>1. Below(R, S, x) \in SUBSET S
    BY DEF Below
  <2> QED BY <2>1, FS_Subset, FS_CardinalityType
<1>2. ASSUME NEW x \in S
      PROVE  Cardinality(Below(R, S, x)) \in 0 .. Cardinality(S) - 1
  <2>1. Below(R, S, x) \in SUBSET S /\ x \notin Below(R, S, x)
    BY DEF Below, IsOrder
  <2>2. Cardinality(Below(R, S, x)) <= Cardinality(S) /\ Cardinality(Below(R, S, x)) # Cardinality(S)
    BY <2>1, FS_Subset
  <2> QED BY <1>1, <2>2, FS_CardinalityType
<1>3. ASSUME NEW x \in S, NEW y \in S, <<x, y>> \in R
      PROVE  Cardinality(Below(R, S, x)) < Cardinality(Below(R, S, y))
  <2>1. Below(R, S, x) \in SUBSET Below(R, S, y)
    BY <1>3 DEF Below, IsOrder
  <2>2. x \in Below(R, S, y) /\ x \notin Below(R, S, x)
    BY <1>3 DEF Below, IsOrder
  <2>3. IsFiniteSet(Below(R, S, y))
    BY <1>1
  <2>4. Cardinality(Below(R, S, x)) <= Cardinality(Below(R, S, y))
        /\ Cardinality(Below(R, S, x)) # Cardinality(Below(R, S, y))
    BY <2>1, <2>2, <2>3, FS_Subset
  <2> QED BY <1>1, <2>4
<1> QED BY <1>2, <1>3

\* Every finite ordered set can be written in its order.
LEMMA SortedExists ==
  ASSUME NEW S, IsFiniteSet(S), NEW R, IsOrder(R, S)
  PROVE  \E s \in [1 .. Cardinality(S) -> S] : Sorted(s, R)
<1> DEFINE n == Cardinality(S)
           Rank == [x \in S |-> Cardinality(Below(R, S, x)) + 1]
           s == [k \in 1 .. n |-> CHOOSE x \in S : Rank[x] = k]
<1>1. n \in Nat
  BY FS_CardinalityType
<1>2. \A x \in S : Rank[x] \in 1 .. n
  BY <1>1, RankFacts
<1>3. \A x, y \in S : <<x, y>> \in R => Rank[x] < Rank[y]
  <2> TAKE x, y \in S
  <2> HAVE <<x, y>> \in R
  <2>1. Cardinality(Below(R, S, x)) < Cardinality(Below(R, S, y))
    BY RankFacts
  <2>2. /\ Cardinality(Below(R, S, x)) \in 0 .. n - 1
        /\ Cardinality(Below(R, S, y)) \in 0 .. n - 1
    BY RankFacts
  <2> QED BY <1>1, <2>1, <2>2
<1> HIDE DEF n
<1>4. Rank \in Injection(S, 1 .. n)
  <2>1. \A x, y \in S : Rank[x] = Rank[y] => x = y
    <3> HIDE DEF Rank
    <3> TAKE x, y \in S
    <3> HAVE Rank[x] = Rank[y]
    <3>1. Rank[x] \in Nat /\ Rank[y] \in Nat
      BY <1>1, <1>2
    <3>2. <<x, y>> \notin R /\ <<y, x>> \notin R
      BY <1>3, <3>1
    <3> QED BY <3>2 DEF IsOrder
  <2>2. Rank \in [S -> 1 .. n]
    BY <1>2
  <2>3. DOMAIN Rank = S
    OBVIOUS
  <2> HIDE DEF Rank
  <2> QED BY <2>1, <2>2, <2>3 DEF Injection, IsInjective
<1>5. Rank \in Surjection(S, 1 .. n)
  <2>1. IsFiniteSet(1 .. n) /\ Cardinality(1 .. n) = n
    BY <1>1, FS_Interval
  <2>2. Cardinality(S) = Cardinality(1 .. n) <=> Rank \in Surjection(S, 1 .. n)
    BY <1>4, <2>1, FS_Injection
  <2> QED BY <2>1, <2>2 DEF n
<1>6. \A k \in 1 .. n : s[k] \in S /\ Rank[s[k]] = k
  <2> HIDE DEF Rank
  <2>1. \A k \in 1 .. n : \E x \in S : Rank[x] = k
    BY <1>5 DEF Surjection
  <2> QED BY <2>1
<1>7. \A i, j \in 1 .. n : i < j => <<s[i], s[j]>> \in R
  <2> HIDE DEF s, Rank
  <2> TAKE i, j \in 1 .. n
  <2> HAVE i < j
  <2>1. s[i] \in S /\ s[j] \in S /\ Rank[s[i]] = i /\ Rank[s[j]] = j
    BY <1>6
  <2>2. s[i] # s[j] /\ <<s[j], s[i]>> \notin R
    BY <1>1, <1>3, <2>1
  <2> QED BY <2>1, <2>2 DEF IsOrder
<1>8. s \in [1 .. n -> S] /\ DOMAIN s = 1 .. n
  BY <1>6
<1> HIDE DEF s
<1> QED BY <1>7, <1>8 DEF Sorted, n

\* What is sorted has every element, once, and each in the place of its rank.
InPlace(s, R, S) ==
  /\ \A i, j \in 1 .. Cardinality(S) : s[i] = s[j] => i = j
  /\ \A i, j \in 1 .. Cardinality(S) : i < j <=> <<s[i], s[j]>> \in R
  /\ \A x \in S : \E i \in 1 .. Cardinality(S) : s[i] = x
  /\ \A i \in 1 .. Cardinality(S) : Cardinality(Below(R, S, s[i])) = i - 1

LEMMA SortedFacts ==
  ASSUME NEW S, IsFiniteSet(S), NEW R, IsOrder(R, S),
         NEW s \in [1 .. Cardinality(S) -> S], Sorted(s, R)
  PROVE  InPlace(s, R, S)
<1> DEFINE n == Cardinality(S)
<1>1. n \in Nat /\ s \in [1 .. n -> S]
  BY FS_CardinalityType
<1> HIDE DEF n
<1>2. \A i, j \in 1 .. n : i < j => <<s[i], s[j]>> \in R
  BY <1>1 DEF Sorted
<1>3. ASSUME NEW i \in 1 .. n, NEW j \in 1 .. n, s[i] = s[j]
      PROVE  i = j
  <2>1. s[i] \in S /\ <<s[i], s[i]>> \notin R
    BY <1>1 DEF IsOrder
  <2>2. ~(i < j) /\ ~(j < i)
    BY <1>2, <1>3, <2>1
  <2> QED BY <1>1, <2>2
<1>4. ASSUME NEW i \in 1 .. n, NEW j \in 1 .. n, <<s[i], s[j]>> \in R
      PROVE  i < j
  <2>1. s[i] \in S /\ s[j] \in S /\ <<s[j], s[i]>> \notin R
    BY <1>1, <1>4 DEF IsOrder
  <2>2. i # j /\ ~(j < i)
    BY <1>2, <1>4, <2>1
  <2> QED BY <1>1, <2>2
<1>5. s \in Injection(1 .. n, S) /\ s \in Surjection(1 .. n, S)
  <2>1. DOMAIN s = 1 .. n
    BY <1>1
  <2>2. s \in Injection(1 .. n, S)
    BY <1>1, <1>3, <2>1 DEF Injection, IsInjective
  <2>3. IsFiniteSet(1 .. n) /\ Cardinality(1 .. n) = n
    BY <1>1, FS_Interval
  <2>4. Cardinality(1 .. n) = Cardinality(S) <=> s \in Surjection(1 .. n, S)
    BY <2>2, FS_Injection
  <2> QED BY <2>2, <2>3, <2>4 DEF n
<1>6. \A x \in S : \E i \in 1 .. n : s[i] = x
  BY <1>5 DEF Surjection
<1>7. ASSUME NEW i \in 1 .. n
      PROVE  Cardinality(Below(R, S, s[i])) = i - 1
  <2> DEFINE T == Below(R, S, s[i])
             t == [k \in 1 .. i - 1 |-> s[k]]
  <2>1. i \in Nat /\ i <= n
    BY <1>1
  <2>2. \A k \in 1 .. i - 1 : k \in 1 .. n /\ k < i /\ s[k] \in S
    <3>1. \A k \in 1 .. i - 1 : k \in 1 .. n /\ k < i
      BY <1>1, <2>1
    <3> QED BY <1>1, <3>1
  <2>3. \A k \in 1 .. i - 1 : s[k] \in T
    BY <1>2, <2>2 DEF Below
  <2>4. \A x \in T : \E k \in 1 .. i - 1 : s[k] = x
    <3> TAKE x \in T
    <3>1. x \in S /\ <<x, s[i]>> \in R
      BY DEF Below
    <3>2. PICK k \in 1 .. n : s[k] = x
      BY <1>6, <3>1
    <3>3. k < i
      BY <1>4, <3>1, <3>2
    <3> QED BY <1>1, <3>2, <3>3
  <2> HIDE DEF T
  <2>5. t \in [1 .. i - 1 -> T] /\ DOMAIN t = 1 .. i - 1
    BY <2>3
  <2>6. \A k \in 1 .. i - 1 : t[k] = s[k]
    OBVIOUS
  <2> HIDE DEF t
  <2>7. t \in Surjection(1 .. i - 1, T)
    BY <2>4, <2>5, <2>6 DEF Surjection
  <2>8. t \in Injection(1 .. i - 1, T)
    BY <1>3, <2>2, <2>5, <2>6 DEF Injection, IsInjective
  <2>9. ExistsBijection(1 .. i - 1, T) /\ i - 1 \in Nat
    BY <2>1, <2>7, <2>8 DEF ExistsBijection, Bijection
  <2> QED BY <2>9, FS_CountingElements DEF T
<1> QED BY <1>2, <1>3, <1>4, <1>6, <1>7 DEF n, InPlace

\* The orders that the model sorts by.
Upward(S) == {ab \in S \X S : ab[1] < ab[2]}
Downward(S) == {ab \in S \X S : ab[1] > ab[2]}

LEMMA AscendingFacts ==
  ASSUME NEW S, S \subseteq Int, IsFiniteSet(S)
  PROVE  /\ InOrder(S, <) \in [1 .. Cardinality(S) -> S]
         /\ \A i, j \in 1 .. Cardinality(S) : i < j <=> InOrder(S, <)[i] < InOrder(S, <)[j]
         /\ \A x \in S : \E i \in 1 .. Cardinality(S) : InOrder(S, <)[i] = x
         /\ \A i \in 1 .. Cardinality(S) : Cardinality({x \in S : x < InOrder(S, <)[i]}) = i - 1
<1> DEFINE n == Cardinality(S)
           R == Upward(S)
           P(t) == \A i, j \in DOMAIN t : i < j => t[i] < t[j]
<1>1. IsOrder(R, S)
  BY DEF IsOrder, Upward
<1>2. PICK s \in [1 .. n -> S] : Sorted(s, R)
  BY <1>1, SortedExists
<1>3. P(s)
  BY <1>2 DEF Sorted, Upward
<1>4. InOrder(S, <) = CHOOSE t \in [1 .. n -> S] : P(t)
  BY DEF InOrder
<1>5. InOrder(S, <) \in [1 .. n -> S] /\ P(InOrder(S, <))
  <2> HIDE DEF P
  <2> QED BY <1>3, <1>4, Zenon
<1> DEFINE all == InOrder(S, <)
<1> HIDE DEF all
<1>6. all \in [1 .. n -> S] /\ Sorted(all, R)
  BY <1>5 DEF Sorted, Upward, all
<1>7. \A x, y \in S : <<x, y>> \in R <=> x < y
  BY DEF Upward
<1>8. \A x \in S : Below(R, S, x) = {y \in S : y < x}
  BY <1>7 DEF Below
<1> HIDE DEF R
<1>9. /\ \A i, j \in 1 .. n : i < j <=> <<all[i], all[j]>> \in R
      /\ \A x \in S : \E i \in 1 .. n : all[i] = x
      /\ \A i \in 1 .. n : Cardinality(Below(R, S, all[i])) = i - 1
  <2>1. InPlace(all, R, S)
    BY <1>1, <1>6, SortedFacts
  <2> QED BY <2>1 DEF InPlace
<1>10. \A i \in 1 .. n : all[i] \in S
  BY <1>6
<1> HIDE DEF n
<1>11. \A i, j \in 1 .. n : i < j <=> all[i] < all[j]
  BY <1>7, <1>9, <1>10
<1>12. \A i \in 1 .. n : Cardinality({x \in S : x < all[i]}) = i - 1
  BY <1>8, <1>9, <1>10
<1> QED BY <1>5, <1>9, <1>11, <1>12 DEF all, n

LEMMA DescendingFacts ==
  ASSUME NEW S, S \subseteq Int, IsFiniteSet(S)
  PROVE  /\ Descending(S) \in [1 .. Cardinality(S) -> S]
         /\ \A i, j \in 1 .. Cardinality(S) : i < j <=> Descending(S)[i] > Descending(S)[j]
         /\ \A x \in S : \E i \in 1 .. Cardinality(S) : Descending(S)[i] = x
         /\ \A i \in 1 .. Cardinality(S) : Cardinality({x \in S : x > Descending(S)[i]}) = i - 1
<1> DEFINE n == Cardinality(S)
           R == Downward(S)
           P(t) == \A i, j \in DOMAIN t : i < j => t[i] > t[j]
<1>1. IsOrder(R, S)
  BY DEF IsOrder, Downward
<1>2. PICK s \in [1 .. n -> S] : Sorted(s, R)
  BY <1>1, SortedExists
<1>3. P(s)
  BY <1>2 DEF Sorted, Downward
<1>4. Descending(S) = CHOOSE t \in [1 .. n -> S] : P(t)
  BY DEF Descending, InOrder
<1>5. Descending(S) \in [1 .. n -> S] /\ P(Descending(S))
  <2> HIDE DEF P
  <2> QED BY <1>3, <1>4, Zenon
<1> DEFINE all == Descending(S)
<1> HIDE DEF all
<1>6. all \in [1 .. n -> S] /\ Sorted(all, R)
  BY <1>5 DEF Sorted, Downward, all
<1>7. \A x, y \in S : <<x, y>> \in R <=> x > y
  BY DEF Downward
<1>8. \A x \in S : Below(R, S, x) = {y \in S : y > x}
  BY <1>7 DEF Below
<1> HIDE DEF R
<1>9. /\ \A i, j \in 1 .. n : i < j <=> <<all[i], all[j]>> \in R
      /\ \A x \in S : \E i \in 1 .. n : all[i] = x
      /\ \A i \in 1 .. n : Cardinality(Below(R, S, all[i])) = i - 1
  <2>1. InPlace(all, R, S)
    BY <1>1, <1>6, SortedFacts
  <2> QED BY <2>1 DEF InPlace
<1>10. \A i \in 1 .. n : all[i] \in S
  BY <1>6
<1> HIDE DEF n
<1>11. \A i, j \in 1 .. n : i < j <=> all[i] > all[j]
  BY <1>7, <1>9, <1>10
<1>12. \A i \in 1 .. n : Cardinality({x \in S : x > all[i]}) = i - 1
  BY <1>8, <1>9, <1>10
<1> QED BY <1>5, <1>9, <1>11, <1>12 DEF all, n

-----------------------------------------------------------------------------
(* The window: pages are loaded while events are recorded and pruned.      *)

LEMMA LesserOfTwo ==
  ASSUME NEW a \in Int, NEW b \in Int
  PROVE  Min({a, b}) = IF a <= b THEN a ELSE b
<1>1. \E x \in {a, b} : \A y \in {a, b} : x <= y
  OBVIOUS
<1>2. Min({a, b}) \in {a, b} /\ \A y \in {a, b} : Min({a, b}) <= y
  BY <1>1 DEF Min
<1> QED BY <1>2

\* A page has the newest of the revisions below, in descending order, and when it is
\* short all of them.
IsPage(page, revisions, below, limit) ==
  /\ page \in Seq(Nat) /\ Len(page) <= limit
  /\ \A i \in 1 .. Len(page) : page[i] \in revisions /\ page[i] < below
  /\ \A i, j \in 1 .. Len(page) : i < j => page[i] > page[j]
  /\ \A r \in revisions :
       r < below => \/ \E i \in 1 .. Len(page) : page[i] = r
                    \/ Len(page) = limit /\ r < page[Len(page)]

LEMMA PageFacts ==
  ASSUME stored \subseteq Nat, IsFiniteSet(stored), NEW below \in Int, NEW limit \in Nat \ {0}
  PROVE  IsPage(Page(below, limit), stored, below, limit)
<1> DEFINE C == {r \in stored : r < below}
           all == Descending(C)
           n == Cardinality(C)
           m == IF limit <= n THEN limit ELSE n
           page == Page(below, limit)
<1>1. C \subseteq Nat /\ C \subseteq Int /\ IsFiniteSet(C)
  <2>1. C \in SUBSET stored
    OBVIOUS
  <2> HIDE DEF C
  <2>2. IsFiniteSet(C)
    BY <2>1, FS_Subset
  <2> QED BY <2>1, <2>2
<1> HIDE DEF C
<1>2. n \in Nat
  BY <1>1, FS_CardinalityType
<1>3. /\ all \in [1 .. n -> C]
      /\ \A i, j \in 1 .. n : i < j <=> all[i] > all[j]
      /\ \A r \in C : \E i \in 1 .. n : all[i] = r
  BY <1>1, DescendingFacts
<1>5. page = SubSeq(all, 1, Min({limit, Len(all)}))
  BY DEF Page, C
<1> HIDE DEF all, n, page
<1>6. all \in Seq(C) /\ Len(all) = n /\ all \in Seq(Nat)
  <2>1. all \in Seq(C) /\ Len(all) = n
    BY <1>2, <1>3
  <2>2. all \in [1 .. n -> Nat]
    BY <1>1, <1>3
  <2>3. all \in Seq(Nat)
    BY <1>2, <2>2
  <2> QED BY <2>1, <2>3
<1>7. Min({limit, Len(all)}) = m
  BY <1>2, <1>6, LesserOfTwo
<1>8. m \in Nat /\ m <= n /\ m <= limit /\ (m < n => m = limit)
  BY <1>2
<1> HIDE DEF m
<1>9. page \in Seq(Nat) /\ Len(page) = m /\ \A i \in 1 .. m : page[i] = all[i]
  <2>1. page = SubSeq(all, 1, m)
    BY <1>5, <1>7
  <2>2. page = [i \in 1 .. m |-> all[i]]
    BY <1>2, <1>6, <1>8, <2>1
  <2>3. \A i \in 1 .. m : all[i] \in Nat
    BY <1>2, <1>6, <1>8
  <2> QED BY <1>8, <2>2, <2>3
<1>10. \A i \in 1 .. n : all[i] \in C
  BY <1>3
<1>12. \A i \in 1 .. m : i \in 1 .. n
  BY <1>2, <1>8
<1>13. \A i \in 1 .. m : page[i] \in stored /\ page[i] < below
  BY <1>9, <1>10, <1>12 DEF C
<1>14. \A i, j \in 1 .. m : i < j => page[i] > page[j]
  BY <1>3, <1>9, <1>12
<1>15. ASSUME NEW r \in stored, r < below, ~ \E i \in 1 .. m : page[i] = r
       PROVE  m = limit /\ r < page[m]
  <2>1. PICK i \in 1 .. n : all[i] = r
    BY <1>3, <1>15 DEF C
  <2>2. ~(i <= m)
    BY <1>9, <1>15, <2>1, <1>2, <1>8
  <2>3. m = limit /\ m \in 1 .. n /\ m < i
    BY <1>2, <1>8, <2>2
  <2> QED BY <1>3, <1>9, <2>1, <2>3
<1> QED BY <1>8, <1>9, <1>13, <1>14, <1>15 DEF IsPage, page

\* What has been loaded: revisions in descending order, up to the cut, and all that are
\* stored from there to the last one.
Bottom(rows, cut) == IF rows = <<>> THEN cut + 1 ELSE rows[Len(rows)]

IsWindow(rows, cut, revisions) ==
  /\ rows \in Seq(Nat) /\ Len(rows) <= MaxEvents
  /\ \A i \in 1 .. Len(rows) : rows[i] <= cut
  /\ \A i, j \in 1 .. Len(rows) : i < j => rows[i] > rows[j]
  /\ \A r \in revisions :
       Bottom(rows, cut) <= r /\ r <= cut => \E i \in 1 .. Len(rows) : rows[i] = r

LEMMA WindowGrows ==
  ASSUME NEW revisions \in SUBSET Nat, NEW cut \in Nat, NEW rows, IsWindow(rows, cut, revisions),
         NEW limit \in Nat, NEW page,
         IsPage(page, revisions, Bottom(rows, cut), limit), Len(rows) + limit <= MaxEvents
  PROVE  IsWindow(rows \o page, cut, revisions)
<1> DEFINE all == rows \o page
           n == Len(rows)
           k == Len(page)
<1>1. rows \in Seq(Nat) /\ page \in Seq(Nat) /\ n \in Nat /\ k \in Nat /\ k <= limit
  BY DEF IsWindow, IsPage
<1>2. all \in Seq(Nat) /\ Len(all) = n + k
  BY <1>1, ConcatProperties
<1>3. /\ \A i \in 1 .. n : all[i] = rows[i] /\ all[i] \in Nat /\ rows[i] \in Nat
      /\ \A i \in n + 1 .. n + k : all[i] = page[i - n] /\ i - n \in 1 .. k /\ all[i] \in Nat
  <2>1. \A i \in 1 .. n + k : all[i] = IF i <= n THEN rows[i] ELSE page[i - n]
    BY <1>1, ConcatProperties
  <2>2. \A i \in 1 .. n : rows[i] \in Nat
    BY <1>1
  <2>3. \A i \in 1 .. k : page[i] \in Nat
    BY <1>1
  <2> HIDE DEF all, n, k
  <2>4. \A i \in 1 .. n : i <= n /\ i \in 1 .. n + k
    BY <1>1
  <2>5. \A i \in n + 1 .. n + k : ~(i <= n) /\ i \in 1 .. n + k /\ i - n \in 1 .. k
    BY <1>1
  <2>6. \A i \in 1 .. n : all[i] = rows[i]
    BY <2>1, <2>4
  <2>7. \A i \in n + 1 .. n + k : all[i] = page[i - n]
    BY <2>1, <2>5
  <2> QED BY <2>2, <2>3, <2>5, <2>6, <2>7
<1>4. n # 0 => Bottom(rows, cut) = rows[n] /\ n \in 1 .. n
  BY <1>1 DEF Bottom
<1>5. n = 0 => rows = <<>> /\ Bottom(rows, cut) = cut + 1
  BY <1>1 DEF Bottom
<1>6. Bottom(rows, cut) <= cut + 1 /\ Bottom(rows, cut) \in Nat
  <2>1. CASE n # 0
    BY <2>1, <1>1, <1>3, <1>4 DEF IsWindow
  <2> QED BY <2>1, <1>5
<1> HIDE DEF all, n, k
<1>7. ASSUME NEW i \in n + 1 .. n + k
      PROVE  all[i] < Bottom(rows, cut) /\ all[i] \in revisions
  BY <1>1, <1>3, <1>7 DEF IsPage, k
<1>8. ASSUME NEW i \in 1 .. n + k
      PROVE  all[i] <= cut
  <2>1. CASE i \in 1 .. n
    BY <2>1, <1>3 DEF IsWindow, n
  <2>2. CASE i \in n + 1 .. n + k
    BY <2>2, <1>3, <1>6, <1>7
  <2> QED BY <1>1, <2>1, <2>2
<1>9. ASSUME NEW i \in 1 .. n + k, NEW j \in 1 .. n + k, i < j
      PROVE  all[i] > all[j]
  <2>1. CASE j \in 1 .. n
    <3>1. i \in 1 .. n
      BY <1>1, <1>9, <2>1
    <3> QED BY <1>3, <1>9, <2>1, <3>1 DEF IsWindow, n
  <2>2. CASE i \in n + 1 .. n + k
    <3>1. j \in n + 1 .. n + k
      BY <1>1, <1>9, <2>2
    <3>2. i - n \in 1 .. k /\ j - n \in 1 .. k /\ i - n < j - n
      BY <1>1, <1>3, <1>9, <2>2, <3>1
    <3>3. page[i - n] > page[j - n]
      BY <3>2 DEF IsPage, k
    <3> QED BY <1>3, <2>2, <3>1, <3>3
  <2>3. CASE i \in 1 .. n /\ j \in n + 1 .. n + k
    <3>1. n # 0
      BY <1>1, <2>3
    <3>2. all[i] >= rows[n]
      <4>1. CASE i = n
        BY <4>1, <1>3, <2>3
      <4>2. CASE i # n
        <5>1. i < n /\ n \in 1 .. n
          BY <1>1, <2>3, <4>2
        <5>2. rows[i] > rows[n]
          BY <2>3, <5>1 DEF IsWindow, n
        <5> QED BY <1>3, <2>3, <5>1, <5>2
      <4> QED BY <4>1, <4>2
    <3>3. all[j] < rows[n]
      BY <1>4, <1>7, <2>3, <3>1
    <3>4. rows[n] \in Nat /\ all[i] \in Nat /\ all[j] \in Nat
      BY <1>3, <1>4, <2>3, <3>1
    <3> QED BY <3>2, <3>3, <3>4
  <2> QED BY <1>1, <2>1, <2>2, <2>3
<1>10. ASSUME NEW r \in revisions, Bottom(all, cut) <= r, r <= cut
       PROVE  \E i \in 1 .. n + k : all[i] = r
  <2>1. CASE Bottom(rows, cut) <= r
    <3>1. PICK i \in 1 .. n : rows[i] = r
      BY <1>10, <2>1 DEF IsWindow, n
    <3>2. i \in 1 .. n + k /\ all[i] = r
      BY <1>1, <1>3, <3>1
    <3> QED BY <3>2
  <2>2. CASE r < Bottom(rows, cut) /\ \E i \in 1 .. k : page[i] = r
    <3>1. PICK i \in 1 .. k : page[i] = r
      BY <2>2
    <3>2. n + i \in n + 1 .. n + k /\ n + i \in 1 .. n + k /\ (n + i) - n = i
      BY <1>1
    <3> QED BY <1>3, <3>1, <3>2
  <2>3. CASE r < Bottom(rows, cut) /\ ~ \E i \in 1 .. k : page[i] = r
    <3>1. k = limit /\ r < page[k]
      BY <2>3 DEF IsPage, k
    <3>2. CASE k = 0
      <4>1. all = rows
        BY <1>1, <3>2 DEF all, k
      <4> QED BY <1>6, <1>10, <2>3, <4>1
    <3>3. CASE k # 0
      <4>1. n + k \in n + 1 .. n + k /\ (n + k) - n = k
        BY <1>1, <3>3
      <4>2. all # <<>> /\ Bottom(all, cut) = all[n + k]
        BY <1>1, <1>2, <3>3 DEF Bottom
      <4>3. all[n + k] = page[k]
        BY <1>3, <4>1
      <4>4. page[k] \in Nat
        BY <1>3, <4>1, <4>3
      <4> QED BY <1>10, <3>1, <4>2, <4>3, <4>4
    <3> QED BY <3>2, <3>3
  <2> QED BY <1>6, <1>10, <2>1, <2>2, <2>3
<1>11. n + k <= MaxEvents
  BY <1>1, PagesArePositive DEF n
<1> QED BY <1>2, <1>8, <1>9, <1>10, <1>11 DEF IsWindow, all

Row == [before : Trees, after : Trees, origin : Origins]

Phases == {"idle", "cut", "page", "baseline", "replay", "done"}

HookFields == {"pc", "paths", "cut", "below", "rows", "left", "lineage", "commit", "tree"}

IsHook(h) == DOMAIN h = HookFields /\ h = [f \in HookFields |-> h[f]] /\ h.pc \in Phases

\* Revisions number the movements; nothing of after the cut is in the window, and while
\* pages are loaded the next one starts where the last one ended.
WindowInv ==
  /\ cursor \in Trees /\ moves \in Seq(Row) /\ stored \subseteq 1 .. Len(moves)
  /\ IsHook(hook)
  /\ hook.cut \in Nat /\ hook.cut <= Len(moves)
  /\ IsWindow(hook.rows, hook.cut, stored)
  /\ \A i \in 1 .. Len(hook.rows) : hook.rows[i] >= 1
  /\ hook.pc \in {"idle", "cut"} => hook.rows = <<>> /\ hook.cut = 0
  /\ hook.pc = "page" => /\ Len(hook.rows) < MaxEvents
                         /\ hook.below = Bottom(hook.rows, hook.cut)

LEMMA StoredFacts ==
  ASSUME moves \in Seq(Row), stored \subseteq 1 .. Len(moves)
  PROVE  /\ stored \in SUBSET Nat /\ IsFiniteSet(stored) /\ Len(moves) \in Nat
         /\ stored # {} => /\ Max(stored) \in stored
                           /\ \A r \in stored : r <= Max(stored)
<1>1. Len(moves) \in Nat
  OBVIOUS
<1>2. IsFiniteSet(1 .. Len(moves)) /\ stored \in SUBSET (1 .. Len(moves))
  BY <1>1, FS_Interval
<1>3. IsFiniteSet(stored)
  BY <1>2, FS_Subset
<1>4. ASSUME stored # {}
      PROVE  \E x \in stored : \A y \in stored : x >= y
  <2> DEFINE T == {n \in Nat : \E x \in stored : x + n = Len(moves)}
  <2>1. PICK x \in stored : TRUE
    BY <1>4
  <2>2. Len(moves) - x \in T
    BY <1>1, <2>1
  <2>3. T \subseteq Nat /\ T # {}
    BY <2>2
  <2> HIDE DEF T
  <2>4. PICK n \in T : \A m \in T : n <= m
    BY <2>3, LeastNatural
  <2>5. PICK z \in stored : z + n = Len(moves) /\ n \in Nat
    BY <2>4 DEF T
  <2>6. ASSUME NEW y \in stored
        PROVE  z >= y
    <3>1. Len(moves) - y \in T
      BY <1>1 DEF T
    <3>2. n <= Len(moves) - y
      BY <2>4, <3>1
    <3> QED BY <1>1, <2>5, <3>2
  <2> QED BY <2>6
<1>5. stored # {} => Max(stored) \in stored /\ \A y \in stored : Max(stored) >= y
  <2> DEFINE S == stored
             P(x) == \A y \in S : x >= y
  <2>1. Max(S) = CHOOSE x \in S : P(x)
    BY DEF Max
  <2>2. S # {} => \E x \in S : P(x)
    BY <1>4
  <2> HIDE DEF P
  <2>3. S # {} => Max(S) \in S /\ P(Max(S))
    BY <2>1, <2>2, Zenon
  <2> QED BY <2>3 DEF P
<1>6. \A y \in stored : y \in Nat
  BY <1>1
<1> QED BY <1>1, <1>3, <1>5, <1>6

LEMMA InitWindow == Init => WindowInv
<1> SUFFICES ASSUME Init PROVE WindowInv
  OBVIOUS
<1>1. hook = Idle /\ moves = <<>> /\ stored = {}
  BY DEF Init
<1>2. IsHook(hook)
  BY <1>1 DEF Idle, HookFields, IsHook, Phases
<1>3. hook.pc = "idle" /\ hook.cut = 0 /\ hook.rows = <<>>
  BY <1>1 DEF Idle
<1>4. Len(moves) = 0 /\ moves \in Seq(Row)
  BY <1>1
<1>6. cursor \in Trees
  BY DEF Init
<1>5. IsWindow(<<>>, 0, {})
  BY PagesArePositive DEF IsWindow
<1> QED BY <1>1, <1>2, <1>3, <1>4, <1>5, <1>6 DEF WindowInv

\* A step that leaves the window alone keeps it.
LeavesWindow ==
  /\ moves' = moves /\ stored' = stored /\ cursor' = cursor /\ IsHook(hook')
  /\ hook'.cut = hook.cut /\ hook'.rows = hook.rows /\ hook'.below = hook.below
  /\ \/ hook'.pc = hook.pc \/ hook'.pc \notin {"idle", "cut", "page"}
     \/ hook.pc = "idle" /\ hook'.pc = "cut"

LEMMA WindowKept == WindowInv /\ LeavesWindow => WindowInv'
<1> SUFFICES ASSUME WindowInv, LeavesWindow PROVE WindowInv'
  OBVIOUS
<1> USE DEF LeavesWindow
<1>1. IsWindow(hook'.rows, hook'.cut, stored')
  BY DEF WindowInv
<1>2. Bottom(hook'.rows, hook'.cut) = Bottom(hook.rows, hook.cut)
  OBVIOUS
<1>3. hook'.pc = "page" => hook.pc = "page"
  OBVIOUS
<1>4. hook'.pc \in {"idle", "cut"} => hook.pc \in {"idle", "cut"}
  OBVIOUS
<1> QED BY <1>1, <1>2, <1>3, <1>4 DEF WindowInv, IsHook

LEMMA WindowStep == WindowInv /\ [Next]_vars => WindowInv'
<1> SUFFICES ASSUME WindowInv, [Next]_vars
             PROVE  WindowInv'
  OBVIOUS
<1> USE DEF Phases
<1>1. IsHook(hook)
  BY DEF WindowInv
<1>2. CASE Boundary
  <2>1. PICK t \in Trees \ {cursor}, origin \in Origins :
          /\ moves' = Append(moves, [before |-> cursor, after |-> t, origin |-> origin])
          /\ stored' = IF origin = "unobserved" THEN stored ELSE stored \cup {Len(moves')}
    BY <1>2 DEF Boundary
  <2>2. hook' = hook /\ cursor \in Trees
    BY <1>2 DEF Boundary, WindowInv
  <2>3. /\ moves \in Seq(Row) /\ stored \subseteq 1 .. Len(moves)
        /\ hook.cut \in Nat /\ hook.cut <= Len(moves)
    BY DEF WindowInv
  <2>4. [before |-> cursor, after |-> t, origin |-> origin] \in Row
    BY <2>2 DEF Row
  <2>5. moves' \in Seq(Row) /\ Len(moves') = Len(moves) + 1 /\ Len(moves) \in Nat
    BY <2>1, <2>3, <2>4
  <2>6. stored' \subseteq stored \cup {Len(moves) + 1}
    BY <2>1, <2>5
  <2>7. stored' \subseteq 1 .. Len(moves')
    BY <2>3, <2>5, <2>6
  <2>8. \A r \in stored' : r <= hook.cut => r \in stored
    BY <2>3, <2>5, <2>6
  <2>9. IsWindow(hook.rows, hook.cut, stored')
    BY <2>8 DEF WindowInv, IsWindow
  <2>10. hook.cut <= Len(moves')
    BY <2>3, <2>5
  <2>11. cursor' \in Trees
    BY <1>2 DEF Boundary
  <2> QED BY <2>2, <2>5, <2>7, <2>9, <2>10, <2>11 DEF WindowInv
<1>3. CASE LoseTree
  BY <1>1, <1>3, WindowKept DEF IsHook, LeavesWindow, LoseTree
<1>4. CASE Prune
  <2>1. stored' \subseteq stored /\ UNCHANGED <<cursor, moves, hook>>
    BY <1>4 DEF Prune
  <2>2. IsWindow(hook.rows, hook.cut, stored')
    BY <2>1 DEF WindowInv, IsWindow
  <2> QED BY <2>1, <2>2 DEF WindowInv
<1>5. CASE Commit
  <2>1. PICK t, paths : hook' = [hook EXCEPT !.pc = "cut", !.commit = t, !.paths = paths]
    BY <1>5 DEF Commit
  <2>2. UNCHANGED <<cursor, moves, stored>> /\ hook.pc = "idle"
    BY <1>5 DEF Commit
  <2> QED BY <1>1, <2>1, <2>2, WindowKept DEF IsHook, LeavesWindow, HookFields
<1>6. CASE CaptureRevisionCut
  <2>1. UNCHANGED <<cursor, moves, stored>> /\ hook.pc = "cut"
    BY <1>6 DEF CaptureRevisionCut, Unchanged
  <2>2. CASE stored = {}
    <3>1. hook' = [hook EXCEPT !.pc = "done"]
      BY <1>6, <2>2 DEF CaptureRevisionCut
    <3> QED BY <1>1, <2>1, <3>1, WindowKept DEF IsHook, LeavesWindow, HookFields
  <2>3. CASE stored # {}
    <3>1. hook' = [hook EXCEPT !.pc = "page", !.cut = Max(stored), !.below = Max(stored) + 1]
      BY <1>6, <2>3 DEF CaptureRevisionCut
    <3>2. Max(stored) \in stored /\ \A r \in stored : r <= Max(stored)
      BY <2>3, StoredFacts DEF WindowInv
    <3>3. hook.rows = <<>> /\ cursor \in Trees /\ stored \in SUBSET Nat /\ Len(moves) \in Nat
          /\ stored \subseteq 1 .. Len(moves)
      BY <2>1, StoredFacts DEF WindowInv
    <3>4. Max(stored) \in Nat /\ Max(stored) <= Len(moves)
      <4>1. Max(stored) \in 1 .. Len(moves)
        BY <3>2, <3>3, Zenon
      <4> QED BY <3>3, <4>1
    <3>5. IsWindow(<<>>, Max(stored), stored)
      BY <3>3, <3>4, PagesArePositive DEF IsWindow, Bottom
    <3>6. /\ IsHook(hook') /\ hook'.pc = "page" /\ hook'.cut = Max(stored) /\ hook'.below = Max(stored) + 1
          /\ hook'.rows = <<>>
      BY <1>1, <3>1, <3>3 DEF HookFields, IsHook
    <3>7. Bottom(<<>>, Max(stored)) = Max(stored) + 1 /\ Len(<<>>) < MaxEvents
      BY PagesArePositive DEF Bottom
    <3> QED BY <2>1, <3>3, <3>4, <3>5, <3>6, <3>7 DEF WindowInv
  <2> QED BY <2>2, <2>3
<1>7. CASE CutFails
  BY <1>1, <1>7, WindowKept DEF IsHook, LeavesWindow, CutFails, Unchanged, HookFields
<1>8. CASE LoadPage
  <2> DEFINE rows == hook.rows
             want == Min({PageSize, MaxEvents - Len(rows)})
             page == Page(hook.below, want)
             all == rows \o page
  <2>1. /\ hook.pc = "page" /\ UNCHANGED <<cursor, moves, stored>>
        /\ hook' = IF Len(page) < want \/ Len(all) >= MaxEvents THEN Close(all)
                   ELSE [hook EXCEPT !.rows = all, !.below = NextBelow(page)]
    BY <1>8 DEF LoadPage, Unchanged
  <2>2. /\ moves \in Seq(Row) /\ stored \subseteq 1 .. Len(moves)
        /\ hook.cut \in Nat /\ hook.cut <= Len(moves) /\ cursor \in Trees
        /\ IsWindow(rows, hook.cut, stored) /\ Len(rows) < MaxEvents
        /\ hook.below = Bottom(rows, hook.cut)
        /\ \A i \in 1 .. Len(rows) : rows[i] >= 1
    BY <2>1 DEF WindowInv
  <2>3. stored \in SUBSET Nat /\ IsFiniteSet(stored)
    BY <2>2, StoredFacts
  <2>4. rows \in Seq(Nat) /\ Len(rows) \in Nat
    BY <2>2 DEF IsWindow
  <2>5. want \in Nat \ {0} /\ Len(rows) + want <= MaxEvents
    <3>1. MaxEvents - Len(rows) \in Nat \ {0} /\ PageSize \in Nat \ {0}
      BY <2>2, <2>4, PagesArePositive
    <3>2. want = IF PageSize <= MaxEvents - Len(rows) THEN PageSize ELSE MaxEvents - Len(rows)
      BY <3>1, LesserOfTwo
    <3> QED BY <2>4, <3>1, <3>2, PagesArePositive
  <2>6. Bottom(rows, hook.cut) \in Int
    BY <2>2, <2>4 DEF Bottom
  <2> HIDE DEF rows, want
  <2>7. IsPage(page, stored, Bottom(rows, hook.cut), want)
    BY <2>2, <2>3, <2>5, <2>6, PageFacts
  <2> HIDE DEF page
  <2>8. IsWindow(all, hook.cut, stored)
    BY <2>2, <2>3, <2>5, <2>7, WindowGrows
  <2>9. page \in Seq(Nat) /\ Len(page) <= want /\ \A i \in 1 .. Len(page) : page[i] \in stored
    BY <2>7 DEF IsPage
  <2>10. \A i \in 1 .. Len(all) : all[i] >= 1
    <3> TAKE i \in 1 .. Len(all)
    <3>1. Len(all) = Len(rows) + Len(page) /\ all[i] = IF i <= Len(rows) THEN rows[i] ELSE page[i - Len(rows)]
      BY <2>4, <2>9, ConcatProperties
    <3>2. \A r \in stored : r >= 1
      BY <2>2
    <3> HIDE DEF all
    <3>3. i <= Len(rows) => i \in 1 .. Len(rows)
      BY <2>4
    <3>4. ~(i <= Len(rows)) => i - Len(rows) \in 1 .. Len(page)
      BY <2>4, <2>9, <3>1
    <3> QED BY <2>2, <2>9, <3>1, <3>2, <3>3, <3>4
  <2>11. CASE Len(page) < want \/ Len(all) >= MaxEvents
    <3>1. hook' = Close(all)
      BY <2>1, <2>11
    <3> HIDE DEF all
    <3>2. hook'.pc \in {"done", "baseline"} /\ hook'.rows = all /\ hook'.cut = hook.cut
          /\ IsHook(hook')
      BY <1>1, <3>1 DEF Close, HookFields, IsHook
    <3> QED BY <2>1, <2>2, <2>8, <2>10, <3>2 DEF WindowInv
  <2>12. CASE ~(Len(page) < want \/ Len(all) >= MaxEvents)
    <3>1. hook' = [hook EXCEPT !.rows = all, !.below = NextBelow(page)]
      BY <2>1, <2>12
    <3>2. Len(all) = Len(rows) + Len(page) /\ all \in Seq(Nat)
      BY <2>4, <2>9, ConcatProperties
    <3>3. Len(page) = want
      BY <2>5, <2>9, <2>12
    <3>4. all[Len(all)] = page[Len(page)]
      BY <2>4, <2>5, <2>9, <3>2, <3>3, ConcatProperties
    <3>5. Bottom(all, hook.cut) = NextBelow(page)
      BY <2>4, <2>5, <3>2, <3>3, <3>4 DEF Bottom, NextBelow, Last
    <3>6. Len(all) < MaxEvents
      BY <2>4, <2>9, <2>12, <3>2, PagesArePositive
    <3> HIDE DEF all
    <3>7. hook'.pc = "page" /\ hook'.rows = all /\ hook'.cut = hook.cut
          /\ hook'.below = NextBelow(page) /\ IsHook(hook')
      BY <1>1, <2>1, <3>1 DEF HookFields, IsHook
    <3> QED BY <2>1, <2>2, <2>8, <2>10, <3>5, <3>6, <3>7 DEF WindowInv
  <2> QED BY <2>11, <2>12
<1>9. CASE LoadPageFails
  <2>1. hook' = Close(hook.rows) /\ UNCHANGED <<cursor, moves, stored>> /\ hook.pc = "page"
    BY <1>9 DEF LoadPageFails, Unchanged
  <2>2. hook'.pc \in {"done", "baseline"} /\ hook'.rows = hook.rows /\ hook'.cut = hook.cut
        /\ hook'.below = hook.below /\ IsHook(hook')
    BY <1>1, <2>1 DEF Close, HookFields, IsHook
  <2> QED BY <2>1, <2>2, WindowKept DEF LeavesWindow
<1>10. CASE LoadBaseline
  <2>1. PICK t, b : hook' = [hook EXCEPT !.pc = "replay", !.tree = t, !.lineage = b]
    BY <1>10 DEF LoadBaseline
  <2>2. UNCHANGED <<cursor, moves, stored>>
    BY <1>10 DEF LoadBaseline, Unchanged
  <2> QED BY <1>1, <2>1, <2>2, WindowKept DEF IsHook, LeavesWindow, HookFields
<1>11. CASE ReplayEvent
  <2>1. PICK l, t, b : hook' = [hook EXCEPT !.left = l, !.tree = t, !.lineage = b]
    BY <1>11 DEF ReplayEvent
  <2>2. UNCHANGED <<cursor, moves, stored>>
    BY <1>11 DEF ReplayEvent, Unchanged
  <2> QED BY <1>1, <2>1, <2>2, WindowKept DEF IsHook, LeavesWindow, HookFields
<1>12. CASE ReplayTail
  <2>1. PICK t, b : hook' = [hook EXCEPT !.pc = "done", !.tree = t, !.lineage = b]
    BY <1>12 DEF ReplayTail
  <2>2. UNCHANGED <<cursor, moves, stored>>
    BY <1>12 DEF ReplayTail, Unchanged
  <2> QED BY <1>1, <2>1, <2>2, WindowKept DEF IsHook, LeavesWindow, HookFields
<1>13. CASE UNCHANGED vars
  BY <1>1, <1>13, WindowKept DEF IsHook, LeavesWindow, vars
<1> QED BY <1>2, <1>3, <1>4, <1>5, <1>6, <1>7, <1>8, <1>9, <1>10, <1>11, <1>12, <1>13 DEF Next

LEMMA WindowInvariant == Spec => []WindowInv
BY InitWindow, WindowStep, PTL DEF Spec

\* The window has no event of after the cut, and misses none that is still stored and
\* newer than its oldest, however many are recorded and pruned between its pages
\* (load_event_window).
THEOREM WindowAlwaysWhole == Spec => []WindowIsWhole
<1>1. WindowInv => WindowIsWhole
  <2> SUFFICES ASSUME WindowInv PROVE WindowIsWhole
    OBVIOUS
  <2> DEFINE rows == hook.rows
  <2>1. IsWindow(rows, hook.cut, stored)
    BY DEF WindowInv
  <2> HIDE DEF rows
  <2>2. rows \in Seq(Nat) /\ DOMAIN rows = 1 .. Len(rows)
    BY <2>1 DEF IsWindow
  <2>3. rows # <<>> => Last(rows) = Bottom(rows, hook.cut)
    BY DEF Last, Bottom
  <2> QED BY <2>1, <2>2, <2>3 DEF WindowIsWhole, IsWindow, ToSet, rows
<1> QED BY <1>1, WindowInvariant, PTL

-----------------------------------------------------------------------------
(* The recursive functions of the model satisfy their equations.           *)

\* The hunks of a file, applied one after the other.
Applied(done, last, old, hunks, origin) ==
  done = [n \in 0 .. last |->
           IF n = 0 THEN [ok |-> TRUE, cursor |-> 0, lines |-> <<>>]
           ELSE ApplyOneHunk(done[n - 1], old, hunks[n], origin)]

LEMMA AppliedOnceMore ==
  ASSUME NEW last \in Nat, NEW old, NEW hunks, NEW origin,
         \E done : Applied(done, last, old, hunks, origin)
  PROVE  \E done : Applied(done, last + 1, old, hunks, origin)
<1>1. PICK g : Applied(g, last, old, hunks, origin)
  OBVIOUS
<1> DEFINE f == [n \in 0 .. last + 1 |->
                   IF n <= last THEN g[n] ELSE ApplyOneHunk(g[last], old, hunks[last + 1], origin)]
<1>2. ASSUME NEW n \in 0 .. last + 1
      PROVE  f[n] = IF n = 0 THEN [ok |-> TRUE, cursor |-> 0, lines |-> <<>>]
                    ELSE ApplyOneHunk(f[n - 1], old, hunks[n], origin)
  <2>1. CASE n = 0
    BY <1>1, <2>1 DEF Applied
  <2>2. CASE n # 0 /\ n <= last
    <3>1. f[n] = g[n] /\ f[n - 1] = g[n - 1]
      BY <2>2
    <3>2. g[n] = ApplyOneHunk(g[n - 1], old, hunks[n], origin)
      <4>1. n \in 0 .. last
        BY <2>2
      <4>2. \A i \in 0 .. last : g[i] = IF i = 0 THEN [ok |-> TRUE, cursor |-> 0, lines |-> <<>>]
                                        ELSE ApplyOneHunk(g[i - 1], old, hunks[i], origin)
        BY <1>1, Zenon DEF Applied
      <4> QED BY <2>2, <4>1, <4>2, Zenon
    <3> HIDE DEF f
    <3> QED BY <2>2, <3>1, <3>2, Zenon
  <2>3. CASE n = last + 1
    <3>1. f[n] = ApplyOneHunk(g[last], old, hunks[last + 1], origin) /\ f[last] = g[last]
      BY <2>3
    <3>2. n - 1 = last /\ n # 0
      BY <2>3
    <3> HIDE DEF f
    <3> QED BY <2>3, <3>1, <3>2, Zenon
  <2> QED BY <2>1, <2>2, <2>3
<1>3. f = [n \in 0 .. last + 1 |-> f[n]]
  OBVIOUS
<1> HIDE DEF f
<1>4. Applied(f, last + 1, old, hunks, origin)
  BY <1>2, <1>3 DEF Applied
<1> QED BY <1>4

LEMMA ApplyingEnds ==
  ASSUME NEW last \in Nat, NEW old, NEW hunks, NEW origin
  PROVE  \E done : Applied(done, last, old, hunks, origin)
<1> DEFINE T == {m \in Nat : ~ \E done : Applied(done, m, old, hunks, origin)}
<1>1. 0 \notin T
  <2> DEFINE f == [n \in 0 .. 0 |-> [ok |-> TRUE, cursor |-> 0, lines |-> <<>>]]
  <2>1. Applied(f, 0, old, hunks, origin)
    BY DEF Applied
  <2> QED BY <2>1
<1>2. SUFFICES ASSUME T # {} PROVE FALSE
  BY DEF T
<1>3. PICK m \in T : \A k \in T : m <= k
  BY <1>2, LeastNatural
<1>4. m - 1 \in Nat /\ m - 1 \notin T
  BY <1>1, <1>3
<1>5. \E done : Applied(done, m - 1, old, hunks, origin)
  BY <1>4
<1>6. \E done : Applied(done, (m - 1) + 1, old, hunks, origin)
  BY <1>4, <1>5, AppliedOnceMore
<1>7. (m - 1) + 1 = m
  BY <1>4
<1> QED BY <1>3, <1>6, <1>7

LEMMA HunksApplied ==
  ASSUME NEW old, NEW hunks, Len(hunks) \in Nat, NEW origin
  PROVE  \E done : /\ Applied(done, Len(hunks), old, hunks, origin)
                   /\ ApplyHunks(old, hunks, origin) =
                        [ok |-> done[Len(hunks)].ok,
                         lines |-> done[Len(hunks)].lines
                                     \o SubSeq(old, done[Len(hunks)].cursor + 1, Len(old))]
<1> DEFINE d == CHOOSE done : Applied(done, Len(hunks), old, hunks, origin)
<1>1. \E done : Applied(done, Len(hunks), old, hunks, origin)
  BY ApplyingEnds
<1>2. Applied(d, Len(hunks), old, hunks, origin)
  <2> HIDE DEF Applied
  <2> QED BY <1>1, Zenon
<1>3. d = CHOOSE done : done = [n \in 0 .. Len(hunks) |->
                                  IF n = 0 THEN [ok |-> TRUE, cursor |-> 0, lines |-> <<>>]
                                  ELSE ApplyOneHunk(done[n - 1], old, hunks[n], origin)]
  BY Zenon DEF Applied
<1> HIDE DEF d
<1>4. ApplyHunks(old, hunks, origin) =
        [ok |-> d[Len(hunks)].ok,
         lines |-> d[Len(hunks)].lines \o SubSeq(old, d[Len(hunks)].cursor + 1, Len(old))]
  BY <1>3, Zenon DEF ApplyHunks
<1> QED BY <1>2, <1>4, Zenon

-----------------------------------------------------------------------------
(* The lines that a diff keeps.                                            *)

LEMMA GreatestNatural ==
  ASSUME NEW T, T \subseteq Nat, T # {}, NEW b \in Nat, \A n \in T : n <= b
  PROVE  Max(T) \in T /\ \A n \in T : n <= Max(T)
<1> DEFINE D == {d \in Nat : \E n \in T : n + d = b}
<1>1. D # {} /\ D \subseteq Nat
  <2>1. PICK n \in T : TRUE
    OBVIOUS
  <2>2. n \in Nat /\ n <= b
    BY <2>1
  <2>3. b - n \in Nat /\ n + (b - n) = b
    BY <2>2
  <2> QED BY <2>1, <2>3
<1>2. PICK d \in D : \A e \in D : d <= e
  <2> HIDE DEF D
  <2> QED BY <1>1, LeastNatural
<1>3. PICK z \in T : z + d = b /\ d \in Nat
  BY <1>2
<1>4. ASSUME NEW n \in T
      PROVE  n <= z
  <2>1. n \in Nat /\ n <= b /\ z \in Nat
    BY <1>3
  <2>2. b - n \in D
    BY <2>1
  <2>3. d <= b - n
    BY <1>2, <2>2
  <2> QED BY <1>3, <2>1, <2>3
<1> DEFINE P(x) == \A n \in T : x >= n
<1>5. \E x \in T : P(x)
  BY <1>4
<1>6. Max(T) = CHOOSE x \in T : P(x)
  BY DEF Max
<1> HIDE DEF P
<1>7. Max(T) \in T /\ P(Max(T))
  BY <1>5, <1>6, Zenon
<1> QED BY <1>7 DEF P

IsAlignment(m, old, new) ==
  /\ m \subseteq (1 .. Len(old)) \X (1 .. Len(new))
  /\ \A a \in m : old[a[1]] = new[a[2]]
  /\ \A a, b \in m : a[1] < b[1] <=> a[2] < b[2]

Text == Seq(Texts)

LEMMA AlignmentsAre ==
  ASSUME NEW old \in Text, NEW new \in Text, NEW m
  PROVE  m \in Alignments(old, new) <=> IsAlignment(m, old, new)
<1>1. DOMAIN old = 1 .. Len(old) /\ DOMAIN new = 1 .. Len(new)
  BY DEF Text
<1> QED BY <1>1 DEF Alignments, IsAlignment

LEMMA AlignmentsAreFinite ==
  ASSUME NEW old \in Text, NEW new \in Text, NEW m, IsAlignment(m, old, new)
  PROVE  /\ IsFiniteSet(m) /\ Cardinality(m) \in Nat
         /\ Cardinality(m) <= Cardinality((1 .. Len(old)) \X (1 .. Len(new)))
<1>1. Len(old) \in Nat /\ Len(new) \in Nat
  BY DEF Text
<1>2. IsFiniteSet(1 .. Len(old)) /\ IsFiniteSet(1 .. Len(new))
  BY <1>1, FS_Interval
<1> DEFINE all == (1 .. Len(old)) \X (1 .. Len(new))
<1>3. IsFiniteSet(all)
  BY <1>2, FS_Product
<1>4. m \in SUBSET all
  BY DEF IsAlignment
<1> HIDE DEF all
<1>5. IsFiniteSet(m) /\ Cardinality(m) <= Cardinality(all)
  BY <1>3, <1>4, FS_Subset
<1> QED BY <1>5, FS_CardinalityType DEF all

IsKept(m, old, new) ==
  /\ IsAlignment(m, old, new)
  /\ \A n : IsAlignment(n, old, new) => Cardinality(n) <= Cardinality(m)

LEMMA KeptFacts ==
  ASSUME NEW old \in Text, NEW new \in Text
  PROVE  IsKept(Kept(old, new), old, new) /\ IsFiniteSet(Kept(old, new))
<1> DEFINE A == Alignments(old, new)
           sizes == {Cardinality(m) : m \in A}
           P(m) == Cardinality(m) = Max(sizes)
           b == Cardinality((1 .. Len(old)) \X (1 .. Len(new)))
<1>1. \A m \in A : IsAlignment(m, old, new)
  BY AlignmentsAre
<1>2. \A m \in A : Cardinality(m) \in Nat /\ Cardinality(m) <= b
  BY <1>1, AlignmentsAreFinite
<1>3. {} \in A
  <2>1. IsAlignment({}, old, new)
    BY DEF IsAlignment
  <2> QED BY <2>1, AlignmentsAre
<1>4. b \in Nat
  <2>1. Len(old) \in Nat /\ Len(new) \in Nat
    BY DEF Text
  <2>2. IsFiniteSet(1 .. Len(old)) /\ IsFiniteSet(1 .. Len(new))
    BY <2>1, FS_Interval
  <2>3. IsFiniteSet((1 .. Len(old)) \X (1 .. Len(new)))
    BY <2>2, FS_Product
  <2> QED BY <2>3, FS_CardinalityType
<1> HIDE DEF A, b
<1>5. sizes \subseteq Nat /\ sizes # {} /\ \A n \in sizes : n <= b
  BY <1>2, <1>3
<1>6. \A m \in A : Cardinality(m) \in sizes
  OBVIOUS
<1>7. Max(sizes) \in sizes => \E m \in A : P(m)
  OBVIOUS
<1> HIDE DEF sizes
<1>8. Max(sizes) \in sizes /\ \A n \in sizes : n <= Max(sizes)
  BY <1>4, <1>5, GreatestNatural
<1>9. Kept(old, new) = CHOOSE m \in A : P(m)
  BY DEF Kept, A, sizes
<1> HIDE DEF P
<1>10. Kept(old, new) \in A /\ P(Kept(old, new))
  BY <1>7, <1>8, <1>9, Zenon
<1>11. \A n \in A : Cardinality(n) <= Cardinality(Kept(old, new))
  BY <1>6, <1>8, <1>10 DEF P
<1>12. \A n : IsAlignment(n, old, new) => n \in A
  BY AlignmentsAre DEF A
<1>13. IsAlignment(Kept(old, new), old, new)
  BY <1>1, <1>10
<1> QED BY <1>11, <1>12, <1>13, AlignmentsAreFinite DEF IsKept

\* The pairs of an alignment, one by one.
Joins(m, i, j) == <<i, j>> \in m

LEMMA AlignmentFacts ==
  ASSUME NEW old \in Text, NEW new \in Text, NEW m, IsAlignment(m, old, new)
  PROVE  /\ \A i, j : Joins(m, i, j) =>
              i \in 1 .. Len(old) /\ j \in 1 .. Len(new) /\ old[i] = new[j]
         /\ \A i, j, k, l : Joins(m, i, j) /\ Joins(m, k, l) => (i < k <=> j < l)
         /\ \A i, j, k : Joins(m, i, j) /\ Joins(m, i, k) => j = k
         /\ \A i, j, k : Joins(m, i, k) /\ Joins(m, j, k) => i = j
<1>1. Len(old) \in Nat /\ Len(new) \in Nat
  BY DEF Text
<1>2. ASSUME NEW i, NEW j, Joins(m, i, j)
      PROVE  i \in 1 .. Len(old) /\ j \in 1 .. Len(new) /\ old[i] = new[j]
  <2>1. <<i, j>> \in m /\ <<i, j>>[1] = i /\ <<i, j>>[2] = j
    BY <1>2 DEF Joins
  <2> QED BY <2>1 DEF IsAlignment
<1>3. ASSUME NEW i, NEW j, NEW k, NEW l, Joins(m, i, j), Joins(m, k, l)
      PROVE  i < k <=> j < l
  <2>1. <<i, j>> \in m /\ <<k, l>> \in m
    BY <1>3 DEF Joins
  <2>2. <<i, j>>[1] < <<k, l>>[1] <=> <<i, j>>[2] < <<k, l>>[2]
    BY <2>1 DEF IsAlignment
  <2> QED BY <2>2
<1>4. ASSUME NEW i, NEW j, NEW k, Joins(m, i, j), Joins(m, i, k)
      PROVE  j = k
  <2>1. j \in 1 .. Len(new) /\ k \in 1 .. Len(new) /\ i \in 1 .. Len(old)
    BY <1>2, <1>4
  <2>2. (i < i <=> j < k) /\ (i < i <=> k < j)
    BY <1>3, <1>4
  <2> QED BY <1>1, <2>1, <2>2
<1>5. ASSUME NEW i, NEW j, NEW k, Joins(m, i, k), Joins(m, j, k)
      PROVE  i = j
  <2>1. i \in 1 .. Len(old) /\ j \in 1 .. Len(old) /\ k \in 1 .. Len(new)
    BY <1>2, <1>5
  <2>2. (i < j <=> k < k) /\ (j < i <=> k < k)
    BY <1>3, <1>5
  <2> QED BY <1>1, <2>1, <2>2
<1> QED BY <1>2, <1>3, <1>4, <1>5

-----------------------------------------------------------------------------
(* Hunks: what lies between neighbouring ends, in order.                   *)

Ends(old, new, context) ==
  {<<0, 0>>, <<Len(old) + 1, Len(new) + 1>>} \cup IF context THEN {} ELSE Kept(old, new)

Neighbours(ends) ==
  {ab \in ends \X ends :
     /\ ab[1][1] < ab[2][1]
     /\ \A c \in ends : c[1] <= ab[1][1] \/ ab[2][1] <= c[1]}

LEMMA EndsFacts ==
  ASSUME NEW old \in Text, NEW new \in Text, NEW context \in BOOLEAN
  PROVE  /\ IsFiniteSet(Ends(old, new, context))
         /\ Ends(old, new, context) \subseteq (0 .. Len(old) + 1) \X (0 .. Len(new) + 1)
         /\ \A c, d \in Ends(old, new, context) : c[1] < d[1] <=> c[2] < d[2]
         /\ \A c, d \in Ends(old, new, context) : c[1] = d[1] => c = d
         /\ \A c \in Ends(old, new, context) :
              \/ c \in Kept(old, new)
              \/ c = <<0, 0>>
              \/ c = <<Len(old) + 1, Len(new) + 1>>
<1> DEFINE K == Kept(old, new)
           E == Ends(old, new, context)
           z == <<0, 0>>
           e == <<Len(old) + 1, Len(new) + 1>>
<1>1. IsAlignment(K, old, new) /\ IsFiniteSet(K)
  BY KeptFacts DEF IsKept
<1>2. Len(old) \in Nat /\ Len(new) \in Nat
  BY DEF Text
<1>3. E \in SUBSET ({z, e} \cup K) /\ \A c \in E : c \in K \/ c = z \/ c = e
  BY DEF Ends
<1> HIDE DEF K, E
<1>4. IsFiniteSet({z, e} \cup K)
  <2>1. IsFiniteSet({z}) /\ IsFiniteSet({e})
    BY FS_Singleton
  <2>2. IsFiniteSet({z} \cup {e}) /\ {z} \cup {e} = {z, e}
    BY <2>1, FS_Union
  <2> QED BY <1>1, <2>2, FS_Union
<1>5. IsFiniteSet(E)
  BY <1>3, <1>4, FS_Subset
<1>6. \A m \in K : m \in (1 .. Len(old)) \X (1 .. Len(new))
  BY <1>1 DEF IsAlignment
<1>7. \A c, d \in K : c[1] < d[1] <=> c[2] < d[2]
  BY <1>1 DEF IsAlignment
<1>8. ASSUME NEW c \in E
      PROVE  c \in (0 .. Len(old) + 1) \X (0 .. Len(new) + 1)
  BY <1>2, <1>3, <1>6
<1>9. /\ z[1] = 0 /\ z[2] = 0 /\ e[1] = Len(old) + 1 /\ e[2] = Len(new) + 1
      /\ \A m \in K : m[1] \in 1 .. Len(old) /\ m[2] \in 1 .. Len(new) /\ m = <<m[1], m[2]>>
  BY <1>6
<1> HIDE DEF z, e
<1>10. ASSUME NEW c \in E, NEW d \in E
       PROVE  c[1] < d[1] <=> c[2] < d[2]
  <2>1. CASE c \in K /\ d \in K
    BY <1>7, <2>1
  <2>2. CASE c \in K /\ d \notin K
    BY <1>2, <1>3, <1>9, <2>2
  <2>3. CASE c \notin K /\ d \in K
    BY <1>2, <1>3, <1>9, <2>3
  <2>4. CASE c \notin K /\ d \notin K
    BY <1>2, <1>3, <1>9, <2>4
  <2> QED BY <2>1, <2>2, <2>3, <2>4
<1>11. ASSUME NEW c \in E, NEW d \in E, c[1] = d[1]
       PROVE  c = d
  <2>1. CASE c \in K /\ d \in K
    <3>1. ~(c[1] < d[1]) /\ ~(d[1] < c[1])
      BY <1>2, <1>9, <1>11, <2>1
    <3>2. c[2] = d[2]
      BY <1>2, <1>7, <1>9, <2>1, <3>1
    <3>3. c = <<c[1], c[2]>> /\ d = <<d[1], d[2]>>
      BY <1>9, <2>1
    <3> QED BY <1>11, <3>2, <3>3
  <2>2. CASE ~(c \in K /\ d \in K)
    BY <1>2, <1>3, <1>9, <1>11, <2>2
  <2> QED BY <2>1, <2>2
<1> QED BY <1>3, <1>5, <1>8, <1>10, <1>11 DEF E, K, z, e

Between(old, new, ab) == HunkBetween(old, new, ab[1], ab[2])

\* Two gaps are the same or follow each other, and so do the starts of their hunks.
Follows(ab, cd) == ab[2][1] <= cd[1][1]

LEMMA GapFacts ==
  ASSUME NEW old \in Text, NEW new \in Text, NEW context \in BOOLEAN,
         NEW ab \in Neighbours(Ends(old, new, context)),
         NEW cd \in Neighbours(Ends(old, new, context))
  PROVE  /\ ab = cd \/ Follows(ab, cd) \/ Follows(cd, ab)
         /\ Between(old, new, ab).old_start \in Int
         /\ Follows(ab, cd) => Between(old, new, ab).old_start < Between(old, new, cd).old_start
<1> DEFINE E == Ends(old, new, context)
<1>1. /\ ab \in E \X E /\ cd \in E \X E
      /\ ab[1][1] < ab[2][1] /\ \A c \in E : c[1] <= ab[1][1] \/ ab[2][1] <= c[1]
      /\ cd[1][1] < cd[2][1] /\ \A c \in E : c[1] <= cd[1][1] \/ cd[2][1] <= c[1]
  BY DEF Neighbours
<1>2. /\ E \subseteq (0 .. Len(old) + 1) \X (0 .. Len(new) + 1)
      /\ \A c, d \in E : c[1] = d[1] => c = d
  BY EndsFacts
<1>3. Len(old) \in Nat
  BY DEF Text
<1> HIDE DEF E
<1>4. PICK a \in E, b \in E, c \in E, d \in E : ab = <<a, b>> /\ cd = <<c, d>>
  BY <1>1
<1>5. a[1] \in Int /\ b[1] \in Int /\ c[1] \in Int /\ d[1] \in Int
  BY <1>2, <1>3
<1>6. a[1] < b[1] /\ c[1] < d[1]
  BY <1>1, <1>4
<1>7. ab = cd \/ Follows(ab, cd) \/ Follows(cd, ab)
  <2>1. /\ c[1] <= a[1] \/ b[1] <= c[1]
        /\ d[1] <= a[1] \/ b[1] <= d[1]
        /\ a[1] <= c[1] \/ d[1] <= a[1]
        /\ b[1] <= c[1] \/ d[1] <= b[1]
    BY <1>1, <1>4
  <2>2. b[1] <= c[1] \/ d[1] <= a[1] \/ (a[1] = c[1] /\ b[1] = d[1])
    BY <1>5, <1>6, <2>1
  <2> QED BY <1>2, <1>4, <2>2 DEF Follows
<1>8. /\ Between(old, new, ab).old_start = IF b[1] = a[1] + 1 THEN a[1] ELSE a[1] + 1
      /\ Between(old, new, cd).old_start = IF d[1] = c[1] + 1 THEN c[1] ELSE c[1] + 1
  BY <1>4 DEF Between, HunkBetween
<1>9. Follows(ab, cd) => b[1] <= c[1]
  BY <1>4 DEF Follows
<1> QED BY <1>5, <1>6, <1>7, <1>8, <1>9

\* The hunks of two files and the gaps that they stand for.
IsHunking(gaps, hunks, old, new, context) ==
  /\ gaps \in [1 .. Len(hunks) -> Neighbours(Ends(old, new, context))]
  /\ \A n \in 1 .. Len(hunks) : hunks[n] = Between(old, new, gaps[n]) /\ hunks[n].changes
  /\ \A m, n \in 1 .. Len(hunks) : m < n => Follows(gaps[m], gaps[n])
  /\ \A ab \in Neighbours(Ends(old, new, context)) :
       Between(old, new, ab).changes => \E n \in 1 .. Len(hunks) : gaps[n] = ab

LEMMA HunksFacts ==
  ASSUME NEW old \in Text, NEW new \in Text, NEW context \in BOOLEAN
  PROVE  /\ Len(Hunks(old, new, context)) \in Nat
         /\ \E gaps : IsHunking(gaps, Hunks(old, new, context), old, new, context)
<1> DEFINE E == Ends(old, new, context)
           N == Neighbours(E)
           f == [ab \in N |-> Between(old, new, ab)]
           B == {Between(old, new, ab) : ab \in N}
           C == {h \in B : h.changes}
           R == {gh \in C \X C : gh[1].old_start < gh[2].old_start}
           n == Cardinality(C)
           P(s) == \A i, j \in DOMAIN s : i < j => s[i].old_start < s[j].old_start
           H == Hunks(old, new, context)
<1>1. IsFiniteSet(C)
  <2>1. IsFiniteSet(E)
    BY EndsFacts
  <2>2. IsFiniteSet(E \X E)
    BY <2>1, FS_Product
  <2>3. N \in SUBSET (E \X E)
    BY DEF Neighbours
  <2>4. IsFiniteSet(N)
    BY <2>2, <2>3, FS_Subset
  <2>5. f \in Surjection(N, B)
    BY DEF Surjection
  <2>6. C \in SUBSET B
    OBVIOUS
  <2> HIDE DEF N, f, B, C
  <2>7. IsFiniteSet(B)
    BY <2>4, <2>5, FS_Surjection
  <2> QED BY <2>6, <2>7, FS_Subset
<1>2. \A h \in C : \E ab \in N : h = Between(old, new, ab) /\ h.changes
  OBVIOUS
<1>3. \A ab \in N : Between(old, new, ab).changes => Between(old, new, ab) \in C
  OBVIOUS
<1>4. H = CHOOSE s \in [1 .. n -> C] : P(s)
  BY DEF Hunks, InOrder, Ends, Neighbours, Between
<1>5. \A ab, cd \in N :
        /\ ab = cd \/ Follows(ab, cd) \/ Follows(cd, ab)
        /\ Between(old, new, ab).old_start \in Int
        /\ Follows(ab, cd) => Between(old, new, ab).old_start < Between(old, new, cd).old_start
  BY GapFacts
<1> HIDE DEF C, N, E, H, P
<1>6. \A g, h \in C : g.old_start \in Int /\ (g = h \/ g.old_start < h.old_start \/ h.old_start < g.old_start)
  <2> TAKE g, h \in C
  <2>1. PICK ab \in N : g = Between(old, new, ab)
    BY <1>2
  <2>2. PICK cd \in N : h = Between(old, new, cd)
    BY <1>2
  <2> QED BY <1>5, <2>1, <2>2
<1>7. IsOrder(R, C)
  BY <1>6 DEF IsOrder
<1>8. PICK t \in [1 .. n -> C] : Sorted(t, R)
  BY <1>1, <1>7, SortedExists
<1>9. P(t)
  BY <1>8 DEF P, Sorted
<1>10. H \in [1 .. n -> C] /\ P(H)
  BY <1>4, <1>8, <1>9, Zenon
<1>11. n \in Nat
  BY <1>1, FS_CardinalityType
<1>12. Sorted(H, R)
  <2>1. \A i \in DOMAIN H : H[i] \in C
    BY <1>10
  <2> QED BY <1>10, <2>1 DEF P, Sorted
<1>13. \A h \in C : \E i \in 1 .. n : H[i] = h
  <2> HIDE DEF R
  <2>1. InPlace(H, R, C)
    BY <1>1, <1>7, <1>10, <1>12, SortedFacts
  <2> QED BY <2>1 DEF InPlace
<1> HIDE DEF n, R
<1>14. Len(H) = n /\ DOMAIN H = 1 .. n
  BY <1>10, <1>11
<1> DEFINE Q(ab, i) == H[i] = Between(old, new, ab) /\ H[i].changes
           gaps == [i \in 1 .. n |-> CHOOSE ab \in N : Q(ab, i)]
<1>15. \A i \in 1 .. n : gaps[i] \in N /\ Q(gaps[i], i)
  <2>1. \A i \in 1 .. n : \E ab \in N : Q(ab, i)
    BY <1>2, <1>10
  <2> HIDE DEF Q
  <2> TAKE i \in 1 .. n
  <2>2. gaps[i] = CHOOSE ab \in N : Q(ab, i)
    OBVIOUS
  <2> HIDE DEF gaps
  <2> QED BY <2>1, <2>2, Zenon
<1>16. gaps \in [1 .. n -> N]
  BY <1>15
<1> HIDE DEF gaps
<1>17. ASSUME NEW i \in 1 .. n, NEW j \in 1 .. n, i < j
       PROVE  Follows(gaps[i], gaps[j])
  <2>1. H[i].old_start < H[j].old_start
    BY <1>10, <1>14, <1>17 DEF P
  <2>2. /\ H[i].old_start = Between(old, new, gaps[i]).old_start
        /\ H[j].old_start = Between(old, new, gaps[j]).old_start
    BY <1>15
  <2>3. gaps[i] \in N /\ gaps[j] \in N
    BY <1>15
  <2>4. /\ gaps[i] = gaps[j] \/ Follows(gaps[i], gaps[j]) \/ Follows(gaps[j], gaps[i])
        /\ H[i].old_start \in Int /\ H[j].old_start \in Int
        /\ Follows(gaps[j], gaps[i]) => H[j].old_start < H[i].old_start
    BY <1>5, <2>2, <2>3
  <2> QED BY <2>1, <2>2, <2>4
<1>18. ASSUME NEW ab \in N, Between(old, new, ab).changes
       PROVE  \E i \in 1 .. n : gaps[i] = ab
  <2>1. PICK i \in 1 .. n : H[i] = Between(old, new, ab)
    BY <1>3, <1>13, <1>18
  <2>2. H[i] = Between(old, new, gaps[i]) /\ gaps[i] \in N
    BY <1>15
  <2>3. Between(old, new, ab).old_start = Between(old, new, gaps[i]).old_start
    BY <2>1, <2>2
  <2>4. /\ ab = gaps[i] \/ Follows(ab, gaps[i]) \/ Follows(gaps[i], ab)
        /\ Follows(ab, gaps[i]) => Between(old, new, ab).old_start < Between(old, new, gaps[i]).old_start
        /\ Follows(gaps[i], ab) => Between(old, new, gaps[i]).old_start < Between(old, new, ab).old_start
        /\ Between(old, new, ab).old_start \in Int
    BY <1>5, <2>2
  <2> QED BY <2>3, <2>4
<1>19. IsHunking(gaps, H, old, new, context)
  BY <1>14, <1>15, <1>16, <1>17, <1>18 DEF IsHunking, N, E
<1> QED BY <1>11, <1>14, <1>19 DEF H

\* A place in the old file and one in the new that no kept pair crosses.
IsCut(m, c, d) == \A i, j : Joins(m, i, j) => (i <= c <=> j <= d)

LEMMA EndsAreCuts ==
  ASSUME NEW old \in Text, NEW new \in Text, NEW context \in BOOLEAN,
         NEW e \in Ends(old, new, context)
  PROVE  /\ IsCut(Kept(old, new), e[1], e[2])
         /\ IsCut(Kept(old, new), e[1] - 1, e[2] - 1)
<1> DEFINE K == Kept(old, new)
<1>1. IsAlignment(K, old, new)
  BY KeptFacts DEF IsKept
<1>2. Len(old) \in Nat /\ Len(new) \in Nat
  BY DEF Text
<1> HIDE DEF K
<1>3. /\ \A i, j : Joins(K, i, j) => i \in 1 .. Len(old) /\ j \in 1 .. Len(new)
      /\ \A i, j, k, l : Joins(K, i, j) /\ Joins(K, k, l) => (i < k <=> j < l)
  BY <1>1, AlignmentFacts
<1>4. e \in (0 .. Len(old) + 1) \X (0 .. Len(new) + 1) /\ (e \in K \/ e = <<0, 0>> \/ e = <<Len(old) + 1, Len(new) + 1>>)
  BY EndsFacts DEF K
<1>5. e[1] \in Int /\ e[2] \in Int /\ e = <<e[1], e[2]>>
  BY <1>2, <1>4
<1>6. ASSUME NEW i, NEW j, Joins(K, i, j)
      PROVE  (i <= e[1] <=> j <= e[2]) /\ (i <= e[1] - 1 <=> j <= e[2] - 1)
  <2>1. i \in 1 .. Len(old) /\ j \in 1 .. Len(new)
    BY <1>3, <1>6
  <2>2. CASE e \in K
    <3>1. Joins(K, e[1], e[2])
      BY <1>5, <2>2 DEF Joins
    <3>2. (i < e[1] <=> j < e[2]) /\ (e[1] < i <=> e[2] < j)
      BY <1>3, <1>6, <3>1
    <3> QED BY <1>2, <1>5, <2>1, <3>2
  <2>3. CASE e \notin K
    BY <1>2, <1>4, <2>1, <2>3
  <2> QED BY <2>2, <2>3
<1> QED BY <1>6 DEF IsCut, K

\* Where all lines are kept they are kept one by one.
LEMMA Diagonal ==
  ASSUME NEW old \in Text, NEW new \in Text, NEW m, IsAlignment(m, old, new),
         NEW c \in Nat, NEW d \in Nat, NEW e \in Nat, NEW f \in Nat,
         IsCut(m, c, d), IsCut(m, e, f), c <= e, d <= f,
         \A i \in c + 1 .. e : \E j : Joins(m, i, j),
         \A j \in d + 1 .. f : \E i : Joins(m, i, j)
  PROVE  f - d = e - c /\ \A k \in 1 .. e - c : Joins(m, c + k, d + k)
<1> DEFINE T == {k \in 1 .. e - c : ~Joins(m, c + k, d + k)}
<1>1. /\ \A i, j : Joins(m, i, j) => i \in Nat /\ j \in Nat
      /\ \A i, j, k, l : Joins(m, i, j) /\ Joins(m, k, l) => (i < k <=> j < l)
      /\ \A i, j, k : Joins(m, i, j) /\ Joins(m, i, k) => j = k
      /\ \A i, j, k : Joins(m, i, k) /\ Joins(m, j, k) => i = j
  <2>1. Len(old) \in Nat /\ Len(new) \in Nat
    BY DEF Text
  <2> QED BY <2>1, AlignmentFacts
<1>2. ASSUME T # {}
      PROVE  FALSE
  <2>1. T \subseteq Nat
    OBVIOUS
  <2>2. PICK k \in T : \A l \in T : k <= l
    <3> HIDE DEF T
    <3> QED BY <1>2, <2>1, LeastNatural
  <2>3. \A l \in 1 .. k - 1 : Joins(m, c + l, d + l)
    <3> TAKE l \in 1 .. k - 1
    <3>1. l \in 1 .. e - c /\ l < k
      BY <2>2
    <3>2. l \notin T
      BY <2>1, <2>2, <3>1
    <3> QED BY <3>1, <3>2
  <2>4. k \in 1 .. e - c /\ ~Joins(m, c + k, d + k) /\ c + k \in c + 1 .. e
    BY <2>2
  <2>5. PICK j : Joins(m, c + k, j)
    BY <2>4
  <2>6. j \in Nat /\ d < j /\ j <= f
    BY <1>1, <2>4, <2>5 DEF IsCut
  <2>7. CASE j < d + k
    <3>1. j - d \in 1 .. k - 1 /\ d + (j - d) = j
      BY <2>4, <2>6, <2>7
    <3>2. Joins(m, c + (j - d), j)
      BY <2>3, <3>1
    <3>3. c + (j - d) = c + k
      BY <1>1, <2>5, <3>2
    <3> QED BY <2>4, <2>6, <2>7, <3>3
  <2>8. CASE j > d + k
    <3>1. d + k \in d + 1 .. f
      BY <2>4, <2>6, <2>8
    <3>2. PICK i : Joins(m, i, d + k)
      BY <3>1
    <3>3. i \in Nat /\ c < i
      BY <1>1, <2>4, <3>2 DEF IsCut
    <3>4. i < c + k
      BY <1>1, <2>5, <2>8, <3>2
    <3>5. i - c \in 1 .. k - 1 /\ c + (i - c) = i
      BY <2>4, <3>3, <3>4
    <3>6. Joins(m, i, d + (i - c))
      BY <2>3, <3>5
    <3>7. d + (i - c) = d + k
      BY <1>1, <3>2, <3>6
    <3> QED BY <2>4, <3>3, <3>4, <3>7
  <2> QED BY <2>4, <2>5, <2>6, <2>7, <2>8
<1>3. \A k \in 1 .. e - c : Joins(m, c + k, d + k)
  BY <1>2
<1>4. ~(f - d > e - c)
  <2> SUFFICES ASSUME f - d > e - c PROVE FALSE
    OBVIOUS
  <2> DEFINE j == d + (e - c) + 1
  <2>1. j \in d + 1 .. f /\ j \in Nat
    OBVIOUS
  <2>2. PICK i : Joins(m, i, j)
    BY <2>1
  <2>3. i \in Nat /\ c < i /\ i <= e
    BY <1>1, <2>1, <2>2 DEF IsCut
  <2>4. i - c \in 1 .. e - c /\ c + (i - c) = i
    BY <2>3
  <2>5. Joins(m, i, d + (i - c))
    BY <1>3, <2>4
  <2>6. d + (i - c) = j
    BY <1>1, <2>2, <2>5
  <2> QED BY <2>3, <2>6
<1>5. ~(f - d < e - c)
  <2> SUFFICES ASSUME f - d < e - c PROVE FALSE
    OBVIOUS
  <2> DEFINE k == f - d + 1
  <2>1. k \in 1 .. e - c /\ c + k <= e
    OBVIOUS
  <2>2. Joins(m, c + k, d + k)
    BY <1>3, <2>1
  <2>3. d + k <= f
    BY <2>1, <2>2 DEF IsCut
  <2> QED BY <2>3
<1> QED BY <1>3, <1>4, <1>5

\* A line that is not kept lies in a gap that has a hunk.
LEMMA RemovedLineInGap ==
  ASSUME NEW old \in Text, NEW new \in Text, NEW context \in BOOLEAN,
         NEW i \in 1 .. Len(old), \A j : ~Joins(Kept(old, new), i, j)
  PROVE  \E ab \in Neighbours(Ends(old, new, context)) :
           ab[1][1] < i /\ i < ab[2][1] /\ Between(old, new, ab).changes
<1> DEFINE E == Ends(old, new, context)
           low == {n \in Nat : \E c \in E : c[1] = n /\ n < i}
           high == {n \in Nat : \E c \in E : c[1] = n /\ i < n}
<1>1. Len(old) \in Nat /\ Len(new) \in Nat
  BY DEF Text
<1>2. /\ E \subseteq (0 .. Len(old) + 1) \X (0 .. Len(new) + 1)
      /\ \A c \in E : c \in Kept(old, new) \/ c = <<0, 0>> \/ c = <<Len(old) + 1, Len(new) + 1>>
  BY EndsFacts
<1>3. <<0, 0>> \in E /\ <<Len(old) + 1, Len(new) + 1>> \in E
  BY DEF Ends
<1> HIDE DEF E
<1>4. \A c \in E : c[1] \in Nat /\ c[1] # i
  <2> TAKE c \in E
  <2>1. c[1] \in Nat /\ c = <<c[1], c[2]>>
    BY <1>1, <1>2
  <2>2. c \in Kept(old, new) => c[1] # i
    BY <2>1 DEF Joins
  <2> QED BY <1>1, <1>2, <2>1, <2>2
<1>5. low \subseteq Nat /\ low # {} /\ i \in Nat /\ \A n \in low : n <= i
  BY <1>1, <1>3, <1>4
<1>6. high \subseteq Nat /\ high # {}
  BY <1>1, <1>3, <1>4
<1>7. \E n \in low : \A k \in low : k <= n
  <2> HIDE DEF low
  <2>1. Max(low) \in low /\ \A k \in low : k <= Max(low)
    BY <1>5, GreatestNatural
  <2> QED BY <2>1
<1>8. \E n \in high : \A k \in high : n <= k
  <2> HIDE DEF high
  <2> QED BY <1>6, LeastNatural
<1>9. PICK a \in E : a[1] < i /\ \A c \in E : c[1] < i => c[1] <= a[1]
  BY <1>4, <1>7
<1>10. PICK b \in E : i < b[1] /\ \A c \in E : i < c[1] => b[1] <= c[1]
  BY <1>4, <1>8
<1>11. <<a, b>> \in Neighbours(E)
  <2>1. \A c \in E : c[1] <= a[1] \/ b[1] <= c[1]
    BY <1>1, <1>4, <1>9, <1>10
  <2>2. a[1] < b[1]
    BY <1>1, <1>4, <1>9, <1>10
  <2> QED BY <2>1, <2>2 DEF Neighbours
<1>12. i \in (a[1] + 1 .. b[1] - 1) \ {m[1] : m \in Kept(old, new)}
  <2>1. i \in a[1] + 1 .. b[1] - 1
    BY <1>1, <1>4, <1>9, <1>10
  <2>2. \A m \in Kept(old, new) : m = <<m[1], m[2]>>
    BY KeptFacts DEF IsKept, IsAlignment
  <2>3. \A m \in Kept(old, new) : m[1] # i
    BY <2>2 DEF Joins
  <2> QED BY <2>1, <2>3
<1>13. Between(old, new, <<a, b>>).changes
  BY <1>12 DEF Between, HunkBetween
<1>14. <<a, b>>[1][1] < i /\ i < <<a, b>>[2][1]
  BY <1>9, <1>10
<1> QED BY <1>11, <1>13, <1>14 DEF E

LEMMA AddedLineInGap ==
  ASSUME NEW old \in Text, NEW new \in Text, NEW context \in BOOLEAN,
         NEW j \in 1 .. Len(new), \A i : ~Joins(Kept(old, new), i, j)
  PROVE  \E ab \in Neighbours(Ends(old, new, context)) :
           ab[1][2] < j /\ j < ab[2][2] /\ Between(old, new, ab).changes
<1> DEFINE E == Ends(old, new, context)
           low == {n \in Nat : \E c \in E : c[2] = n /\ n < j}
           high == {n \in Nat : \E c \in E : c[2] = n /\ j < n}
<1>1. Len(old) \in Nat /\ Len(new) \in Nat
  BY DEF Text
<1>2. /\ E \subseteq (0 .. Len(old) + 1) \X (0 .. Len(new) + 1)
      /\ \A c, d \in E : c[1] < d[1] <=> c[2] < d[2]
      /\ \A c \in E : c \in Kept(old, new) \/ c = <<0, 0>> \/ c = <<Len(old) + 1, Len(new) + 1>>
  BY EndsFacts
<1>3. <<0, 0>> \in E /\ <<Len(old) + 1, Len(new) + 1>> \in E
  BY DEF Ends
<1> HIDE DEF E
<1>4. \A c \in E : c[1] \in Nat /\ c[2] \in Nat /\ c[2] # j
  <2> TAKE c \in E
  <2>1. c[1] \in Nat /\ c[2] \in Nat /\ c = <<c[1], c[2]>>
    BY <1>1, <1>2
  <2>2. c \in Kept(old, new) => c[2] # j
    BY <2>1 DEF Joins
  <2> QED BY <1>1, <1>2, <2>1, <2>2
<1>5. low \subseteq Nat /\ low # {} /\ j \in Nat /\ \A n \in low : n <= j
  BY <1>1, <1>3, <1>4
<1>6. high \subseteq Nat /\ high # {}
  BY <1>1, <1>3, <1>4
<1>7. \E n \in low : \A k \in low : k <= n
  <2> HIDE DEF low
  <2>1. Max(low) \in low /\ \A k \in low : k <= Max(low)
    BY <1>5, GreatestNatural
  <2> QED BY <2>1
<1>8. \E n \in high : \A k \in high : n <= k
  <2> HIDE DEF high
  <2> QED BY <1>6, LeastNatural
<1>9. PICK a \in E : a[2] < j /\ \A c \in E : c[2] < j => c[2] <= a[2]
  BY <1>4, <1>7
<1>10. PICK b \in E : j < b[2] /\ \A c \in E : j < c[2] => b[2] <= c[2]
  BY <1>4, <1>8
<1>11. <<a, b>> \in Neighbours(E)
  <2>1. a[2] < b[2]
    BY <1>1, <1>4, <1>9, <1>10
  <2>2. a[1] < b[1]
    BY <1>2, <2>1
  <2>3. ASSUME NEW c \in E
        PROVE  c[1] <= a[1] \/ b[1] <= c[1]
    <3>1. c[2] <= a[2] \/ b[2] <= c[2]
      BY <1>1, <1>4, <1>9, <1>10
    <3>2. ~(a[2] < c[2]) \/ ~(c[2] < b[2])
      BY <1>4, <3>1
    <3>3. ~(a[1] < c[1]) \/ ~(c[1] < b[1])
      BY <1>2, <3>2
    <3> QED BY <1>4, <3>3
  <2> QED BY <2>2, <2>3 DEF Neighbours
<1>12. j \in (a[2] + 1 .. b[2] - 1) \ {m[2] : m \in Kept(old, new)}
  <2>1. j \in a[2] + 1 .. b[2] - 1
    BY <1>1, <1>4, <1>9, <1>10
  <2>2. \A m \in Kept(old, new) : m = <<m[1], m[2]>>
    BY KeptFacts DEF IsKept, IsAlignment
  <2>3. \A m \in Kept(old, new) : m[2] # j
    BY <2>2 DEF Joins
  <2> QED BY <2>1, <2>3
<1>13. Between(old, new, <<a, b>>).changes
  BY <1>12 DEF Between, HunkBetween
<1>14. <<a, b>>[1][2] < j /\ j < <<a, b>>[2][2]
  BY <1>9, <1>10
<1> QED BY <1>11, <1>13, <1>14 DEF E

\* A gap in numbers.
InFiles(ab, old, new) ==
  /\ ab[1][1] \in Nat /\ ab[1][2] \in Nat /\ ab[2][1] \in Nat /\ ab[2][2] \in Nat
  /\ ab[1][1] < ab[2][1] /\ ab[2][1] <= Len(old) + 1
  /\ ab[1][2] < ab[2][2] /\ ab[2][2] <= Len(new) + 1

IsGap(ab, old, new) ==
  /\ InFiles(ab, old, new)
  /\ IsCut(Kept(old, new), ab[1][1], ab[1][2])
  /\ IsCut(Kept(old, new), ab[2][1] - 1, ab[2][2] - 1)

LEMMA GapNumbers ==
  ASSUME NEW old \in Text, NEW new \in Text, NEW ab, IsGap(ab, old, new)
  PROVE  /\ ab[1][1] \in Nat /\ ab[1][2] \in Nat /\ ab[2][1] - 1 \in Nat /\ ab[2][2] - 1 \in Nat
         /\ ab[1][1] <= ab[2][1] - 1 /\ ab[2][1] - 1 <= Len(old)
         /\ ab[1][2] <= ab[2][2] - 1 /\ ab[2][2] - 1 <= Len(new)
         /\ ab[2][1] \in Nat /\ ab[2][2] \in Nat
<1>1. Len(old) \in Nat /\ Len(new) \in Nat
  BY DEF Text
<1>2. InFiles(ab, old, new)
  BY DEF IsGap
<1>3. /\ ab[1][1] \in Nat /\ ab[1][2] \in Nat
      /\ ab[2][1] \in Nat /\ ab[2][2] \in Nat
  BY <1>2 DEF InFiles
<1>4. /\ ab[1][1] < ab[2][1] /\ ab[2][1] <= Len(old) + 1
      /\ ab[1][2] < ab[2][2] /\ ab[2][2] <= Len(new) + 1
  BY <1>2 DEF InFiles
<1>5. ab[2][1] - 1 \in Nat /\ ab[1][1] <= ab[2][1] - 1 /\ ab[2][1] - 1 <= Len(old)
  BY <1>1, <1>3, <1>4
<1>6. ab[2][2] - 1 \in Nat /\ ab[1][2] <= ab[2][2] - 1 /\ ab[2][2] - 1 <= Len(new)
  BY <1>1, <1>3, <1>4
<1> QED BY <1>3, <1>5, <1>6

LEMMA NeighboursAreGaps ==
  ASSUME NEW old \in Text, NEW new \in Text, NEW context \in BOOLEAN,
         NEW ab \in Neighbours(Ends(old, new, context))
  PROVE  /\ IsGap(ab, old, new)
         /\ \A cd \in Neighbours(Ends(old, new, context)) :
              Follows(ab, cd) => ab[2][2] <= cd[1][2]
<1> DEFINE E == Ends(old, new, context)
<1>1. \A cd \in Neighbours(E) : cd[1] \in E /\ cd[2] \in E /\ cd[1][1] < cd[2][1]
  BY DEF Neighbours
<1>2. /\ E \subseteq (0 .. Len(old) + 1) \X (0 .. Len(new) + 1)
      /\ \A c, d \in E : c[1] < d[1] <=> c[2] < d[2]
  BY EndsFacts
<1>3. Len(old) \in Nat /\ Len(new) \in Nat
  BY DEF Text
<1>4. /\ IsCut(Kept(old, new), ab[1][1], ab[1][2])
      /\ IsCut(Kept(old, new), ab[2][1] - 1, ab[2][2] - 1)
  BY <1>1, EndsAreCuts
<1> HIDE DEF E
<1>5. \A c \in E : c[1] \in Nat /\ c[2] \in Nat /\ c[1] <= Len(old) + 1 /\ c[2] <= Len(new) + 1
  BY <1>2, <1>3
<1>6. ab[1] \in E /\ ab[2] \in E /\ ab[1][1] < ab[2][1]
  BY <1>1 DEF E
<1>7. IsGap(ab, old, new)
  <2>1. InFiles(ab, old, new)
    BY <1>2, <1>5, <1>6 DEF InFiles
  <2> QED BY <1>4, <2>1 DEF IsGap
<1>8. ASSUME NEW cd \in Neighbours(E), Follows(ab, cd)
      PROVE  ab[2][2] <= cd[1][2]
  <2>1. cd[1] \in E
    BY <1>1
  <2>2. ~(cd[1][1] < ab[2][1])
    BY <1>5, <1>6, <1>8, <2>1 DEF Follows
  <2>3. ~(cd[1][2] < ab[2][2])
    BY <1>2, <1>6, <2>1, <2>2
  <2> QED BY <1>5, <1>6, <2>1, <2>3
<1> QED BY <1>7, <1>8 DEF E

\* How far the hunks up to the n-th reach, and where the next one begins.
Reached(gaps, n) == IF n = 0 THEN <<0, 0>> ELSE <<gaps[n][2][1] - 1, gaps[n][2][2] - 1>>

Ahead(gaps, n, old, new, last) == IF n = last THEN <<Len(old), Len(new)>> ELSE gaps[n + 1][1]

\* Between two hunks all lines are kept, one by one.
IsStretch(from, to, old, new) ==
  /\ from[1] \in Nat /\ from[2] \in Nat /\ to[1] \in Nat /\ to[2] \in Nat
  /\ from[1] <= to[1] /\ to[1] <= Len(old) /\ from[2] <= to[2] /\ to[2] <= Len(new)
  /\ to[2] - from[2] = to[1] - from[1]
  /\ \A k \in 1 .. to[1] - from[1] : Joins(Kept(old, new), from[1] + k, from[2] + k)

LEMMA StretchBetween ==
  ASSUME NEW old \in Text, NEW new \in Text, NEW context \in BOOLEAN,
         NEW gaps, NEW hunks, Len(hunks) \in Nat, IsHunking(gaps, hunks, old, new, context),
         NEW n \in 0 .. Len(hunks)
  PROVE  IsStretch(Reached(gaps, n), Ahead(gaps, n, old, new, Len(hunks)), old, new)
<1> DEFINE K == Kept(old, new)
           N == Len(hunks)
           from == Reached(gaps, n)
           to == Ahead(gaps, n, old, new, N)
           Gaps == Neighbours(Ends(old, new, context))
           a == [k \in 1 .. N |-> gaps[k][1][1]]
           b == [k \in 1 .. N |-> gaps[k][1][2]]
           u == [k \in 1 .. N |-> gaps[k][2][1] - 1]
           v == [k \in 1 .. N |-> gaps[k][2][2] - 1]
<1>1. IsAlignment(K, old, new)
  BY KeptFacts DEF IsKept
<1>2. Len(old) \in Nat /\ Len(new) \in Nat /\ N \in Nat
  BY DEF Text
<1>3. /\ \A k \in 1 .. N : gaps[k] \in Gaps
      /\ \A k, l \in 1 .. N : k < l => Follows(gaps[k], gaps[l])
      /\ \A ab \in Gaps : Between(old, new, ab).changes => \E k \in 1 .. N : gaps[k] = ab
  BY DEF IsHunking
<1>4. \A k \in 1 .. N : IsGap(gaps[k], old, new)
  BY <1>3, NeighboursAreGaps
<1>5. ASSUME NEW k \in 1 .. N
      PROVE  /\ a[k] \in Nat /\ a[k] <= u[k] /\ u[k] \in Nat /\ u[k] <= Len(old)
             /\ b[k] \in Nat /\ b[k] <= v[k] /\ v[k] \in Nat /\ v[k] <= Len(new)
             /\ IsCut(K, a[k], b[k]) /\ IsCut(K, u[k], v[k])
  <2>1. IsGap(gaps[k], old, new)
    BY <1>4
  <2>2. /\ gaps[k][1][1] \in Nat /\ gaps[k][1][2] \in Nat
        /\ gaps[k][2][1] - 1 \in Nat /\ gaps[k][2][2] - 1 \in Nat
        /\ gaps[k][1][1] <= gaps[k][2][1] - 1 /\ gaps[k][2][1] - 1 <= Len(old)
        /\ gaps[k][1][2] <= gaps[k][2][2] - 1 /\ gaps[k][2][2] - 1 <= Len(new)
    BY <2>1, GapNumbers
  <2>3. IsCut(K, gaps[k][1][1], gaps[k][1][2]) /\ IsCut(K, gaps[k][2][1] - 1, gaps[k][2][2] - 1)
    BY <2>1 DEF IsGap
  <2> HIDE DEF K
  <2>4. /\ a[k] = gaps[k][1][1] /\ b[k] = gaps[k][1][2]
        /\ u[k] = gaps[k][2][1] - 1 /\ v[k] = gaps[k][2][2] - 1
    OBVIOUS
  <2> HIDE DEF a, b, u, v
  <2> QED BY <2>2, <2>3, <2>4
<1>6. ASSUME NEW k \in 1 .. N, NEW l \in 1 .. N, k < l
      PROVE  u[k] < a[l] /\ v[k] < b[l]
  <2>1. Follows(gaps[k], gaps[l]) /\ gaps[k] \in Gaps /\ gaps[l] \in Gaps
    BY <1>3, <1>6
  <2>2. gaps[k][2][1] <= gaps[l][1][1] /\ gaps[k][2][2] <= gaps[l][1][2]
    BY <2>1, NeighboursAreGaps DEF Follows
  <2>3. /\ gaps[k][2][1] \in Nat /\ gaps[l][1][1] \in Nat
        /\ gaps[k][2][2] \in Nat /\ gaps[l][1][2] \in Nat
    BY <1>4, GapNumbers
  <2>4. \A x, y \in Nat : x <= y => x - 1 < y
    OBVIOUS
  <2>5. gaps[k][2][1] - 1 < gaps[l][1][1] /\ gaps[k][2][2] - 1 < gaps[l][1][2]
    BY <2>2, <2>3, <2>4, Zenon
  <2> QED BY <2>5
<1>7. \A i \in 1 .. Len(old) : (\A j : ~Joins(K, i, j)) => \E k \in 1 .. N : a[k] < i /\ i <= u[k]
  <2> TAKE i \in 1 .. Len(old)
  <2> HAVE \A j : ~Joins(K, i, j)
  <2>1. PICK ab \in Gaps : ab[1][1] < i /\ i < ab[2][1] /\ Between(old, new, ab).changes
    BY RemovedLineInGap
  <2>2. PICK k \in 1 .. N : gaps[k] = ab
    BY <1>3, <2>1
  <2>3. a[k] < i /\ i < gaps[k][2][1] /\ u[k] = gaps[k][2][1] - 1 /\ gaps[k][2][1] \in Nat
    BY <1>4, <2>1, <2>2, GapNumbers
  <2> HIDE DEF a, u
  <2>4. i <= u[k]
    BY <1>2, <2>3
  <2> QED BY <2>3, <2>4
<1>8. \A j \in 1 .. Len(new) : (\A i : ~Joins(K, i, j)) => \E k \in 1 .. N : b[k] < j /\ j <= v[k]
  <2> TAKE j \in 1 .. Len(new)
  <2> HAVE \A i : ~Joins(K, i, j)
  <2>1. PICK ab \in Gaps : ab[1][2] < j /\ j < ab[2][2] /\ Between(old, new, ab).changes
    BY AddedLineInGap
  <2>2. PICK k \in 1 .. N : gaps[k] = ab
    BY <1>3, <2>1
  <2>3. b[k] < j /\ j < gaps[k][2][2] /\ v[k] = gaps[k][2][2] - 1 /\ gaps[k][2][2] \in Nat
    BY <1>4, <2>1, <2>2, GapNumbers
  <2> HIDE DEF b, v
  <2>4. j <= v[k]
    BY <1>2, <2>3
  <2> QED BY <2>3, <2>4
<1>9. IsCut(K, 0, 0) /\ IsCut(K, Len(old), Len(new))
  <2> HIDE DEF K
  <2>1. \A i, j : Joins(K, i, j) => i \in 1 .. Len(old) /\ j \in 1 .. Len(new)
    BY <1>1, AlignmentFacts
  <2> QED BY <1>2, <2>1 DEF IsCut
<1>10. /\ n = 0 => from[1] = 0 /\ from[2] = 0
       /\ n # 0 => n \in 1 .. N /\ from[1] = u[n] /\ from[2] = v[n]
  BY DEF Reached
<1>11. /\ n = N => to[1] = Len(old) /\ to[2] = Len(new)
       /\ n # N => n + 1 \in 1 .. N /\ to[1] = a[n + 1] /\ to[2] = b[n + 1]
  BY DEF Ahead
<1> HIDE DEF K, Gaps, a, b, u, v, from, to
<1>12. /\ from[1] \in Nat /\ from[2] \in Nat /\ from[1] <= Len(old) /\ from[2] <= Len(new)
       /\ IsCut(K, from[1], from[2])
  BY <1>2, <1>5, <1>9, <1>10
<1>13. /\ to[1] \in Nat /\ to[2] \in Nat /\ to[1] <= Len(old) /\ to[2] <= Len(new)
       /\ IsCut(K, to[1], to[2])
  <2>1. CASE n = N
    BY <1>2, <1>9, <1>11, <2>1
  <2>2. CASE n # N
    <3>1. n + 1 \in 1 .. N /\ to[1] = a[n + 1] /\ to[2] = b[n + 1]
      BY <1>11, <2>2
    <3>2. PICK l \in 1 .. N : l = n + 1
      BY <3>1
    <3>3. a[l] <= Len(old) /\ b[l] <= Len(new)
      <4>1. a[l] \in Nat /\ u[l] \in Nat /\ a[l] <= u[l] /\ u[l] <= Len(old)
        BY <1>5
      <4>2. b[l] \in Nat /\ v[l] \in Nat /\ b[l] <= v[l] /\ v[l] <= Len(new)
        BY <1>5
      <4> QED BY <1>2, <4>1, <4>2
    <3> QED BY <1>5, <3>1, <3>2, <3>3
  <2> QED BY <2>1, <2>2
<1>14. from[1] <= to[1] /\ from[2] <= to[2]
  <2>1. CASE n = 0 \/ n = N
    BY <1>10, <1>11, <1>12, <1>13, <2>1
  <2>2. CASE n # 0 /\ n # N
    <3>1. n \in 1 .. N /\ n + 1 \in 1 .. N /\ n < n + 1
      BY <1>10, <1>11, <2>2
    <3>2. u[n] < a[n + 1] /\ v[n] < b[n + 1]
      BY <1>6, <3>1
    <3> QED BY <1>5, <1>10, <1>11, <2>2, <3>1, <3>2
  <2> QED BY <2>1, <2>2
<1>15. ASSUME NEW k \in 1 .. N
       PROVE  (u[k] <= from[1] /\ v[k] <= from[2]) \/ (to[1] <= a[k] /\ to[2] <= b[k])
  <2>1. CASE k <= n
    <3>1. n \in 1 .. N /\ from[1] = u[n] /\ from[2] = v[n]
      BY <1>2, <1>10, <2>1
    <3>2. k = n \/ (k < n /\ u[k] < a[n] /\ v[k] < b[n])
      BY <1>6, <2>1, <3>1
    <3> QED BY <1>5, <3>1, <3>2
  <2>2. CASE k > n
    <3>1. n + 1 \in 1 .. N /\ to[1] = a[n + 1] /\ to[2] = b[n + 1]
      BY <1>2, <1>11, <2>2
    <3>2. PICK l \in 1 .. N : l = n + 1
      BY <3>1
    <3>3. k = l \/ (l < k /\ u[l] < a[k] /\ v[l] < b[k])
      BY <1>2, <1>6, <2>2, <3>2
    <3>4. to[1] <= a[k] /\ to[2] <= b[k]
      BY <1>5, <3>1, <3>2, <3>3
    <3> QED BY <3>4
  <2> QED BY <1>2, <2>1, <2>2
<1>16. ASSUME NEW i \in from[1] + 1 .. to[1]
       PROVE  \E j : Joins(K, i, j)
  <2>1. SUFFICES ASSUME \A j : ~Joins(K, i, j) PROVE FALSE
    OBVIOUS
  <2>2. i \in 1 .. Len(old)
    BY <1>2, <1>12, <1>13
  <2>3. PICK k \in 1 .. N : a[k] < i /\ i <= u[k]
    BY <1>7, <2>1, <2>2
  <2>4. u[k] <= from[1] \/ to[1] <= a[k]
    BY <1>15
  <2> QED BY <1>5, <1>12, <1>13, <2>3, <2>4
<1>17. ASSUME NEW j \in from[2] + 1 .. to[2]
       PROVE  \E i : Joins(K, i, j)
  <2>1. SUFFICES ASSUME \A i : ~Joins(K, i, j) PROVE FALSE
    OBVIOUS
  <2>2. j \in 1 .. Len(new)
    BY <1>2, <1>12, <1>13
  <2>3. PICK k \in 1 .. N : b[k] < j /\ j <= v[k]
    BY <1>8, <2>1, <2>2
  <2>4. v[k] <= from[2] \/ to[2] <= b[k]
    BY <1>15
  <2> QED BY <1>5, <1>12, <1>13, <2>3, <2>4
<1>18. /\ to[2] - from[2] = to[1] - from[1]
       /\ \A k \in 1 .. to[1] - from[1] : Joins(K, from[1] + k, from[2] + k)
  BY <1>1, <1>12, <1>13, <1>14, <1>16, <1>17, Diagonal
<1> QED BY <1>12, <1>13, <1>14, <1>18 DEF IsStretch, K, from, to

-----------------------------------------------------------------------------
(* A hunk puts every kept line of its region where the diff keeps it.      *)

\* No line of any file looks like a header when it is removed.
NoHeaders == Dashed = {}

Unkept(old, new, a, u) == {i \in a + 1 .. u : \A j : ~Joins(Kept(old, new), i, j)}
Unmade(old, new, b, v) == {j \in b + 1 .. v : \A i : ~Joins(Kept(old, new), i, j)}

\* The hunk of the old lines a + 1 .. u and the new lines b + 1 .. v.
IsHunkOf(h, old, new, a, b, u, v) ==
  /\ CarriedFrom(h) = a /\ h.old_count = u - a /\ h.new_count = v - b
  /\ b < v => h.new_start = b + 1
  /\ h.removed = {<<i, old[i]>> : i \in Unkept(old, new, a, u)}
  /\ h.added = {<<j, new[j]>> : j \in Unmade(old, new, b, v)}

LEMMA GapHunk ==
  ASSUME NoHeaders, NEW old \in Text, NEW new \in Text,
         NEW a \in Nat, NEW b \in Nat, NEW u \in Nat, NEW v \in Nat, a <= u, b <= v
  PROVE  IsHunkOf(HunkBetween(old, new, <<a, b>>, <<u + 1, v + 1>>), old, new, a, b, u, v)
<1> DEFINE K == Kept(old, new)
           h == HunkBetween(old, new, <<a, b>>, <<u + 1, v + 1>>)
           removed == (a + 1 .. (u + 1) - 1) \ {m[1] : m \in K}
           added == (b + 1 .. (v + 1) - 1) \ {m[2] : m \in K}
           headers == {i \in removed : old[i] \in Dashed}
           Precedes(j, i) == \E m \in K : j < m[2] /\ m[1] < i
<1>1. \A m \in K : m = <<m[1], m[2]>>
  BY KeptFacts DEF IsKept, IsAlignment
<1>2. /\ \A i : (\E m \in K : m[1] = i) <=> \E j : Joins(K, i, j)
      /\ \A j : (\E m \in K : m[2] = j) <=> \E i : Joins(K, i, j)
  <2> HIDE DEF K
  <2> QED BY <1>1 DEF Joins
<1>3. /\ h.old_start = (IF u + 1 = a + 1 THEN a ELSE a + 1)
      /\ h.old_count = (u + 1) - a - 1
      /\ h.new_start = (IF v + 1 = b + 1 THEN b ELSE b + 1)
      /\ h.new_count = (v + 1) - b - 1
      /\ h.removed = {<<i, old[i]>> : i \in {r \in removed : \A x \in headers : r < x}}
      /\ h.added = {<<j, new[j]>> : j \in {n \in added : \A x \in headers : Precedes(n, x)}}
  BY DEF HunkBetween
<1> HIDE DEF h, K
<1>4. headers = {}
  BY DEF NoHeaders
<1>5. (u + 1) - 1 = u /\ (v + 1) - 1 = v
  OBVIOUS
<1>6. removed = Unkept(old, new, a, u)
  BY <1>2, <1>5 DEF Unkept, K
<1>7. added = Unmade(old, new, b, v)
  BY <1>2, <1>5 DEF Unmade, K
<1> HIDE DEF headers, removed, added, Precedes
<1>8. h.removed = {<<i, old[i]>> : i \in Unkept(old, new, a, u)}
  <2>1. {r \in removed : \A x \in headers : r < x} = removed
    BY <1>4
  <2> QED BY <1>3, <1>6, <2>1, Zenon
<1>9. h.added = {<<j, new[j]>> : j \in Unmade(old, new, b, v)}
  <2>1. {n \in added : \A x \in headers : Precedes(n, x)} = added
    BY <1>4
  <2> QED BY <1>3, <1>7, <2>1, Zenon
<1>10. h.old_count = u - a /\ h.new_count = v - b /\ (b < v => h.new_start = b + 1)
  BY <1>3
<1>11. CarriedFrom(h) = a
  BY <1>3, <1>10 DEF CarriedFrom
<1> QED BY <1>8, <1>9, <1>10, <1>11 DEF IsHunkOf, h

\* The number of kept lines before a kept line is the same on both sides.
LEMMA KeptBefore ==
  ASSUME NEW old \in Text, NEW new \in Text,
         NEW a \in Nat, NEW b \in Nat, NEW u \in Nat, NEW v \in Nat,
         IsCut(Kept(old, new), a, b), IsCut(Kept(old, new), u, v),
         NEW i \in a + 1 .. u, NEW n \in b + 1 .. v, Joins(Kept(old, new), i, n)
  PROVE  /\ IsFiniteSet(Unmade(old, new, b, n - 1))
         /\ Cardinality({x \in (a + 1 .. u) \ Unkept(old, new, a, u) : x < i})
              = (n - 1 - b) - Cardinality(Unmade(old, new, b, n - 1))
<1> DEFINE K == Kept(old, new)
           A == {x \in (a + 1 .. u) \ Unkept(old, new, a, u) : x < i}
           B == {j \in b + 1 .. n - 1 : \E x : Joins(K, x, j)}
           f == [x \in A |-> CHOOSE j : Joins(K, x, j)]
           W == b + 1 .. n - 1
           C == Unmade(old, new, b, n - 1)
<1>1. IsAlignment(K, old, new)
  BY KeptFacts DEF IsKept
<1>2. Len(old) \in Nat /\ Len(new) \in Nat /\ i \in Nat /\ n \in Nat
  BY DEF Text
<1>3. \A x \in A : x \in a + 1 .. u /\ x < i /\ \E j : Joins(K, x, j)
  BY DEF Unkept
<1>4. \A x \in a + 1 .. u : (x < i /\ \E j : Joins(K, x, j)) => x \in A
  BY DEF Unkept
<1> HIDE DEF K, A
<1>5. /\ \A x, j : Joins(K, x, j) => x \in 1 .. Len(old) /\ j \in 1 .. Len(new)
      /\ \A x, j, k, l : Joins(K, x, j) /\ Joins(K, k, l) => (x < k <=> j < l)
      /\ \A x, j, k : Joins(K, x, j) /\ Joins(K, x, k) => j = k
      /\ \A x, j, k : Joins(K, x, k) /\ Joins(K, j, k) => x = j
  BY <1>1, AlignmentFacts
<1>6. /\ \A x, j : Joins(K, x, j) => (x <= a <=> j <= b)
      /\ Joins(K, i, n)
  BY DEF IsCut, K
<1>7. \A x \in A : Joins(K, x, f[x])
  <2> TAKE x \in A
  <2>1. f[x] = CHOOSE j : Joins(K, x, j)
    OBVIOUS
  <2> HIDE DEF f
  <2> QED BY <1>3, <2>1, Zenon
<1>8. DOMAIN f = A
  OBVIOUS
<1>9. \A x \in A : f[x] \in B
  <2> TAKE x \in A
  <2>1. Joins(K, x, f[x]) /\ x \in a + 1 .. u /\ x < i
    BY <1>3, <1>7
  <2> HIDE DEF f
  <2>2. f[x] \in 1 .. Len(new) /\ f[x] < n
    BY <1>5, <1>6, <2>1, Zenon
  <2>4. ~(x <= a)
    BY <2>1
  <2>5. ~(f[x] <= b)
    BY <1>6, <2>1, <2>4, Zenon
  <2>3. f[x] \in b + 1 .. n - 1
    BY <1>2, <2>2, <2>5
  <2> QED BY <2>1, <2>3
<1>10. f \in [A -> B]
  BY <1>9
<1> HIDE DEF f
<1>11. \A x, y \in A : f[x] = f[y] => x = y
  BY <1>5, <1>7
<1>12. \A j \in B : \E x \in A : f[x] = j
  <2> TAKE j \in B
  <2>1. PICK x : Joins(K, x, j)
    OBVIOUS
  <2>2. j \in b + 1 .. n - 1 /\ j < n /\ j \in Nat
    BY <1>2
  <2>7. ~(j <= b)
    BY <2>2
  <2>3. x \in 1 .. Len(old) /\ x < i
    BY <1>5, <1>6, <2>1, <2>2, Zenon
  <2>8. ~(x <= a)
    BY <1>6, <2>1, <2>7, Zenon
  <2>4. x \in a + 1 .. u
    BY <1>2, <2>3, <2>8
  <2>5. x \in A
    BY <1>4, <2>1, <2>3, <2>4
  <2>6. f[x] = j
    BY <1>5, <1>7, <2>1, <2>5
  <2> QED BY <2>5, <2>6
<1>13. f \in Bijection(A, B)
  BY <1>8, <1>10, <1>11, <1>12 DEF Bijection, Injection, Surjection, IsInjective
<1>14. IsFiniteSet(A)
  <2>1. IsFiniteSet(a + 1 .. u)
    BY FS_Interval
  <2>2. A \in SUBSET (a + 1 .. u)
    BY <1>3
  <2> QED BY <2>1, <2>2, FS_Subset
<1> HIDE DEF B
<1>15. IsFiniteSet(B) /\ Cardinality(B) = Cardinality(A)
  <2>1. ExistsBijection(A, B)
    BY <1>13 DEF ExistsBijection
  <2> QED BY <1>14, <2>1, FS_Bijection
<1>16. IsFiniteSet(W) /\ Cardinality(W) = n - 1 - b
  <2>1. b + 1 \in Int /\ n - 1 \in Int /\ b + 1 <= n
    BY <1>2
  <2>2. IsFiniteSet(W) /\ Cardinality(W) = IF b + 1 > n - 1 THEN 0 ELSE (n - 1) - (b + 1) + 1
    BY <2>1, FS_Interval
  <2> QED BY <1>2, <2>1, <2>2
<1>17. C = W \ B /\ W \cap B = B
  BY DEF Unmade, B, K
<1> HIDE DEF W, C
<1>18. IsFiniteSet(C) /\ Cardinality(C) = (n - 1 - b) - Cardinality(B)
  <2>1. IsFiniteSet(W \ B) /\ Cardinality(W \ B) = Cardinality(W) - Cardinality(W \cap B)
    BY <1>16, FS_Difference
  <2> QED BY <1>16, <1>17, <2>1
<1>19. Cardinality(B) \in Nat /\ Cardinality(C) \in Nat
  BY <1>15, <1>18, FS_CardinalityType
<1>20. Cardinality(A) = (n - 1 - b) - Cardinality(C)
  BY <1>2, <1>15, <1>18, <1>19
<1> QED BY <1>18, <1>20 DEF A, C

\* What a diff makes of a line of the new file: the old line that it keeps there, or a
\* line that it adds.
CarriedLine(lines, old, new, origin, n) ==
  IF \E i : Joins(Kept(old, new), i, n)
  THEN lines[CHOOSE i : Joins(Kept(old, new), i, n)]
  ELSE [content |-> new[n], provenance |-> AddedProvenance(origin)]

LEMMA CarriedLineIs ==
  ASSUME NEW old \in Text, NEW new \in Text, NEW lines, NEW origin, NEW n
  PROVE  /\ \A i : Joins(Kept(old, new), i, n) => CarriedLine(lines, old, new, origin, n) = lines[i]
         /\ (\A i : ~Joins(Kept(old, new), i, n)) =>
              CarriedLine(lines, old, new, origin, n)
                = [content |-> new[n], provenance |-> AddedProvenance(origin)]
<1> DEFINE K == Kept(old, new)
<1>1. IsAlignment(K, old, new)
  BY KeptFacts DEF IsKept
<1> HIDE DEF K
<1>2. \A i, j, k : Joins(K, i, k) /\ Joins(K, j, k) => i = j
  BY <1>1, AlignmentFacts
<1>3. \A i : Joins(K, i, n) => i = CHOOSE x : Joins(K, x, n)
  BY <1>2, Zenon
<1>4. CarriedLine(lines, old, new, origin, n) =
        IF \E i : Joins(K, i, n) THEN lines[CHOOSE i : Joins(K, i, n)]
        ELSE [content |-> new[n], provenance |-> AddedProvenance(origin)]
  BY DEF CarriedLine, K
<1>5. \A i : Joins(K, i, n) => CarriedLine(lines, old, new, origin, n) = lines[i]
  <2> TAKE i
  <2> HAVE Joins(K, i, n)
  <2>1. i = CHOOSE x : Joins(K, x, n)
    BY <1>3, Zenon
  <2> QED BY <1>4, <2>1, Zenon
<1>6. (\A i : ~Joins(K, i, n)) =>
        CarriedLine(lines, old, new, origin, n)
          = [content |-> new[n], provenance |-> AddedProvenance(origin)]
  BY <1>4, Zenon
<1> QED BY <1>5, <1>6, Zenon DEF K

LEMMA AddedNumbers ==
  ASSUME NEW old \in Text, NEW new \in Text, NEW h,
         NEW a \in Nat, NEW b \in Nat, NEW u \in Nat, NEW v \in Nat,
         IsHunkOf(h, old, new, a, b, u, v),
         NEW n \in b + 1 .. v, IsFiniteSet(Unmade(old, new, b, n - 1))
  PROVE  Cardinality({x \in h.added : x[1] < n}) = Cardinality(Unmade(old, new, b, n - 1))
<1> DEFINE C == Unmade(old, new, b, n - 1)
           X == {x \in h.added : x[1] < n}
           f == [j \in C |-> <<j, new[j]>>]
           P(j) == \A i : ~Joins(Kept(old, new), i, j)
<1>1. n \in Nat /\ b \in Nat /\ v \in Nat /\ n <= v
  OBVIOUS
<1>2. /\ \A j : j \in C <=> j \in b + 1 .. n - 1 /\ P(j)
      /\ \A j : j \in Unmade(old, new, b, v) <=> j \in b + 1 .. v /\ P(j)
  BY DEF Unmade
<1> HIDE DEF P
<1>3. h.added = {<<j, new[j]>> : j \in Unmade(old, new, b, v)}
  BY DEF IsHunkOf
<1>4. \A j : j \in b + 1 .. n - 1 <=> j \in b + 1 .. v /\ j < n
  BY <1>1
<1>5. \A j : j \in C <=> j \in Unmade(old, new, b, v) /\ j < n
  BY <1>2, <1>4, Zenon
<1> HIDE DEF C
<1>6. f \in [C -> X]
  BY <1>3, <1>5
<1>7. \A i, j \in C : f[i] = f[j] => i = j
  OBVIOUS
<1>8. \A x \in X : \E j \in C : f[j] = x
  BY <1>3, <1>5
<1> HIDE DEF f, X
<1>9. f \in Bijection(C, X)
  BY <1>6, <1>7, <1>8 DEF Bijection, Injection, Surjection, IsInjective
<1>10. ExistsBijection(C, X)
  BY <1>9 DEF ExistsBijection
<1> QED BY <1>10, FS_Bijection DEF C, X

\* A hunk puts each line of its region where it belongs.
LEMMA RegionCarried ==
  ASSUME NEW old \in Text, NEW new \in Text, NEW h, NEW lines, NEW origin,
         NEW a \in Nat, NEW b \in Nat, NEW u \in Nat, NEW v \in Nat, a <= u, b <= v,
         IsCut(Kept(old, new), a, b), IsCut(Kept(old, new), u, v),
         IsHunkOf(h, old, new, a, b, u, v)
  PROVE  ApplyHunk(lines, h, origin)
           = [k \in 1 .. v - b |-> CarriedLine(lines, old, new, origin, b + k)]
<1> DEFINE K == Kept(old, new)
           start == CarriedFrom(h)
           staying == (start + 1 .. start + h.old_count) \ {r[1] : r \in h.removed}
           carried == InOrder(staying, <)
           AddedAt(n) == {x \in h.added : x[1] = n}
           AddedBefore(n) == Cardinality({x \in h.added : x[1] < n})
           LineAt(k) ==
             LET n == h.new_start + k - 1
             IN IF AddedAt(n) # {}
                THEN [content |-> (CHOOSE x \in AddedAt(n) : TRUE)[2],
                      provenance |-> AddedProvenance(origin)]
                ELSE lines[carried[k - AddedBefore(n)]]
<1>1. ApplyHunk(lines, h, origin) = [k \in 1 .. h.new_count |-> LineAt(k)]
  BY Zenon DEF ApplyHunk
<1>2. /\ CarriedFrom(h) = a /\ h.old_count = u - a /\ h.new_count = v - b
      /\ b < v => h.new_start = b + 1
      /\ h.removed = {<<i, old[i]>> : i \in Unkept(old, new, a, u)}
      /\ h.added = {<<j, new[j]>> : j \in Unmade(old, new, b, v)}
  BY DEF IsHunkOf
<1>3. staying = (a + 1 .. u) \ Unkept(old, new, a, u)
  <2>1. {r[1] : r \in h.removed} = Unkept(old, new, a, u)
    <3> DEFINE U == Unkept(old, new, a, u)
    <3> HIDE DEF U
    <3>1. h.removed = {<<i, old[i]>> : i \in U}
      BY <1>2 DEF U
    <3>2. \A i \in U : <<i, old[i]>> \in h.removed /\ <<i, old[i]>>[1] = i
      BY <3>1
    <3>3. \A r \in h.removed : r[1] \in U
      BY <3>1
    <3>4. {r[1] : r \in h.removed} = U
      BY <3>2, <3>3, Zenon
    <3> QED BY <3>4 DEF U
  <2>2. start + h.old_count = u
    BY <1>2
  <2> QED BY <1>2, <2>1, <2>2
<1> HIDE DEF staying
<1>4. /\ carried \in [1 .. Cardinality(staying) -> staying]
      /\ \A i, j \in 1 .. Cardinality(staying) : i < j <=> carried[i] < carried[j]
      /\ \A x \in staying : \E i \in 1 .. Cardinality(staying) : carried[i] = x
      /\ \A i \in 1 .. Cardinality(staying) : Cardinality({x \in staying : x < carried[i]}) = i - 1
  <2>1. staying \in SUBSET (a + 1 .. u) /\ IsFiniteSet(a + 1 .. u)
    BY <1>3, FS_Interval
  <2>2. IsFiniteSet(staying)
    BY <2>1, FS_Subset
  <2>3. staying \subseteq Int
    BY <2>1
  <2> QED BY <2>2, <2>3, AscendingFacts
<1> HIDE DEF carried
<1>5. ASSUME NEW k \in 1 .. v - b
      PROVE  LineAt(k) = CarriedLine(lines, old, new, origin, b + k)
  <2> DEFINE n == b + k
  <2>1. h.new_start + k - 1 = n /\ n \in b + 1 .. v /\ n - b = k /\ n \in Nat
    BY <1>2
  <2> HIDE DEF n
  <2>2. CASE \A i : ~Joins(K, i, n)
    <3>1. n \in Unmade(old, new, b, v)
      BY <2>1, <2>2 DEF Unmade
    <3>2. AddedAt(n) = {<<n, new[n]>>}
      BY <1>2, <3>1
    <3>5. (CHOOSE x \in AddedAt(n) : TRUE) = <<n, new[n]>> /\ AddedAt(n) # {}
      BY <3>2
    <3> HIDE DEF AddedAt
    <3>6. LineAt(k) = [content |-> (CHOOSE x \in AddedAt(n) : TRUE)[2],
                       provenance |-> AddedProvenance(origin)]
      BY <2>1, <3>5
    <3> HIDE DEF LineAt
    <3>7. (CHOOSE x \in AddedAt(n) : TRUE)[2] = <<n, new[n]>>[2]
      BY <3>5, Zenon
    <3>8. <<n, new[n]>>[2] = new[n]
      OBVIOUS
    <3>3. LineAt(k) = [content |-> new[n], provenance |-> AddedProvenance(origin)]
      BY <3>6, <3>7, <3>8, Zenon
    <3> QED BY <2>2, <3>3, CarriedLineIs DEF n
  <2>3. ASSUME NEW i, Joins(K, i, n)
        PROVE  LineAt(k) = CarriedLine(lines, old, new, origin, b + k)
    <3>1. n \notin Unmade(old, new, b, v)
      BY <2>3 DEF Unmade
    <3>2. AddedAt(n) = {}
      BY <1>2, <3>1
    <3>3. LineAt(k) = lines[carried[k - AddedBefore(n)]]
      BY <2>1, <3>2
    <3> HIDE DEF LineAt, AddedAt
    <3>4. i \in a + 1 .. u
      <4>1. (i <= a <=> n <= b) /\ (i <= u <=> n <= v)
        BY <2>3 DEF IsCut, K
      <4>2. IsAlignment(K, old, new)
        BY KeptFacts DEF IsKept
      <4>3. i \in 1 .. Len(old)
        <5> HIDE DEF K
        <5> QED BY <2>3, <4>2, AlignmentFacts
      <4> HIDE DEF K
      <4> QED BY <2>1, <4>1, <4>3
    <3>5. /\ IsFiniteSet(Unmade(old, new, b, n - 1))
          /\ Cardinality({x \in (a + 1 .. u) \ Unkept(old, new, a, u) : x < i})
               = (n - 1 - b) - Cardinality(Unmade(old, new, b, n - 1))
      BY <2>1, <2>3, <3>4, KeptBefore
    <3>6. AddedBefore(n) = Cardinality(Unmade(old, new, b, n - 1))
      BY <2>1, <3>5, AddedNumbers
    <3>7. i \in staying
      BY <1>3, <2>3, <3>4 DEF Unkept
    <3>8. PICK m \in 1 .. Cardinality(staying) : carried[m] = i
      BY <1>4, <3>7
    <3>9. Cardinality({x \in staying : x < i}) = m - 1
      BY <1>4, <3>8
    <3>10. Cardinality({x \in staying : x < i}) = (n - 1 - b) - AddedBefore(n)
      BY <1>3, <3>5, <3>6
    <3>11. AddedBefore(n) \in Nat
      BY <3>5, <3>6, FS_CardinalityType
    <3> HIDE DEF AddedBefore
    <3>12. m = k - AddedBefore(n)
      BY <2>1, <3>9, <3>10, <3>11
    <3>13. LineAt(k) = lines[i]
      BY <3>3, <3>8, <3>12
    <3> QED BY <2>3, <3>13, CarriedLineIs DEF n
  <2> QED BY <2>2, <2>3
<1> HIDE DEF LineAt
<1> QED BY <1>1, <1>2, <1>5

-----------------------------------------------------------------------------
(* All the hunks of a file.                                                *)

Line == [content : Texts, provenance : Provenances]

\* Lines that begin a new file as the diff makes it of those of an old one.
IsCarried(lines, count, tracked, old, new, origin) ==
  /\ lines \in Seq(Line) /\ Len(lines) = count
  /\ \A k \in 1 .. count : /\ lines[k] = CarriedLine(tracked, old, new, origin, k)
                           /\ \A i : Joins(Kept(old, new), i, k) => i <= Len(tracked)

LEMMA CarriedIsLine ==
  ASSUME NEW old \in Text, NEW new \in Text, NEW tracked \in Seq(Line), NEW origin \in Origins,
         NEW n \in 1 .. Len(new), \A i : Joins(Kept(old, new), i, n) => i <= Len(tracked)
  PROVE  CarriedLine(tracked, old, new, origin, n) \in Line
<1>1. CASE \A i : ~Joins(Kept(old, new), i, n)
  <2>1. CarriedLine(tracked, old, new, origin, n)
          = [content |-> new[n], provenance |-> AddedProvenance(origin)]
    BY <1>1, CarriedLineIs
  <2>2. new[n] \in Texts
    BY DEF Text
  <2>3. AddedProvenance(origin) \in Provenances
    BY DEF AddedProvenance, Origins, Provenances
  <2> QED BY <2>1, <2>2, <2>3 DEF Line
<1>2. ASSUME NEW i, Joins(Kept(old, new), i, n)
      PROVE  CarriedLine(tracked, old, new, origin, n) \in Line
  <2>1. CarriedLine(tracked, old, new, origin, n) = tracked[i]
    BY <1>2, CarriedLineIs
  <2>2. IsAlignment(Kept(old, new), old, new)
    BY KeptFacts DEF IsKept
  <2>3. i \in 1 .. Len(old)
    BY <1>2, <2>2, AlignmentFacts
  <2>4. i \in 1 .. Len(tracked)
    BY <1>2, <2>3
  <2>5. tracked[i] \in Line
    <3> HIDE DEF Line
    <3> QED BY <2>4
  <2> QED BY <2>1, <2>5
<1> QED BY <1>1, <1>2

LEMMA StretchCarried ==
  ASSUME NEW old \in Text, NEW new \in Text, NEW tracked \in Seq(Line), NEW origin \in Origins,
         NEW a \in Nat, NEW b \in Nat, NEW u \in Nat, a <= u, u <= Len(tracked),
         NEW lines, IsCarried(lines, b, tracked, old, new, origin),
         \A k \in 1 .. u - a : Joins(Kept(old, new), a + k, b + k)
  PROVE  IsCarried(lines \o SubSeq(tracked, a + 1, u), b + (u - a), tracked, old, new, origin)
<1> DEFINE part == SubSeq(tracked, a + 1, u)
           all == lines \o part
<1>1. lines \in Seq(Line) /\ Len(lines) = b
  BY DEF IsCarried
<1>2. part \in Seq(Line) /\ Len(part) = u - a /\ \A k \in 1 .. u - a : part[k] = tracked[a + k]
  <2> HIDE DEF Line
  <2>1. Len(tracked) \in Nat
    OBVIOUS
  <2>2. a + 1 \in 1 .. Len(tracked) + 1 /\ u \in a .. Len(tracked)
    BY <2>1
  <2>3. CASE a = u
    BY <2>3
  <2>4. CASE a < u
    BY <2>1, <2>2, <2>4
  <2> QED BY <2>3, <2>4
<1> HIDE DEF part
<1>3. /\ all \in Seq(Line) /\ Len(all) = b + (u - a)
      /\ \A k \in 1 .. b + (u - a) : all[k] = IF k <= b THEN lines[k] ELSE part[k - b]
  <2> DEFINE S == Line
  <2> HIDE DEF Line, S
  <2>1. lines \in Seq(S) /\ part \in Seq(S)
    BY <1>1, <1>2 DEF S
  <2>2. /\ all \in Seq(S) /\ Len(all) = Len(lines) + Len(part)
        /\ \A k \in 1 .. Len(lines) + Len(part) :
             all[k] = IF k <= Len(lines) THEN lines[k] ELSE part[k - Len(lines)]
    BY <2>1, ConcatProperties
  <2>3. Len(lines) = b /\ Len(part) = u - a /\ b + (u - a) \in Nat
    BY <1>1, <1>2
  <2> HIDE DEF all
  <2> QED BY <2>2, <2>3 DEF S
<1> HIDE DEF all
<1>4. ASSUME NEW k \in 1 .. b + (u - a)
      PROVE  /\ all[k] = CarriedLine(tracked, old, new, origin, k)
             /\ \A i : Joins(Kept(old, new), i, k) => i <= Len(tracked)
  <2>1. CASE k <= b
    BY <1>3, <2>1 DEF IsCarried
  <2>2. CASE ~(k <= b)
    <3>1. k - b \in 1 .. u - a /\ b + (k - b) = k
      BY <2>2
    <3>2. Joins(Kept(old, new), a + (k - b), k)
      BY <3>1
    <3>3. all[k] = tracked[a + (k - b)]
      BY <1>2, <1>3, <2>2, <3>1
    <3>4. CarriedLine(tracked, old, new, origin, k) = tracked[a + (k - b)]
      BY <3>2, CarriedLineIs
    <3>5. IsAlignment(Kept(old, new), old, new)
      BY KeptFacts DEF IsKept
    <3>6. \A i : Joins(Kept(old, new), i, k) => i = a + (k - b)
      BY <3>2, <3>5, AlignmentFacts
    <3>7. a + (k - b) <= Len(tracked)
      BY <3>1
    <3> QED BY <3>3, <3>4, <3>6, <3>7
  <2> QED BY <2>1, <2>2
<1> QED BY <1>3, <1>4 DEF IsCarried, all, part

LEMMA HunkCarried ==
  ASSUME NEW old \in Text, NEW new \in Text, NEW tracked \in Seq(Line), NEW origin \in Origins,
         NEW a \in Nat, NEW b \in Nat, NEW u \in Nat, NEW v \in Nat, a <= u, b <= v,
         u <= Len(tracked), v <= Len(new),
         IsCut(Kept(old, new), a, b), IsCut(Kept(old, new), u, v),
         NEW h, IsHunkOf(h, old, new, a, b, u, v),
         NEW lines, IsCarried(lines, b, tracked, old, new, origin)
  PROVE  IsCarried(lines \o ApplyHunk(tracked, h, origin), v, tracked, old, new, origin)
<1> DEFINE part == [k \in 1 .. v - b |-> CarriedLine(tracked, old, new, origin, b + k)]
           all == lines \o part
<1>1. ApplyHunk(tracked, h, origin) = part
  BY RegionCarried
<1>2. lines \in Seq(Line) /\ Len(lines) = b
  BY DEF IsCarried
<1>3. ASSUME NEW k \in b + 1 .. v
      PROVE  /\ \A i : Joins(Kept(old, new), i, k) => i <= Len(tracked)
             /\ CarriedLine(tracked, old, new, origin, k) \in Line
  <2>1. k \in 1 .. Len(new) /\ k <= v
    BY DEF Text
  <2>2. \A i : Joins(Kept(old, new), i, k) => i <= u
    BY <2>1 DEF IsCut
  <2>3. IsAlignment(Kept(old, new), old, new)
    BY KeptFacts DEF IsKept
  <2>4. \A i : Joins(Kept(old, new), i, k) => i \in 1 .. Len(old)
    BY <2>3, AlignmentFacts
  <2>5. \A i \in Nat : i <= u => i <= Len(tracked)
    <3> HIDE DEF Line
    <3> QED OBVIOUS
  <2>6. \A i : Joins(Kept(old, new), i, k) => i <= Len(tracked)
    BY <2>2, <2>4, <2>5
  <2> QED BY <2>1, <2>6, CarriedIsLine
<1>4. part \in Seq(Line) /\ Len(part) = v - b
      /\ \A k \in 1 .. v - b : part[k] = CarriedLine(tracked, old, new, origin, b + k)
  <2>1. \A k \in 1 .. v - b : CarriedLine(tracked, old, new, origin, b + k) \in Line
    BY <1>3
  <2>2. v - b \in Nat
    OBVIOUS
  <2> HIDE DEF Line
  <2> QED BY <2>1, <2>2
<1> HIDE DEF part
<1>5. /\ all \in Seq(Line) /\ Len(all) = v
      /\ \A k \in 1 .. v : all[k] = IF k <= b THEN lines[k] ELSE part[k - b]
  <2> DEFINE S == Line
  <2> HIDE DEF Line, S
  <2>1. lines \in Seq(S) /\ part \in Seq(S)
    BY <1>2, <1>4 DEF S
  <2>2. /\ all \in Seq(S) /\ Len(all) = Len(lines) + Len(part)
        /\ \A k \in 1 .. Len(lines) + Len(part) :
             all[k] = IF k <= Len(lines) THEN lines[k] ELSE part[k - Len(lines)]
    BY <2>1, ConcatProperties
  <2>3. Len(lines) = b /\ Len(part) = v - b /\ b + (v - b) \in Nat
    BY <1>2, <1>4
  <2> HIDE DEF all
  <2> QED BY <2>2, <2>3 DEF S
<1> HIDE DEF all
<1>6. ASSUME NEW k \in 1 .. v
      PROVE  /\ all[k] = CarriedLine(tracked, old, new, origin, k)
             /\ \A i : Joins(Kept(old, new), i, k) => i <= Len(tracked)
  <2>1. CASE k <= b
    BY <1>5, <2>1 DEF IsCarried
  <2>2. CASE ~(k <= b)
    <3>1. k - b \in 1 .. v - b /\ b + (k - b) = k /\ k \in b + 1 .. v
      BY <2>2
    <3> QED BY <1>3, <1>4, <1>5, <2>2, <3>1
  <2> QED BY <2>1, <2>2
<1> QED BY <1>1, <1>5, <1>6 DEF IsCarried, all

LEMMA GapIsHunk ==
  ASSUME NoHeaders, NEW old \in Text, NEW new \in Text, NEW context \in BOOLEAN,
         NEW ab \in Neighbours(Ends(old, new, context))
  PROVE  IsHunkOf(Between(old, new, ab), old, new,
                  ab[1][1], ab[1][2], ab[2][1] - 1, ab[2][2] - 1)
<1> DEFINE a == ab[1][1]  b == ab[1][2]  u == ab[2][1] - 1  v == ab[2][2] - 1
<1>1. IsGap(ab, old, new)
  BY NeighboursAreGaps
<1>2. /\ a \in Nat /\ b \in Nat /\ u \in Nat /\ v \in Nat /\ a <= u /\ b <= v
      /\ ab[2][1] \in Nat /\ ab[2][2] \in Nat
  BY <1>1, GapNumbers
<1>3. ab[1] \in Ends(old, new, context) /\ ab[2] \in Ends(old, new, context)
  BY DEF Neighbours
<1>4. Ends(old, new, context) \subseteq (0 .. Len(old) + 1) \X (0 .. Len(new) + 1)
  BY EndsFacts
<1>5. ab[1] = <<a, b>> /\ ab[2] = <<ab[2][1], ab[2][2]>>
  BY <1>3, <1>4
<1>6. ab[2] = <<u + 1, v + 1>>
  BY <1>2, <1>5
<1> HIDE DEF a, b, u, v
<1>7. IsHunkOf(HunkBetween(old, new, <<a, b>>, <<u + 1, v + 1>>), old, new, a, b, u, v)
  BY <1>2, GapHunk
<1>8. Between(old, new, ab) = HunkBetween(old, new, <<a, b>>, <<u + 1, v + 1>>)
  BY <1>5, <1>6 DEF Between
<1> QED BY <1>7, <1>8 DEF a, b, u, v

\* What holds after the first hunks of a file have been applied.
Progress(done, at, tracked, old, new, origin) ==
  /\ DOMAIN done = {"ok", "cursor", "lines"}
  /\ done.ok => /\ done.cursor = at[1] /\ done.cursor <= Len(tracked)
                /\ IsCarried(done.lines, at[2], tracked, old, new, origin)

LEMMA OneHunkCarried ==
  ASSUME NoHeaders, NEW old \in Text, NEW new \in Text, NEW context \in BOOLEAN,
         NEW tracked \in Seq(Line), NEW origin \in Origins,
         NEW gaps, NEW hunks, Len(hunks) \in Nat, IsHunking(gaps, hunks, old, new, context),
         NEW n \in 1 .. Len(hunks), NEW done,
         Progress(done, Reached(gaps, n - 1), tracked, old, new, origin)
  PROVE  Progress(ApplyOneHunk(done, tracked, hunks[n], origin), Reached(gaps, n),
                  tracked, old, new, origin)
<1> DEFINE ab == gaps[n]
           a == ab[1][1]  b == ab[1][2]  u == ab[2][1] - 1  v == ab[2][2] - 1
           h == hunks[n]
           from == Reached(gaps, n - 1)
           then == ApplyOneHunk(done, tracked, h, origin)
<1>1. ab \in Neighbours(Ends(old, new, context)) /\ h = Between(old, new, ab)
  BY DEF IsHunking
<1>2. IsGap(ab, old, new)
  BY <1>1, NeighboursAreGaps
<1>3. /\ a \in Nat /\ b \in Nat /\ u \in Nat /\ v \in Nat /\ a <= u /\ u <= Len(old)
      /\ b <= v /\ v <= Len(new)
  BY <1>2, GapNumbers
<1>4. IsHunkOf(h, old, new, a, b, u, v)
  BY <1>1, GapIsHunk
<1>5. IsCut(Kept(old, new), a, b) /\ IsCut(Kept(old, new), u, v)
  BY <1>2 DEF IsGap
<1>6. IsStretch(from, <<a, b>>, old, new)
  <2>1. n - 1 \in 0 .. Len(hunks) /\ n - 1 # Len(hunks) /\ (n - 1) + 1 = n
    OBVIOUS
  <2>2. IsStretch(from, Ahead(gaps, n - 1, old, new, Len(hunks)), old, new)
    BY <2>1, StretchBetween
  <2>3. Ahead(gaps, n - 1, old, new, Len(hunks)) = ab[1]
    BY <2>1 DEF Ahead
  <2>4. ab[1][1] = a /\ ab[1][2] = b
    OBVIOUS
  <2> QED BY <2>2, <2>3 DEF IsStretch
<1>7. Reached(gaps, n) = <<u, v>>
  BY DEF Reached
<1> HIDE DEF ab, a, b, u, v, h, from, then
<1>8. CASE ~done.ok \/ ~HunkFits(tracked, h, done.cursor)
  <2>1. then = [done EXCEPT !.ok = FALSE]
    BY <1>8 DEF ApplyOneHunk, then
  <2>2. DOMAIN then = {"ok", "cursor", "lines"} /\ ~then.ok
    BY <2>1 DEF Progress
  <2> QED BY <2>2 DEF Progress, then, h
<1>9. CASE done.ok /\ HunkFits(tracked, h, done.cursor)
  <2>1. then = [ok |-> TRUE, cursor |-> CarriedFrom(h) + h.old_count,
                lines |-> done.lines \o SubSeq(tracked, done.cursor + 1, CarriedFrom(h))
                            \o ApplyHunk(tracked, h, origin)]
    BY <1>9 DEF ApplyOneHunk, then
  <2>2. CarriedFrom(h) = a /\ h.old_count = u - a /\ CarriedFrom(h) + h.old_count = u
    BY <1>3, <1>4 DEF IsHunkOf
  <2>3. u <= Len(tracked)
    BY <1>9, <2>2 DEF HunkFits
  <2>4. done.cursor = from[1] /\ IsCarried(done.lines, from[2], tracked, old, new, origin)
    BY <1>9 DEF Progress, from
  <2>5. /\ from[1] \in Nat /\ from[2] \in Nat /\ from[1] <= a /\ from[2] <= b
        /\ b - from[2] = a - from[1]
        /\ \A k \in 1 .. a - from[1] : Joins(Kept(old, new), from[1] + k, from[2] + k)
    BY <1>6 DEF IsStretch
  <2>6. a <= Len(tracked) /\ from[2] + (a - from[1]) = b
    <3>1. Len(tracked) \in Nat
      <4> HIDE DEF Line
      <4> QED OBVIOUS
    <3> QED BY <1>3, <2>3, <2>5, <3>1
  <2> DEFINE lines == done.lines \o SubSeq(tracked, from[1] + 1, a)
  <2>7. IsCarried(lines, b, tracked, old, new, origin)
    <3>1. IsCarried(lines, from[2] + (a - from[1]), tracked, old, new, origin)
      BY <1>3, <2>4, <2>5, <2>6, StretchCarried
    <3> QED BY <2>6, <3>1
  <2> HIDE DEF lines
  <2>8. IsCarried(lines \o ApplyHunk(tracked, h, origin), v, tracked, old, new, origin)
    BY <1>3, <1>4, <1>5, <2>3, <2>7, HunkCarried
  <2>9. then = [ok |-> TRUE, cursor |-> u, lines |-> lines \o ApplyHunk(tracked, h, origin)]
    BY <2>1, <2>2, <2>4 DEF lines
  <2>10. Progress(then, <<u, v>>, tracked, old, new, origin)
    BY <2>3, <2>8, <2>9 DEF Progress
  <2> QED BY <1>7, <2>10 DEF then, h
<1> QED BY <1>8, <1>9

\* The hunks of a diff, applied, carry the old lines to where the new file has them.
LEMMA HunksCarried ==
  ASSUME NoHeaders, NEW old \in Text, NEW new \in Text, NEW context \in BOOLEAN,
         NEW tracked \in Seq(Line), Len(tracked) <= Len(old), NEW origin \in Origins,
         NEW res, res = ApplyHunks(tracked, Hunks(old, new, context), origin), res.ok
  PROVE  IsCarried(res.lines, Len(new) - (Len(old) - Len(tracked)), tracked, old, new, origin)
<1> DEFINE hunks == Hunks(old, new, context)
           last == Len(hunks)
<1>1. last \in Nat /\ \E gaps : IsHunking(gaps, hunks, old, new, context)
  BY HunksFacts
<1>2. PICK gaps : IsHunking(gaps, hunks, old, new, context)
  BY <1>1
<1> HIDE DEF hunks
<1>3. PICK done : /\ Applied(done, last, tracked, hunks, origin)
                  /\ ApplyHunks(tracked, hunks, origin) =
                       [ok |-> done[last].ok,
                        lines |-> done[last].lines
                                    \o SubSeq(tracked, done[last].cursor + 1, Len(tracked))]
  BY <1>1, HunksApplied
<1>4. \A n \in 0 .. last :
        done[n] = IF n = 0 THEN [ok |-> TRUE, cursor |-> 0, lines |-> <<>>]
                  ELSE ApplyOneHunk(done[n - 1], tracked, hunks[n], origin)
  BY <1>3, Zenon DEF Applied
<1>5. Len(tracked) \in Nat /\ Len(old) \in Nat /\ Len(new) \in Nat
  <2>1. Len(tracked) \in Nat
    <3> HIDE DEF Line
    <3> QED OBVIOUS
  <2> QED BY <2>1 DEF Text
<1> DEFINE P(n) == Progress(done[n], Reached(gaps, n), tracked, old, new, origin)
<1>6. P(0)
  <2>1. done[0] = [ok |-> TRUE, cursor |-> 0, lines |-> <<>>]
    BY <1>1, <1>4
  <2>2. Reached(gaps, 0) = <<0, 0>>
    BY DEF Reached
  <2>3. <<>> \in Seq(Line) /\ Len(<<>>) = 0
    BY EmptySeq
  <2>4. IsCarried(<<>>, 0, tracked, old, new, origin)
    BY <2>3 DEF IsCarried
  <2> HIDE DEF Line
  <2> QED BY <1>5, <2>1, <2>2, <2>4 DEF Progress
<1>7. \A n \in 1 .. last : P(n - 1) => P(n)
  <2> TAKE n \in 1 .. last
  <2> HAVE P(n - 1)
  <2>1. done[n] = ApplyOneHunk(done[n - 1], tracked, hunks[n], origin)
    <3>1. n \in 0 .. last /\ n # 0
      BY <1>1
    <3> QED BY <1>4, <3>1
  <2> QED BY <1>1, <1>2, <2>1, OneHunkCarried
<1> HIDE DEF P
<1>8. P(last)
  <2>1. SUFFICES ASSUME ~P(last) PROVE FALSE
    OBVIOUS
  <2> DEFINE T == {n \in 0 .. last : ~P(n)}
  <2>2. T \subseteq Nat /\ T # {}
    BY <1>1, <2>1
  <2>3. PICK n \in T : \A m \in T : n <= m
    BY <2>2, LeastNatural
  <2>4. n \in 1 .. last /\ n - 1 \in 0 .. last /\ n - 1 \notin T
    BY <1>1, <1>6, <2>3
  <2> QED BY <1>7, <2>3, <2>4
<1>9. /\ res.lines = done[last].lines \o SubSeq(tracked, done[last].cursor + 1, Len(tracked))
      /\ done[last].ok
  <2>1. res = ApplyHunks(tracked, hunks, origin)
    BY DEF hunks
  <2> DEFINE x == done[last].ok
             y == done[last].lines \o SubSeq(tracked, done[last].cursor + 1, Len(tracked))
  <2>2. res = [ok |-> x, lines |-> y]
    BY <1>3, <2>1, Zenon
  <2> HIDE DEF x, y
  <2>3. res.ok = x /\ res.lines = y
    BY <2>2
  <2>4. x
    BY <2>3, Zenon
  <2> QED BY <2>3, <2>4, Zenon DEF x, y
<1> DEFINE from == Reached(gaps, last)
<1>10. /\ done[last].cursor = from[1] /\ from[1] <= Len(tracked)
       /\ IsCarried(done[last].lines, from[2], tracked, old, new, origin)
  BY <1>8, <1>9 DEF Progress, P
<1>11. IsStretch(from, <<Len(old), Len(new)>>, old, new)
  <2>1. last \in 0 .. last
    BY <1>1
  <2>2. IsStretch(from, Ahead(gaps, last, old, new, last), old, new)
    BY <1>1, <1>2, <2>1, StretchBetween
  <2> QED BY <2>2 DEF Ahead
<1> HIDE DEF from
<1>12. /\ from[1] \in Nat /\ from[2] \in Nat
       /\ Len(new) - from[2] = Len(old) - from[1]
       /\ \A k \in 1 .. Len(old) - from[1] : Joins(Kept(old, new), from[1] + k, from[2] + k)
  BY <1>11 DEF IsStretch
<1>13. /\ from[2] + (Len(tracked) - from[1]) = Len(new) - (Len(old) - Len(tracked))
       /\ \A k \in 1 .. Len(tracked) - from[1] : k \in 1 .. Len(old) - from[1]
  <2>1. \A t, o, w, x, y \in Nat :
          w - y = o - x /\ t <= o => /\ y + (t - x) = w - (o - t)
                                    /\ \A k \in 1 .. t - x : k \in 1 .. o - x
    OBVIOUS
  <2> DEFINE t == Len(tracked)  o == Len(old)  w == Len(new)  x == from[1]  y == from[2]
  <2>2. /\ t \in Nat /\ o \in Nat /\ w \in Nat /\ x \in Nat /\ y \in Nat
        /\ w - y = o - x /\ t <= o
    BY <1>5, <1>12
  <2> HIDE DEF t, o, w, x, y
  <2>3. y + (t - x) = w - (o - t) /\ \A k \in 1 .. t - x : k \in 1 .. o - x
    BY <2>1, <2>2
  <2> QED BY <2>3 DEF t, o, w, x, y
<1> DEFINE a == from[1]  b == from[2]  u == Len(tracked)  lines == done[last].lines
<1>14. IsCarried(lines \o SubSeq(tracked, a + 1, u), b + (u - a), tracked, old, new, origin)
  <2>1. /\ a \in Nat /\ b \in Nat /\ u \in Nat /\ a <= u /\ u <= Len(tracked)
        /\ IsCarried(lines, b, tracked, old, new, origin)
    BY <1>5, <1>10, <1>12
  <2>2. \A k \in 1 .. u - a : Joins(Kept(old, new), a + k, b + k)
    BY <1>12, <1>13
  <2> HIDE DEF a, b, u, lines
  <2> QED BY <2>1, <2>2, StretchCarried
<1> QED BY <1>9, <1>10, <1>13, <1>14

\* Lines that say what a file says, or the beginning of it.
Follow(lines, file) ==
  /\ lines \in Seq(Line) /\ Len(lines) <= Len(file)
  /\ \A n \in 1 .. Len(lines) : lines[n].content = file[n]

LEMMA CarriedFollow ==
  ASSUME NEW old \in Text, NEW new \in Text, NEW tracked, Follow(tracked, old),
         NEW origin \in Origins, NEW lines, NEW count, count <= Len(new),
         IsCarried(lines, count, tracked, old, new, origin)
  PROVE  Follow(lines, new)
<1>1. /\ lines \in Seq(Line) /\ Len(lines) = count
      /\ \A k \in 1 .. count : /\ lines[k] = CarriedLine(tracked, old, new, origin, k)
                               /\ \A i : Joins(Kept(old, new), i, k) => i <= Len(tracked)
  BY DEF IsCarried
<1>2. \A n \in 1 .. Len(tracked) : tracked[n].content = old[n]
  BY DEF Follow
<1>3. IsAlignment(Kept(old, new), old, new)
  BY KeptFacts DEF IsKept
<1>4. \A i, j : Joins(Kept(old, new), i, j) => i \in 1 .. Len(old) /\ old[i] = new[j]
  BY <1>3, AlignmentFacts
<1>5. Len(tracked) \in Nat
  <2> HIDE DEF Line
  <2> QED BY DEF Follow
<1>6. ASSUME NEW k \in 1 .. count
      PROVE  lines[k].content = new[k]
  <2>1. CASE \A i : ~Joins(Kept(old, new), i, k)
    <3>1. lines[k] = [content |-> new[k], provenance |-> AddedProvenance(origin)]
      BY <1>1, <2>1, CarriedLineIs
    <3> QED BY <3>1
  <2>2. ASSUME NEW i, Joins(Kept(old, new), i, k)
        PROVE  lines[k].content = new[k]
    <3>1. lines[k] = tracked[i]
      BY <1>1, <2>2, CarriedLineIs
    <3>2. i \in 1 .. Len(tracked)
      <4>1. i <= Len(tracked)
        BY <1>1, <2>2
      <4>2. i \in 1 .. Len(old)
        BY <1>4, <2>2
      <4> QED BY <1>5, <4>1, <4>2
    <3> QED BY <1>2, <1>4, <2>2, <3>1, <3>2
  <2> QED BY <2>1, <2>2
<1> QED BY <1>1, <1>6 DEF Follow

\* As many lines are missing as before.
IsMade(lines, tracked, old, new, origin) ==
  /\ IsCarried(lines, Len(lines), tracked, old, new, origin)
  /\ Len(new) - Len(lines) = Len(old) - Len(tracked)

LEMMA FileMade ==
  ASSUME NoHeaders, NEW old \in Text, NEW new \in Text, NEW context \in BOOLEAN,
         NEW tracked, Follow(tracked, old), NEW origin \in Origins,
         ApplyHunks(tracked, Hunks(old, new, context), origin).ok
  PROVE  IsMade(ApplyHunks(tracked, Hunks(old, new, context), origin).lines,
                tracked, old, new, origin)
<1> DEFINE res == ApplyHunks(tracked, Hunks(old, new, context), origin)
           count == Len(new) - (Len(old) - Len(tracked))
<1>1. tracked \in Seq(Line) /\ Len(tracked) <= Len(old)
  BY DEF Follow
<1>2. Len(tracked) \in Nat /\ Len(old) \in Nat /\ Len(new) \in Nat
  <2>1. Len(tracked) \in Nat
    <3> HIDE DEF Line
    <3> QED BY <1>1
  <2> QED BY <2>1 DEF Text
<1>3. IsCarried(res.lines, count, tracked, old, new, origin)
  BY <1>1, HunksCarried
<1>4. Len(res.lines) = count
  BY <1>3 DEF IsCarried
<1> HIDE DEF res
<1>5. Len(new) - Len(res.lines) = Len(old) - Len(tracked)
  BY <1>2, <1>4
<1> HIDE DEF count
<1> QED BY <1>3, <1>4, <1>5 DEF IsMade, res

LEMMA MadeFollow ==
  ASSUME NEW old \in Text, NEW new \in Text, NEW tracked, Follow(tracked, old),
         NEW origin \in Origins, NEW lines, IsMade(lines, tracked, old, new, origin)
  PROVE  /\ Follow(lines, new)
         /\ Len(tracked) = Len(old) => Len(lines) = Len(new)
<1>1. Len(tracked) \in Nat /\ Len(old) \in Nat /\ Len(new) \in Nat /\ Len(lines) \in Nat
  <2>1. Len(tracked) \in Nat /\ Len(lines) \in Nat
    <3> HIDE DEF Line
    <3> QED BY DEF Follow, IsMade, IsCarried
  <2> QED BY <2>1 DEF Text
<1>2. Len(new) - Len(lines) = Len(old) - Len(tracked) /\ Len(tracked) <= Len(old)
  BY DEF IsMade, Follow
<1>3. Len(lines) <= Len(new) /\ (Len(tracked) = Len(old) => Len(lines) = Len(new))
  BY <1>1, <1>2
<1>4. IsCarried(lines, Len(lines), tracked, old, new, origin)
  BY DEF IsMade
<1> QED BY <1>3, <1>4, CarriedFollow

-----------------------------------------------------------------------------
(* The files that a diff is made of.                                       *)

IsTree(t) == DOMAIN t \subseteq Paths /\ \A p \in DOMAIN t : t[p] \in Text

IsConfig(c) == c.renames \in BOOLEAN /\ c.context \in BOOLEAN

Touches(pq, r) == r = pq[1] \/ r = pq[2]

\* A change: a file that is gone, made, renamed or changed where it is.
IsChange(pq, before, after) ==
  /\ pq = <<pq[1], pq[2]>>
  /\ \/ pq[1] \in DOMAIN before \ DOMAIN after /\ pq[2] = NoPath
     \/ pq[1] = NoPath /\ pq[2] \in DOMAIN after \ DOMAIN before
     \/ pq[1] \in DOMAIN before \ DOMAIN after /\ pq[2] \in DOMAIN after \ DOMAIN before
     \/ pq[1] = pq[2] /\ pq[1] \in DOMAIN before /\ pq[2] \in DOMAIN after

\* The changes of a diff touch every path that changes, and none twice.
ChangesAre(changed, before, after) ==
  /\ IsFiniteSet(changed)
  /\ \A pq \in changed : IsChange(pq, before, after)
  /\ \A pq, xy \in changed, r \in Paths : Touches(pq, r) /\ Touches(xy, r) => pq = xy
  /\ \A r \in Paths : (\A pq \in changed : ~Touches(pq, r)) =>
       FileAt(before, r) = FileAt(after, r) /\ (r \in DOMAIN before <=> r \in DOMAIN after)

LEMMA FilesAreTexts ==
  ASSUME NEW t, IsTree(t), NEW r
  PROVE  FileAt(t, r) \in Text /\ FileAt(t, NoPath) = <<>>
<1>1. <<>> \in Text
  BY EmptySeq DEF Text
<1>2. NoPath \notin DOMAIN t
  BY PathsAreNames DEF IsTree
<1> QED BY <1>1, <1>2 DEF IsTree, FileAt

LEMMA ChangedFacts ==
  ASSUME NEW before, IsTree(before), NEW after, IsTree(after), NEW c, IsConfig(c)
  PROVE  /\ ChangesAre(ChangedPaths(before, after, c), before, after)
         /\ ~c.renames => \A pq \in ChangedPaths(before, after, c) :
                            pq[1] = pq[2] \/ pq[1] = NoPath \/ pq[2] = NoPath
<1> DEFINE A == DOMAIN before  B == DOMAIN after
           renamed == IF c.renames /\ Renamed(before, after) # {}
                      THEN {CHOOSE pq \in Renamed(before, after) : TRUE} ELSE {}
           gone == (A \ B) \ {pq[1] : pq \in renamed}
           made == (B \ A) \ {pq[2] : pq \in renamed}
           both == {p \in A \cap B : before[p] # after[p]}
           changed == renamed \cup {<<p, NoPath>> : p \in gone} \cup {<<NoPath, q>> : q \in made}
                        \cup {<<p, p>> : p \in both}
<1>1. ChangedPaths(before, after, c) = changed
  BY Zenon DEF ChangedPaths
<1>2. /\ A \subseteq Paths /\ B \subseteq Paths /\ NoPath \notin Paths
  BY PathsAreNames DEF IsTree
<1>3. /\ renamed \subseteq (A \ B) \X (B \ A)
      /\ \A pq, xy \in renamed : pq = xy
      /\ ~c.renames => renamed = {}
  <2>1. Renamed(before, after) \subseteq (A \ B) \X (B \ A)
    BY DEF Renamed
  <2>2. renamed = {} \/ renamed = {CHOOSE pq \in Renamed(before, after) : TRUE}
    OBVIOUS
  <2>3. renamed \subseteq Renamed(before, after)
    OBVIOUS
  <2>4. ~c.renames => renamed = {}
    OBVIOUS
  <2> HIDE DEF renamed
  <2> QED BY <2>1, <2>2, <2>3, <2>4
<1> DEFINE from == {pq[1] : pq \in renamed}
           to == {pq[2] : pq \in renamed}
<1>4. /\ \A pq \in renamed : pq[1] \in from /\ pq[2] \in to
      /\ \A p \in from : \E pq \in renamed : pq[1] = p
      /\ \A q \in to : \E pq \in renamed : pq[2] = q
  <2> HIDE DEF renamed
  <2> QED OBVIOUS
<1>5. gone = (A \ B) \ from /\ made = (B \ A) \ to
  BY Zenon
<1>6. both = {p \in A \cap B : before[p] # after[p]}
  OBVIOUS
<1> HIDE DEF renamed, gone, made, both, from, to, A, B
<1>7. \A pq \in changed : \/ pq \in renamed
                          \/ pq = <<pq[1], NoPath>> /\ pq[1] \in gone
                          \/ pq = <<NoPath, pq[2]>> /\ pq[2] \in made
                          \/ pq = <<pq[1], pq[1]>> /\ pq[1] \in both
  OBVIOUS
<1>8. \A pq \in renamed : pq = <<pq[1], pq[2]>> /\ pq[1] \in A \ B /\ pq[2] \in B \ A
  BY <1>3
<1>9. \A pq \in changed : IsChange(pq, before, after)
  <2> TAKE pq \in changed
  <2>1. CASE pq \in renamed
    BY <1>8, <2>1 DEF IsChange, A, B
  <2>2. CASE pq = <<pq[1], NoPath>> /\ pq[1] \in gone
    <3>1. pq[2] = NoPath
      BY <2>2
    <3> QED BY <1>5, <2>2, <3>1 DEF IsChange, A, B
  <2>3. CASE pq = <<NoPath, pq[2]>> /\ pq[2] \in made
    <3>1. pq[1] = NoPath
      BY <2>3
    <3> QED BY <1>5, <2>3, <3>1 DEF IsChange, A, B
  <2>4. CASE pq = <<pq[1], pq[1]>> /\ pq[1] \in both
    <3>1. pq[2] = pq[1]
      BY <2>4
    <3> QED BY <1>6, <2>4, <3>1 DEF IsChange, A, B
  <2> QED BY <1>7, <2>1, <2>2, <2>3, <2>4
\* Each path is touched in one way only.
<1> DEFINE way(pq, r) ==
             \/ pq \in renamed /\ r \in from /\ r \in A /\ r \notin B
             \/ pq \in renamed /\ r \in to /\ r \notin A /\ r \in B
             \/ pq = <<r, NoPath>> /\ r \notin from /\ r \in A /\ r \notin B
             \/ pq = <<NoPath, r>> /\ r \notin to /\ r \notin A /\ r \in B
             \/ pq = <<r, r>> /\ r \in A /\ r \in B
<1>10. ASSUME NEW pq \in changed, NEW r \in Paths, Touches(pq, r)
       PROVE  way(pq, r)
  <2>1. r = pq[1] \/ r = pq[2]
    BY <1>10 DEF Touches
  <2>2. CASE pq \in renamed
    BY <1>4, <1>8, <2>1, <2>2
  <2>3. CASE pq = <<pq[1], NoPath>> /\ pq[1] \in gone
    <3>1. r = pq[1]
      BY <1>2, <2>1, <2>3
    <3> QED BY <1>5, <2>3, <3>1
  <2>4. CASE pq = <<NoPath, pq[2]>> /\ pq[2] \in made
    <3>1. r = pq[2]
      BY <1>2, <2>1, <2>4
    <3> QED BY <1>5, <2>4, <3>1
  <2>5. CASE pq = <<pq[1], pq[1]>> /\ pq[1] \in both
    <3>1. r = pq[1]
      BY <2>1, <2>5
    <3> QED BY <1>6, <2>5, <3>1
  <2> QED BY <1>7, <2>2, <2>3, <2>4, <2>5
<1>11. ASSUME NEW pq \in changed, NEW xy \in changed, NEW r \in Paths, Touches(pq, r), Touches(xy, r)
       PROVE  pq = xy
  <2>1. way(pq, r) /\ way(xy, r)
    BY <1>10, <1>11
  <2> QED BY <1>3, <2>1
<1>12. ASSUME NEW r \in Paths, \A pq \in changed : ~Touches(pq, r)
       PROVE  FileAt(before, r) = FileAt(after, r) /\ (r \in A <=> r \in B)
  <2>1. r \notin from /\ r \notin to
    <3>1. \A pq \in renamed : pq \in changed
      OBVIOUS
    <3> QED BY <1>4, <1>12, <3>1 DEF Touches
  <2>2. r \notin gone
    <3>1. r \in gone => <<r, NoPath>> \in changed
      OBVIOUS
    <3> QED BY <1>12, <3>1 DEF Touches
  <2>3. r \notin made
    <3>1. r \in made => <<NoPath, r>> \in changed
      OBVIOUS
    <3> QED BY <1>12, <3>1 DEF Touches
  <2>4. r \notin both
    <3>1. r \in both => <<r, r>> \in changed
      OBVIOUS
    <3> QED BY <1>12, <3>1 DEF Touches
  <2>5. r \in A <=> r \in B
    BY <1>5, <2>1, <2>2, <2>3
  <2> QED BY <1>6, <2>4, <2>5 DEF FileAt, A, B
<1>13. IsFiniteSet(changed)
  <2> DEFINE all == (Paths \cup {NoPath}) \X (Paths \cup {NoPath})
  <2>1. IsFiniteSet(Paths \cup {NoPath})
    BY PathsAreNames, FS_AddElement
  <2>2. IsFiniteSet(all)
    BY <2>1, FS_Product
  <2>3. \A pq \in changed : pq \in all
    BY <1>2, <1>9 DEF IsChange, A, B
  <2> HIDE DEF changed, all
  <2>4. changed \in SUBSET all
    BY <2>3
  <2> QED BY <2>2, <2>4, FS_Subset
<1>14. ASSUME ~c.renames, NEW pq \in changed
       PROVE  pq[1] = pq[2] \/ pq[1] = NoPath \/ pq[2] = NoPath
  BY <1>3, <1>7, <1>14
<1> HIDE DEF changed
<1> QED BY <1>1, <1>9, <1>11, <1>12, <1>13, <1>14 DEF ChangesAre, A, B

\* What the parser makes of a change, where no line looks like a header.
IsParsed(f, pq, before, after, context) ==
  /\ f.hunks = Hunks(FileAt(before, pq[1]), FileAt(after, pq[2]), context)
  /\ f.old_path \in {pq[1], NoPath} /\ f.new_path \in {pq[2], NoPath}
  /\ f.old_path # NoPath \/ f.new_path # NoPath
  /\ f.old_path # pq[1] => pq[1] = pq[2]
  /\ f.new_path # pq[2] => pq[1] = pq[2]

LEMMA ParsedFacts ==
  ASSUME NoHeaders, NEW before, IsTree(before), NEW after, IsTree(after), NEW context,
         NEW pq, IsChange(pq, before, after)
  PROVE  IsParsed(ParsedFile(before, after, pq[1], pq[2], context), pq, before, after, context)
<1> DEFINE p == pq[1]  q == pq[2]
           old == FileAt(before, p)
           new == FileAt(after, q)
           hunks == Hunks(old, new, context)
           removed == DOMAIN old \ {m[1] : m \in Kept(old, new)}
           shown == IF \E i \in removed : old[i] \in Dashed THEN Elsewhere ELSE p
           modified == p = q /\ hunks # <<>>
           filled == modified /\ \A h \in ToSet(hunks) : h.old_start = 0 /\ h.old_count = 0
           emptied == modified /\ \A h \in ToSet(hunks) : h.new_start = 0 /\ h.new_count = 0
           f == ParsedFile(before, after, p, q, context)
<1>1. f = [old_path |-> IF p = NoPath \/ filled THEN NoPath ELSE shown,
           new_path |-> IF emptied /\ ~filled THEN NoPath ELSE q,
           hunks |-> hunks]
  BY Zenon DEF ParsedFile
<1>2. shown = p
  BY DEF NoHeaders
<1>3. (filled => p = q) /\ (emptied => p = q)
  OBVIOUS
<1>4. p # NoPath \/ q # NoPath
  BY PathsAreNames DEF IsTree, IsChange
<1> HIDE DEF f, p, q, shown, filled, emptied, hunks
<1>5. /\ f.old_path = IF p = NoPath \/ filled THEN NoPath ELSE p
      /\ f.new_path = IF emptied /\ ~filled THEN NoPath ELSE q
      /\ f.hunks = hunks
  BY <1>1, <1>2
<1>6. /\ f.old_path \in {p, NoPath} /\ f.new_path \in {q, NoPath}
      /\ f.old_path # NoPath \/ f.new_path # NoPath
      /\ f.old_path # p => p = q
      /\ f.new_path # q => p = q
  BY <1>3, <1>4, <1>5
<1> QED BY <1>5, <1>6 DEF IsParsed, f, hunks, old, new, p, q

\* The files of a patch, one after the other.
Patched(done, last, files, order, origin) ==
  done = [n \in 0 .. last |->
           IF n = 0 THEN [ok |-> TRUE, files |-> files]
           ELSE ApplyFile(done[n - 1], order[n], origin)]

LEMMA PatchedOnceMore ==
  ASSUME NEW last \in Nat, NEW files, NEW order, NEW origin,
         \E done : Patched(done, last, files, order, origin)
  PROVE  \E done : Patched(done, last + 1, files, order, origin)
<1>1. PICK g : Patched(g, last, files, order, origin)
  OBVIOUS
<1> DEFINE f == [n \in 0 .. last + 1 |->
                   IF n <= last THEN g[n] ELSE ApplyFile(g[last], order[last + 1], origin)]
<1>2. ASSUME NEW n \in 0 .. last + 1
      PROVE  f[n] = IF n = 0 THEN [ok |-> TRUE, files |-> files]
                    ELSE ApplyFile(f[n - 1], order[n], origin)
  <2>1. CASE n = 0
    BY <1>1, <2>1 DEF Patched
  <2>2. CASE n # 0 /\ n <= last
    <3>1. f[n] = g[n] /\ f[n - 1] = g[n - 1]
      BY <2>2
    <3>2. g[n] = ApplyFile(g[n - 1], order[n], origin)
      <4>1. n \in 0 .. last
        BY <2>2
      <4>2. \A i \in 0 .. last : g[i] = IF i = 0 THEN [ok |-> TRUE, files |-> files]
                                        ELSE ApplyFile(g[i - 1], order[i], origin)
        BY <1>1, Zenon DEF Patched
      <4> QED BY <2>2, <4>1, <4>2, Zenon
    <3> HIDE DEF f
    <3> QED BY <2>2, <3>1, <3>2, Zenon
  <2>3. CASE n = last + 1
    <3>1. f[n] = ApplyFile(g[last], order[last + 1], origin) /\ f[last] = g[last]
      BY <2>3
    <3>2. n - 1 = last /\ n # 0
      BY <2>3
    <3> HIDE DEF f
    <3> QED BY <2>3, <3>1, <3>2, Zenon
  <2> QED BY <2>1, <2>2, <2>3
<1>3. f = [n \in 0 .. last + 1 |-> f[n]]
  OBVIOUS
<1> HIDE DEF f
<1>4. Patched(f, last + 1, files, order, origin)
  BY <1>2, <1>3 DEF Patched
<1> QED BY <1>4

LEMMA PatchingEnds ==
  ASSUME NEW last \in Nat, NEW files, NEW order, NEW origin
  PROVE  \E done : Patched(done, last, files, order, origin)
<1> DEFINE T == {m \in Nat : ~ \E done : Patched(done, m, files, order, origin)}
<1>1. 0 \notin T
  <2> DEFINE f == [n \in 0 .. 0 |-> [ok |-> TRUE, files |-> files]]
  <2>1. Patched(f, 0, files, order, origin)
    BY DEF Patched
  <2> QED BY <2>1
<1>2. SUFFICES ASSUME T # {} PROVE FALSE
  BY DEF T
<1>3. PICK m \in T : \A k \in T : m <= k
  BY <1>2, LeastNatural
<1>4. m - 1 \in Nat /\ m - 1 \notin T
  BY <1>1, <1>3
<1>5. \E done : Patched(done, m - 1, files, order, origin)
  BY <1>4
<1>6. \E done : Patched(done, (m - 1) + 1, files, order, origin)
  BY <1>4, <1>5, PatchedOnceMore
<1>7. (m - 1) + 1 = m
  BY <1>4
<1> QED BY <1>3, <1>6, <1>7

\* The files of a patch are applied in some order, each once.
LEMMA PatchApplied ==
  ASSUME NEW patch, IsFiniteSet(patch), NEW files, NEW origin
  PROVE  \E order, done :
           /\ Len(order) \in Nat /\ order \in [1 .. Len(order) -> patch]
           /\ \A i, j \in 1 .. Len(order) : order[i] = order[j] => i = j
           /\ \A f \in patch : \E i \in 1 .. Len(order) : order[i] = f
           /\ Patched(done, Len(order), files, order, origin)
           /\ Apply(files, patch, origin) = done[Len(order)]
<1> DEFINE card == Cardinality(patch)
           order == SetToSeq(patch)
           d == CHOOSE done : Patched(done, Len(order), files, order, origin)
<1>1. card \in Nat
  BY FS_CardinalityType
<1>2. order \in [1 .. card -> patch] /\ IsInjective(order)
  <2>1. \E f \in Bijection(1 .. card, patch) : TRUE
    BY <1>1, FS_NatBijection, FS_CountingElements DEF ExistsBijection
  <2>2. PICK f \in Bijection(1 .. card, patch) : TRUE
    BY <2>1
  <2>3. f \in [1 .. card -> patch] /\ IsInjective(f)
    BY <2>2 DEF Bijection, Injection
  <2>4. order = CHOOSE g \in [1 .. card -> patch] : IsInjective(g)
    BY DEF SetToSeq
  <2> HIDE DEF order, card
  <2> QED BY <2>3, <2>4, Zenon
<1>3. Len(order) = card
  <2> HIDE DEF order, card
  <2> QED BY <1>1, <1>2
<1>4. \A i, j \in 1 .. card : order[i] = order[j] => i = j
  <2>1. DOMAIN order = 1 .. card
    <3> HIDE DEF order, card
    <3> QED BY <1>2
  <2> HIDE DEF order
  <2> QED BY <1>2, <2>1 DEF IsInjective
<1>5. \A f \in patch : \E i \in 1 .. card : order[i] = f
  <2>1. IsFiniteSet(1 .. card) /\ Cardinality(1 .. card) = card
    BY <1>1, FS_Interval
  <2>2. order \in Injection(1 .. card, patch)
    <3> HIDE DEF order
    <3> QED BY <1>2 DEF Injection
  <2>3. order \in Surjection(1 .. card, patch)
    <3> HIDE DEF order
    <3> QED BY <2>1, <2>2, FS_Injection
  <2> HIDE DEF order
  <2> QED BY <2>3 DEF Surjection
<1>6. \E done : Patched(done, Len(order), files, order, origin)
  <2> HIDE DEF order
  <2> QED BY <1>1, <1>3, PatchingEnds
<1>7. Patched(d, Len(order), files, order, origin)
  <2> HIDE DEF Patched, order
  <2> QED BY <1>6, Zenon
<1>8. d = CHOOSE done : done = [n \in 0 .. Len(order) |->
                                  IF n = 0 THEN [ok |-> TRUE, files |-> files]
                                  ELSE ApplyFile(done[n - 1], order[n], origin)]
  BY Zenon DEF Patched
<1> HIDE DEF d
<1>9. Apply(files, patch, origin) = d[Len(order)]
  BY <1>8, Zenon DEF Apply
<1> HIDE DEF order, card
<1> QED BY <1>1, <1>2, <1>3, <1>4, <1>5, <1>7, <1>9, Zenon

-----------------------------------------------------------------------------
(* The files of a patch: each follows the tree that its change leads to.   *)

Following(files, tree) ==
  DOMAIN files \subseteq Paths /\ \A r \in DOMAIN files : Follow(files[r], FileAt(tree, r))

\* The lines that a change takes for its old ones.
Tracked(files, p, q) == IF p \in DOMAIN files THEN files[p] ELSE FileAt(files, q)

IsTracked(files, pq) == pq[1] \in DOMAIN files \/ pq[2] \in DOMAIN files

LEMMA NothingFollows ==
  ASSUME NEW file \in Text
  PROVE  Follow(<<>>, file)
<1>1. <<>> \in Seq(Line) /\ Len(<<>>) = 0
  BY EmptySeq
<1>2. Len(file) \in Nat
  BY DEF Text
<1> HIDE DEF Line
<1> QED BY <1>1, <1>2 DEF Follow

LEMMA NoLinesLeft ==
  ASSUME NEW lines, Follow(lines, <<>>)
  PROVE  lines = <<>>
<1>1. lines \in Seq(Line) /\ Len(lines) <= 0
  BY DEF Follow
<1> HIDE DEF Line
<1> QED BY <1>1

LEMMA TrackedFollow ==
  ASSUME NEW before, IsTree(before), NEW after, IsTree(after),
         NEW files, Following(files, before), NEW pq, IsChange(pq, before, after)
  PROVE  Follow(Tracked(files, pq[1], pq[2]), FileAt(before, pq[1]))
<1> DEFINE p == pq[1]  q == pq[2]
<1>1. FileAt(before, p) \in Text
  BY FilesAreTexts
<1>2. CASE p \in DOMAIN files
  BY <1>2 DEF Tracked, Following
<1>3. CASE p \notin DOMAIN files /\ q \in DOMAIN files
  <2>1. q \in Paths /\ q # NoPath
    BY <1>3, PathsAreNames DEF Following
  <2>2. p # q
    BY <1>3
  <2>3. q \notin DOMAIN before
    BY <2>1, <2>2 DEF IsChange
  <2>4. Follow(files[q], <<>>)
    BY <1>3, <2>3 DEF Following, FileAt
  <2>5. files[q] = <<>>
    BY <2>4, NoLinesLeft
  <2>6. Tracked(files, p, q) = <<>>
    BY <1>3, <2>5 DEF Tracked, FileAt
  <2> QED BY <1>1, <2>6, NothingFollows
<1>4. CASE p \notin DOMAIN files /\ q \notin DOMAIN files
  <2>1. Tracked(files, p, q) = <<>>
    BY <1>4 DEF Tracked, FileAt
  <2> QED BY <1>1, <2>1, NothingFollows
<1> QED BY <1>2, <1>3, <1>4

\* What is read and written of the tracked files for a change.
IsApplied(files, pq, f) ==
  /\ OldLines(files, f) = Tracked(files, pq[1], pq[2])
  /\ {f.old_path, f.new_path} \cap DOMAIN files # {} <=> IsTracked(files, pq)
  /\ \A r \in Paths : Touches(pq, r) => r = f.old_path \/ r = f.new_path
  /\ f.new_path # NoPath => f.new_path = pq[2] /\ f.new_path \in Paths

LEMMA OldLinesAre ==
  ASSUME NEW before, IsTree(before), NEW after, IsTree(after), NEW context,
         NEW files, DOMAIN files \subseteq Paths,
         NEW pq, IsChange(pq, before, after), NEW f, IsParsed(f, pq, before, after, context)
  PROVE  IsApplied(files, pq, f)
<1> DEFINE p == pq[1]  q == pq[2]
<1>1. NoPath \notin Paths /\ NoPath \notin DOMAIN files
  BY PathsAreNames
<1>2. q = NoPath \/ q \in Paths
  BY DEF IsChange, IsTree
<1>3. /\ f.old_path \in {p, NoPath} /\ f.new_path \in {q, NoPath}
      /\ f.old_path # NoPath \/ f.new_path # NoPath
      /\ f.old_path # p => p = q
      /\ f.new_path # q => p = q
  BY DEF IsParsed
<1> HIDE DEF p, q
<1>4. OldLines(files, f) = Tracked(files, p, q)
  BY <1>1, <1>3 DEF OldLines, Tracked, FileAt
<1>5. {f.old_path, f.new_path} \cap DOMAIN files # {} <=> p \in DOMAIN files \/ q \in DOMAIN files
  BY <1>1, <1>3
<1>6. \A r \in Paths : r = p \/ r = q => r = f.old_path \/ r = f.new_path
  BY <1>1, <1>3
<1> QED BY <1>2, <1>3, <1>4, <1>5, <1>6 DEF p, q, IsTracked, Touches, IsApplied

\* What a patch makes of a path: untouched, or carried by its change.
PathMade(r, lines, files, before, after, changed, origin) ==
  \/ r \in DOMAIN files /\ lines = files[r] /\ \A pq \in changed : ~Touches(pq, r)
  \/ \E pq \in changed :
       /\ pq[2] = r /\ IsTracked(files, pq)
       /\ IsMade(lines, Tracked(files, pq[1], pq[2]), FileAt(before, pq[1]),
                 FileAt(after, pq[2]), origin)

\* After the files of some changes.
Patching(done, files, before, after, changed, origin) ==
  done.ok =>
    /\ DOMAIN done.files \subseteq Paths
    /\ \A r \in DOMAIN done.files :
         PathMade(r, done.files[r], files, before, after, changed, origin)
    /\ \A r \in DOMAIN files : (\A pq \in changed : ~Touches(pq, r)) => r \in DOMAIN done.files

LEMMA FilePatched ==
  ASSUME NoHeaders, NEW before, IsTree(before), NEW after, IsTree(after), NEW context \in BOOLEAN,
         NEW origin \in Origins, NEW files, Following(files, before),
         NEW all, ChangesAre(all, before, after),
         NEW changed \in SUBSET all, NEW pq \in all, pq \notin changed,
         NEW f, IsParsed(f, pq, before, after, context),
         NEW done, Patching(done, files, before, after, changed, origin)
  PROVE  Patching(ApplyFile(done, f, origin), files, before, after, changed \cup {pq}, origin)
<1> DEFINE then == ApplyFile(done, f, origin)
           G == done.files
           p == pq[1]
           q == pq[2]
           tracked == {f.old_path, f.new_path} \cap DOMAIN G # {}
           new == ApplyHunks(OldLines(G, f), f.hunks, origin)
           paths == (DOMAIN G \ {f.old_path}) \cup ({f.new_path} \ {NoPath})
           all2 == changed \cup {pq}
<1>1. then = IF ~done.ok \/ ~tracked THEN done
             ELSE [ok |-> new.ok,
                   files |-> [r \in paths |-> IF r = f.new_path THEN new.lines ELSE G[r]]]
  BY Zenon DEF ApplyFile
<1>2. SUFFICES ASSUME then.ok
               PROVE  /\ DOMAIN then.files \subseteq Paths
                      /\ \A r \in DOMAIN then.files :
                           PathMade(r, then.files[r], files, before, after, all2, origin)
                      /\ \A r \in DOMAIN files :
                           (\A xy \in all2 : ~Touches(xy, r)) => r \in DOMAIN then.files
  BY DEF Patching
<1> HIDE DEF then
<1>3. done.ok
  <2>1. CASE done.ok
    BY <2>1
  <2>2. CASE ~done.ok
    BY <1>1, <1>2, <2>2
  <2> QED BY <2>1, <2>2
<1>4. /\ DOMAIN G \subseteq Paths
      /\ \A r \in DOMAIN G : PathMade(r, G[r], files, before, after, changed, origin)
      /\ \A r \in DOMAIN files : (\A xy \in changed : ~Touches(xy, r)) => r \in DOMAIN G
  BY <1>3 DEF Patching
<1> HIDE DEF G
<1>5. IsChange(pq, before, after) /\ DOMAIN files \subseteq Paths
  BY DEF ChangesAre, Following
<1>6. /\ OldLines(G, f) = Tracked(G, p, q)
      /\ tracked <=> IsTracked(G, pq)
      /\ \A r \in Paths : Touches(pq, r) => r = f.old_path \/ r = f.new_path
      /\ f.new_path # NoPath => f.new_path = q /\ f.new_path \in Paths
  <2>1. IsApplied(G, pq, f)
    BY <1>4, <1>5, OldLinesAre
  <2> QED BY <2>1, Zenon DEF IsApplied
<1>7. \A r \in Paths : Touches(pq, r) => \A xy \in changed : ~Touches(xy, r)
  BY DEF ChangesAre
<1>8. \A r \in Paths : Touches(pq, r) => /\ r \in DOMAIN G <=> r \in DOMAIN files
                                         /\ r \in DOMAIN files => G[r] = files[r]
  <2> TAKE r \in Paths
  <2> HAVE Touches(pq, r)
  <2>1. \A xy \in changed : ~Touches(xy, r)
    BY <1>7
  <2>2. r \in DOMAIN files => r \in DOMAIN G
    BY <1>4, <2>1
  <2>3. r \in DOMAIN G => r \in DOMAIN files /\ G[r] = files[r]
    <3> HAVE r \in DOMAIN G
    <3>1. PathMade(r, G[r], files, before, after, changed, origin)
      BY <1>4
    <3>2. \A xy \in changed : xy[2] # r
      BY <2>1 DEF Touches
    <3> QED BY <3>1, <3>2 DEF PathMade
  <2> QED BY <2>2, <2>3
<1>9. NoPath \notin Paths /\ p \in Paths \cup {NoPath} /\ q \in Paths \cup {NoPath}
  BY <1>5, PathsAreNames DEF IsChange, IsTree
<1>10. Tracked(G, p, q) = Tracked(files, p, q) /\ (IsTracked(G, pq) <=> IsTracked(files, pq))
  <2>1. \A r \in {p, q} : /\ r \in DOMAIN G <=> r \in DOMAIN files
                          /\ r \in DOMAIN files => G[r] = files[r]
    BY <1>4, <1>5, <1>8, <1>9 DEF Touches
  <2> QED BY <2>1 DEF Tracked, FileAt, IsTracked
<1>11. \A r \in DOMAIN G : ~Touches(pq, r) =>
         PathMade(r, G[r], files, before, after, all2, origin)
  <2> TAKE r \in DOMAIN G
  <2> HAVE ~Touches(pq, r)
  <2>1. PathMade(r, G[r], files, before, after, changed, origin)
    BY <1>4
  <2> QED BY <2>1 DEF PathMade
<1>12. CASE ~tracked
  <2>1. then = done
    BY <1>1, <1>12
  <2>2. ~IsTracked(G, pq)
    BY <1>6, <1>12
  <2>3. \A r \in DOMAIN G : ~Touches(pq, r)
    BY <2>2 DEF IsTracked, Touches
  <2>4. \A r \in DOMAIN files : (\A xy \in all2 : ~Touches(xy, r)) => r \in DOMAIN G
    BY <1>4
  <2> QED BY <1>4, <1>11, <2>1, <2>3, <2>4 DEF G
<1>13. CASE tracked
  <2>1. then = [ok |-> new.ok,
                files |-> [r \in paths |-> IF r = f.new_path THEN new.lines ELSE G[r]]]
    BY <1>1, <1>3, <1>13, Zenon
  <2>2. new.ok /\ then.files = [r \in paths |-> IF r = f.new_path THEN new.lines ELSE G[r]]
    <3> DEFINE x == new.ok
               y == [r \in paths |-> IF r = f.new_path THEN new.lines ELSE G[r]]
    <3>1. then = [ok |-> x, files |-> y]
      BY <2>1, Zenon
    <3> HIDE DEF x, y
    <3>2. then.ok = x /\ then.files = y
      BY <3>1
    <3>3. x
      BY <1>2, <3>2, Zenon
    <3> QED BY <3>2, <3>3, Zenon DEF x, y
  <2> DEFINE old == FileAt(before, p)
             file == FileAt(after, q)
             lines == Tracked(files, p, q)
  <2>3. old \in Text /\ file \in Text
    BY FilesAreTexts
  <2>4. Follow(lines, old)
    BY <1>5, TrackedFollow
  <2>5. new = ApplyHunks(lines, Hunks(old, file, context), origin)
    BY <1>6, <1>10 DEF IsParsed
  <2> HIDE DEF lines, old, file, new
  <2>6. IsMade(new.lines, lines, old, file, origin)
    BY <2>2, <2>3, <2>4, <2>5, FileMade
  <2>7. IsTracked(files, pq)
    BY <1>6, <1>10, <1>13
  <2>8. DOMAIN then.files = paths /\ paths \subseteq Paths
    BY <1>4, <1>6, <2>2
  <2>9. ASSUME NEW r \in paths
        PROVE  PathMade(r, then.files[r], files, before, after, all2, origin)
    <3>1. CASE r = f.new_path
      <4>1. r = q /\ then.files[r] = new.lines
        BY <1>6, <1>9, <2>2, <2>8, <3>1
      <4>2. pq \in all2 /\ pq[2] = r
        BY <4>1
      <4>3. IsMade(then.files[r], Tracked(files, pq[1], pq[2]), FileAt(before, pq[1]),
                   FileAt(after, pq[2]), origin)
        BY <2>6, <4>1 DEF lines, old, file
      <4> HIDE DEF all2
      <4> QED BY <2>7, <4>2, <4>3 DEF PathMade
    <3>2. CASE r # f.new_path
      <4>1. r \in DOMAIN G /\ r # f.old_path /\ then.files[r] = G[r]
        BY <2>2, <3>2
      <4>2. ~Touches(pq, r)
        BY <1>4, <1>6, <3>2, <4>1
      <4> QED BY <1>11, <4>1, <4>2
    <3> QED BY <3>1, <3>2
  <2>10. ASSUME NEW r \in DOMAIN files, \A xy \in all2 : ~Touches(xy, r)
         PROVE  r \in paths
    <3>1. r \in DOMAIN G
      BY <1>4, <2>10
    <3>2. r # p /\ r # NoPath
      BY <1>5, <1>9, <2>10 DEF Touches
    <3>3. f.old_path \in {p, NoPath}
      BY DEF IsParsed
    <3> QED BY <3>1, <3>2, <3>3
  <2> HIDE DEF paths
  <2> QED BY <2>8, <2>9, <2>10
<1> QED BY <1>12, <1>13

\* No two changes look the same to the parser.
LEMMA ParsedApart ==
  ASSUME NEW before, IsTree(before), NEW after, IsTree(after), NEW context,
         NEW all, ChangesAre(all, before, after), NEW pq \in all, NEW xy \in all, NEW f,
         IsParsed(f, pq, before, after, context), IsParsed(f, xy, before, after, context)
  PROVE  pq = xy
<1>1. NoPath \notin Paths
  BY PathsAreNames
<1>2. IsChange(pq, before, after) /\ IsChange(xy, before, after)
  BY DEF ChangesAre
<1>3. /\ pq[1] \in Paths \cup {NoPath} /\ pq[2] \in Paths \cup {NoPath}
  BY <1>2 DEF IsChange, IsTree
<1>4. \E r \in Paths : Touches(pq, r) /\ Touches(xy, r)
  <2>1. CASE f.old_path # NoPath
    <3>1. f.old_path = pq[1] /\ f.old_path = xy[1]
      BY <2>1 DEF IsParsed
    <3> QED BY <1>3, <2>1, <3>1 DEF Touches
  <2>2. CASE f.new_path # NoPath
    <3>1. f.new_path = pq[2] /\ f.new_path = xy[2]
      BY <2>2 DEF IsParsed
    <3> QED BY <1>3, <2>2, <3>1 DEF Touches
  <2> QED BY <2>1, <2>2 DEF IsParsed
<1> QED BY <1>4 DEF ChangesAre

IsPatched(res, files, before, after, all, origin) ==
  /\ DOMAIN res \subseteq Paths
  /\ \A r \in DOMAIN res : PathMade(r, res[r], files, before, after, all, origin)

\* A patch that fits carries every file by its own change.
LEMMA ApplyMade ==
  ASSUME NoHeaders, NEW before, IsTree(before), NEW after, IsTree(after), NEW c, IsConfig(c),
         NEW origin \in Origins, NEW files, Following(files, before),
         NEW res, res = Apply(files, Diff(before, after, c), origin), res.ok
  PROVE  IsPatched(res.files, files, before, after, ChangedPaths(before, after, c), origin)
<1> DEFINE all == ChangedPaths(before, after, c)
           Parsed(pq) == ParsedFile(before, after, pq[1], pq[2], c.context)
           patch == Diff(before, after, c)
<1>1. ChangesAre(all, before, after) /\ c.context \in BOOLEAN
  BY ChangedFacts DEF IsConfig
<1>2. patch = {Parsed(pq) : pq \in all}
  BY DEF Diff
<1>3. \A pq \in all : IsParsed(Parsed(pq), pq, before, after, c.context)
  BY <1>1, ParsedFacts DEF ChangesAre
<1> HIDE DEF all, Parsed, patch
<1>4. IsFiniteSet(patch)
  <2>1. IsFiniteSet(all)
    BY <1>1 DEF ChangesAre
  <2> DEFINE parsed == [pq \in all |-> Parsed(pq)]
  <2>2. parsed \in [all -> patch] /\ \A f \in patch : \E pq \in all : parsed[pq] = f
    BY <1>2
  <2> HIDE DEF parsed
  <2>3. parsed \in Surjection(all, patch)
    BY <2>2 DEF Surjection
  <2> QED BY <2>1, <2>3, FS_Surjection
<1>5. PICK order, done :
        /\ Len(order) \in Nat /\ order \in [1 .. Len(order) -> patch]
        /\ \A i, j \in 1 .. Len(order) : order[i] = order[j] => i = j
        /\ \A f \in patch : \E i \in 1 .. Len(order) : order[i] = f
        /\ Patched(done, Len(order), files, order, origin)
        /\ Apply(files, patch, origin) = done[Len(order)]
  BY <1>4, PatchApplied
<1> DEFINE last == Len(order)
           upTo(n) == {pq \in all : \E m \in 1 .. n : order[m] = Parsed(pq)}
           P(n) == Patching(done[n], files, before, after, upTo(n), origin)
<1>6. \A n \in 0 .. last :
        done[n] = IF n = 0 THEN [ok |-> TRUE, files |-> files]
                  ELSE ApplyFile(done[n - 1], order[n], origin)
  BY <1>5, Zenon DEF Patched
<1>7. P(0)
  <2>6. 0 \in 0 .. last
    BY <1>5
  <2>1. done[0] = [ok |-> TRUE, files |-> files]
    BY <1>6, <2>6, Zenon
  <2>2. upTo(0) = {}
    OBVIOUS
  <2>3. done[0].files = files
    BY <2>1
  <2> HIDE DEF upTo
  <2>4. DOMAIN files \subseteq Paths
    BY DEF Following
  <2>5. \A r \in DOMAIN files : PathMade(r, files[r], files, before, after, {}, origin)
    BY DEF PathMade
  <2> QED BY <2>2, <2>3, <2>4, <2>5 DEF Patching
<1>8. ASSUME NEW n \in 1 .. last, P(n - 1)
      PROVE  P(n)
  <2>1. n \in 0 .. last /\ n # 0
    BY <1>5
  <2>2. done[n] = ApplyFile(done[n - 1], order[n], origin)
    BY <1>6, <2>1
  <2>3. order[n] \in patch
    BY <1>5
  <2>4. PICK pq \in all : order[n] = Parsed(pq)
    BY <1>2, <2>3
  <2>5. IsParsed(order[n], pq, before, after, c.context)
    BY <1>3, <2>4
  <2>6. \A xy \in all : order[n] = Parsed(xy) => xy = pq
    BY <1>1, <1>3, <2>5, ParsedApart
  <2>7. pq \notin upTo(n - 1)
    <3> SUFFICES ASSUME NEW m \in 1 .. n - 1, order[m] = Parsed(pq) PROVE FALSE
      OBVIOUS
    <3>1. m \in 1 .. last /\ m # n
      BY <1>5
    <3> QED BY <1>5, <2>4, <3>1
  <2>8. upTo(n) = upTo(n - 1) \cup {pq}
    <3>1. \A m \in 1 .. n : m = n \/ m \in 1 .. n - 1
      BY <1>5
    <3>2. \A m \in 1 .. n - 1 : m \in 1 .. n
      BY <1>5
    <3>3. n \in 1 .. n
      BY <1>5
    <3> QED BY <2>4, <2>6, <3>1, <3>2, <3>3
  <2>9. upTo(n - 1) \in SUBSET all
    OBVIOUS
  <2> HIDE DEF upTo
  <2>10. Patching(ApplyFile(done[n - 1], order[n], origin), files, before, after,
                  upTo(n - 1) \cup {pq}, origin)
    BY <1>1, <1>8, <2>5, <2>7, <2>9, FilePatched
  <2> QED BY <2>2, <2>8, <2>10
<1>9. upTo(last) = all
  BY <1>2, <1>5
<1> HIDE DEF upTo
<1>10. P(last)
  <2> HIDE DEF P
  <2>1. SUFFICES ASSUME ~P(last) PROVE FALSE
    OBVIOUS
  <2> DEFINE T == {n \in 0 .. last : ~P(n)}
  <2>2. T \subseteq Nat /\ T # {}
    BY <1>5, <2>1
  <2>3. PICK n \in T : \A m \in T : n <= m
    BY <2>2, LeastNatural
  <2>4. n \in 1 .. last /\ n - 1 \in 0 .. last /\ n - 1 \notin T
    BY <1>5, <1>7, <2>3
  <2> QED BY <1>8, <2>3, <2>4
<1>11. res = done[last]
  BY <1>5 DEF patch
<1>12. Patching(res, files, before, after, all, origin)
  BY <1>9, <1>10, <1>11
<1> QED BY <1>12 DEF Patching, IsPatched, all

\* Every tracked file as long as the file it follows.
Whole(files, tree) == \A r \in DOMAIN files : Len(files[r]) = Len(FileAt(tree, r))

LEMMA TrackedWhole ==
  ASSUME NEW before, IsTree(before), NEW after, IsTree(after),
         NEW files, Following(files, before), Whole(files, before),
         NEW pq, IsChange(pq, before, after), IsTracked(files, pq),
         pq[1] = pq[2] \/ pq[1] = NoPath \/ pq[2] = NoPath
  PROVE  Len(Tracked(files, pq[1], pq[2])) = Len(FileAt(before, pq[1]))
<1>1. NoPath \notin Paths /\ NoPath \notin DOMAIN files
  BY PathsAreNames DEF Following
<1>2. CASE pq[1] \in DOMAIN files
  BY <1>2 DEF Tracked, Whole
<1>3. CASE pq[1] \notin DOMAIN files
  <2>1. pq[1] = NoPath /\ pq[2] \in DOMAIN files /\ pq[2] # NoPath
    BY <1>1, <1>3 DEF IsTracked
  <2>2. pq[2] \notin DOMAIN before /\ NoPath \notin DOMAIN before
    BY <1>1, <2>1 DEF IsChange, IsTree
  <2>3. FileAt(before, pq[1]) = <<>> /\ FileAt(before, pq[2]) = <<>>
    BY <2>1, <2>2 DEF FileAt
  <2>4. Tracked(files, pq[1], pq[2]) = files[pq[2]]
    BY <1>3, <2>1 DEF Tracked, FileAt
  <2>5. Len(files[pq[2]]) = Len(FileAt(before, pq[2]))
    BY <2>1 DEF Whole
  <2> QED BY <2>3, <2>4, <2>5
<1> QED BY <1>2, <1>3

LEMMA ApplyFollows ==
  ASSUME NEW before, IsTree(before), NEW after, IsTree(after), NEW c, IsConfig(c),
         NEW origin \in Origins, NEW files, Following(files, before), NEW res,
         IsPatched(res, files, before, after, ChangedPaths(before, after, c), origin)
  PROVE  /\ Following(res, after)
         /\ Whole(files, before) /\ ~c.renames => Whole(res, after)
<1> DEFINE all == ChangedPaths(before, after, c)
<1>1. /\ ChangesAre(all, before, after)
      /\ ~c.renames => \A pq \in all : pq[1] = pq[2] \/ pq[1] = NoPath \/ pq[2] = NoPath
  BY ChangedFacts
<1> HIDE DEF all
<1>2. ASSUME NEW r \in DOMAIN res
      PROVE  /\ Follow(res[r], FileAt(after, r))
             /\ Whole(files, before) /\ ~c.renames => Len(res[r]) = Len(FileAt(after, r))
  <2>1. PathMade(r, res[r], files, before, after, all, origin) /\ r \in Paths
    BY DEF IsPatched, all
  <2>2. CASE r \in DOMAIN files /\ res[r] = files[r] /\ \A pq \in all : ~Touches(pq, r)
    <3>1. FileAt(before, r) = FileAt(after, r)
      BY <1>1, <2>1, <2>2 DEF ChangesAre
    <3> QED BY <2>2, <3>1 DEF Following, Whole
  <2>3. ASSUME NEW pq \in all, pq[2] = r, IsTracked(files, pq),
               IsMade(res[r], Tracked(files, pq[1], pq[2]), FileAt(before, pq[1]),
                      FileAt(after, pq[2]), origin)
        PROVE  /\ Follow(res[r], FileAt(after, r))
               /\ Whole(files, before) /\ ~c.renames => Len(res[r]) = Len(FileAt(after, r))
    <3>1. IsChange(pq, before, after)
      BY <1>1 DEF ChangesAre
    <3>2. Follow(Tracked(files, pq[1], pq[2]), FileAt(before, pq[1]))
      BY <3>1, TrackedFollow
    <3>3. FileAt(before, pq[1]) \in Text /\ FileAt(after, pq[2]) \in Text
      BY FilesAreTexts
    <3>4. /\ Follow(res[r], FileAt(after, pq[2]))
          /\ Len(Tracked(files, pq[1], pq[2])) = Len(FileAt(before, pq[1]))
               => Len(res[r]) = Len(FileAt(after, pq[2]))
      BY <2>3, <3>2, <3>3, MadeFollow
    <3>5. Whole(files, before) /\ ~c.renames =>
            Len(Tracked(files, pq[1], pq[2])) = Len(FileAt(before, pq[1]))
      BY <1>1, <2>3, <3>1, TrackedWhole
    <3> QED BY <2>3, <3>4, <3>5
  <2> QED BY <2>1, <2>2, <2>3 DEF PathMade
<1> QED BY <1>2 DEF Following, Whole, IsPatched

-----------------------------------------------------------------------------
(* The lineage of the hook follows the tree that the hook has reached.     *)

LEMMA UnknownFollow ==
  ASSUME NEW file \in Text
  PROVE  Follow(UnknownLines(file), file) /\ Len(UnknownLines(file)) = Len(file)
<1> DEFINE lines == UnknownLines(file)
<1>1. Len(file) \in Nat /\ DOMAIN file = 1 .. Len(file) /\ \A n \in 1 .. Len(file) : file[n] \in Texts
  BY DEF Text
<1>2. lines = [n \in 1 .. Len(file) |-> [content |-> file[n], provenance |-> "unknown"]]
  BY <1>1 DEF UnknownLines
<1>3. \A n \in 1 .. Len(file) : [content |-> file[n], provenance |-> "unknown"] \in Line
  BY <1>1 DEF Line, Provenances
<1>4. lines \in Seq(Line) /\ Len(lines) = Len(file)
  <2> HIDE DEF Line, lines
  <2> QED BY <1>1, <1>2, <1>3
<1>5. \A n \in 1 .. Len(file) : lines[n].content = file[n]
  <2> HIDE DEF lines
  <2> QED BY <1>2
<1> HIDE DEF lines
<1> QED BY <1>1, <1>4, <1>5 DEF Follow, lines

LEMMA TreesAreTyped ==
  ASSUME NEW t \in Trees
  PROVE  IsTree(t)
BY TreesAreTrees DEF IsTree, Text

LEMMA BaselineFollows ==
  ASSUME hook.paths \subseteq Paths, NEW tree \in Trees, NEW unread
  PROVE  /\ Following(Baseline(tree, unread), tree)
         /\ tree \notin missing /\ unread = {} => Whole(Baseline(tree, unread), tree)
<1> DEFINE file(p) == IF tree \in missing \/ p \in unread THEN <<>> ELSE FileAt(tree, p)
           files == Baseline(tree, unread)
<1>1. files = [p \in hook.paths |-> UnknownLines(file(p))]
  BY DEF Baseline, FromBaseline
<1>2. <<>> \in Text
  BY EmptySeq DEF Text
<1>3. ASSUME NEW p \in hook.paths
      PROVE  /\ Follow(UnknownLines(file(p)), FileAt(tree, p))
             /\ tree \notin missing /\ unread = {} =>
                  Len(UnknownLines(file(p))) = Len(FileAt(tree, p))
  <2>1. FileAt(tree, p) \in Text
    BY TreesAreTyped, FilesAreTexts
  <2>2. CASE file(p) = FileAt(tree, p)
    <3> HIDE DEF file
    <3> QED BY <2>1, <2>2, UnknownFollow
  <2>3. CASE file(p) = <<>> /\ (tree \in missing \/ unread # {})
    <3> HIDE DEF file
    <3>1. Follow(UnknownLines(<<>>), <<>>)
      BY <1>2, UnknownFollow
    <3>2. UnknownLines(<<>>) = <<>>
      BY <3>1, NoLinesLeft
    <3> QED BY <2>1, <2>3, <3>2, NothingFollows
  <2> QED BY <2>2, <2>3
<1> HIDE DEF file, files
<1>4. DOMAIN files = hook.paths /\ \A p \in hook.paths : files[p] = UnknownLines(file(p))
  BY <1>1
<1> QED BY <1>3, <1>4 DEF Following, Whole, files

LEMMA ReplayFollows ==
  ASSUME NoHeaders, config \in Configs, hook.paths \subseteq Paths,
         NEW before \in Trees, NEW after \in Trees, NEW origin \in Origins,
         NEW lineage, Following(lineage, before), NEW unread, NEW broken \in BOOLEAN
  PROVE  /\ Following(ApplyOrReset(lineage, before, after, origin, unread, broken), after)
         /\ Whole(lineage, before) /\ ~config.renames /\ missing = {} /\ unread = {} =>
              Whole(ApplyOrReset(lineage, before, after, origin, unread, broken), after)
<1> DEFINE applied == Apply(lineage, DiffTrees[config][<<before, after>>], origin)
           then == ApplyOrReset(lineage, before, after, origin, unread, broken)
<1>1. DiffTrees[config][<<before, after>>] = Diff(before, after, config)
  BY DEF DiffTrees
<1>2. IsConfig(config)
  BY ConfigsAreFlags DEF IsConfig
<1>3. IsTree(before) /\ IsTree(after)
  BY TreesAreTyped
<1>4. \/ then = Baseline(after, unread)
      \/ then = applied.files /\ applied.ok
  BY DEF ApplyOrReset
<1>5. applied = Apply(lineage, Diff(before, after, config), origin)
  BY <1>1
<1> HIDE DEF applied, then
<1>6. CASE then = Baseline(after, unread)
  BY <1>6, BaselineFollows DEF then
<1>7. CASE then = applied.files /\ applied.ok
  <2>1. IsPatched(then, lineage, before, after, ChangedPaths(before, after, config), origin)
    BY <1>2, <1>3, <1>5, <1>7, ApplyMade
  <2> QED BY <1>2, <1>3, <2>1, ApplyFollows DEF then
<1> QED BY <1>4, <1>6, <1>7

\* What the hook remembers is of this history, and its lineage follows its tree; without
\* a fault and without renames it lacks nothing of the files that it tracks.
LineageInv ==
  /\ config \in Configs /\ faults \in Nat /\ (faults = 0 => missing = {})
  /\ hook.paths \subseteq Paths /\ hook.commit \in Trees /\ hook.tree \in Trees
  /\ hook.left \in Seq(Nat) /\ \A i \in 1 .. Len(hook.left) : hook.left[i] \in 1 .. Len(moves)
  /\ hook.pc = "baseline" => hook.left # <<>>
  /\ Following(hook.lineage, hook.tree)
  /\ faults = 0 /\ ~config.renames => Whole(hook.lineage, hook.tree)

LEMMA InitLineage == Init => LineageInv
<1> SUFFICES ASSUME Init PROVE LineageInv
  OBVIOUS
<1>1. /\ hook.paths = {} /\ hook.commit = cursor /\ hook.tree = cursor /\ hook.left = <<>>
      /\ hook.pc = "idle" /\ DOMAIN hook.lineage = {}
  BY DEF Init, Idle
<1>2. <<>> \in Seq(Nat) /\ Len(<<>>) = 0
  OBVIOUS
<1>3. cursor \in Trees /\ config \in Configs /\ faults = 0 /\ missing = {}
  BY DEF Init
<1> QED BY <1>1, <1>2, <1>3 DEF LineageInv, Following, Whole

\* A step that leaves the lineage alone.
LeavesLineage ==
  /\ config' = config /\ Len(moves) <= Len(moves') /\ Len(moves') \in Nat
  /\ faults' \in Nat /\ (faults' = 0 => faults = 0 /\ missing' \subseteq missing)
  /\ hook'.paths \subseteq Paths /\ hook'.commit \in Trees
  /\ hook'.tree = hook.tree /\ hook'.lineage = hook.lineage
  /\ hook'.left = hook.left
  /\ hook'.pc = "baseline" => hook.pc = "baseline"

LEMMA LineageKept == LineageInv /\ WindowInv /\ LeavesLineage => LineageInv'
<1> SUFFICES ASSUME LineageInv, WindowInv, LeavesLineage PROVE LineageInv'
  OBVIOUS
<1>1. Len(moves) \in Nat
  BY DEF WindowInv
<1>2. \A i \in 1 .. Len(hook.left) : hook.left[i] \in 1 .. Len(moves')
  BY <1>1 DEF LineageInv, LeavesLineage
<1> QED BY <1>2 DEF LineageInv, LeavesLineage, Following, Whole

\* The window is closed: what was loaded is to be replayed.
LEMMA LineageClosed ==
  ASSUME LineageInv, WindowInv', NEW rows, hook' = Close(rows), IsHook(hook),
         config' = config, faults' \in Nat, faults' = 0 => faults = 0,
         UNCHANGED <<missing, moves>>
  PROVE  LineageInv'
<1>1. /\ hook'.rows = rows /\ hook'.left = Reverse(rows)
      /\ hook'.pc = (IF rows = <<>> THEN "done" ELSE "baseline")
      /\ hook'.paths = hook.paths /\ hook'.commit = hook.commit
      /\ hook'.tree = hook.tree /\ hook'.lineage = hook.lineage
  BY DEF Close, IsHook, HookFields
<1>2. /\ rows \in Seq(Nat) /\ \A i \in 1 .. Len(rows) : rows[i] \in 1 .. Len(moves')
  <2>1. /\ rows \in Seq(Nat) /\ \A i \in 1 .. Len(rows) : rows[i] <= hook'.cut /\ rows[i] >= 1
        /\ hook'.cut \in Nat /\ hook'.cut <= Len(moves') /\ Len(moves') \in Nat
    BY <1>1 DEF WindowInv, IsWindow
  <2>2. \A i \in 1 .. Len(rows) : rows[i] \in Nat
    BY <2>1
  <2> QED BY <2>1, <2>2
<1> DEFINE left == Reverse(rows)
<1>3. /\ left \in Seq(Nat) /\ Len(left) = Len(rows)
      /\ \A i \in 1 .. Len(rows) : left[i] \in 1 .. Len(moves')
  <2>1. Len(rows) \in Nat
    BY <1>2
  <2>2. left = [i \in 1 .. Len(rows) |-> rows[(Len(rows) - i) + 1]]
    BY DEF Reverse
  <2>3. \A i \in 1 .. Len(rows) : (Len(rows) - i) + 1 \in 1 .. Len(rows)
    BY <2>1
  <2> HIDE DEF left
  <2>4. \A i \in 1 .. Len(rows) : left[i] \in 1 .. Len(moves') /\ left[i] \in Nat
    BY <1>2, <2>2, <2>3
  <2> QED BY <2>1, <2>2, <2>4
<1> HIDE DEF left
<1>4. rows # <<>> => left # <<>>
  BY <1>2, <1>3
<1>5. /\ hook'.left \in Seq(Nat) /\ \A i \in 1 .. Len(hook'.left) : hook'.left[i] \in 1 .. Len(moves')
      /\ hook'.pc = "baseline" => hook'.left # <<>>
  BY <1>1, <1>3, <1>4 DEF left
<1> QED BY <1>1, <1>5 DEF LineageInv, Following, Whole

LEMMA LineageStep ==
  ASSUME NoHeaders, LineageInv, WindowInv, WindowInv', [Next]_vars
  PROVE  LineageInv'
<1> USE DEF Phases
<1>1. IsHook(hook) /\ Len(moves) \in Nat /\ moves \in Seq(Row) /\ faults \in Nat
  BY DEF WindowInv, LineageInv
<1>2. CASE Boundary
  <2>1. PICK t, origin :
          moves' = Append(moves, [before |-> cursor, after |-> t, origin |-> origin])
          /\ missing' = missing \ {t}
    BY <1>2 DEF Boundary
  <2>2. Len(moves') = Len(moves) + 1
    BY <1>1, <2>1
  <2>3. LeavesLineage
    BY <1>1, <1>2, <2>1, <2>2 DEF Boundary, LeavesLineage, LineageInv
  <2> QED BY <2>3, LineageKept
<1>3. CASE LoseTree
  <2>1. faults' # 0 /\ faults' \in Nat
    BY <1>1, <1>3 DEF LoseTree
  <2>2. LeavesLineage
    BY <1>1, <1>3, <2>1 DEF LoseTree, LeavesLineage, LineageInv
  <2> QED BY <2>2, LineageKept
<1>4. CASE Prune
  <2>1. LeavesLineage
    BY <1>1, <1>4 DEF Prune, LeavesLineage, LineageInv
  <2> QED BY <2>1, LineageKept
<1>5. CASE Commit
  <2>1. PICK t \in Trees, paths \in Targets :
          hook' = [hook EXCEPT !.pc = "cut", !.commit = t, !.paths = paths]
    BY <1>5 DEF Commit
  <2>2. paths \subseteq Paths
    BY TargetsArePaths
  <2>3. /\ hook'.paths = paths /\ hook'.commit = t /\ hook'.left = hook.left
        /\ hook'.tree = hook.tree /\ hook'.lineage = hook.lineage /\ hook'.pc = "cut"
    BY <1>1, <2>1 DEF IsHook, HookFields
  <2>4. UNCHANGED <<config, cursor, moves, stored, missing, faults>>
    BY <1>5 DEF Commit
  <2>5. LeavesLineage
    BY <1>1, <2>2, <2>3, <2>4 DEF LeavesLineage, LineageInv
  <2> QED BY <2>5, LineageKept
<1>6. CASE CaptureRevisionCut
  <2>1. /\ hook'.paths = hook.paths /\ hook'.commit = hook.commit /\ hook'.left = hook.left
        /\ hook'.tree = hook.tree /\ hook'.lineage = hook.lineage /\ hook'.pc \in {"done", "page"}
    BY <1>1, <1>6 DEF CaptureRevisionCut, IsHook, HookFields
  <2>2. LeavesLineage
    BY <1>1, <1>6, <2>1 DEF CaptureRevisionCut, Unchanged, LeavesLineage, LineageInv
  <2> QED BY <2>2, LineageKept
<1>7. CASE CutFails
  <2>1. /\ hook'.paths = hook.paths /\ hook'.commit = hook.commit /\ hook'.left = hook.left
        /\ hook'.tree = hook.tree /\ hook'.lineage = hook.lineage /\ hook'.pc = "done"
    BY <1>1, <1>7 DEF CutFails, IsHook, HookFields
  <2>2. faults' # 0 /\ faults' \in Nat
    BY <1>1, <1>7 DEF CutFails, Fails
  <2>3. LeavesLineage
    BY <1>1, <1>7, <2>1, <2>2 DEF CutFails, Unchanged, LeavesLineage, LineageInv
  <2> QED BY <2>3, LineageKept
<1>8. CASE LoadPage
  <2> DEFINE page == Page(hook.below, Min({PageSize, MaxEvents - Len(hook.rows)}))
             rows == hook.rows \o page
  <2>1. \/ hook' = Close(rows)
        \/ hook' = [hook EXCEPT !.rows = rows, !.below = NextBelow(page)]
    BY <1>8 DEF LoadPage
  <2>2. hook.pc = "page" /\ faults' = faults /\ UNCHANGED <<config, cursor, moves, stored, missing>>
    BY <1>8 DEF LoadPage, Unchanged
  <2> HIDE DEF rows, page
  <2>3. CASE hook' = Close(rows)
    BY <1>1, <2>2, <2>3, LineageClosed
  <2>4. CASE hook' = [hook EXCEPT !.rows = rows, !.below = NextBelow(page)]
    <3>1. LeavesLineage
      BY <1>1, <2>2, <2>4 DEF LeavesLineage, LineageInv, IsHook, HookFields
    <3> QED BY <3>1, LineageKept
  <2> QED BY <2>1, <2>3, <2>4
<1>9. CASE LoadPageFails
  <2>1. /\ hook' = Close(hook.rows) /\ faults' \in Nat /\ (faults' = 0 => faults = 0)
        /\ UNCHANGED <<config, cursor, moves, stored, missing>>
    BY <1>1, <1>9 DEF LoadPageFails, Fails, Unchanged
  <2> QED BY <1>1, <2>1, LineageClosed
<1>10. CASE LoadBaseline
  <2> DEFINE tree == moves[Head(hook.left)].before
  <2>1. PICK unread \in SUBSET hook.paths :
          /\ Reads(unread, FALSE)
          /\ hook' = [hook EXCEPT !.pc = "replay", !.tree = tree, !.lineage = Baseline(tree, unread)]
    BY <1>10 DEF LoadBaseline
  <2>2. hook.pc = "baseline" /\ UNCHANGED <<config, cursor, moves, stored, missing>>
    BY <1>10 DEF LoadBaseline, Unchanged
  <2>3. tree \in Trees
    <3>1. hook.left # <<>> /\ hook.left \in Seq(Nat)
      BY <2>2 DEF LineageInv
    <3>2. 1 \in 1 .. Len(hook.left) /\ Head(hook.left) = hook.left[1]
      BY <3>1
    <3>3. moves[Head(hook.left)] \in Row
      BY <1>1, <3>2 DEF LineageInv
    <3> QED BY <3>3 DEF Row
  <2>4. faults' \in Nat /\ (faults' = 0 => faults = 0 /\ unread = {})
    BY <1>1, <2>1 DEF Reads, Fails
  <2> HIDE DEF tree
  <2>5. /\ Following(Baseline(tree, unread), tree)
        /\ tree \notin missing /\ unread = {} => Whole(Baseline(tree, unread), tree)
    BY <2>3, BaselineFollows DEF LineageInv
  <2>6. /\ hook'.paths = hook.paths /\ hook'.commit = hook.commit /\ hook'.left = hook.left
        /\ hook'.tree = tree /\ hook'.lineage = Baseline(tree, unread) /\ hook'.pc = "replay"
    BY <1>1, <2>1 DEF IsHook, HookFields
  <2>7. /\ Following(hook'.lineage, hook'.tree)
        /\ faults' = 0 => Whole(hook'.lineage, hook'.tree)
    BY <2>4, <2>5, <2>6 DEF LineageInv
  <2> QED BY <2>2, <2>3, <2>4, <2>6, <2>7 DEF LineageInv
<1>11. CASE ReplayEvent
  <2> DEFINE row == moves[Head(hook.left)]
  <2>1. PICK unread \in SUBSET hook.paths, broken \in BOOLEAN :
          /\ Reads(unread, broken)
          /\ hook' = [hook EXCEPT !.left = Tail(@), !.tree = row.after,
                        !.lineage = ApplyOrReset(AcrossGap(row, unread), row.before, row.after,
                                                 TransitionOrigin(row), unread, broken)]
    BY <1>11 DEF ReplayEvent
  <2>2. /\ hook.pc = "replay" /\ hook.left # <<>>
        /\ UNCHANGED <<config, cursor, moves, stored, missing>>
    BY <1>11 DEF ReplayEvent, Unchanged
  <2>3. /\ hook.left \in Seq(Nat) /\ \A i \in 1 .. Len(hook.left) : hook.left[i] \in 1 .. Len(moves)
    BY DEF LineageInv
  <2>4. /\ Tail(hook.left) \in Seq(Nat)
        /\ \A i \in 1 .. Len(Tail(hook.left)) : Tail(hook.left)[i] \in 1 .. Len(moves)
    <3>1. /\ Tail(hook.left) \in Seq(Nat) /\ Len(Tail(hook.left)) = Len(hook.left) - 1
          /\ \A i \in 1 .. Len(Tail(hook.left)) : Tail(hook.left)[i] = hook.left[i + 1]
      BY <2>2, <2>3, HeadTailProperties
    <3>2. \A i \in 1 .. Len(Tail(hook.left)) : i + 1 \in 1 .. Len(hook.left)
      BY <2>3, <3>1
    <3> QED BY <2>3, <3>1, <3>2
  <2>5. row \in Row
    <3>1. 1 \in 1 .. Len(hook.left) /\ Head(hook.left) = hook.left[1]
      BY <2>2, <2>3
    <3> QED BY <1>1, <2>3, <3>1
  <2>6. row.before \in Trees /\ row.after \in Trees /\ TransitionOrigin(row) \in Origins
    BY <2>5 DEF Row, TransitionOrigin, Origins
  <2>7. faults' \in Nat /\ (faults' = 0 => faults = 0 /\ unread = {})
    BY <1>1, <2>1 DEF Reads, Fails
  <2> HIDE DEF row
  <2> DEFINE from == AcrossGap(row, unread)
             then == ApplyOrReset(from, row.before, row.after, TransitionOrigin(row), unread, broken)
  <2>8. /\ Following(from, row.before)
        /\ faults' = 0 /\ ~config.renames => Whole(from, row.before)
    <3>1. CASE row.before = hook.tree
      BY <2>7, <3>1 DEF AcrossGap, LineageInv
    <3>2. CASE row.before # hook.tree
      <4>1. from = Baseline(row.before, unread)
        BY <3>2 DEF AcrossGap
      <4>2. /\ Following(from, row.before)
            /\ row.before \notin missing /\ unread = {} => Whole(from, row.before)
        <5> HIDE DEF from
        <5> QED BY <2>6, <4>1, BaselineFollows DEF LineageInv
      <4> HIDE DEF from
      <4> QED BY <2>7, <4>2 DEF LineageInv
    <3> QED BY <3>1, <3>2
  <2> HIDE DEF from
  <2>9. /\ Following(then, row.after)
        /\ Whole(from, row.before) /\ ~config.renames /\ missing = {} /\ unread = {} =>
             Whole(then, row.after)
    BY <2>6, <2>8, ReplayFollows DEF LineageInv
  <2>10. /\ hook'.paths = hook.paths /\ hook'.commit = hook.commit /\ hook'.left = Tail(hook.left)
         /\ hook'.tree = row.after /\ hook'.lineage = then /\ hook'.pc = "replay"
    BY <1>1, <2>1, <2>2 DEF IsHook, HookFields, from
  <2> HIDE DEF then
  <2>11. /\ Following(hook'.lineage, hook'.tree)
         /\ faults' = 0 /\ ~config.renames => Whole(hook'.lineage, hook'.tree)
    BY <2>7, <2>8, <2>9, <2>10 DEF LineageInv
  <2> QED BY <2>2, <2>4, <2>6, <2>7, <2>10, <2>11 DEF LineageInv
<1>12. CASE ReplayTail
  <2>1. PICK unread \in SUBSET hook.paths, broken \in BOOLEAN :
          /\ Reads(unread, broken)
          /\ hook' = [hook EXCEPT !.pc = "done", !.tree = hook.commit,
                        !.lineage = IF hook.tree = hook.commit THEN @
                                    ELSE ApplyOrReset(@, hook.tree, hook.commit,
                                                      TailOrigin(hook.rows), unread, broken)]
    BY <1>12 DEF ReplayTail
  <2>2. hook.pc = "replay" /\ UNCHANGED <<config, cursor, moves, stored, missing>>
    BY <1>12 DEF ReplayTail, Unchanged
  <2>3. faults' \in Nat /\ (faults' = 0 => faults = 0 /\ unread = {})
    BY <1>1, <2>1 DEF Reads, Fails
  <2> DEFINE then == IF hook.tree = hook.commit THEN hook.lineage
                     ELSE ApplyOrReset(hook.lineage, hook.tree, hook.commit,
                                       TailOrigin(hook.rows), unread, broken)
  <2>4. TailOrigin(hook.rows) \in Origins
    BY DEF TailOrigin, Origins
  <2>5. /\ Following(then, hook.commit)
        /\ faults' = 0 /\ ~config.renames => Whole(then, hook.commit)
    <3>1. CASE hook.tree = hook.commit
      BY <2>3, <3>1 DEF LineageInv
    <3>2. CASE hook.tree # hook.commit
      <4>1. then = ApplyOrReset(hook.lineage, hook.tree, hook.commit,
                                TailOrigin(hook.rows), unread, broken)
        BY <3>2
      <4> HIDE DEF then
      <4>2. /\ Following(then, hook.commit)
            /\ Whole(hook.lineage, hook.tree) /\ ~config.renames /\ missing = {} /\ unread = {} =>
                 Whole(then, hook.commit)
        BY <2>4, <4>1, ReplayFollows DEF LineageInv
      <4> QED BY <2>3, <4>2 DEF LineageInv
    <3> QED BY <3>1, <3>2
  <2>6. /\ hook'.paths = hook.paths /\ hook'.commit = hook.commit /\ hook'.left = hook.left
        /\ hook'.tree = hook.commit /\ hook'.lineage = then /\ hook'.pc = "done"
    BY <1>1, <2>1 DEF IsHook, HookFields
  <2> HIDE DEF then
  <2>7. /\ Following(hook'.lineage, hook'.tree)
        /\ faults' = 0 /\ ~config.renames => Whole(hook'.lineage, hook'.tree)
    BY <2>5, <2>6
  <2> QED BY <2>2, <2>3, <2>6, <2>7 DEF LineageInv
<1>13. CASE UNCHANGED vars
  <2>1. LeavesLineage
    BY <1>1, <1>13 DEF vars, LeavesLineage, LineageInv
  <2> QED BY <2>1, LineageKept
<1> QED BY <1>2, <1>3, <1>4, <1>5, <1>6, <1>7, <1>8, <1>9, <1>10, <1>11, <1>12, <1>13 DEF Next

LEMMA LineageInvariant ==
  ASSUME NoHeaders
  PROVE  Spec => [](WindowInv /\ LineageInv)
<1>1. Init => WindowInv /\ LineageInv
  BY InitWindow, InitLineage
<1>2. (WindowInv /\ LineageInv) /\ [Next]_vars => (WindowInv /\ LineageInv)'
  BY WindowStep, LineageStep
<1> QED BY <1>1, <1>2, PTL DEF Spec

LEMMA FollowingIsPrefix ==
  ASSUME NEW lines, NEW file \in Text, Follow(lines, file)
  PROVE  /\ IsPrefix(Contents(lines), file)
         /\ Len(lines) = Len(file) => Contents(lines) = file
<1> DEFINE contents == Contents(lines)
<1>1. lines \in Seq(Line) /\ Len(lines) \in Nat /\ DOMAIN lines = 1 .. Len(lines)
  <2> HIDE DEF Line
  <2> QED BY DEF Follow
<1>2. Len(lines) <= Len(file) /\ \A n \in 1 .. Len(lines) : lines[n].content = file[n]
  BY DEF Follow
<1>3. /\ Len(file) \in Nat /\ file = [n \in 1 .. Len(file) |-> file[n]]
      /\ \A n \in 1 .. Len(file) : file[n] \in Texts
  BY DEF Text
<1>4. contents = [n \in 1 .. Len(lines) |-> file[n]]
  BY <1>1, <1>2 DEF Contents
<1> HIDE DEF contents
<1>5. \A n \in 1 .. Len(lines) : n \in 1 .. Len(file)
  BY <1>1, <1>2, <1>3
<1>6. contents \in Seq(Texts) /\ Len(contents) = Len(lines)
  BY <1>1, <1>3, <1>4, <1>5
<1>7. SubSeq(contents, 1, Len(lines)) = SubSeq(file, 1, Len(lines))
  <2> DEFINE k == Len(lines)  a == SubSeq(contents, 1, k)  b == SubSeq(file, 1, k)
  <2>1. a \in Seq(Texts) /\ Len(a) = k /\ \A i \in 1 .. k : a[i] = contents[i]
    <3>1. \A i \in 1 .. k : contents[i] \in Texts
      BY <1>3, <1>4, <1>5
    <3> QED BY <1>1, <3>1, SubSeqProperties
  <2>2. b \in Seq(Texts) /\ Len(b) = k /\ \A i \in 1 .. k : b[i] = file[i]
    <3>1. \A i \in 1 .. k : file[i] \in Texts
      BY <1>3, <1>5
    <3> QED BY <1>1, <3>1, SubSeqProperties
  <2>3. \A i \in 1 .. k : contents[i] = file[i]
    BY <1>4
  <2> HIDE DEF a, b, k
  <2>4. a = b
    BY <2>1, <2>2, <2>3, SeqEqual
  <2> QED BY <2>4 DEF a, b, k
<1>8. IsPrefix(contents, file)
  BY <1>2, <1>6, <1>7 DEF IsPrefix
<1>9. Len(lines) = Len(file) => contents = file
  BY <1>3, <1>4
<1> QED BY <1>8, <1>9 DEF contents

\* Where no line looks like a header, each tracked file says what the tree that the
\* replay has reached says there, or its beginning: ranges and changed lines alone
\* carry every line to its place, through any history and any faults (apply_hunks).
THEOREM LineageAlwaysFollowsTree ==
  ASSUME NoHeaders
  PROVE  Spec => []LineageFollowsTree
<1>1. LineageInv => LineageFollowsTree
  <2> SUFFICES ASSUME LineageInv, NEW p \in DOMAIN hook.lineage
               PROVE  IF faults = 0 /\ ~config.renames
                      THEN Contents(hook.lineage[p]) = FileAt(hook.tree, p)
                      ELSE IsPrefix(Contents(hook.lineage[p]), FileAt(hook.tree, p))
    BY DEF LineageFollowsTree
  <2>1. FileAt(hook.tree, p) \in Text
    BY TreesAreTyped, FilesAreTexts DEF LineageInv
  <2>2. Follow(hook.lineage[p], FileAt(hook.tree, p))
    BY DEF LineageInv, Following
  <2>3. /\ IsPrefix(Contents(hook.lineage[p]), FileAt(hook.tree, p))
        /\ Len(hook.lineage[p]) = Len(FileAt(hook.tree, p)) =>
             Contents(hook.lineage[p]) = FileAt(hook.tree, p)
    BY <2>1, <2>2, FollowingIsPrefix
  <2>4. faults = 0 /\ ~config.renames => Len(hook.lineage[p]) = Len(FileAt(hook.tree, p))
    BY DEF LineageInv, Whole
  <2> QED BY <2>3, <2>4
<1> QED BY <1>1, LineageInvariant, PTL

-----------------------------------------------------------------------------
(* Provenance, beside the reference that follows the kept lines.           *)

\* Of two equal files a diff keeps every line.
LEMMA KeptItself ==
  ASSUME NEW file \in Text, NEW n \in 1 .. Len(file)
  PROVE  Joins(Kept(file, file), n, n)
<1> DEFINE K == Kept(file, file)
           I == 1 .. Len(file)
           same == {<<i, i>> : i \in I}
           f == [i \in I |-> <<i, i>>]
           left == [m \in K |-> m[1]]
           right == [m \in K |-> m[2]]
<1>1. Len(file) \in Nat /\ IsFiniteSet(I) /\ Cardinality(I) = Len(file)
  <2>1. Len(file) \in Nat
    BY DEF Text
  <2>2. 1 \in Int /\ Len(file) \in Int
    BY <2>1
  <2>3. IsFiniteSet(I) /\ Cardinality(I) = IF 1 > Len(file) THEN 0 ELSE Len(file) - 1 + 1
    BY <2>2, FS_Interval
  <2> QED BY <2>1, <2>3
<1>2. /\ IsAlignment(K, file, file) /\ IsFiniteSet(K)
      /\ \A m : IsAlignment(m, file, file) => Cardinality(m) <= Cardinality(K)
  BY KeptFacts DEF IsKept
<1>3. IsAlignment(same, file, file)
  BY DEF IsAlignment
<1>4. Cardinality(same) = Len(file)
  <2>1. f \in [I -> same] /\ (\A i, j \in I : f[i] = f[j] => i = j)
        /\ \A m \in same : \E i \in I : f[i] = m
    OBVIOUS
  <2> HIDE DEF f, same, I
  <2>2. f \in Bijection(I, same)
    BY <2>1 DEF Bijection, Injection, Surjection, IsInjective
  <2>3. ExistsBijection(I, same)
    BY <2>2 DEF ExistsBijection
  <2> QED BY <1>1, <2>3, FS_Bijection
<1>5. Len(file) <= Cardinality(K) /\ Cardinality(K) \in Nat
  BY <1>2, <1>3, <1>4, FS_CardinalityType
<1> HIDE DEF K, same, f
<1>6. /\ \A m \in K : m = <<m[1], m[2]>> /\ m[1] \in I /\ m[2] \in I
      /\ \A a, b \in K : a[1] < b[1] <=> a[2] < b[2]
  BY <1>2 DEF IsAlignment
<1>7. \A a, b \in K : (a[1] = b[1] \/ a[2] = b[2]) => a = b
  <2> TAKE a, b \in K
  <2> HAVE a[1] = b[1] \/ a[2] = b[2]
  <2>1. a[1] \in Int /\ a[2] \in Int /\ b[1] \in Int /\ b[2] \in Int
    BY <1>6
  <2>2. (a[1] < b[1] <=> a[2] < b[2]) /\ (b[1] < a[1] <=> b[2] < a[2])
    BY <1>6
  <2>3. a[1] = b[1] /\ a[2] = b[2]
    BY <2>1, <2>2
  <2> QED BY <1>6, <2>3
<1>8. /\ \A m \in K : left[m] = m[1] /\ right[m] = m[2]
      /\ left \in [K -> I] /\ right \in [K -> I] /\ DOMAIN left = K /\ DOMAIN right = K
  BY <1>6
<1> HIDE DEF left, right, I
<1>9. left \in Injection(K, I) /\ right \in Injection(K, I)
  BY <1>7, <1>8 DEF Injection, IsInjective
<1>10. Cardinality(K) <= Cardinality(I)
  BY <1>1, <1>9, FS_Injection
<1>11. Cardinality(K) = Cardinality(I)
  BY <1>1, <1>5, <1>10
<1>12. left \in Surjection(K, I) /\ right \in Surjection(K, I)
  <2>1. left \in Surjection(K, I)
    BY <1>1, <1>9, <1>11, FS_Injection
  <2>2. right \in Surjection(K, I)
    BY <1>1, <1>9, <1>11, FS_Injection
  <2> QED BY <2>1, <2>2
<1>13. /\ \A i \in I : \E j : Joins(K, i, j)
       /\ \A j \in I : \E i : Joins(K, i, j)
  <2>1. /\ \A i \in I : \E m \in K : m[1] = i
        /\ \A j \in I : \E m \in K : m[2] = j
    BY <1>8, <1>12 DEF Surjection
  <2>2. \A m \in K : Joins(K, m[1], m[2])
    BY <1>6 DEF Joins
  <2> QED BY <2>1, <2>2
<1>14. IsCut(K, 0, 0) /\ IsCut(K, Len(file), Len(file))
  <2>1. \A i, j : Joins(K, i, j) => i \in I /\ j \in I
    BY <1>2, AlignmentFacts DEF I
  <2> QED BY <1>1, <2>1 DEF IsCut, I
<1>15. \A k \in 1 .. Len(file) - 0 : Joins(K, 0 + k, 0 + k)
  <2>1. /\ \A i \in 0 + 1 .. Len(file) : \E j : Joins(K, i, j)
        /\ \A j \in 0 + 1 .. Len(file) : \E i : Joins(K, i, j)
    BY <1>13 DEF I
  <2>2. 0 \in Nat /\ 0 <= Len(file)
    BY <1>1
  <2> QED BY <1>1, <1>2, <1>14, <2>1, <2>2, Diagonal
<1>16. n \in 1 .. Len(file) - 0 /\ 0 + n = n
  BY <1>1
<1>17. Joins(K, 0 + n, 0 + n)
  BY <1>15, <1>16
<1> QED BY <1>16, <1>17 DEF K

\* The path whose lines a change carries to another.
Carries(changed, p, q) ==
  \/ \E pq \in changed : pq[1] = p /\ pq[2] = q
  \/ p = q /\ \A pq \in changed : pq[2] # q

\* What the reference says of a line: as of the line that is kept, or of an added one.
LEMMA CarryIs ==
  ASSUME NEW known, NEW before, IsTree(before), NEW after, IsTree(after), NEW origin,
         NEW c, IsConfig(c), NEW q \in DOMAIN after, NEW n \in 1 .. Len(after[q]), NEW p,
         Carries(ChangedPaths(before, after, c), p, q),
         NEW said, said = Carry(known, before, after, origin, c)[q][n]
  PROVE  /\ \A i : Joins(Kept(FileAt(before, p), after[q]), i, n) => said = known[p][i]
         /\ (\A i : ~Joins(Kept(FileAt(before, p), after[q]), i, n)) =>
              said = AddedProvenance(origin)
<1> DEFINE changed == ChangedPaths(before, after, c)
           Source(r) == IF \E pq \in changed : pq[2] = r
                        THEN (CHOOSE pq \in changed : pq[2] = r)[1] ELSE r
           From(r, k) == {m[1] : m \in {x \in Kept(FileAt(before, Source(r)), after[r]) : x[2] = k}}
           K == Kept(FileAt(before, p), after[q])
           F == {m[1] : m \in {x \in K : x[2] = n}}
<1>1. ChangesAre(changed, before, after)
  BY ChangedFacts
<1>2. q \in Paths /\ after[q] \in Text
  BY DEF IsTree
<1>3. n \in DOMAIN after[q]
  BY <1>2 DEF Text
<1>4. Carry(known, before, after, origin, c) =
        [r \in DOMAIN after |->
           [k \in DOMAIN after[r] |->
              IF From(r, k) = {} THEN AddedProvenance(origin)
              ELSE known[Source(r)][CHOOSE i \in From(r, k) : TRUE]]]
  BY Zenon DEF Carry
<1>5. said = IF From(q, n) = {} THEN AddedProvenance(origin)
             ELSE known[Source(q)][CHOOSE i \in From(q, n) : TRUE]
  <2> HIDE DEF From, Source
  <2> QED BY <1>3, <1>4
<1> HIDE DEF changed
<1>6. \A pq, xy \in changed : pq[2] = q /\ xy[2] = q => pq = xy
  BY <1>1, <1>2 DEF ChangesAre, Touches
<1>7. Source(q) = p
  <2>1. CASE p = q /\ \A pq \in changed : pq[2] # q
    BY <2>1
  <2>2. ASSUME NEW pq \in changed, pq[1] = p, pq[2] = q
        PROVE  Source(q) = p
    <3>1. pq = CHOOSE xy \in changed : xy[2] = q
      BY <1>6, <2>2
    <3>2. \E xy \in changed : xy[2] = q
      BY <2>2
    <3>3. Source(q) = (CHOOSE xy \in changed : xy[2] = q)[1]
      BY <3>2, Zenon
    <3> QED BY <2>2, <3>1, <3>3
  <2> QED BY <2>1, <2>2 DEF Carries, changed
<1> HIDE DEF Source
<1>8. From(q, n) = F
  BY <1>7, Zenon
<1> HIDE DEF From
<1>9. said = IF F = {} THEN AddedProvenance(origin) ELSE known[p][CHOOSE i \in F : TRUE]
  BY <1>5, <1>7, <1>8, Zenon
<1>10. FileAt(before, p) \in Text
  BY FilesAreTexts
<1>11. IsAlignment(K, FileAt(before, p), after[q])
  BY <1>2, <1>10, KeptFacts DEF IsKept
<1>12. \A m \in K : m = <<m[1], m[2]>>
  BY <1>11 DEF IsAlignment
<1> HIDE DEF K
<1>13. \A i, j, k : Joins(K, i, k) /\ Joins(K, j, k) => i = j
  BY <1>2, <1>10, <1>11, AlignmentFacts
<1>14. \A i : i \in F <=> Joins(K, i, n)
  <2> TAKE i
  <2>1. Joins(K, i, n) => i \in F
    <3> HAVE Joins(K, i, n)
    <3>1. <<i, n>> \in {x \in K : x[2] = n} /\ <<i, n>>[1] = i
      BY DEF Joins
    <3> QED BY <3>1, Zenon
  <2>2. i \in F => Joins(K, i, n)
    <3> HAVE i \in F
    <3>1. PICK m \in {x \in K : x[2] = n} : i = m[1]
      OBVIOUS
    <3>2. m = <<i, n>> /\ m \in K
      BY <1>12, <3>1
    <3> QED BY <3>2 DEF Joins
  <2> QED BY <2>1, <2>2
<1> HIDE DEF F
<1>15. ASSUME NEW i, Joins(K, i, n)
       PROVE  said = known[p][i]
  <2>1. i \in F /\ \A j \in F : j = i
    BY <1>13, <1>14, <1>15
  <2>2. (CHOOSE j \in F : TRUE) = i /\ F # {}
    BY <2>1
  <2> QED BY <1>9, <2>2
<1>16. ASSUME \A i : ~Joins(K, i, n)
       PROVE  said = AddedProvenance(origin)
  <2>1. F = {}
    BY <1>14, <1>16
  <2> QED BY <1>9, <2>1
<1> QED BY <1>15, <1>16 DEF K

\* What the lineage says of a line, if it says anything, the reference says as well.
Agree(lineage, known) ==
  \A q \in DOMAIN lineage : \A n \in 1 .. Len(lineage[q]) :
    lineage[q][n].provenance \in {"unknown", known[q][n]}

Unsaid(lineage) ==
  \A q \in DOMAIN lineage : \A n \in 1 .. Len(lineage[q]) :
    lineage[q][n].provenance = "unknown"

LEMMA UnsaidAgrees ==
  ASSUME NEW lineage, Unsaid(lineage), NEW known
  PROVE  Agree(lineage, known)
BY DEF Unsaid, Agree

\* A line that is tracked is one of the file.
LEMMA FollowedLine ==
  ASSUME NEW tree, IsTree(tree), NEW files, Following(files, tree),
         NEW q \in DOMAIN files, NEW n \in 1 .. Len(files[q])
  PROVE  q \in DOMAIN tree /\ n \in 1 .. Len(tree[q]) /\ files[q][n] \in Line
<1>1. Follow(files[q], FileAt(tree, q))
  BY DEF Following
<1>2. files[q] \in Seq(Line) /\ Len(files[q]) \in Nat /\ n <= Len(files[q])
  <2> HIDE DEF Line
  <2> QED BY <1>1 DEF Follow
<1>3. Len(files[q]) <= Len(FileAt(tree, q))
  BY <1>1 DEF Follow
<1>4. Len(FileAt(tree, q)) \in Nat
  <2>1. FileAt(tree, q) \in Text
    BY FilesAreTexts
  <2> QED BY <2>1 DEF Text
<1>5. n \in 1 .. Len(FileAt(tree, q))
  BY <1>2, <1>3, <1>4
<1>6. q \in DOMAIN tree
  <2>1. q \notin DOMAIN tree => Len(FileAt(tree, q)) = 0
    BY DEF FileAt
  <2> QED BY <1>5, <2>1
<1>7. files[q][n] \in Line
  <2> HIDE DEF Line
  <2> QED BY <1>2
<1> QED BY <1>5, <1>6, <1>7 DEF FileAt

\* Nothing is carried from a tree to itself that is not there.
LEMMA CarrySame ==
  ASSUME NEW tree, IsTree(tree), NEW c, IsConfig(c), NEW origin,
         NEW files, Following(files, tree), NEW known, Agree(files, known)
  PROVE  Agree(files, Carry(known, tree, tree, origin, c))
<1> DEFINE all == ChangedPaths(tree, tree, c)
<1>1. all = {}
  <2>1. Renamed(tree, tree) = {}
    BY DEF Renamed
  <2> QED BY <2>1 DEF ChangedPaths
<1>2. ASSUME NEW q \in DOMAIN files, NEW n \in 1 .. Len(files[q])
      PROVE  files[q][n].provenance \in {"unknown", Carry(known, tree, tree, origin, c)[q][n]}
  <2>1. q \in DOMAIN tree /\ n \in 1 .. Len(tree[q])
    BY FollowedLine
  <2>2. Carries(all, q, q)
    BY <1>1 DEF Carries
  <2>3. FileAt(tree, q) = tree[q] /\ tree[q] \in Text
    BY <2>1 DEF FileAt, IsTree
  <2>4. Joins(Kept(FileAt(tree, q), tree[q]), n, n)
    BY <2>1, <2>3, KeptItself
  <2>5. Carry(known, tree, tree, origin, c)[q][n] = known[q][n]
    BY <2>1, <2>2, <2>4, CarryIs
  <2> QED BY <2>5 DEF Agree
<1> QED BY <1>2 DEF Agree

\* A patch that fits says no more of the lines than the reference does.
LEMMA CarryAgrees ==
  ASSUME NEW before, IsTree(before), NEW after, IsTree(after), NEW c, IsConfig(c),
         NEW origin \in Origins, NEW files, Following(files, before),
         NEW known, Agree(files, known), NEW res,
         IsPatched(res, files, before, after, ChangedPaths(before, after, c), origin)
  PROVE  Agree(res, Carry(known, before, after, origin, c))
<1> DEFINE all == ChangedPaths(before, after, c)
           carried == Carry(known, before, after, origin, c)
<1>1. ChangesAre(all, before, after)
  BY ChangedFacts
<1>2. Following(res, after)
  BY ApplyFollows
<1>3. ASSUME NEW q \in DOMAIN res, NEW n \in 1 .. Len(res[q])
      PROVE  res[q][n].provenance \in {"unknown", carried[q][n]}
  <2>1. q \in DOMAIN after /\ n \in 1 .. Len(after[q])
    BY <1>2, FollowedLine
  <2>2. FileAt(after, q) = after[q] /\ after[q] \in Text /\ q \in Paths /\ q # NoPath
    BY <2>1, PathsAreNames DEF FileAt, IsTree
  <2>3. PathMade(q, res[q], files, before, after, all, origin)
    BY DEF IsPatched
  <2>4. CASE q \in DOMAIN files /\ res[q] = files[q] /\ \A pq \in all : ~Touches(pq, q)
    <3>1. FileAt(before, q) = after[q]
      BY <1>1, <2>2, <2>4 DEF ChangesAre
    <3>2. Carries(all, q, q)
      BY <2>4 DEF Carries, Touches
    <3>3. Joins(Kept(FileAt(before, q), after[q]), n, n)
      BY <2>1, <2>2, <3>1, KeptItself
    <3>4. carried[q][n] = known[q][n]
      BY <2>1, <3>2, <3>3, CarryIs
    <3> HIDE DEF carried
    <3> QED BY <2>4, <3>4 DEF Agree
  <2>5. ASSUME NEW pq \in all, pq[2] = q, IsTracked(files, pq),
               IsMade(res[q], Tracked(files, pq[1], pq[2]), FileAt(before, pq[1]),
                      FileAt(after, pq[2]), origin)
        PROVE  res[q][n].provenance \in {"unknown", carried[q][n]}
    <3> DEFINE p == pq[1]
               old == FileAt(before, p)
               new == after[q]
               tracked == Tracked(files, p, q)
    <3>1. IsChange(pq, before, after)
      BY <1>1 DEF ChangesAre
    <3>2. Carries(all, p, q)
      BY <2>5 DEF Carries
    <3>3. IsCarried(res[q], Len(res[q]), tracked, old, new, origin)
      BY <2>2, <2>5 DEF IsMade
    <3>4. old \in Text
      BY FilesAreTexts
    <3> HIDE DEF carried
    <3>5. /\ \A i : Joins(Kept(old, new), i, n) => carried[q][n] = known[p][i]
          /\ (\A i : ~Joins(Kept(old, new), i, n)) => carried[q][n] = AddedProvenance(origin)
      <4> DEFINE said == Carry(known, before, after, origin, c)[q][n]
      <4>1. said = Carry(known, before, after, origin, c)[q][n]
        OBVIOUS
      <4> HIDE DEF said
      <4>2. /\ \A i : Joins(Kept(FileAt(before, p), after[q]), i, n) => said = known[p][i]
            /\ (\A i : ~Joins(Kept(FileAt(before, p), after[q]), i, n)) =>
                 said = AddedProvenance(origin)
        <5> HIDE DEF p
        <5> QED BY <2>1, <3>2, <4>1, CarryIs
      <4> QED BY <4>2 DEF carried, said
    <3> HIDE DEF p, old, new, tracked
    <3>6. /\ res[q][n] = CarriedLine(tracked, old, new, origin, n)
          /\ \A i : Joins(Kept(old, new), i, n) => i <= Len(tracked)
      BY <3>3 DEF IsCarried
    <3>7. CASE \A i : ~Joins(Kept(old, new), i, n)
      <4>1. res[q][n] = [content |-> new[n], provenance |-> AddedProvenance(origin)]
        BY <2>2, <3>4, <3>6, <3>7, CarriedLineIs DEF new
      <4>2. res[q][n].provenance = AddedProvenance(origin)
        BY <4>1
      <4> QED BY <3>5, <3>7, <4>2
    <3>8. ASSUME NEW i, Joins(Kept(old, new), i, n)
          PROVE  res[q][n].provenance \in {"unknown", carried[q][n]}
      <4>1. res[q][n] = tracked[i] /\ i <= Len(tracked)
        BY <2>2, <3>4, <3>6, <3>8, CarriedLineIs DEF new
      <4>2. carried[q][n] = known[p][i]
        BY <3>5, <3>8
      <4>3. i \in 1 .. Len(old)
        <5>1. IsAlignment(Kept(old, new), old, new)
          BY <2>2, <3>4, KeptFacts DEF IsKept, new
        <5> QED BY <2>2, <3>4, <3>8, <5>1, AlignmentFacts DEF new
      <4>4. p \in DOMAIN files
        <5>1. SUFFICES ASSUME p \notin DOMAIN files PROVE FALSE
          OBVIOUS
        <5>2. q \in DOMAIN files /\ p # q
          BY <2>5, <5>1 DEF IsTracked, p
        <5>3. q \notin DOMAIN before
          BY <2>2, <2>5, <3>1, <5>2 DEF IsChange, p
        <5>4. Follow(files[q], <<>>)
          BY <5>2, <5>3 DEF Following, FileAt
        <5>5. files[q] = <<>>
          BY <5>4, NoLinesLeft
        <5>6. tracked = <<>>
          BY <5>1, <5>2, <5>5 DEF tracked, Tracked, FileAt
        <5> QED BY <4>1, <4>3, <5>6
      <4>5. tracked = files[p]
        BY <4>4 DEF tracked, Tracked
      <4>6. i \in 1 .. Len(files[p])
        <5>1. Len(files[p]) \in Nat
          <6>1. Follow(files[p], FileAt(before, p))
            BY <4>4 DEF Following
          <6> HIDE DEF Line
          <6> QED BY <6>1 DEF Follow
        <5> QED BY <4>1, <4>3, <4>5, <5>1
      <4>7. files[p][i].provenance \in {"unknown", known[p][i]}
        BY <4>4, <4>6 DEF Agree
      <4> QED BY <4>1, <4>2, <4>5, <4>7
    <3> QED BY <3>7, <3>8
  <2> HIDE DEF carried, all
  <2> QED BY <2>3, <2>4, <2>5 DEF PathMade
<1> QED BY <1>3 DEF Agree

-----------------------------------------------------------------------------
(* The history that the reference follows.                                 *)

\* What the reference knows after each event.
Recounted(after, last, rows, c) ==
  after = [n \in 0 .. last |->
            IF n = 0 THEN [tree |-> rows[1].before,
                           lines |-> [p \in DOMAIN rows[1].before |->
                                        [i \in DOMAIN rows[1].before[p] |-> "unknown"]]]
            ELSE CarryTo(CarryTo(after[n - 1], rows[n].before, "unobserved", c),
                         rows[n].after, rows[n].origin, c)]

LEMMA RecountedOnceMore ==
  ASSUME NEW last \in Nat, NEW rows, NEW c, \E after : Recounted(after, last, rows, c)
  PROVE  \E after : Recounted(after, last + 1, rows, c)
<1>1. PICK g : Recounted(g, last, rows, c)
  OBVIOUS
<1> DEFINE Start == [tree |-> rows[1].before,
                     lines |-> [p \in DOMAIN rows[1].before |->
                                  [i \in DOMAIN rows[1].before[p] |-> "unknown"]]]
           More(x, n) == CarryTo(CarryTo(x, rows[n].before, "unobserved", c),
                                 rows[n].after, rows[n].origin, c)
           f == [n \in 0 .. last + 1 |-> IF n <= last THEN g[n] ELSE More(g[last], last + 1)]
<1>2. g = [n \in 0 .. last |-> IF n = 0 THEN Start ELSE More(g[n - 1], n)]
  BY <1>1, Zenon DEF Recounted
<1>3. ASSUME NEW n \in 0 .. last + 1
      PROVE  f[n] = IF n = 0 THEN Start ELSE More(f[n - 1], n)
  <2> HIDE DEF Start, More
  <2>1. CASE n = 0
    BY <1>2, <2>1
  <2>2. CASE n # 0 /\ n <= last
    <3>1. f[n] = g[n] /\ f[n - 1] = g[n - 1]
      BY <2>2
    <3>2. g[n] = More(g[n - 1], n)
      <4>1. n \in 0 .. last
        BY <2>2
      <4> QED BY <1>2, <2>2, <4>1
    <3> HIDE DEF f
    <3> QED BY <2>2, <3>1, <3>2, Zenon
  <2>3. CASE n = last + 1
    <3>1. f[n] = More(g[last], last + 1) /\ f[last] = g[last]
      BY <2>3
    <3>2. n - 1 = last /\ n # 0
      BY <2>3
    <3> HIDE DEF f
    <3> QED BY <2>3, <3>1, <3>2, Zenon
  <2> QED BY <2>1, <2>2, <2>3
<1>4. f = [n \in 0 .. last + 1 |-> f[n]]
  OBVIOUS
<1> HIDE DEF f
<1>5. Recounted(f, last + 1, rows, c)
  <2>1. f = [n \in 0 .. last + 1 |-> IF n = 0 THEN Start ELSE More(f[n - 1], n)]
    <3> HIDE DEF Start, More
    <3> QED BY <1>3, <1>4
  <2> QED BY <2>1, Zenon DEF Recounted
<1> QED BY <1>5

LEMMA RecountingEnds ==
  ASSUME NEW last \in Nat, NEW rows, NEW c
  PROVE  \E after : Recounted(after, last, rows, c)
<1> DEFINE T == {m \in Nat : ~ \E after : Recounted(after, m, rows, c)}
<1>1. 0 \notin T
  <2> DEFINE f == [n \in 0 .. 0 |-> [tree |-> rows[1].before,
                                     lines |-> [p \in DOMAIN rows[1].before |->
                                                  [i \in DOMAIN rows[1].before[p] |-> "unknown"]]]]
  <2>1. Recounted(f, 0, rows, c)
    BY DEF Recounted
  <2> QED BY <2>1
<1>2. SUFFICES ASSUME T # {} PROVE FALSE
  BY DEF T
<1>3. PICK m \in T : \A k \in T : m <= k
  BY <1>2, LeastNatural
<1>4. m - 1 \in Nat /\ m - 1 \notin T
  BY <1>1, <1>3
<1>5. \E after : Recounted(after, m - 1, rows, c)
  BY <1>4
<1>6. \E after : Recounted(after, (m - 1) + 1, rows, c)
  BY <1>4, <1>5, RecountedOnceMore
<1>7. (m - 1) + 1 = m
  BY <1>4
<1> QED BY <1>3, <1>6, <1>7

Known(rows, k, c) == (CHOOSE after : Recounted(after, Len(rows), rows, c))[k]

LEMMA KnownIs ==
  ASSUME NEW rows, Len(rows) \in Nat, NEW c
  PROVE  /\ \A k \in 1 .. Len(rows) :
              Known(rows, k, c) = CarryTo(CarryTo(Known(rows, k - 1, c), rows[k].before, "unobserved", c),
                                          rows[k].after, rows[k].origin, c)
         /\ \A tree : Reference(rows, tree, c)
                        = CarryTo(Known(rows, Len(rows), c), tree, "unobserved", c).lines
<1> DEFINE d == CHOOSE after : Recounted(after, Len(rows), rows, c)
<1>1. \E after : Recounted(after, Len(rows), rows, c)
  BY RecountingEnds
<1>2. Recounted(d, Len(rows), rows, c)
  <2> HIDE DEF Recounted
  <2> QED BY <1>1, Zenon
<1>3. d = CHOOSE after :
            after = [n \in 0 .. Len(rows) |->
                      IF n = 0 THEN [tree |-> rows[1].before,
                                     lines |-> [p \in DOMAIN rows[1].before |->
                                                  [i \in DOMAIN rows[1].before[p] |-> "unknown"]]]
                      ELSE CarryTo(CarryTo(after[n - 1], rows[n].before, "unobserved", c),
                                   rows[n].after, rows[n].origin, c)]
  BY Zenon DEF Recounted
<1>4. \A k : Known(rows, k, c) = d[k]
  BY Zenon DEF Known
<1> HIDE DEF d
<1>5. \A tree : Reference(rows, tree, c) = CarryTo(d[Len(rows)], tree, "unobserved", c).lines
  BY <1>3, Zenon DEF Reference
<1>6. \A k \in 0 .. Len(rows) :
        d[k] = IF k = 0 THEN [tree |-> rows[1].before,
                              lines |-> [p \in DOMAIN rows[1].before |->
                                           [i \in DOMAIN rows[1].before[p] |-> "unknown"]]]
               ELSE CarryTo(CarryTo(d[k - 1], rows[k].before, "unobserved", c),
                            rows[k].after, rows[k].origin, c)
  BY <1>2, Zenon DEF Recounted
<1>7. \A k \in 1 .. Len(rows) : k \in 0 .. Len(rows) /\ k # 0
  OBVIOUS
<1>8. \A k \in 1 .. Len(rows) :
        d[k] = CarryTo(CarryTo(d[k - 1], rows[k].before, "unobserved", c),
                       rows[k].after, rows[k].origin, c)
  BY <1>6, <1>7, Zenon
<1> QED BY <1>4, <1>5, <1>8, Zenon

\* What is left to be replayed is the end of the history.
Ordered(T) == InOrder(T, <)

IsRest(left, T) ==
  /\ Len(left) <= Cardinality(T)
  /\ \A i \in 1 .. Len(left) : Ordered(T)[Cardinality(T) - Len(left) + i] = left[i]

Ascending(left) ==
  left \in Seq(Nat) /\ \A i, j \in 1 .. Len(left) : i < j => left[i] < left[j]

EndsIn(left, T) ==
  /\ \A i \in 1 .. Len(left) : left[i] \in T
  /\ \A x \in T : \A i \in 1 .. Len(left) : left[i] <= x => \E j \in 1 .. Len(left) : left[j] = x

LEMMA TopOfOrder ==
  ASSUME NEW T, T \subseteq Nat, IsFiniteSet(T), NEW left, Ascending(left), EndsIn(left, T)
  PROVE  IsRest(left, T)
<1> USE DEF Ascending, EndsIn
<1> DEFINE m == Len(left)
           N == Cardinality(T)
           Up(i) == {x \in T : left[i] <= x}
           Down(i) == {x \in T : x < left[i]}
<1>1. m \in Nat /\ N \in Nat /\ \A i \in 1 .. m : left[i] \in Nat
  BY FS_CardinalityType
<1>2. ASSUME NEW i \in 1 .. m
      PROVE  IsFiniteSet(Up(i)) /\ Cardinality(Up(i)) = m - i + 1
  <2> DEFINE f == [j \in i .. m |-> left[j]]
             I == i .. m
             S == Up(i)
  <2>1. \A j \in I : j \in 1 .. m /\ left[j] \in T /\ left[i] <= left[j]
    <3> TAKE j \in I
    <3>1. j \in 1 .. m /\ (j = i \/ i < j)
      BY <1>1
    <3> QED BY <1>1, <3>1
  <2>2. f \in [I -> S]
    BY <2>1
  <2>3. \A j, k \in I : f[j] = f[k] => j = k
    <3> TAKE j, k \in I
    <3> HAVE f[j] = f[k]
    <3>1. j \in 1 .. m /\ k \in 1 .. m /\ left[j] = left[k]
      BY <2>1
    <3>2. ~(j < k) /\ ~(k < j)
      BY <1>1, <3>1
    <3> QED BY <3>1, <3>2
  <2>4. \A x \in S : \E j \in I : f[j] = x
    <3> TAKE x \in S
    <3>1. x \in T /\ left[i] <= x
      OBVIOUS
    <3>2. PICK j \in 1 .. m : left[j] = x
      BY <3>1
    <3>3. ~(j < i)
      BY <1>1, <3>1, <3>2
    <3>4. j \in I
      BY <1>1, <3>2, <3>3
    <3> QED BY <3>2, <3>4
  <2> HIDE DEF f, S
  <2>5. f \in Bijection(I, S)
    BY <2>2, <2>3, <2>4 DEF Bijection, Injection, Surjection, IsInjective
  <2>6. ExistsBijection(I, S)
    BY <2>5 DEF ExistsBijection
  <2>7. IsFiniteSet(I) /\ Cardinality(I) = m - i + 1
    <3>1. i \in Int /\ m \in Int /\ ~(i > m)
      BY <1>1
    <3>2. IsFiniteSet(I) /\ Cardinality(I) = IF i > m THEN 0 ELSE m - i + 1
      BY <3>1, FS_Interval
    <3> QED BY <3>1, <3>2
  <2>8. IsFiniteSet(S) /\ Cardinality(S) = Cardinality(I)
    BY <2>6, <2>7, FS_Bijection
  <2> QED BY <2>7, <2>8 DEF S
<1>3. ASSUME NEW i \in 1 .. m
      PROVE  m - i + 1 <= N /\ Cardinality(Down(i)) = N - (m - i + 1)
  <2>1. Up(i) \in SUBSET T
    OBVIOUS
  <2>2. Down(i) = T \ Up(i) /\ T \cap Up(i) = Up(i)
    <3>1. left[i] \in Nat /\ \A x \in T : x \in Nat
      BY <1>1
    <3>2. \A x \in T : x < left[i] <=> ~(left[i] <= x)
      BY <3>1
    <3>3. Down(i) = T \ Up(i)
      BY <3>2, Zenon
    <3>4. T \cap Up(i) = Up(i)
      BY Zenon
    <3> QED BY <3>3, <3>4
  <2> HIDE DEF Up, Down
  <2>3. Cardinality(Up(i)) <= N
    BY <2>1, FS_Subset
  <2>4. Cardinality(T \ Up(i)) = Cardinality(T) - Cardinality(T \cap Up(i))
    BY FS_Difference
  <2> QED BY <1>2, <2>2, <2>3, <2>4
<1>4. /\ InOrder(T, <) \in [1 .. N -> T]
      /\ \A x \in T : \E i \in 1 .. N : InOrder(T, <)[i] = x
      /\ \A i \in 1 .. N : Cardinality({x \in T : x < InOrder(T, <)[i]}) = i - 1
  <2>1. T \subseteq Int
    OBVIOUS
  <2> QED BY <2>1, AscendingFacts
<1> DEFINE o == InOrder(T, <)
<1>5. /\ \A x \in T : \E i \in 1 .. N : o[i] = x
      /\ \A i \in 1 .. N : Cardinality({x \in T : x < o[i]}) = i - 1
  BY <1>4
<1> HIDE DEF o, N, m
<1>6. ASSUME NEW i \in 1 .. m
      PROVE  o[N - m + i] = left[i]
  <2>1. left[i] \in T
    BY DEF m
  <2>2. PICK j \in 1 .. N : o[j] = left[i]
    BY <1>5, <2>1
  <2>3. Cardinality(Down(i)) = j - 1
    BY <1>5, <2>2
  <2> HIDE DEF Down
  <2>4. j = N - m + i
    BY <1>1, <1>3, <2>3
  <2> QED BY <2>2, <2>4
<1>7. m <= N
  <2>1. CASE m = 0
    BY <1>1, <2>1
  <2>2. CASE m # 0
    <3>1. 1 \in 1 .. m /\ m - 1 + 1 = m
      BY <1>1, <2>2
    <3> QED BY <1>3, <3>1
  <2> QED BY <2>1, <2>2
<1>8. o = Ordered(T)
  BY Zenon DEF Ordered, o
<1> QED BY <1>6, <1>7, <1>8 DEF N, m, IsRest

-----------------------------------------------------------------------------
(* The credit that the hook gives is earned.                               *)

History(mv, T) == [k \in 1 .. Cardinality(T) |-> mv[Ordered(T)[k]]]

LEMMA RowsAre ==
  ASSUME NEW T, T \subseteq Nat, IsFiniteSet(T)
  PROVE  Rows(T) = History(moves, T)
<1> DEFINE o == InOrder(T, <)
<1>1. o \in [1 .. Cardinality(T) -> T]
  <2>1. T \subseteq Int
    OBVIOUS
  <2> QED BY <2>1, AscendingFacts
<1>2. Rows(T) = [k \in DOMAIN o |-> moves[o[k]]]
  BY Zenon DEF Rows
<1>3. History(moves, T) = [k \in 1 .. Cardinality(T) |-> moves[o[k]]]
  BY Zenon DEF History, Ordered
<1> HIDE DEF o
<1>4. DOMAIN o = 1 .. Cardinality(T)
  BY <1>1
<1> QED BY <1>2, <1>3, <1>4

\* What was or could be read, of a window and of what is still stored.
Past(rows, cut, kept) == ToSet(rows) \cup {r \in kept : r <= cut}

LEMMA RetainedAre ==
  ASSUME NEW rows, NEW cut \in Nat, NEW kept, kept \subseteq Nat, IsFiniteSet(kept),
         IsWindow(rows, cut, kept)
  PROVE  /\ Past(rows, cut, kept) \subseteq Nat
         /\ IsFiniteSet(Past(rows, cut, kept))
         /\ IsRest(Reverse(rows), Past(rows, cut, kept))
<1> DEFINE T == Past(rows, cut, kept)
           W == ToSet(rows)
           m == Len(rows)
           left == Reverse(rows)
<1>1. /\ rows \in Seq(Nat) /\ \A i \in 1 .. m : rows[i] <= cut
      /\ \A i, j \in 1 .. m : i < j => rows[i] > rows[j]
      /\ \A r \in kept : Bottom(rows, cut) <= r /\ r <= cut => \E i \in 1 .. m : rows[i] = r
  BY DEF IsWindow
<1>2. m \in Nat /\ DOMAIN rows = 1 .. m /\ \A i \in 1 .. m : rows[i] \in Nat
  BY <1>1
<1>3. W = {rows[i] : i \in 1 .. m}
  BY <1>2 DEF ToSet
<1>4. IsFiniteSet(W) /\ W \subseteq Nat
  <2> DEFINE f == [i \in 1 .. m |-> rows[i]]
  <2>1. f \in [1 .. m -> W] /\ \A x \in W : \E i \in 1 .. m : f[i] = x
    BY <1>3
  <2>2. IsFiniteSet(1 .. m)
    BY <1>2, FS_Interval
  <2> HIDE DEF f, W, m
  <2>3. f \in Surjection(1 .. m, W)
    BY <2>1 DEF Surjection
  <2>4. IsFiniteSet(W)
    BY <2>2, <2>3, FS_Surjection
  <2> QED BY <1>2, <1>3, <2>4
<1> HIDE DEF W, m
<1>5. T = W \cup {r \in kept : r <= cut}
  BY DEF Past, W
<1> HIDE DEF T
<1>6. T \subseteq Nat /\ IsFiniteSet(T)
  <2>1. {r \in kept : r <= cut} \in SUBSET kept
    OBVIOUS
  <2>2. IsFiniteSet({r \in kept : r <= cut})
    BY <2>1, FS_Subset
  <2>3. IsFiniteSet(W \cup {r \in kept : r <= cut})
    BY <1>4, <2>2, FS_Union
  <2> QED BY <1>4, <1>5, <2>3
<1>7. left = [i \in 1 .. m |-> rows[(m - i) + 1]]
  BY DEF Reverse, m
<1> HIDE DEF left
<1>8. \A i \in 1 .. m : (m - i) + 1 \in 1 .. m /\ left[i] = rows[(m - i) + 1]
  BY <1>2, <1>7
<1>9. left \in Seq(Nat) /\ Len(left) = m
  <2>1. \A i \in 1 .. m : left[i] \in Nat
    BY <1>2, <1>8
  <2> QED BY <1>2, <1>7, <2>1
<1>10. \A i, j \in 1 .. m : i < j => left[i] < left[j]
  <2> TAKE i, j \in 1 .. m
  <2> HAVE i < j
  <2>1. (m - j) + 1 < (m - i) + 1
    BY <1>2
  <2>2. rows[(m - j) + 1] > rows[(m - i) + 1]
    BY <1>1, <1>8, <2>1 DEF m
  <2>3. left[j] > left[i] /\ left[i] \in Nat /\ left[j] \in Nat
    BY <1>2, <1>8, <2>2
  <2> QED BY <2>3
<1>11. \A i \in 1 .. m : left[i] \in T
  BY <1>3, <1>5, <1>8
<1>12. \A k \in 1 .. m : \E j \in 1 .. m : left[j] = rows[k]
  <2> TAKE k \in 1 .. m
  <2>1. (m - k) + 1 \in 1 .. m /\ (m - ((m - k) + 1)) + 1 = k
    BY <1>2
  <2> QED BY <1>8, <2>1
<1>13. ASSUME NEW x \in T, NEW i \in 1 .. m, left[i] <= x
       PROVE  \E j \in 1 .. m : left[j] = x
  <2>1. CASE x \in W
    BY <1>3, <1>12, <2>1
  <2>2. CASE x \in kept /\ x <= cut
    <3>1. m \in 1 .. m /\ Bottom(rows, cut) = rows[m]
      BY <1>1, <1>2 DEF Bottom, m
    <3>2. rows[m] <= left[i]
      <4>1. (m - i) + 1 = m \/ (m - i) + 1 < m
        BY <1>2
      <4>2. (m - i) + 1 < m => rows[(m - i) + 1] > rows[m]
        BY <1>1, <1>8, <3>1 DEF m
      <4> QED BY <1>2, <1>8, <3>1, <4>1, <4>2
    <3>3. rows[m] <= x
      BY <1>2, <1>6, <1>8, <1>13, <3>1, <3>2
    <3>4. \E k \in 1 .. m : rows[k] = x
      BY <1>1, <2>2, <3>1, <3>3 DEF m
    <3> QED BY <1>12, <3>4
  <2> QED BY <1>5, <2>1, <2>2
<1>14. Ascending(left) /\ EndsIn(left, T)
  <2>1. Ascending(left)
    BY <1>9, <1>10 DEF Ascending
  <2>2. EndsIn(left, T)
    BY <1>9, <1>11, <1>13 DEF EndsIn
  <2> QED BY <2>1, <2>2
<1>15. IsRest(left, T)
  BY <1>6, <1>14, TopOfOrder
<1> QED BY <1>6, <1>15 DEF T, left

LEMMA BaselineUnsaid ==
  ASSUME hook.paths \subseteq Paths, NEW tree \in Trees, NEW unread
  PROVE  Unsaid(Baseline(tree, unread))
<1> DEFINE file(p) == IF tree \in missing \/ p \in unread THEN <<>> ELSE FileAt(tree, p)
           files == Baseline(tree, unread)
<1>1. files = [p \in hook.paths |-> UnknownLines(file(p))]
  BY DEF Baseline, FromBaseline
<1>2. \A p \in hook.paths : file(p) \in Text
  <2>1. <<>> \in Text
    BY EmptySeq DEF Text
  <2>2. \A p : FileAt(tree, p) \in Text
    BY TreesAreTyped, FilesAreTexts
  <2> QED BY <2>1, <2>2
<1> HIDE DEF file
<1>3. ASSUME NEW p \in hook.paths, NEW n \in 1 .. Len(UnknownLines(file(p)))
      PROVE  UnknownLines(file(p))[n].provenance = "unknown"
  <2>1. Len(UnknownLines(file(p))) = Len(file(p))
    BY <1>2, UnknownFollow
  <2>2. n \in DOMAIN file(p)
    BY <1>2, <2>1 DEF Text
  <2> QED BY <2>2 DEF UnknownLines
<1> HIDE DEF files
<1>4. DOMAIN files = hook.paths /\ \A p \in hook.paths : files[p] = UnknownLines(file(p))
  BY <1>1
<1> QED BY <1>3, <1>4 DEF Unsaid, files

\* One step of the replay says no more of the lines than the reference does.
LEMMA ReplayAgrees ==
  ASSUME NoHeaders, config \in Configs, hook.paths \subseteq Paths,
         NEW before \in Trees, NEW after \in Trees, NEW origin \in Origins,
         NEW lineage, Following(lineage, before), NEW known, Agree(lineage, known),
         NEW unread, NEW broken \in BOOLEAN
  PROVE  Agree(ApplyOrReset(lineage, before, after, origin, unread, broken),
               Carry(known, before, after, origin, config))
<1> DEFINE applied == Apply(lineage, DiffTrees[config][<<before, after>>], origin)
           then == ApplyOrReset(lineage, before, after, origin, unread, broken)
<1>1. DiffTrees[config][<<before, after>>] = Diff(before, after, config)
  BY DEF DiffTrees
<1>2. IsConfig(config)
  BY ConfigsAreFlags DEF IsConfig
<1>3. IsTree(before) /\ IsTree(after)
  BY TreesAreTyped
<1>4. \/ then = Baseline(after, unread)
      \/ then = applied.files /\ applied.ok
  BY DEF ApplyOrReset
<1>5. applied = Apply(lineage, Diff(before, after, config), origin)
  BY <1>1
<1> HIDE DEF applied, then
<1>6. CASE then = Baseline(after, unread)
  <2>1. Unsaid(then)
    BY <1>6, BaselineUnsaid
  <2> QED BY <2>1, UnsaidAgrees DEF then
<1>7. CASE then = applied.files /\ applied.ok
  <2>1. IsPatched(then, lineage, before, after, ChangedPaths(before, after, config), origin)
    BY <1>2, <1>3, <1>5, <1>7, ApplyMade
  <2> QED BY <1>2, <1>3, <2>1, CarryAgrees DEF then
<1> QED BY <1>4, <1>6, <1>7

\* What the hook has said so far, and that what it replays is the rest of the history.
Told == History(moves, Retained)

KnownAfter(k) == Known(Told, k, config)

Observed(revisions) == \A i \in 1 .. Len(revisions) : moves[revisions[i]].origin # "unobserved"

CreditInv ==
  /\ \A r \in stored : moves[r].origin # "unobserved"
  /\ Observed(hook.rows)
  /\ hook.pc \in {"baseline", "replay"} => IsRest(hook.left, Retained) /\ Observed(hook.left)
  /\ hook.pc \notin {"replay", "done"} => Unsaid(hook.lineage)
  /\ hook.pc = "replay" =>
       \/ hook.left # <<>> /\ Unsaid(hook.lineage)
       \/ LET reached == KnownAfter(Cardinality(Retained) - Len(hook.left))
          IN reached.tree = hook.tree /\ Agree(hook.lineage, reached.lines)
  /\ hook.pc = "done" => Agree(hook.lineage, Reference(Told, hook.commit, config))

LEMMA InitCredit == Init => CreditInv
<1> SUFFICES ASSUME Init PROVE CreditInv
  OBVIOUS
<1>1. /\ hook.pc = "idle" /\ hook.rows = <<>> /\ DOMAIN hook.lineage = {} /\ stored = {}
  BY DEF Init, Idle
<1> QED BY <1>1 DEF CreditInv, Observed, Unsaid

LEMMA ToldIs ==
  ASSUME WindowInv
  PROVE  /\ Len(Told) = Cardinality(Retained) /\ Cardinality(Retained) \in Nat
         /\ \A k \in 1 .. Cardinality(Retained) : Told[k] = moves[Ordered(Retained)[k]]
         /\ Rows(Retained) = Told
         /\ IsRest(Reverse(hook.rows), Retained)
<1>1. stored \subseteq Nat /\ IsFiniteSet(stored)
  BY StoredFacts DEF WindowInv
<1>2. Retained = Past(hook.rows, hook.cut, stored)
  BY DEF Retained, Past
<1>3. /\ Retained \subseteq Nat /\ IsFiniteSet(Retained)
      /\ IsRest(Reverse(hook.rows), Retained)
  <2>1. hook.cut \in Nat /\ IsWindow(hook.rows, hook.cut, stored)
    BY DEF WindowInv
  <2> QED BY <1>1, <1>2, <2>1, RetainedAre
<1>4. Cardinality(Retained) \in Nat
  BY <1>3, FS_CardinalityType
<1>5. Rows(Retained) = Told
  BY <1>3, RowsAre DEF Told
<1> DEFINE N == Cardinality(Retained)
<1>6. Told = [k \in 1 .. N |-> moves[Ordered(Retained)[k]]]
  BY DEF Told, History
<1> HIDE DEF N
<1>7. Len(Told) = N /\ \A k \in 1 .. N : Told[k] = moves[Ordered(Retained)[k]]
  BY <1>4, <1>6 DEF N
<1> QED BY <1>3, <1>4, <1>5, <1>7 DEF N

\* The history that is there does not change once the window is closed.
LEMMA CreditKept ==
  ASSUME CreditInv, UNCHANGED <<config, moves, stored>>,
         /\ hook'.rows = hook.rows /\ hook'.left = hook.left /\ hook'.cut = hook.cut
         /\ hook'.lineage = hook.lineage /\ hook'.tree = hook.tree /\ hook'.commit = hook.commit
         /\ hook'.pc = hook.pc
  PROVE  CreditInv'
<1>1. Retained' = Retained
  BY DEF Retained
<1>2. Told' = Told
  BY <1>1 DEF Told
<1>3. \A k : KnownAfter(k)' = KnownAfter(k)
  BY <1>2 DEF KnownAfter
<1> QED BY <1>1, <1>2, <1>3 DEF CreditInv, Observed

\* While nothing has been said, only the window and the database count.
LEMMA CreditUnsaid ==
  ASSUME CreditInv, hook.pc \notin {"replay", "done"}, hook'.lineage = hook.lineage,
         hook'.pc \in {"idle", "cut", "page", "done"},
         \A r \in stored' : moves'[r].origin # "unobserved",
         Observed(hook.rows)'
  PROVE  CreditInv'
<1>1. Unsaid(hook.lineage)
  BY DEF CreditInv
<1>2. Unsaid(hook'.lineage)
  BY <1>1
<1>3. Agree(hook.lineage, Reference(Told, hook.commit, config))'
  BY <1>2, UnsaidAgrees
<1> QED BY <1>2, <1>3 DEF CreditInv

LEMMA CreditClosed ==
  ASSUME CreditInv, WindowInv, WindowInv', hook.pc = "page", NEW rows, hook' = Close(rows),
         Observed(rows), UNCHANGED <<config, moves, stored>>
  PROVE  CreditInv'
<1>1. /\ hook'.rows = rows /\ hook'.left = Reverse(rows)
      /\ hook'.pc = (IF rows = <<>> THEN "done" ELSE "baseline")
      /\ hook'.lineage = hook.lineage
  BY DEF WindowInv, Close, IsHook, HookFields
<1>2. /\ \A r \in stored' : moves'[r].origin # "unobserved"
      /\ Observed(hook.rows)'
  BY <1>1 DEF CreditInv, Observed
<1>3. CASE rows = <<>>
  BY <1>1, <1>2, <1>3, CreditUnsaid
<1>4. CASE rows # <<>>
  <2>1. Unsaid(hook'.lineage)
    BY <1>1 DEF CreditInv
  <2>2. IsRest(hook.left, Retained)'
    <3>1. stored' \subseteq Nat /\ IsFiniteSet(stored')
      BY StoredFacts DEF WindowInv
    <3>2. Retained' = Past(hook'.rows, hook'.cut, stored')
      BY DEF Retained, Past
    <3>3. hook'.cut \in Nat /\ IsWindow(hook'.rows, hook'.cut, stored')
      BY DEF WindowInv
    <3>4. IsRest(Reverse(hook'.rows), Retained')
      BY <3>1, <3>2, <3>3, RetainedAre
    <3> QED BY <1>1, <3>4
  <2>3. Observed(hook.left)'
    <3>1. rows \in Seq(Nat) /\ Len(rows) \in Nat
      BY <1>1 DEF WindowInv, IsWindow
    <3> DEFINE left == Reverse(rows)
    <3>2. left = [i \in 1 .. Len(rows) |-> rows[(Len(rows) - i) + 1]]
      BY DEF Reverse
    <3>3. Len(left) = Len(rows)
      BY <3>1, <3>2
    <3>4. \A i \in 1 .. Len(rows) : (Len(rows) - i) + 1 \in 1 .. Len(rows)
      BY <3>1
    <3> HIDE DEF left
    <3>5. Observed(left)
      BY <3>2, <3>3, <3>4 DEF Observed
    <3> QED BY <1>1, <3>5 DEF Observed, left
  <2> QED BY <1>1, <1>2, <1>4, <2>1, <2>2, <2>3 DEF CreditInv
<1> QED BY <1>3, <1>4

\* One event more is replayed, and told.
LEMMA CreditReplays ==
  ASSUME NoHeaders, CreditInv, WindowInv, LineageInv, hook.pc = "replay", hook.left # <<>>,
         NEW row, row = moves[Head(hook.left)], NEW unread, NEW broken \in BOOLEAN,
         NEW then, then = ApplyOrReset(AcrossGap(row, unread), row.before, row.after,
                                       TransitionOrigin(row), unread, broken)
  PROVE  /\ IsRest(Tail(hook.left), Retained) /\ Observed(Tail(hook.left))
         /\ LET reached == KnownAfter(Cardinality(Retained) - Len(Tail(hook.left)))
            IN reached.tree = row.after /\ Agree(then, reached.lines)
<1> DEFINE N == Cardinality(Retained)
           left == hook.left
           rest == Tail(left)
           k == N - Len(rest)
<1>1. /\ N \in Nat /\ Len(Told) = N /\ \A i \in 1 .. N : Told[i] = moves[Ordered(Retained)[i]]
  BY ToldIs
<1>2. left \in Seq(Nat) /\ Len(left) \in Nat /\ Len(left) > 0
  BY DEF LineageInv
<1>3. /\ Len(rest) = Len(left) - 1 /\ Head(left) = left[1]
      /\ \A i \in 1 .. Len(rest) : rest[i] = left[i + 1]
  BY <1>2, HeadTailProperties
<1>4. /\ Len(left) <= N
      /\ \A i \in 1 .. Len(left) : Ordered(Retained)[N - Len(left) + i] = left[i]
      /\ \A i \in 1 .. Len(left) : moves[left[i]].origin # "unobserved"
  BY DEF CreditInv, IsRest, Observed
<1> HIDE DEF N, left, rest
<1>5. IsRest(rest, Retained)
  <2>1. \A i \in 1 .. Len(rest) : i + 1 \in 1 .. Len(left) /\ N - Len(left) + (i + 1) = N - Len(rest) + i
    BY <1>1, <1>2, <1>3
  <2>2. \A i \in 1 .. Len(rest) : Ordered(Retained)[N - Len(rest) + i] = rest[i]
    BY <1>3, <1>4, <2>1
  <2>3. Len(rest) <= N
    BY <1>1, <1>2, <1>3, <1>4
  <2> QED BY <2>2, <2>3 DEF IsRest, N
<1>6. Observed(rest)
  <2>1. \A i \in 1 .. Len(rest) : i + 1 \in 1 .. Len(left)
    BY <1>2, <1>3
  <2> QED BY <1>3, <1>4, <2>1 DEF Observed
<1>7. k \in 1 .. N /\ k - 1 = N - Len(left) /\ k = N - Len(left) + 1 /\ 1 \in 1 .. Len(left)
  BY <1>1, <1>2, <1>3, <1>4
<1>8. Told[k] = row
  <2>1. Ordered(Retained)[N - Len(left) + 1] = left[1]
    BY <1>4, <1>7
  <2>2. k = N - Len(left) + 1 /\ k \in 1 .. N
    BY <1>7
  <2> HIDE DEF k
  <2>3. Told[k] = moves[Ordered(Retained)[k]]
    BY <1>1, <2>2
  <2>4. Ordered(Retained)[k] = Head(left)
    BY <1>3, <2>1, <2>2
  <2> QED BY <2>3, <2>4 DEF left
<1>9. row \in Row /\ row.origin # "unobserved"
  <2>1. left[1] \in 1 .. Len(moves) /\ moves \in Seq(Row)
    BY <1>7 DEF LineageInv, WindowInv, left
  <2>2. moves[left[1]] \in Row
    BY <2>1
  <2> QED BY <1>3, <1>4, <1>7, <2>2 DEF left
<1>10. /\ row.before \in Trees /\ row.after \in Trees /\ row.origin \in Origins
       /\ TransitionOrigin(row) = row.origin
  BY <1>9 DEF Row, Origins, TransitionOrigin
<1> DEFINE was == KnownAfter(k - 1)
           mid == CarryTo(was, row.before, "unobserved", config)
           from == AcrossGap(row, unread)
<1> HIDE DEF k
<1>11. KnownAfter(k) = CarryTo(mid, row.after, row.origin, config)
  <2>1. Known(Told, k, config)
          = CarryTo(CarryTo(Known(Told, k - 1, config), Told[k].before, "unobserved", config),
                    Told[k].after, Told[k].origin, config)
    BY <1>1, <1>7, KnownIs
  <2> QED BY <1>8, <2>1, Zenon DEF KnownAfter
<1>12. mid.tree = row.before /\ mid.lines = Carry(was.lines, was.tree, row.before, "unobserved", config)
  BY DEF CarryTo
<1>13. /\ KnownAfter(k).tree = row.after
       /\ KnownAfter(k).lines = Carry(mid.lines, row.before, row.after, row.origin, config)
  <2> HIDE DEF mid
  <2> QED BY <1>11, <1>12 DEF CarryTo
<1>14. \/ Unsaid(hook.lineage)
       \/ was.tree = hook.tree /\ Agree(hook.lineage, was.lines)
  BY <1>7 DEF CreditInv, N, left
<1> HIDE DEF was, mid
<1>15. config \in Configs /\ IsConfig(config) /\ hook.paths \subseteq Paths
  BY ConfigsAreFlags DEF LineageInv, IsConfig
<1>16. Following(from, row.before) /\ Agree(from, mid.lines)
  <2>1. CASE row.before = hook.tree
    <3>1. from = hook.lineage
      BY <2>1 DEF AcrossGap
    <3>2. Following(hook.lineage, row.before)
      BY <2>1 DEF LineageInv
    <3>3. CASE Unsaid(hook.lineage)
      BY <3>1, <3>2, <3>3, UnsaidAgrees
    <3>4. CASE was.tree = hook.tree /\ Agree(hook.lineage, was.lines)
      <4>1. IsTree(row.before)
        BY <1>10, TreesAreTyped
      <4>2. Agree(hook.lineage, Carry(was.lines, row.before, row.before, "unobserved", config))
        BY <1>15, <3>2, <3>4, <4>1, CarrySame
      <4> QED BY <1>12, <2>1, <3>1, <3>2, <3>4, <4>2
    <3> HIDE DEF from
    <3> QED BY <1>14, <3>3, <3>4
  <2>2. CASE row.before # hook.tree
    <3>1. from = Baseline(row.before, unread)
      BY <2>2 DEF AcrossGap
    <3> HIDE DEF from
    <3>2. Following(from, row.before) /\ Unsaid(from)
      BY <1>10, <1>15, <3>1, BaselineFollows, BaselineUnsaid
    <3> QED BY <3>2, UnsaidAgrees
  <2> HIDE DEF from
  <2> QED BY <2>1, <2>2
<1>17. then = ApplyOrReset(from, row.before, row.after, row.origin, unread, broken)
  BY <1>10
<1> HIDE DEF from
<1>18. Agree(then, Carry(mid.lines, row.before, row.after, row.origin, config))
  BY <1>10, <1>15, <1>16, <1>17, ReplayAgrees
<1>19. k = Cardinality(Retained) - Len(Tail(hook.left))
  BY DEF k, N, rest, left
<1> QED BY <1>5, <1>6, <1>13, <1>18, <1>19 DEF rest, left

\* The way from the last event to the commit is told as well.
LEMMA CreditEnds ==
  ASSUME NoHeaders, CreditInv, WindowInv, LineageInv, hook.pc = "replay", hook.left = <<>>,
         NEW unread, NEW broken \in BOOLEAN, NEW then,
         then = IF hook.tree = hook.commit THEN hook.lineage
                ELSE ApplyOrReset(hook.lineage, hook.tree, hook.commit, "unobserved", unread, broken)
  PROVE  Agree(then, Reference(Told, hook.commit, config))
<1> DEFINE N == Cardinality(Retained)
           was == KnownAfter(N)
           carried == Carry(was.lines, hook.tree, hook.commit, "unobserved", config)
<1>1. N \in Nat /\ Len(Told) = N
  BY ToldIs
<1>2. N - Len(hook.left) = N
  BY <1>1
<1>3. was.tree = hook.tree /\ Agree(hook.lineage, was.lines)
  BY <1>2 DEF CreditInv
<1>4. Reference(Told, hook.commit, config) = CarryTo(was, hook.commit, "unobserved", config).lines
  <2>1. Reference(Told, hook.commit, config)
          = CarryTo(Known(Told, Len(Told), config), hook.commit, "unobserved", config).lines
    <3>1. Len(Told) \in Nat
      BY <1>1
    <3> QED BY <3>1, KnownIs
  <2> QED BY <1>1, <2>1, Zenon DEF KnownAfter
<1> HIDE DEF was
<1>5. Reference(Told, hook.commit, config) = carried
  <2>1. CarryTo(was, hook.commit, "unobserved", config).lines
          = Carry(was.lines, was.tree, hook.commit, "unobserved", config)
    BY DEF CarryTo
  <2> QED BY <1>3, <1>4, <2>1
<1>6. /\ config \in Configs /\ IsConfig(config) /\ hook.paths \subseteq Paths
      /\ hook.tree \in Trees /\ hook.commit \in Trees /\ Following(hook.lineage, hook.tree)
  BY ConfigsAreFlags DEF LineageInv, IsConfig
<1>7. CASE hook.tree = hook.commit
  <2>1. IsTree(hook.tree)
    BY <1>6, TreesAreTyped
  <2>2. Agree(hook.lineage, Carry(was.lines, hook.tree, hook.tree, "unobserved", config))
    BY <1>3, <1>6, <2>1, CarrySame
  <2> QED BY <1>5, <1>7, <2>2
<1>8. CASE hook.tree # hook.commit
  <2>1. then = ApplyOrReset(hook.lineage, hook.tree, hook.commit, "unobserved", unread, broken)
    BY <1>8
  <2>2. "unobserved" \in Origins
    BY DEF Origins
  <2>3. Agree(then, carried)
    BY <1>3, <1>6, <2>1, <2>2, ReplayAgrees
  <2> QED BY <1>5, <2>3
<1> QED BY <1>7, <1>8

\* A page has events that are stored, and those were observed.
LEMMA PageObserved ==
  ASSUME CreditInv, WindowInv, hook.pc = "page", NEW rows,
         rows = hook.rows \o Page(hook.below, Min({PageSize, MaxEvents - Len(hook.rows)}))
  PROVE  Observed(rows)
<1> DEFINE old == hook.rows
           want == Min({PageSize, MaxEvents - Len(old)})
           page == Page(hook.below, want)
<1>1. /\ moves \in Seq(Row) /\ stored \subseteq 1 .. Len(moves) /\ hook.cut \in Nat
      /\ old \in Seq(Nat) /\ Len(old) \in Nat /\ Len(old) < MaxEvents
      /\ hook.below = Bottom(old, hook.cut)
  BY DEF WindowInv, IsWindow
<1>2. want \in Nat \ {0}
  <2>1. MaxEvents - Len(old) \in Nat \ {0} /\ PageSize \in Nat \ {0}
    BY <1>1, PagesArePositive
  <2>2. want = IF PageSize <= MaxEvents - Len(old) THEN PageSize ELSE MaxEvents - Len(old)
    BY <2>1, LesserOfTwo
  <2> QED BY <2>1, <2>2
<1>3. stored \subseteq Nat /\ IsFiniteSet(stored)
  BY <1>1, StoredFacts
<1>4. hook.below \in Int
  BY <1>1 DEF Bottom
<1> HIDE DEF old, want
<1>5. IsPage(page, stored, hook.below, want)
  BY <1>2, <1>3, <1>4, PageFacts
<1>6. rows = old \o page
  BY DEF old, want
<1> HIDE DEF page
<1>7. page \in Seq(Nat) /\ Len(page) \in Nat /\ \A i \in 1 .. Len(page) : page[i] \in stored
  BY <1>5 DEF IsPage
<1>8. ASSUME NEW i \in 1 .. Len(rows)
      PROVE  moves[rows[i]].origin # "unobserved"
  <2>1. /\ Len(rows) = Len(old) + Len(page)
        /\ rows[i] = IF i <= Len(old) THEN old[i] ELSE page[i - Len(old)]
    <3>1. /\ Len(old \o page) = Len(old) + Len(page)
          /\ \A k \in 1 .. Len(old) + Len(page) :
               (old \o page)[k] = IF k <= Len(old) THEN old[k] ELSE page[k - Len(old)]
      BY <1>1, <1>7, ConcatProperties
    <3>2. i \in 1 .. Len(old) + Len(page)
      BY <1>6, <3>1
    <3> QED BY <1>6, <3>1, <3>2
  <2>2. i <= Len(old) => i \in 1 .. Len(old)
    BY <1>1
  <2>3. ~(i <= Len(old)) => i - Len(old) \in 1 .. Len(page)
    <3>1. Len(old) \in Nat /\ Len(page) \in Nat /\ i \in 1 .. Len(old) + Len(page)
      BY <1>1, <1>7, <2>1
    <3> QED BY <3>1
  <2> QED BY <1>7, <2>1, <2>2, <2>3 DEF CreditInv, Observed, old
<1> QED BY <1>8 DEF Observed

LEMMA CreditStep ==
  ASSUME NoHeaders, CreditInv, LineageInv, WindowInv, WindowInv', [Next]_vars
  PROVE  CreditInv'
<1> USE DEF Phases
<1>1. /\ IsHook(hook) /\ Len(moves) \in Nat /\ moves \in Seq(Row) /\ stored \subseteq 1 .. Len(moves)
      /\ \A i \in 1 .. Len(hook.rows) : hook.rows[i] \in 1 .. Len(moves)
  <2>1. /\ hook.rows \in Seq(Nat) /\ hook.cut \in Nat /\ hook.cut <= Len(moves)
        /\ \A i \in 1 .. Len(hook.rows) : hook.rows[i] <= hook.cut /\ hook.rows[i] >= 1
        /\ moves \in Seq(Row)
    BY DEF WindowInv, IsWindow
  <2>2. \A i \in 1 .. Len(hook.rows) : hook.rows[i] \in Nat
    BY <2>1
  <2> QED BY <2>1, <2>2 DEF WindowInv
<1>2. CASE Boundary
  <2>1. PICK t \in Trees \ {cursor}, origin \in Origins :
          /\ moves' = Append(moves, [before |-> cursor, after |-> t, origin |-> origin])
          /\ stored' = IF origin = "unobserved" THEN stored ELSE stored \cup {Len(moves')}
    BY <1>2 DEF Boundary
  <2> DEFINE row == [before |-> cursor, after |-> t, origin |-> origin]
  <2>2. row \in Row /\ row.origin = origin
    BY DEF Row, WindowInv
  <2> HIDE DEF row
  <2>3. /\ Len(moves') = Len(moves) + 1 /\ moves'[Len(moves')] = row
        /\ \A r \in 1 .. Len(moves) : moves'[r] = moves[r]
    BY <1>1, <2>1, <2>2 DEF row
  <2>4. \A r \in stored' : moves'[r].origin # "unobserved"
    <3> TAKE r \in stored'
    <3>1. CASE r \in stored
      BY <1>1, <2>3, <3>1 DEF CreditInv
    <3>2. CASE r \notin stored
      BY <2>1, <2>2, <2>3, <3>2
    <3> QED BY <3>1, <3>2
  <2>5. hook' = hook /\ hook.pc \in {"idle", "cut", "page"}
    BY <1>2 DEF Boundary
  <2>6. Observed(hook.rows)'
    BY <1>1, <2>3, <2>5 DEF CreditInv, Observed
  <2> QED BY <2>4, <2>5, <2>6, CreditUnsaid
<1>3. CASE LoseTree
  <2>1. UNCHANGED <<config, moves, stored>> /\ hook' = hook
    BY <1>3 DEF LoseTree
  <2> QED BY <2>1, CreditKept
<1>4. CASE Prune
  <2>1. /\ UNCHANGED <<config, moves>> /\ hook' = hook /\ stored' \subseteq stored
        /\ hook.pc \in {"idle", "cut", "page"}
    BY <1>4 DEF Prune
  <2>2. (\A r \in stored' : moves'[r].origin # "unobserved") /\ Observed(hook.rows)'
    BY <2>1 DEF CreditInv, Observed
  <2> QED BY <2>1, <2>2, CreditUnsaid
<1>5. CASE Commit \/ CaptureRevisionCut \/ CutFails
  <2>1. /\ hook'.rows = hook.rows /\ hook'.lineage = hook.lineage
        /\ hook'.pc \in {"cut", "page", "done"} /\ hook.pc \in {"idle", "cut"}
    <3>1. CASE Commit
      <4>1. PICK t \in Trees, paths \in Targets :
              hook' = [hook EXCEPT !.pc = "cut", !.commit = t, !.paths = paths]
        BY <3>1 DEF Commit
      <4>2. hook.pc = "idle"
        BY <3>1 DEF Commit
      <4> QED BY <1>1, <4>1, <4>2 DEF IsHook, HookFields
    <3>2. CASE CaptureRevisionCut
      BY <1>1, <3>2 DEF CaptureRevisionCut, IsHook, HookFields
    <3>3. CASE CutFails
      BY <1>1, <3>3 DEF CutFails, IsHook, HookFields
    <3> QED BY <1>5, <3>1, <3>2, <3>3
  <2>2. UNCHANGED <<config, moves, stored>>
    BY <1>5 DEF Commit, CaptureRevisionCut, CutFails, Unchanged
  <2>3. (\A r \in stored' : moves'[r].origin # "unobserved") /\ Observed(hook.rows)'
    BY <2>1, <2>2 DEF CreditInv, Observed
  <2> QED BY <2>1, <2>3, CreditUnsaid
<1>6. CASE LoadPage
  <2> DEFINE want == Min({PageSize, MaxEvents - Len(hook.rows)})
             page == Page(hook.below, want)
             rows == hook.rows \o page
  <2>1. \/ hook' = Close(rows)
        \/ hook' = [hook EXCEPT !.rows = rows, !.below = NextBelow(page)]
    BY <1>6 DEF LoadPage
  <2>2. hook.pc = "page" /\ UNCHANGED <<config, moves, stored>>
    BY <1>6 DEF LoadPage, Unchanged
  <2>3. Observed(rows)
    BY <2>2, PageObserved
  <2> HIDE DEF rows, page
  <2>4. CASE hook' = Close(rows)
    BY <2>2, <2>3, <2>4, CreditClosed
  <2>5. CASE hook' = [hook EXCEPT !.rows = rows, !.below = NextBelow(page)]
    <3>1. hook'.rows = rows /\ hook'.lineage = hook.lineage /\ hook'.pc = "page"
      BY <1>1, <2>2, <2>5 DEF IsHook, HookFields
    <3>2. (\A r \in stored' : moves'[r].origin # "unobserved") /\ Observed(hook.rows)'
      BY <2>2, <2>3, <3>1 DEF CreditInv, Observed
    <3> QED BY <2>2, <3>1, <3>2, CreditUnsaid
  <2> QED BY <2>1, <2>4, <2>5
<1>7. CASE LoadPageFails
  <2>1. hook.pc = "page" /\ hook' = Close(hook.rows) /\ UNCHANGED <<config, moves, stored>>
    BY <1>7 DEF LoadPageFails, Unchanged
  <2>2. Observed(hook.rows)
    BY DEF CreditInv
  <2> QED BY <2>1, <2>2, CreditClosed
<1>8. CASE LoadBaseline
  <2> DEFINE tree == moves[Head(hook.left)].before
  <2>1. PICK unread \in SUBSET hook.paths :
          hook' = [hook EXCEPT !.pc = "replay", !.tree = tree, !.lineage = Baseline(tree, unread)]
    BY <1>8 DEF LoadBaseline
  <2>2. hook.pc = "baseline" /\ UNCHANGED <<config, moves, stored>>
    BY <1>8 DEF LoadBaseline, Unchanged
  <2>3. hook.left # <<>> /\ tree \in Trees /\ hook.paths \subseteq Paths
    <3>1. hook.left # <<>> /\ hook.left \in Seq(Nat) /\ hook.paths \subseteq Paths
      BY <2>2 DEF LineageInv
    <3>2. 1 \in 1 .. Len(hook.left) /\ Head(hook.left) = hook.left[1]
      BY <3>1
    <3>3. moves[Head(hook.left)] \in Row
      BY <1>1, <3>2 DEF LineageInv
    <3> QED BY <3>1, <3>3 DEF Row
  <2> HIDE DEF tree
  <2>4. Unsaid(Baseline(tree, unread))
    BY <2>3, BaselineUnsaid
  <2>5. /\ hook'.rows = hook.rows /\ hook'.left = hook.left /\ hook'.cut = hook.cut
        /\ hook'.lineage = Baseline(tree, unread) /\ hook'.pc = "replay"
    BY <1>1, <2>1 DEF IsHook, HookFields
  <2>6. Retained' = Retained
    BY <2>2, <2>5 DEF Retained
  <2> QED BY <2>2, <2>3, <2>4, <2>5, <2>6 DEF CreditInv, Observed
<1>9. CASE ReplayEvent
  <2> DEFINE row == moves[Head(hook.left)]
  <2>1. PICK unread \in SUBSET hook.paths, broken \in BOOLEAN :
          hook' = [hook EXCEPT !.left = Tail(@), !.tree = row.after,
                     !.lineage = ApplyOrReset(AcrossGap(row, unread), row.before, row.after,
                                              TransitionOrigin(row), unread, broken)]
    BY <1>9 DEF ReplayEvent
  <2>2. hook.pc = "replay" /\ hook.left # <<>> /\ UNCHANGED <<config, moves, stored>>
    BY <1>9 DEF ReplayEvent, Unchanged
  <2> DEFINE then == ApplyOrReset(AcrossGap(row, unread), row.before, row.after,
                                  TransitionOrigin(row), unread, broken)
  <2>3. /\ hook'.rows = hook.rows /\ hook'.left = Tail(hook.left) /\ hook'.cut = hook.cut
        /\ hook'.tree = row.after /\ hook'.lineage = then /\ hook'.pc = "replay"
    <3> HIDE DEF row
    <3> QED BY <1>1, <2>1, <2>2 DEF IsHook, HookFields
  <2>4. row = moves[Head(hook.left)]
    OBVIOUS
  <2>5. then = ApplyOrReset(AcrossGap(row, unread), row.before, row.after,
                            TransitionOrigin(row), unread, broken)
    OBVIOUS
  <2> HIDE DEF row, then
  <2>6. /\ IsRest(Tail(hook.left), Retained) /\ Observed(Tail(hook.left))
        /\ LET reached == KnownAfter(Cardinality(Retained) - Len(Tail(hook.left)))
           IN reached.tree = row.after /\ Agree(then, reached.lines)
    BY <2>2, <2>4, <2>5, CreditReplays
  <2>7. Retained' = Retained
    BY <2>2, <2>3 DEF Retained
  <2>8. Told' = Told
    BY <2>2, <2>7 DEF Told
  <2>9. \A k : KnownAfter(k)' = KnownAfter(k)
    BY <2>2, <2>8 DEF KnownAfter
  <2>10. Observed(hook.rows)' /\ Observed(hook.left)'
    BY <2>2, <2>3, <2>6 DEF CreditInv, Observed
  <2> QED BY <2>2, <2>3, <2>6, <2>7, <2>9, <2>10 DEF CreditInv
<1>10. CASE ReplayTail
  <2>1. PICK unread \in SUBSET hook.paths, broken \in BOOLEAN :
          hook' = [hook EXCEPT !.pc = "done", !.tree = hook.commit,
                     !.lineage = IF hook.tree = hook.commit THEN @
                                 ELSE ApplyOrReset(@, hook.tree, hook.commit,
                                                   TailOrigin(hook.rows), unread, broken)]
    BY <1>10 DEF ReplayTail
  <2>2. hook.pc = "replay" /\ hook.left = <<>> /\ UNCHANGED <<config, moves, stored>>
    BY <1>10 DEF ReplayTail, Unchanged
  <2> DEFINE then == IF hook.tree = hook.commit THEN hook.lineage
                     ELSE ApplyOrReset(hook.lineage, hook.tree, hook.commit,
                                       "unobserved", unread, broken)
  <2>3. /\ hook'.rows = hook.rows /\ hook'.cut = hook.cut /\ hook'.commit = hook.commit
        /\ hook'.lineage = then /\ hook'.pc = "done"
    BY <1>1, <2>1 DEF IsHook, HookFields, TailOrigin
  <2>4. then = IF hook.tree = hook.commit THEN hook.lineage
               ELSE ApplyOrReset(hook.lineage, hook.tree, hook.commit, "unobserved", unread, broken)
    OBVIOUS
  <2> HIDE DEF then
  <2>5. Agree(then, Reference(Told, hook.commit, config))
    BY <2>2, <2>4, CreditEnds
  <2>6. Retained' = Retained
    BY <2>2, <2>3 DEF Retained
  <2>7. Told' = Told
    BY <2>2, <2>6 DEF Told
  <2>8. Agree(hook.lineage, Reference(Told, hook.commit, config))'
    BY <2>2, <2>3, <2>5, <2>7
  <2>9. Observed(hook.rows)'
    BY <2>2, <2>3 DEF CreditInv, Observed
  <2> QED BY <2>2, <2>3, <2>8, <2>9 DEF CreditInv
<1>11. CASE UNCHANGED vars
  BY <1>11, CreditKept DEF vars
<1> QED BY <1>2, <1>3, <1>4, <1>5, <1>6, <1>7, <1>8, <1>9, <1>10, <1>11 DEF Next

\* A line that is given to an agent, or to nobody, was written so according to all of the
\* history that is there, whatever was lost, pruned, not read or not loaded: a fault may
\* cost credit and makes none (resolve_bounded_mutation_attribution).
THEOREM CreditAlwaysEarned ==
  ASSUME NoHeaders
  PROVE  Spec => []CreditIsEarned
<1>1. WindowInv /\ LineageInv /\ CreditInv => CreditIsEarned
  <2> DEFINE known == {pn \in CommittedLines : Verdict(pn[1], pn[2]) # "unknown"}
  <2> SUFFICES ASSUME WindowInv, LineageInv, CreditInv, hook.pc = "done", NEW pn \in known
               PROVE  Reference(Rows(Retained), hook.commit, config)[pn[1]][pn[2]]
                        = Verdict(pn[1], pn[2])
    BY Zenon DEF CreditIsEarned
  <2> DEFINE p == pn[1]
             n == pn[2]
             lineage == hook.lineage
             written == Reference(Rows(Retained), hook.commit, config)
  <2>1. Verdict(p, n) # "unknown"
    BY Zenon
  <2>2. n \in DOMAIN FileAt(lineage, p) /\ Verdict(p, n) = lineage[p][n].provenance
    BY <2>1 DEF Verdict, ProvenanceAt
  <2>3. Agree(lineage, written)
    BY ToldIs DEF CreditInv
  <2> HIDE DEF p, n, written, lineage
  <2>4. p \in DOMAIN lineage /\ n \in DOMAIN lineage[p]
    BY <2>2 DEF FileAt
  <2>5. n \in 1 .. Len(lineage[p])
    <3>1. Follow(lineage[p], FileAt(hook.tree, p))
      BY <2>4 DEF LineageInv, Following, lineage
    <3>2. lineage[p] \in Seq(Line)
      BY <3>1 DEF Follow
    <3> HIDE DEF Line
    <3> QED BY <2>4, <3>2
  <2>6. lineage[p][n].provenance \in {"unknown", written[p][n]}
    BY <2>3, <2>4, <2>5 DEF Agree
  <2>7. written[p][n] = Verdict(p, n)
    BY <2>1, <2>2, <2>6
  <2> QED BY <2>7 DEF written, p, n
<1>2. Init => WindowInv /\ LineageInv /\ CreditInv
  BY InitWindow, InitLineage, InitCredit
<1>3. (WindowInv /\ LineageInv /\ CreditInv) /\ [Next]_vars => (WindowInv /\ LineageInv /\ CreditInv)'
  BY WindowStep, LineageStep, CreditStep
<1> QED BY <1>1, <1>2, <1>3, PTL DEF Spec

-----------------------------------------------------------------------------
(* A removed line stays dead.                                              *)

LineOf(line, files) ==
  \E p \in DOMAIN files : \E i \in 1 .. Len(files[p]) : line = files[p][i]

\* A patch makes no line but those that it adds.
LEMMA LinesComeFrom ==
  ASSUME NEW before, IsTree(before), NEW after, IsTree(after), NEW c, IsConfig(c),
         NEW origin \in Origins, NEW files, Following(files, before), NEW res,
         IsPatched(res, files, before, after, ChangedPaths(before, after, c), origin),
         NEW q \in DOMAIN res, NEW n \in 1 .. Len(res[q])
  PROVE  LineOf(res[q][n], files) \/ res[q][n].provenance = AddedProvenance(origin)
<1> DEFINE all == ChangedPaths(before, after, c)
<1>1. Following(res, after)
  BY ApplyFollows
<1>2. q \in DOMAIN after /\ n \in 1 .. Len(after[q])
  BY <1>1, FollowedLine
<1>3. FileAt(after, q) = after[q] /\ after[q] \in Text
  BY <1>2 DEF FileAt, IsTree
<1>4. PathMade(q, res[q], files, before, after, all, origin)
  BY DEF IsPatched
<1>5. CASE q \in DOMAIN files /\ res[q] = files[q]
  BY <1>5 DEF LineOf
<1>6. ASSUME NEW pq \in all, pq[2] = q,
             IsMade(res[q], Tracked(files, pq[1], pq[2]), FileAt(before, pq[1]),
                    FileAt(after, pq[2]), origin)
      PROVE  LineOf(res[q][n], files) \/ res[q][n].provenance = AddedProvenance(origin)
  <2> DEFINE p == pq[1]
             old == FileAt(before, p)
             new == after[q]
             tracked == Tracked(files, p, q)
  <2>1. IsCarried(res[q], Len(res[q]), tracked, old, new, origin)
    BY <1>3, <1>6 DEF IsMade
  <2>2. old \in Text /\ new \in Text
    BY <1>3, FilesAreTexts
  <2> HIDE DEF p, old, new, tracked
  <2>3. /\ res[q][n] = CarriedLine(tracked, old, new, origin, n)
        /\ \A i : Joins(Kept(old, new), i, n) => i <= Len(tracked)
    BY <2>1 DEF IsCarried
  <2>4. CASE \A i : ~Joins(Kept(old, new), i, n)
    <3>1. res[q][n] = [content |-> new[n], provenance |-> AddedProvenance(origin)]
      BY <2>2, <2>3, <2>4, CarriedLineIs
    <3> QED BY <3>1
  <2>5. ASSUME NEW i, Joins(Kept(old, new), i, n)
        PROVE  LineOf(res[q][n], files)
    <3>1. res[q][n] = tracked[i] /\ i <= Len(tracked)
      BY <2>2, <2>3, <2>5, CarriedLineIs
    <3>2. i \in 1 .. Len(old)
      <4>1. IsAlignment(Kept(old, new), old, new)
        BY <2>2, KeptFacts DEF IsKept
      <4> QED BY <2>2, <2>5, <4>1, AlignmentFacts
    <3>3. CASE p \in DOMAIN files \/ q \in DOMAIN files
      <4>1. PICK r \in DOMAIN files : tracked = files[r]
        BY <3>3 DEF tracked, Tracked, FileAt
      <4>2. Len(files[r]) \in Nat
        <5>1. Follow(files[r], FileAt(before, r))
          BY <4>1 DEF Following
        <5> HIDE DEF Line
        <5> QED BY <5>1 DEF Follow
      <4>3. i \in 1 .. Len(files[r])
        BY <2>2, <3>1, <3>2, <4>1, <4>2
      <4> QED BY <3>1, <4>1, <4>3 DEF LineOf
    <3>4. CASE p \notin DOMAIN files /\ q \notin DOMAIN files
      <4>1. tracked = <<>>
        BY <3>4 DEF tracked, Tracked, FileAt
      <4> QED BY <3>1, <3>2, <4>1
    <3> QED BY <3>3, <3>4
  <2> QED BY <2>4, <2>5
<1> HIDE DEF all
<1> QED BY <1>4, <1>5, <1>6 DEF PathMade

LEMMA ReplayedLines ==
  ASSUME NoHeaders, config \in Configs, hook.paths \subseteq Paths,
         NEW before \in Trees, NEW after \in Trees, NEW origin \in Origins,
         NEW lineage, Following(lineage, before), NEW unread, NEW broken \in BOOLEAN,
         NEW then, then = ApplyOrReset(lineage, before, after, origin, unread, broken),
         NEW q \in DOMAIN then, NEW n \in 1 .. Len(then[q]), then[q][n].provenance \in Scopes
  PROVE  LineOf(then[q][n], lineage) \/ then[q][n].provenance = origin
<1> DEFINE applied == Apply(lineage, DiffTrees[config][<<before, after>>], origin)
<1>1. DiffTrees[config][<<before, after>>] = Diff(before, after, config)
  BY DEF DiffTrees
<1>2. IsConfig(config)
  BY ConfigsAreFlags DEF IsConfig
<1>3. IsTree(before) /\ IsTree(after)
  BY TreesAreTyped
<1>4. \/ then = Baseline(after, unread)
      \/ then = applied.files /\ applied.ok
  BY DEF ApplyOrReset
<1>5. applied = Apply(lineage, Diff(before, after, config), origin)
  BY <1>1
<1> HIDE DEF applied
<1>6. CASE then = Baseline(after, unread)
  <2>1. Unsaid(then)
    BY <1>6, BaselineUnsaid
  <2>2. then[q][n].provenance = "unknown"
    BY <2>1 DEF Unsaid
  <2> QED BY <2>2, ScopesAreNames
<1>7. CASE then = applied.files /\ applied.ok
  <2>1. IsPatched(then, lineage, before, after, ChangedPaths(before, after, config), origin)
    BY <1>2, <1>3, <1>5, <1>7, ApplyMade
  <2>2. LineOf(then[q][n], lineage) \/ then[q][n].provenance = AddedProvenance(origin)
    BY <1>2, <1>3, <2>1, LinesComeFrom
  <2>3. AddedProvenance(origin) \in Scopes => AddedProvenance(origin) = origin
    BY ScopesAreNames DEF AddedProvenance
  <2> QED BY <2>2, <2>3
<1> QED BY <1>4, <1>6, <1>7

LEMMA TextIsThere ==
  ASSUME NEW tree, IsTree(tree), NEW files, Following(files, tree), NEW line, LineOf(line, files)
  PROVE  line.content \in TextsOf(tree)
<1>1. PICK q \in DOMAIN files : \E i \in 1 .. Len(files[q]) : line = files[q][i]
  BY DEF LineOf
<1>2. PICK n \in 1 .. Len(files[q]) : line = files[q][n]
  BY <1>1
<1>3. q \in DOMAIN tree /\ n \in 1 .. Len(tree[q])
  BY FollowedLine
<1>4. line.content = tree[q][n]
  <2>1. Follow(files[q], FileAt(tree, q)) /\ FileAt(tree, q) = tree[q]
    BY <1>3 DEF Following, FileAt
  <2> QED BY <1>2, <2>1 DEF Follow
<1>5. n \in DOMAIN tree[q]
  <2>1. tree[q] \in Text
    BY <1>3 DEF IsTree
  <2> QED BY <1>3, <2>1 DEF Text
<1>6. line.content \in ToSet(tree[q])
  BY <1>4, <1>5 DEF ToSet
<1> QED BY <1>3, <1>6 DEF TextsOf

\* The events that were loaded, and a line that one of them made and all that follow kept.
Loaded == ToSet(hook.rows)

Seen == History(moves, Loaded)

Lasts(seen, m, line) ==
  \E k \in 1 .. m :
    /\ seen[k].origin = line.provenance
    /\ \A i \in k .. m : /\ line.content \in TextsOf(seen[i].after)
                         /\ i > k => line.content \in TextsOf(seen[i].before)

Lasting(seen, m, lineage) ==
  \A q \in DOMAIN lineage : \A n \in 1 .. Len(lineage[q]) :
    lineage[q][n].provenance \in Scopes => Lasts(seen, m, lineage[q][n])

LastingInv ==
  /\ hook.pc \in {"baseline", "replay"} => IsRest(hook.left, Loaded)
  /\ hook.pc = "replay" => Lasting(Seen, Cardinality(Loaded) - Len(hook.left), hook.lineage)
  /\ hook.pc = "done" => Lasting(Seen, Cardinality(Loaded), hook.lineage)

LEMMA UnsaidLasts ==
  ASSUME NEW lineage, Unsaid(lineage), NEW seen, NEW m
  PROVE  Lasting(seen, m, lineage)
BY ScopesAreNames DEF Unsaid, Lasting

LEMMA LinesLast ==
  ASSUME NEW lineage, NEW seen, NEW m, Lasting(seen, m, lineage),
         NEW line, LineOf(line, lineage), line.provenance \in Scopes
  PROVE  Lasts(seen, m, line)
BY DEF LineOf, Lasting

\* One event more, whose trees both have the line.
LEMMA LastsOnceMore ==
  ASSUME NEW seen, NEW m \in Nat, NEW next, next = m + 1, NEW line, Lasts(seen, m, line),
         line.content \in TextsOf(seen[next].before), line.content \in TextsOf(seen[next].after)
  PROVE  Lasts(seen, next, line)
<1>1. PICK k \in 1 .. m :
        /\ seen[k].origin = line.provenance
        /\ \A i \in k .. m : /\ line.content \in TextsOf(seen[i].after)
                             /\ i > k => line.content \in TextsOf(seen[i].before)
  BY DEF Lasts
<1>2. k \in 1 .. next /\ \A i \in k .. next : i \in k .. m \/ i = next
  OBVIOUS
<1> QED BY <1>1, <1>2 DEF Lasts

LEMMA LastsNow ==
  ASSUME NEW seen, NEW m \in Nat, NEW next, next = m + 1, NEW line,
         seen[next].origin = line.provenance, line.content \in TextsOf(seen[next].after)
  PROVE  Lasts(seen, next, line)
<1>1. next \in 1 .. next /\ \A i \in next .. next : i = next /\ ~(i > next)
  OBVIOUS
<1> QED BY <1>1 DEF Lasts

LEMMA LoadedIs ==
  ASSUME NEW rows, NEW cut \in Nat, NEW kept, IsWindow(rows, cut, kept)
  PROVE  ToSet(rows) \subseteq Nat /\ IsFiniteSet(ToSet(rows)) /\ IsRest(Reverse(rows), ToSet(rows))
<1>1. IsWindow(rows, cut, {})
  BY DEF IsWindow
<1>2. Past(rows, cut, {}) = ToSet(rows)
  BY DEF Past
<1>3. {} \subseteq Nat /\ IsFiniteSet({})
  BY FS_EmptySet
<1> QED BY <1>1, <1>2, <1>3, RetainedAre

LEMMA SeenIs ==
  ASSUME WindowInv
  PROVE  /\ Len(Seen) = Cardinality(Loaded) /\ Cardinality(Loaded) \in Nat
         /\ DOMAIN Seen = 1 .. Cardinality(Loaded)
         /\ \A k \in 1 .. Cardinality(Loaded) : Seen[k] = moves[Ordered(Loaded)[k]]
         /\ Rows(Loaded) = Seen
<1>1. Loaded \subseteq Nat /\ IsFiniteSet(Loaded)
  BY LoadedIs DEF WindowInv, Loaded
<1>2. Cardinality(Loaded) \in Nat
  BY <1>1, FS_CardinalityType
<1>3. Rows(Loaded) = Seen
  BY <1>1, RowsAre DEF Seen
<1> DEFINE N == Cardinality(Loaded)
<1>4. Seen = [k \in 1 .. N |-> moves[Ordered(Loaded)[k]]]
  BY DEF Seen, History
<1> HIDE DEF N
<1>5. Len(Seen) = N /\ DOMAIN Seen = 1 .. N /\ \A k \in 1 .. N : Seen[k] = moves[Ordered(Loaded)[k]]
  BY <1>2, <1>4 DEF N
<1> QED BY <1>2, <1>3, <1>5 DEF N

LEMMA InitLasting == Init => LastingInv
BY DEF Init, Idle, LastingInv

LEMMA LastingKept ==
  ASSUME LastingInv, moves' = moves,
         /\ hook'.rows = hook.rows /\ hook'.left = hook.left
         /\ hook'.lineage = hook.lineage /\ hook'.pc = hook.pc
  PROVE  LastingInv'
<1>1. Loaded' = Loaded
  BY DEF Loaded
<1>2. Seen' = Seen
  BY <1>1 DEF Seen
<1> QED BY <1>1, <1>2 DEF LastingInv

\* Before the replay no line is anybody's.
LEMMA LastingUnsaid ==
  ASSUME CreditInv, hook.pc \notin {"replay", "done"}, hook'.lineage = hook.lineage,
         hook'.pc \in {"idle", "cut", "page", "done"}
  PROVE  LastingInv'
<1>1. Unsaid(hook'.lineage)
  BY DEF CreditInv
<1>2. Lasting(Seen', Cardinality(Loaded'), hook'.lineage)
  BY <1>1, UnsaidLasts
<1> QED BY <1>2 DEF LastingInv

LEMMA LastingClosed ==
  ASSUME CreditInv, WindowInv, WindowInv', hook.pc = "page", NEW rows, hook' = Close(rows)
  PROVE  LastingInv'
<1>1. /\ hook'.rows = rows /\ hook'.left = Reverse(rows)
      /\ hook'.pc = (IF rows = <<>> THEN "done" ELSE "baseline")
      /\ hook'.lineage = hook.lineage
  BY DEF WindowInv, Close, IsHook, HookFields
<1>2. CASE rows = <<>>
  BY <1>1, <1>2, LastingUnsaid
<1>3. CASE rows # <<>>
  <2>1. hook'.cut \in Nat /\ IsWindow(hook'.rows, hook'.cut, stored')
    BY DEF WindowInv
  <2>2. IsRest(Reverse(hook'.rows), ToSet(hook'.rows))
    BY <2>1, LoadedIs
  <2> QED BY <1>1, <1>3, <2>2 DEF LastingInv, Loaded
<1> QED BY <1>2, <1>3

\* One event more: its own lines, and older ones that both its trees have.
LEMMA LastingReplays ==
  ASSUME NoHeaders, LastingInv, WindowInv, LineageInv, hook.pc = "replay", hook.left # <<>>,
         NEW row, row = moves[Head(hook.left)], NEW unread, NEW broken \in BOOLEAN,
         NEW then, then = ApplyOrReset(AcrossGap(row, unread), row.before, row.after,
                                       TransitionOrigin(row), unread, broken)
  PROVE  /\ IsRest(Tail(hook.left), Loaded)
         /\ Lasting(Seen, Cardinality(Loaded) - Len(Tail(hook.left)), then)
<1> DEFINE N == Cardinality(Loaded)
           left == hook.left
           rest == Tail(left)
           m == N - Len(left)
<1>1. N \in Nat /\ \A i \in 1 .. N : Seen[i] = moves[Ordered(Loaded)[i]]
  BY SeenIs
<1>2. left \in Seq(Nat) /\ Len(left) \in Nat /\ Len(left) > 0
  BY DEF LineageInv
<1>3. /\ Len(rest) = Len(left) - 1 /\ Head(left) = left[1]
      /\ \A i \in 1 .. Len(rest) : rest[i] = left[i + 1]
  BY <1>2, HeadTailProperties
<1>4. /\ Len(left) <= N
      /\ \A i \in 1 .. Len(left) : Ordered(Loaded)[N - Len(left) + i] = left[i]
  BY DEF LastingInv, IsRest
<1> HIDE DEF N, left, rest
<1>5. IsRest(rest, Loaded)
  <2>1. \A i \in 1 .. Len(rest) : i + 1 \in 1 .. Len(left) /\ N - Len(left) + (i + 1) = N - Len(rest) + i
    BY <1>1, <1>2, <1>3
  <2>2. \A i \in 1 .. Len(rest) : Ordered(Loaded)[N - Len(rest) + i] = rest[i]
    BY <1>3, <1>4, <2>1
  <2>3. Len(rest) <= N
    BY <1>1, <1>2, <1>3, <1>4
  <2> QED BY <2>2, <2>3 DEF IsRest, N
<1>6. m \in Nat /\ m + 1 \in 1 .. N /\ m + 1 = N - Len(rest) /\ 1 \in 1 .. Len(left)
  BY <1>1, <1>2, <1>3, <1>4
<1>7. Seen[m + 1] = row
  <2>1. Ordered(Loaded)[N - Len(left) + 1] = left[1]
    BY <1>4, <1>6
  <2>2. Seen[m + 1] = moves[Ordered(Loaded)[m + 1]]
    BY <1>1, <1>6
  <2>3. Ordered(Loaded)[m + 1] = Head(left)
    BY <1>3, <2>1
  <2> QED BY <2>2, <2>3 DEF left
<1>8. row \in Row
  <2>1. left[1] \in 1 .. Len(moves) /\ moves \in Seq(Row)
    BY <1>6 DEF LineageInv, WindowInv, left
  <2>2. moves[left[1]] \in Row
    BY <2>1
  <2> QED BY <1>3, <2>2 DEF left
<1> DEFINE origin == TransitionOrigin(row)
           from == AcrossGap(row, unread)
<1>9. /\ row.before \in Trees /\ row.after \in Trees /\ origin \in Origins
      /\ origin \in Scopes => row.origin = origin
  BY <1>8, ScopesAreNames DEF Row, Origins, TransitionOrigin
<1>10. config \in Configs /\ hook.paths \subseteq Paths
  BY DEF LineageInv
<1>11. IsTree(row.before) /\ IsTree(row.after)
  BY <1>9, TreesAreTyped
<1>12. Lasting(Seen, m, hook.lineage)
  BY DEF LastingInv, m, N, left
<1> DEFINE next == m + 1
<1> HIDE DEF m, origin
<1>13. Following(from, row.before) /\ Lasting(Seen, m, from)
  <2>1. CASE row.before = hook.tree
    BY <1>12, <2>1 DEF AcrossGap, LineageInv
  <2>2. CASE row.before # hook.tree
    <3>1. from = Baseline(row.before, unread)
      BY <2>2 DEF AcrossGap
    <3> HIDE DEF from
    <3>2. Following(from, row.before) /\ Unsaid(from)
      BY <1>9, <1>10, <3>1, BaselineFollows, BaselineUnsaid
    <3> QED BY <3>2, UnsaidLasts
  <2> HIDE DEF from
  <2> QED BY <2>1, <2>2
<1>14. then = ApplyOrReset(from, row.before, row.after, origin, unread, broken)
  BY DEF origin
<1> HIDE DEF from
<1>15. Following(then, row.after)
  BY <1>9, <1>10, <1>13, <1>14, ReplayFollows
<1>16. ASSUME NEW q \in DOMAIN then, NEW n \in 1 .. Len(then[q]), then[q][n].provenance \in Scopes
       PROVE  Lasts(Seen, next, then[q][n])
  <2> DEFINE line == then[q][n]
  <2>1. LineOf(line, then)
    BY DEF LineOf
  <2>2. line.content \in TextsOf(row.after)
    <3> HIDE DEF line
    <3> QED BY <1>11, <1>15, <2>1, TextIsThere
  <2>3. LineOf(line, from) \/ line.provenance = origin
    BY <1>9, <1>10, <1>13, <1>14, <1>16, ReplayedLines
  <2>4. line.provenance \in Scopes
    BY <1>16
  <2> HIDE DEF line
  <2>5. m \in Nat /\ next = m + 1 /\ Seen[next] = row
    BY <1>6, <1>7
  <2> HIDE DEF next
  <2>6. ASSUME LineOf(line, from) PROVE Lasts(Seen, next, line)
    <3>1. line.content \in TextsOf(row.before)
      BY <1>11, <1>13, <2>6, TextIsThere
    <3>2. Lasts(Seen, m, line)
      BY <1>13, <2>4, <2>6, LinesLast
    <3> QED BY <2>2, <2>5, <3>1, <3>2, LastsOnceMore
  <2>7. ASSUME line.provenance = origin PROVE Lasts(Seen, next, line)
    <3>1. row.origin = line.provenance
      BY <1>9, <2>4, <2>7
    <3> QED BY <2>2, <2>5, <3>1, LastsNow
  <2> QED BY <2>3, <2>6, <2>7 DEF line
<1>17. Lasting(Seen, next, then)
  BY <1>16 DEF Lasting
<1> QED BY <1>5, <1>6, <1>17 DEF N, left, rest

LEMMA LastingEnds ==
  ASSUME NoHeaders, LastingInv, WindowInv, LineageInv, hook.pc = "replay", hook.left = <<>>,
         NEW unread, NEW broken \in BOOLEAN, NEW then,
         then = IF hook.tree = hook.commit THEN hook.lineage
                ELSE ApplyOrReset(hook.lineage, hook.tree, hook.commit, "unobserved", unread, broken)
  PROVE  Lasting(Seen, Cardinality(Loaded), then)
<1> DEFINE N == Cardinality(Loaded)
<1>1. N \in Nat
  BY SeenIs
<1>2. N - Len(hook.left) = N
  BY <1>1
<1>3. Lasting(Seen, N, hook.lineage)
  BY <1>2 DEF LastingInv
<1>4. /\ config \in Configs /\ hook.paths \subseteq Paths
      /\ hook.tree \in Trees /\ hook.commit \in Trees /\ Following(hook.lineage, hook.tree)
  BY DEF LineageInv
<1>5. "unobserved" \in Origins /\ "unobserved" \notin Scopes
  BY ScopesAreNames DEF Origins
<1> HIDE DEF N
<1>6. CASE hook.tree = hook.commit
  BY <1>3, <1>6 DEF N
<1>7. CASE hook.tree # hook.commit
  <2>1. then = ApplyOrReset(hook.lineage, hook.tree, hook.commit, "unobserved", unread, broken)
    BY <1>7
  <2>2. ASSUME NEW q \in DOMAIN then, NEW n \in 1 .. Len(then[q]), then[q][n].provenance \in Scopes
        PROVE  Lasts(Seen, N, then[q][n])
    <3>1. LineOf(then[q][n], hook.lineage) \/ then[q][n].provenance = "unobserved"
      BY <1>4, <1>5, <2>1, <2>2, ReplayedLines
    <3>2. LineOf(then[q][n], hook.lineage)
      BY <1>5, <2>2, <3>1
    <3> QED BY <1>3, <2>2, <3>2, LinesLast
  <2> QED BY <2>2 DEF Lasting, N
<1> QED BY <1>6, <1>7

LEMMA LastingStep ==
  ASSUME NoHeaders, LastingInv, CreditInv, LineageInv, WindowInv, WindowInv', [Next]_vars
  PROVE  LastingInv'
<1> USE DEF Phases
<1>1. IsHook(hook)
  BY DEF WindowInv
<1>2. CASE Boundary \/ Prune
  <2>1. hook' = hook /\ hook.pc \in {"idle", "cut", "page"}
    BY <1>2 DEF Boundary, Prune
  <2> QED BY <2>1, LastingUnsaid
<1>3. CASE LoseTree \/ UNCHANGED vars
  <2>1. moves' = moves /\ hook' = hook
    BY <1>3 DEF LoseTree, vars
  <2> QED BY <2>1, LastingKept
<1>4. CASE Commit \/ CaptureRevisionCut \/ CutFails
  <2>1. /\ hook'.lineage = hook.lineage
        /\ hook'.pc \in {"cut", "page", "done"} /\ hook.pc \in {"idle", "cut"}
    <3>1. CASE Commit
      <4>1. PICK t \in Trees, paths \in Targets :
              hook' = [hook EXCEPT !.pc = "cut", !.commit = t, !.paths = paths]
        BY <3>1 DEF Commit
      <4>2. hook.pc = "idle"
        BY <3>1 DEF Commit
      <4> QED BY <1>1, <4>1, <4>2 DEF IsHook, HookFields
    <3>2. CASE CaptureRevisionCut
      BY <1>1, <3>2 DEF CaptureRevisionCut, IsHook, HookFields
    <3>3. CASE CutFails
      BY <1>1, <3>3 DEF CutFails, IsHook, HookFields
    <3> QED BY <1>4, <3>1, <3>2, <3>3
  <2> QED BY <2>1, LastingUnsaid
<1>5. CASE LoadPage
  <2> DEFINE page == Page(hook.below, Min({PageSize, MaxEvents - Len(hook.rows)}))
             rows == hook.rows \o page
  <2>1. \/ hook' = Close(rows)
        \/ hook' = [hook EXCEPT !.rows = rows, !.below = NextBelow(page)]
    BY <1>5 DEF LoadPage
  <2>2. hook.pc = "page"
    BY <1>5 DEF LoadPage
  <2> HIDE DEF rows, page
  <2>3. CASE hook' = Close(rows)
    BY <2>2, <2>3, LastingClosed
  <2>4. CASE hook' = [hook EXCEPT !.rows = rows, !.below = NextBelow(page)]
    <3>1. hook'.lineage = hook.lineage /\ hook'.pc = "page"
      BY <1>1, <2>2, <2>4 DEF IsHook, HookFields
    <3> QED BY <2>2, <3>1, LastingUnsaid
  <2> QED BY <2>1, <2>3, <2>4
<1>6. CASE LoadPageFails
  <2>1. hook.pc = "page" /\ hook' = Close(hook.rows)
    BY <1>6 DEF LoadPageFails
  <2> QED BY <2>1, LastingClosed
<1>7. CASE LoadBaseline
  <2> DEFINE tree == moves[Head(hook.left)].before
  <2>1. PICK unread \in SUBSET hook.paths :
          hook' = [hook EXCEPT !.pc = "replay", !.tree = tree, !.lineage = Baseline(tree, unread)]
    BY <1>7 DEF LoadBaseline
  <2>2. hook.pc = "baseline" /\ UNCHANGED <<config, moves, stored>>
    BY <1>7 DEF LoadBaseline, Unchanged
  <2>3. /\ hook'.rows = hook.rows /\ hook'.left = hook.left
        /\ hook'.lineage = Baseline(tree, unread) /\ hook'.pc = "replay" /\ hook'.tree = tree
    <3> HIDE DEF tree
    <3> QED BY <1>1, <2>1 DEF IsHook, HookFields
  <2>4. tree \in Trees /\ hook.paths \subseteq Paths
    <3>1. hook.left # <<>> /\ hook.left \in Seq(Nat) /\ hook.paths \subseteq Paths
      BY <2>2 DEF LineageInv
    <3>2. 1 \in 1 .. Len(hook.left) /\ Head(hook.left) = hook.left[1]
      BY <3>1
    <3>3. moves \in Seq(Row) /\ hook.left[1] \in 1 .. Len(moves)
      BY <3>2 DEF LineageInv, WindowInv
    <3>4. moves[Head(hook.left)] \in Row
      BY <3>2, <3>3
    <3> QED BY <3>1, <3>4 DEF Row
  <2> HIDE DEF tree
  <2>5. Unsaid(hook'.lineage)
    BY <2>3, <2>4, BaselineUnsaid
  <2>6. Lasting(Seen', Cardinality(Loaded') - Len(hook'.left), hook'.lineage)
    BY <2>5, UnsaidLasts
  <2>7. IsRest(hook'.left, Loaded')
    BY <2>2, <2>3 DEF LastingInv, Loaded
  <2> QED BY <2>3, <2>6, <2>7 DEF LastingInv
<1>8. CASE ReplayEvent
  <2> DEFINE row == moves[Head(hook.left)]
  <2>1. PICK unread \in SUBSET hook.paths, broken \in BOOLEAN :
          hook' = [hook EXCEPT !.left = Tail(@), !.tree = row.after,
                     !.lineage = ApplyOrReset(AcrossGap(row, unread), row.before, row.after,
                                              TransitionOrigin(row), unread, broken)]
    BY <1>8 DEF ReplayEvent
  <2>2. hook.pc = "replay" /\ hook.left # <<>> /\ UNCHANGED <<config, moves, stored>>
    BY <1>8 DEF ReplayEvent, Unchanged
  <2> DEFINE then == ApplyOrReset(AcrossGap(row, unread), row.before, row.after,
                                  TransitionOrigin(row), unread, broken)
  <2>3. /\ hook'.rows = hook.rows /\ hook'.left = Tail(hook.left)
        /\ hook'.lineage = then /\ hook'.pc = "replay"
    <3> HIDE DEF row
    <3> QED BY <1>1, <2>1, <2>2 DEF IsHook, HookFields
  <2>4. row = moves[Head(hook.left)]
    OBVIOUS
  <2>5. then = ApplyOrReset(AcrossGap(row, unread), row.before, row.after,
                            TransitionOrigin(row), unread, broken)
    OBVIOUS
  <2> HIDE DEF row, then
  <2>6. /\ IsRest(Tail(hook.left), Loaded)
        /\ Lasting(Seen, Cardinality(Loaded) - Len(Tail(hook.left)), then)
    BY <2>2, <2>4, <2>5, LastingReplays
  <2>7. Loaded' = Loaded
    BY <2>3 DEF Loaded
  <2>8. Seen' = Seen
    BY <2>2, <2>7 DEF Seen
  <2> QED BY <2>3, <2>6, <2>7, <2>8 DEF LastingInv
<1>9. CASE ReplayTail
  <2>1. PICK unread \in SUBSET hook.paths, broken \in BOOLEAN :
          hook' = [hook EXCEPT !.pc = "done", !.tree = hook.commit,
                     !.lineage = IF hook.tree = hook.commit THEN @
                                 ELSE ApplyOrReset(@, hook.tree, hook.commit,
                                                   TailOrigin(hook.rows), unread, broken)]
    BY <1>9 DEF ReplayTail
  <2>2. hook.pc = "replay" /\ hook.left = <<>> /\ UNCHANGED <<config, moves, stored>>
    BY <1>9 DEF ReplayTail, Unchanged
  <2> DEFINE then == IF hook.tree = hook.commit THEN hook.lineage
                     ELSE ApplyOrReset(hook.lineage, hook.tree, hook.commit,
                                       "unobserved", unread, broken)
  <2>3. hook'.rows = hook.rows /\ hook'.lineage = then /\ hook'.pc = "done"
    BY <1>1, <2>1 DEF IsHook, HookFields, TailOrigin
  <2>4. then = IF hook.tree = hook.commit THEN hook.lineage
               ELSE ApplyOrReset(hook.lineage, hook.tree, hook.commit, "unobserved", unread, broken)
    OBVIOUS
  <2> HIDE DEF then
  <2>5. Lasting(Seen, Cardinality(Loaded), then)
    BY <2>2, <2>4, LastingEnds
  <2>6. Loaded' = Loaded
    BY <2>3 DEF Loaded
  <2>7. Seen' = Seen
    BY <2>2, <2>6 DEF Seen
  <2> QED BY <2>3, <2>5, <2>6, <2>7 DEF LastingInv
<1> QED BY <1>2, <1>3, <1>4, <1>5, <1>6, <1>7, <1>8, <1>9 DEF Next

\* Lines that look like headers are all there is to the finding: without them, a line that
\* is given to an agent has been in every tree since an event of that agent, so what a
\* later event removed no older one gives back (apply_transition_or_reset).
THEOREM RemovedLinesStayDead ==
  ASSUME NoHeaders
  PROVE  Spec => []RemovedLineStaysDead
<1>1. WindowInv /\ LineageInv /\ LastingInv => RemovedLineStaysDead
  <2> SUFFICES ASSUME WindowInv, LineageInv, LastingInv, hook.pc = "done", NEW pn \in CommittedLines,
                      Verdict(pn[1], pn[2]) \in Scopes
               PROVE  \E k \in DOMAIN Rows(Loaded) :
                        /\ Rows(Loaded)[k].origin = Verdict(pn[1], pn[2])
                        /\ \A i \in k .. Len(Rows(Loaded)) :
                             /\ hook.commit[pn[1]][pn[2]] \in TextsOf(Rows(Loaded)[i].after)
                             /\ i > k => hook.commit[pn[1]][pn[2]] \in TextsOf(Rows(Loaded)[i].before)
    BY Zenon DEF RemovedLineStaysDead, Loaded
  <2> DEFINE p == pn[1]
             n == pn[2]
             text == hook.commit[pn[1]][pn[2]]
             lineage == hook.lineage
             line == lineage[p][n]
  <2>1. /\ n \in DOMAIN FileAt(lineage, p)
        /\ Verdict(p, n) = line.provenance /\ text = line.content
    BY ScopesAreNames DEF Verdict, ProvenanceAt
  <2> HIDE DEF p, n, text, lineage
  <2>2. p \in DOMAIN lineage /\ n \in DOMAIN lineage[p]
    BY <2>1 DEF FileAt
  <2>3. n \in 1 .. Len(lineage[p])
    <3>1. Follow(lineage[p], FileAt(hook.tree, p))
      BY <2>2 DEF LineageInv, Following, lineage
    <3>2. lineage[p] \in Seq(Line)
      BY <3>1 DEF Follow
    <3> HIDE DEF Line
    <3> QED BY <2>2, <3>2
  <2>4. Lasting(Seen, Cardinality(Loaded), lineage)
    BY DEF LastingInv, lineage
  <2>5. line.provenance \in Scopes
    BY <2>1 DEF p, n
  <2>6. Lasts(Seen, Cardinality(Loaded), line)
    BY <2>2, <2>3, <2>4, <2>5 DEF Lasting
  <2>7. /\ Rows(Loaded) = Seen /\ Len(Seen) = Cardinality(Loaded)
        /\ DOMAIN Seen = 1 .. Cardinality(Loaded)
    BY SeenIs
  <2> HIDE DEF line
  <2>8. \E k \in DOMAIN Rows(Loaded) :
          /\ Rows(Loaded)[k].origin = line.provenance
          /\ \A i \in k .. Len(Rows(Loaded)) :
               /\ line.content \in TextsOf(Rows(Loaded)[i].after)
               /\ i > k => line.content \in TextsOf(Rows(Loaded)[i].before)
    BY <2>6, <2>7 DEF Lasts
  <2> QED BY <2>1, <2>8, Zenon DEF p, n, text
<1>2. Init => WindowInv /\ LineageInv /\ CreditInv /\ LastingInv
  BY InitWindow, InitLineage, InitCredit, InitLasting
<1>3. (WindowInv /\ LineageInv /\ CreditInv /\ LastingInv) /\ [Next]_vars =>
        (WindowInv /\ LineageInv /\ CreditInv /\ LastingInv)'
  BY WindowStep, LineageStep, CreditStep, LastingStep
<1> QED BY <1>1, <1>2, <1>3, PTL DEF Spec
=============================================================================
