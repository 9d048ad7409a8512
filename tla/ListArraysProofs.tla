-------------------------- MODULE ListArraysProofs --------------------------
(***************************************************************************)
(* Theorems about the two arrays of the list and its dispatch groups.      *)
(*                                                                         *)
(* First, without any state: a fetch lists the rows it finds in ascending  *)
(* order, each once; removing a row number leaves the fetch of the other   *)
(* rows; a fetch of the older rows is the beginning of a later fetch.      *)
(* Then the invariant: both arrays are such beginnings.                    *)
(***************************************************************************)
EXTENDS PackageListProofs, FiniteSetTheorems, SequenceTheorems

\* A set of numbers that is not empty has a smallest element.
LEMMA Smallest ==
  ASSUME NEW T \in SUBSET Nat, T # {}
  PROVE  \E n \in T : \A m \in T : n <= m
<1> DEFINE less == {ss \in Nat \X Nat : ss[1] < ss[2]}
<1>1. less = OpToRel(<, Nat)
  BY Zenon DEF OpToRel
<1>2. IsWellFoundedOn(less, Nat)
  BY <1>1, NatLessThanWellFounded, Zenon
<1> HIDE DEF less
<1>3. T \subseteq Nat
  OBVIOUS
<1>4. PICK n \in T : \A m \in T : ~ (<<m, n>> \in less)
  BY <1>2, <1>3, WFMin
<1>5. n \in Nat
  BY <1>3
<1>6. \A m \in T : m \in Nat /\ n <= m
  <2> TAKE m \in T
  <2>1. m \in Nat /\ ~ (<<m, n>> \in less)
    BY <1>3, <1>4
  <2>2. ~(m < n)
    BY <1>5, <2>1 DEF less
  <2> QED
    BY <1>5, <2>1, <2>2
<1> QED
  BY <1>6

\* The elements of S before n, and how many they are.
Below(S, n) == {j \in S : j < n}
Place(S, n) == Cardinality(Below(S, n))

LEMMA PlaceType ==
  ASSUME NEW b \in Nat, NEW S \in SUBSET (1..b)
  PROVE  /\ IsFiniteSet(S)
         /\ Cardinality(S) \in Nat
         /\ \A n : IsFiniteSet(Below(S, n)) /\ Place(S, n) \in Nat
<1>1. IsFiniteSet(1..b)
  BY FS_Interval
<1>2. IsFiniteSet(S)
  BY <1>1, FS_Subset
<1>3. ASSUME NEW n PROVE IsFiniteSet(Below(S, n)) /\ Place(S, n) \in Nat
  <2>1. Below(S, n) \in SUBSET S
    BY DEF Below
  <2>2. IsFiniteSet(Below(S, n))
    BY <1>2, <2>1, FS_Subset
  <2> QED
    BY <2>2, FS_CardinalityType DEF Place
<1> QED
  BY <1>2, <1>3, FS_CardinalityType

\* The first and the last place.
LEMMA PlaceEnds ==
  ASSUME NEW b \in Nat, NEW S \in SUBSET (1..b)
  PROVE  Place(S, 0) = 0 /\ Place(S, b + 1) = Cardinality(S)
<1>1. \A i \in S : ~(i < 0) /\ i < b + 1
  OBVIOUS
<1>2. Below(S, 0) = {}
  BY <1>1 DEF Below
<1>3. Below(S, b + 1) = S
  BY <1>1 DEF Below
<1> QED
  BY <1>2, <1>3, FS_EmptySet DEF Place

\* One number further: one place further if it is an element.
LEMMA PlaceNext ==
  ASSUME NEW b \in Nat, NEW S \in SUBSET (1..b), NEW n \in Nat
  PROVE  Place(S, n + 1) = IF n \in S THEN Place(S, n) + 1 ELSE Place(S, n)
<1>1. \A i \in S : i < n + 1 <=> i < n \/ i = n
  OBVIOUS
<1>2. CASE n \in S
  <2>1. Below(S, n + 1) = Below(S, n) \cup {n}
    BY <1>1, <1>2 DEF Below
  <2>2. n \notin Below(S, n)
    BY DEF Below
  <2>3. Cardinality(Below(S, n) \cup {n}) = Cardinality(Below(S, n)) + 1
    BY <2>2, PlaceType, FS_AddElement
  <2> QED
    BY <1>2, <2>1, <2>3 DEF Place
<1>3. CASE n \notin S
  <2>1. Below(S, n + 1) = Below(S, n)
    BY <1>1, <1>3 DEF Below
  <2> QED
    BY <1>3, <2>1 DEF Place
<1> QED
  BY <1>2, <1>3

\* An element comes before every larger number.
LEMMA PlaceGrows ==
  ASSUME NEW b \in Nat, NEW S \in SUBSET (1..b)
  PROVE  \A i \in S, j \in Int : i < j => Place(S, i) < Place(S, j)
<1> SUFFICES ASSUME NEW i \in S, NEW j \in Int, i < j
             PROVE  Place(S, i) < Place(S, j)
  OBVIOUS
<1>1. i \in Nat /\ \A m \in S : m < i + 1 => m < j
  OBVIOUS
<1>2. Below(S, i + 1) \in SUBSET Below(S, j)
  BY <1>1 DEF Below
<1>3. Place(S, i + 1) <= Place(S, j)
  BY <1>2, PlaceType, FS_Subset DEF Place
<1>4. Place(S, i + 1) = Place(S, i) + 1
  BY <1>1, PlaceNext
<1>5. Place(S, i) \in Nat /\ Place(S, j) \in Nat
  BY PlaceType
<1> QED
  BY <1>3, <1>4, <1>5

\* Every place is taken.
LEMMA PlaceTaken ==
  ASSUME NEW b \in Nat, NEW S \in SUBSET (1..b), NEW k \in 1..Cardinality(S)
  PROVE  \E i \in S : Place(S, i) = k - 1
<1>1. Cardinality(S) \in Nat /\ \A n \in Nat : Place(S, n) \in Nat
  BY PlaceType
<1>2. k \in Nat /\ 0 < k /\ k <= Cardinality(S)
  BY <1>1
<1> DEFINE T == {n \in Nat : Place(S, n) >= k}
<1>3. b + 1 \in T
  BY <1>2, PlaceEnds
<1>4. PICK n \in T : \A m \in T : n <= m
  BY <1>3, Smallest
<1>5. n \in Nat /\ Place(S, n) >= k
  BY <1>4
<1>6. n # 0
  BY <1>2, <1>5, PlaceEnds
<1>7. n - 1 \in Nat /\ n - 1 + 1 = n
  BY <1>5, <1>6
<1>8. n - 1 \notin T
  BY <1>4, <1>5, <1>7
<1>9. Place(S, n - 1) < k
  BY <1>1, <1>2, <1>7, <1>8
<1> HIDE DEF T
<1>10. Place(S, n) = IF n - 1 \in S THEN Place(S, n - 1) + 1 ELSE Place(S, n - 1)
  BY <1>7, PlaceNext
<1>11. n - 1 \in S /\ Place(S, n - 1) = k - 1
  BY <1>1, <1>2, <1>5, <1>7, <1>9, <1>10
<1> QED
  BY <1>11

\* InOrder lists the elements of S, each once, in ascending order.
LEMMA InOrderLists ==
  ASSUME NEW b \in Nat, NEW S \in SUBSET (1..b)
  PROVE  /\ InOrder(S) \in [1..Cardinality(S) -> S]
         /\ \A k \in 1..Cardinality(S) : Place(S, InOrder(S)[k]) = k - 1
         /\ \A i \in S : /\ Place(S, i) + 1 \in 1..Cardinality(S)
                         /\ InOrder(S)[Place(S, i) + 1] = i
<1>1. \A k \in 1..Cardinality(S) : InOrder(S)[k] \in S /\ Place(S, InOrder(S)[k]) = k - 1
  <2> TAKE k \in 1..Cardinality(S)
  <2>1. InOrder(S)[k] = CHOOSE i \in S : Place(S, i) = k - 1
    BY DEF InOrder, Place, Below
  <2>2. \E i \in S : Place(S, i) = k - 1
    BY PlaceTaken
  <2> QED
    BY <2>1, <2>2
<1>2. \A i \in S, j \in Int : i < j => Place(S, i) < Place(S, j)
  BY PlaceGrows
<1>3. InOrder(S) \in [1..Cardinality(S) -> S]
  BY <1>1 DEF InOrder
<1>4. ASSUME NEW i \in S
      PROVE  /\ Place(S, i) + 1 \in 1..Cardinality(S)
             /\ InOrder(S)[Place(S, i) + 1] = i
  <2>1. i \in Int /\ b + 1 \in Int /\ i < b + 1
    OBVIOUS
  <2>2. Place(S, i) < Cardinality(S)
    BY <1>2, <2>1, PlaceEnds
  <2>3. Place(S, i) \in Nat /\ Cardinality(S) \in Nat
    BY PlaceType
  <2>4. Place(S, i) + 1 \in 1..Cardinality(S) /\ Place(S, i) + 1 - 1 = Place(S, i)
    BY <2>2, <2>3
  <2> DEFINE k == Place(S, i) + 1
             o == InOrder(S)[k]
  <2>5. o \in S /\ Place(S, o) = Place(S, i)
    <3>1. k \in 1..Cardinality(S) /\ k - 1 = Place(S, i)
      BY <2>2, <2>3
    <3> HIDE DEF k
    <3> QED
      BY <1>1, <3>1
  <2> HIDE DEF o
  <2>6. o \in Int
    BY <2>5
  <2>7. ~(i < o)
    BY <1>2, <2>3, <2>5, <2>6
  <2>8. ~(o < i)
    BY <1>2, <2>1, <2>3, <2>5
  <2>9. o = i
    BY <2>1, <2>6, <2>7, <2>8
  <2> QED
    BY <2>4, <2>9 DEF o
<1> QED
  BY <1>1, <1>3, <1>4

-----------------------------------------------------------------------------
(* Fetches as sequences *)

\* A fetch as a sequence: its elements, and that no row is listed twice.
LEMMA InOrderSeq ==
  ASSUME NEW b \in Nat, NEW S \in SUBSET (1..b)
  PROVE  /\ InOrder(S) \in Seq(S)
         /\ Len(InOrder(S)) = Cardinality(S)
         /\ DOMAIN InOrder(S) = 1..Cardinality(S)
         /\ Elements(InOrder(S)) = S
         /\ \A k, m \in DOMAIN InOrder(S) : InOrder(S)[k] = InOrder(S)[m] => k = m
<1> DEFINE s == InOrder(S)
           n == Cardinality(S)
<1>1. s \in [1..n -> S] /\ n \in Nat
  BY InOrderLists, PlaceType
<1>2. /\ \A k \in 1..n : Place(S, s[k]) = k - 1
      /\ \A i \in S : \E k \in 1..n : s[k] = i
  BY InOrderLists
<1> HIDE DEF s, n
<1>3. s \in Seq(S) /\ Len(s) = n /\ DOMAIN s = 1..n
  BY <1>1
<1>4. Elements(s) = S
  BY <1>1, <1>2, <1>3 DEF Elements
<1>5. \A k, m \in 1..n : s[k] = s[m] => k = m
  BY <1>1, <1>2
<1> QED
  BY <1>3, <1>4, <1>5 DEF s, n

\* Removing the row number k.
LEMMA RemoveAtRows ==
  ASSUME NEW T, NEW s \in Seq(T), NEW k \in DOMAIN s
  PROVE  /\ RemoveAt(s, k) \in Seq(T)
         /\ Len(RemoveAt(s, k)) = Len(s) - 1
         /\ \A m \in 1..Len(s) - 1 : RemoveAt(s, k)[m] = IF m < k THEN s[m] ELSE s[m + 1]
         /\ Elements(RemoveAt(s, k)) \subseteq Elements(s)
<1>1. k \in 1..Len(s) /\ Len(s) \in Nat
  OBVIOUS
<1> DEFINE front == SubSeq(s, 1, k - 1)
           back == SubSeq(s, k + 1, Len(s))
<1>2. /\ front \in Seq(T)
      /\ Len(front) = k - 1
      /\ \A m \in 1..k - 1 : front[m] = s[m]
  BY <1>1
<1>3. /\ back \in Seq(T)
      /\ Len(back) = Len(s) - k
      /\ \A m \in 1..Len(s) - k : back[m] = s[k + m]
  BY <1>1
<1> HIDE DEF front, back
<1>4. /\ front \o back \in Seq(T)
      /\ Len(front \o back) = Len(s) - 1
      /\ \A m \in 1..Len(s) - 1 : (front \o back)[m] = IF m < k THEN s[m] ELSE s[m + 1]
  <2>1. /\ front \o back \in Seq(T)
        /\ Len(front \o back) = Len(front) + Len(back)
        /\ \A m \in 1..Len(front) + Len(back) :
             (front \o back)[m] = IF m <= Len(front) THEN front[m] ELSE back[m - Len(front)]
    BY <1>2, <1>3, ConcatProperties
  <2>2. Len(front) + Len(back) = Len(s) - 1
    BY <1>1, <1>2, <1>3
  <2>3. ASSUME NEW m \in 1..Len(s) - 1
        PROVE  (front \o back)[m] = IF m < k THEN s[m] ELSE s[m + 1]
    <3>1. CASE m < k
      <4>1. m \in 1..k - 1 /\ m <= Len(front) /\ m \in 1..Len(front) + Len(back)
        <5>1. m \in 1..k - 1
          BY <1>1, <3>1
        <5>2. m <= Len(front)
          BY <1>2, <5>1
        <5>3. m \in 1..Len(front) + Len(back)
          BY <2>2
        <5> QED
          BY <5>1, <5>2, <5>3
      <4> QED
        BY <1>2, <2>1, <3>1, <4>1
    <3>2. CASE ~(m < k)
      <4>1. /\ m - (k - 1) \in 1..Len(s) - k
            /\ k + (m - (k - 1)) = m + 1
            /\ ~(m <= Len(front)) /\ m \in 1..Len(front) + Len(back)
        <5>1. m \in Int /\ k \in Int /\ Len(s) \in Int /\ k <= m /\ m <= Len(s) - 1 /\ 1 <= m
          BY <1>1, <3>2
        <5>2. m - (k - 1) \in 1..Len(s) - k
          BY <5>1
        <5>3. k + (m - (k - 1)) = m + 1
          BY <5>1
        <5>4. ~(m <= Len(front))
          BY <1>2, <5>1
        <5>5. m \in 1..Len(front) + Len(back)
          BY <2>2
        <5> QED
          BY <5>2, <5>3, <5>4, <5>5
      <4>2. (front \o back)[m] = back[m - (k - 1)]
        <5>1. (front \o back)[m] = back[m - Len(front)]
          BY <2>1, <4>1
        <5> QED
          BY <1>2, <5>1
      <4>3. back[m - (k - 1)] = s[m + 1]
        BY <1>3, <4>1
      <4> QED
        BY <3>2, <4>2, <4>3
    <3> QED
      BY <3>1, <3>2
  <2> QED
    BY <2>1, <2>2, <2>3
<1>5. RemoveAt(s, k) = front \o back
  BY DEF RemoveAt, front, back
<1>6. Elements(RemoveAt(s, k)) \subseteq Elements(s)
  <2>0. DOMAIN RemoveAt(s, k) = 1..Len(s) - 1
    BY <1>4, <1>5
  <2> SUFFICES ASSUME NEW m \in 1..Len(s) - 1
               PROVE  RemoveAt(s, k)[m] \in Elements(s)
    BY <2>0 DEF Elements
  <2>1. m \in DOMAIN s /\ m + 1 \in DOMAIN s
    <3>1. m \in 1..Len(s) /\ m + 1 \in 1..Len(s)
      BY <1>1
    <3> QED
      BY <3>1
  <2> QED
    BY <1>4, <1>5, <2>1 DEF Elements
<1> QED
  BY <1>4, <1>5, <1>6

\* A smaller set leaves its members their places, less the missing ones before.
LEMMA PlaceWithout ==
  ASSUME NEW b \in Nat, NEW S \in SUBSET (1..b), NEW x \in S, NEW i \in S \ {x}
  PROVE  Place(S \ {x}, i) = IF x < i THEN Place(S, i) - 1 ELSE Place(S, i)
<1>1. CASE x < i
  <2>1. Below(S \ {x}, i) = Below(S, i) \ {x} /\ x \in Below(S, i)
    BY <1>1 DEF Below
  <2> QED
    BY <1>1, <2>1, PlaceType, FS_RemoveElement DEF Place
<1>2. CASE ~(x < i)
  <2>1. Below(S \ {x}, i) = Below(S, i)
    BY <1>2 DEF Below
  <2> QED
    BY <1>2, <2>1 DEF Place
<1> QED
  BY <1>1, <1>2

\* Removing a row number from a fetch gives the fetch without that row.
LEMMA InOrderRemove ==
  ASSUME NEW b \in Nat, NEW S \in SUBSET (1..b), NEW k \in DOMAIN InOrder(S)
  PROVE  RemoveAt(InOrder(S), k) = InOrder(S \ {InOrder(S)[k]})
<1> DEFINE s == InOrder(S)
           x == s[k]
           W == S \ {x}
           r == RemoveAt(s, k)
           n == Cardinality(S)
<1>1. n \in Nat /\ k \in 1..n /\ s \in Seq(S) /\ Len(s) = n /\ x \in S /\ Place(S, x) = k - 1
  <2>1. n \in Nat
    BY PlaceType
  <2>2. s \in Seq(S) /\ Len(s) = n /\ DOMAIN s = 1..n
    BY InOrderSeq
  <2>3. k \in 1..n
    BY <2>2
  <2>4. s \in [1..n -> S] /\ \A m \in 1..n : Place(S, s[m]) = m - 1
    BY InOrderLists
  <2>5. x \in S /\ Place(S, x) = k - 1
    BY <2>3, <2>4
  <2> QED
    BY <2>1, <2>2, <2>3, <2>5
<1>2. W \in SUBSET (1..b) /\ Cardinality(W) = n - 1
  BY <1>1, PlaceType, FS_RemoveElement
<1>3. InOrder(W) \in Seq(W) /\ Len(InOrder(W)) = n - 1
  BY <1>2, InOrderSeq
<1>4. r \in Seq(S) /\ Len(r) = n - 1
      /\ \A m \in 1..n - 1 : r[m] = IF m < k THEN s[m] ELSE s[m + 1]
  BY <1>1, RemoveAtRows
<1>5. \A m \in 1..n : s[m] \in S /\ Place(S, s[m]) = m - 1
  BY InOrderLists
<1>6. \A i \in S : i \in Int
  OBVIOUS
<1>7. \A i \in S, j \in S : i < j => Place(S, i) < Place(S, j)
  <2>1. \A i \in S, j \in Int : i < j => Place(S, i) < Place(S, j)
    BY PlaceGrows
  <2> QED
    BY <1>6, <2>1
<1>8. \A i \in W : /\ InOrder(W)[Place(W, i) + 1] = i
                   /\ Place(W, i) = IF x < i THEN Place(S, i) - 1 ELSE Place(S, i)
  <2>1. \A i \in W : InOrder(W)[Place(W, i) + 1] = i
    BY <1>2, InOrderLists
  <2>2. \A i \in W : Place(W, i) = IF x < i THEN Place(S, i) - 1 ELSE Place(S, i)
    BY <1>1, PlaceWithout
  <2> QED
    BY <2>1, <2>2
<1> HIDE DEF s, x, r, n
<1>9. ASSUME NEW i \in S, NEW m \in Int, Place(S, i) = m - 1, m # k
      PROVE  InOrder(W)[IF m < k THEN m ELSE m - 1] = i
  <2>1. k \in Int /\ x \in Int /\ i \in Int /\ x \in S /\ Place(S, x) = k - 1
    BY <1>1, <1>6
  <2>2. i # x
    BY <1>9, <2>1
  <2>3. i < x <=> m < k
    BY <1>7, <1>9, <2>1, <2>2
  <2>4. Place(W, i) + 1 = IF m < k THEN m ELSE m - 1
    BY <1>8, <1>9, <2>1, <2>2, <2>3
  <2> QED
    BY <1>8, <2>2, <2>4
<1>10. ASSUME NEW m \in 1..n - 1 PROVE r[m] = InOrder(W)[m]
  <2>1. m \in Int /\ k \in Int
    BY <1>1
  <2>2. CASE m < k
    <3>1. s[m] \in S /\ Place(S, s[m]) = m - 1 /\ m # k
      BY <1>1, <1>5, <2>1, <2>2
    <3>2. InOrder(W)[IF m < k THEN m ELSE m - 1] = s[m]
      BY <1>9, <2>1, <3>1
    <3> QED
      BY <1>4, <2>2, <3>2
  <2>3. CASE ~(m < k)
    <3> DEFINE q == m + 1
    <3>1. q \in 1..n /\ q \in Int /\ q - 1 = m /\ ~(q < k) /\ q # k
      BY <1>1, <2>1, <2>3
    <3>2. r[m] = s[q]
      BY <1>4, <2>3
    <3> HIDE DEF q
    <3>3. s[q] \in S /\ Place(S, s[q]) = q - 1
      BY <1>5, <3>1
    <3>4. InOrder(W)[IF q < k THEN q ELSE q - 1] = s[q]
      BY <1>9, <3>1, <3>3
    <3> QED
      BY <3>1, <3>2, <3>4
  <2> QED
    BY <2>2, <2>3
<1>11. InOrder(W) \in Seq(S)
  BY <1>3
<1>12. r = InOrder(W)
  <2> HIDE DEF W
  <2> QED
    BY <1>1, <1>3, <1>4, <1>10, <1>11, SeqEqual
<1> QED
  BY <1>12 DEF r, s, x, n

\* The fetch of the rows up to some key is the beginning of the whole fetch.
LEMMA InOrderBeginning ==
  ASSUME NEW b \in Nat, NEW S \in SUBSET (1..b), NEW n \in Nat,
         NEW k \in DOMAIN InOrder(Below(S, n))
  PROVE  k \in DOMAIN InOrder(S) /\ InOrder(Below(S, n))[k] = InOrder(S)[k]
<1> DEFINE A == Below(S, n)
           i == InOrder(A)[k]
<1>1. A \in SUBSET (1..b)
  BY DEF Below
<1>2. k \in 1..Cardinality(A)
  BY <1>1, InOrderSeq
<1> HIDE DEF A
<1>3. i \in A /\ k \in Int /\ Place(A, i) = k - 1
  <2>1. InOrder(A) \in [1..Cardinality(A) -> A]
        /\ \A m \in 1..Cardinality(A) : Place(A, InOrder(A)[m]) = m - 1
    BY <1>1, InOrderLists
  <2>2. Cardinality(A) \in Nat
    BY <1>1, PlaceType
  <2> QED
    BY <1>2, <2>1, <2>2
<1> HIDE DEF i
<1>4. i \in S /\ i < n
  BY <1>3 DEF A, Below
<1>5. \A j \in S : j < i => j < n
  BY <1>4
<1>6. Below(A, i) = Below(S, i)
  BY <1>5 DEF A, Below
<1>7. Place(S, i) + 1 = k
  BY <1>3, <1>6 DEF Place
<1>8. k \in 1..Cardinality(S) /\ InOrder(S)[k] = i
  BY <1>4, <1>7, InOrderLists
<1> QED
  BY <1>8, InOrderSeq DEF i, A

-----------------------------------------------------------------------------
(* The arrays *)

\* An array numbers the packages as a fetch of all of them does, up to the
\* packages that came later.
Numbered(s, live) == \E n \in Nat : s = InOrder(Below(live, n))


LEMMA LiveType ==
  ASSUME RowsTypeOK
  PROVE  /\ Live \in SUBSET (1..MaxRows)
         /\ Ids = 1..MaxRows
         /\ MaxRows \in Nat
         /\ Live \subseteq 1..lastId
         /\ lastId \in 0..MaxRows
<1>1. lastId \in 0..MaxRows /\ Live \subseteq 1..lastId /\ MaxRows \in Nat
  BY StoreAssumption DEF RowsTypeOK
<1>2. \A i \in Live : i \in 1..MaxRows
  BY <1>1
<1> QED
  BY <1>1, <1>2 DEF Ids

\* A fetch, and what it is made of.
LEMMA FetchType ==
  ASSUME RowsTypeOK, NEW S \in SUBSET Live
  PROVE  /\ InOrder(S) \in Seq(Ids)
         /\ Elements(InOrder(S)) = S
<1>1. S \in SUBSET (1..MaxRows) /\ MaxRows \in Nat /\ Ids = 1..MaxRows
  BY LiveType
<1>2. InOrder(S) \in Seq(S) /\ Elements(InOrder(S)) = S
  BY <1>1, InOrderSeq
<1> QED
  BY <1>1, <1>2, SeqMonotonic

\* Both a fetch of everything and an empty array are numbered.
LEMMA FetchNumbered ==
  ASSUME RowsTypeOK
  PROVE  /\ Numbered(InOrder(Live), Live)
         /\ Numbered(<<>>, Live)
         /\ InOrder({}) = <<>>
<1>1. Live \in SUBSET (1..MaxRows) /\ MaxRows \in Nat
  BY LiveType
<1>2. \A i \in Live : i < MaxRows + 1 /\ ~(i < 0)
  BY <1>1
<1>3. Below(Live, MaxRows + 1) = Live /\ Below(Live, 0) = {}
  BY <1>2 DEF Below
<1>4. InOrder({}) = <<>>
  <2>1. Cardinality({}) = 0
    BY FS_EmptySet
  <2> QED
    BY <2>1 DEF InOrder
<1>5. MaxRows + 1 \in Nat /\ 0 \in Nat
  BY <1>1
<1> QED
  BY <1>3, <1>4, <1>5 DEF Numbered

\* Two numbered arrays agree wherever both have a row.
LEMMA NumberedAgree ==
  ASSUME RowsTypeOK, NEW s, NEW t, Numbered(s, Live), Numbered(t, Live),
         NEW k \in DOMAIN s \cap DOMAIN t
  PROVE  s[k] = t[k]
<1>1. PICK n \in Nat : s = InOrder(Below(Live, n))
  BY DEF Numbered
<1>2. PICK m \in Nat : t = InOrder(Below(Live, m))
  BY DEF Numbered
<1>3. Live \in SUBSET (1..MaxRows) /\ MaxRows \in Nat
  BY LiveType
<1>4. s[k] = InOrder(Live)[k]
  BY <1>1, <1>3, InOrderBeginning
<1>5. t[k] = InOrder(Live)[k]
  BY <1>2, <1>3, InOrderBeginning
<1> QED
  BY <1>4, <1>5

\* An array that holds all packages of another one has all of its row numbers.
LEMMA CoveredRows ==
  ASSUME RowsTypeOK, NEW s, NEW t, Numbered(s, Live), Numbered(t, Live),
         Elements(s) \subseteq Elements(t)
  PROVE  DOMAIN s \subseteq DOMAIN t
<1>1. PICK n \in Nat : s = InOrder(Below(Live, n))
  BY DEF Numbered
<1>2. PICK m \in Nat : t = InOrder(Below(Live, m))
  BY DEF Numbered
<1>3. /\ Below(Live, n) \in SUBSET (1..MaxRows)
      /\ Below(Live, m) \in SUBSET (1..MaxRows)
      /\ MaxRows \in Nat
  BY LiveType DEF Below
<1>4. Below(Live, n) \subseteq Below(Live, m)
  <2>1. Elements(s) = Below(Live, n)
    BY <1>1, <1>3, InOrderSeq
  <2>2. Elements(t) = Below(Live, m)
    BY <1>2, <1>3, InOrderSeq
  <2> QED
    BY <2>1, <2>2
<1>5. /\ Cardinality(Below(Live, n)) <= Cardinality(Below(Live, m))
      /\ Cardinality(Below(Live, n)) \in Nat /\ Cardinality(Below(Live, m)) \in Nat
  BY <1>3, <1>4, PlaceType, FS_Subset
<1>6. DOMAIN s = 1..Cardinality(Below(Live, n)) /\ DOMAIN t = 1..Cardinality(Below(Live, m))
  BY <1>1, <1>2, <1>3, InOrderSeq
<1> QED
  BY <1>5, <1>6

\* A registration leaves the numbers as they are: its key is the largest.
LEMMA NumberedGrows ==
  ASSUME RowsTypeOK, NEW s, Numbered(s, Live), Live' = Live \cup {lastId + 1}
  PROVE  Numbered(s, Live')
<1>1. PICK n \in Nat : s = InOrder(Below(Live, n))
  BY DEF Numbered
<1>2. lastId \in Nat /\ \A i \in Live : i \in Int /\ i < lastId + 1
  BY LiveType
<1>3. CASE n <= lastId + 1
  <2>1. Below(Live', n) = Below(Live, n)
    BY <1>2, <1>3 DEF Below
  <2> QED
    BY <1>1, <2>1 DEF Numbered
<1>4. CASE lastId + 1 < n
  <2>1. Below(Live, n) = Live
    BY <1>2, <1>4 DEF Below
  <2>2. Below(Live', lastId + 1) = Live
    BY <1>2 DEF Below
  <2> QED
    BY <1>1, <1>2, <2>1, <2>2 DEF Numbered
<1> QED
  BY <1>2, <1>3, <1>4

\* Deleting the package of row k, and the row.
LEMMA NumberedShrinks ==
  ASSUME RowsTypeOK, NEW s, Numbered(s, Live), NEW k \in DOMAIN s, Live' = Live \ {s[k]}
  PROVE  /\ Numbered(RemoveAt(s, k), Live')
         /\ Elements(RemoveAt(s, k)) \subseteq Live'
<1>1. PICK n \in Nat : s = InOrder(Below(Live, n))
  BY DEF Numbered
<1>2. Below(Live, n) \in SUBSET (1..MaxRows) /\ MaxRows \in Nat
  BY LiveType DEF Below
<1>3. RemoveAt(s, k) = InOrder(Below(Live, n) \ {s[k]})
  BY <1>1, <1>2, InOrderRemove
<1>4. Below(Live, n) \ {s[k]} = Below(Live', n)
  BY DEF Below
<1>5. Below(Live', n) \in SUBSET (1..MaxRows) /\ Below(Live', n) \subseteq Live'
  BY <1>2, <1>4 DEF Below
<1>6. Elements(RemoveAt(s, k)) = Below(Live', n)
  BY <1>2, <1>3, <1>4, <1>5, InOrderSeq
<1> QED
  BY <1>3, <1>4, <1>5, <1>6 DEF Numbered

\* The type invariant without what StoreInv has of it.
ScreensTyped == deletes \subseteq Live /\ ScreenTypeOK /\ ListTypeOK

\* Every swipe of the tab finds a package.
Covered == Elements(coreData) \subseteq Elements(eventArray)

\* The table, or a package of it, is shown.
ListShown == tab \in {"warning", "detail"}

\* What holds of the arrays whatever is shown, and what holds of them until a
\* filter is applied or a delete fails.
ArraysAre ==
  /\ Elements(eventArray) \subseteq Live
  /\ deletes = {} => Numbered(eventArray, Live)
  /\ shownFrom = "manager" => Elements(coreData) \subseteq Live
  /\ shownFrom = "manager" /\ deletes = {} => Numbered(coreData, Live)
  /\ ListShown /\ open = {} /\ shownFrom = "manager" /\ deletes = {} => Covered

\* The screens of a process that begins, or ended.
LEMMA NewScreensArrays ==
  ASSUME RowsTypeOK, NEW saved, saved = {} \/ saved = Live, NewScreens(saved),
         Live' = Live, deletes' \subseteq Live
  PROVE  (ScreensTyped /\ ArraysAre)'
<1>1. /\ InOrder(saved) \in Seq(Ids)
      /\ Elements(InOrder(saved)) \subseteq Live
      /\ Numbered(InOrder(saved), Live)
  BY FetchType, FetchNumbered
<1>2. <<>> \in Seq(Ids) /\ Elements(<<>>) = {} /\ Numbered(<<>>, Live)
  BY FetchNumbered DEF Elements
<1>3. ScreensTyped'
  BY <1>1, <1>2 DEF NewScreens, ScreensTyped, ScreenTypeOK, ListTypeOK, Tabs, Alerts,
     NoJob, Jobs, Templates
<1>4. ArraysAre'
  BY <1>1, <1>2 DEF NewScreens, ArraysAre, ListShown
<1> QED
  BY <1>3, <1>4

\* Steps that neither the arrays nor the set of saved packages notice.
LEMMA SameArrays ==
  ASSUME ArraysAre, Live' = Live, UNCHANGED <<deletes, coreData, shownFrom, eventArray>>,
         ListShown' /\ open' = {} => ListShown /\ open = {}
  PROVE  ArraysAre'
  BY DEF ArraysAre, Covered

\* viewWillAppear.
LEMMA AppearArrays ==
  ASSUME RowsTypeOK, ScreensTyped, ArraysAre, Appear
  PROVE  (ScreensTyped /\ ArraysAre)'
<1>1. /\ coreData' = InOrder(Live)
      /\ shownFrom' = "manager"
      /\ tab' = "warning"
      /\ UNCHANGED <<alert, eventArray, filterJob, deletes>>
      /\ Live' = Live
  BY DEF Appear, Live
<1>2. PICK g \in Groups : open' = open \cup {g} /\ waiting' = [waiting EXCEPT ![g] = Live]
  BY DEF Appear
<1>3. Live \subseteq Ids
  BY LiveType
<1>4. ScreensTyped'
  BY <1>1, <1>2, <1>3, FetchType DEF ScreensTyped, ScreenTypeOK, ListTypeOK, Tabs
<1>5. ArraysAre'
  BY <1>1, <1>2, FetchType, FetchNumbered DEF ArraysAre
<1> QED
  BY <1>4, <1>5

\* didUpdatePackages: eventArray holds every package that is not marked.
LEMMA NotifyArrays ==
  ASSUME RowsTypeOK, ScreensTyped, ArraysAre, NEW g \in Groups, Notify(g)
  PROVE  (ScreensTyped /\ ArraysAre)'
<1>1. /\ eventArray' = InOrder(Live \ deletes)
      /\ open' \subseteq open
      /\ UNCHANGED <<tab, alert, coreData, shownFrom, waiting, filterJob, deletes>>
      /\ Live' = Live
  BY DEF Notify, LoadSaveData, Fetched, screenVars, Live
<1>2. InOrder(Live \ deletes) \in Seq(Ids) /\ Elements(InOrder(Live \ deletes)) = Live \ deletes
  BY FetchType
<1>3. ScreensTyped'
  BY <1>1, <1>2 DEF ScreensTyped, ScreenTypeOK, ListTypeOK
<1>4. deletes = {} => Live \ deletes = Live
  OBVIOUS
<1>5. ArraysAre'
  BY <1>1, <1>2, <1>4, FetchNumbered DEF ArraysAre, Covered
<1> QED
  BY <1>3, <1>5

\* A swipe whose save succeeds: there were no marks before, and the package of
\* the row is gone, with the row if the table shows the manager's fetch.
LEMMA CommitSavedArrays ==
  ASSUME ListInv, ScreensTyped, ArraysAre, NEW k \in Ids, Commit(k),
         CanDelete(deletes \cup {eventArray[k]})
  PROVE  /\ deletes = {}
         /\ Live' = Live \ {eventArray[k]}
         /\ shownFrom = "manager" => coreData[k] = eventArray[k]
                                     /\ eventArray[k] \notin Elements(coreData')
         /\ (ScreensTyped /\ ArraysAre)'
<1>1. /\ RowsTypeOK /\ RowsTypeOK'
      /\ coreData \in Seq(Ids) /\ k \in DOMAIN coreData \cap DOMAIN eventArray
  BY CommitInv DEF ListInv, StoreInv, ScreensTyped, ListTypeOK, Commit
<1>2. deletes = {}
  BY DEF ListInv, MarksAreStuck, CanDelete
<1>3. /\ Live' = Live \ {eventArray[k]}
      /\ deletes' = {}
      /\ coreData' = RemoveAt(coreData, k)
      /\ eventArray' = InOrder(Live')
      /\ UNCHANGED <<tab, alert, shownFrom, open, waiting, filterJob>>
  BY <1>2, WithoutRows DEF Commit, LoadSaveData, Fetched, screenVars
<1>4. eventArray' \in Seq(Ids) /\ Elements(eventArray') = Live' /\ Numbered(eventArray', Live')
  <2>1. Live' \in SUBSET Live
    BY <1>3
  <2>2. eventArray' \in Seq(Ids) /\ Elements(eventArray') = Live'
    BY <1>1, <1>3, <2>1, FetchType
  <2>3. Numbered(InOrder(Live'), Live')
    <3>1. Live' \in SUBSET (1..MaxRows) /\ MaxRows \in Nat /\ MaxRows + 1 \in Nat
      BY <1>1, <2>1, LiveType
    <3>2. \A i \in Live' : i < MaxRows + 1
      BY <3>1
    <3>3. Below(Live', MaxRows + 1) = Live'
      BY <3>2 DEF Below
    <3> QED
      BY <3>1, <3>3 DEF Numbered
  <2> QED
    BY <1>3, <2>2, <2>3
<1>5. coreData' \in Seq(Ids) /\ Elements(coreData') \subseteq Elements(coreData)
  BY <1>1, <1>3, RemoveAtRows
<1>6. ASSUME shownFrom = "manager"
      PROVE  /\ coreData[k] = eventArray[k]
             /\ Numbered(coreData', Live')
             /\ Elements(coreData') \subseteq Live'
  <2>1. Numbered(coreData, Live) /\ Numbered(eventArray, Live)
    BY <1>2, <1>6 DEF ArraysAre
  <2>2. coreData[k] = eventArray[k]
    BY <1>1, <2>1, NumberedAgree
  <2> QED
    BY <1>1, <1>3, <2>1, <2>2, NumberedShrinks
<1>7. ScreensTyped'
  BY <1>3, <1>4, <1>5 DEF ScreensTyped, ScreenTypeOK, ListTypeOK
<1>8. ArraysAre'
  BY <1>3, <1>4, <1>6 DEF ArraysAre, Covered
<1>9. shownFrom = "manager" => eventArray[k] \notin Elements(coreData')
  BY <1>3, <1>6
<1> QED
  BY <1>2, <1>3, <1>6, <1>7, <1>8, <1>9

\* A swipe whose save is rejected: the package stays, its row goes.
LEMMA CommitRejectedArrays ==
  ASSUME RowsTypeOK, ScreensTyped, ArraysAre, NEW k \in Ids, Commit(k),
         ~CanDelete(deletes \cup {eventArray[k]})
  PROVE  Live' = Live /\ (ScreensTyped /\ ArraysAre)'
<1> DEFINE marked == deletes \cup {eventArray[k]}
<1>1. /\ Live' = Live
      /\ deletes' = marked
      /\ coreData' = RemoveAt(coreData, k)
      /\ eventArray' = InOrder(Live \ marked)
      /\ UNCHANGED <<tab, alert, shownFrom, open, waiting, filterJob>>
  BY DEF Commit, LoadSaveData, Fetched, screenVars, Live
<1>2. k \in DOMAIN coreData /\ coreData \in Seq(Ids) /\ k \in DOMAIN eventArray
  BY DEF Commit, ScreensTyped, ListTypeOK
<1>3. marked \subseteq Live /\ marked # {}
  BY <1>2 DEF ScreensTyped, ArraysAre, Elements
<1> HIDE DEF marked
<1>4. eventArray' \in Seq(Ids) /\ Elements(eventArray') \subseteq Live
  BY <1>1, FetchType
<1>5. coreData' \in Seq(Ids) /\ Elements(coreData') \subseteq Elements(coreData)
  BY <1>1, <1>2, RemoveAtRows
<1>6. ScreensTyped'
  BY <1>1, <1>3, <1>4, <1>5 DEF ScreensTyped, ScreenTypeOK, ListTypeOK
<1>7. ArraysAre'
  BY <1>1, <1>3, <1>4, <1>5 DEF ArraysAre
<1> QED
  BY <1>1, <1>6, <1>7

LEMMA CommitArrays ==
  ASSUME ListInv, ScreensTyped, ArraysAre, NEW k \in Ids, Commit(k)
  PROVE  (ScreensTyped /\ ArraysAre)'
  BY CommitSavedArrays, CommitRejectedArrays DEF ListInv, StoreInv

\* Every end of the process.
LEMMA DeathArrays ==
  ASSUME ListInv, NEW why, Die(why), NewScreens({})
  PROVE  (ScreensTyped /\ ArraysAre)'
  BY NewScreensArrays DEF Die, Live, ListInv, StoreInv

\* The sheet of filters, the other screens and the alerts.
LEMMA ScreenArrays ==
  ASSUME ScreensTyped, ArraysAre,
         \/ LeaveTab \/ OpenFilter \/ CancelFilter
         \/ DetailAlert \/ OtherAlert \/ HomeAlert \/ DismissAlert
         \/ \E t \in OfferedTemplates : ChooseFilter(t)
         \/ \E k \in Ids : ShowDetail(k)
  PROVE  (ScreensTyped /\ ArraysAre)'
<1>1. UNCHANGED <<rows, deletes, coreData, shownFrom, eventArray, open, waiting>>
  BY DEF LeaveTab, OpenFilter, CancelFilter, DetailAlert, OtherAlert, HomeAlert, DismissAlert,
     ChooseFilter, ShowDetail, storeVars, listVars
<1>6. ListShown' => ListShown
  BY ScreenAssumption DEF ListShown, LeaveTab, SwitchTab, OpenFilter, CancelFilter, DetailAlert,
     OtherAlert, MenuAlert, HomeAlert, DismissAlert, ChooseFilter, ShowDetail, Touchable
<1>2. tab' \in Tabs /\ alert' \in Alerts
  <2>1. CASE LeaveTab \/ OtherAlert
    BY <2>1, ScreenAssumption DEF ScreensTyped, ScreenTypeOK, Tabs, Alerts, LeaveTab, SwitchTab,
       OtherAlert, MenuAlert, Present
  <2>2. CASE ~LeaveTab /\ ~OtherAlert
    BY <2>2 DEF ScreensTyped, ScreenTypeOK, Tabs, Alerts, OpenFilter, CancelFilter, DetailAlert,
       HomeAlert, DismissAlert, ChooseFilter, ShowDetail
  <2> QED
    BY <2>1, <2>2
<1>3. filterJob' \in Jobs
  <2>1. CASE \E t \in OfferedTemplates : ChooseFilter(t)
    <3>1. <<>> \in Seq(Ids)
      OBVIOUS
    <3> QED
      BY <2>1, <3>1, ListAssumption DEF ChooseFilter, Jobs
  <2>2. CASE UNCHANGED filterJob
    BY <2>2 DEF ScreensTyped, ListTypeOK
  <2> QED
    BY <2>1, <2>2 DEF LeaveTab, OpenFilter, CancelFilter, DetailAlert, OtherAlert, HomeAlert,
       DismissAlert,
       ShowDetail, listVars
<1>4. ScreensTyped'
  BY <1>1, <1>2, <1>3 DEF ScreensTyped, ScreenTypeOK, ListTypeOK, Live
<1>5. ArraysAre'
  BY <1>1, <1>6, SameArrays DEF Live
<1> QED
  BY <1>4, <1>5

\* A filter's answer shows packages, in the order of their keys.
LEMMA FilterArrays ==
  ASSUME RowsTypeOK, ScreensTyped, ArraysAre, FilterFetch \/ FilterShow
  PROVE  (ScreensTyped /\ ArraysAre)'
<1>1. CASE FilterFetch
  <2> DEFINE found == {id \in Live : Finds(filterJob.template, rows[id].image)}
  <2>1. InOrder(found) \in Seq(Ids)
    BY FetchType
  <2>2. filterJob' = [filterJob EXCEPT !.phase = "found", !.found = InOrder(found)]
    BY <1>1 DEF FilterFetch
  <2> HIDE DEF found
  <2>3. filterJob' \in Jobs
    BY <2>1, <2>2 DEF ScreensTyped, ListTypeOK, Jobs
  <2>4. UNCHANGED <<rows, deletes, tab, alert, coreData, shownFrom, eventArray, open, waiting>>
    BY <1>1 DEF FilterFetch, storeVars, screenVars
  <2>5. ScreensTyped'
    BY <2>3, <2>4 DEF ScreensTyped, ScreenTypeOK, ListTypeOK, Live
  <2> QED
    BY <2>4, <2>5, SameArrays DEF Live, ListShown
<1>2. CASE FilterShow
  <2>1. /\ UNCHANGED <<rows, deletes, tab, alert, eventArray, open, waiting>>
        /\ coreData' = filterJob.found
        /\ shownFrom' = "stack"
        /\ filterJob' = NoJob
    BY <1>2 DEF FilterShow, storeVars, screenVars
  <2>2. coreData' \in Seq(Ids) /\ filterJob' \in Jobs
    BY <2>1 DEF ScreensTyped, ListTypeOK, Jobs, NoJob, Templates
  <2>3. ScreensTyped'
    BY <2>1, <2>2 DEF ScreensTyped, ScreenTypeOK, ListTypeOK, Live
  <2> QED
    BY <2>1, <2>3 DEF ArraysAre, Live
<1> QED
  BY <1>1, <1>2

\* Steps of the session's queue that the list does not see.
LEMMA QueueArrays ==
  ASSUME StoreInv, ScreensTyped, ArraysAre,
         \/ QueueStep /\ UNCHANGED <<screenVars, listVars>>
         \/ CompletionLeaves
  PROVE  (ScreensTyped /\ ArraysAre)'
<1>1. Live' = Live /\ UNCHANGED deletes
  BY QueueKeepsIdentity DEF CompletionLeaves, UpdateReturns, QueueStep, Answered, SetStatus,
     BlankImage,
     SaveUpdate
<1>2. UNCHANGED <<tab, alert, coreData, shownFrom, eventArray, open, filterJob>>
  BY DEF screenVars, listVars, CompletionLeaves
<1>3. waiting' \in [Groups -> SUBSET Ids]
  BY DEF ScreensTyped, ListTypeOK, CompletionLeaves, listVars
<1>4. ScreensTyped'
  BY <1>1, <1>2, <1>3 DEF ScreensTyped, ScreenTypeOK, ListTypeOK
<1> QED
  BY <1>1, <1>2, <1>4, SameArrays DEF ListShown

\* A registration, whatever tab is shown.
LEMMA HomeAddsArrays ==
  ASSUME StoreInv, ScreensTyped, ArraysAre, HomeAdds
  PROVE  (ScreensTyped /\ ArraysAre)'
<1>1. PICK p \in HomePackages : AddPackage(p[1], p[2])
  BY DEF HomeAdds
<1>2. Live' = Live \cup {lastId + 1} /\ UNCHANGED deletes
  BY <1>1, AddPackageRows DEF AddPackage
<1>3. /\ UNCHANGED <<tab, coreData, shownFrom, eventArray, open, waiting, filterJob>>
      /\ alert' \in {alert, "saved"}
  BY DEF HomeAdds, listVars
<1>4. ScreensTyped'
  BY <1>2, <1>3 DEF ScreensTyped, ScreenTypeOK, ListTypeOK, Alerts
<1>5. \A s : Numbered(s, Live) => Numbered(s, Live')
  BY <1>2, NumberedGrows DEF StoreInv
<1>6. ArraysAre'
  BY <1>2, <1>3, <1>5 DEF ArraysAre, Covered, ListShown
<1> QED
  BY <1>4, <1>6

ArraysInv == ListInv /\ ScreensTyped /\ ArraysAre

LEMMA ArraysInit == Init => ArraysInv
<1> SUFFICES ASSUME Init PROVE ScreensTyped /\ ArraysAre
  BY ListInvInit DEF ArraysInv
<1>1. RowsTypeOK
  BY ListInvInit DEF ListInv, StoreInv
<1>2. <<>> \in Seq(Ids) /\ Elements(<<>>) = {} /\ Numbered(<<>>, Live)
  BY <1>1, FetchNumbered DEF Elements
<1> QED
  BY <1>2 DEF Init, StoreInit, ScreenInit, ScreensTyped, ScreenTypeOK, ListTypeOK, ArraysAre,
     Tabs, Alerts, NoJob, Jobs, Templates, Covered

LEMMA ArraysNext == ArraysInv /\ [Next]_vars => ArraysInv'
<1> SUFFICES ASSUME ArraysInv, [Next]_vars PROVE (ScreensTyped /\ ArraysAre)'
  BY ListNext DEF ArraysInv
<1> USE DEF ArraysInv
<1>1. StoreInv /\ RowsTypeOK
  BY DEF ListInv, StoreInv
<1>2. CASE ListStep
  <2>1. CASE Appear
    BY <1>1, <2>1, AppearArrays
  <2>2. CASE \E k \in Ids : Commit(k)
    BY <2>2, CommitArrays
  <2>3. CASE CommitEmptyState \/ \E k \in Ids : CommitBeyond(k)
    BY <2>3, DeathArrays DEF CommitEmptyState, CommitBeyond
  <2>4. CASE CompletionLeaves
    BY <1>1, <2>4, QueueArrays
  <2>5. CASE FilterFetch \/ FilterShow
    BY <1>1, <2>5, FilterArrays
  <2>6. CASE \E g \in Groups : Notify(g)
    BY <1>1, <2>6, NotifyArrays
  <2> QED
    BY <1>2, <2>1, <2>2, <2>3, <2>4, <2>5, <2>6, ScreenArrays DEF ListStep, UserStep
<1>3. CASE StoreStep
  <2>1. CASE QueueStep
    <3>1. proc' = "up"
      BY <2>1 DEF QueueStep, Answered, SetStatus, BlankImage, SaveUpdate, Up
    <3> QED
      BY <1>1, <1>3, <2>1, <3>1, QueueArrays DEF StoreStep, ScreensFollow
  <2>2. CASE QueueDeath \/ EnterBackground \/ Kill
    <3>1. PICK why \in Deaths : Die(why)
      BY <2>2 DEF QueueDeath, AnsweredWithError, SaveUpdateFails, EnterBackground, Kill, Deaths,
         ListInv, MarksAreStuck
    <3>2. NewScreens({})
      BY <1>3, <3>1 DEF StoreStep, ScreensFollow, Die, Deaths
    <3> QED
      BY <3>1, <3>2, DeathArrays
  <2> QED
    BY <1>3, <2>1, <2>2 DEF StoreStep
<1>4. CASE HomeAdds
  BY <1>1, <1>4, HomeAddsArrays
<1>5. CASE HomeAddFails
  BY <1>5, DeathArrays DEF HomeAddFails, AddPackageFails
<1>6. CASE HomeAlert \/ DismissAlert
  BY <1>6, ScreenArrays
<1>7. CASE Relaunch
  <2>1. Live' = Live /\ deletes' \subseteq Live /\ NewScreens(Live)
    BY <1>7 DEF Relaunch, Restart, ScreensTyped, Live
  <2> QED
    BY <1>1, <2>1, NewScreensArrays
<1>8. CASE UNCHANGED vars
  <2>1. UNCHANGED <<rows, deletes, tab, alert, coreData, shownFrom, eventArray, open, waiting,
  filterJob>>
    BY <1>8 DEF vars, storeVars, screenVars, listVars
  <2>2. ScreensTyped'
    BY <2>1 DEF ScreensTyped, ScreenTypeOK, ListTypeOK, Live
  <2> QED
    BY <2>1, <2>2, SameArrays DEF Live, ListShown
<1> QED
  BY <1>2, <1>3, <1>4, <1>5, <1>6, <1>7, <1>8 DEF Next

LEMMA ArraysAlways == Spec => []ArraysInv
  BY ArraysInit, ArraysNext, PTL DEF Spec

-----------------------------------------------------------------------------
(* The theorems about the arrays *)

\* No combination of refreshes, swipes, filters, registrations and deaths
\* brings the list or the store out of its type.
THEOREM TypeCorrect == Spec => []TypeOK
<1>1. ArraysInv => TypeOK
  BY DEF ArraysInv, ListInv, StoreInv, ScreensTyped, TypeOK, StoreTypeOK
<1> QED
  BY <1>1, ArraysAlways, PTL

\* The row number of a swipe finds in eventArray the package the table shows,
\* unless a filter is applied or a delete has failed.
THEOREM ArraysAgree == Spec => []SameNumbers
<1>1. ArraysInv => SameNumbers
  BY NumberedAgree DEF ArraysInv, ListInv, StoreInv, ArraysAre, SameNumbers
<1> QED
  BY <1>1, ArraysAlways, PTL

\* Without a filter every row of the table is a saved package.
THEOREM ShowsWhatExists == Spec => []ShownPackagesExist
<1>1. ArraysInv => ShownPackagesExist
  BY DEF ArraysInv, ArraysAre, ShownPackagesExist
<1> QED
  BY <1>1, ArraysAlways, PTL

\* The only steps that remove packages are swipes whose save succeeds.
LEMMA OnlySwipesDelete ==
  ASSUME ArraysInv, [Next]_vars, ~(Live \subseteq Live')
  PROVE  \E k \in Ids : Commit(k) /\ CanDelete(deletes \cup {eventArray[k]})
<1>1. RowStep /\ StoreInv
  BY ListNext DEF ArraysInv, ListInv
<1>2. CASE \E k \in Ids : Commit(k)
  BY <1>2, CommitRejectedArrays, <1>1 DEF ArraysInv, StoreInv
<1>3. CASE StoreStep
  <2>1. CASE QueueStep
    BY <1>1, <2>1, QueueKeepsIdentity
  <2>2. CASE QueueDeath \/ Kill \/ EnterBackground
    BY <2>2 DEF QueueDeath, AnsweredWithError, SaveUpdateFails, Kill, EnterBackground, Die, Live,
       ArraysInv, ListInv, MarksAreStuck
  <2> QED
    BY <1>3, <2>1, <2>2 DEF StoreStep
<1>4. CASE HomeAdds
  BY <1>1, <1>4, AddPackageRows DEF HomeAdds
<1>5. CASE HomeAddFails \/ HomeAlert \/ DismissAlert \/ Relaunch \/ UNCHANGED vars
  BY <1>5 DEF HomeAddFails, AddPackageFails, HomeAlert, DismissAlert, Relaunch, Restart, Die,
     vars, storeVars, Live
<1>6. CASE ListStep /\ ~\E k \in Ids : Commit(k)
  <2>1. UNCHANGED rows
    BY <1>6 DEF ListStep, UserStep, Appear, LeaveTab, OpenFilter, CancelFilter, ChooseFilter,
       ShowDetail, DetailAlert, OtherAlert, CommitBeyond, CommitEmptyState, CompletionLeaves,
       UpdateReturns,
       FilterFetch, FilterShow, Notify, Die, storeVars
  <2> QED
    BY <2>1 DEF Live
<1> QED
  BY <1>2, <1>3, <1>4, <1>5, <1>6 DEF Next

\* One swipe deletes one package, and the one whose row it is unless a filter
\* is applied or a delete has failed; nothing else deletes packages.
THEOREM SwipesOne == Spec => OneSwipeOnePackage
<1>1. ASSUME ArraysInv, [Next]_vars, NEW id \in Live \ Live'
      PROVE  /\ Live \ Live' = {id}
             /\ Touchable("warning")
             /\ shownFrom = "manager" /\ deletes = {} =>
                  id \in Elements(coreData) \ Elements(coreData')
  <2>1. PICK k \in Ids : Commit(k) /\ CanDelete(deletes \cup {eventArray[k]})
    BY <1>1, OnlySwipesDelete
  <2>2. /\ Live' = Live \ {eventArray[k]}
        /\ shownFrom = "manager" => coreData[k] = eventArray[k]
                                    /\ eventArray[k] \notin Elements(coreData')
    BY <1>1, <2>1, CommitSavedArrays DEF ArraysInv
  <2>3. id = eventArray[k] /\ Live \ Live' = {id}
    BY <1>1, <2>2
  <2>4. Touchable("warning") /\ k \in DOMAIN coreData
    BY <2>1 DEF Commit
  <2> QED
    BY <2>2, <2>3, <2>4 DEF Elements
<1>2. ArraysInv /\ [Next]_vars =>
        [\A id \in Live \ Live' :
           /\ Live \ Live' = {id}
           /\ Touchable("warning")
           /\ shownFrom = "manager" /\ deletes = {} =>
                id \in Elements(coreData) \ Elements(coreData')]_vars
  BY <1>1
<1> QED
  BY <1>2, ArraysAlways, PTL DEF Spec, OneSwipeOnePackage

\* Once a refresh has ended, and until a filter is applied or a delete fails,
\* every row of the table can be swiped.
THEOREM TrapsUnrefreshed == Spec => TrapsOnlyUnrefreshed
<1>1. ASSUME ArraysInv, [Next]_vars, Up, proc' = "outOfRange"
      PROVE  open # {} \/ shownFrom = "stack" \/ deletes # {} \/ coreData = <<>>
  <2>1. CommitEmptyState \/ \E k \in Ids : CommitBeyond(k)
    <3>1. ~UNCHANGED vars
      BY <1>1 DEF vars, storeVars, Up
    <3>2. ~StoreStep
      BY <1>1 DEF StoreStep, QueueStep, Answered, SetStatus, BlankImage, SaveUpdate, QueueDeath,
         AnsweredWithError, SaveUpdateFails, Kill, EnterBackground, Die, Up
    <3>3. ~(HomeAdds \/ HomeAddFails \/ HomeAlert \/ DismissAlert \/ Relaunch)
      BY <1>1 DEF HomeAdds, AddPackage, HomeAddFails, AddPackageFails, Die, HomeAlert,
         DismissAlert, Relaunch, Restart, storeVars, Up
    <3> QED
      BY <1>1, <3>1, <3>2, <3>3 DEF Next, ListStep, UserStep, Appear, LeaveTab, OpenFilter,
         CancelFilter, ChooseFilter, ShowDetail, DetailAlert, OtherAlert, Commit, CompletionLeaves,
         UpdateReturns, FilterFetch, FilterShow, Notify, storeVars, Up
  <2>2. CASE CommitEmptyState
    BY <2>2 DEF CommitEmptyState
  <2>3. CASE \E k \in Ids : CommitBeyond(k)
    <3>1. PICK k \in Ids : CommitBeyond(k)
      BY <2>3
    <3> SUFFICES ASSUME open = {}, shownFrom = "manager", deletes = {} PROVE FALSE
      BY <1>1 DEF ArraysInv, ScreensTyped, ListTypeOK
    <3>2. /\ Elements(coreData) \subseteq Elements(eventArray)
          /\ Numbered(coreData, Live) /\ Numbered(eventArray, Live)
      BY <1>1, <3>1 DEF CommitBeyond, Touchable, ArraysInv, ArraysAre, Covered,
         ListShown
    <3> QED
      BY <1>1, <3>1, <3>2, CoveredRows DEF CommitBeyond, ArraysInv, ListInv, StoreInv
  <2> QED
    BY <2>1, <2>2, <2>3
<1>2. ArraysInv /\ [Next]_vars =>
        [Up /\ proc' = "outOfRange" =>
           open # {} \/ shownFrom = "stack" \/ deletes # {} \/ coreData = <<>>]_vars
  BY <1>1
<1> QED
  BY <1>2, ArraysAlways, PTL DEF Spec, TrapsOnlyUnrefreshed

-----------------------------------------------------------------------------
(* The dispatch groups *)

\* The handler the session's queue is running, and all handlers still to run.
Current == [id |-> worker.id, group |-> worker.group]
Running == inflight \cup (IF worker.phase = "idle" THEN {} ELSE {Current})

\* A handler that is still to run finds its row in its group.
Entered(running, opened, entered) ==
  \A r \in running : r.group # NoGroup => r.group \in opened /\ r.id \in entered[r.group]

\* A group waits for nothing else, but for rows that were not asked for.
Awaited(running, opened, entered, saved, codes) ==
  \A g \in opened : \A id \in entered[g] :
    \/ [id |-> id, group |-> g] \in running
    \/ id \notin saved
    \/ codes[id] \in Malformed

Codes == [id \in Live |-> rows[id].code]

GroupsInv ==
  /\ open \subseteq Groups
  /\ waiting \in [Groups -> SUBSET (1..lastId)]
  /\ Entered(Running, open, waiting)
  /\ Awaited(Running, open, waiting, Live, Codes)
  /\ worker.phase # "idle" /\ worker.group # NoGroup => Current \notin inflight
  /\ ~Up => inflight = {} /\ worker.phase = "idle"

LEMMA GroupsInvBalanced == GroupsInv => GroupsBalanced
  BY DEF GroupsInv, GroupsBalanced, Entered, Awaited, Running, Current, Codes

\* Steps that change neither groups nor handlers, and keep the packages.
LEMMA SameGroups ==
  ASSUME GroupsInv, UNCHANGED <<lastId, inflight, worker, open, waiting>>,
         Live' \subseteq Live, \A id \in Live' : rows'[id].code = rows[id].code,
         proc' = "up" \/ (~Up /\ UNCHANGED proc)
  PROVE  GroupsInv'
  BY DEF GroupsInv, Entered, Awaited, Running, Current, Codes, Up

\* A process that begins, or ended.
LEMMA NoGroups ==
  ASSUME NEW saved, NewScreens(saved), inflight' = {}, worker'.phase = "idle"
  PROVE  GroupsInv'
  BY DEF NewScreens, GroupsInv, Entered, Awaited, Running

LEMMA DeathGroups ==
  ASSUME NEW why, Die(why), NewScreens({})
  PROVE  GroupsInv'
  BY NoGroups DEF Die, IdleWorker

\* Every package enters a group nobody uses, and is asked for if its code makes
\* a URL.
LEMMA AppearGroups ==
  ASSUME RowsTypeOK, GroupsInv, Appear
  PROVE  GroupsInv'
<1>1. PICK g \in Groups \ open :
        /\ open' = open \cup {g}
        /\ waiting' = [waiting EXCEPT ![g] = Live]
        /\ inflight' = inflight \cup Ask([id \in Live |-> rows[id].code], g)
  BY DEF Appear
<1>2. /\ UNCHANGED <<rows, lastId, worker, proc>>
      /\ Up
  BY DEF Appear
<1>3. Live' = Live /\ Codes' = Codes /\ Current' = Current
  BY <1>2 DEF Live, Codes, Current
<1> DEFINE asked == {[id |-> id, group |-> g] : id \in {i \in Live : Codes[i] \notin Malformed}}
<1>4. inflight' = inflight \cup asked /\ Running' = Running \cup asked
  BY <1>1, <1>2, <1>3 DEF Ask, Running, Codes
<1>5. \A r \in asked : r.group = g /\ r.id \in Live
  OBVIOUS
<1>6. \A id \in Live : [id |-> id, group |-> g] \in asked \/ Codes[id] \in Malformed
  OBVIOUS
<1> HIDE DEF asked
<1>7. waiting'[g] = Live /\ \A h \in open : waiting'[h] = waiting[h]
  BY <1>1 DEF GroupsInv
<1>8. Entered(Running', open', waiting')
  BY <1>1, <1>4, <1>5, <1>7 DEF GroupsInv, Entered
<1>9. Awaited(Running', open', waiting', Live', Codes')
  BY <1>1, <1>3, <1>4, <1>6, <1>7 DEF GroupsInv, Awaited
<1>10. open' \subseteq Groups /\ waiting' \in [Groups -> SUBSET (1..lastId')]
  BY <1>1, <1>2 DEF GroupsInv, RowsTypeOK
<1>11. worker'.phase # "idle" /\ worker'.group # NoGroup => Current' \notin inflight'
  <2> SUFFICES ASSUME worker.phase # "idle", worker.group # NoGroup PROVE Current \notin inflight'
    BY <1>2, <1>3
  <2>1. Current \in Running /\ Current.group = worker.group
    BY DEF Running, Current
  <2>2. Current.group \in open
    BY <2>1 DEF GroupsInv, Entered
  <2> QED
    BY <1>1, <1>4, <1>5, <2>2 DEF GroupsInv
<1> QED
  BY <1>2, <1>8, <1>9, <1>10, <1>11 DEF GroupsInv, Up

\* The answer leaves the requests and becomes the running handler.
LEMMA AnsweredGroups ==
  ASSUME StoreInv, GroupsInv, NEW r \in inflight, NEW s, NEW n, Answered(r, s, n),
         UNCHANGED listVars
  PROVE  GroupsInv'
<1>1. /\ inflight' = inflight \ {r}
      /\ worker'.phase = "loop" /\ worker'.id = r.id /\ worker'.group = r.group
      /\ worker.phase = "idle"
      /\ UNCHANGED <<rows, lastId, proc, open, waiting>>
      /\ Up
  BY DEF Answered, listVars
<1>2. r \in Requests
  BY DEF StoreInv, RowsTypeOK
<1>3. Current' = r
  BY <1>1, <1>2 DEF Current, Requests
<1>4. Running' = Running
  BY <1>1, <1>3 DEF Running
<1>5. Live' = Live /\ Codes' = Codes
  BY <1>1 DEF Live, Codes
<1> QED
  BY <1>1, <1>3, <1>4, <1>5 DEF GroupsInv, Up

\* The other steps of the running handler.
LEMMA HandlerGroups ==
  ASSUME StoreInv, GroupsInv, SetStatus \/ BlankImage \/ SaveUpdate, UNCHANGED listVars
  PROVE  GroupsInv'
<1>1. /\ worker'.phase # "idle" /\ worker'.id = worker.id /\ worker'.group = worker.group
      /\ worker.phase # "idle"
      /\ UNCHANGED <<lastId, inflight, proc, open, waiting>>
      /\ Up
  BY DEF StoreInv, RowsTypeOK, Workers, SetStatus, BlankImage, SaveUpdate, listVars
<1>2. Live' = Live /\ \A id \in Live : rows'[id].code = rows[id].code
  BY QueueKeepsIdentity DEF QueueStep
<1>3. Codes' = Codes
  BY <1>2 DEF Codes
<1>4. Current' = Current /\ Running' = Running
  BY <1>1 DEF Current, Running
<1> QED
  BY <1>1, <1>2, <1>3, <1>4 DEF GroupsInv, Up

\* The handler that has run leaves its group, and only it.
LEMMA CompletionGroups ==
  ASSUME StoreInv, GroupsInv, CompletionLeaves
  PROVE  GroupsInv'
<1>1. /\ worker.phase = "loop"
      /\ worker'.phase = "idle"
      /\ UNCHANGED <<rows, lastId, inflight, proc, open>>
      /\ waiting' = IF worker.group = NoGroup THEN waiting
                    ELSE [waiting EXCEPT ![worker.group] = waiting[worker.group] \ {worker.id}]
      /\ Up
  BY DEF CompletionLeaves, UpdateReturns, IdleWorker
<1>2. Live' = Live /\ Codes' = Codes
  BY <1>1 DEF Live, Codes
<1>3. Running = inflight \cup {Current} /\ Running' = inflight
  BY <1>1 DEF Running
<1>4. Current.id = worker.id /\ Current.group = worker.group
  BY DEF Current
<1>5. inflight \subseteq Requests
  BY DEF StoreInv, RowsTypeOK
<1>6. waiting' \in [Groups -> SUBSET (1..lastId')]
  BY <1>1 DEF GroupsInv
<1>7. Entered(Running', open', waiting')
  <2> SUFFICES ASSUME NEW r \in inflight, r.group # NoGroup
               PROVE  r.group \in open /\ r.id \in waiting'[r.group]
    BY <1>1, <1>3 DEF Entered
  <2>1. r.group \in open /\ r.id \in waiting[r.group] /\ r.group \in Groups
    BY <1>3 DEF GroupsInv, Entered
  <2>2. CASE worker.group = r.group
    <3>1. r # Current
      BY <1>1, <2>2 DEF GroupsInv
    <3>2. r.id # worker.id
      BY <1>5, <2>2, <3>1 DEF Requests, Current
    <3> QED
      BY <1>1, <2>1, <2>2, <3>2 DEF GroupsInv
  <2>3. CASE worker.group # r.group
    BY <1>1, <2>1, <2>3 DEF GroupsInv
  <2> QED
    BY <2>2, <2>3
<1>8. Awaited(Running', open', waiting', Live', Codes')
  <2> SUFFICES ASSUME NEW g \in open, NEW id \in waiting'[g], id \in Live,
  Codes[id] \notin Malformed
               PROVE  [id |-> id, group |-> g] \in inflight
    BY <1>1, <1>2, <1>3 DEF Awaited
  <2>1. g \in Groups /\ g # NoGroup
    BY StoreAssumption DEF GroupsInv, NoGroup
  <2>2. id \in waiting[g] /\ (worker.group = g => id # worker.id)
    BY <1>1, <2>1 DEF GroupsInv
  <2>3. [id |-> id, group |-> g] \in Running
    BY <2>2 DEF GroupsInv, Awaited
  <2>4. [id |-> id, group |-> g] # Current
    BY <2>2 DEF Current
  <2> QED
    BY <1>3, <2>3, <2>4
<1> QED
  BY <1>1, <1>6, <1>7, <1>8 DEF GroupsInv, Up

\* A group nobody is in is closed.
LEMMA NotifyGroups ==
  ASSUME GroupsInv, NEW g \in Groups, Notify(g)
  PROVE  GroupsInv'
<1>1. /\ open' = open \ {g}
      /\ waiting[g] = {}
      /\ UNCHANGED <<rows, lastId, inflight, worker, proc, waiting>>
  BY DEF Notify
<1>2. Live' = Live /\ Codes' = Codes /\ Running' = Running /\ Current' = Current
  BY <1>1 DEF Live, Codes, Running, Current
<1> QED
  BY <1>1, <1>2 DEF GroupsInv, Entered, Awaited, Up

\* A registration asks without a group, for a package no group has.
LEMMA HomeAddsGroups ==
  ASSUME StoreInv, GroupsInv, HomeAdds
  PROVE  GroupsInv'
<1>1. PICK p \in HomePackages : AddPackage(p[1], p[2])
  BY DEF HomeAdds
<1>2. /\ Live' = Live \cup {lastId + 1} /\ lastId' = lastId + 1
      /\ \A id \in Live : rows'[id].code = rows[id].code
  BY <1>1, AddPackageRows
<1>3. /\ UNCHANGED <<open, waiting, proc>>
      /\ Up
  BY <1>1 DEF HomeAdds, AddPackage, listVars
<1>4. lastId \in Nat
  BY DEF StoreInv, RowsTypeOK
<1>5. \A g \in Groups : \A id \in waiting[g] : id # lastId + 1
  BY <1>4 DEF GroupsInv
<1>6. worker' = [worker EXCEPT !.dirty = FALSE]
  BY <1>1 DEF AddPackage
<1>7. worker'.phase = worker.phase /\ worker'.id = worker.id /\ worker'.group = worker.group
  BY <1>6 DEF StoreInv, RowsTypeOK, Workers
<1> DEFINE asked == Ask([id \in {lastId + 1} |-> p[1]], NoGroup)
<1>8. inflight' = inflight \cup asked /\ \A r \in asked : r.group = NoGroup
  BY <1>1 DEF AddPackage, Ask
<1> HIDE DEF asked
<1>9. Current' = Current /\ Running' = Running \cup asked
  BY <1>7, <1>8 DEF Current, Running
<1>10. Entered(Running', open', waiting')
  BY <1>3, <1>8, <1>9 DEF GroupsInv, Entered
<1>11. Awaited(Running', open', waiting', Live', Codes')
  <2> SUFFICES ASSUME NEW g \in open, NEW id \in waiting[g],
                      [id |-> id, group |-> g] \notin Running', id \in Live'
               PROVE  Codes'[id] \in Malformed
    BY <1>3 DEF Awaited
  <2>1. id \in Live /\ [id |-> id, group |-> g] \notin Running
    BY <1>2, <1>5, <1>9 DEF GroupsInv
  <2>2. Codes[id] \in Malformed
    BY <2>1 DEF GroupsInv, Awaited
  <2> QED
    BY <1>2, <2>1, <2>2 DEF Codes
<1>12. waiting' \in [Groups -> SUBSET (1..lastId')]
  <2>1. 1..lastId \subseteq 1..lastId'
    BY <1>2, <1>4
  <2> QED
    BY <1>3, <2>1 DEF GroupsInv
<1>13. worker'.phase # "idle" /\ worker'.group # NoGroup => Current' \notin inflight'
  BY <1>7, <1>8, <1>9 DEF GroupsInv, Current
<1> QED
  BY <1>3, <1>10, <1>11, <1>12, <1>13 DEF GroupsInv, Up

\* A swipe takes packages from the store and no handler from a group.
LEMMA CommitGroups ==
  ASSUME ListInv, ScreensTyped, ArraysAre, GroupsInv, NEW k \in Ids, Commit(k)
  PROVE  GroupsInv'
<1>1. UNCHANGED <<lastId, inflight, worker, open, waiting, proc>> /\ Up
  BY DEF Commit
<1>2. CASE CanDelete(deletes \cup {eventArray[k]})
  BY <1>1, <1>2, WithoutRows, SameGroups DEF Commit, Up
<1>3. CASE ~CanDelete(deletes \cup {eventArray[k]})
  BY <1>1, <1>3, SameGroups DEF Commit, Up, Live
<1> QED
  BY <1>2, <1>3

LEMMA GroupsInit == Init => GroupsInv
  BY DEF Init, StoreInit, IdleWorker, GroupsInv, Entered, Awaited, Running, Up

LEMMA GroupsNext == ArraysInv /\ GroupsInv /\ [Next]_vars => GroupsInv'
<1> SUFFICES ASSUME ArraysInv, GroupsInv, [Next]_vars PROVE GroupsInv'
  OBVIOUS
<1>1. StoreInv /\ RowsTypeOK /\ ListInv /\ ScreensTyped /\ ArraysAre
  BY DEF ArraysInv, ListInv, StoreInv
<1>2. CASE ListStep
  <2>1. CASE Appear
    BY <1>1, <2>1, AppearGroups
  <2>2. CASE \E k \in Ids : Commit(k)
    BY <1>1, <2>2, CommitGroups
  <2>3. CASE CommitEmptyState \/ \E k \in Ids : CommitBeyond(k)
    BY <2>3, DeathGroups DEF CommitEmptyState, CommitBeyond
  <2>4. CASE CompletionLeaves
    BY <1>1, <2>4, CompletionGroups
  <2>5. CASE \E g \in Groups : Notify(g)
    BY <2>5, NotifyGroups
  <2>6. CASE \/ LeaveTab \/ OpenFilter \/ CancelFilter \/ DetailAlert
             \/ OtherAlert \/ FilterFetch \/ FilterShow
             \/ \E t \in OfferedTemplates : ChooseFilter(t)
             \/ \E k \in Ids : ShowDetail(k)
    <3>1. UNCHANGED <<rows, lastId, inflight, worker, proc, open, waiting>> /\ Up
      BY <2>6 DEF LeaveTab, OpenFilter, CancelFilter, DetailAlert, OtherAlert, FilterFetch,
         FilterShow,
         ChooseFilter, ShowDetail, storeVars, listVars
    <3> QED
      BY <3>1, SameGroups DEF Up, Live
  <2> QED
    BY <1>2, <2>1, <2>2, <2>3, <2>4, <2>5, <2>6 DEF ListStep, UserStep
<1>3. CASE StoreStep
  <2>1. CASE QueueStep
    <3>1. proc' = "up"
      BY <2>1 DEF QueueStep, Answered, SetStatus, BlankImage, SaveUpdate, Up
    <3>2. UNCHANGED listVars
      BY <1>3, <3>1 DEF StoreStep, ScreensFollow
    <3> QED
      BY <1>1, <2>1, <3>2, AnsweredGroups, HandlerGroups DEF QueueStep
  <2>2. CASE QueueDeath \/ EnterBackground \/ Kill
    <3>1. PICK why \in Deaths : Die(why)
      BY <1>1, <2>2 DEF QueueDeath, AnsweredWithError, SaveUpdateFails, EnterBackground, Kill,
         Deaths, ListInv, MarksAreStuck
    <3>2. NewScreens({})
      BY <1>3, <3>1 DEF StoreStep, ScreensFollow, Die, Deaths
    <3> QED
      BY <3>1, <3>2, DeathGroups
  <2> QED
    BY <1>3, <2>1, <2>2 DEF StoreStep
<1>4. CASE HomeAdds
  BY <1>1, <1>4, HomeAddsGroups
<1>5. CASE HomeAddFails
  BY <1>5, DeathGroups DEF HomeAddFails, AddPackageFails
<1>6. CASE HomeAlert \/ DismissAlert \/ UNCHANGED vars
  <2>1. UNCHANGED <<rows, lastId, inflight, worker, proc, open, waiting>>
    BY <1>6 DEF HomeAlert, DismissAlert, vars, storeVars, listVars
  <2> QED
    BY <2>1, SameGroups DEF Up, Live
<1>7. CASE Relaunch
  <2>1. inflight' = {} /\ worker'.phase = "idle" /\ NewScreens(Live)
    BY <1>7 DEF Relaunch, Restart, GroupsInv
  <2> QED
    BY <2>1, NoGroups
<1> QED
  BY <1>2, <1>3, <1>4, <1>5, <1>6, <1>7 DEF Next

\* Whatever registrations, deletes, other refreshes and deaths come between,
\* every completion handler leaves a group it is in, and a group is kept open
\* only by handlers that will run and codes that make no URL.
THEOREM GroupsStayBalanced == Spec => []GroupsBalanced
<1>1. Spec => []GroupsInv
  BY GroupsInit, GroupsNext, ArraysAlways, PTL DEF Spec
<1> QED
  BY <1>1, GroupsInvBalanced, PTL

-----------------------------------------------------------------------------
(* How a refresh ends *)

\* Every row the group still waits for has a handler on its way.
AllRunning(g) == \A id \in waiting[g] : [id |-> id, group |-> g] \in Running

\* A refresh that stays open waits for no row it did not wait for before, and
\* loses no handler whose row has not left.
Shrinks ==
  \A g \in open \cap open' :
    waiting'[g] \subseteq waiting[g] /\ (AllRunning(g) => AllRunning(g)')

LEMMA ShrinksAlone ==
  ASSUME UNCHANGED waiting, Running \subseteq Running' PROVE Shrinks
  BY DEF Shrinks, AllRunning

LEMMA ShrinksLeaving ==
  ASSUME GroupsInv, CompletionLeaves PROVE Shrinks
<1>1. /\ worker.phase = "loop" /\ worker'.phase = "idle" /\ UNCHANGED inflight
      /\ waiting' = IF worker.group = NoGroup THEN waiting
                    ELSE [waiting EXCEPT ![worker.group] = waiting[worker.group] \ {worker.id}]
  BY DEF CompletionLeaves, UpdateReturns, IdleWorker
<1>2. Running = inflight \cup {Current} /\ Running' = inflight
  BY <1>1 DEF Running
<1> SUFFICES ASSUME NEW g \in open
             PROVE  waiting'[g] \subseteq waiting[g] /\ (AllRunning(g) => AllRunning(g)')
  BY DEF Shrinks
<1>3. g \in Groups /\ g # NoGroup
  BY StoreAssumption DEF GroupsInv, NoGroup
<1>4. waiting'[g] = IF worker.group = g THEN waiting[g] \ {worker.id} ELSE waiting[g]
  BY <1>1, <1>3 DEF GroupsInv
<1>5. ASSUME AllRunning(g), NEW id \in waiting'[g]
      PROVE  [id |-> id, group |-> g] \in Running'
  <2>1. [id |-> id, group |-> g] \in Running
    BY <1>4, <1>5 DEF AllRunning
  <2>2. [id |-> id, group |-> g] # Current
    BY <1>4, <1>5 DEF Current
  <2> QED
    BY <1>2, <2>1, <2>2
<1> QED
  BY <1>4, <1>5 DEF AllRunning

LEMMA ShrinksAppearing ==
  ASSUME GroupsInv, Appear PROVE Shrinks
<1>1. PICK g \in Groups \ open : waiting' = [waiting EXCEPT ![g] = Live]
  BY DEF Appear
<1>2. \A h \in open : waiting'[h] = waiting[h]
  BY <1>1 DEF GroupsInv
<1>3. inflight \subseteq inflight' /\ UNCHANGED worker
  BY DEF Appear
<1>4. Running \subseteq Running'
  BY <1>3 DEF Running, Current
<1> QED
  BY <1>2, <1>4 DEF Shrinks, AllRunning

\* The handler goes on with its row and its group.
LEMMA ShrinksInQueue ==
  ASSUME StoreInv, QueueStep, UNCHANGED waiting PROVE Shrinks
<1>1. ASSUME NEW r \in inflight, NEW s \in Statuses, NEW n \in 0..MaxEvents, Answered(r, s, n)
      PROVE  Running \subseteq Running'
  <2>1. /\ inflight' = inflight \ {r} /\ worker.phase = "idle" /\ worker'.phase = "loop"
        /\ worker'.id = r.id /\ worker'.group = r.group
    BY <1>1 DEF Answered
  <2>2. Current' = r
    BY <2>1 DEF Current, StoreInv, RowsTypeOK, Requests
  <2> QED
    BY <2>1, <2>2 DEF Running
<1>2. CASE SetStatus \/ BlankImage \/ SaveUpdate
  <2>1. /\ worker'.phase # "idle" /\ worker'.id = worker.id /\ worker'.group = worker.group
        /\ worker.phase # "idle" /\ UNCHANGED inflight
    BY <1>2 DEF StoreInv, RowsTypeOK, Workers, SetStatus, BlankImage, SaveUpdate
  <2>2. Running' = Running
    BY <2>1 DEF Running, Current
  <2> QED
    BY <2>2, ShrinksAlone
<1> QED
  BY <1>1, <1>2, ShrinksAlone DEF QueueStep

\* A registration adds a request and ends no handler.
LEMMA ShrinksAdding ==
  ASSUME StoreInv, HomeAdds PROVE Shrinks
<1>1. PICK p \in HomePackages : AddPackage(p[1], p[2])
  BY DEF HomeAdds
<1>2. inflight \subseteq inflight' /\ worker' = [worker EXCEPT !.dirty = FALSE]
  BY <1>1 DEF AddPackage
<1>3. worker'.phase = worker.phase /\ worker'.id = worker.id /\ worker'.group = worker.group
  BY <1>2 DEF StoreInv, RowsTypeOK, Workers
<1>4. Running \subseteq Running'
  BY <1>2, <1>3 DEF Running, Current
<1> QED
  BY <1>4, ShrinksAlone DEF HomeAdds, listVars

LEMMA ShrinksNext ==
  ASSUME ArraysInv, GroupsInv, [Next]_vars PROVE Shrinks
<1>1. StoreInv
  BY DEF ArraysInv, ListInv
<1>2. UNCHANGED <<inflight, worker, waiting>> => Shrinks
  BY ShrinksAlone DEF Running, Current
<1>3. (\E saved : NewScreens(saved)) => Shrinks
  BY DEF NewScreens, Shrinks
<1>4. CASE ListStep
  <2>1. CommitEmptyState \/ (\E k \in Ids : CommitBeyond(k)) => NewScreens({})
    BY DEF CommitEmptyState, CommitBeyond
  <2>2. (\E g \in Groups : Notify(g)) \/ (\E k \in Ids : Commit(k))
          => UNCHANGED <<inflight, worker, waiting>>
    BY DEF Notify, Commit
  <2>3. \/ LeaveTab \/ OpenFilter \/ CancelFilter \/ DetailAlert
        \/ OtherAlert \/ FilterFetch \/ FilterShow
        \/ \E t \in OfferedTemplates : ChooseFilter(t)
        \/ \E k \in Ids : ShowDetail(k)
        => UNCHANGED <<inflight, worker, waiting>>
    BY DEF LeaveTab, OpenFilter, CancelFilter, DetailAlert, OtherAlert, FilterFetch, FilterShow,
       ChooseFilter, ShowDetail, storeVars, listVars
  <2> QED
    BY <1>2, <1>3, <1>4, <2>1, <2>2, <2>3, ShrinksAppearing, ShrinksLeaving DEF ListStep, UserStep
<1>5. CASE StoreStep
  <2>1. NewScreens({}) \/ UNCHANGED waiting
    BY <1>5 DEF StoreStep, ScreensFollow, listVars
  <2>2. QueueDeath \/ Kill => NewScreens({})
    BY <1>5 DEF StoreStep, ScreensFollow, QueueDeath, AnsweredWithError, SaveUpdateFails, Kill, Die
  <2>3. EnterBackground => NewScreens({}) \/ UNCHANGED <<inflight, worker>>
    BY <1>5 DEF EnterBackground, Die, StoreStep, ScreensFollow
  <2> QED
    BY <1>1, <1>2, <1>3, <1>5, <2>1, <2>2, <2>3, ShrinksInQueue DEF StoreStep
<1>6. HomeAddFails \/ Relaunch => \E saved : NewScreens(saved)
  BY DEF HomeAddFails, Relaunch
<1>7. HomeAlert \/ DismissAlert \/ UNCHANGED vars => UNCHANGED <<inflight, worker, waiting>>
  BY DEF HomeAlert, DismissAlert, vars, storeVars, listVars
<1> QED
  BY <1>1, <1>2, <1>3, <1>4, <1>5, <1>6, <1>7, ShrinksAdding DEF Next

\* What RefreshEnds rests on besides fairness, with any number of refreshes and
\* packages: an open refresh never waits for more, and a row leaves it before
\* its handler is gone.  (That a handler is on its way for every row that was
\* asked for is GroupsBalanced; that the queue comes to it, QueueDrains.)
THEOREM RefreshesShrink == Spec => [][Shrinks]_vars
<1>1. Spec => []GroupsInv
  BY GroupsInit, GroupsNext, ArraysAlways, PTL DEF Spec
<1>2. ArraysInv /\ GroupsInv /\ [Next]_vars => [Shrinks]_vars
  BY ShrinksNext
<1> QED
  BY <1>1, <1>2, ArraysAlways, PTL DEF Spec
=============================================================================
