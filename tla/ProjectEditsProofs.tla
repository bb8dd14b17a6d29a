---- MODULE ProjectEditsProofs ----
(***************************************************************************)
(* What holds of an edited project for every start, every number of        *)
(* commands and all limits: its timeline stays in order (TimelineInOrder), *)
(* a command leaves what is locked as it was (LockedUntouched), and the    *)
(* clips and regions that are edited have ids of their own.                *)
(*                                                                         *)
(* The timeline.  Most commands leave it alone (SameTimeline): what they   *)
(* change and what Done does after them, the playlists and the routing     *)
(* rules, are other parts of the document.  The commands on points, the    *)
(* project's text and the other programs' forms make new points, and each  *)
(* puts them into the order of time.  So the proof rests on what Ranked,   *)
(* by which all of them order and pick, makes of a list; on Rounded, which *)
(* a text does to every time, keeping the order of times; and on TickOf    *)
(* and TimeOf, which a MIDI file does to them.                             *)
(*                                                                         *)
(* What is locked.  An operation is sound when it makes a list of clips    *)
(* with ids of their own of such a list, and each locked clip is still in  *)
(* it: Sound, and RegionsSound for regions.  Most change clips at their    *)
(* places and leave the locked ones (Revised); others add clips under new  *)
(* ids, pick some of them, or go through a list, one operation each.  The  *)
(* ids matter: an operation looks at the lock of the clip it names and     *)
(* changes every clip of that name.  So the invariant has the lists, and   *)
(* the copied clips, which are pasted into them.                           *)
(***************************************************************************)
EXTENDS ProjectEdits, TLAPS, FiniteSetTheorems

-----------------------------------------------------------------------------
\* Listing the places of a finite set in an order

\* A set of natural numbers has a least.
LEMMA LeastOfNaturals ==
    ASSUME NEW S \in SUBSET Nat, S # {}
    PROVE  \E n \in S : \A m \in S : n <= m
PROOF
<1>. DEFINE R == OpToRel(<, Nat)
<1>1. R = {p \in Nat \X Nat : p[1] < p[2]}
  BY Zenon DEF OpToRel
<1>2. IsWellFoundedOn(R, Nat)
  BY NatLessThanWellFounded, Zenon
<1>. HIDE DEF R
<1>3. PICK n \in S : \A m \in S : ~(<<m, n>> \in R)
  BY <1>2, WFMin
<1>4. \A m \in S : ~(m < n)
  <2>1. ASSUME NEW m \in S, m < n PROVE <<m, n>> \in R
    <3>1. <<m, n>> \in Nat \X Nat /\ <<m, n>>[1] < <<m, n>>[2]
      BY <2>1
    <3>. QED BY <3>1, <1>1
  <2>. QED BY <2>1, <1>3
<1>. QED BY <1>3, <1>4

\* The places of S before i in the order R, and what it takes to be an order of S.
Below(S, R, i) == {k \in S : <<k, i>> \in R}
Orders(R, S) ==
    /\ \A i \in S : <<i, i>> \notin R
    /\ \A i, j, k \in S : <<i, j>> \in R /\ <<j, k>> \in R => <<i, k>> \in R
    /\ \A i, j \in S : i = j \/ <<i, j>> \in R \/ <<j, i>> \in R

\* There are finitely many places before one, and one more with it.
LEMMA BelowFinite ==
    ASSUME NEW S, IsFiniteSet(S), NEW R, Orders(R, S), NEW i \in S
    PROVE  /\ IsFiniteSet(Below(S, R, i)) /\ IsFiniteSet(Below(S, R, i) \cup {i})
           /\ Cardinality(Below(S, R, i)) \in Nat
           /\ Cardinality(Below(S, R, i) \cup {i}) = Cardinality(Below(S, R, i)) + 1
PROOF
<1>1. Below(S, R, i) \in SUBSET S /\ i \notin Below(S, R, i)
  BY DEF Below, Orders
<1>2. IsFiniteSet(Below(S, R, i))
  BY <1>1, FS_Subset
<1>. QED BY <1>1, <1>2, FS_AddElement, FS_CardinalityType

\* A later place has more places before it.
LEMMA BelowGrows ==
    ASSUME NEW S, IsFiniteSet(S), NEW R, Orders(R, S), NEW i \in S, NEW j \in S, <<i, j>> \in R
    PROVE  Cardinality(Below(S, R, i)) < Cardinality(Below(S, R, j))
PROOF
<1>1. Below(S, R, i) \cup {i} \in SUBSET Below(S, R, j)
  BY DEF Below, Orders
<1>2. IsFiniteSet(Below(S, R, j)) /\ Cardinality(Below(S, R, j)) \in Nat
  BY BelowFinite
<1>3. Cardinality(Below(S, R, i) \cup {i}) <= Cardinality(Below(S, R, j))
  BY <1>1, <1>2, FS_Subset
<1>4. /\ Cardinality(Below(S, R, i)) \in Nat
      /\ Cardinality(Below(S, R, i) \cup {i}) = Cardinality(Below(S, R, i)) + 1
  BY BelowFinite
<1>. QED BY <1>2, <1>3, <1>4

\* No place has all places before it.
LEMMA BelowInside ==
    ASSUME NEW S, IsFiniteSet(S), NEW R, Orders(R, S), NEW i \in S
    PROVE  Cardinality(Below(S, R, i)) \in 0 .. Cardinality(S) - 1
PROOF
<1>1. Below(S, R, i) \cup {i} \in SUBSET S
  BY DEF Below
<1>2. Cardinality(Below(S, R, i) \cup {i}) <= Cardinality(S) /\ Cardinality(S) \in Nat
  BY <1>1, FS_Subset, FS_CardinalityType
<1>3. /\ Cardinality(Below(S, R, i)) \in Nat
      /\ Cardinality(Below(S, R, i) \cup {i}) = Cardinality(Below(S, R, i)) + 1
  BY BelowFinite
<1>. QED BY <1>2, <1>3

\* Each number of places is the number before some place.
LEMMA RankAll ==
    ASSUME NEW S, IsFiniteSet(S), NEW R, Orders(R, S), NEW n \in 1 .. Cardinality(S)
    PROVE  \E i \in S : Cardinality(Below(S, R, i)) = n - 1
PROOF
<1>. DEFINE c == Cardinality(S)
            rank == [i \in S |-> Cardinality(Below(S, R, i))]
<1>1. c \in Nat
  BY FS_CardinalityType
<1>2. rank \in [S -> 0 .. c - 1]
  BY BelowInside
<1>3. ASSUME NEW i \in S, NEW j \in S, rank[i] = rank[j] PROVE i = j
  <2>1. Cardinality(Below(S, R, i)) = Cardinality(Below(S, R, j)) /\ Cardinality(Below(S, R, i)) \in Nat
    BY <1>3, BelowFinite
  <2>2. ~(<<i, j>> \in R) /\ ~(<<j, i>> \in R)
    BY <2>1, BelowGrows
  <2>. QED BY <2>2 DEF Orders
<1>. HIDE DEF rank
<1>4. rank \in Injection(S, 0 .. c - 1)
  BY <1>2, <1>3, Zenon DEF Injection, IsInjective
<1>5. IsFiniteSet(0 .. c - 1) /\ Cardinality(0 .. c - 1) = c
  <2>. HIDE DEF c
  <2>1. c - 1 \in Int /\ (IF 0 > c - 1 THEN 0 ELSE c - 1 - 0 + 1) = c
    BY <1>1
  <2>. QED BY <2>1, FS_Interval
<1>6. rank \in Surjection(S, 0 .. c - 1)
  BY <1>4, <1>5, FS_Injection
<1>7. n - 1 \in 0 .. c - 1
  BY <1>1
<1>. QED BY <1>6, <1>7 DEF Surjection, rank

\* A list of the places of S whose n-th has n - 1 places before it
Lists(f, S, R) ==
    /\ f \in [1 .. Cardinality(S) -> S]
    /\ \A n \in 1 .. Cardinality(S) : Cardinality(Below(S, R, f[n])) = n - 1

\* The list is in the order.
LEMMA ListsInOrder ==
    ASSUME NEW S, IsFiniteSet(S), NEW R, Orders(R, S), NEW f, Lists(f, S, R),
           NEW m \in DOMAIN f, NEW n \in DOMAIN f, m < n
    PROVE  <<f[m], f[n]>> \in R
PROOF
<1>1. m \in Int /\ n \in Int /\ f[m] \in S /\ f[n] \in S
      /\ Cardinality(Below(S, R, f[m])) = m - 1 /\ Cardinality(Below(S, R, f[n])) = n - 1
  BY DEF Lists
<1>2. f[m] # f[n]
  BY <1>1
<1>3. ~(<<f[n], f[m]>> \in R)
  BY <1>1, BelowGrows
<1>. QED BY <1>1, <1>2, <1>3 DEF Orders

\* The list has every place.
LEMMA ListsAll ==
    ASSUME NEW S, IsFiniteSet(S), NEW R, Orders(R, S), NEW f, Lists(f, S, R), NEW i \in S
    PROVE  \E n \in DOMAIN f : f[n] = i
PROOF
<1>. DEFINE n == Cardinality(Below(S, R, i)) + 1
<1>1. Cardinality(Below(S, R, i)) \in 0 .. Cardinality(S) - 1 /\ Cardinality(S) \in Nat
  BY BelowInside, FS_CardinalityType
<1>2. n \in 1 .. Cardinality(S) /\ n - 1 = Cardinality(Below(S, R, i)) /\ n - 1 \in Nat
  BY <1>1
<1>. HIDE DEF n
<1>3. n \in DOMAIN f /\ f[n] \in S /\ Cardinality(Below(S, R, f[n])) = Cardinality(Below(S, R, i))
  BY <1>2 DEF Lists
<1>4. ~(<<f[n], i>> \in R) /\ ~(<<i, f[n]>> \in R)
  <2>. DEFINE j == f[n]
  <2>. HIDE DEF j
  <2>1. j \in S /\ Cardinality(Below(S, R, j)) = Cardinality(Below(S, R, i)) /\ Cardinality(Below(S, R, i)) \in Nat
    BY <1>2, <1>3 DEF j
  <2>2. ~(<<j, i>> \in R) /\ ~(<<i, j>> \in R)
    BY <2>1, BelowGrows
  <2>. QED BY <2>2 DEF j
<1>5. f[n] = i
  BY <1>3, <1>4 DEF Orders
<1>. QED BY <1>3, <1>5

\* The order of numbers, as a set of pairs
UpTo(S) == {p \in S \X S : p[1] < p[2]}

\* Ascending lists a finite set of integers, all of it, from the least up.
LEMMA AscendingLists ==
    ASSUME NEW S, S \subseteq Int, IsFiniteSet(S)
    PROVE  /\ Ascending(S) \in [1 .. Cardinality(S) -> S] /\ Cardinality(S) \in Nat
           /\ \A m, n \in DOMAIN Ascending(S) : m < n => Ascending(S)[m] < Ascending(S)[n]
           /\ \A i \in S : \E n \in DOMAIN Ascending(S) : Ascending(S)[n] = i
PROOF
<1>. DEFINE R == UpTo(S)
            f == Ascending(S)
<1>1. \A i, k \in S : <<k, i>> \in R <=> k < i
  BY DEF UpTo
<1>2. Orders(R, S)
  <2>. HIDE DEF R
  <2>. QED BY <1>1 DEF Orders
<1>3. \A i \in S : {k \in S : k < i} = Below(S, R, i)
  <2>. HIDE DEF R
  <2>. QED BY <1>1 DEF Below
<1>4. f = [n \in 1 .. Cardinality(S) |-> CHOOSE i \in S : Cardinality({k \in S : k < i}) = n - 1]
  BY Zenon DEF Ascending, Ranked
<1>. HIDE DEF f, R
<1>5. Lists(f, S, R)
  <2>1. ASSUME NEW n \in 1 .. Cardinality(S) PROVE f[n] \in S /\ Cardinality(Below(S, R, f[n])) = n - 1
    <3>1. \E i \in S : Cardinality({k \in S : k < i}) = n - 1
      <4>1. PICK i \in S : Cardinality(Below(S, R, i)) = n - 1
        BY <1>2, RankAll
      <4>. QED BY <1>3, <4>1, Zenon
    <3>2. f[n] = CHOOSE i \in S : Cardinality({k \in S : k < i}) = n - 1
      BY <1>4, Zenon
    <3>3. f[n] \in S /\ Cardinality({k \in S : k < f[n]}) = n - 1
      BY <3>1, <3>2, Zenon
    <3>. QED BY <1>3, <3>3
  <2>2. f \in [1 .. Cardinality(S) -> S]
    BY <1>4, <2>1, Zenon
  <2>. QED BY <2>1, <2>2 DEF Lists
<1>6. f \in [1 .. Cardinality(S) -> S]
  BY <1>5 DEF Lists
<1>7. ASSUME NEW m \in DOMAIN f, NEW n \in DOMAIN f, m < n PROVE f[m] < f[n]
  BY <1>1, <1>2, <1>5, <1>6, <1>7, ListsInOrder
<1>8. \A i \in S : \E n \in DOMAIN f : f[n] = i
  BY <1>2, <1>5, ListsAll
<1>. QED BY <1>6, <1>7, <1>8, FS_CardinalityType DEF f

\* Points with times and ids; the order std::sort gives them, and the places of a list in it
Dated(points) == \A i \in DOMAIN points : points[i].id \in Int /\ points[i].at \in Int
Sooner(points) ==
    {p \in (DOMAIN points) \X (DOMAIN points) : Earlier(points[p[1]], p[1], points[p[2]], p[2])}
Turns(points) == Ranked(DOMAIN points, LAMBDA i, k : Earlier(points[i], i, points[k], k))

\* The order of time lists every place once, each after those before it in time.
LEMMA TurnsList ==
    ASSUME NEW points, NEW len \in Nat, DOMAIN points = 1 .. len, Dated(points)
    PROVE  /\ Turns(points) \in [1 .. len -> 1 .. len]
           /\ \A m, n \in 1 .. len : m < n => Earlier(points[Turns(points)[m]], Turns(points)[m],
                                                      points[Turns(points)[n]], Turns(points)[n])
           /\ \A i \in 1 .. len : \E n \in 1 .. len : Turns(points)[n] = i
PROOF
<1>. DEFINE S == DOMAIN points
            R == Sooner(points)
            f == Turns(points)
<1>1. \A i, k \in S : <<k, i>> \in R <=> Earlier(points[k], k, points[i], i)
  BY DEF Sooner
<1>2. Orders(R, S)
  <2>1. \A i \in S : i \in Int /\ points[i].id \in Int /\ points[i].at \in Int
    BY DEF Dated
  <2>. HIDE DEF R
  <2>2. \A i \in S : <<i, i>> \notin R
    BY <1>1, <2>1 DEF Earlier
  <2>3. \A i, j, k \in S : <<i, j>> \in R /\ <<j, k>> \in R => <<i, k>> \in R
    <3>1. ASSUME NEW i \in S, NEW j \in S, NEW k \in S, Earlier(points[i], i, points[j], j), Earlier(points[j], j, points[k], k)
          PROVE  Earlier(points[i], i, points[k], k)
      BY <2>1, <3>1 DEF Earlier
    <3>. QED BY <1>1, <3>1
  <2>4. \A i, j \in S : i = j \/ <<i, j>> \in R \/ <<j, i>> \in R
    <3>1. ASSUME NEW i \in S, NEW j \in S, i # j
          PROVE  Earlier(points[i], i, points[j], j) \/ Earlier(points[j], j, points[i], i)
      BY <2>1, <3>1 DEF Earlier
    <3>. QED BY <1>1, <3>1
  <2>. QED BY <2>2, <2>3, <2>4 DEF Orders
<1>3. \A i \in S : {k \in S : Earlier(points[k], k, points[i], i)} = Below(S, R, i)
  <2>. HIDE DEF R
  <2>. QED BY <1>1 DEF Below
<1>4. f = [n \in 1 .. Cardinality(S) |-> CHOOSE i \in S : Cardinality({k \in S : Earlier(points[k], k, points[i], i)}) = n - 1]
  BY Zenon DEF Turns, Ranked
<1>5. IsFiniteSet(S) /\ Cardinality(S) = len
  <2>1. IsFiniteSet(1 .. len) /\ Cardinality(1 .. len) = len
    BY FS_Interval
  <2>. QED BY <2>1
<1>. HIDE DEF f, R
<1>6. Lists(f, S, R)
  <2>1. ASSUME NEW n \in 1 .. Cardinality(S) PROVE f[n] \in S /\ Cardinality(Below(S, R, f[n])) = n - 1
    <3>1. \E i \in S : Cardinality({k \in S : Earlier(points[k], k, points[i], i)}) = n - 1
      <4>1. PICK i \in S : Cardinality(Below(S, R, i)) = n - 1
        BY <1>2, <1>5, RankAll
      <4>. QED BY <1>3, <4>1, Zenon
    <3>2. f[n] = CHOOSE i \in S : Cardinality({k \in S : Earlier(points[k], k, points[i], i)}) = n - 1
      BY <1>4, Zenon
    <3>3. f[n] \in S /\ Cardinality({k \in S : Earlier(points[k], k, points[f[n]], f[n])}) = n - 1
      BY <3>1, <3>2, Zenon
    <3>. QED BY <1>3, <3>3
  <2>2. f \in [1 .. Cardinality(S) -> S]
    BY <1>4, <2>1, Zenon
  <2>. QED BY <2>1, <2>2 DEF Lists
<1>7. f \in [1 .. len -> 1 .. len]
  BY <1>5, <1>6 DEF Lists
<1>8. ASSUME NEW m \in 1 .. len, NEW n \in 1 .. len, m < n PROVE Earlier(points[f[m]], f[m], points[f[n]], f[n])
  BY <1>1, <1>2, <1>5, <1>6, <1>7, <1>8, ListsInOrder
<1>9. \A i \in 1 .. len : \E n \in 1 .. len : f[n] = i
  <2>1. \A i \in S : \E n \in DOMAIN f : f[n] = i
    BY <1>2, <1>5, <1>6, ListsAll
  <2>2. DOMAIN f = 1 .. len
    BY <1>7
  <2>. QED BY <2>1, <2>2
<1>. QED BY <1>7, <1>8, <1>9 DEF f

-----------------------------------------------------------------------------
\* Lists of points, picked and put in order

\* A pick has the points of the places that were picked.
LEMMA PickedIs ==
    ASSUME NEW D, NEW points \in Seq(D), NEW places, NEW len \in Nat, places \in [1 .. len -> DOMAIN points]
    PROVE  /\ Picked(points, places) \in Seq(D) /\ Len(Picked(points, places)) = len
           /\ DOMAIN Picked(points, places) = 1 .. len
           /\ \A n \in 1 .. len : Picked(points, places)[n] = points[places[n]]
PROOF
<1>1. DOMAIN places = 1 .. len
  OBVIOUS
<1>2. \A n \in 1 .. len : points[places[n]] \in D
  OBVIOUS
<1>3. Picked(points, places) = [n \in 1 .. len |-> points[places[n]]]
  BY <1>1, Zenon DEF Picked
<1>. DEFINE p == [n \in 1 .. len |-> points[places[n]]]
<1>4. p \in [1 .. len -> D]
  BY <1>2
<1>5. p \in Seq(D) /\ Len(p) = len /\ DOMAIN p = 1 .. len
  <2>. HIDE DEF p
  <2>. QED BY <1>4
<1>6. \A n \in 1 .. len : p[n] = points[places[n]]
  OBVIOUS
<1>. HIDE DEF p
<1>7. Picked(points, places) = p
  BY <1>3 DEF p
<1>. QED BY <1>5, <1>6, <1>7

\* What is picked in ascending order: the points of the places, all of them, in their order.
LEMMA AscendingPicked ==
    ASSUME NEW D, NEW points \in Seq(D), NEW S, S \subseteq DOMAIN points
    PROVE  /\ Picked(points, Ascending(S)) \in Seq(D) /\ Len(Picked(points, Ascending(S))) = Cardinality(S)
           /\ \A n \in DOMAIN Picked(points, Ascending(S)) :
                 Ascending(S)[n] \in S /\ Picked(points, Ascending(S))[n] = points[Ascending(S)[n]]
           /\ \A m, n \in DOMAIN Picked(points, Ascending(S)) : m < n => Ascending(S)[m] < Ascending(S)[n]
           /\ \A i \in S : \E n \in DOMAIN Picked(points, Ascending(S)) : Ascending(S)[n] = i
PROOF
<1>1. S \subseteq Int /\ IsFiniteSet(S)
  <2>1. DOMAIN points = 1 .. Len(points) /\ IsFiniteSet(1 .. Len(points))
    BY FS_Interval
  <2>. QED BY <2>1, FS_Subset
<1>. DEFINE a == Ascending(S)
<1>2. /\ a \in [1 .. Cardinality(S) -> S] /\ Cardinality(S) \in Nat
      /\ \A m, n \in DOMAIN a : m < n => a[m] < a[n]
      /\ \A i \in S : \E n \in DOMAIN a : a[n] = i
  BY <1>1, AscendingLists
<1>. HIDE DEF a
<1>3. a \in [1 .. Cardinality(S) -> DOMAIN points]
  BY <1>2
<1>4. /\ Picked(points, a) \in Seq(D) /\ Len(Picked(points, a)) = Cardinality(S)
      /\ DOMAIN Picked(points, a) = 1 .. Cardinality(S)
      /\ \A n \in 1 .. Cardinality(S) : Picked(points, a)[n] = points[a[n]]
  BY <1>2, <1>3, PickedIs
<1>5. DOMAIN a = 1 .. Cardinality(S) /\ \A n \in 1 .. Cardinality(S) : a[n] \in S
  BY <1>2
<1>. QED BY <1>2, <1>4, <1>5 DEF a

\* What is picked in ascending order of a list in order is in order.
LEMMA PickedInTime ==
    ASSUME NEW D, NEW points \in Seq(D), InTime(points), NEW S, S \subseteq DOMAIN points
    PROVE  InTime(Picked(points, Ascending(S)))
PROOF
<1>1. ASSUME NEW m \in DOMAIN Picked(points, Ascending(S)), NEW n \in DOMAIN Picked(points, Ascending(S)), m < n
      PROVE  Picked(points, Ascending(S))[m].at <= Picked(points, Ascending(S))[n].at
  <2>1. /\ Picked(points, Ascending(S))[m] = points[Ascending(S)[m]] /\ Ascending(S)[m] \in DOMAIN points
        /\ Picked(points, Ascending(S))[n] = points[Ascending(S)[n]] /\ Ascending(S)[n] \in DOMAIN points
        /\ Ascending(S)[m] < Ascending(S)[n]
    BY <1>1, AscendingPicked
  <2>. QED BY <2>1 DEF InTime
<1>. QED BY <1>1 DEF InTime

\* ByTime gives the points in the order of time.
LEMMA ByTimeIs ==
    ASSUME NEW D, NEW points \in Seq(D), \A p \in D : p.id \in Int /\ p.at \in Int
    PROVE  /\ ByTime(points) \in Seq(D) /\ Len(ByTime(points)) = Len(points)
           /\ InTime(ByTime(points))
PROOF
<1>. DEFINE t == Turns(points)
            len == Len(points)
<1>1. len \in Nat /\ DOMAIN points = 1 .. len /\ Dated(points)
  BY DEF Dated
<1>2. /\ t \in [1 .. len -> 1 .. len]
      /\ \A m, n \in 1 .. len : m < n => Earlier(points[t[m]], t[m], points[t[n]], t[n])
  BY <1>1, TurnsList
<1>3. ByTime(points) = Picked(points, t)
  BY Zenon DEF ByTime, Turns
<1>. HIDE DEF t, len
<1>4. /\ Picked(points, t) \in Seq(D) /\ Len(Picked(points, t)) = len
      /\ DOMAIN Picked(points, t) = 1 .. len
      /\ \A n \in 1 .. len : Picked(points, t)[n] = points[t[n]]
  <2>1. t \in [1 .. len -> DOMAIN points]
    BY <1>1, <1>2
  <2>. QED BY <1>1, <2>1, PickedIs
<1>5. InTime(Picked(points, t))
  <2>1. ASSUME NEW m \in 1 .. len, NEW n \in 1 .. len, m < n PROVE points[t[m]].at <= points[t[n]].at
    <3>1. Earlier(points[t[m]], t[m], points[t[n]], t[n])
      BY <1>2, <2>1
    <3>2. points[t[m]].at \in Int /\ points[t[n]].at \in Int
      BY <1>1, <1>2 DEF Dated
    <3>. QED BY <3>1, <3>2 DEF Earlier
  <2>. QED BY <1>4, <2>1 DEF InTime
<1>. QED BY <1>3, <1>4, <1>5 DEF len

\* The first point stays the first when it is before the others.
LEMMA FirstStays ==
    ASSUME NEW D, NEW points \in Seq(D), \A p \in D : p.id \in Int /\ p.at \in Int, points # <<>>,
           \A i \in DOMAIN points : i > 1 => Earlier(points[1], 1, points[i], i)
    PROVE  ByTime(points)[1] = points[1]
PROOF
<1>. DEFINE t == Turns(points)
            len == Len(points)
<1>1. len \in Nat /\ 1 \in 1 .. len /\ DOMAIN points = 1 .. len /\ Dated(points)
  BY DEF Dated
<1>2. /\ t \in [1 .. len -> 1 .. len]
      /\ \A m, n \in 1 .. len : m < n => Earlier(points[t[m]], t[m], points[t[n]], t[n])
      /\ \A i \in 1 .. len : \E n \in 1 .. len : t[n] = i
  BY <1>1, TurnsList
<1>3. ByTime(points) = Picked(points, t)
  BY Zenon DEF ByTime, Turns
<1>. HIDE DEF t, len
<1>4. Picked(points, t)[1] = points[t[1]]
  <2>1. t \in [1 .. len -> DOMAIN points]
    BY <1>1, <1>2
  <2>2. /\ Picked(points, t) \in Seq(D) /\ Len(Picked(points, t)) = len
        /\ DOMAIN Picked(points, t) = 1 .. len
        /\ \A k \in 1 .. len : Picked(points, t)[k] = points[t[k]]
    BY <1>1, <2>1, PickedIs
  <2>. QED BY <1>1, <2>2
<1>5. PICK n \in 1 .. len : t[n] = 1
  BY <1>1, <1>2
<1>6. t[1] = 1
  <2>1. SUFFICES ASSUME t[1] # 1 PROVE FALSE
    OBVIOUS
  <2>6. t[n] = 1 /\ n \in 1 .. len
    BY <1>5
  <2>7. t[1] \in 1 .. len
    BY <1>1, <1>2
  <2>8. n # 1
    BY <2>1, <2>6
  <2>2. 1 < n /\ t[1] \in 1 .. len /\ t[1] > 1
    BY <1>1, <2>1, <2>6, <2>7, <2>8
  <2>3. Earlier(points[t[1]], t[1], points[1], 1) /\ Earlier(points[1], 1, points[t[1]], t[1])
    BY <1>1, <1>2, <2>6, <2>2
  <2>4. points[1].at \in Int /\ points[t[1]].at \in Int /\ points[1].id \in Int /\ points[t[1]].id \in Int
    BY <1>1, <2>2 DEF Dated
  <2>. QED BY <2>2, <2>3, <2>4 DEF Earlier
<1>. QED BY <1>3, <1>4, <1>6

-----------------------------------------------------------------------------
\* Greatest, least and nearest; ids that are free; points that go

\* A bounded set of natural numbers has its greatest in it.
LEMMA GreatestIn ==
    ASSUME NEW S \in SUBSET Nat, S # {}, NEW n \in Nat, \A s \in S : s <= n
    PROVE  Max(S) \in S /\ \A s \in S : s <= Max(S)
PROOF
<1>. DEFINE Rest == {k \in 0 .. n : n - k \in S}
<1>1. Rest \in SUBSET Nat /\ Rest # {}
  <2>1. PICK s \in S : TRUE
    OBVIOUS
  <2>2. s <= n /\ s \in Nat
    BY <2>1
  <2>3. n - s \in 0 .. n /\ n - (n - s) = s
    BY <2>2
  <2>. QED BY <2>1, <2>3
<1>2. PICK k \in Rest : \A m \in Rest : k <= m
  BY <1>1, LeastOfNaturals
<1>3. n - k \in S /\ k \in 0 .. n
  BY <1>2
<1>4. \A s \in S : s <= n - k
  <2>1. ASSUME NEW s \in S PROVE s <= n - k
    <3>1. s <= n /\ s \in Nat
      OBVIOUS
    <3>2. n - s \in 0 .. n /\ n - (n - s) = s
      BY <3>1
    <3>3. n - s \in Rest
      BY <3>2
    <3>4. k <= n - s
      BY <3>3, <1>2
    <3>. QED BY <3>1, <3>4, <1>3
  <2>. QED BY <2>1
<1>5. \E x \in S : \A y \in S : x >= y
  BY <1>3, <1>4
<1>6. Max(S) \in S /\ \A y \in S : Max(S) >= y
  BY <1>5, Zenon DEF Max
<1>. QED BY <1>6

\* Every set of natural numbers has its least in it.
LEMMA LeastIn ==
    ASSUME NEW S \in SUBSET Nat, S # {}
    PROVE  Min(S) \in S /\ \A s \in S : Min(S) <= s
PROOF
<1>1. \E x \in S : \A y \in S : x <= y
  BY LeastOfNaturals
<1>2. Min(S) \in S /\ \A y \in S : Min(S) <= y
  BY <1>1, Zenon DEF Min
<1>. QED BY <1>2

\* The nearest of points that are near is one of them.
LEMMA NearestIn ==
    ASSUME NEW D, NEW points \in Seq(D), \A p \in D : p.at \in Int, NEW at \in Int, NEW tolerance,
           Near(points, at, tolerance) # {}
    PROVE  Nearest(points, at, tolerance) \in DOMAIN points
PROOF
<1>. DEFINE near == Near(points, at, tolerance)
            gaps == {Gap(points[i].at, at) : i \in near}
            best == {i \in near : \A k \in near : Gap(points[i].at, at) <= Gap(points[k].at, at)}
<1>1. near \subseteq DOMAIN points /\ near # {} /\ DOMAIN points = 1 .. Len(points) /\ Len(points) \in Nat
  BY DEF Near
<1>. HIDE DEF near
<1>2. \A i \in near : Gap(points[i].at, at) \in Nat
  <2>1. \A i \in near : points[i].at \in Int
    BY <1>1
  <2>. QED BY <2>1 DEF Gap
<1>3. gaps \in SUBSET Nat /\ gaps # {}
  BY <1>1, <1>2
<1>4. PICK g \in gaps : \A h \in gaps : g <= h
  <2>. HIDE DEF gaps
  <2>. QED BY <1>3, LeastOfNaturals
<1>5. best # {}
  BY <1>4
<1>6. best \in SUBSET Nat /\ \A i \in best : i <= Len(points)
  BY <1>1
<1>7. Max(best) \in best
  <2>. HIDE DEF best
  <2>. QED BY <1>1, <1>5, <1>6, GreatestIn
<1>8. Nearest(points, at, tolerance) = Max(best)
  BY Zenon DEF Nearest, near
<1>. QED BY <1>1, <1>7, <1>8

\* There is always an id for a new point.
LEMMA FreshIsNat ==
    ASSUME NEW D, NEW points \in Seq(D)
    PROVE  FreshPoint(points) \in Nat
PROOF
<1>. DEFINE len == Len(points)
            unused == {n \in 1 .. len + 1 : \A i \in DOMAIN points : points[i].id # n}
<1>1. len \in Nat /\ DOMAIN points = 1 .. len
  OBVIOUS
<1>. HIDE DEF len
<1>2. unused # {}
  <2>1. SUFFICES ASSUME \A n \in 1 .. len + 1 : \E i \in 1 .. len : points[i].id = n PROVE FALSE
    BY <1>1
  <2>. DEFINE f == [n \in 1 .. len + 1 |-> CHOOSE i \in 1 .. len : points[i].id = n]
  <2>2. \A n \in 1 .. len + 1 : f[n] \in 1 .. len /\ points[f[n]].id = n
    BY <2>1
  <2>3. f \in [1 .. len + 1 -> 1 .. len]
    BY <2>2
  <2>. HIDE DEF f
  <2>4. /\ IsFiniteSet(1 .. len + 1) /\ Cardinality(1 .. len + 1) = len + 1
        /\ IsFiniteSet(1 .. len) /\ Cardinality(1 .. len) = len
    BY <1>1, FS_Interval
  <2>5. PICK m \in 1 .. len + 1, n \in 1 .. len + 1 : m # n /\ f[m] = f[n]
    <3>1. Cardinality(1 .. len) < Cardinality(1 .. len + 1)
      BY <1>1, <2>4
    <3>. QED BY <2>3, <2>4, <3>1, FS_PigeonHole
  <2>. QED BY <2>2, <2>5
<1>3. unused \in SUBSET Nat
  BY <1>1
<1>4. Min(unused) \in Nat
  <2>. HIDE DEF unused
  <2>. QED BY <1>2, <1>3, LeastIn
<1>. QED BY <1>4, Zenon DEF FreshPoint, len

\* The items of two lists joined
LEMMA JoinedAt ==
    ASSUME NEW D, NEW a \in Seq(D), NEW b \in Seq(D), NEW k \in 1 .. Len(a) + Len(b)
    PROVE  (a \o b)[k] = IF k <= Len(a) THEN a[k] ELSE b[k - Len(a)]
PROOF
OBVIOUS

\* A list without one of its places
LEMMA RemoveAtIs ==
    ASSUME NEW D, NEW points \in Seq(D), NEW i \in DOMAIN points
    PROVE  /\ RemoveAt(points, i) \in Seq(D) /\ Len(RemoveAt(points, i)) = Len(points) - 1
           /\ \A k \in DOMAIN RemoveAt(points, i) : RemoveAt(points, i)[k] = IF k < i THEN points[k] ELSE points[k + 1]
PROOF
<1>1. i \in 1 .. Len(points) /\ Len(points) \in Nat
  OBVIOUS
<1>. DEFINE a == SubSeq(points, 1, i - 1)
            b == SubSeq(points, i + 1, Len(points))
<1>2. a \in Seq(D) /\ Len(a) = i - 1 /\ \A k \in 1 .. i - 1 : a[k] = points[k]
  BY <1>1
<1>3. b \in Seq(D) /\ Len(b) = Len(points) - i /\ \A k \in 1 .. Len(points) - i : b[k] = points[k + i]
  BY <1>1
<1>. HIDE DEF a, b
<1>4. /\ a \o b \in Seq(D) /\ Len(a \o b) = Len(points) - 1
      /\ \A k \in 1 .. Len(points) - 1 : (a \o b)[k] = IF k < i THEN points[k] ELSE points[k + 1]
  <2>1. a \o b \in Seq(D) /\ Len(a \o b) = Len(points) - 1
    BY <1>1, <1>2, <1>3
  <2>2. ASSUME NEW k \in 1 .. Len(points) - 1, k < i PROVE (a \o b)[k] = points[k]
    BY <1>1, <1>2, <1>3, <2>2
  <2>3. ASSUME NEW k \in 1 .. Len(points) - 1, ~(k < i) PROVE (a \o b)[k] = points[k + 1]
    <3>1. k - (i - 1) \in 1 .. Len(points) - i /\ (k - (i - 1)) + i = k + 1
      BY <1>1, <2>3
    <3>2. (a \o b)[k] = b[k - Len(a)]
      <4>1. a \in Seq(D) /\ b \in Seq(D) /\ k \in 1 .. Len(a) + Len(b) /\ ~(k <= Len(a))
        BY <1>1, <1>2, <1>3, <2>3
      <4>. QED BY <4>1, JoinedAt
    <3>. QED BY <1>2, <1>3, <3>1, <3>2
  <2>. QED BY <2>1, <2>2, <2>3
<1>5. RemoveAt(points, i) = a \o b
  BY Zenon DEF RemoveAt, a, b
<1>. DEFINE c == a \o b
<1>6. c \in Seq(D) /\ DOMAIN c = 1 .. Len(points) - 1
  <2>. HIDE DEF c
  <2>1. c \in Seq(D) /\ Len(c) = Len(points) - 1
    BY <1>4 DEF c
  <2>. QED BY <2>1
<1>. QED BY <1>4, <1>5, <1>6

\* Removing a point keeps the order.
LEMMA RemovedInTime ==
    ASSUME NEW D, NEW points \in Seq(D), \A p \in D : p.at \in Int, InTime(points), NEW i \in DOMAIN points
    PROVE  InTime(RemoveAt(points, i))
PROOF
<1>1. i \in 1 .. Len(points) /\ Len(points) \in Nat /\ DOMAIN points = 1 .. Len(points)
  OBVIOUS
<1>. DEFINE r == RemoveAt(points, i)
<1>2. /\ r \in Seq(D) /\ Len(r) = Len(points) - 1
      /\ \A k \in DOMAIN r : r[k] = IF k < i THEN points[k] ELSE points[k + 1]
  BY RemoveAtIs
<1>. HIDE DEF r
<1>3. DOMAIN r = 1 .. Len(points) - 1
  BY <1>2
<1>4. ASSUME NEW m \in DOMAIN r, NEW n \in DOMAIN r, m < n PROVE r[m].at <= r[n].at
  <2>. DEFINE p == IF m < i THEN m ELSE m + 1
              q == IF n < i THEN n ELSE n + 1
  <2>1. p \in DOMAIN points /\ q \in DOMAIN points /\ p < q
    BY <1>1, <1>3, <1>4
  <2>2. r[m] = points[p] /\ r[n] = points[q]
    BY <1>2, <1>3, <1>4
  <2>. QED BY <2>1, <2>2 DEF InTime
<1>. QED BY <1>4 DEF InTime, r

-----------------------------------------------------------------------------
\* Markers

\* The points of the timeline
Marker == [id : Nat, at : Nat, value : Int]
TempoMarker == [id : {0}, at : Nat, value : Bpms]
AutomationPoint == [id : {0}, at : Nat, value : MinValue .. MaxValue]

\* Points have times and ids; those of the tempo map and the automation all the same id.
LEMMA PointTypes ==
    /\ \A p \in Marker \cup TempoMarker \cup AutomationPoint : p.id \in Int /\ p.at \in Int /\ p.at \in Nat
    /\ \A p \in TempoMarker \cup AutomationPoint : p.id = 0
PROOF
BY DEF Marker, TempoMarker, AutomationPoint

\* A list with another point in one place
LEMMA ReplacedIs ==
    ASSUME NEW D, NEW points \in Seq(D), NEW i \in DOMAIN points, NEW p \in D
    PROVE  /\ [points EXCEPT ![i] = p] \in Seq(D) /\ Len([points EXCEPT ![i] = p]) = Len(points)
           /\ \A k \in DOMAIN points : [points EXCEPT ![i] = p][k] = IF k = i THEN p ELSE points[k]
PROOF
OBVIOUS

\* A new value at the same time leaves the order.
LEMMA RevaluedIs ==
    ASSUME NEW D, NEW points \in Seq(D), NEW i \in DOMAIN points, NEW p \in D, p.at = points[i].at, InTime(points)
    PROVE  /\ [points EXCEPT ![i] = p] \in Seq(D) /\ Len([points EXCEPT ![i] = p]) = Len(points)
           /\ InTime([points EXCEPT ![i] = p])
PROOF
<1>. DEFINE q == [points EXCEPT ![i] = p]
<1>1. q \in Seq(D) /\ Len(q) = Len(points) /\ \A k \in DOMAIN points : q[k] = IF k = i THEN p ELSE points[k]
  BY ReplacedIs
<1>. HIDE DEF q
<1>2. DOMAIN q = DOMAIN points /\ \A k \in DOMAIN points : q[k].at = points[k].at
  BY <1>1
<1>3. InTime(q)
  BY <1>2 DEF InTime
<1>. QED BY <1>1, <1>3 DEF q

\* Adding a marker gives markers in the order of time.
LEMMA AddMarkerIs ==
    ASSUME NEW points \in Seq(Marker), NEW at \in Nat, NEW value \in Int
    PROVE  AddMarker(points, at, value) \in Seq(Marker) /\ InTime(AddMarker(points, at, value))
PROOF
<1>. DEFINE new == [id |-> FreshPoint(points), at |-> at, value |-> value]
            all == Append(points, new)
<1>1. new \in Marker
  <2>1. FreshPoint(points) \in Nat
    BY FreshIsNat
  <2>. QED BY <2>1 DEF Marker
<1>2. all \in Seq(Marker)
  <2>. HIDE DEF new
  <2>. QED BY <1>1
<1>. HIDE DEF all
<1>3. ByTime(all) \in Seq(Marker) /\ InTime(ByTime(all))
  BY <1>2, PointTypes, ByTimeIs
<1>. QED BY <1>3, Zenon DEF AddMarker, all

\* So do deleting, renaming and moving the nearest.
LEMMA MovedMarkers ==
    ASSUME NEW points \in Seq(Marker), NEW at \in Nat, NEW tolerance, Near(points, at, tolerance) # {},
           InTime(points)
    PROVE  /\ DeleteNearest(points, at, tolerance) \in Seq(Marker) /\ InTime(DeleteNearest(points, at, tolerance))
           /\ \A value \in Int : /\ RenameNearest(points, at, tolerance, value) \in Seq(Marker)
                                 /\ InTime(RenameNearest(points, at, tolerance, value))
           /\ \A to \in Nat : /\ MoveNearest(points, at, tolerance, to) \in Seq(Marker)
                              /\ InTime(MoveNearest(points, at, tolerance, to))
PROOF
<1>. DEFINE i == Nearest(points, at, tolerance)
<1>1. i \in DOMAIN points
  BY PointTypes, NearestIn
<1>. HIDE DEF i
<1>2. points[i] \in Marker
  BY <1>1
<1>3. RemoveAt(points, i) \in Seq(Marker) /\ InTime(RemoveAt(points, i))
  BY <1>1, PointTypes, RemoveAtIs, RemovedInTime
<1>4. ASSUME NEW value \in Int
      PROVE  LET p == [points EXCEPT ![i].value = value] IN p \in Seq(Marker) /\ InTime(p)
  <2>. DEFINE p == [points[i] EXCEPT !.value = value]
  <2>1. p \in Marker /\ p.at = points[i].at
    BY <1>2 DEF Marker
  <2>2. [points EXCEPT ![i].value = value] = [points EXCEPT ![i] = p]
    BY Zenon
  <2>. HIDE DEF p
  <2>. QED BY <1>1, <2>1, <2>2, RevaluedIs
<1>5. ASSUME NEW to \in Nat
      PROVE  LET p == ByTime([points EXCEPT ![i].at = to]) IN p \in Seq(Marker) /\ InTime(p)
  <2>. DEFINE p == [points[i] EXCEPT !.at = to]
              q == [points EXCEPT ![i] = p]
  <2>1. p \in Marker
    BY <1>2 DEF Marker
  <2>2. [points EXCEPT ![i].at = to] = q
    BY Zenon
  <2>3. q \in Seq(Marker)
    <3>. HIDE DEF p
    <3>. QED BY <1>1, <2>1, ReplacedIs
  <2>. HIDE DEF q
  <2>. QED BY <2>2, <2>3, PointTypes, ByTimeIs
<1>6. DeleteNearest(points, at, tolerance) = RemoveAt(points, i)
  BY Zenon DEF DeleteNearest, i
<1>7. \A value : RenameNearest(points, at, tolerance, value) = [points EXCEPT ![i].value = value]
  BY Zenon DEF RenameNearest, i
<1>8. \A to : MoveNearest(points, at, tolerance, to) = ByTime([points EXCEPT ![i].at = to])
  BY Zenon DEF MoveNearest, i
<1>. QED BY <1>3, <1>4, <1>5, <1>6, <1>7, <1>8, Zenon

\* There are no more ids than points.
LEMMA IdsAreFew ==
    ASSUME NEW D, NEW points \in Seq(D)
    PROVE  LET ids == {points[i].id : i \in DOMAIN points} IN IsFiniteSet(ids) /\ Cardinality(ids) <= Len(points)
PROOF
<1>. DEFINE ids == {points[i].id : i \in DOMAIN points}
            f == [i \in DOMAIN points |-> points[i].id]
            S == DOMAIN points
<1>1. f \in Surjection(S, ids)
  BY DEF Surjection
<1>2. IsFiniteSet(S) /\ Cardinality(S) = Len(points)
  <2>1. S = 1 .. Len(points) /\ Len(points) \in Nat
    OBVIOUS
  <2>2. \A n \in Nat : IsFiniteSet(1 .. n) /\ Cardinality(1 .. n) = n
    BY FS_Interval
  <2>. QED BY <2>1, <2>2
<1>3. IsFiniteSet(ids) /\ Cardinality(ids) <= Cardinality(S)
  <2>. HIDE DEF f, S, ids
  <2>. QED BY <1>1, <1>2, FS_Surjection
<1>. QED BY <1>2, <1>3

\* There are ids enough for the new points.
LEMMA FreeIds ==
    ASSUME NEW D, NEW points \in Seq(D), NEW count \in Nat
    PROVE  LET free == (1 .. Len(points) + count) \ {points[i].id : i \in DOMAIN points}
           IN  /\ free \subseteq Nat /\ IsFiniteSet(free)
               /\ Cardinality(free) \in Nat /\ count <= Cardinality(free)
PROOF
<1>. DEFINE all == 1 .. Len(points) + count
            ids == {points[i].id : i \in DOMAIN points}
            free == all \ ids
            taken == all \cap ids
<1>1. Len(points) \in Nat /\ Len(points) + count \in Nat
  OBVIOUS
<1>2. IsFiniteSet(all) /\ Cardinality(all) = Len(points) + count
  <2>. DEFINE n == Len(points) + count
  <2>1. n \in Nat /\ all = 1 .. n
    BY <1>1
  <2>. HIDE DEF n
  <2>2. IsFiniteSet(1 .. n) /\ Cardinality(1 .. n) = n
    BY <2>1, FS_Interval
  <2>. QED BY <2>1, <2>2 DEF n
<1>3. IsFiniteSet(ids) /\ Cardinality(ids) <= Len(points)
  BY IdsAreFew
<1>4. free \subseteq Nat
  BY <1>1
<1>. HIDE DEF all, ids
<1>5. Cardinality(taken) <= Cardinality(ids) /\ Cardinality(taken) \in Nat /\ Cardinality(ids) \in Nat
  <2>1. taken \in SUBSET ids
    OBVIOUS
  <2>. QED BY <1>3, <2>1, FS_Subset, FS_CardinalityType
<1>6. IsFiniteSet(free) /\ Cardinality(free) = Cardinality(all) - Cardinality(taken)
  BY <1>2, FS_Difference
<1>7. Cardinality(free) \in Nat /\ count <= Cardinality(free)
  <2>. HIDE DEF free, taken
  <2>1. Cardinality(free) \in Nat
    BY <1>6, FS_CardinalityType
  <2>. QED BY <2>1, <1>1, <1>2, <1>3, <1>5, <1>6
<1>. QED BY <1>4, <1>6, <1>7 DEF all, ids

\* A transcription gives markers in the order of time, whatever it replaces.
LEMMA TranscribedIs ==
    ASSUME NEW points \in Seq(Marker), NEW starts, starts \subseteq Nat, IsFiniteSet(starts),
           NEW length, NEW tolerance, NEW replace
    PROVE  LET p == ApplyTranscription(points, starts, length, tolerance, replace) IN p \in Seq(Marker) /\ InTime(p)
PROOF
<1>. DEFINE stays == {i \in DOMAIN points : \/ ~replace
                                            \/ points[i].at < Min(starts) - tolerance
                                            \/ points[i].at > Max(starts) + length + tolerance}
            kept == Picked(points, Ascending(stays))
            count == Cardinality(starts)
            free == (1 .. Len(kept) + count) \ {kept[i].id : i \in DOMAIN kept}
            New(n, at) == [id |-> Ascending(free)[n], at |-> at, value |-> at]
            new == [n \in 1 .. count |-> New(n, Ascending(starts)[n])]
<1>1. kept \in Seq(Marker)
  <2>1. stays \subseteq DOMAIN points
    OBVIOUS
  <2>. HIDE DEF stays
  <2>. QED BY <2>1, AscendingPicked
<1>2. count \in Nat
  BY FS_CardinalityType
<1>. HIDE DEF kept, stays, count
<1>3. /\ free \subseteq Nat /\ IsFiniteSet(free)
      /\ Cardinality(free) \in Nat /\ count <= Cardinality(free)
  BY <1>1, <1>2, FreeIds
<1>. HIDE DEF free
<1>4. \A n \in 1 .. count : Ascending(free)[n] \in Nat
  <2>1. free \subseteq Int
    BY <1>3
  <2>2. Ascending(free) \in [1 .. Cardinality(free) -> free]
    BY <1>3, <2>1, AscendingLists
  <2>3. \A n \in 1 .. count : n \in 1 .. Cardinality(free)
    BY <1>2, <1>3
  <2>. QED BY <1>3, <2>2, <2>3
<1>5. \A n \in 1 .. count : Ascending(starts)[n] \in Nat
  <2>1. starts \subseteq Int
    OBVIOUS
  <2>2. Ascending(starts) \in [1 .. Cardinality(starts) -> starts]
    BY <2>1, AscendingLists
  <2>. QED BY <2>2 DEF count
<1>6. new \in [1 .. count -> Marker]
  BY <1>4, <1>5 DEF Marker
<1>. HIDE DEF new
<1>7. new \in Seq(Marker)
  BY <1>2, <1>6
<1>. DEFINE all == kept \o new
<1>8. all \in Seq(Marker)
  BY <1>1, <1>7
<1>. HIDE DEF all
<1>9. ByTime(all) \in Seq(Marker) /\ InTime(ByTime(all))
  BY <1>8, PointTypes, ByTimeIs
<1>10. ApplyTranscription(points, starts, length, tolerance, replace) = ByTime(all)
  BY Zenon DEF ApplyTranscription, all, new, free, count, kept, stays
<1>. QED BY <1>9, <1>10

-----------------------------------------------------------------------------
\* The tempo map and the automation

\* The first point at a time, as the operations on tempo markers and automation find it
At(points, at) == {i \in 1 .. Len(points) : points[i].at = at}
FirstAt(points, at) == IF At(points, at) # {} THEN Min(At(points, at)) ELSE 0

\* It is at that time.
LEMMA AtTime ==
    ASSUME NEW D, NEW points \in Seq(D), NEW at, FirstAt(points, at) # 0
    PROVE  FirstAt(points, at) \in DOMAIN points /\ points[FirstAt(points, at)].at = at
PROOF
<1>. DEFINE I == At(points, at)
<1>1. I # {} /\ FirstAt(points, at) = Min(I)
  BY DEF FirstAt
<1>2. I \in SUBSET Nat
  BY DEF At
<1>3. Min(I) \in I
  <2>. HIDE DEF I
  <2>. QED BY <1>1, <1>2, LeastIn
<1>. QED BY <1>1, <1>3 DEF At

\* A tempo map: it has a marker, and is in the order of time.
Mapped(map) == map \in Seq(TempoMarker) /\ map # <<>> /\ InTime(map)

\* Ordering the markers of a map gives a map.
LEMMA SortedMap ==
    ASSUME NEW map \in Seq(TempoMarker), map # <<>>
    PROVE  Mapped(ByTime(map))
PROOF
<1>1. ByTime(map) \in Seq(TempoMarker) /\ Len(ByTime(map)) = Len(map) /\ InTime(ByTime(map))
  BY PointTypes, ByTimeIs
<1>. QED BY <1>1 DEF Mapped

\* The quotient of a division is within one divisor of what is divided.
LEMMA QuotientIs ==
    ASSUME NEW a \in Int, NEW b \in Nat \ {0}
    PROVE  /\ a \div b \in Int
           /\ b * (a \div b) <= a /\ a < b * (a \div b) + b
PROOF
OBVIOUS

\* The nearest whole number is no further away than half a divisor, and within whole limits
\* of what is divided.
LEMMA NearestIs ==
    ASSUME NEW n \in Int, NEW d \in Nat \ {0}, NEW lo \in Int, NEW hi \in Int, d * lo <= n, n <= d * hi
    PROVE  /\ ToNearest(n, d) \in lo .. hi
           /\ 2 * Gap(d * ToNearest(n, d), n) <= d
PROOF
<1>. DEFINE q == ToNearest(n, d)
<1>1. /\ q \in Int
      /\ (2 * d) * q <= 2 * n + d /\ 2 * n + d < (2 * d) * q + 2 * d
  <2>1. 2 * n + d \in Int /\ 2 * d \in Nat \ {0}
    OBVIOUS
  <2>. QED BY <2>1, QuotientIs DEF ToNearest
<1>. HIDE DEF q
<1>2. ASSUME q < lo PROVE FALSE
  <2>1. q + 1 <= lo
    BY <1>1, <1>2
  <2>2. d * (q + 1) <= d * lo
    BY <1>1, <2>1
  <2>3. (2 * d) * q + 2 * d = 2 * (d * (q + 1))
    BY <1>1
  <2>4. d * (q + 1) \in Int /\ d * lo \in Int /\ (2 * d) * q \in Int
    BY <1>1
  <2>. QED BY <1>1, <2>2, <2>3, <2>4
<1>3. ASSUME q > hi PROVE FALSE
  <2>1. hi + 1 <= q
    BY <1>1, <1>3
  <2>2. d * (hi + 1) <= d * q
    BY <1>1, <2>1
  <2>3. (2 * d) * q = 2 * (d * q) /\ d * (hi + 1) = d * hi + d
    BY <1>1
  <2>4. d * q \in Int /\ d * hi \in Int
    BY <1>1
  <2>. QED BY <1>1, <2>2, <2>3, <2>4
<1>4. 2 * Gap(d * q, n) <= d
  <2>1. d * q \in Int /\ (2 * d) * q = 2 * (d * q)
    BY <1>1
  <2>. QED BY <1>1, <2>1 DEF Gap
<1>. QED BY <1>1, <1>2, <1>3, <1>4 DEF q

\* What holds of the tempo of a project whose map is this
Tempoed(tempo, map) == tempo \in MinTempo .. MaxTempo /\ Follows(tempo, map[1].value)

\* The whole number of a marker's tempo is a tempo that follows it,
LEMMA WholeIs ==
    ASSUME NEW bpm \in Bpms
    PROVE  Whole(bpm) \in MinTempo .. MaxTempo /\ Follows(Whole(bpm), bpm)
PROOF
<1>1. MinTempo \in Int /\ MaxTempo \in Int /\ BpmParts \in Nat \ {0}
  BY LimitsAssumption DEF LimitsAssumption
<1>2. bpm \in Int /\ BpmParts * MinTempo <= bpm /\ bpm <= BpmParts * MaxTempo
  BY <1>1 DEF Bpms, InParts
<1>. QED BY <1>1, <1>2, NearestIs DEF Whole, Follows, InParts

\* and a marker at a tempo is followed by it.
LEMMA InPartsIs ==
    ASSUME NEW tempo \in MinTempo .. MaxTempo
    PROVE  /\ FirstMarker(tempo) \in TempoMarker /\ FirstMarker(tempo).at = 0
           /\ FirstMarker(tempo).value = InParts(tempo)
           /\ Follows(tempo, InParts(tempo))
PROOF
<1>1. MinTempo \in Int /\ MaxTempo \in Int /\ BpmParts \in Nat \ {0}
  BY LimitsAssumption DEF LimitsAssumption
<1>2. /\ tempo \in Int /\ BpmParts * tempo \in Int /\ BpmParts * MinTempo \in Int /\ BpmParts * MaxTempo \in Int
      /\ BpmParts * MinTempo <= BpmParts * tempo /\ BpmParts * tempo <= BpmParts * MaxTempo
  BY <1>1
<1>3. InParts(tempo) \in Bpms
  BY <1>2 DEF Bpms, InParts
<1>4. Follows(tempo, InParts(tempo))
  BY <1>1, <1>2 DEF Follows, Gap, InParts
<1>. QED BY <1>3, <1>4 DEF FirstMarker, TempoMarker

\* Adding a tempo marker gives the document another map.
LEMMA AddTempoIs ==
    ASSUME NEW project, Mapped(project.map), NEW at \in Nat, NEW bpm \in Bpms
    PROVE  \E map : Mapped(map) /\ AddTempo(project, at, bpm) = Tempo(project, map)
PROOF
<1>. DEFINE map == project.map
            same == SelectInSeq(map, LAMBDA m : m.at = at)
            set == [map EXCEPT ![same].value = bpm]
            new == [id |-> 0, at |-> at, value |-> bpm]
            longer == Append(map, new)
<1>1. map \in Seq(TempoMarker) /\ InTime(map) /\ map # <<>>
  BY DEF Mapped
<1>2. ASSUME same # 0 PROVE Mapped(set)
  <2>1. same \in DOMAIN map
    <3>1. same = FirstAt(map, at)
      BY Zenon DEF SelectInSeq, FirstAt, At
    <3>. HIDE DEF same
    <3>. QED BY <1>1, <1>2, <3>1, AtTime
  <2>. HIDE DEF same, map
  <2>. DEFINE p == [map[same] EXCEPT !.value = bpm]
  <2>2. p \in TempoMarker /\ p.at = map[same].at
    <3>1. map[same] \in TempoMarker
      BY <1>1, <2>1
    <3>. QED BY <3>1 DEF TempoMarker
  <2>3. set = [map EXCEPT ![same] = p]
    BY Zenon
  <2>. HIDE DEF p, set
  <2>4. /\ [map EXCEPT ![same] = p] \in Seq(TempoMarker) /\ Len([map EXCEPT ![same] = p]) = Len(map)
        /\ InTime([map EXCEPT ![same] = p])
    BY <1>1, <2>1, <2>2, RevaluedIs
  <2>. QED BY <1>1, <2>3, <2>4 DEF Mapped
<1>3. Mapped(ByTime(longer))
  <2>. HIDE DEF map
  <2>1. new \in TempoMarker
    BY DEF TempoMarker
  <2>. HIDE DEF new
  <2>2. longer \in Seq(TempoMarker) /\ longer # <<>>
    BY <1>1, <2>1
  <2>. HIDE DEF longer
  <2>. QED BY <2>2, SortedMap
<1>4. AddTempo(project, at, bpm) = Tempo(project, IF same # 0 THEN set ELSE ByTime(longer))
  BY Zenon DEF AddTempo
<1>. QED BY <1>2, <1>3, <1>4, Zenon

\* So does moving the nearest,
LEMMA MovedTempo ==
    ASSUME NEW project, Mapped(project.map), NEW at \in Nat, NEW to \in Nat, NEW bpm \in Bpms,
           NEW tolerance, Near(project.map, at, tolerance) # {}
    PROVE  \E map : Mapped(map) /\ MoveNearestTempo(project, at, tolerance, to, bpm) = Tempo(project, map)
PROOF
<1>. DEFINE map == project.map
            i == Nearest(map, at, tolerance)
            p == [[map[i] EXCEPT !.at = to] EXCEPT !.value = bpm]
            moved == [map EXCEPT ![i] = p]
<1>1. map \in Seq(TempoMarker) /\ InTime(map) /\ map # <<>>
  BY DEF Mapped
<1>2. i \in DOMAIN map
  BY <1>1, PointTypes, NearestIn
<1>3. MoveNearestTempo(project, at, tolerance, to, bpm)
      = Tempo(project, ByTime([map EXCEPT ![i].at = to, ![i].value = bpm]))
  BY Zenon DEF MoveNearestTempo
<1>4. [map EXCEPT ![i].at = to, ![i].value = bpm] = moved
  <2>. HIDE DEF i, map
  <2>. QED BY <1>1, <1>2
<1>. HIDE DEF i, map
<1>5. p \in TempoMarker
  <2>1. map[i] \in TempoMarker
    BY <1>1, <1>2
  <2>. QED BY <2>1 DEF TempoMarker
<1>. HIDE DEF p
<1>6. moved \in Seq(TempoMarker) /\ Len(moved) = Len(map)
  BY <1>1, <1>2, <1>5, ReplacedIs
<1>. HIDE DEF moved
<1>7. moved # <<>>
  BY <1>1, <1>6
<1>. QED BY <1>3, <1>4, <1>6, <1>7, SortedMap, Zenon

\* and deleting it, as it is not the last.
LEMMA DeletedTempo ==
    ASSUME NEW project, Mapped(project.map), NEW at \in Nat, NEW tolerance, CanDeleteTempo(project, at, tolerance)
    PROVE  \E map : Mapped(map) /\ DeleteNearestTempo(project, at, tolerance) = Tempo(project, map)
PROOF
<1>. DEFINE map == project.map
            i == Nearest(map, at, tolerance)
            left == RemoveAt(map, i)
<1>1. map \in Seq(TempoMarker) /\ InTime(map) /\ Len(map) > 1 /\ Near(map, at, tolerance) # {}
  BY DEF Mapped, CanDeleteTempo
<1>2. i \in DOMAIN map
  BY <1>1, PointTypes, NearestIn
<1>3. DeleteNearestTempo(project, at, tolerance) = Tempo(project, left)
  BY Zenon DEF DeleteNearestTempo, DeleteNearest
<1>. HIDE DEF i, map
<1>4. left \in Seq(TempoMarker) /\ Len(left) = Len(map) - 1 /\ InTime(left)
  BY <1>1, <1>2, PointTypes, RemoveAtIs, RemovedInTime
<1>5. left # <<>>
  <2>. HIDE DEF left
  <2>. QED BY <1>1, <1>4
<1>. QED BY <1>3, <1>4, <1>5 DEF Mapped

\* A limited value is within its limits.
LEMMA LimitedIs ==
    ASSUME NEW value \in Int
    PROVE  Limited(value) \in MinValue .. MaxValue
PROOF
<1>1. MinValue \in Int /\ MaxValue \in Int /\ MinValue <= MaxValue
  BY LimitsAssumption DEF LimitsAssumption
<1>. DEFINE low == Min({value, MaxValue})
<1>2. low \in Int /\ low <= MaxValue
  <2>1. \E x \in {value, MaxValue} : \A y \in {value, MaxValue} : x <= y
    BY <1>1
  <2>2. low \in {value, MaxValue} /\ \A y \in {value, MaxValue} : low <= y
    BY <2>1, Zenon DEF Min
  <2>. QED BY <1>1, <2>2
<1>. DEFINE both == {MinValue, low}
<1>. HIDE DEF low
<1>3. \E x \in both : \A y \in both : x >= y
  BY <1>1, <1>2
<1>4. Max(both) \in both /\ \A y \in both : Max(both) >= y
  BY <1>3, Zenon DEF Max
<1>5. Max(both) \in MinValue .. MaxValue
  BY <1>1, <1>2, <1>4
<1>. QED BY <1>5, Zenon DEF Limited, low

\* Automation: within its limits, in the order of time
Automated(points) == points \in Seq(AutomationPoint) /\ InTime(points)

\* Ordering automation points gives automation.
LEMMA SortedPoints ==
    ASSUME NEW points \in Seq(AutomationPoint)
    PROVE  Automated(ByTime(points))
PROOF
BY PointTypes, ByTimeIs DEF Automated

\* So does setting a point,
LEMMA SetPointIs ==
    ASSUME NEW points, Automated(points), NEW at \in Nat, NEW value \in Int
    PROVE  Automated(SetPoint(points, at, value))
PROOF
<1>. DEFINE same == SelectInSeq(points, LAMBDA p : p.at = at)
            set == [points EXCEPT ![same].value = Limited(value)]
            new == [id |-> 0, at |-> at, value |-> Limited(value)]
            longer == Append(points, new)
<1>1. points \in Seq(AutomationPoint) /\ InTime(points)
  BY DEF Automated
<1>2. Limited(value) \in MinValue .. MaxValue
  BY LimitedIs
<1>3. ASSUME same # 0 PROVE Automated(set)
  <2>1. same \in DOMAIN points
    <3>1. same = FirstAt(points, at)
      BY Zenon DEF SelectInSeq, FirstAt, At
    <3>. HIDE DEF same
    <3>. QED BY <1>1, <1>3, <3>1, AtTime
  <2>. HIDE DEF same
  <2>. DEFINE p == [points[same] EXCEPT !.value = Limited(value)]
  <2>2. p \in AutomationPoint /\ p.at = points[same].at
    <3>1. points[same] \in AutomationPoint
      BY <1>1, <2>1
    <3>. QED BY <1>2, <3>1 DEF AutomationPoint
  <2>3. set = [points EXCEPT ![same] = p]
    BY Zenon
  <2>. HIDE DEF p, set
  <2>4. [points EXCEPT ![same] = p] \in Seq(AutomationPoint) /\ InTime([points EXCEPT ![same] = p])
    BY <1>1, <2>1, <2>2, RevaluedIs
  <2>. QED BY <2>3, <2>4 DEF Automated
<1>4. Automated(ByTime(longer))
  <2>1. new \in AutomationPoint
    BY <1>2 DEF AutomationPoint
  <2>. HIDE DEF new
  <2>2. longer \in Seq(AutomationPoint)
    BY <1>1, <2>1
  <2>. QED BY <2>2, SortedPoints
<1>5. SetPoint(points, at, value) = IF same # 0 THEN set ELSE ByTime(longer)
  BY Zenon DEF SetPoint
<1>. QED BY <1>3, <1>4, <1>5, Zenon

\* moving one
LEMMA MovePointIs ==
    ASSUME NEW points, Automated(points), NEW i \in DOMAIN points, NEW at \in Nat, NEW value \in Int
    PROVE  Automated(MovePoint(points, i, at, value))
PROOF
<1>. DEFINE new == [id |-> 0, at |-> at, value |-> Limited(value)]
            moved == [points EXCEPT ![i] = new]
<1>1. points \in Seq(AutomationPoint)
  BY DEF Automated
<1>2. new \in AutomationPoint
  BY LimitedIs DEF AutomationPoint
<1>. HIDE DEF new
<1>3. moved \in Seq(AutomationPoint)
  BY <1>1, <1>2, ReplacedIs
<1>. HIDE DEF moved
<1>4. Automated(ByTime(moved))
  BY <1>3, SortedPoints
<1>. QED BY <1>4, Zenon DEF MovePoint, moved, new

\* and deleting those of a range.
LEMMA DeletePointsIs ==
    ASSUME NEW points, Automated(points), NEW lo, NEW hi
    PROVE  Automated(DeletePoints(points, lo, hi))
PROOF
<1>. DEFINE S == {i \in DOMAIN points : points[i].at < lo \/ points[i].at > hi}
<1>1. S \subseteq DOMAIN points
  OBVIOUS
<1>2. DeletePoints(points, lo, hi) = Picked(points, Ascending(S))
  BY Zenon DEF DeletePoints
<1>. HIDE DEF S
<1>. QED BY <1>1, <1>2, AscendingPicked, PickedInTime DEF Automated

-----------------------------------------------------------------------------
\* Times as the text of a project writes them: rounded to their leading digits

\* The powers up to the n-th
PowersTo(f, n) ==
    /\ f \in [0 .. n -> Nat] /\ f[0] = 1
    /\ \A k \in 1 .. n : f[k] = Base * f[k - 1]

\* A set of counterexamples has one whose predecessor is none.
LEMMA SmallestCounter ==
    ASSUME NEW Bad \in SUBSET Nat, Bad # {}
    PROVE  \E n \in Bad : n = 0 \/ (n - 1 \in Nat /\ n - 1 \notin Bad)
PROOF
BY LeastOfNaturals

\* The powers up to every number exist, so that Power, which is recursive, is what it says.
LEMMA PowersExist ==
    ASSUME NEW n \in Nat
    PROVE  \E f : PowersTo(f, n)
PROOF
<1>. DEFINE Bad == {m \in Nat : ~ \E f : PowersTo(f, m)}
<1>1. SUFFICES ASSUME Bad # {} PROVE FALSE
  OBVIOUS
<1>2. PICK m \in Bad : m = 0 \/ (m - 1 \in Nat /\ m - 1 \notin Bad)
  <2>1. Bad \in SUBSET Nat
    OBVIOUS
  <2>. HIDE DEF Bad
  <2>. QED BY <1>1, <2>1, SmallestCounter
<1>3. CASE m = 0
  <2>1. PowersTo([k \in 0 .. 0 |-> 1], 0)
    BY DEF PowersTo
  <2>. QED BY <1>2, <1>3, <2>1
<1>4. CASE m # 0
  <2>1. m \in Nat /\ m - 1 \in Nat /\ \E f : PowersTo(f, m - 1)
    BY <1>2, <1>4
  <2>2. PICK f : PowersTo(f, m - 1)
    BY <2>1
  <2>. DEFINE g == [k \in 0 .. m |-> IF k = m THEN Base * f[m - 1] ELSE f[k]]
  <2>3. Base \in Nat
    BY TextAssumption DEF TextAssumption
  <2>4. /\ \A k \in 0 .. m - 1 : f[k] \in Nat
        /\ f[0] = 1 /\ \A k \in 1 .. m - 1 : f[k] = Base * f[k - 1]
    BY <2>2 DEF PowersTo
  <2>5. g \in [0 .. m -> Nat]
    <3>1. Base * f[m - 1] \in Nat
      BY <2>1, <2>3, <2>4
    <3>. QED BY <2>1, <2>4, <3>1
  <2>6. g[0] = 1
    BY <1>4, <2>1, <2>4
  <2>7. ASSUME NEW k \in 1 .. m PROVE g[k] = Base * g[k - 1]
    <3>1. g[k] = (IF k = m THEN Base * f[m - 1] ELSE f[k]) /\ g[k - 1] = f[k - 1]
      BY <2>1
    <3>. QED BY <2>1, <2>4, <3>1
  <2>. HIDE DEF g
  <2>8. PowersTo(g, m)
    BY <2>5, <2>6, <2>7 DEF PowersTo
  <2>. QED BY <1>2, <2>8
<1>. QED BY <1>3, <1>4

\* They are the same powers.
LEMMA PowersAgree ==
    ASSUME NEW n \in Nat, NEW f, PowersTo(f, n), NEW m \in Nat, NEW g, PowersTo(g, m), m <= n, NEW k \in 0 .. m
    PROVE  f[k] = g[k]
PROOF
<1>. DEFINE Bad == {i \in 0 .. m : f[i] # g[i]}
<1>1. SUFFICES ASSUME Bad # {} PROVE FALSE
  OBVIOUS
<1>2. PICK i \in Bad : i = 0 \/ (i - 1 \in Nat /\ i - 1 \notin Bad)
  <2>1. Bad \in SUBSET Nat
    OBVIOUS
  <2>. HIDE DEF Bad
  <2>. QED BY <1>1, <2>1, SmallestCounter
<1>3. i # 0
  BY <1>2 DEF PowersTo
<1>4. i \in 1 .. m /\ i \in 1 .. n /\ f[i - 1] = g[i - 1]
  BY <1>2, <1>3
<1>5. f[i] = Base * f[i - 1] /\ g[i] = Base * g[i - 1]
  BY <1>4 DEF PowersTo
<1>. QED BY <1>2, <1>4, <1>5

\* The powers of the base
LEMMA PowerIs ==
    /\ Power[0] = 1
    /\ \A k \in Nat : k # 0 => Power[k] = Base * Power[k - 1]
PROOF
<1>. DEFINE To(n) == CHOOSE f : PowersTo(f, n)
            F == [k \in Nat |-> To(k)[k]]
            Meets(f) == f = [k \in Nat |-> IF k = 0 THEN 1 ELSE Base * f[k - 1]]
<1>1. \A n \in Nat : PowersTo(To(n), n)
  BY PowersExist
<1>. HIDE DEF To
<1>2. ASSUME NEW k \in Nat PROVE F[k] = IF k = 0 THEN 1 ELSE Base * F[k - 1]
  <2>1. CASE k = 0
    BY <1>1, <2>1 DEF PowersTo
  <2>2. CASE k # 0
    <3>1. k - 1 \in Nat /\ k - 1 <= k /\ k - 1 \in 0 .. k - 1 /\ k \in 1 .. k
      BY <2>2
    <3>2. PowersTo(To(k), k) /\ PowersTo(To(k - 1), k - 1)
      BY <1>1, <3>1
    <3>3. To(k)[k - 1] = To(k - 1)[k - 1]
      BY <3>1, <3>2, PowersAgree
    <3>4. To(k)[k] = Base * To(k)[k - 1]
      BY <3>1, <3>2 DEF PowersTo
    <3>5. F[k] = To(k)[k] /\ F[k - 1] = To(k - 1)[k - 1]
      BY <3>1
    <3>. QED BY <2>2, <3>3, <3>4, <3>5
  <2>. QED BY <2>1, <2>2
<1>3. Meets(F)
  <2>1. F = [k \in Nat |-> F[k]]
    OBVIOUS
  <2>. HIDE DEF F
  <2>2. \A k \in Nat : F[k] = IF k = 0 THEN 1 ELSE Base * F[k - 1]
    BY <1>2
  <2>3. F = [k \in Nat |-> IF k = 0 THEN 1 ELSE Base * F[k - 1]]
    BY <2>1, <2>2, Zenon
  <2>. QED BY <2>3
<1>. HIDE DEF F
<1>4. Power = CHOOSE f : Meets(f)
  BY Zenon DEF Power
<1>5. Meets(Power)
  BY <1>3, <1>4, Zenon
<1>6. Power = [k \in Nat |-> IF k = 0 THEN 1 ELSE Base * Power[k - 1]]
  BY <1>5
<1>. HIDE DEF Meets
<1>7. \A k \in Nat : Power[k] = IF k = 0 THEN 1 ELSE Base * Power[k - 1]
  BY <1>6, Zenon
<1>. QED BY <1>7

\* What a quotient is
LEMMA DivisionIs ==
    ASSUME NEW a \in Nat, NEW b \in Nat \ {0}
    PROVE  a \div b \in Nat /\ b * (a \div b) <= a /\ a < b * (a \div b) + b
PROOF
OBVIOUS

\* Multiples of a unit are in the order of their factors.
LEMMA ProductOrder ==
    ASSUME NEW a \in Int, NEW b \in Int, NEW u \in Nat \ {0}
    PROVE  /\ a <= b => u * a <= u * b
           /\ u * a < u * b => a < b
PROOF
<1>1. a <= b => u * a <= u * b
  OBVIOUS
<1>2. b <= a => u * b <= u * a
  OBVIOUS
<1>. QED BY <1>1, <1>2

\* No power is zero.
LEMMA PowerPositive ==
    ASSUME NEW n \in Nat
    PROVE  Power[n] \in Nat \ {0}
PROOF
<1>. DEFINE Bad == {k \in Nat : Power[k] \notin Nat \ {0}}
<1>1. SUFFICES ASSUME Bad # {} PROVE FALSE
  OBVIOUS
<1>2. PICK k \in Bad : k = 0 \/ (k - 1 \in Nat /\ k - 1 \notin Bad)
  <2>1. Bad \in SUBSET Nat
    OBVIOUS
  <2>. HIDE DEF Bad
  <2>. QED BY <1>1, <2>1, SmallestCounter
<1>3. k # 0
  BY <1>2, PowerIs
<1>4. k \in Nat /\ Power[k - 1] \in Nat \ {0} /\ Power[k] = Base * Power[k - 1]
  BY <1>2, <1>3, PowerIs
<1>5. Base \in Nat \ {0}
  BY TextAssumption DEF TextAssumption
<1>6. \A a, b \in Nat \ {0} : a * b \in Nat \ {0}
  OBVIOUS
<1>7. Power[k] \in Nat \ {0}
  BY <1>4, <1>5, <1>6
<1>. QED BY <1>2, <1>7

\* Of two powers the greater is a multiple of the other.
LEMMA PowerDivides ==
    ASSUME NEW i \in Nat, NEW j \in Nat, i <= j
    PROVE  \E q \in Nat : Power[j] = Power[i] * q
PROOF
<1>. DEFINE Bad == {k \in Nat : ~ \E q \in Nat : Power[i + k] = Power[i] * q}
<1>1. SUFFICES Bad = {}
  <2>1. j - i \in Nat /\ i + (j - i) = j
    OBVIOUS
  <2>. QED BY <2>1
<1>2. SUFFICES ASSUME Bad # {} PROVE FALSE
  OBVIOUS
<1>3. PICK k \in Bad : k = 0 \/ (k - 1 \in Nat /\ k - 1 \notin Bad)
  <2>1. Bad \in SUBSET Nat
    OBVIOUS
  <2>. HIDE DEF Bad
  <2>. QED BY <1>2, <2>1, SmallestCounter
<1>4. k # 0
  <2>1. Power[i + 0] = Power[i] * 1
    BY PowerPositive
  <2>. QED BY <1>3, <2>1
<1>5. PICK q \in Nat : Power[i + (k - 1)] = Power[i] * q
  BY <1>3, <1>4
<1>6. Power[i + k] = Base * Power[i + (k - 1)]
  <2>1. k \in Nat /\ i + k \in Nat /\ i + k # 0 /\ (i + k) - 1 = i + (k - 1)
    BY <1>3, <1>4
  <2>. QED BY <2>1, PowerIs
<1>7. Base \in Nat /\ Power[i] \in Nat
  BY TextAssumption, PowerPositive DEF TextAssumption
<1>8. \A a, b, c \in Nat : a * (b * c) = b * (a * c) /\ a * c \in Nat
  OBVIOUS
<1>9. Power[i + k] = Power[i] * (Base * q) /\ Base * q \in Nat
  BY <1>5, <1>6, <1>7, <1>8
<1>. QED BY <1>3, <1>9

\* To the nearest multiple of a unit
NearestMultiple(n, u) == u * ((2 * n + u) \div (2 * u))

\* Rounding to a multiple of a unit passes no other multiple of it.
LEMMA RoundingStays ==
    ASSUME NEW n \in Nat, NEW u \in Nat \ {0}, NEW k \in Nat
    PROVE  /\ NearestMultiple(n, u) \in Nat
           /\ u * k <= n => u * k <= NearestMultiple(n, u)
           /\ n <= u * k => NearestMultiple(n, u) <= u * k
PROOF
<1>. DEFINE q == (2 * n + u) \div (2 * u)
<1>1. 2 * n + u \in Nat /\ 2 * u \in Nat \ {0}
  OBVIOUS
<1>2. q \in Nat /\ (2 * u) * q <= 2 * n + u /\ 2 * n + u < (2 * u) * q + 2 * u
  BY <1>1, DivisionIs
<1>. HIDE DEF q
<1>3. (2 * u) * q = 2 * (u * q) /\ u * q \in Nat /\ u * k \in Nat
  BY <1>2
<1>4. u * (q + 1) = u * q + u /\ u * (k + 1) = u * k + u
  BY <1>2
<1>5. ASSUME u * k <= n PROVE u * k <= u * q
  <2>1. u * k < u * (q + 1)
    BY <1>2, <1>3, <1>4, <1>5
  <2>2. k < q + 1
    BY <1>2, <2>1, ProductOrder
  <2>3. k <= q
    BY <1>2, <2>2
  <2>. QED BY <1>2, <2>3, ProductOrder
<1>6. ASSUME n <= u * k PROVE u * q <= u * k
  <2>1. u * q < u * (k + 1)
    BY <1>2, <1>3, <1>4, <1>6
  <2>2. q < k + 1
    BY <1>2, <2>1, ProductOrder
  <2>3. q <= k
    BY <1>2, <2>2
  <2>. QED BY <1>2, <2>3, ProductOrder
<1>7. NearestMultiple(n, u) = u * q
  BY DEF NearestMultiple, q
<1>. QED BY <1>3, <1>5, <1>6, <1>7

\* Rounding two numbers to one unit keeps their order.
LEMMA RoundingOrder ==
    ASSUME NEW m \in Nat, NEW n \in Nat, m <= n, NEW u \in Nat \ {0}
    PROVE  NearestMultiple(m, u) <= NearestMultiple(n, u)
PROOF
<1>. DEFINE p == (2 * m + u) \div (2 * u)
            q == (2 * n + u) \div (2 * u)
            v == 2 * u
<1>1. 2 * m + u \in Nat /\ 2 * n + u \in Nat /\ v \in Nat \ {0}
  OBVIOUS
<1>2. /\ p \in Nat /\ v * p <= 2 * m + u
      /\ q \in Nat /\ 2 * n + u < v * q + v
  BY <1>1, DivisionIs
<1>. HIDE DEF p, q, v
<1>3. v * (q + 1) = v * q + v /\ v * p \in Nat /\ v * q \in Nat
  BY <1>1, <1>2
<1>4. v * p < v * (q + 1)
  BY <1>1, <1>2, <1>3
<1>5. p < q + 1
  BY <1>1, <1>2, <1>4, ProductOrder
<1>6. p <= q
  BY <1>2, <1>5
<1>7. u * p <= u * q
  BY <1>2, <1>6, ProductOrder
<1>. QED BY <1>7 DEF NearestMultiple, p, q, v

\* The powers a number is too long for, and the one it is rounded to
LongFor(n) == {0} \cup {k \in 1 .. 9 : n \div Power[k] >= Power[Digits - 1]}
Exponent(n) == Max(LongFor(n))

\* What Rounded does, in terms of them
LEMMA ExponentIs ==
    ASSUME NEW n \in Nat
    PROVE  /\ Exponent(n) \in LongFor(n) /\ Exponent(n) \in Nat
           /\ \A k \in LongFor(n) : k <= Exponent(n)
           /\ LastUnit(n) = Power[Exponent(n)]
           /\ Rounded(n) = NearestMultiple(n, Power[Exponent(n)])
PROOF
<1>1. LongFor(n) \in SUBSET Nat /\ LongFor(n) # {} /\ \A k \in LongFor(n) : k <= 9
  BY DEF LongFor
<1>2. Max(LongFor(n)) \in LongFor(n) /\ \A k \in LongFor(n) : k <= Max(LongFor(n))
  BY <1>1, GreatestIn
<1>3. LastUnit(n) = Power[Exponent(n)]
  BY Zenon DEF LastUnit, Exponent, LongFor
<1>4. Rounded(n) = LastUnit(n) * ((2 * n + LastUnit(n)) \div (2 * LastUnit(n)))
  BY Zenon DEF Rounded
<1>. QED BY <1>1, <1>2, <1>3, <1>4 DEF Exponent, NearestMultiple

\* A rounded time is a time.
LEMMA RoundedIs ==
    ASSUME NEW n \in Nat
    PROVE  Rounded(n) \in Nat
PROOF
<1>1. Power[Exponent(n)] \in Nat \ {0}
  BY ExponentIs, PowerPositive
<1>. QED BY <1>1, ExponentIs, RoundingStays

\* Rounding keeps the order of times: to one unit, or past a number that both units divide.
LEMMA RoundedOrder ==
    ASSUME NEW m \in Nat, NEW n \in Nat, m <= n
    PROVE  Rounded(m) <= Rounded(n)
PROOF
<1>. DEFINE i == Exponent(m)
            j == Exponent(n)
            T == Power[Digits - 1]
<1>1. i \in Nat /\ j \in Nat /\ i \in LongFor(m) /\ j \in LongFor(n)
  BY ExponentIs
<1>2. Rounded(m) = NearestMultiple(m, Power[i]) /\ Rounded(n) = NearestMultiple(n, Power[j])
  BY ExponentIs
<1>3. Power[i] \in Nat \ {0} /\ Power[j] \in Nat \ {0} /\ T \in Nat \ {0}
  <2>1. Digits - 1 \in Nat
    BY TextAssumption DEF TextAssumption
  <2>. QED BY <1>1, <2>1, PowerPositive
<1>4. i <= j
  <2>1. i \in LongFor(n)
    <3>1. CASE i = 0
      BY <3>1 DEF LongFor
    <3>2. CASE i # 0
      <4>1. i \in 1 .. 9 /\ m \div Power[i] >= T
        BY <1>1, <3>2 DEF LongFor
      <4>2. /\ m \div Power[i] \in Nat /\ Power[i] * (m \div Power[i]) <= m
            /\ n \div Power[i] \in Nat /\ n < Power[i] * (n \div Power[i]) + Power[i]
        BY <1>3, DivisionIs
      <4>. DEFINE a == m \div Power[i]
                  b == n \div Power[i]
                  u == Power[i]
      <4>. HIDE DEF a, b, u
      <4>3. a \in Nat /\ b \in Nat /\ u * a <= m /\ n < u * b + u /\ u \in Nat \ {0}
        BY <1>3, <4>2 DEF a, b, u
      <4>4. u * (b + 1) = u * b + u /\ u * a \in Nat /\ u * b \in Nat
        BY <4>3
      <4>5. u * a < u * (b + 1)
        BY <4>3, <4>4
      <4>6. a < b + 1
        BY <4>3, <4>5, ProductOrder
      <4>7. a >= T
        BY <4>1 DEF a
      <4>8. b >= T
        BY <1>3, <4>3, <4>6, <4>7
      <4>9. n \div Power[i] >= Power[Digits - 1]
        BY <4>8 DEF b
      <4>. QED BY <4>1, <4>9 DEF LongFor
    <3>. QED BY <3>1, <3>2
  <2>. QED BY <2>1, ExponentIs
<1>5. CASE i = j
  BY <1>2, <1>3, <1>5, RoundingOrder
<1>6. CASE i # j
  <2>1. j \in 1 .. 9 /\ n \div Power[j] >= T
    BY <1>1, <1>4, <1>6 DEF LongFor
  <2>2. ~(m \div Power[j] >= T)
    <3>1. j \notin LongFor(m)
      <4>1. j \in LongFor(m) => j <= i
        BY ExponentIs
      <4>. QED BY <1>1, <1>4, <1>6, <4>1
    <3>. QED BY <2>1, <3>1 DEF LongFor
  <2>3. /\ m \div Power[j] \in Nat /\ m < Power[j] * (m \div Power[j]) + Power[j]
        /\ n \div Power[j] \in Nat /\ Power[j] * (n \div Power[j]) <= n
    BY <1>3, DivisionIs
  <2>. DEFINE a == m \div Power[j]
              b == n \div Power[j]
              u == Power[j]
  <2>. HIDE DEF a, b, u
  <2>4. /\ a \in Nat /\ m < u * a + u /\ b \in Nat /\ u * b <= n /\ u \in Nat \ {0}
        /\ b >= T /\ ~(a >= T)
    BY <1>3, <2>1, <2>2, <2>3 DEF a, b, u
  <2>. HIDE DEF T
  <2>5. u * T <= n
    <3>1. u * T <= u * b
      BY <1>3, <2>4, ProductOrder
    <3>2. u * T \in Nat /\ u * b \in Nat
      BY <1>3, <2>4
    <3>. QED BY <2>4, <3>1, <3>2
  <2>6. m <= u * T
    <3>1. a + 1 <= T
      BY <1>3, <2>4
    <3>2. u * (a + 1) <= u * T
      BY <1>3, <2>4, <3>1, ProductOrder
    <3>3. u * (a + 1) = u * a + u /\ u * a \in Nat /\ u * T \in Nat
      BY <1>3, <2>4
    <3>. QED BY <2>4, <3>2, <3>3
  <2>7. u * T <= Rounded(n)
    BY <1>2, <1>3, <2>4, <2>5, RoundingStays DEF u
  <2>8. Rounded(m) <= u * T
    <3>1. PICK q \in Nat : Power[j] = Power[i] * q
      BY <1>1, <1>4, PowerDivides
    <3>2. u * T = Power[i] * (q * T) /\ q * T \in Nat
      <4>1. \A x, y, z \in Nat : (x * y) * z = x * (y * z) /\ y * z \in Nat
        OBVIOUS
      <4>. QED BY <1>3, <3>1, <4>1 DEF u
    <3>. QED BY <1>2, <1>3, <2>6, <3>2, RoundingStays
  <2>9. Rounded(m) \in Nat /\ Rounded(n) \in Nat /\ u * T \in Nat
    BY <1>3, <2>4, RoundedIs
  <2>. QED BY <2>7, <2>8, <2>9
<1>. QED BY <1>5, <1>6

-----------------------------------------------------------------------------
\* The timeline of a document

\* What holds of the parts of a timeline, and of all of it
Ranged(r) == r \in [on : BOOLEAN, lo : Nat, hi : Nat] /\ r.lo <= r.hi
Marked(markers) == markers \in Seq(Marker) /\ InTime(markers)
Parts == {"markers", "map", "points", "tempo", "sel", "loop", "clips"}
TimelineGood(d) == 
    /\ Parts \subseteq DOMAIN d
    /\ Marked(d.markers) /\ Mapped(d.map) /\ Automated(d.points)
    /\ Tempoed(d.tempo, d.map)
    /\ Ranged(d.sel) /\ Ranged(d.loop)

\* A list all of whose points are of a kind is a list of points of that kind.
LEMMA Narrowed ==
    ASSUME NEW D, NEW E, NEW points \in Seq(D)
    PROVE  /\ \A i \in DOMAIN points : points[i] \in D
           /\ (\A i \in DOMAIN points : points[i] \in E) => points \in Seq(E)
PROOF
OBVIOUS

\* A good timeline is what the assumption on the start and TimelineInOrder speak of.
LEMMA TimelineIs ==
    ASSUME NEW d
    PROVE  TimelineGood(d) <=> Typed(d) /\ Ordered(d)
PROOF
<1>1. ASSUME NEW points
      PROVE  Automated(points) <=> /\ points \in Seq([id : {0}, at : Nat, value : Int]) /\ InTime(points)
                                   /\ \A i \in DOMAIN points : points[i].value \in MinValue .. MaxValue
  <2>1. MinValue \in Int /\ MaxValue \in Int
    BY LimitsAssumption DEF LimitsAssumption
  <2>. DEFINE Wide == [id : {0}, at : Nat, value : Int]
  <2>2. \A p : p \in AutomationPoint <=> p \in Wide /\ p.value \in MinValue .. MaxValue
    BY <2>1 DEF AutomationPoint
  <2>. HIDE DEF Wide
  <2>3. points \in Seq(AutomationPoint) => points \in Seq(Wide) /\ \A i \in DOMAIN points : points[i] \in AutomationPoint
    BY <2>2, Narrowed
  <2>4. points \in Seq(Wide) /\ (\A i \in DOMAIN points : points[i].value \in MinValue .. MaxValue)
        => points \in Seq(AutomationPoint)
    BY <2>2, Narrowed
  <2>. QED BY <2>2, <2>3, <2>4 DEF Automated, Wide
<1>2. Parts \subseteq DOMAIN d <=> {"markers", "map", "points", "tempo", "sel", "loop", "clips"} \subseteq DOMAIN d
  BY DEF Parts
<1>3. /\ Marked(d.markers) <=> d.markers \in Seq([id : Nat, at : Nat, value : Int]) /\ InTime(d.markers)
      /\ Mapped(d.map) <=> /\ d.map \in Seq([id : {0}, at : Nat, value : Bpms])
                           /\ InTime(d.map) /\ d.map # <<>>
      /\ Ranged(d.sel) /\ Ranged(d.loop) <=> /\ {d.sel, d.loop} \subseteq [on : BOOLEAN, lo : Nat, hi : Nat]
                                             /\ \A r \in {d.sel, d.loop} : r.lo <= r.hi
  BY Zenon DEF Marked, Marker, Mapped, TempoMarker, Ranged
<1>4. Automated(d.points) <=> /\ d.points \in Seq([id : {0}, at : Nat, value : Int]) /\ InTime(d.points)
                              /\ \A i \in DOMAIN d.points : d.points[i].value \in MinValue .. MaxValue
  BY <1>1
<1>. QED BY <1>2, <1>3, <1>4, Zenon DEF TimelineGood, Typed, Ordered, Tempoed

-----------------------------------------------------------------------------
\* The text of a project, written and read

\* Points of a kind stay of that kind at other times.
Redated(D) == \A p \in D : \A t \in Nat : [p EXCEPT !.at = t] \in D

\* Each kind of points does.
LEMMA RedatedIs ==
    Redated(Marker) /\ Redated(TempoMarker) /\ Redated(AutomationPoint)
PROOF
BY DEF Redated, Marker, TempoMarker, AutomationPoint

\* Points that are written with rounded times stay in order, and keep their values.
LEMMA WrittenIs ==
    ASSUME NEW D, Redated(D), \A p \in D : p.at \in Nat /\ "at" \in DOMAIN p /\ "value" \in DOMAIN p,
           NEW points \in Seq(D), InTime(points)
    PROVE  /\ WrittenPoints(points) \in Seq(D) /\ InTime(WrittenPoints(points))
           /\ Len(WrittenPoints(points)) = Len(points)
           /\ \A i \in DOMAIN points : WrittenPoints(points)[i].value = points[i].value
PROOF
<1>. DEFINE w == [i \in DOMAIN points |-> [points[i] EXCEPT !.at = Rounded(points[i].at)]]
<1>1. WrittenPoints(points) = w
  BY Zenon DEF WrittenPoints, Each
<1>2. \A i \in DOMAIN points : points[i] \in D /\ points[i].at \in Nat /\ Rounded(points[i].at) \in Nat
  <2>. HIDE DEF w
  <2>1. \A i \in DOMAIN points : points[i] \in D
    OBVIOUS
  <2>2. \A i \in DOMAIN points : points[i].at \in Nat
    BY <2>1
  <2>. QED BY <2>1, <2>2, RoundedIs
<1>3. \A i \in DOMAIN points : w[i] \in D /\ w[i].at = Rounded(points[i].at) /\ w[i].value = points[i].value
  <2>1. ASSUME NEW i \in DOMAIN points
        PROVE  w[i] \in D /\ w[i].at = Rounded(points[i].at) /\ w[i].value = points[i].value
    <3>1. w[i] = [points[i] EXCEPT !.at = Rounded(points[i].at)]
      OBVIOUS
    <3>2. points[i] \in D /\ "at" \in DOMAIN points[i] /\ "value" \in DOMAIN points[i] /\ Rounded(points[i].at) \in Nat
      BY <1>2
    <3>. HIDE DEF w
    <3>3. [points[i] EXCEPT !.at = Rounded(points[i].at)] \in D
      BY <3>2, Zenon DEF Redated
    <3>4. w[i].at = Rounded(points[i].at)
      BY <3>1, <3>2, Zenon
    <3>5. w[i].value = points[i].value
      BY <3>1, <3>2
    <3>. QED BY <3>1, <3>3, <3>4, <3>5
  <2>. HIDE DEF w
  <2>. QED BY <2>1
<1>4. DOMAIN w = DOMAIN points /\ w \in [DOMAIN points -> D]
  <2>1. DOMAIN w = DOMAIN points /\ w = [i \in DOMAIN points |-> w[i]]
    OBVIOUS
  <2>. HIDE DEF w
  <2>. QED BY <1>3, <2>1
<1>. HIDE DEF w
<1>5. w \in Seq(D) /\ Len(w) = Len(points)
  <2>1. DOMAIN points = 1 .. Len(points) /\ Len(points) \in Nat
    OBVIOUS
  <2>. QED BY <1>4, <2>1
<1>6. InTime(w)
  <2>1. ASSUME NEW i \in DOMAIN w, NEW k \in DOMAIN w, i < k PROVE w[i].at <= w[k].at
    <3>1. points[i].at <= points[k].at
      BY <1>4, <2>1 DEF InTime
    <3>2. Rounded(points[i].at) <= Rounded(points[k].at)
      BY <1>2, <1>4, <3>1, RoundedOrder
    <3>. QED BY <1>3, <1>4, <3>2
  <2>. QED BY <2>1 DEF InTime
<1>. QED BY <1>1, <1>3, <1>5, <1>6

\* A range that is written, or read, is a range.
LEMMA WrittenRangeIs ==
    ASSUME NEW r, Ranged(r)
    PROVE  Ranged(WrittenRange(r)) /\ Ranged(ReadRange(r))
PROOF
<1>1. r \in [on : BOOLEAN, lo : Nat, hi : Nat] /\ r.lo \in Nat /\ r.hi \in Nat /\ r.lo <= r.hi
  BY DEF Ranged
<1>2. Rounded(r.lo) \in Nat /\ Rounded(r.hi) \in Nat /\ Rounded(r.lo) <= Rounded(r.hi)
  BY <1>1, RoundedIs, RoundedOrder
<1>. DEFINE a == Rounded(r.lo)
            b == Rounded(r.hi)
            w == [r EXCEPT !.lo = a, !.hi = b]
<1>3. WrittenRange(r) = w
  BY Zenon DEF WrittenRange
<1>. HIDE DEF a, b
<1>4. Ranged(w)
  BY <1>1, <1>2 DEF Ranged, a, b
<1>5. Ranged(NoRange)
  BY DEF Ranged, NoRange
<1>. HIDE DEF w
<1>. QED BY <1>1, <1>3, <1>4, <1>5 DEF ReadRange, Ranged

\* Ordering a tempo map keeps its first marker: the tempo of the project stays.
LEMMA FirstTempoStays ==
    ASSUME NEW map, Mapped(map)
    PROVE  ByTime(map)[1] = map[1]
PROOF
<1>1. map \in Seq(TempoMarker) /\ map # <<>>
  BY DEF Mapped
<1>2. ASSUME NEW i \in DOMAIN map, i > 1 PROVE Earlier(map[1], 1, map[i], i)
  <2>1. 1 \in DOMAIN map
    BY <1>1
  <2>2. map[1].at <= map[i].at /\ map[1].at \in Nat /\ map[i].at \in Nat /\ map[1].id = 0 /\ map[i].id = 0
    <3>1. map[1].at <= map[i].at
      BY <1>2, <2>1 DEF Mapped, InTime
    <3>2. map[1] \in TempoMarker /\ map[i] \in TempoMarker
      BY <1>1, <2>1
    <3>. QED BY <3>1, <3>2, PointTypes
  <2>. QED BY <1>2, <2>2 DEF Earlier
<1>. QED BY <1>1, <1>2, PointTypes, FirstStays

\* Automation that is read is automation.
LEMMA ReadPointsIs ==
    ASSUME NEW points, Automated(points)
    PROVE  Automated(ReadPoints(points))
PROOF
<1>. DEFINE e == [i \in DOMAIN points |-> [points[i] EXCEPT !.value = Limited(points[i].value)]]
<1>1. ReadPoints(points) = ByTime(e)
  BY Zenon DEF ReadPoints, Each
<1>2. \A i \in DOMAIN points : e[i] \in AutomationPoint
  <2>1. ASSUME NEW i \in DOMAIN points PROVE e[i] \in AutomationPoint
    <3>1. points[i] \in AutomationPoint
      BY DEF Automated
    <3>2. points[i].value \in Int
      BY <3>1 DEF AutomationPoint
    <3>3. Limited(points[i].value) \in MinValue .. MaxValue
      BY <3>2, LimitedIs
    <3>. QED BY <3>1, <3>3 DEF AutomationPoint
  <2>. QED BY <2>1
<1>3. e \in Seq(AutomationPoint)
  <2>1. DOMAIN points = 1 .. Len(points) /\ Len(points) \in Nat
    BY DEF Automated
  <2>2. e \in [DOMAIN points -> AutomationPoint]
    BY <1>2
  <2>. HIDE DEF e
  <2>. QED BY <2>1, <2>2
<1>. HIDE DEF e
<1>. QED BY <1>1, <1>3, SortedPoints

-----------------------------------------------------------------------------
\* Changes of a document that leave its timeline alone

\* The timeline of e is that of d.
SameTimeline(e, d) ==
    /\ DOMAIN e = DOMAIN d
    /\ e.markers = d.markers /\ e.map = d.map /\ e.points = d.points /\ e.tempo = d.tempo
    /\ e.sel = d.sel /\ e.loop = d.loop

\* A document with a good timeline and one with the same
LEMMA SameKeeps ==
    ASSUME NEW d, NEW e, TimelineGood(d), SameTimeline(e, d)
    PROVE  TimelineGood(e)
PROOF
BY Zenon DEF TimelineGood, SameTimeline

\* One change after another
LEMMA SameAgain ==
    ASSUME NEW d, NEW e, NEW f, SameTimeline(e, d), SameTimeline(f, e)
    PROVE  SameTimeline(f, d)
PROOF
BY DEF SameTimeline

\* The routing rules leave the timeline alone,
LEMMA SameRouted ==
    ASSUME NEW d, Parts \subseteq DOMAIN d
    PROVE  SameTimeline(NormalizeRouting(d), d)
PROOF
<1>1. {"markers", "map", "points", "tempo", "sel", "loop", "clips"} \subseteq DOMAIN d
  BY Zenon DEF Parts
<1>. QED BY <1>1, Zenon DEF SameTimeline, NormalizeRouting

\* so does putting the clips into the playlists,
LEMMA SameModel ==
    ASSUME NEW d, Parts \subseteq DOMAIN d
    PROVE  SameTimeline(NormalizeEditModel(d), d) /\ SameTimeline(RebuildModel(d), d) /\ SameTimeline(MergeOrphans(d), d)
PROOF
<1>1. {"markers", "map", "points", "tempo", "sel", "loop", "clips"} \subseteq DOMAIN d
  BY Zenon DEF Parts
<1>2. SameTimeline(RebuildModel(d), d)
  BY <1>1, Zenon DEF SameTimeline, RebuildModel
<1>3. SameTimeline(MergeOrphans(d), d)
  BY <1>1, Zenon DEF SameTimeline, MergeOrphans
<1>. QED BY <1>2, <1>3, Zenon DEF NormalizeEditModel

\* so does making the clips of the playlists,
LEMMA SameClips ==
    ASSUME NEW d, Parts \subseteq DOMAIN d
    PROVE  SameTimeline(RebuildClips(d), d)
PROOF
<1>1. {"markers", "map", "points", "tempo", "sel", "loop", "clips"} \subseteq DOMAIN d
  BY Zenon DEF Parts
<1>. DEFINE clips == SortSeq(ActiveClips(d), LAMBDA c, b : c.track < b.track \/ (c.track = b.track /\ c.start < b.start))
<1>2. RebuildClips(d) = d \/ RebuildClips(d) = [d EXCEPT !.clips = clips]
  BY Zenon DEF RebuildClips
<1>. HIDE DEF clips
<1>3. SameTimeline(d, d)
  BY Zenon DEF SameTimeline
<1>4. SameTimeline([d EXCEPT !.clips = clips], d)
  BY <1>1, Zenon DEF SameTimeline
<1>. QED BY <1>2, <1>3, <1>4, Zenon

\* and so does what is done to a document before it is written.
LEMMA SameForText ==
    ASSUME NEW d, Parts \subseteq DOMAIN d
    PROVE  SameTimeline(ForText(d), d)
PROOF
<1>. DEFINE m == NormalizeEditModel(d)
<1>1. SameTimeline(m, d)
  BY SameModel
<1>. HIDE DEF m
<1>2. {"markers", "map", "points", "tempo", "sel", "loop", "clips"} \subseteq DOMAIN m
  BY <1>1, Zenon DEF Parts, SameTimeline
<1>3. ForText(d) = [m EXCEPT !.tracks = Each(@, NormalMidiTrack), !.regions = NormalRegions(@, d.tracks)]
  BY Zenon DEF ForText, m
<1>4. SameTimeline(ForText(d), m)
  BY <1>2, <1>3, Zenon DEF SameTimeline
<1>. QED BY <1>1, <1>4, SameAgain

\* The parts of the timeline, one by one
LEMMA PartsNamed ==
    ASSUME NEW d
    PROVE  Parts \subseteq DOMAIN d <=>
             /\ "markers" \in DOMAIN d /\ "map" \in DOMAIN d /\ "points" \in DOMAIN d /\ "tempo" \in DOMAIN d
             /\ "sel" \in DOMAIN d /\ "loop" \in DOMAIN d /\ "clips" \in DOMAIN d
PROOF
BY DEF Parts

\* What is written of a timeline is a timeline.
LEMMA WrittenTimelineIs ==
    ASSUME NEW d, TimelineGood(d)
    PROVE  TimelineGood(Written(d))
PROOF
<1>. DEFINE t == ForText(d)
            w == WrittenTimeline(t)
            e == Written(d)
<1>1. SameTimeline(t, d) /\ TimelineGood(t)
  BY SameForText, SameKeeps DEF TimelineGood
<1>2. e = [w EXCEPT !.tracks = Each(@, WrittenTrack), !.clips = Each(@, WrittenClip), !.videos = WrittenVideos(@),
                    !.defs = WrittenDefs(@), !.lists = WrittenLists(@), !.regions = WrittenRegions(@),
                    !.points = WrittenPoints(@), !.markers = WrittenMarkers(@)]
  BY Zenon DEF Written
<1>. HIDE DEF t, e
<1>3. Parts \subseteq DOMAIN t
  BY <1>1 DEF TimelineGood
<1>4. /\ DOMAIN w = DOMAIN t
      /\ w.map = WrittenPoints(t.map) /\ w.sel = WrittenRange(t.sel) /\ w.loop = WrittenRange(t.loop)
      /\ w.markers = t.markers /\ w.points = t.points /\ w.tempo = t.tempo
  BY <1>3, PartsNamed, Zenon DEF WrittenTimeline
<1>. HIDE DEF w
<1>5. /\ DOMAIN e = DOMAIN w
      /\ e.points = WrittenPoints(w.points) /\ e.markers = WrittenMarkers(w.markers)
      /\ e.map = w.map /\ e.sel = w.sel /\ e.loop = w.loop /\ e.tempo = w.tempo
  <2>1. /\ "markers" \in DOMAIN w /\ "map" \in DOMAIN w /\ "points" \in DOMAIN w /\ "tempo" \in DOMAIN w
        /\ "sel" \in DOMAIN w /\ "loop" \in DOMAIN w
    BY <1>3, <1>4, PartsNamed, Zenon
  <2>. QED BY <1>2, <2>1, Zenon
<1>6. Marked(e.markers)
  <2>1. t.markers \in Seq(Marker) /\ InTime(t.markers)
    BY <1>1 DEF TimelineGood, Marked
  <2>2. \A p \in Marker : p.at \in Nat /\ "at" \in DOMAIN p /\ "value" \in DOMAIN p
    BY DEF Marker
  <2>3. WrittenPoints(t.markers) \in Seq(Marker) /\ InTime(WrittenPoints(t.markers))
    BY <2>1, <2>2, RedatedIs, WrittenIs
  <2>. QED BY <1>4, <1>5, <2>3 DEF Marked, WrittenMarkers
<1>7. Automated(e.points)
  <2>1. t.points \in Seq(AutomationPoint) /\ InTime(t.points)
    BY <1>1 DEF TimelineGood, Automated
  <2>2. \A p \in AutomationPoint : p.at \in Nat /\ "at" \in DOMAIN p /\ "value" \in DOMAIN p
    BY DEF AutomationPoint
  <2>3. WrittenPoints(t.points) \in Seq(AutomationPoint) /\ InTime(WrittenPoints(t.points))
    BY <2>1, <2>2, RedatedIs, WrittenIs
  <2>. QED BY <1>4, <1>5, <2>3 DEF Automated
<1>8. Mapped(e.map) /\ Tempoed(e.tempo, e.map)
  <2>1. t.map \in Seq(TempoMarker) /\ InTime(t.map) /\ t.map # <<>> /\ Tempoed(t.tempo, t.map)
    BY <1>1 DEF TimelineGood, Mapped
  <2>2. \A p \in TempoMarker : p.at \in Nat /\ "at" \in DOMAIN p /\ "value" \in DOMAIN p
    BY DEF TempoMarker
  <2>3. /\ WrittenPoints(t.map) \in Seq(TempoMarker) /\ InTime(WrittenPoints(t.map))
        /\ Len(WrittenPoints(t.map)) = Len(t.map)
        /\ \A i \in DOMAIN t.map : WrittenPoints(t.map)[i].value = t.map[i].value
    BY <2>1, <2>2, RedatedIs, WrittenIs
  <2>4. 1 \in DOMAIN t.map
    BY <2>1
  <2>5. WrittenPoints(t.map) # <<>>
    BY <2>1, <2>3
  <2>. QED BY <1>4, <1>5, <2>1, <2>3, <2>4, <2>5 DEF Mapped, Tempoed
<1>9. Ranged(e.sel) /\ Ranged(e.loop)
  BY <1>1, <1>4, <1>5, WrittenRangeIs DEF TimelineGood
<1>10. Parts \subseteq DOMAIN e
  BY <1>3, <1>4, <1>5
<1>. QED BY <1>6, <1>7, <1>8, <1>9, <1>10 DEF TimelineGood, e

\* Reading a text's timeline gives a good one, if the text has one.
LEMMA ReadTimelineIs ==
    ASSUME NEW d, TimelineGood(d)
    PROVE  /\ TimelineGood(ReadTimeline(ReadSettings(d)))
           /\ DOMAIN ReadTimeline(ReadSettings(d)) = DOMAIN d
PROOF
<1>. DEFINE s == ReadSettings(d)
            e == ReadTimeline(s)
<1>1. Parts \subseteq DOMAIN d
  BY DEF TimelineGood
<1>2. /\ DOMAIN s = DOMAIN d
      /\ s.tempo = Between(MinTempo, d.tempo, MaxTempo)
      /\ s.markers = d.markers /\ s.map = d.map /\ s.points = d.points /\ s.sel = d.sel /\ s.loop = d.loop
  BY <1>1, PartsNamed, Zenon DEF ReadSettings
<1>3. s.tempo = d.tempo
  <2>1. d.tempo \in MinTempo .. MaxTempo
    BY DEF TimelineGood, Tempoed
  <2>2. MinTempo \in Int /\ MaxTempo \in Int
    BY LimitsAssumption DEF LimitsAssumption
  <2>. QED BY <1>2, <2>1, <2>2 DEF Between, Larger, Smaller
<1>. HIDE DEF s
<1>4. /\ DOMAIN e = DOMAIN s
      /\ e.map = (IF s.map = <<>> THEN <<FirstMarker(s.tempo)>> ELSE ByTime(s.map))
      /\ e.sel = ReadRange(s.sel) /\ e.loop = ReadRange(s.loop)
      /\ e.markers = s.markers /\ e.points = s.points /\ e.tempo = s.tempo
  <2>1. /\ "markers" \in DOMAIN s /\ "map" \in DOMAIN s /\ "points" \in DOMAIN s /\ "tempo" \in DOMAIN s
        /\ "sel" \in DOMAIN s /\ "loop" \in DOMAIN s
    BY <1>1, <1>2, PartsNamed, Zenon
  <2>. QED BY <2>1, Zenon DEF ReadTimeline
<1>. HIDE DEF e
<1>5. Mapped(e.map) /\ Tempoed(e.tempo, e.map)
  <2>1. Mapped(d.map) /\ d.map \in Seq(TempoMarker) /\ d.map # <<>> /\ Tempoed(d.tempo, d.map)
    BY DEF TimelineGood, Mapped
  <2>2. e.map = ByTime(d.map)
    BY <1>2, <1>4, <2>1
  <2>3. Mapped(ByTime(d.map)) /\ ByTime(d.map)[1] = d.map[1]
    BY <2>1, SortedMap, FirstTempoStays
  <2>. QED BY <1>2, <1>3, <1>4, <2>1, <2>2, <2>3 DEF Tempoed
<1>6. Ranged(e.sel) /\ Ranged(e.loop)
  BY <1>2, <1>4, WrittenRangeIs DEF TimelineGood
<1>7. TimelineGood(e)
  <2>1. Parts \subseteq DOMAIN e
    BY <1>1, <1>2, <1>4
  <2>2. Marked(e.markers) /\ Automated(e.points)
    BY <1>2, <1>4 DEF TimelineGood
  <2>. QED BY <1>5, <1>6, <2>1, <2>2 DEF TimelineGood
<1>. QED BY <1>2, <1>4, <1>7 DEF e, s

\* What is read of a text that was written is a good timeline,
LEMMA ParsedIs ==
    ASSUME NEW text, TimelineGood(text)
    PROVE  TimelineGood(Parsed(text))
PROOF
<1>. DEFINE a == ReadTimeline(ReadSettings(text))
            b == [a EXCEPT !.tracks = ReadTracks(@)]
            routed == NormalizeRouting(b)
            tracks == Rehoused(routed.tracks)
            c == [routed EXCEPT
                    !.tracks = tracks, !.clips = ReadClips(@, tracks), !.defs = ReadDefs(@),
                    !.videos = ReadVideos(@, text.sources), !.lists = ReadLists(@, tracks),
                    !.points = ReadPoints(@), !.markers = ReadMarkers(@), !.regions = <<>>]
            d == ForText(c)
            e == ReadRegions(d, text.regions)
<1>1. TimelineGood(a)
  BY ReadTimelineIs
<1>2. Parsed(text) = e
  BY Zenon DEF Parsed
<1>. HIDE DEF a
<1>3. TimelineGood(b)
  <2>1. SameTimeline(b, a)
    BY <1>1, PartsNamed, Zenon DEF SameTimeline, TimelineGood
  <2>. QED BY <1>1, <2>1, SameKeeps
<1>. HIDE DEF b
<1>4. TimelineGood(routed)
  BY <1>3, SameRouted, SameKeeps DEF TimelineGood
<1>. HIDE DEF routed, tracks
<1>5. /\ DOMAIN c = DOMAIN routed
      /\ c.points = ReadPoints(routed.points) /\ c.markers = ReadMarkers(routed.markers)
      /\ c.map = routed.map /\ c.sel = routed.sel /\ c.loop = routed.loop /\ c.tempo = routed.tempo
  <2>1. /\ "markers" \in DOMAIN routed /\ "map" \in DOMAIN routed /\ "points" \in DOMAIN routed
        /\ "tempo" \in DOMAIN routed /\ "sel" \in DOMAIN routed /\ "loop" \in DOMAIN routed
    BY <1>4, PartsNamed, Zenon DEF TimelineGood
  <2>. QED BY <2>1, Zenon
<1>. HIDE DEF c
<1>6. TimelineGood(c)
  <2>1. Automated(c.points)
    BY <1>4, <1>5, ReadPointsIs DEF TimelineGood
  <2>2. Marked(c.markers)
    <3>1. routed.markers \in Seq(Marker)
      BY <1>4 DEF TimelineGood, Marked
    <3>2. ByTime(routed.markers) \in Seq(Marker) /\ InTime(ByTime(routed.markers))
      BY <3>1, PointTypes, ByTimeIs
    <3>. QED BY <1>5, <3>2 DEF Marked, ReadMarkers
  <2>. QED BY <1>4, <1>5, <2>1, <2>2 DEF TimelineGood
<1>7. TimelineGood(d)
  BY <1>6, SameForText, SameKeeps DEF TimelineGood
<1>. HIDE DEF d
<1>8. SameTimeline(e, d)
  BY <1>7, PartsNamed, Zenon DEF SameTimeline, ReadRegions, TimelineGood
<1>. QED BY <1>2, <1>7, <1>8, SameKeeps

\* and so is that of the project that is opened.
LEMMA OpenedIs ==
    ASSUME NEW d, TimelineGood(d)
    PROVE  TimelineGood(Opened(Written(d)))
PROOF
<1>1. TimelineGood(Parsed(Written(d)))
  BY WrittenTimelineIs, ParsedIs
<1>. QED BY <1>1, SameClips, SameKeeps DEF Opened, TimelineGood

-----------------------------------------------------------------------------
\* Forms of other programs: EDL, FCPXML and the reference

\* What a text is read into, before it is put into the order of time
TimelineRead(d) ==
    /\ Parts \subseteq DOMAIN d
    /\ d.markers \in Seq(Marker) /\ Mapped(d.map) /\ Automated(d.points)
    /\ Tempoed(d.tempo, d.map)
    /\ Ranged(d.sel) /\ Ranged(d.loop)

\* It stays so when other parts change.
LEMMA ReadableSame ==
    ASSUME NEW d, NEW e, TimelineRead(d), SameTimeline(e, d)
    PROVE  TimelineRead(e)
PROOF
BY Zenon DEF TimelineRead, SameTimeline

\* Putting it into order gives a good timeline.
LEMMA OrderedIsTimeline ==
    ASSUME NEW d, TimelineRead(d)
    PROVE  TimelineGood(InTimeOrder(d))
PROOF
<1>. DEFINE e == InTimeOrder(d)
<1>1. /\ DOMAIN e = DOMAIN d
      /\ e.map = ByTime(IF d.map = <<>> THEN <<FirstMarker(d.tempo)>> ELSE d.map)
      /\ e.markers = ByTime(d.markers)
      /\ e.points = d.points /\ e.tempo = d.tempo /\ e.sel = d.sel /\ e.loop = d.loop
  BY PartsNamed, Zenon DEF InTimeOrder, TimelineRead
<1>. HIDE DEF e
<1>2. Mapped(e.map) /\ Tempoed(e.tempo, e.map)
  <2>1. Mapped(d.map) /\ d.map \in Seq(TempoMarker) /\ d.map # <<>> /\ Tempoed(d.tempo, d.map)
    BY DEF TimelineRead, Mapped
  <2>2. e.map = ByTime(d.map)
    BY <1>1, <2>1
  <2>3. Mapped(ByTime(d.map)) /\ ByTime(d.map)[1] = d.map[1]
    BY <2>1, SortedMap, FirstTempoStays
  <2>. QED BY <1>1, <2>1, <2>2, <2>3 DEF Tempoed
<1>3. Marked(e.markers)
  <2>1. d.markers \in Seq(Marker)
    BY DEF TimelineRead
  <2>2. ByTime(d.markers) \in Seq(Marker) /\ InTime(ByTime(d.markers))
    BY <2>1, PointTypes, ByTimeIs
  <2>. QED BY <1>1, <2>2 DEF Marked
<1>4. TimelineGood(e)
  BY <1>1, <1>2, <1>3 DEF TimelineGood, TimelineRead
<1>. QED BY <1>4 DEF e

\* Finishing an import leaves the timeline alone.
LEMMA FinishedSame ==
    ASSUME NEW d, Parts \subseteq DOMAIN d
    PROVE  SameTimeline(Finished(d), d)
PROOF
<1>. DEFINE e == [d EXCEPT !.tracks = IF @ = <<>> THEN DefaultTracks ELSE WithEnds(@)]
<1>1. SameTimeline(e, d) /\ Parts \subseteq DOMAIN e
  BY PartsNamed, Zenon DEF SameTimeline
<1>2. Finished(d) = NormalizeRouting(e)
  BY Zenon DEF Finished
<1>. HIDE DEF e
<1>3. SameTimeline(NormalizeRouting(e), e)
  BY <1>1, SameRouted
<1>. QED BY <1>1, <1>2, <1>3, SameAgain

\* The project an import starts from has a good timeline but for its map.
LEMMA BlankIs ==
    /\ Parts \subseteq DOMAIN Blank
    /\ {"videos", "sources", "tracks", "regions"} \subseteq DOMAIN Blank
    /\ Blank.tempo = DefaultTempo /\ Blank.markers = <<>> /\ Blank.points = <<>>
    /\ Blank.sel = NoRange /\ Blank.loop = NoRange
    /\ Ranged(NoRange) /\ Automated(<<>>) /\ Marked(<<>>)
PROOF
<1>1. Ranged(NoRange) /\ Automated(<<>>) /\ Marked(<<>>)
  BY DEF Ranged, NoRange, Automated, Marked, InTime
<1>2. /\ DOMAIN Blank = DOMAIN EmptyDocument
      /\ Blank.tempo = EmptyDocument.tempo /\ Blank.markers = EmptyDocument.markers /\ Blank.points = EmptyDocument.points
      /\ Blank.sel = EmptyDocument.sel /\ Blank.loop = EmptyDocument.loop
  BY DEF Blank, EmptyDocument
<1>3. /\ {"videos", "sources", "tracks", "regions"} \cup Parts \subseteq DOMAIN EmptyDocument
      /\ EmptyDocument.tempo = DefaultTempo /\ EmptyDocument.markers = <<>> /\ EmptyDocument.points = <<>>
      /\ EmptyDocument.sel = NoRange /\ EmptyDocument.loop = NoRange
  BY DEF EmptyDocument, Parts
<1>. QED BY <1>1, <1>2, <1>3

\* A project made of an EDL has a good timeline,
LEMMA FromEdlIs ==
    ASSUME NEW d, TimelineGood(d)
    PROVE  TimelineGood(FromEdl(EdlText(d)))
PROOF
<1>. DEFINE text == EdlText(d)
            e == EdlTimeline(text)
            f == [e EXCEPT !.clips = EdlClips(text), !.tracks = EdlTracks(text)]
<1>1. text.map = d.map /\ text.markers = [i \in DOMAIN d.markers |-> [at |-> d.markers[i].at, value |-> d.markers[i].value]]
  BY Zenon DEF EdlText, Each
<1>2. FromEdl(text) = InTimeOrder(Finished(f))
  BY Zenon DEF FromEdl
<1>. HIDE DEF text
<1>3. /\ DOMAIN e = DOMAIN Blank
      /\ e.map = text.map /\ e.markers = Numbered(text.markers)
      /\ e.tempo = (IF text.map = <<>> THEN Blank.tempo ELSE Whole(text.map[1].value))
      /\ e.points = Blank.points /\ e.sel = Blank.sel /\ e.loop = Blank.loop
  BY BlankIs, PartsNamed, Zenon DEF EdlTimeline
<1>. HIDE DEF e
<1>4. Numbered(text.markers) \in Seq(Marker)
  <2>. DEFINE n == Numbered(text.markers)
              len == Len(d.markers)
  <2>1. d.markers \in Seq(Marker) /\ len \in Nat /\ DOMAIN d.markers = 1 .. len
    BY DEF TimelineGood, Marked
  <2>2. n = [i \in 1 .. len |-> [id |-> i, at |-> d.markers[i].at, value |-> d.markers[i].value]]
    <3>1. DOMAIN text.markers = 1 .. len
      BY <1>1, <2>1
    <3>2. n = [i \in 1 .. len |-> [id |-> i, at |-> text.markers[i].at, value |-> text.markers[i].value]]
      BY <3>1, Zenon DEF Numbered
    <3>3. \A i \in 1 .. len : text.markers[i].at = d.markers[i].at /\ text.markers[i].value = d.markers[i].value
      BY <1>1, <2>1
    <3>. QED BY <3>2, <3>3
  <2>. HIDE DEF len
  <2>3. \A i \in 1 .. len : [id |-> i, at |-> d.markers[i].at, value |-> d.markers[i].value] \in Marker
    <3>1. \A i \in 1 .. len : d.markers[i] \in Marker
      BY <2>1
    <3>. QED BY <2>1, <3>1 DEF Marker
  <2>4. n \in [1 .. len -> Marker]
    BY <2>2, <2>3
  <2>. HIDE DEF n
  <2>5. n \in Seq(Marker)
    BY <2>1, <2>4
  <2>. QED BY <2>5 DEF n
<1>5. TimelineRead(e)
  <2>1. Mapped(d.map) /\ d.map \in Seq(TempoMarker) /\ d.map # <<>>
    BY DEF TimelineGood, Mapped
  <2>2. d.map[1] \in TempoMarker
    BY <2>1
  <2>3. d.map[1].value \in Bpms
    BY <2>2 DEF TempoMarker
  <2>4. Tempoed(e.tempo, e.map)
    BY <1>1, <1>3, <2>1, <2>3, WholeIs DEF Tempoed
  <2>. QED BY <1>1, <1>3, <1>4, <2>1, <2>4, BlankIs DEF TimelineRead
<1>6. SameTimeline(f, e)
  BY <1>5, PartsNamed, Zenon DEF SameTimeline, TimelineRead
<1>7. TimelineRead(f)
  BY <1>5, <1>6, ReadableSame
<1>. HIDE DEF f
<1>8. TimelineRead(Finished(f))
  BY <1>7, FinishedSame, ReadableSame DEF TimelineRead
<1>. QED BY <1>2, <1>8, OrderedIsTimeline DEF text

\* one made of an FCPXML text
LEMMA FromFcpxmlIs ==
    ASSUME NEW d, TimelineGood(d)
    PROVE  TimelineGood(FromFcpxml(FcpxmlText(d)))
PROOF
<1>. DEFINE text == FcpxmlText(d)
            e == FcpxmlTimeline(text)
            f == [e EXCEPT
                    !.clips = Each(SelectSeq(text.clips, LAMBDA c : c.src \in DOMAIN text.assets), WithoutType),
                    !.tracks = FoldLeft(Ensured, <<>>, text.clips)]
<1>1. text.map = d.map /\ text.markers = d.markers /\ text.tempo = d.tempo
  BY Zenon DEF FcpxmlText
<1>2. FromFcpxml(text) = InTimeOrder(Finished(f))
  BY Zenon DEF FromFcpxml
<1>. HIDE DEF text
<1>3. /\ DOMAIN e = DOMAIN Blank
      /\ e.map = text.map /\ e.markers = text.markers /\ e.tempo = text.tempo
      /\ e.points = Blank.points /\ e.sel = Blank.sel /\ e.loop = Blank.loop
  BY BlankIs, PartsNamed, Zenon DEF FcpxmlTimeline
<1>. HIDE DEF e
<1>4. TimelineRead(e)
  BY <1>1, <1>3, BlankIs DEF TimelineRead, TimelineGood, Marked
<1>5. SameTimeline(f, e)
  BY <1>4, PartsNamed, Zenon DEF SameTimeline, TimelineRead
<1>6. TimelineRead(f)
  BY <1>4, <1>5, ReadableSame
<1>. HIDE DEF f
<1>7. TimelineRead(Finished(f))
  BY <1>6, FinishedSame, ReadableSame DEF TimelineRead
<1>. QED BY <1>2, <1>7, OrderedIsTimeline DEF text

\* and one made of a reference.
LEMMA FromReferenceIs ==
    ASSUME NEW d, TimelineGood(d)
    PROVE  TimelineGood(FromReference(ReferenceText(d)))
PROOF
<1>. DEFINE text == ReferenceText(d)
            e == ReferenceTimeline(text)
            f == [e EXCEPT
                    !.tracks = Each(text.tracks, ReadReferenceTrack),
                    !.clips = SelectSeq(text.clips, LAMBDA c : c.dur > 0 /\ c.track \in TrackNames(text.tracks))]
<1>1. text.map = d.map /\ text.tempo = d.tempo
  BY Zenon DEF ReferenceText
<1>2. FromReference(text) = Finished(f)
  BY Zenon DEF FromReference
<1>. HIDE DEF text
<1>3. /\ DOMAIN e = DOMAIN Blank
      /\ e.map = text.map /\ e.markers = Blank.markers /\ e.tempo = text.tempo
      /\ e.points = Blank.points /\ e.sel = Blank.sel /\ e.loop = Blank.loop
  BY BlankIs, PartsNamed, Zenon DEF ReferenceTimeline
<1>. HIDE DEF e
<1>4. TimelineGood(e)
  BY <1>1, <1>3, BlankIs DEF TimelineGood
<1>5. SameTimeline(f, e)
  BY <1>4, PartsNamed, Zenon DEF SameTimeline, TimelineGood
<1>6. TimelineGood(f)
  BY <1>4, <1>5, SameKeeps
<1>. HIDE DEF f
<1>. QED BY <1>2, <1>6, FinishedSame, SameKeeps DEF TimelineGood, text

-----------------------------------------------------------------------------
\* Forms of other programs: the conductor track of a MIDI file

\* Tempo markers in time order, that need not be all of a map
Paced(points) == points \in Seq(TempoMarker) /\ InTime(points)

\* The tempos that are written, one for each time, are in order.
LEMMA FileTemposAre ==
    ASSUME NEW d, TimelineGood(d)
    PROVE  Paced(FileTempos(d))
PROOF
<1>. DEFINE inOrder == ByTime(d.map)
            full == IF inOrder[1].at > 0 THEN <<[inOrder[1] EXCEPT !.at = 0]>> \o inOrder ELSE inOrder
            S == {i \in DOMAIN full : \A k \in DOMAIN full : k > i => full[k].at # full[i].at}
<1>1. inOrder \in Seq(TempoMarker) /\ InTime(inOrder) /\ inOrder # <<>>
  <2>1. Mapped(inOrder)
    BY SortedMap DEF TimelineGood, Mapped
  <2>. QED BY <2>1 DEF Mapped
<1>. HIDE DEF inOrder
<1>. DEFINE zero == [inOrder[1] EXCEPT !.at = 0]
            longer == <<zero>> \o inOrder
<1>2. inOrder[1] \in TempoMarker /\ zero \in TempoMarker /\ zero.at = 0
  <2>1. inOrder[1] \in TempoMarker
    BY <1>1
  <2>. QED BY <2>1 DEF TempoMarker
<1>. HIDE DEF zero
<1>3. longer \in Seq(TempoMarker) /\ InTime(longer)
  <2>1. longer \in Seq(TempoMarker) /\ Len(longer) = Len(inOrder) + 1 /\ longer[1] = zero
        /\ \A i \in DOMAIN inOrder : longer[i + 1] = inOrder[i]
    BY <1>1, <1>2
  <2>. HIDE DEF longer
  <2>2. ASSUME NEW i \in DOMAIN longer, NEW k \in DOMAIN longer, i < k PROVE longer[i].at <= longer[k].at
    <3>1. k - 1 \in DOMAIN inOrder /\ longer[k] = inOrder[k - 1] /\ longer[k] \in TempoMarker
      <4>1. k - 1 \in DOMAIN inOrder /\ (k - 1) + 1 = k
        BY <1>1, <2>1, <2>2
      <4>. QED BY <2>1, <4>1
    <3>2. CASE i = 1
      BY <1>2, <2>1, <3>1, <3>2, PointTypes
    <3>3. CASE i # 1
      <4>1. i - 1 \in DOMAIN inOrder /\ (i - 1) + 1 = i /\ i - 1 < k - 1
        BY <1>1, <2>1, <2>2, <3>3
      <4>2. longer[i] = inOrder[i - 1]
        BY <2>1, <4>1
      <4>. QED BY <1>1, <3>1, <4>1, <4>2 DEF InTime
    <3>. QED BY <3>2, <3>3
  <2>. QED BY <2>1, <2>2 DEF InTime
<1>4. full = longer \/ full = inOrder
  BY Zenon DEF zero
<1>. HIDE DEF full, longer
<1>5. full \in Seq(TempoMarker) /\ InTime(full)
  BY <1>1, <1>3, <1>4
<1>6. S \subseteq DOMAIN full
  OBVIOUS
<1>7. FileTempos(d) = Picked(full, Ascending(S))
  BY Zenon DEF FileTempos, inOrder, full
<1>. HIDE DEF S
<1>. QED BY <1>5, <1>6, <1>7, AscendingPicked, PickedInTime DEF Paced

\* The events of the conductor track
TempoEvent == [tick : Nat, tempo : Bpms]
MarkerEvent == [tick : Nat, marker : Nat]

\* A time that goes to ticks and back is the same, and its ticks are in its order.
LEMMA TicksAndBack ==
    ASSUME NEW a \in Nat, NEW b \in Nat, a <= b
    PROVE  /\ TickOf(a) \in Nat /\ TickOf(a) <= TickOf(b)
           /\ TimeOf(TickOf(a)) = a
PROOF
<1>1. Units \in Nat \ {0}
  BY UnitsAssumption DEF UnitsAssumption
<1>2. TickOf(a) = Units * a /\ TickOf(b) = Units * b
  BY DEF TickOf, AtLeast
<1>3. Units * a \in Nat /\ Units * a <= Units * b
  BY <1>1, ProductOrder
<1>4. (Units * a) \div Units = a
  <2>. DEFINE q == (Units * a) \div Units
  <2>1. q \in Nat /\ Units * q <= Units * a /\ Units * a < Units * q + Units
    BY <1>1, <1>3, DivisionIs
  <2>. HIDE DEF q
  <2>2. Units * (q + 1) = Units * q + Units /\ Units * (a + 1) = Units * a + Units /\ Units * q \in Nat
    BY <1>1, <2>1
  <2>3. Units * q < Units * (a + 1) /\ Units * a < Units * (q + 1)
    BY <1>1, <1>3, <2>1, <2>2
  <2>4. q < a + 1 /\ a < q + 1
    BY <1>1, <2>1, <2>3, ProductOrder
  <2>5. q = a
    BY <2>1, <2>4
  <2>. QED BY <2>5 DEF q
<1>. QED BY <1>2, <1>3, <1>4 DEF TimeOf

\* The tempo events of the track are those of the tempos, in their order.
LEMMA ConductorIs ==
    ASSUME NEW d, TimelineGood(d)
    PROVE  LET track == ConductorTrack(d)
               tempos == FileTempos(d)
           IN  /\ track \in Seq(TempoEvent \cup MarkerEvent)
               /\ \A i \in DOMAIN track :
                     "tempo" \in DOMAIN track[i] =>
                        i \in DOMAIN tempos /\ track[i] = [tick |-> TickOf(tempos[i].at), tempo |-> tempos[i].value]
PROOF
<1>. DEFINE tempos == FileTempos(d)
            A == [i \in DOMAIN tempos |-> [tick |-> TickOf(tempos[i].at), tempo |-> tempos[i].value]]
            B == [i \in DOMAIN d.markers |-> [tick |-> TickOf(d.markers[i].at), marker |-> d.markers[i].id]]
<1>1. ConductorTrack(d) = A \o B
  BY Zenon DEF ConductorTrack, Each
<1>2. tempos \in Seq(TempoMarker)
  BY FileTemposAre DEF Paced
<1>3. d.markers \in Seq(Marker)
  BY DEF TimelineGood, Marked
<1>. HIDE DEF tempos
<1>4. \A i \in DOMAIN tempos : A[i] \in TempoEvent
  <2>1. ASSUME NEW i \in DOMAIN tempos PROVE A[i] \in TempoEvent
    <3>1. tempos[i] \in TempoMarker
      BY <1>2
    <3>2. tempos[i].at \in Nat /\ tempos[i].value \in Bpms
      BY <3>1 DEF TempoMarker
    <3>3. TickOf(tempos[i].at) \in Nat
      BY <3>2, TicksAndBack
    <3>. QED BY <3>2, <3>3 DEF TempoEvent
  <2>. QED BY <2>1
<1>5. \A i \in DOMAIN d.markers : B[i] \in MarkerEvent
  <2>1. ASSUME NEW i \in DOMAIN d.markers PROVE B[i] \in MarkerEvent
    <3>1. d.markers[i] \in Marker
      BY <1>3
    <3>2. d.markers[i].at \in Nat /\ d.markers[i].id \in Nat
      BY <3>1 DEF Marker
    <3>3. TickOf(d.markers[i].at) \in Nat
      BY <3>2, TicksAndBack
    <3>. QED BY <3>2, <3>3 DEF MarkerEvent
  <2>. QED BY <2>1
<1>6. A \in Seq(TempoEvent) /\ Len(A) = Len(tempos) /\ DOMAIN A = DOMAIN tempos
  <2>1. DOMAIN tempos = 1 .. Len(tempos) /\ Len(tempos) \in Nat
    BY <1>2
  <2>2. A \in [DOMAIN tempos -> TempoEvent]
    BY <1>4
  <2>. HIDE DEF A
  <2>. QED BY <2>1, <2>2
<1>7. B \in Seq(MarkerEvent)
  <2>1. DOMAIN d.markers = 1 .. Len(d.markers) /\ Len(d.markers) \in Nat
    BY <1>3
  <2>2. B \in [DOMAIN d.markers -> MarkerEvent]
    BY <1>5
  <2>. HIDE DEF B
  <2>. QED BY <2>1, <2>2
<1>8. \A e \in MarkerEvent : "tempo" \notin DOMAIN e
  BY DEF MarkerEvent
<1>9. \A i \in DOMAIN tempos : A[i] = [tick |-> TickOf(tempos[i].at), tempo |-> tempos[i].value]
  OBVIOUS
<1>. HIDE DEF A, B
<1>. DEFINE track == A \o B
            E == TempoEvent \cup MarkerEvent
<1>10. track \in Seq(E)
  <2>1. A \in Seq(E) /\ B \in Seq(E)
    <3>. DEFINE T == TempoEvent
                M == MarkerEvent
    <3>. HIDE DEF T, M
    <3>. QED BY <1>6, <1>7 DEF T, M
  <2>. HIDE DEF E
  <2>. QED BY <2>1
<1>11. ASSUME NEW i \in DOMAIN track, "tempo" \in DOMAIN track[i]
       PROVE  i \in DOMAIN tempos /\ track[i] = A[i]
  <2>. DEFINE T == TempoEvent
              M == MarkerEvent
  <2>1. A \in Seq(T) /\ B \in Seq(M) /\ \A e \in M : "tempo" \notin DOMAIN e
    BY <1>6, <1>7, <1>8
  <2>. HIDE DEF T, M
  <2>2. i \in DOMAIN A \/ (i - Len(A) \in DOMAIN B /\ track[i] = B[i - Len(A)])
    BY <1>11, <2>1
  <2>3. i \in DOMAIN A
    BY <1>11, <2>1, <2>2
  <2>. QED BY <1>6, <2>1, <2>3
<1>12. \A i \in DOMAIN track : "tempo" \in DOMAIN track[i] =>
           i \in DOMAIN tempos /\ track[i] = [tick |-> TickOf(tempos[i].at), tempo |-> tempos[i].value]
  <2>. HIDE DEF track
  <2>. QED BY <1>9, <1>11
<1>. QED BY <1>1, <1>10, <1>12, Zenon DEF tempos

\* So the tempos that are read are in order,
LEMMA ReadTemposAre ==
    ASSUME NEW d, TimelineGood(d)
    PROVE  Paced(ReadTempos(ConductorTrack(d)))
PROOF
<1>. DEFINE track == ConductorTrack(d)
            tempos == FileTempos(d)
            S == {i \in DOMAIN track : "tempo" \in DOMAIN track[i]}
            picked == Picked(track, Ascending(S))
            read == [i \in DOMAIN picked |-> [id |-> 0, at |-> TimeOf(picked[i].tick), value |-> picked[i].tempo]]
            E == TempoEvent \cup MarkerEvent
            a == Ascending(S)
<1>1. /\ track \in Seq(E)
      /\ \A i \in S : i \in DOMAIN tempos /\ track[i] = [tick |-> TickOf(tempos[i].at), tempo |-> tempos[i].value]
  BY ConductorIs
<1>2. tempos \in Seq(TempoMarker) /\ InTime(tempos)
  BY FileTemposAre DEF Paced
<1>3. ReadTempos(track) = read
  BY Zenon DEF ReadTempos, Each
<1>4. S \subseteq DOMAIN track
  OBVIOUS
<1>. HIDE DEF track, tempos, S, E
<1>5. /\ picked \in Seq(E)
      /\ \A n \in DOMAIN picked : a[n] \in S /\ picked[n] = track[a[n]]
      /\ \A m, n \in DOMAIN picked : m < n => a[m] < a[n]
  BY <1>1, <1>4, AscendingPicked
<1>. HIDE DEF picked, a
<1>6. ASSUME NEW n \in DOMAIN picked
      PROVE  /\ a[n] \in DOMAIN tempos /\ tempos[a[n]] \in TempoMarker
             /\ read[n] = [id |-> 0, at |-> tempos[a[n]].at, value |-> tempos[a[n]].value]
  <2>. DEFINE t == tempos[a[n]]
  <2>1. a[n] \in DOMAIN tempos /\ picked[n] = [tick |-> TickOf(t.at), tempo |-> t.value]
    BY <1>1, <1>5
  <2>2. t \in TempoMarker
    BY <1>2, <2>1
  <2>. HIDE DEF t
  <2>3. t.at \in Nat
    BY <2>2, PointTypes
  <2>4. TimeOf(TickOf(t.at)) = t.at
    BY <2>3, TicksAndBack
  <2>5. read[n] = [id |-> 0, at |-> TimeOf(picked[n].tick), value |-> picked[n].tempo]
    OBVIOUS
  <2>6. picked[n].tick = TickOf(t.at) /\ picked[n].tempo = t.value
    BY <2>1
  <2>. QED BY <2>1, <2>2, <2>4, <2>5, <2>6 DEF t
<1>7. read \in Seq(TempoMarker) /\ DOMAIN read = DOMAIN picked
  <2>1. DOMAIN picked = 1 .. Len(picked) /\ Len(picked) \in Nat
    BY <1>5
  <2>2. \A n \in DOMAIN picked : read[n] \in TempoMarker
    <3>1. \A t \in TempoMarker : [id |-> 0, at |-> t.at, value |-> t.value] \in TempoMarker
      BY DEF TempoMarker
    <3>. HIDE DEF read
    <3>. QED BY <1>6, <3>1
  <2>3. DOMAIN read = DOMAIN picked /\ read = [n \in DOMAIN picked |-> read[n]]
    OBVIOUS
  <2>. HIDE DEF read
  <2>4. read \in [DOMAIN picked -> TempoMarker]
    BY <2>2, <2>3
  <2>. QED BY <2>1, <2>3, <2>4
<1>8. InTime(read)
  <2>. HIDE DEF read
  <2>1. ASSUME NEW m \in DOMAIN picked, NEW n \in DOMAIN picked, m < n PROVE read[m].at <= read[n].at
    <3>1. a[m] \in DOMAIN tempos /\ a[n] \in DOMAIN tempos /\ a[m] < a[n]
      BY <1>5, <1>6, <2>1
    <3>2. \A k \in DOMAIN picked : read[k].at = tempos[a[k]].at
      <4>. SUFFICES ASSUME NEW k \in DOMAIN picked PROVE read[k].at = tempos[a[k]].at
        OBVIOUS
      <4>1. read[k] = [id |-> 0, at |-> tempos[a[k]].at, value |-> tempos[a[k]].value]
        BY <1>6
      <4>2. [id |-> 0, at |-> tempos[a[k]].at, value |-> tempos[a[k]].value].at = tempos[a[k]].at
        BY Zenon
      <4>. QED BY <4>1, <4>2
    <3>. QED BY <1>2, <3>1, <3>2 DEF InTime
  <2>. QED BY <1>7, <2>1 DEF InTime
<1>. HIDE DEF read
<1>. QED BY <1>3, <1>7, <1>8 DEF Paced, track

\* and a project made of a MIDI file has a good timeline.
LEMMA FromMidiIs ==
    ASSUME NEW d, TimelineGood(d)
    PROVE  TimelineGood(FromMidi(MidiFile(d)))
PROOF
<1>. DEFINE file == MidiFile(d)
            first == FirstMarker(DefaultTempo)
            read == ReadTempos(file.conductor)
            map == <<first>> \o read
            e == FromMidi(file)
<1>1. file.conductor = ConductorTrack(d)
  BY Zenon DEF MidiFile
<1>2. read \in Seq(TempoMarker) /\ InTime(read)
  BY <1>1, ReadTemposAre DEF Paced
<1>. HIDE DEF file
<1>3. /\ DOMAIN e = DOMAIN Blank
      /\ e.map = map /\ e.markers = Blank.markers /\ e.tempo = Blank.tempo
      /\ e.points = Blank.points /\ e.sel = Blank.sel /\ e.loop = Blank.loop
  BY BlankIs, PartsNamed, Zenon DEF FromMidi
<1>. HIDE DEF e, read
<1>4. /\ first \in TempoMarker /\ first.at = 0 /\ first.value = InParts(DefaultTempo)
      /\ DefaultTempo \in MinTempo .. MaxTempo /\ Follows(DefaultTempo, first.value)
  BY TempoAssumption, InPartsIs DEF TempoAssumption
<1>. HIDE DEF first
<1>5. /\ map \in Seq(TempoMarker) /\ Len(map) = Len(read) + 1 /\ map[1] = first
      /\ \A i \in DOMAIN read : map[i + 1] = read[i]
  BY <1>2, <1>4
<1>. HIDE DEF map
<1>6. InTime(map)
  <2>1. ASSUME NEW i \in DOMAIN map, NEW k \in DOMAIN map, i < k PROVE map[i].at <= map[k].at
    <3>1. k - 1 \in DOMAIN read /\ map[k] = read[k - 1] /\ map[k] \in TempoMarker
      <4>1. k - 1 \in DOMAIN read /\ (k - 1) + 1 = k
        BY <1>2, <1>5, <2>1
      <4>. QED BY <1>5, <4>1
    <3>2. CASE i = 1
      BY <1>4, <1>5, <3>1, <3>2, PointTypes
    <3>3. CASE i # 1
      <4>1. i - 1 \in DOMAIN read /\ (i - 1) + 1 = i /\ i - 1 < k - 1
        BY <1>2, <1>5, <2>1, <3>3
      <4>2. map[i] = read[i - 1]
        BY <1>5, <4>1
      <4>. QED BY <1>2, <3>1, <4>1, <4>2 DEF InTime
    <3>. QED BY <3>2, <3>3
  <2>. QED BY <2>1 DEF InTime
<1>7. Mapped(map) /\ Tempoed(DefaultTempo, map)
  <2>1. map # <<>>
    BY <1>2, <1>5
  <2>. QED BY <1>4, <1>5, <1>6, <2>1 DEF Mapped, Tempoed
<1>8. TimelineGood(e)
  BY <1>3, <1>7, BlankIs DEF TimelineGood
<1>. QED BY <1>8 DEF e, file

\* All forms together
LEMMA ExchangedIs ==
    ASSUME NEW d, TimelineGood(d), NEW form \in Forms
    PROVE  TimelineGood(Exchanged(form, d))
PROOF
<1>1. \/ Exchanged(form, d) = FromEdl(EdlText(d))
      \/ Exchanged(form, d) = FromFcpxml(FcpxmlText(d))
      \/ Exchanged(form, d) = FromReference(ReferenceText(d))
      \/ Exchanged(form, d) = FromMidi(MidiFile(d))
  BY DEF Forms, Exchanged
<1>. QED BY <1>1, FromEdlIs, FromFcpxmlIs, FromReferenceIs, FromMidiIs

-----------------------------------------------------------------------------
\* Commands that leave the timeline alone

\* A good timeline stays good under the routing rules.
LEMMA Rerouted ==
    ASSUME NEW d, TimelineGood(d)
    PROVE  TimelineGood(NormalizeRouting(d))
PROOF
BY SameRouted, SameKeeps, Zenon DEF TimelineGood

\* Documents with other clips or playlists have the timeline they had,
LEMMA SameItself ==
    ASSUME NEW d, Parts \subseteq DOMAIN d
    PROVE  /\ SameTimeline(d, d)
           /\ \A clips : SameTimeline([d EXCEPT !.clips = clips], d)
           /\ \A clips, lists : SameTimeline([d EXCEPT !.clips = clips, !.lists = lists], d)
PROOF
BY PartsNamed, Zenon DEF SameTimeline

\* and have it after their playlists are rebuilt and the routing rules applied.
LEMMA SameRebuilt ==
    ASSUME NEW d, NEW e, Parts \subseteq DOMAIN d, SameTimeline(e, d)
    PROVE  SameTimeline(NormalizeRouting(e), d) /\ SameTimeline(NormalizeRouting(RebuildModel(e)), d)
PROOF
<1>1. Parts \subseteq DOMAIN e
  BY Zenon DEF SameTimeline
<1>2. SameTimeline(NormalizeRouting(e), e)
  BY <1>1, SameRouted
<1>3. SameTimeline(RebuildModel(e), e)
  BY <1>1, SameModel
<1>4. Parts \subseteq DOMAIN RebuildModel(e)
  BY <1>1, <1>3, Zenon DEF SameTimeline
<1>5. SameTimeline(NormalizeRouting(RebuildModel(e)), RebuildModel(e))
  BY <1>4, SameRouted
<1>. QED BY <1>2, <1>3, <1>5, SameAgain

\* The commands on clips, selections and ranges leave the timeline alone:
LEMMA ClipCommands ==
    ASSUME TimelineGood(doc), ClipCommand
    PROVE  SameTimeline(doc', doc)
PROOF
<1>. Parts \subseteq DOMAIN doc
  BY Zenon DEF TimelineGood
<1>1. \A command, clips : EditClips(command, clips) => SameTimeline(doc', doc)
  BY SameItself, SameRebuilt, Zenon DEF EditClips, Rebuilt, Done, Reconcile
<1>2. \A command, clips : Refuse(command, clips) => SameTimeline(doc', doc)
  BY SameItself, Zenon DEF Refuse
<1>3. \A command, clips, lists :
         Done(command, RebuildModel([doc EXCEPT !.clips = clips, !.lists = lists])) => SameTimeline(doc', doc)
  BY SameItself, SameRebuilt, Zenon DEF Done, Reconcile
<1>4. \A command, clips, changed : EditRange(command, clips, changed) => SameTimeline(doc', doc)
  BY <1>1, <1>2, Zenon DEF EditRange
<1>5. UNCHANGED doc => SameTimeline(doc', doc)
  BY SameItself, Zenon
<1>6. ASSUME NEW id, NEW t, MoveClip(id, t) \/ TrimClipStart(id, t) \/ TrimClipEnd(id, t) \/ SplitClip(id, t)
      PROVE  SameTimeline(doc', doc)
  BY <1>1, <1>6, Zenon DEF MoveClip, TrimClipStart, TrimClipEnd, SplitClip
<1>7. ASSUME NEW id, NEW t, NEW track,
             MoveClipToTrack(id, t, track) \/ CopyClipToTrack(id, t, track) \/ ShuffleClip(id, t, track) \/ ShuffleCopy(id, t, track)
      PROVE  SameTimeline(doc', doc)
  <2>1. MoveClipToTrack(id, t, track) => SameTimeline(doc', doc)
    BY <1>1, <1>2, <1>3, Zenon DEF MoveClipToTrack
  <2>2. CopyClipToTrack(id, t, track) \/ ShuffleClip(id, t, track) \/ ShuffleCopy(id, t, track) => SameTimeline(doc', doc)
    BY <1>1, Zenon DEF CopyClipToTrack, ShuffleClip, ShuffleCopy
  <2>. QED BY <1>7, <2>1, <2>2
<1>8. ASSUME NEW id, \/ \E by : SlipClip(id, by)
                     \/ \E scale : StretchClip(id, scale)
                     \/ \E fin, fout : SetClipFades(id, fin, fout)
                     \/ DuplicateClip(id) \/ CrossfadeClip(id) \/ GlueClip(id)
                     \/ \E other : GlueClips(id, other)
      PROVE  SameTimeline(doc', doc)
  BY <1>1, <1>8, Zenon DEF SlipClip, StretchClip, SetClipFades, DuplicateClip, CrossfadeClip, GlueClip, GlueClips
<1>9. ASSUME NEW id, \/ \E on : SetClipLocked(id, on)
                     \/ \E on, flag : SetClipFlag(id, flag, on)
                     \/ \E track : SetClipTrack(id, track)
                     \/ \E file : SetClipSource(id, file)
      PROVE  SameTimeline(doc', doc)
  BY <1>1, <1>9, Zenon DEF SetClipLocked, SetClipFlag, SetClipTrack, SetClipSource
<1>10. ASSUME NEW id, NEW gain, SetClipGain(id, gain) PROVE SameTimeline(doc', doc)
  BY <1>3, <1>10, Zenon DEF SetClipGain
<1>11. ASSUME NEW id, NEW gain, NormalizeClip(id, gain) PROVE SameTimeline(doc', doc)
  BY <1>1, <1>11, Zenon DEF NormalizeClip
<1>12. ASSUME NEW ids, DeleteClips(ids) \/ CutClips(ids) PROVE SameTimeline(doc', doc)
  <2>1. Reconcile(Deleted(ids)) => SameTimeline(doc', doc)
    BY SameItself, SameRebuilt, Zenon DEF Deleted, Reconcile
  <2>. QED BY <1>5, <1>12, <2>1, Zenon DEF DeleteClips, CutClips, CopyClips, Done
<1>13. ASSUME NEW ids, CopyClips(ids) \/ DuplicateClips(ids) PROVE SameTimeline(doc', doc)
  BY <1>1, <1>5, <1>13, Zenon DEF CopyClips, DuplicateClips
<1>14. ASSUME NEW ids, (\E t : SplitClips(ids, t)) \/ (\E by : MoveClips(ids, by)) PROVE SameTimeline(doc', doc)
  BY <1>1, <1>14, Zenon DEF SplitClips, MoveClips
<1>15. ASSUME NEW t, PasteClips(t) PROVE SameTimeline(doc', doc)
  BY <1>1, <1>15, Zenon DEF PasteClips
<1>16. ASSUME NEW lo, NEW hi, \/ CopyTimeRange(lo, hi) \/ CutTimeRange(lo, hi) \/ ClearTimeRange(lo, hi)
                              \/ SeparateTimeRange(lo, hi) \/ DuplicateTimeRange(lo, hi) \/ GlueTimeRange(lo, hi)
      PROVE  SameTimeline(doc', doc)
  <2>1. CutTimeRange(lo, hi) => EditClips(<<"clear", lo, hi>>, ClearRange(doc.clips, lo, hi)) \/ SameTimeline(doc', doc)
    BY SameItself, SameRebuilt, Zenon DEF CutTimeRange, Rebuilt, Reconcile
  <2>. QED BY <1>1, <1>5, <1>16, <2>1, Zenon DEF CopyTimeRange, ClearTimeRange, SeparateTimeRange, DuplicateTimeRange, GlueTimeRange
<1>17. ASSUME NEW lo, NEW hi, ShuffleDelete(lo, hi) \/ TrimTimeRange(lo, hi) \/ QuantizeClips(lo, hi, 2) \/ FadeClips(lo, hi)
      PROVE  SameTimeline(doc', doc)
  BY <1>1, <1>4, <1>17, Zenon DEF ShuffleDelete, TrimTimeRange, QuantizeClips, FadeClips
<1>18. ASSUME NEW lo, NEW hi, \/ \E by : AdjustGains(lo, hi, by)
                              \/ \E gain : NormalizeClips(lo, hi, gain)
                              \/ \E flag, on : SetRangeFlag(lo, hi, flag, on)
      PROVE  SameTimeline(doc', doc)
  BY <1>4, <1>18, Zenon DEF AdjustGains, NormalizeClips, SetRangeFlag
<1>. QED BY <1>6, <1>7, <1>8, <1>9, <1>10, <1>11, <1>12, <1>13, <1>14, <1>15, <1>16, <1>17, <1>18, Zenon DEF ClipCommand

\* so do the operations on playlists,
LEMMA SameInPlaylists ==
    ASSUME NEW d, Parts \subseteq DOMAIN d
    PROVE  /\ \A track : SameTimeline(CreatePlaylist(d, track), d) /\ SameTimeline(DuplicatePlaylist(d, track), d)
           /\ \A id : SameTimeline(ActivatePlaylist(d, id), d) /\ SameTimeline(DeletePlaylist(d, id), d)
           /\ \A id, item : SameTimeline(Promote(d, id, item), d)
PROOF
<1>. DEFINE m == NormalizeEditModel(d)
<1>1. SameTimeline(m, d)
  BY SameModel
<1>. HIDE DEF m
<1>2. Parts \subseteq DOMAIN m
  BY <1>1, Zenon DEF SameTimeline
<1>3. \A lists : SameTimeline([m EXCEPT !.lists = lists], m) /\ Parts \subseteq DOMAIN [m EXCEPT !.lists = lists]
  BY <1>2, PartsNamed, Zenon DEF SameTimeline
<1>4. \A lists : SameTimeline([m EXCEPT !.lists = lists], d) /\ SameTimeline(RebuildClips([m EXCEPT !.lists = lists]), d)
  BY <1>1, <1>3, SameClips, SameAgain
<1>5. ASSUME NEW track PROVE SameTimeline(CreatePlaylist(d, track), d) /\ SameTimeline(DuplicatePlaylist(d, track), d)
  BY <1>4, Zenon DEF CreatePlaylist, DuplicatePlaylist, m
<1>6. ASSUME NEW id PROVE SameTimeline(ActivatePlaylist(d, id), d)
  BY <1>4, Zenon DEF ActivatePlaylist, m
<1>7. ASSUME NEW id PROVE SameTimeline(DeletePlaylist(d, id), d)
  BY <1>4, Zenon DEF DeletePlaylist, m
<1>8. ASSUME NEW id, NEW item PROVE SameTimeline(Promote(d, id, item), d)
  BY <1>4, Zenon DEF Promote, Promoted, m
<1>. QED BY <1>5, <1>6, <1>7, <1>8

\* a new clip,
LEMMA Appended ==
    ASSUME TimelineGood(doc), NEW command, NEW track, NEW file, NEW t, NEW dur, AppendClip(command, track, file, t, dur)
    PROVE  SameTimeline(doc', doc)
PROOF
BY SameItself, SameRebuilt, Zenon DEF TimelineGood, AppendClip, Rebuilt, Done, Reconcile

\* the commands on playlists,
LEMMA PlaylistCommands ==
    ASSUME TimelineGood(doc), PlaylistCommand
    PROVE  SameTimeline(doc', doc)
PROOF
<1>. Parts \subseteq DOMAIN doc
  BY Zenon DEF TimelineGood
<1>1. \A command, d : SameTimeline(d, doc) /\ Done(command, d) => SameTimeline(doc', doc)
  BY SameRebuilt, Zenon DEF Done, Reconcile
<1>2. ASSUME NEW id, NEW t, MoveClip(id, t) \/ TrimClipEnd(id, t) PROVE SameTimeline(doc', doc)
  <2>1. \A command, clips : EditClips(command, clips) => SameTimeline(doc', doc)
    BY SameItself, SameRebuilt, Zenon DEF EditClips, Rebuilt, Done, Reconcile
  <2>. QED BY <1>2, <2>1, Zenon DEF MoveClip, TrimClipEnd
<1>3. ASSUME NEW ids, DeleteClips(ids) PROVE SameTimeline(doc', doc)
  <2>1. Reconcile(Deleted(ids)) => SameTimeline(doc', doc)
    BY SameItself, SameRebuilt, Zenon DEF Deleted, Reconcile
  <2>. QED BY <1>3, <2>1, Zenon DEF DeleteClips, Done
<1>4. \A file, t, track : RecordClip(file, t, 2) \/ ImportClip(track, file, t, 2) => SameTimeline(doc', doc)
  BY Appended, Zenon DEF RecordClip, ImportClip
<1>5. ASSUME NEW name, Done(<<"track">>, DuplicateTrack(name)) PROVE SameTimeline(doc', doc)
  <2>1. \A tracks, clips, lists : SameTimeline([doc EXCEPT !.tracks = tracks, !.clips = clips, !.lists = lists], doc)
    BY PartsNamed, Zenon DEF SameTimeline
  <2>2. SameTimeline(DuplicateTrack(name), doc)
    BY <2>1, Zenon DEF DuplicateTrack
  <2>. QED BY <1>1, <1>5, <2>2
<1>6. ASSUME NEW track, EditPlaylists(CreatePlaylist(doc, track)) \/ EditPlaylists(DuplicatePlaylist(doc, track))
      PROVE  SameTimeline(doc', doc)
  BY <1>1, <1>6, SameInPlaylists, Zenon DEF EditPlaylists
<1>7. ASSUME NEW id, \/ EditPlaylists(ActivatePlaylist(doc, id)) \/ EditPlaylists(DeletePlaylist(doc, id))
                     \/ \E item : EditPlaylists(Promote(doc, id, item))
      PROVE  SameTimeline(doc', doc)
  BY <1>1, <1>7, SameInPlaylists, Zenon DEF EditPlaylists
<1>. QED BY <1>2, <1>3, <1>4, <1>5, <1>6, <1>7, Zenon DEF PlaylistCommand

\* (documents with other tracks, master, regions or videos have the timeline they had)
LEMMA SameInTracks ==
    ASSUME NEW d, Parts \subseteq DOMAIN d
    PROVE  /\ \A tracks : SameTimeline([d EXCEPT !.tracks = tracks], d)
           /\ \A master : SameTimeline([d EXCEPT !.master = master], d)
           /\ \A regions : SameTimeline([d EXCEPT !.regions = regions], d)
           /\ \A tracks, regions : SameTimeline([d EXCEPT !.tracks = tracks, !.regions = regions], d)
           /\ \A videos : SameTimeline([d EXCEPT !.videos = videos], d)
           /\ \A videos, sources : SameTimeline([d EXCEPT !.videos = videos, !.sources = sources], d)
PROOF
BY PartsNamed, Zenon DEF SameTimeline

\* those on tracks,
LEMMA TrackCommands ==
    ASSUME TimelineGood(doc), TrackCommand
    PROVE  SameTimeline(doc', doc)
PROOF
<1>. Parts \subseteq DOMAIN doc
  BY Zenon DEF TimelineGood
<1>1. \A command, d : SameTimeline(d, doc) /\ Done(command, d) => SameTimeline(doc', doc)
  BY SameRebuilt, Zenon DEF Done, Reconcile
<1>2. \A command, d : SameTimeline(d, doc) /\ Done(command, RebuildModel(d)) => SameTimeline(doc', doc)
  BY SameRebuilt, Zenon DEF Done, Reconcile
<1>3. \A tracks : EditTracks(tracks) => SameTimeline(doc', doc)
  BY <1>1, SameInTracks, Zenon DEF EditTracks
<1>4. ASSUME NEW type, AddNewTrack(type) PROVE SameTimeline(doc', doc)
  BY <1>3, <1>4, Zenon DEF AddNewTrack
<1>5. ASSUME NEW name, (\E all : DeleteNamedTrack(name, all)) \/ DeleteEmptyTrack(name) PROVE SameTimeline(doc', doc)
  <2>1. ASSUME NEW items, NEW children PROVE SameTimeline(DeleteTrack(doc, name, items, children), doc)
    BY PartsNamed, Zenon DEF SameTimeline, DeleteTrack
  <2>. QED BY <1>2, <1>5, <2>1, Zenon DEF DeleteNamedTrack, DeleteEmptyTrack
<1>6. ASSUME NEW old, NEW new, RenameNamedTrack(old, new) PROVE SameTimeline(doc', doc)
  <2>1. SameTimeline(RenameTrack(doc, old, new), doc)
    BY PartsNamed, Zenon DEF SameTimeline, RenameTrack
  <2>. QED BY <1>2, <1>6, <2>1, Zenon DEF RenameNamedTrack
<1>. QED BY <1>3, <1>4, <1>5, <1>6, Zenon DEF TrackCommand

\* on sends, inserts and instruments,
LEMMA StripCommands ==
    ASSUME TimelineGood(doc), StripCommand
    PROVE  SameTimeline(doc', doc)
PROOF
<1>. Parts \subseteq DOMAIN doc
  BY Zenon DEF TimelineGood
<1>1. \A command, d : SameTimeline(d, doc) /\ Done(command, d) => SameTimeline(doc', doc)
  BY SameRebuilt, Zenon DEF Done, Reconcile
<1>2. \A tracks : EditTracks(tracks) => SameTimeline(doc', doc)
  BY <1>1, SameInTracks, Zenon DEF EditTracks
<1>3. \A inserts : EditMaster(inserts) => SameTimeline(doc', doc)
  BY <1>1, SameInTracks, Zenon DEF EditMaster
<1>4. MasterCommand => SameTimeline(doc', doc)
  BY <1>3, Zenon DEF MasterCommand
<1>5. ASSUME NEW name, NEW plugin, AddPlugIn(name, plugin) PROVE SameTimeline(doc', doc)
  BY <1>2, <1>5, Zenon DEF AddPlugIn
<1>6. ASSUME NEW name, NEW i, EditInsert(name, i) PROVE SameTimeline(doc', doc)
  BY <1>2, <1>6, Zenon DEF EditInsert
<1>7. ASSUME NEW name, NEW i, EditInstrument(name, i) PROVE SameTimeline(doc', doc)
  BY <1>2, <1>7, Zenon DEF EditInstrument
<1>8. ASSUME NEW name, NEW i, EditSend(name, i) PROVE SameTimeline(doc', doc)
  <2>1. ASSUME NEW tracks, NEW bus PROVE SameTimeline(DropUnusedAux([doc EXCEPT !.tracks = tracks], bus), doc)
    <3>. DEFINE d == [doc EXCEPT !.tracks = tracks]
    <3>1. SameTimeline(d, doc)
      BY SameInTracks
    <3>. HIDE DEF d
    <3>3. Parts \subseteq DOMAIN d
      BY <3>1, Zenon DEF SameTimeline
    <3>2. SameTimeline(DropUnusedAux(d, bus), d)
      BY <3>3, SameItself, SameInTracks, Zenon DEF DropUnusedAux
    <3>. QED BY <3>1, <3>2, SameAgain DEF d
  <2>2. SameTimeline(RemoveSend(doc, name, i), doc)
    BY <2>1, Zenon DEF RemoveSend
  <2>3. ASSUME NEW bus, NEW on PROVE SameTimeline(SetSend(doc, name, i, bus, on), doc)
    BY <2>1, SameInTracks, Zenon DEF SetSend
  <2>. QED BY <1>1, <1>2, <1>8, <2>2, <2>3, Zenon DEF EditSend
<1>. QED BY <1>2, <1>4, <1>5, <1>6, <1>7, <1>8, Zenon DEF StripCommand

\* on MIDI regions,
LEMMA MidiCommands ==
    ASSUME TimelineGood(doc), MidiCommand
    PROVE  SameTimeline(doc', doc)
PROOF
<1>. Parts \subseteq DOMAIN doc
  BY Zenon DEF TimelineGood
<1>1. \A command, d : SameTimeline(d, doc) /\ Done(command, d) => SameTimeline(doc', doc)
  BY SameRebuilt, Zenon DEF Done, Reconcile
<1>2. \A command, regions : EditRegions(command, regions) => SameTimeline(doc', doc)
  BY <1>1, SameInTracks, Zenon DEF EditRegions
<1>3. \A name, t, dur : SameTimeline(AddRegion(doc, name, t, dur), doc)
  BY SameInTracks, Zenon DEF AddRegion
<1>4. ASSUME NEW name, NEW t, AddMidiRegion(name, t, 2) PROVE SameTimeline(doc', doc)
  BY <1>1, <1>3, <1>4, Zenon DEF AddMidiRegion
<1>5. ASSUME NEW name, NEW t, NEW take, NEW mode, NEW punch, RecordMidiTake(name, take, t, mode, punch)
      PROVE  SameTimeline(doc', doc)
  <2>1. \E e, regions : /\ e = doc \/ \E ticks : e = AddRegion(doc, name, t, ticks)
                        /\ RecordTake(doc, name, take.events, t, take.dur, mode, punch) = [e EXCEPT !.regions = regions]
    BY Zenon DEF RecordTake
  <2>2. PICK e, regions : /\ e = doc \/ \E ticks : e = AddRegion(doc, name, t, ticks)
                          /\ RecordTake(doc, name, take.events, t, take.dur, mode, punch) = [e EXCEPT !.regions = regions]
    BY <2>1
  <2>3. SameTimeline(e, doc)
    <3>1. CASE e = doc
      BY <3>1, SameItself
    <3>2. CASE e # doc
      BY <1>3, <2>2, <3>2, Zenon
    <3>. QED BY <3>1, <3>2
  <2>4. Parts \subseteq DOMAIN e
    BY <2>3, Zenon DEF SameTimeline
  <2>5. SameTimeline([e EXCEPT !.regions = regions], doc)
    BY <2>3, <2>4, SameInTracks, SameAgain
  <2>. QED BY <1>1, <1>5, <2>2, <2>5, Zenon DEF RecordMidiTake
<1>6. ASSUME NEW id, NEW name, NEW t, MoveMidiRegion(id, name, t) PROVE SameTimeline(doc', doc)
  BY <1>1, <1>6, SameInTracks, Zenon DEF MoveMidiRegion, MoveRegion
<1>7. ASSUME NEW id, NEW t, ResizeMidiRegion(id, t) \/ TrimMidiRegionStart(id, t) \/ SplitMidiRegion(id, t)
      PROVE  SameTimeline(doc', doc)
  BY <1>2, <1>7, Zenon DEF ResizeMidiRegion, TrimMidiRegionStart, SplitMidiRegion
<1>. QED BY <1>2, <1>4, <1>5, <1>6, <1>7, Zenon DEF MidiCommand

\* on notes,
LEMMA NoteCommands ==
    ASSUME TimelineGood(doc), NoteCommand
    PROVE  SameTimeline(doc', doc)
PROOF
<1>. Parts \subseteq DOMAIN doc
  BY Zenon DEF TimelineGood
<1>1. \A command, regions : EditRegions(command, regions) => SameTimeline(doc', doc)
  BY SameInTracks, SameRebuilt, Zenon DEF EditRegions, Done, Reconcile
<1>. QED BY <1>1, ZenonT(200) DEF NoteCommand, EditRegion, ChangeRegion

\* on video clips,
LEMMA VideoCommands ==
    ASSUME TimelineGood(doc), VideoCommand
    PROVE  SameTimeline(doc', doc)
PROOF
<1>. Parts \subseteq DOMAIN doc
  BY Zenon DEF TimelineGood
<1>1. \A command, d : SameTimeline(d, doc) /\ Done(command, d) => SameTimeline(doc', doc)
  BY SameRebuilt, Zenon DEF Done, Reconcile
<1>2. \A videos : EditVideos(videos) => SameTimeline(doc', doc)
  BY <1>1, SameInTracks, Zenon DEF EditVideos
<1>3. ASSUME NEW id, DeleteVideo(id) PROVE SameTimeline(doc', doc)
  BY <1>1, <1>3, SameInTracks, Zenon DEF DeleteVideo
<1>4. ASSUME NEW t, NEW dur, ImportVideo(t, dur) PROVE SameTimeline(doc', doc)
  BY <1>1, <1>4, SameInTracks, Zenon DEF ImportVideo
<1>. QED BY <1>2, <1>3, <1>4, Zenon DEF VideoCommand

\* and on media and deliveries, collecting included.
LEMMA MediaCommands ==
    ASSUME TimelineGood(doc), MediaCommand
    PROVE  SameTimeline(doc', doc)
PROOF
<1>. Parts \subseteq DOMAIN doc
  BY Zenon DEF TimelineGood
<1>1. \A command, d : SameTimeline(d, doc) /\ Done(command, d) => SameTimeline(doc', doc)
  BY SameRebuilt, Zenon DEF Done, Reconcile
<1>2. \A command, files : Stays(command, files) => SameTimeline(doc', doc)
  BY SameItself, Zenon DEF Stays
<1>3. ASSUME NEW track, NEW file, ImportFile(track, file, 1, 2) PROVE SameTimeline(doc', doc)
  BY <1>2, <1>3, Appended, Zenon DEF ImportFile
<1>4. RecordTakeFile(1, 2) => SameTimeline(doc', doc)
  BY Appended, Zenon DEF RecordTakeFile
<1>5. ASSUME NEW file, NEW selection, NEW snapshot, NEW fault, BounceTo(file, selection, snapshot, fault)
      PROVE  SameTimeline(doc', doc)
  BY <1>2, <1>5, Zenon DEF BounceTo
<1>6. ASSUME NEW folder, NEW fault, ExportStems(folder, fault) PROVE SameTimeline(doc', doc)
  BY <1>2, <1>6, Zenon DEF ExportStems
<1>7. Collect => SameTimeline(doc', doc)
  BY SameItself, Zenon DEF Collect
<1>8. ASSUME NEW file, LoseFile(file) PROVE SameTimeline(doc', doc)
  BY <1>2, <1>8, Zenon DEF LoseFile
<1>9. ASSUME PoolCommand PROVE SameTimeline(doc', doc)
  <2>. DEFINE d == NormalizeEditModel(doc)
  <2>1. SameTimeline(d, doc)
    BY SameModel
  <2>. HIDE DEF d
  <2>2. Parts \subseteq DOMAIN d
    BY <2>1, Zenon DEF SameTimeline
  <2>3. ASSUME NEW id, NEW file PROVE SameTimeline(Relinked(d, id, file), doc)
    <3>. DEFINE e == [d EXCEPT !.files[id] = file]
    <3>1. SameTimeline(e, d) /\ Parts \subseteq DOMAIN e
      BY <2>2, PartsNamed, Zenon DEF SameTimeline
    <3>. HIDE DEF e
    <3>. QED BY <2>1, <3>1, SameClips, SameAgain, Zenon DEF Relinked, e
  <2>4. ASSUME NEW id PROVE SameTimeline(WithoutSource(d, id), doc)
    <3>. DEFINE e == Removed(d, id)
                f == RebuildClips(e)
    <3>1. SameTimeline(e, d) /\ Parts \subseteq DOMAIN e
      BY <2>2, PartsNamed, Zenon DEF SameTimeline, Removed
    <3>. HIDE DEF e
    <3>2. SameTimeline(f, e) /\ Parts \subseteq DOMAIN f
      BY <3>1, SameClips, Zenon DEF SameTimeline
    <3>. HIDE DEF f
    <3>3. SameTimeline(OfSources(f), f)
      BY <3>2, SameItself, Zenon DEF OfSources
    <3>4. WithoutSource(d, id) = OfSources(f)
      BY Zenon DEF WithoutSource, e, f
    <3>. QED BY <2>1, <3>1, <3>2, <3>3, <3>4, SameAgain
  <2>5. SameTimeline(WithoutUnused(doc, d), doc)
    BY PartsNamed, Zenon DEF SameTimeline, WithoutUnused
  <2>6. \A id : EditPlaylists(ActivatePlaylist(doc, id)) => SameTimeline(doc', doc)
    BY <1>1, SameInPlaylists, Zenon DEF EditPlaylists
  <2>. QED BY <1>1, <1>9, <2>3, <2>4, <2>5, <2>6, Zenon DEF PoolCommand, d
<1>. QED BY <1>3, <1>4, <1>5, <1>6, <1>7, <1>8, <1>9, Zenon DEF MediaCommand

-----------------------------------------------------------------------------
\* Commands on the timeline

\* A range made of two times is in order.
LEMMA RangeOfIs ==
    ASSUME NEW a \in Nat, NEW b \in Nat
    PROVE  Ranged(RangeOf(a, b))
PROOF
BY DEF Ranged, RangeOf

\* The edges of clips are times.
LEMMA EdgesAre ==
    ASSUME NEW clips, Timed(clips)
    PROVE  Edges(clips) \in SUBSET Nat
PROOF
BY DEF Edges, Timed

\* The range around a time, from the last edge before it to the first after it
LEMMA SurroundingIs ==
    ASSUME NEW edges \in SUBSET Nat, NEW at \in Nat, CanSurround(edges, at)
    PROVE  Ranged(Surrounding(edges, at))
PROOF
<1>. DEFINE before == EdgeBefore(edges, at)
            after == EdgeAfter(edges, at)
<1>1. before \in SUBSET Nat /\ before # {} /\ \A e \in before : e <= at
  <2>1. before # {}
    BY DEF CanSurround
  <2>2. \A e \in before : e \in Nat /\ e <= at
    BY DEF EdgeBefore
  <2>. QED BY <2>1, <2>2
<1>2. after \in SUBSET Nat /\ after # {}
  BY DEF CanSurround, EdgeAfter
<1>. HIDE DEF before, after
<1>3. Max(before) \in Nat
  BY <1>1, GreatestIn
<1>4. Min(after) \in Nat
  BY <1>2, LeastIn
<1>. QED BY <1>3, <1>4, RangeOfIs, Zenon DEF Surrounding, before, after

\* Selecting a clip, once or twice, leaves good ranges.
LEMMA ToggledIs ==
    ASSUME NEW d, TimelineGood(d), NEW c, c.start \in Nat, c.dur \in Nat, NEW clearLoop
    PROVE  /\ TimelineGood(ToggleSelection(d, c, clearLoop))
           /\ ToggleSelection(d, c, clearLoop).clips = d.clips
PROOF
<1>. DEFINE range == RangeOf(c.start, c.start + c.dur)
            e == ToggleSelection(d, c, clearLoop)
<1>1. Ranged(range)
  <2>1. c.start + c.dur \in Nat
    OBVIOUS
  <2>. QED BY <2>1, RangeOfIs
<1>2. Ranged(NoRange)
  BY BlankIs
<1>. HIDE DEF range
<1>3. \E sel, loop : e = [d EXCEPT !.sel = sel, !.loop = loop] /\ sel \in {NoRange, range} /\ loop \in {NoRange, range, d.loop}
  BY Zenon DEF ToggleSelection, range
<1>4. PICK sel, loop : e = [d EXCEPT !.sel = sel, !.loop = loop] /\ sel \in {NoRange, range} /\ loop \in {NoRange, range, d.loop}
  BY <1>3
<1>. HIDE DEF e
<1>5. Ranged(sel) /\ Ranged(loop)
  BY <1>1, <1>2, <1>4, Zenon DEF TimelineGood
<1>6. /\ DOMAIN e = DOMAIN d /\ e.sel = sel /\ e.loop = loop /\ e.clips = d.clips
      /\ e.markers = d.markers /\ e.map = d.map /\ e.points = d.points /\ e.tempo = d.tempo
  BY <1>4, PartsNamed, Zenon DEF TimelineGood
<1>7. TimelineGood(e)
  BY <1>5, <1>6, Zenon DEF TimelineGood
<1>. QED BY <1>6, <1>7 DEF e

\* A document with other markers, automation, tempo map or ranges that are good has a good timeline, and its clips.
LEMMA ReplacedParts ==
    ASSUME NEW d, TimelineGood(d)
    PROVE  /\ \A markers : Marked(markers) => /\ TimelineGood([d EXCEPT !.markers = markers])
                                              /\ [d EXCEPT !.markers = markers].clips = d.clips
           /\ \A points : Automated(points) => /\ TimelineGood([d EXCEPT !.points = points])
                                               /\ [d EXCEPT !.points = points].clips = d.clips
           /\ \A map : Mapped(map) => TimelineGood(Tempo(d, map)) /\ Tempo(d, map).clips = d.clips
           /\ \A r : Ranged(r) => TimelineGood([d EXCEPT !.sel = r]) /\ [d EXCEPT !.sel = r].clips = d.clips
           /\ \A r : Ranged(r) => TimelineGood([d EXCEPT !.loop = r]) /\ [d EXCEPT !.loop = r].clips = d.clips
PROOF
<1>1. ASSUME NEW markers, Marked(markers)
      PROVE  LET e == [d EXCEPT !.markers = markers] IN TimelineGood(e) /\ e.clips = d.clips
  BY <1>1, PartsNamed, Zenon DEF TimelineGood
<1>2. ASSUME NEW points, Automated(points)
      PROVE  LET e == [d EXCEPT !.points = points] IN TimelineGood(e) /\ e.clips = d.clips
  BY <1>2, PartsNamed, Zenon DEF TimelineGood
<1>3. ASSUME NEW map, Mapped(map) PROVE TimelineGood(Tempo(d, map)) /\ Tempo(d, map).clips = d.clips
  <2>1. map[1].value \in Bpms
    <3>1. map[1] \in TempoMarker
      BY <1>3 DEF Mapped
    <3>. QED BY <3>1 DEF TempoMarker
  <2>2. Tempoed(Whole(map[1].value), map)
    BY <2>1, WholeIs DEF Tempoed
  <2>. QED BY <1>3, <2>2, PartsNamed, Zenon DEF TimelineGood, Tempo
<1>4. ASSUME NEW r, Ranged(r) PROVE LET e == [d EXCEPT !.sel = r] IN TimelineGood(e) /\ e.clips = d.clips
  BY <1>4, PartsNamed, Zenon DEF TimelineGood
<1>5. ASSUME NEW r, Ranged(r) PROVE LET e == [d EXCEPT !.loop = r] IN TimelineGood(e) /\ e.clips = d.clips
  BY <1>5, PartsNamed, Zenon DEF TimelineGood
<1>. QED BY <1>1, <1>2, <1>3, <1>4, <1>5, Zenon

\* The routing rules keep the clips too.
LEMMA RoutedClips ==
    ASSUME NEW d, TimelineGood(d)
    PROVE  TimelineGood(NormalizeRouting(d)) /\ NormalizeRouting(d).clips = d.clips
PROOF
<1>1. NormalizeRouting(d).clips = d.clips
  BY PartsNamed, Zenon DEF TimelineGood, NormalizeRouting
<1>. QED BY <1>1, Rerouted

\* The commands on points keep the timeline good and the clips as they are.
LEMMA PointCommands ==
    ASSUME TimelineGood(doc), Timed(doc.clips), PointCommand
    PROVE  TimelineGood(doc') /\ doc'.clips = doc.clips
PROOF
<1>. DEFINE Kept == TimelineGood(doc') /\ doc'.clips = doc.clips
<1>1. \A d : TimelineGood(d) /\ d.clips = doc.clips /\ Mark(d) => Kept
  BY Zenon DEF Mark
<1>2. \A command, d : TimelineGood(d) /\ d.clips = doc.clips /\ Done(command, d) => Kept
  BY RoutedClips, Zenon DEF Done, Reconcile
<1>. HIDE DEF Kept
<1>3. \A markers : Marked(markers) /\ EditMarkers(markers) => Kept
  BY <1>1, ReplacedParts, Zenon DEF EditMarkers
<1>4. \A points : Automated(points) /\ EditPoints(points) => Kept
  BY <1>2, ReplacedParts, Zenon DEF EditPoints
<1>5. \A command, map : Mapped(map) /\ Done(command, Tempo(doc, map)) => Kept
  BY <1>2, ReplacedParts, Zenon
<1>6. /\ doc.markers \in Seq(Marker) /\ InTime(doc.markers)
      /\ Mapped(doc.map) /\ Automated(doc.points)
  BY Zenon DEF TimelineGood, Marked
<1>7. (\A at \in Times : at \in Nat) /\ (\A gain \in Gains : gain \in Int)
  BY EditsAssumption DEF EditsAssumption, GivenInputs
<1>8. ASSUME NEW at \in Times, EditMarkers(AddMarker(doc.markers, at, at)) PROVE Kept
  <2>1. at \in Nat /\ at \in Int
    BY <1>7
  <2>2. Marked(AddMarker(doc.markers, at, at))
    BY <1>6, <2>1, AddMarkerIs DEF Marked
  <2>. QED BY <1>3, <1>8, <2>2
<1>9. ASSUME NEW at \in Times, Near(doc.markers, at, 1) # {},
             \/ EditMarkers(DeleteNearest(doc.markers, at, 1)) \/ EditMarkers(RenameNearest(doc.markers, at, 1, 9))
             \/ \E to \in Times : EditMarkers(MoveNearest(doc.markers, at, 1, to))
      PROVE  Kept
  <2>1. at \in Nat
    BY <1>7
  <2>2. /\ DeleteNearest(doc.markers, at, 1) \in Seq(Marker) /\ InTime(DeleteNearest(doc.markers, at, 1))
        /\ \A value \in Int : /\ RenameNearest(doc.markers, at, 1, value) \in Seq(Marker)
                              /\ InTime(RenameNearest(doc.markers, at, 1, value))
        /\ \A to \in Nat : /\ MoveNearest(doc.markers, at, 1, to) \in Seq(Marker)
                           /\ InTime(MoveNearest(doc.markers, at, 1, to))
    BY <1>6, <1>9, <2>1, MovedMarkers
  <2>3. 9 \in Int
    OBVIOUS
  <2>4. Marked(DeleteNearest(doc.markers, at, 1)) /\ Marked(RenameNearest(doc.markers, at, 1, 9))
    BY <2>2, <2>3 DEF Marked
  <2>5. \A to \in Times : Marked(MoveNearest(doc.markers, at, 1, to))
    BY <1>7, <2>2 DEF Marked
  <2>. QED BY <1>3, <1>9, <2>4, <2>5, Zenon
<1>10. ASSUME NEW at \in Times, NEW to \in Times, NEW replace,
              EditMarkers(ApplyTranscription(doc.markers, {at, to}, 1, 1, replace))
       PROVE  Kept
  <2>1. {at, to} \subseteq Nat /\ IsFiniteSet({at, to})
    <3>1. IsFiniteSet({at} \cup {to})
      BY FS_Singleton, FS_AddElement
    <3>2. {at, to} = {at} \cup {to}
      OBVIOUS
    <3>. QED BY <1>7, <3>1, <3>2
  <2>2. Marked(ApplyTranscription(doc.markers, {at, to}, 1, 1, replace))
    BY <1>6, <2>1, TranscribedIs DEF Marked
  <2>. QED BY <1>3, <1>10, <2>2
<1>11. ASSUME NEW at \in Times, NEW bpm \in Tempos, ValidTempo(bpm),
              \/ Done(<<"tempo">>, AddTempo(doc, at, bpm))
              \/ \E to \in Times : Near(doc.map, at, 1) # {} /\ Done(<<"tempo">>, MoveNearestTempo(doc, at, 1, to, bpm))
       PROVE  Kept
  <2>1. at \in Nat /\ bpm \in Bpms
    BY <1>7, <1>11 DEF ValidTempo
  <2>2. \E map : Mapped(map) /\ AddTempo(doc, at, bpm) = Tempo(doc, map)
    BY <1>6, <2>1, AddTempoIs
  <2>3. ASSUME NEW to \in Times, Near(doc.map, at, 1) # {}
        PROVE  \E map : Mapped(map) /\ MoveNearestTempo(doc, at, 1, to, bpm) = Tempo(doc, map)
    <3>1. to \in Nat
      BY <1>7
    <3>2. Mapped(doc.map) /\ at \in Nat /\ bpm \in Bpms
      BY <1>6, <2>1
    <3>. QED BY <2>3, <3>1, <3>2, MovedTempo
  <2>. QED BY <1>5, <1>11, <2>2, <2>3, Zenon
<1>12. ASSUME NEW at \in Times, CanDeleteTempo(doc, at, 1), Done(<<"tempo">>, DeleteNearestTempo(doc, at, 1)) PROVE Kept
  <2>1. \E map : Mapped(map) /\ DeleteNearestTempo(doc, at, 1) = Tempo(doc, map)
    BY <1>6, <1>7, <1>12, DeletedTempo
  <2>. QED BY <1>5, <1>12, <2>1, Zenon
<1>13. ASSUME NEW at \in Times, NEW value \in Gains,
              \/ EditPoints(SetPoint(doc.points, at, value))
              \/ \E i \in DOMAIN doc.points : EditPoints(MovePoint(doc.points, i, at, value))
       PROVE  Kept
  <2>1. at \in Nat /\ value \in Int
    BY <1>7
  <2>2. Automated(SetPoint(doc.points, at, value))
    BY <1>6, <2>1, SetPointIs
  <2>3. \A i \in DOMAIN doc.points : Automated(MovePoint(doc.points, i, at, value))
    BY <1>6, <2>1, MovePointIs
  <2>. QED BY <1>4, <1>13, <2>2, <2>3, Zenon
<1>14. ASSUME NEW at, NEW to, EditPoints(DeletePoints(doc.points, at, to)) PROVE Kept
  BY <1>4, <1>6, <1>14, DeletePointsIs
<1>15. ASSUME NEW at \in Times, CanSurround(Edges(doc.clips), at),
              Mark([doc EXCEPT !.sel = Surrounding(Edges(doc.clips), at)])
       PROVE  Kept
  <2>1. Ranged(Surrounding(Edges(doc.clips), at))
    BY <1>7, <1>15, EdgesAre, SurroundingIs
  <2>. QED BY <1>1, <1>15, <2>1, ReplacedParts, Zenon
<1>16. ASSUME NEW at \in Times, NEW to \in Times, Done(<<"loop">>, [doc EXCEPT !.loop = RangeOf(at, to)]) PROVE Kept
  <2>1. Ranged(RangeOf(at, to))
    BY <1>7, RangeOfIs
  <2>. QED BY <1>2, <1>16, <2>1, ReplacedParts, Zenon
<1>17. ASSUME NEW c \in ToSet(doc.clips), NEW clearLoop, Mark(ToggleSelection(doc, c, clearLoop)) PROVE Kept
  <2>1. c.start \in Nat /\ c.dur \in Nat
    BY DEF ToSet, Timed
  <2>2. TimelineGood(ToggleSelection(doc, c, clearLoop)) /\ ToggleSelection(doc, c, clearLoop).clips = doc.clips
    BY <2>1, ToggledIs
  <2>. QED BY <1>1, <1>17, <2>2
<1>. QED BY <1>8, <1>9, <1>10, <1>11, <1>12, <1>13, <1>14, <1>15, <1>16, <1>17, Zenon DEF PointCommand, Kept

-----------------------------------------------------------------------------
\* The invariant of the timeline

\* The timeline is good; where points are edited, the clips have times, as the selection and
\* the ranges around a time are made of them.  That ends when the project is reopened or goes
\* to another program, and so does the editing.
TimelineInv ==
    /\ area \in DOMAIN Start
    /\ TimelineGood(doc)
    /\ area = "points" /\ edits < MaxEdits[area] => Timed(doc.clips)

\* It holds at the start,
LEMMA TimelineStarts ==
    Init => TimelineInv
PROOF
<1>. SUFFICES ASSUME Init PROVE TimelineInv
  OBVIOUS
<1>1. Typed(doc) /\ Ordered(doc) /\ Timed(doc.clips)
  BY EditsAssumption, Zenon DEF Init, EditsAssumption, GivenDocument
<1>2. TimelineGood(doc)
  BY <1>1, TimelineIs
<1>. QED BY <1>1, <1>2, Zenon DEF Init, TimelineInv

\* and every step keeps it.
LEMMA TimelineSteps ==
    TimelineInv /\ [Next]_vars => TimelineInv'
PROOF
<1>. SUFFICES ASSUME TimelineInv, [Next]_vars PROVE TimelineInv'
  OBVIOUS
<1>1. /\ area \in DOMAIN Start /\ TimelineGood(doc)
      /\ area = "points" /\ edits < MaxEdits[area] => Timed(doc.clips)
  BY DEF TimelineInv
<1>2. MaxEdits[area] \in Nat /\ "points" \notin DOMAIN Folder
  BY <1>1, EditsAssumption, Zenon DEF EditsAssumption, GivenInputs
<1>3. ASSUME SameTimeline(doc', doc), area' = area, area # "points" PROVE TimelineInv'
  <2>1. TimelineGood(doc')
    BY <1>1, <1>3, SameKeeps
  <2>. QED BY <1>1, <1>3, <2>1, Zenon DEF TimelineInv
<1>4. CASE ClipCommand
  <2>1. SameTimeline(doc', doc)
    BY <1>1, <1>4, ClipCommands
  <2>2. area' = area /\ area # "points"
    BY <1>4, Zenon DEF ClipCommand, Editing
  <2>. QED BY <1>3, <2>1, <2>2
<1>5. CASE PlaylistCommand
  <2>1. SameTimeline(doc', doc)
    BY <1>1, <1>5, PlaylistCommands
  <2>2. area' = area /\ area # "points"
    BY <1>5, Zenon DEF PlaylistCommand, Editing
  <2>. QED BY <1>3, <2>1, <2>2
<1>6. CASE TrackCommand
  <2>1. SameTimeline(doc', doc)
    BY <1>1, <1>6, TrackCommands
  <2>2. area' = area /\ area # "points"
    BY <1>6, Zenon DEF TrackCommand, Editing
  <2>. QED BY <1>3, <2>1, <2>2
<1>7. CASE StripCommand
  <2>1. SameTimeline(doc', doc)
    BY <1>1, <1>7, StripCommands
  <2>2. area' = area /\ area # "points"
    BY <1>7, Zenon DEF StripCommand, Editing
  <2>. QED BY <1>3, <2>1, <2>2
<1>8. CASE MidiCommand
  <2>1. SameTimeline(doc', doc)
    BY <1>1, <1>8, MidiCommands
  <2>2. area' = area /\ area # "points"
    BY <1>8, Zenon DEF MidiCommand, Editing
  <2>. QED BY <1>3, <2>1, <2>2
<1>9. CASE NoteCommand
  <2>1. SameTimeline(doc', doc)
    BY <1>1, <1>9, NoteCommands
  <2>2. area' = area /\ area # "points"
    BY <1>9, Zenon DEF NoteCommand, Editing
  <2>. QED BY <1>3, <2>1, <2>2
<1>10. CASE PointCommand
  <2>1. area = "points" /\ area' = area /\ edits < MaxEdits[area]
    BY <1>10, Zenon DEF PointCommand, Editing
  <2>2. Timed(doc.clips)
    BY <1>1, <2>1
  <2>3. TimelineGood(doc') /\ doc'.clips = doc.clips
    BY <1>1, <1>10, <2>2, PointCommands
  <2>. QED BY <1>1, <2>1, <2>2, <2>3, Zenon DEF TimelineInv
<1>11. CASE VideoCommand
  <2>1. SameTimeline(doc', doc)
    BY <1>1, <1>11, VideoCommands
  <2>2. area' = area /\ area # "points"
    BY <1>11, Zenon DEF VideoCommand, Editing
  <2>. QED BY <1>3, <2>1, <2>2
<1>12. CASE MediaCommand
  <2>1. SameTimeline(doc', doc)
    BY <1>1, <1>12, MediaCommands
  <2>2. area' = area /\ area # "points"
    BY <1>2, <1>12, Zenon DEF MediaCommand, HasFiles
  <2>. QED BY <1>3, <2>1, <2>2
<1>13. ASSUME TimelineGood(doc'), area' = area, edits' = MaxEdits[area] + 1 PROVE TimelineInv'
  <2>1. ~(edits' < MaxEdits[area])
    BY <1>2, <1>13
  <2>. QED BY <1>1, <1>13, <2>1, Zenon DEF TimelineInv
<1>14. CASE Reopen
  <2>1. area' = area /\ edits' = MaxEdits[area] + 1 /\ doc' = NormalizeRouting(Opened(Written(doc)))
    BY <1>14, Zenon DEF Reopen, Done, Reconcile
  <2>2. TimelineGood(doc')
    BY <1>1, <2>1, OpenedIs, Rerouted
  <2>. QED BY <1>13, <2>1, <2>2
<1>15. ASSUME NEW form \in Forms, Exchange(form) PROVE TimelineInv'
  <2>1. area' = area /\ edits' = MaxEdits[area] + 1 /\ doc' = NormalizeRouting(Exchanged(form, doc))
    BY <1>15, Zenon DEF Exchange, Done, Reconcile
  <2>2. TimelineGood(doc')
    BY <1>1, <2>1, ExchangedIs, Rerouted
  <2>. QED BY <1>13, <2>1, <2>2
<1>16. CASE UNCHANGED vars
  BY <1>1, <1>16, Zenon DEF vars, TimelineInv
<1>. QED BY <1>4, <1>5, <1>6, <1>7, <1>8, <1>9, <1>10, <1>11, <1>12, <1>14, <1>15, <1>16, Zenon DEF Next

\* The timeline of a project is in order whatever is done to it: markers, tempo map and
\* automation are in the order of time, the tempo map has a marker and the project's tempo is
\* its first marker's to the nearest whole number of BPM, automation is within its limits, and
\* the selection and the loop go from their start to their end.
THEOREM TimelineStaysInOrder ==
    Spec => []TimelineInOrder
PROOF
<1>1. TimelineInv => TimelineInOrder
  BY TimelineIs, Zenon DEF TimelineInv, TimelineInOrder
<1>. QED BY <1>1, TimelineStarts, TimelineSteps, PTL DEF Spec

-----------------------------------------------------------------------------
\* Lists whose items have ids of their own

Items(seq) == {seq[i] : i \in DOMAIN seq}

\* A list is a sequence of its items.
LEMMA ListedIs ==
    ASSUME NEW seq, Listed(seq)
    PROVE  /\ Len(seq) \in Nat /\ DOMAIN seq = 1 .. Len(seq) /\ seq \in Seq(Items(seq))
           /\ \A D : Items(seq) \subseteq D => seq \in Seq(D)
PROOF
<1>. DEFINE n == Len(seq)
<1>1. n \in Nat /\ seq = [i \in 1 .. n |-> seq[i]]
  BY Zenon DEF Listed
<1>. HIDE DEF n
<1>2. DOMAIN seq = 1 .. n
  <2>1. DOMAIN [i \in 1 .. n |-> seq[i]] = 1 .. n
    BY Zenon
  <2>. QED BY <1>1, <2>1, Zenon
<1>3. ASSUME NEW D, Items(seq) \subseteq D PROVE seq \in Seq(D)
  <2>1. \A i \in 1 .. n : seq[i] \in D
    BY <1>2, <1>3 DEF Items
  <2>2. seq \in [1 .. n -> D]
    BY <1>1, <2>1, Zenon
  <2>. QED BY <1>1, <2>2
<1>. QED BY <1>1, <1>2, <1>3 DEF n

\* A sequence is a list,
LEMMA SeqListed ==
    ASSUME NEW D, NEW seq \in Seq(D)
    PROVE  Listed(seq) /\ DOMAIN seq = 1 .. Len(seq) /\ Len(seq) \in Nat
PROOF
<1>1. Len(seq) \in Nat /\ seq = [i \in 1 .. Len(seq) |-> seq[i]] /\ DOMAIN seq = 1 .. Len(seq)
  OBVIOUS
<1>. QED BY <1>1, Zenon DEF Listed

\* and so is a table of a number of items.
LEMMA TableListed ==
    ASSUME NEW n \in Nat, NEW f, f = [i \in 1 .. n |-> f[i]]
    PROVE  Listed(f) /\ Len(f) = n /\ DOMAIN f = 1 .. n
PROOF
<1>. DEFINE D == {f[i] : i \in 1 .. n}
<1>1. \A i \in 1 .. n : f[i] \in D
  OBVIOUS
<1>. HIDE DEF D
<1>2. f \in [1 .. n -> D]
  BY <1>1, Zenon
<1>3. f \in Seq(D) /\ Len(f) = n /\ DOMAIN f = 1 .. n
  BY <1>2
<1>. QED BY <1>3, SeqListed

\* A list with new items at its places
LEMMA ReplacedListed ==
    ASSUME NEW old, Listed(old), NEW new, new = [i \in DOMAIN old |-> new[i]]
    PROVE  Listed(new) /\ DOMAIN new = DOMAIN old /\ Len(new) = Len(old)
PROOF
<1>1. Len(old) \in Nat /\ DOMAIN old = 1 .. Len(old)
  BY ListedIs
<1>2. new = [i \in 1 .. Len(old) |-> new[i]]
  BY <1>1, Zenon
<1>. QED BY <1>1, <1>2, TableListed

\* A list and one more item
LEMMA AppendListed ==
    ASSUME NEW seq, Listed(seq), NEW x
    PROVE  /\ Listed(Append(seq, x)) /\ Len(Append(seq, x)) = Len(seq) + 1
           /\ DOMAIN Append(seq, x) = 1 .. Len(seq) + 1
           /\ \A i \in DOMAIN seq : Append(seq, x)[i] = seq[i]
           /\ Append(seq, x)[Len(seq) + 1] = x
PROOF
<1>. DEFINE D == Items(seq) \cup {x}
<1>1. seq \in Seq(D) /\ x \in D /\ DOMAIN seq = 1 .. Len(seq) /\ Len(seq) \in Nat
  BY ListedIs
<1>. HIDE DEF D
<1>2. /\ Append(seq, x) \in Seq(D) /\ Len(Append(seq, x)) = Len(seq) + 1
      /\ \A i \in 1 .. Len(seq) : Append(seq, x)[i] = seq[i]
      /\ Append(seq, x)[Len(seq) + 1] = x
  BY <1>1
<1>. QED BY <1>1, <1>2, SeqListed

\* Two lists joined
LEMMA JoinListed ==
    ASSUME NEW a, Listed(a), NEW b, Listed(b)
    PROVE  /\ Listed(a \o b) /\ Len(a \o b) = Len(a) + Len(b) /\ DOMAIN (a \o b) = 1 .. Len(a) + Len(b)
           /\ \A i \in DOMAIN a : (a \o b)[i] = a[i]
           /\ \A i \in 1 .. Len(a) + Len(b) : i > Len(a) => i - Len(a) \in DOMAIN b /\ (a \o b)[i] = b[i - Len(a)]
PROOF
<1>. DEFINE D == Items(a) \cup Items(b)
<1>1. a \in Seq(D) /\ b \in Seq(D)
  BY ListedIs
<1>. HIDE DEF D
<1>2. DOMAIN a = 1 .. Len(a) /\ DOMAIN b = 1 .. Len(b) /\ Len(a) \in Nat /\ Len(b) \in Nat
  BY <1>1
<1>. DEFINE j == a \o b
<1>3. j \in Seq(D) /\ Len(j) = Len(a) + Len(b)
  BY <1>1
<1>4. \A k \in 1 .. Len(a) + Len(b) : j[k] = IF k <= Len(a) THEN a[k] ELSE b[k - Len(a)]
  BY <1>1, JoinedAt
<1>. HIDE DEF j
<1>5. Listed(j) /\ DOMAIN j = 1 .. Len(a) + Len(b)
  BY <1>3, SeqListed
<1>6. \A i \in DOMAIN a : j[i] = a[i]
  BY <1>2, <1>4
<1>7. \A i \in 1 .. Len(a) + Len(b) : i > Len(a) => i - Len(a) \in DOMAIN b /\ j[i] = b[i - Len(a)]
  BY <1>2, <1>4
<1>. QED BY <1>3, <1>5, <1>6, <1>7 DEF j

\* A list whose items get new contents and keep their ids
LEMMA ReplacedLabelled ==
    ASSUME NEW old, Labelled(old), NEW new, new = [i \in DOMAIN old |-> new[i]],
           \A i \in DOMAIN old : new[i].id = old[i].id
    PROVE  Labelled(new) /\ DOMAIN new = DOMAIN old
PROOF
<1>1. Listed(new) /\ DOMAIN new = DOMAIN old
  BY ReplacedListed, Zenon DEF Labelled
<1>2. \A i, k \in DOMAIN old : old[i].id = old[k].id => i = k
  BY Zenon DEF Labelled
<1>3. \A i, k \in DOMAIN new : new[i].id = new[k].id => i = k
  BY <1>1, <1>2
<1>. QED BY <1>1, <1>3, Zenon DEF Labelled

\* A list with one more item that has a new id
LEMMA AppendLabelled ==
    ASSUME NEW seq, Labelled(seq), NEW x, \A i \in DOMAIN seq : seq[i].id # x.id
    PROVE  Labelled(Append(seq, x))
PROOF
<1>. DEFINE a == Append(seq, x)
            n == Len(seq)
<1>1. n \in Nat /\ DOMAIN seq = 1 .. n /\ \A i, k \in DOMAIN seq : seq[i].id = seq[k].id => i = k
  BY ListedIs, Zenon DEF Labelled
<1>2. Listed(a) /\ DOMAIN a = 1 .. n + 1 /\ a[n + 1] = x /\ \A i \in 1 .. n : a[i] = seq[i]
  BY <1>1, AppendListed, ZenonT(60) DEF Labelled
<1>. HIDE DEF a, n
<1>3. \A i \in 1 .. n + 1 : i = n + 1 \/ i \in 1 .. n
  BY <1>1
<1>4. ASSUME NEW i \in 1 .. n + 1, NEW k \in 1 .. n + 1, a[i].id = a[k].id PROVE i = k
  BY <1>1, <1>2, <1>3, <1>4, Zenon
<1>. QED BY <1>2, <1>4, Zenon DEF Labelled, a

\* Two lists without a common id
LEMMA JoinLabelled ==
    ASSUME NEW a, Labelled(a), NEW b, Labelled(b), \A i \in DOMAIN a, k \in DOMAIN b : a[i].id # b[k].id
    PROVE  Labelled(a \o b)
PROOF
<1>. DEFINE j == a \o b
<1>1. /\ Len(a) \in Nat /\ DOMAIN a = 1 .. Len(a) /\ \A i, k \in DOMAIN a : a[i].id = a[k].id => i = k
      /\ \A i, k \in DOMAIN b : b[i].id = b[k].id => i = k
      /\ Len(b) \in Nat
  BY ListedIs, Zenon DEF Labelled
<1>2. /\ Listed(j) /\ DOMAIN j = 1 .. Len(a) + Len(b)
      /\ \A i \in DOMAIN a : j[i] = a[i]
      /\ \A i \in 1 .. Len(a) + Len(b) : i > Len(a) => i - Len(a) \in DOMAIN b /\ j[i] = b[i - Len(a)]
  BY JoinListed, Zenon DEF Labelled
<1>. HIDE DEF j
<1>3. ASSUME NEW i \in DOMAIN j, NEW k \in DOMAIN j, j[i].id = j[k].id PROVE i = k
  <2>1. i \in DOMAIN a \/ i > Len(a)
    BY <1>1, <1>2
  <2>2. k \in DOMAIN a \/ k > Len(a)
    BY <1>1, <1>2
  <2>3. CASE i \in DOMAIN a /\ k \in DOMAIN a
    BY <1>1, <1>2, <1>3, <2>3
  <2>4. CASE i > Len(a) /\ k > Len(a)
    <3>1. i - Len(a) = k - Len(a)
      BY <1>1, <1>2, <1>3, <2>4
    <3>. QED BY <1>1, <1>2, <3>1
  <2>5. CASE i \in DOMAIN a /\ k > Len(a)
    BY <1>2, <1>3, <2>5
  <2>6. CASE i > Len(a) /\ k \in DOMAIN a
    BY <1>2, <1>3, <2>6
  <2>. QED BY <2>1, <2>2, <2>3, <2>4, <2>5, <2>6
<1>. QED BY <1>2, <1>3, Zenon DEF Labelled, j

\* A list of places of S: each once, and all of them.
Enumerates(f, S) ==
    /\ f \in [1 .. Cardinality(S) -> S] /\ Cardinality(S) \in Nat
    /\ \A m, n \in DOMAIN f : f[m] = f[n] => m = n
    /\ \A i \in S : \E n \in DOMAIN f : f[n] = i

\* What is picked at the places of a set whose items have different ids
LEMMA PickLabelled ==
    ASSUME NEW seq, NEW S, S \subseteq DOMAIN seq, \A i, k \in S : seq[i].id = seq[k].id => i = k,
           NEW f, Enumerates(f, S)
    PROVE  /\ Labelled(Picked(seq, f))
           /\ \A n \in DOMAIN Picked(seq, f) : \E i \in S : Picked(seq, f)[n] = seq[i]
           /\ \A i \in S : \E n \in DOMAIN Picked(seq, f) : Picked(seq, f)[n] = seq[i]
PROOF
<1>. DEFINE p == Picked(seq, f)
            len == Cardinality(S)
<1>1. /\ len \in Nat /\ DOMAIN f = 1 .. len /\ \A n \in 1 .. len : f[n] \in S
      /\ \A m, n \in 1 .. len : f[m] = f[n] => m = n
      /\ \A i \in S : \E n \in 1 .. len : f[n] = i
  BY DEF Enumerates
<1>2. p = [n \in 1 .. len |-> seq[f[n]]]
  BY <1>1, Zenon DEF Picked
<1>. HIDE DEF p, len
<1>3. (\A n \in 1 .. len : p[n] = seq[f[n]]) /\ p = [n \in 1 .. len |-> p[n]]
  BY <1>2, Zenon
<1>4. Listed(p) /\ DOMAIN p = 1 .. len
  BY <1>1, <1>3, TableListed
<1>5. ASSUME NEW m \in 1 .. len, NEW n \in 1 .. len, p[m].id = p[n].id PROVE m = n
  <2>1. f[m] \in S /\ f[n] \in S /\ seq[f[m]].id = seq[f[n]].id
    BY <1>1, <1>3, <1>5
  <2>2. f[m] = f[n]
    BY <2>1
  <2>. QED BY <1>1, <2>2
<1>6. Labelled(p)
  BY <1>4, <1>5, Zenon DEF Labelled
<1>7. ASSUME NEW n \in 1 .. len PROVE \E i \in S : p[n] = seq[i]
  BY <1>1, <1>3
<1>8. ASSUME NEW i \in S PROVE \E n \in 1 .. len : p[n] = seq[i]
  <2>1. PICK n \in 1 .. len : f[n] = i
    BY <1>1
  <2>. QED BY <1>3, <2>1
<1>. QED BY <1>4, <1>6, <1>7, <1>8, Zenon DEF p

\* Ascending lists a set of places.
LEMMA AscendingPlaces ==
    ASSUME NEW len \in Nat, NEW S, S \subseteq 1 .. len
    PROVE  Enumerates(Ascending(S), S)
PROOF
<1>1. S \subseteq Int /\ IsFiniteSet(S)
  <2>1. IsFiniteSet(1 .. len) /\ S \in SUBSET (1 .. len)
    BY FS_Interval
  <2>2. IsFiniteSet(S)
    BY <2>1, FS_Subset
  <2>. QED BY <2>2
<1>. DEFINE a == Ascending(S)
<1>2. /\ a \in [1 .. Cardinality(S) -> S] /\ Cardinality(S) \in Nat
      /\ \A m, n \in DOMAIN a : m < n => a[m] < a[n]
      /\ \A i \in S : \E n \in DOMAIN a : a[n] = i
  BY <1>1, AscendingLists
<1>. HIDE DEF a
<1>3. ASSUME NEW m \in DOMAIN a, NEW n \in DOMAIN a, a[m] = a[n] PROVE m = n
  <2>3. m \in 1 .. Cardinality(S) /\ n \in 1 .. Cardinality(S) /\ a[m] \in S /\ a[n] \in S
    BY <1>2
  <2>4. Cardinality(S) \in Nat
    BY <1>2
  <2>5. m \in Int /\ n \in Int
    BY <2>3, <2>4
  <2>6. a[m] \in Int /\ a[n] \in Int
    BY <1>1, <2>3, Zenon
  <2>1. m \in Int /\ n \in Int /\ a[m] \in Int /\ a[n] \in Int
    BY <2>5, <2>6
  <2>2. ~(m < n) /\ ~(n < m)
    BY <1>2, <1>3, <2>1
  <2>. QED BY <2>1, <2>2
<1>. QED BY <1>2, <1>3, Zenon DEF Enumerates, a

\* So does what is listed in another order.
LEMMA RankedPlaces ==
    ASSUME NEW S, IsFiniteSet(S), NEW R, Orders(R, S), NEW f, Lists(f, S, R)
    PROVE  Enumerates(f, S)
PROOF
<1>1. Cardinality(S) \in Nat /\ f \in [1 .. Cardinality(S) -> S]
      /\ \A n \in 1 .. Cardinality(S) : Cardinality(Below(S, R, f[n])) = n - 1
  BY FS_CardinalityType DEF Lists
<1>2. \A i \in S : \E n \in DOMAIN f : f[n] = i
  BY ListsAll
<1>3. ASSUME NEW m \in DOMAIN f, NEW n \in DOMAIN f, f[m] = f[n] PROVE m = n
  <2>1. m \in 1 .. Cardinality(S) /\ n \in 1 .. Cardinality(S)
    BY <1>1
  <2>2. Cardinality(Below(S, R, f[m])) = m - 1 /\ Cardinality(Below(S, R, f[n])) = n - 1
    BY <1>1, <2>1
  <2>3. m - 1 = n - 1
    BY <1>3, <2>2, Zenon
  <2>4. m \in Int /\ n \in Int
    BY <1>1, <2>1
  <2>. QED BY <2>3, <2>4
<1>. QED BY <1>1, <1>2, <1>3, Zenon DEF Enumerates

\* A finite set of integers has its least and its greatest in it.
LEMMA ExtremesIn ==
    ASSUME NEW S, S \subseteq Int, IsFiniteSet(S), S # {}
    PROVE  Max(S) \in S /\ Min(S) \in S
PROOF
<1>. DEFINE a == Ascending(S)
            len == Cardinality(S)
<1>1. /\ a \in [1 .. len -> S] /\ len \in Nat
      /\ \A m, n \in DOMAIN a : m < n => a[m] < a[n]
      /\ \A i \in S : \E n \in DOMAIN a : a[n] = i
  BY AscendingLists
<1>. HIDE DEF a, len
<1>2. DOMAIN a = 1 .. len /\ \A n \in 1 .. len : a[n] \in S
  BY <1>1
<1>3. 1 \in 1 .. len /\ len \in 1 .. len
  <2>1. PICK i \in S : TRUE
    OBVIOUS
  <2>2. PICK n \in 1 .. len : a[n] = i
    BY <1>1, <1>2
  <2>. QED BY <1>1, <2>2
<1>4. \A m, n \in 1 .. len : m < n => a[m] < a[n]
  BY <1>1, <1>2, Zenon
<1>5. \A n \in 1 .. len : a[n] \in Int
  BY <1>2, Zenon
<1>6. ASSUME NEW i \in S PROVE a[1] <= i /\ i <= a[len]
  <2>1. PICK n \in 1 .. len : a[n] = i
    BY <1>1, <1>2, Zenon
  <2>2. n = 1 \/ 1 < n
    BY <1>1
  <2>3. n = len \/ n < len
    BY <1>1
  <2>4. a[1] <= a[n]
    BY <1>3, <1>4, <1>5, <2>2
  <2>5. a[n] <= a[len]
    BY <1>3, <1>4, <1>5, <2>3
  <2>. QED BY <2>1, <2>4, <2>5
<1>7. a[1] \in S /\ a[len] \in S
  BY <1>2, <1>3
<1>8. (\E x \in S : \A y \in S : x <= y) /\ (\E x \in S : \A y \in S : x >= y)
  <2>1. \A y \in S : y \in Int /\ a[len] \in Int
    BY <1>3, <1>5
  <2>2. \A y \in S : a[len] >= y
    BY <1>6, <2>1
  <2>. QED BY <1>6, <1>7, <2>2
<1>9. Max(S) \in S
  BY <1>8, Zenon DEF Max
<1>10. Min(S) \in S
  BY <1>8, Zenon DEF Min
<1>. QED BY <1>9, <1>10

-----------------------------------------------------------------------------
\* What the operations make of a clip is a clip

\* A clip with the id and the lock of another
Like(d, c) == IsClip(d) /\ d.id = c.id /\ d.locked = c.locked

\* One change after another
LEMMA LikeAgain ==
    ASSUME NEW c, NEW d, NEW e, Like(d, c), Like(e, d)
    PROVE  Like(e, c)
PROOF
BY DEF Like

\* A clip with one of its fields changed
LEMMA LikeEdited ==
    ASSUME NEW c, IsClip(c)
    PROVE  /\ Like(c, c)
           /\ \A v \in Int : Like([c EXCEPT !.start = v], c) /\ Like([c EXCEPT !.dur = v], c) /\ Like([c EXCEPT !.track = v], c)
           /\ \A v \in Nat \ {0} : Like([c EXCEPT !.scale = v], c)
           /\ \A v : /\ Like([c EXCEPT !.off = v], c) /\ Like([c EXCEPT !.fin = v], c) /\ Like([c EXCEPT !.fout = v], c)
                     /\ Like([c EXCEPT !.gain = v], c) /\ Like([c EXCEPT !.muted = v], c) /\ Like([c EXCEPT !.inv = v], c)
                     /\ Like([c EXCEPT !.src = v], c)
PROOF
<1>1. /\ "id" \in DOMAIN c /\ "track" \in DOMAIN c /\ "start" \in DOMAIN c /\ "dur" \in DOMAIN c
      /\ "locked" \in DOMAIN c /\ "scale" \in DOMAIN c
      /\ Listed(c.id) /\ c.track \in Int /\ c.start \in Int /\ c.dur \in Int /\ c.scale \in Nat \ {0}
  BY DEF IsClip
<1>2. ASSUME NEW field, field \notin {"id", "locked"}, NEW v,
             field \in {"start", "dur", "track"} => v \in Int, field = "scale" => v \in Nat \ {0}
      PROVE  Like([c EXCEPT ![field] = v], c)
  <2>. DEFINE d == [c EXCEPT ![field] = v]
  <2>1. DOMAIN d = DOMAIN c /\ \A f \in DOMAIN c : d[f] = IF f = field THEN v ELSE c[f]
    OBVIOUS
  <2>. HIDE DEF d
  <2>2. d.id = c.id /\ d.locked = c.locked
    BY <1>1, <1>2, <2>1
  <2>3. d.track \in Int /\ d.start \in Int /\ d.dur \in Int /\ d.scale \in Nat \ {0}
    BY <1>1, <1>2, <2>1
  <2>4. IsClip(d)
    BY <1>1, <2>1, <2>2, <2>3 DEF IsClip
  <2>. QED BY <2>2, <2>4 DEF Like, d
<1>3. Like(c, c)
  BY DEF Like
<1>4. ASSUME NEW v \in Int
      PROVE  Like([c EXCEPT !.start = v], c) /\ Like([c EXCEPT !.dur = v], c) /\ Like([c EXCEPT !.track = v], c)
  BY <1>2, Zenon
<1>5. ASSUME NEW v \in Nat \ {0} PROVE Like([c EXCEPT !.scale = v], c)
  BY <1>2, Zenon
<1>6. ASSUME NEW v
      PROVE  /\ Like([c EXCEPT !.off = v], c) /\ Like([c EXCEPT !.fin = v], c) /\ Like([c EXCEPT !.fout = v], c)
             /\ Like([c EXCEPT !.gain = v], c) /\ Like([c EXCEPT !.muted = v], c) /\ Like([c EXCEPT !.inv = v], c)
             /\ Like([c EXCEPT !.src = v], c)
  BY <1>2, Zenon
<1>. QED BY <1>3, <1>4, <1>5, <1>6, Zenon

\* and what the operations on one clip make of it, but for locking
LEMMA LikeClamped ==
    ASSUME NEW c, IsClip(c)
    PROVE  /\ Like(Clamp(c), c)
           /\ \A a, b \in Int : Like(Slice(c, a, b), c)
           /\ \A gain : Like(Gained(c, gain), c)
           /\ \A flag, on : Like(Flagged(c, flag, on), c)
           /\ \A fin, fout : Like(Clamp([c EXCEPT !.fin = fin, !.fout = fout]), c)
PROOF
<1>1. ASSUME NEW d, IsClip(d), NEW fin, NEW fout PROVE Like([d EXCEPT !.fin = fin, !.fout = fout], d)
  <2>. DEFINE e == [d EXCEPT !.fin = fin]
  <2>1. Like(e, d)
    BY <1>1, LikeEdited
  <2>2. [d EXCEPT !.fin = fin, !.fout = fout] = [e EXCEPT !.fout = fout]
    OBVIOUS
  <2>. HIDE DEF e
  <2>3. Like([e EXCEPT !.fout = fout], e)
    BY <2>1, LikeEdited, Zenon DEF Like
  <2>. QED BY <2>1, <2>2, <2>3, LikeAgain
<1>2. ASSUME NEW d, IsClip(d) PROVE Like(Clamp(d), d)
  BY <1>1, <1>2, Zenon DEF Clamp
<1>3. ASSUME NEW a \in Int, NEW b \in Int PROVE Like(Slice(c, a, b), c)
  <2>. DEFINE e == [c EXCEPT !.start = a]
              off == c.off + (a - c.start)
              f == [e EXCEPT !.off = off]
              p == [f EXCEPT !.dur = b - a]
  <2>1. Part(c, a, b) = p
    BY DEF Part
  <2>2. Like(e, c)
    BY LikeEdited
  <2>. HIDE DEF e, off
  <2>3. Like(f, e)
    BY <2>2, LikeEdited, Zenon DEF Like
  <2>. HIDE DEF f
  <2>4. b - a \in Int
    OBVIOUS
  <2>5. Like(p, f)
    BY <2>3, <2>4, LikeEdited, Zenon DEF Like
  <2>. HIDE DEF p
  <2>6. Like(p, c)
    BY <2>2, <2>3, <2>5, LikeAgain
  <2>7. Like(Clamp(p), p)
    BY <2>5, <1>2, Zenon DEF Like
  <2>. QED BY <2>1, <2>6, <2>7, LikeAgain DEF Slice
<1>4. \A gain : Like(Gained(c, gain), c)
  BY LikeEdited, Zenon DEF Gained
<1>5. \A flag, on : Like(Flagged(c, flag, on), c)
  BY LikeEdited, Zenon DEF Flagged
<1>6. ASSUME NEW fin, NEW fout PROVE Like(Clamp([c EXCEPT !.fin = fin, !.fout = fout]), c)
  <2>1. Like([c EXCEPT !.fin = fin, !.fout = fout], c)
    BY <1>1
  <2>2. IsClip([c EXCEPT !.fin = fin, !.fout = fout])
    BY <2>1 DEF Like
  <2>. QED BY <1>2, <2>1, <2>2, LikeAgain
<1>. QED BY <1>2, <1>3, <1>4, <1>5, <1>6

-----------------------------------------------------------------------------
\* Lists of clips whose locked clips stay

\* The clips of a list changed at their places: each keeps its id, a locked one everything.
Revised(new, old) ==
    /\ new = [i \in DOMAIN old |-> new[i]]
    /\ \A i \in DOMAIN old : Like(new[i], old[i]) /\ (old[i].locked => new[i] = old[i])

\* Every locked clip is still there.
LockedStay(new, old) == \A i \in DOMAIN old : old[i].locked => \E k \in DOMAIN new : new[k] = old[i]
Sound(new, old) == ClipList(new) /\ LockedStay(new, old)

\* What a list of clips is
LEMMA ClipListIs ==
    ASSUME NEW clips, ClipList(clips)
    PROVE  /\ Listed(clips) /\ Labelled(clips)
           /\ \A i \in DOMAIN clips : IsClip(clips[i]) /\ Like(clips[i], clips[i])
           /\ \A i, k \in DOMAIN clips : clips[i].id = clips[k].id => i = k
PROOF
BY LikeEdited, Zenon DEF ClipList, Labelled

\* A list that stays as it is
LEMMA SoundItself ==
    ASSUME NEW clips, ClipList(clips)
    PROVE  Sound(clips, clips)
PROOF
BY Zenon DEF Sound, LockedStay

\* One change after another
LEMMA SoundAgain ==
    ASSUME NEW a, NEW b, NEW c, Sound(b, a), Sound(c, b)
    PROVE  Sound(c, a)
PROOF
BY DEF Sound, LockedStay

\* A revised list revised again
LEMMA RevisedAgain ==
    ASSUME NEW a, NEW b, NEW c, Revised(b, a), Revised(c, b)
    PROVE  Revised(c, a)
PROOF
<1>1. DOMAIN b = DOMAIN a
  BY Zenon DEF Revised
<1>2. ASSUME NEW i \in DOMAIN a PROVE Like(c[i], a[i]) /\ (a[i].locked => c[i] = a[i])
  <2>1. Like(b[i], a[i]) /\ Like(c[i], b[i]) /\ (a[i].locked => b[i] = a[i]) /\ (b[i].locked => c[i] = b[i])
    BY <1>1, Zenon DEF Revised
  <2>2. b[i].locked = a[i].locked
    BY <2>1, Zenon DEF Like
  <2>. QED BY <2>1, <2>2, LikeAgain
<1>3. c = [i \in DOMAIN a |-> c[i]]
  BY <1>1, Zenon DEF Revised
<1>. QED BY <1>2, <1>3, Zenon DEF Revised

\* A list changed at its places is a list of clips, and its locked clips stay.
LEMMA RevisedSound ==
    ASSUME NEW old, ClipList(old), NEW new, Revised(new, old)
    PROVE  Sound(new, old) /\ DOMAIN new = DOMAIN old /\ \A i \in DOMAIN old : new[i].id = old[i].id /\ new[i].locked = old[i].locked
PROOF
<1>1. new = [i \in DOMAIN old |-> new[i]] /\ Labelled(old)
      /\ \A i \in DOMAIN old : IsClip(new[i]) /\ new[i].id = old[i].id /\ new[i].locked = old[i].locked /\ (old[i].locked => new[i] = old[i])
  BY ClipListIs, Zenon DEF Revised, Like
<1>2. Labelled(new) /\ DOMAIN new = DOMAIN old
  BY <1>1, ReplacedLabelled
<1>3. \A i \in DOMAIN new : IsClip(new[i])
  BY <1>1, <1>2
<1>4. LockedStay(new, old)
  BY <1>1, <1>2 DEF LockedStay
<1>. QED BY <1>1, <1>2, <1>3, <1>4, Zenon DEF Sound, ClipList

\* The clip that a command names is the clip of the list that has the id.
LEMMA NamedIs ==
    ASSUME NEW clips, ClipList(clips), NEW id \in Ids(clips)
    PROVE  /\ \E i \in DOMAIN clips : Named(clips, id) = clips[i] /\ clips[i].id = id
           /\ \A i \in DOMAIN clips : clips[i].id = id => clips[i] = Named(clips, id)
           /\ IsClip(Named(clips, id)) /\ Named(clips, id).id = id
           /\ Free(clips, id) => \A i \in DOMAIN clips : clips[i].id = id => ~clips[i].locked
PROOF
<1>. DEFINE I == {i \in 1 .. Len(clips) : clips[i].id = id}
<1>1. DOMAIN clips = 1 .. Len(clips) /\ Len(clips) \in Nat
  BY ClipListIs, ListedIs
<1>2. I # {} /\ I \in SUBSET Nat
  BY <1>1 DEF Ids
<1>3. Min(I) \in I
  <2>. HIDE DEF I
  <2>. QED BY <1>2, LeastIn
<1>4. Named(clips, id) = clips[Min(I)]
  BY <1>2, Zenon DEF Named, SelectInSeq
<1>5. Min(I) \in DOMAIN clips /\ clips[Min(I)].id = id
  BY <1>1, <1>3
<1>6. \A i \in DOMAIN clips : clips[i].id = id => i = Min(I)
  BY <1>5, ClipListIs, Zenon
<1>7. IsClip(clips[Min(I)])
  BY <1>5, ClipListIs, Zenon
<1>. HIDE DEF I
<1>8. \A i \in DOMAIN clips : clips[i].id = id => clips[i] = Named(clips, id)
  BY <1>4, <1>6, Zenon
<1>9. Free(clips, id) => \A i \in DOMAIN clips : clips[i].id = id => ~clips[i].locked
  BY <1>8, Zenon DEF Free
<1>10. IsClip(Named(clips, id)) /\ Named(clips, id).id = id
  BY <1>4, <1>5, <1>7, Zenon
<1>. QED BY <1>4, <1>5, <1>8, <1>9, <1>10, Zenon

\* The operations on a clip that is not locked
LEMMA ChangedClips ==
    ASSUME NEW clips, ClipList(clips), NEW id, Free(clips, id)
    PROVE  /\ \A t \in Int : Revised(Move(clips, id, t), clips) /\ Revised(TrimStart(clips, id, t), clips)
                             /\ Revised(TrimEnd(clips, id, t), clips) /\ Revised(SetTrack(clips, id, t), clips)
           /\ \A flag, on : Revised(SetFlag(clips, id, flag, on), clips)
           /\ \A fin, fout : Revised(SetFades(clips, id, fin, fout), clips)
           /\ \A gain : Revised(SetGain(clips, id, gain), clips)
           /\ \A target : Revised(NormalizeGain(clips, id, target, LAMBDA file : Peaks[file]), clips)
           /\ \A by : Revised(Slip(clips, id, by), clips)
           /\ \A file : \A dur \in Int : Revised(SetSource(clips, id, file, dur), clips)
           /\ \A scale \in {1, 2} : Revised(Stretch(clips, id, scale), clips)
PROOF
<1>1. \A i \in DOMAIN clips : IsClip(clips[i]) /\ Like(clips[i], clips[i]) /\ (clips[i].id = id => ~clips[i].locked)
  BY ClipListIs, NamedIs, Zenon DEF Free
<1>2. ASSUME NEW t \in Int PROVE Revised(Move(clips, id, t), clips)
  <2>1. \A i \in DOMAIN clips : Like([clips[i] EXCEPT !.start = t], clips[i])
    BY <1>1, LikeEdited
  <2>. QED BY <1>1, <2>1, Zenon DEF Move, Change, Revised
<1>3. \A i \in DOMAIN clips : clips[i].start \in Int /\ clips[i].dur \in Int /\ End(clips[i]) \in Int
  BY <1>1 DEF IsClip, End
<1>4. ASSUME NEW t \in Int PROVE Revised(TrimStart(clips, id, t), clips)
  <2>1. \A i \in DOMAIN clips : Like(Slice(clips[i], t, End(clips[i])), clips[i])
    BY <1>1, <1>3, LikeClamped
  <2>. QED BY <1>1, <2>1, Zenon DEF TrimStart, Change, Revised
<1>5. ASSUME NEW t \in Int PROVE Revised(TrimEnd(clips, id, t), clips)
  <2>1. \A i \in DOMAIN clips : Like(Slice(clips[i], clips[i].start, t), clips[i])
    BY <1>1, <1>3, LikeClamped
  <2>. QED BY <1>1, <2>1, Zenon DEF TrimEnd, Change, Revised
<1>6. ASSUME NEW t \in Int PROVE Revised(SetTrack(clips, id, t), clips)
  <2>1. \A i \in DOMAIN clips : Like([clips[i] EXCEPT !.track = t], clips[i])
    BY <1>1, LikeEdited
  <2>. QED BY <1>1, <2>1, Zenon DEF SetTrack, Change, Revised
<1>7. ASSUME NEW flag, NEW on PROVE Revised(SetFlag(clips, id, flag, on), clips)
  <2>1. \A i \in DOMAIN clips : Like(Flagged(clips[i], flag, on), clips[i])
    BY <1>1, LikeClamped
  <2>. QED BY <1>1, <2>1, Zenon DEF SetFlag, Change, Revised
<1>8. ASSUME NEW fin, NEW fout PROVE Revised(SetFades(clips, id, fin, fout), clips)
  <2>1. \A i \in DOMAIN clips : Like(Clamp([clips[i] EXCEPT !.fin = fin, !.fout = fout]), clips[i])
    BY <1>1, LikeClamped
  <2>. QED BY <1>1, <2>1, Zenon DEF SetFades, Change, Revised
<1>9. \A i \in DOMAIN clips : \A gain : Like(Gained(clips[i], gain), clips[i])
  BY <1>1, LikeClamped, Zenon
<1>10. ASSUME NEW gain PROVE Revised(SetGain(clips, id, gain), clips)
  BY <1>1, <1>9, Zenon DEF SetGain, Change, Revised
<1>11. ASSUME NEW target PROVE Revised(NormalizeGain(clips, id, target, LAMBDA file : Peaks[file]), clips)
  BY <1>1, <1>9, Zenon DEF NormalizeGain, Normalized, Change, Revised
<1>12. ASSUME NEW by PROVE Revised(Slip(clips, id, by), clips)
  <2>1. \A i \in DOMAIN clips : Like([clips[i] EXCEPT !.off = clips[i].off + by], clips[i])
    BY <1>1, LikeEdited, Zenon
  <2>2. \A i \in DOMAIN clips : [clips[i] EXCEPT !.off = @ + by] = [clips[i] EXCEPT !.off = clips[i].off + by]
    OBVIOUS
  <2>. QED BY <1>1, <2>1, <2>2, Zenon DEF Slip, Change, Revised
<1>13. ASSUME NEW file, NEW dur \in Int PROVE Revised(SetSource(clips, id, file, dur), clips)
  <2>. DEFINE Made(c) == [c EXCEPT !.src = <<file, file>>, !.off = 0, !.dur = dur]
  <2>1. ASSUME NEW c, IsClip(c) PROVE Like(Clamp(Made(c)), c)
    <3>. DEFINE d == [c EXCEPT !.src = <<file, file>>]
                e == [d EXCEPT !.off = 0]
                f == [e EXCEPT !.dur = dur]
    <3>1. Made(c) = f
      OBVIOUS
    <3>2. Like(d, c)
      BY <2>1, LikeEdited, Zenon
    <3>. HIDE DEF d
    <3>3. Like(e, d)
      BY <3>2, LikeEdited, Zenon DEF Like
    <3>. HIDE DEF e
    <3>4. Like(f, e)
      BY <3>3, LikeEdited, Zenon DEF Like
    <3>. HIDE DEF f
    <3>5. Like(Clamp(f), f)
      BY <3>4, LikeClamped, Zenon DEF Like
    <3>6. Like(Clamp(f), c)
      BY <3>2, <3>3, <3>4, <3>5, LikeAgain
    <3>. QED BY <3>1, <3>6
  <2>2. \A i \in DOMAIN clips : Like(Clamp([clips[i] EXCEPT !.src = <<file, file>>, !.off = 0, !.dur = dur]), clips[i])
    BY <1>1, <2>1, Zenon
  <2>. QED BY <1>1, <2>2, Zenon DEF SetSource, Change, Revised
<1>14. ASSUME NEW scale \in {1, 2} PROVE Revised(Stretch(clips, id, scale), clips)
  <2>1. ASSUME NEW c, IsClip(c) PROVE Like([c EXCEPT !.dur = (c.dur * scale) \div c.scale, !.scale = scale], c)
    <3>. DEFINE v == (c.dur * scale) \div c.scale
                d == [c EXCEPT !.dur = v]
    <3>1. v \in Int
      <4>1. c.dur \in Int /\ c.scale \in Nat \ {0} /\ c.dur * scale \in Int
        BY <2>1 DEF IsClip
      <4>. QED BY <4>1
    <3>. HIDE DEF v
    <3>2. Like(d, c)
      BY <2>1, <3>1, LikeEdited
    <3>3. [c EXCEPT !.dur = v, !.scale = scale] = [d EXCEPT !.scale = scale]
      OBVIOUS
    <3>. HIDE DEF d
    <3>4. Like([d EXCEPT !.scale = scale], d)
      BY <3>2, LikeEdited DEF Like
    <3>. QED BY <3>2, <3>3, <3>4, LikeAgain DEF v
  <2>2. \A i \in DOMAIN clips : Like([clips[i] EXCEPT !.dur = (@ * scale) \div clips[i].scale, !.scale = scale], clips[i])
    BY <1>1, <2>1, Zenon
  <2>. QED BY <1>1, <2>2, Zenon DEF Stretch, Change, Revised
<1>. QED BY <1>2, <1>4, <1>5, <1>6, <1>7, <1>8, <1>10, <1>11, <1>12, <1>13, <1>14, Zenon

\* Locking and unlocking a clip
LEMMA LockedClips ==
    ASSUME NEW clips, ClipList(clips), NEW id, NEW on
    PROVE  ClipList(SetLocked(clips, id, on))
PROOF
<1>. DEFINE new == SetLocked(clips, id, on)
<1>1. Labelled(clips) /\ \A i \in DOMAIN clips : IsClip(clips[i])
  BY ClipListIs
<1>2. ASSUME NEW c, IsClip(c) PROVE IsClip([c EXCEPT !.locked = on]) /\ [c EXCEPT !.locked = on].id = c.id
  BY <1>2 DEF IsClip
<1>3. /\ new = [i \in DOMAIN clips |-> new[i]]
      /\ \A i \in DOMAIN clips : IsClip(new[i]) /\ new[i].id = clips[i].id
  BY <1>1, <1>2, Zenon DEF SetLocked, Change
<1>. HIDE DEF new
<1>4. Labelled(new) /\ DOMAIN new = DOMAIN clips
  BY <1>1, <1>3, ReplacedLabelled
<1>. QED BY <1>3, <1>4, Zenon DEF ClipList, new

\* A clip that fades
LEMMA LikeFaded ==
    ASSUME NEW c, IsClip(c)
    PROVE  \A fade : Like(Clamp([c EXCEPT !.fin = fade]), c) /\ Like(Clamp([c EXCEPT !.fout = fade]), c)
PROOF
<1>1. ASSUME NEW d, Like(d, c) PROVE Like(Clamp(d), c)
  <2>1. IsClip(d)
    BY <1>1 DEF Like
  <2>. QED BY <1>1, <2>1, LikeClamped, LikeAgain
<1>. QED BY <1>1, LikeEdited, Zenon

\* A crossfade of a clip that is not locked
LEMMA CrossfadedClips ==
    ASSUME NEW clips, ClipList(clips), NEW id, Free(clips, id)
    PROVE  Revised(Crossfade(clips, id), clips)
PROOF
<1>. DEFINE c == Named(clips, id)
            Fade(d) == 2 * (Smaller(End(c), End(d)) - Larger(c.start, d.start))
            hit == {i \in DOMAIN clips : /\ clips[i].id # id /\ clips[i].track = c.track /\ ~clips[i].locked
                                         /\ Fade(clips[i]) > 0}
            before == {i \in hit : c.start >= clips[i].start}
            Longest(S, fade) == Max({fade} \cup {Fade(clips[i]) : i \in S})
            Both(i) == Clamp([clips[i] EXCEPT !.fin = Longest(before, @), !.fout = Longest(hit \ before, @)])
            Out(i) == Clamp([clips[i] EXCEPT !.fout = Longest({i}, @)])
            In(i) == Clamp([clips[i] EXCEPT !.fin = Longest({i}, @)])
            Made(i) == CASE clips[i].id = id /\ hit # {} -> Both(i) [] i \in before -> Out(i)
                         [] i \in hit \ before -> In(i) [] OTHER -> clips[i]
            new == [i \in DOMAIN clips |-> Made(i)]
<1>1. Crossfade(clips, id) = new
  BY Zenon DEF Crossfade
<1>2. \A i \in DOMAIN clips : IsClip(clips[i]) /\ Like(clips[i], clips[i]) /\ (clips[i].id = id => ~clips[i].locked)
  BY ClipListIs, NamedIs, Zenon DEF Free
<1>3. \A i \in hit : ~clips[i].locked
  OBVIOUS
<1>4. \A i \in DOMAIN clips : Like(Both(i), clips[i])
  <2>1. ASSUME NEW i \in DOMAIN clips PROVE Like(Both(i), clips[i])
    <3>. DEFINE fin == Longest(before, clips[i].fin)
                fout == Longest(hit \ before, clips[i].fout)
    <3>1. Both(i) = Clamp([clips[i] EXCEPT !.fin = fin, !.fout = fout])
      BY Zenon
    <3>. HIDE DEF fin, fout
    <3>. QED BY <1>2, <3>1, LikeClamped
  <2>. QED BY <2>1
<1>5. \A i \in DOMAIN clips : Like(Out(i), clips[i]) /\ Like(In(i), clips[i])
  <2>1. ASSUME NEW i \in DOMAIN clips PROVE Like(Out(i), clips[i]) /\ Like(In(i), clips[i])
    <3>. DEFINE fin == Longest({i}, clips[i].fin)
                fout == Longest({i}, clips[i].fout)
    <3>1. Out(i) = Clamp([clips[i] EXCEPT !.fout = fout]) /\ In(i) = Clamp([clips[i] EXCEPT !.fin = fin])
      BY Zenon
    <3>. HIDE DEF fin, fout
    <3>. QED BY <1>2, <3>1, LikeFaded
  <2>. QED BY <2>1
<1>6. before \subseteq hit
  OBVIOUS
<1>. HIDE DEF hit, before, Both, Out, In
<1>7. ASSUME NEW i \in DOMAIN clips PROVE Like(Made(i), clips[i]) /\ (clips[i].locked => Made(i) = clips[i])
  <2>1. \/ clips[i].id = id /\ Made(i) = Both(i)
        \/ i \in hit /\ Made(i) = Out(i)
        \/ i \in hit /\ Made(i) = In(i)
        \/ Made(i) = clips[i]
    BY <1>6
  <2>. QED BY <1>2, <1>3, <1>4, <1>5, <2>1
<1>. HIDE DEF Made
<1>. QED BY <1>1, <1>7, Zenon DEF Revised

\* Clips that are moved to close a gap or to open one
LEMMA LikeShifted ==
    ASSUME NEW clips, ClipList(clips), NEW by \in Int
    PROVE  \A i \in DOMAIN clips : /\ Like(clips[i], clips[i])
                                   /\ Like([clips[i] EXCEPT !.start = Larger(0, @ + by)], clips[i])
PROOF
<1>1. ASSUME NEW i \in DOMAIN clips
      PROVE  Like(clips[i], clips[i]) /\ Like([clips[i] EXCEPT !.start = Larger(0, @ + by)], clips[i])
  <2>. DEFINE v == Larger(0, clips[i].start + by)
  <2>1. IsClip(clips[i]) /\ Like(clips[i], clips[i])
    BY ClipListIs, Zenon
  <2>2. v \in Int
    BY <2>1 DEF IsClip, Larger
  <2>3. [clips[i] EXCEPT !.start = Larger(0, @ + by)] = [clips[i] EXCEPT !.start = v]
    OBVIOUS
  <2>. HIDE DEF v
  <2>. QED BY <2>1, <2>2, <2>3, LikeEdited
<1>. QED BY <1>1

\* The clips of a list changed at their places are as free and as named as they were.
LEMMA RevisedFree ==
    ASSUME NEW old, ClipList(old), NEW new, Revised(new, old), NEW id, Free(old, id)
    PROVE  ClipList(new) /\ Free(new, id)
PROOF
<1>1. /\ ClipList(new) /\ DOMAIN new = DOMAIN old
      /\ \A i \in DOMAIN old : new[i].id = old[i].id /\ new[i].locked = old[i].locked
  BY RevisedSound, Zenon DEF Sound
<1>2. id \in Ids(new)
  BY <1>1 DEF Free, Ids
<1>3. PICK i \in DOMAIN new : Named(new, id) = new[i] /\ new[i].id = id
  BY <1>1, <1>2, NamedIs
<1>4. i \in DOMAIN old /\ old[i].id = id /\ new[i].locked = old[i].locked
  BY <1>1, <1>3
<1>5. ~old[i].locked
  BY <1>4, NamedIs, Zenon DEF Free
<1>. QED BY <1>1, <1>2, <1>3, <1>4, <1>5, Zenon DEF Free

\* A move that closes the gap behind the clip and opens one for it
LEMMA ShuffledClips ==
    ASSUME NEW clips, ClipList(clips), NEW id, Free(clips, id), NEW start \in Int, NEW track \in Int
    PROVE  Revised(ShuffleMove(clips, id, start, track), clips)
PROOF
<1>. DEFINE c == Named(clips, id)
            Same(d) == d.id # id /\ d.track = c.track
            Later == Shift(clips, LAMBDA d : Same(d) /\ d.start >= End(c) /\ d.start <= start, -c.dur)
            Nearer == Shift(clips, LAMBDA d : Same(d) /\ d.start >= start /\ d.start < c.start, c.dur)
            closed == Shift(clips, LAMBDA d : d.id # id /\ d.track = c.track /\ d.start >= End(c), -c.dur)
            opened == Shift(closed, LAMBDA d : d.id # id /\ d.track = track /\ d.start >= start, c.dur)
<1>1. IsClip(c) /\ c.dur \in Int /\ -c.dur \in Int /\ c.start \in Int
  <2>1. IsClip(c)
    BY NamedIs, Zenon DEF Free
  <2>. HIDE DEF c
  <2>. QED BY <2>1 DEF IsClip
<1>. HIDE DEF c
<1>2. Revised(Later, clips)
  BY <1>1, LikeShifted, Zenon DEF Shift, ChangeAll, Revised
<1>3. Revised(Nearer, clips)
  BY <1>1, LikeShifted, Zenon DEF Shift, ChangeAll, Revised
<1>4. Revised(closed, clips)
  BY <1>1, LikeShifted, Zenon DEF Shift, ChangeAll, Revised
<1>. HIDE DEF Later, Nearer, closed
<1>5. ClipList(closed) /\ Free(closed, id)
  BY <1>4, RevisedFree
<1>6. Revised(opened, closed)
  BY <1>1, <1>5, LikeShifted, Zenon DEF Shift, ChangeAll, Revised
<1>. HIDE DEF opened
<1>7. ASSUME NEW cs, Revised(cs, clips), NEW t \in Int
      PROVE  Revised(Change(cs, id, LAMBDA d : [d EXCEPT !.start = t]), clips)
  <2>1. ClipList(cs) /\ Free(cs, id)
    BY <1>7, RevisedFree
  <2>2. Revised(Move(cs, id, t), cs)
    BY <2>1, ChangedClips
  <2>3. Revised(Change(cs, id, LAMBDA d : [d EXCEPT !.start = t]), cs)
    BY <2>2, Zenon DEF Move
  <2>. QED BY <1>7, <2>3, RevisedAgain
<1>8. ASSUME track = c.track PROVE Revised(ShuffleMove(clips, id, start, track), clips)
  <2>1. Larger(c.start, start - c.dur) \in Int
    BY <1>1 DEF Larger
  <2>2. ShuffleMove(clips, id, start, track) =
          IF start > c.start THEN Change(Later, id, LAMBDA d : [d EXCEPT !.start = Larger(c.start, start - c.dur)])
          ELSE Change(Nearer, id, LAMBDA d : [d EXCEPT !.start = start])
    BY <1>8, Zenon DEF ShuffleMove, ShuffleInTrack, Later, Nearer, c
  <2>. QED BY <1>2, <1>3, <1>7, <2>1, <2>2, Zenon
<1>9. ASSUME track # c.track PROVE Revised(ShuffleMove(clips, id, start, track), clips)
  <2>1. ShuffleMove(clips, id, start, track) = Change(opened, id, LAMBDA d : [d EXCEPT !.track = track, !.start = start])
    BY <1>9, Zenon DEF ShuffleMove, ShuffleToTrack, opened, closed, c
  <2>2. Revised(opened, clips)
    BY <1>4, <1>6, RevisedAgain
  <2>3. ClipList(opened) /\ Free(opened, id)
    BY <2>2, RevisedFree
  <2>4. ASSUME NEW d, IsClip(d) PROVE Like([d EXCEPT !.track = track, !.start = start], d)
    <3>. DEFINE e == [d EXCEPT !.track = track]
    <3>1. [d EXCEPT !.track = track, !.start = start] = [e EXCEPT !.start = start]
      OBVIOUS
    <3>2. Like(e, d)
      BY <2>4, LikeEdited
    <3>. HIDE DEF e
    <3>3. Like([e EXCEPT !.start = start], e)
      BY <3>2, LikeEdited DEF Like
    <3>. QED BY <3>1, <3>2, <3>3, LikeAgain
  <2>5. \A i \in DOMAIN opened : /\ IsClip(opened[i]) /\ Like(opened[i], opened[i])
                                 /\ (opened[i].id = id => ~opened[i].locked)
    BY <2>3, ClipListIs, NamedIs, Zenon DEF Free
  <2>6. Revised(Change(opened, id, LAMBDA d : [d EXCEPT !.track = track, !.start = start]), opened)
    BY <2>4, <2>5, Zenon DEF Change, Revised
  <2>. QED BY <2>1, <2>2, <2>6, RevisedAgain
<1>. QED BY <1>8, <1>9

-----------------------------------------------------------------------------
\* New ids and new clips

\* Lists with another item are equal when the lists and the items are.
LEMMA AppendAgree ==
    ASSUME NEW a, Listed(a), NEW b, Listed(b), NEW x, NEW y, Append(a, x) = Append(b, y)
    PROVE  a = b /\ x = y
PROOF
<1>1. /\ Len(a) \in Nat /\ DOMAIN a = 1 .. Len(a) /\ a = [i \in 1 .. Len(a) |-> a[i]]
      /\ Len(b) \in Nat /\ DOMAIN b = 1 .. Len(b) /\ b = [i \in 1 .. Len(b) |-> b[i]]
  BY ListedIs, Zenon DEF Listed
<1>2. /\ Len(Append(a, x)) = Len(a) + 1 /\ Append(a, x)[Len(a) + 1] = x
      /\ \A i \in DOMAIN a : Append(a, x)[i] = a[i]
  BY AppendListed
<1>3. /\ Len(Append(b, y)) = Len(b) + 1 /\ Append(b, y)[Len(b) + 1] = y
      /\ \A i \in DOMAIN b : Append(b, y)[i] = b[i]
  BY AppendListed
<1>. DEFINE c == Append(a, x)
<1>4. c = Append(b, y)
  OBVIOUS
<1>. HIDE DEF c
<1>5. Len(a) + 1 = Len(b) + 1
  BY <1>2, <1>3, <1>4, Zenon DEF c
<1>6. Len(a) = Len(b)
  <2>1. ASSUME NEW m \in Nat, NEW n \in Nat, m + 1 = n + 1 PROVE m = n
    BY <2>1
  <2>. QED BY <1>1, <1>5, <2>1, Zenon
<1>7. x = y
  BY <1>2, <1>3, <1>4, <1>6, Zenon DEF c
<1>8. \A i \in 1 .. Len(a) : a[i] = b[i]
  BY <1>1, <1>2, <1>3, <1>4, <1>6, Zenon DEF c
<1>9. a = b
  BY <1>1, <1>6, <1>8, Zenon
<1>. QED BY <1>7, <1>9

\* The id a copy or a part gets is new, and tells what it is a copy or a part of.
LEMMA FreshIdIs ==
    ASSUME NEW clips, Listed(clips), NEW base, Listed(base), NEW word
    PROVE  /\ Listed(FreshId(clips, base, word)) /\ \A i \in DOMAIN clips : clips[i].id # FreshId(clips, base, word)
           /\ \A other : Listed(other) /\ FreshId(clips, other, word) = FreshId(clips, base, word) => other = base
PROOF
<1>. DEFINE len == Len(clips)
            Made(n) == Append(base, <<word, n>>)
            unused == {n \in 1 .. len + 1 : Made(n) \notin Ids(clips)}
<1>1. len \in Nat /\ DOMAIN clips = 1 .. len
  BY ListedIs
<1>. HIDE DEF len
<1>2. \A m, n : Made(m) = Made(n) => m = n
  <2>1. ASSUME NEW m, NEW n, Made(m) = Made(n) PROVE m = n
    <3>1. <<word, m>> = <<word, n>>
      BY <2>1, AppendAgree
    <3>. QED BY <3>1
  <2>. QED BY <2>1
<1>3. unused # {}
  <2>1. SUFFICES ASSUME \A n \in 1 .. len + 1 : \E i \in 1 .. len : clips[i].id = Made(n) PROVE FALSE
    BY <1>1, Zenon DEF Ids
  <2>. DEFINE S == 1 .. len + 1
              T == 1 .. len
              f == [n \in S |-> CHOOSE i \in T : clips[i].id = Made(n)]
  <2>2. \A n \in S : \E i \in T : clips[i].id = Made(n)
    BY <2>1, Zenon
  <2>3. IsFiniteSet(S) /\ IsFiniteSet(T) /\ Cardinality(T) < Cardinality(S)
    <3>1. /\ IsFiniteSet(1 .. len + 1) /\ Cardinality(1 .. len + 1) = len + 1
          /\ IsFiniteSet(1 .. len) /\ Cardinality(1 .. len) = len
      BY <1>1, FS_Interval
    <3>. QED BY <1>1, <3>1
  <2>. HIDE DEF S, T, Made
  <2>4. \A n \in S : f[n] \in T /\ clips[f[n]].id = Made(n)
    BY <2>2, Zenon
  <2>5. f \in [S -> T]
    BY <2>4, Zenon
  <2>. HIDE DEF f
  <2>6. \E m, n \in S : m # n /\ f[m] = f[n]
    BY <2>3, <2>5, FS_PigeonHole
  <2>7. PICK m \in S, n \in S : m # n /\ f[m] = f[n]
    BY <2>6
  <2>8. Made(m) = clips[f[m]].id /\ Made(n) = clips[f[n]].id
    BY <2>4
  <2>9. Made(m) = Made(n)
    BY <2>7, <2>8
  <2>. QED BY <1>2, <2>7, <2>9
<1>4. unused \in SUBSET Nat
  BY <1>1
<1>5. Min(unused) \in unused
  <2>. HIDE DEF unused
  <2>. QED BY <1>3, <1>4, LeastIn
<1>6. FreshId(clips, base, word) = Made(Min(unused))
  BY Zenon DEF FreshId, len
<1>7. Made(Min(unused)) \notin Ids(clips)
  BY <1>5
<1>8. Listed(Made(Min(unused)))
  BY AppendListed
<1>9. \A i \in DOMAIN clips : clips[i].id # Made(Min(unused))
  BY <1>7, Zenon DEF Ids
<1>10. ASSUME NEW other, Listed(other), FreshId(clips, other, word) = FreshId(clips, base, word) PROVE other = base
  <2>1. \E n : FreshId(clips, other, word) = Append(other, <<word, n>>)
    BY Zenon DEF FreshId
  <2>2. PICK n : FreshId(clips, other, word) = Append(other, <<word, n>>)
    BY <2>1
  <2>. DEFINE m == Min(unused)
  <2>3. Append(other, <<word, n>>) = Append(base, <<word, m>>)
    BY <1>6, <1>10, <2>2, Zenon
  <2>. HIDE DEF m
  <2>. QED BY <1>10, <2>3, AppendAgree
<1>. QED BY <1>6, <1>8, <1>9, <1>10, Zenon

\* A clip under another name is a clip.
LEMMA RenamedClip ==
    ASSUME NEW c, IsClip(c), NEW id, Listed(id)
    PROVE  IsClip([c EXCEPT !.id = id]) /\ [c EXCEPT !.id = id].id = id
PROOF
<1>. DEFINE d == [c EXCEPT !.id = id]
<1>1. /\ {"id", "track", "start", "dur", "locked", "scale"} \subseteq DOMAIN c
      /\ c.track \in Int /\ c.start \in Int /\ c.dur \in Int /\ c.scale \in Nat \ {0}
  BY DEF IsClip
<1>2. /\ DOMAIN d = DOMAIN c /\ d.id = id /\ d.track = c.track /\ d.start = c.start /\ d.dur = c.dur /\ d.scale = c.scale
  BY <1>1, Zenon
<1>. HIDE DEF d
<1>3. IsClip(d)
  BY <1>1, <1>2, Zenon DEF IsClip
<1>. QED BY <1>2, <1>3, Zenon DEF d

Called(c, id) == IsClip(c) /\ c.id = id

\* A copy: a clip under a new name at another place
LEMMA CopiedClip ==
    ASSUME NEW c, IsClip(c), NEW id, Listed(id), NEW start \in Int
    PROVE  /\ Called([c EXCEPT !.id = id, !.start = start], id) /\ Called(Clamp([c EXCEPT !.id = id, !.start = start]), id)
           /\ \A track \in Int : Called(Clamp([c EXCEPT !.id = id, !.track = track, !.start = start]), id)
PROOF
<1>. DEFINE d == [c EXCEPT !.id = id]
<1>1. Called(d, id)
  BY RenamedClip DEF Called
<1>2. [c EXCEPT !.id = id, !.start = start] = [d EXCEPT !.start = start]
  OBVIOUS
<1>3. \A track : [c EXCEPT !.id = id, !.track = track, !.start = start] = [[d EXCEPT !.track = track] EXCEPT !.start = start]
  OBVIOUS
<1>. HIDE DEF d
<1>4. ASSUME NEW x, Called(x, id) PROVE Called([x EXCEPT !.start = start], id) /\ Called(Clamp([x EXCEPT !.start = start]), id)
  <2>. DEFINE y == [x EXCEPT !.start = start]
  <2>1. Like(y, x)
    BY <1>4, LikeEdited DEF Called
  <2>. HIDE DEF y
  <2>2. Called(y, id)
    BY <1>4, <2>1 DEF Called, Like
  <2>3. Like(Clamp(y), y)
    BY <2>2, LikeClamped DEF Called
  <2>4. Called(Clamp(y), id)
    BY <2>2, <2>3 DEF Called, Like
  <2>. QED BY <2>2, <2>4 DEF y
<1>5. \A track \in Int : Called([d EXCEPT !.track = track], id)
  <2>1. \A track \in Int : Like([d EXCEPT !.track = track], d)
    BY <1>1, LikeEdited DEF Called
  <2>. QED BY <1>1, <2>1, Zenon DEF Called, Like
<1>. QED BY <1>1, <1>2, <1>3, <1>4, <1>5, Zenon

\* A list with one more clip
LEMMA AppendedSound ==
    ASSUME NEW clips, ClipList(clips), NEW c, IsClip(c), \A i \in DOMAIN clips : clips[i].id # c.id
    PROVE  Sound(Append(clips, c), clips)
PROOF
<1>. DEFINE a == Append(clips, c)
            n == Len(clips)
<1>1. Labelled(clips) /\ Listed(clips) /\ n \in Nat /\ DOMAIN clips = 1 .. n /\ \A i \in DOMAIN clips : IsClip(clips[i])
  BY ClipListIs, ListedIs
<1>2. Labelled(a)
  BY <1>1, AppendLabelled
<1>3. DOMAIN a = 1 .. n + 1 /\ a[n + 1] = c /\ \A i \in DOMAIN clips : a[i] = clips[i]
  BY <1>1, AppendListed
<1>. HIDE DEF a, n
<1>4. \A i \in 1 .. n + 1 : i \in DOMAIN clips \/ i = n + 1
  BY <1>1
<1>5. \A i \in DOMAIN a : IsClip(a[i])
  BY <1>1, <1>3, <1>4, Zenon
<1>6. \A i \in DOMAIN clips : i \in DOMAIN a
  BY <1>1, <1>3
<1>. QED BY <1>2, <1>3, <1>5, <1>6, Zenon DEF Sound, ClipList, LockedStay, a

\* The id of a part or of a copy is new.
LEMMA NewIds ==
    ASSUME NEW clips, ClipList(clips), NEW id, Listed(id)
    PROVE  /\ Listed(SplitId(clips, id)) /\ \A i \in DOMAIN clips : clips[i].id # SplitId(clips, id)
           /\ Listed(CopyId(clips, id)) /\ \A i \in DOMAIN clips : clips[i].id # CopyId(clips, id)
PROOF
<1>1. Listed(clips)
  BY ClipListIs
<1>. QED BY <1>1, FreshIdIs DEF SplitId, CopyId

\* Splitting a clip
LEMMA SplitSound ==
    ASSUME NEW clips, ClipList(clips), NEW id, NEW at \in Int
    PROVE  /\ CanSplit(clips, id, at) => Sound(Split(clips, id, at), clips)
           /\ Sound(SplitAt(clips, id, at), clips)
PROOF
<1>1. ASSUME CanSplit(clips, id, at) PROVE Sound(Split(clips, id, at), clips)
  <2>. DEFINE c == Named(clips, id)
              new == SplitId(clips, id)
              left == TrimEnd(clips, id, at)
              right == [Slice(c, at, End(c)) EXCEPT !.id = new]
  <2>1. Free(clips, id) /\ id \in Ids(clips)
    BY <1>1, Zenon DEF CanSplit, Free
  <2>2. IsClip(c) /\ Listed(id)
    <3>1. IsClip(c) /\ c.id = id
      BY <2>1, NamedIs
    <3>. HIDE DEF c
    <3>. QED BY <3>1, Zenon DEF IsClip
  <2>3. Revised(left, clips)
    BY <2>1, ChangedClips
  <2>4. ClipList(left) /\ Sound(left, clips) /\ DOMAIN left = DOMAIN clips /\ \A i \in DOMAIN clips : left[i].id = clips[i].id
    BY <2>3, RevisedSound, Zenon DEF Sound
  <2>5. Listed(new) /\ \A i \in DOMAIN clips : clips[i].id # new
    BY <2>2, NewIds
  <2>6. End(c) \in Int
    BY <2>2 DEF End, IsClip
  <2>7. IsClip(Slice(c, at, End(c)))
    BY <2>2, <2>6, LikeClamped DEF Like
  <2>8. IsClip(right) /\ right.id = new
    BY <2>5, <2>7, RenamedClip
  <2>9. Split(clips, id, at) = Append(left, right)
    BY Zenon DEF Split, TrimEnd
  <2>. HIDE DEF left, right, new
  <2>10. Sound(Append(left, right), left)
    <3>1. \A i \in DOMAIN left : left[i].id # right.id
      BY <2>4, <2>5, <2>8
    <3>. QED BY <2>4, <2>8, <3>1, AppendedSound
  <2>. QED BY <2>4, <2>9, <2>10, SoundAgain
<1>. QED BY <1>1, SoundItself, Zenon DEF SplitAt

\* Copies of a clip
LEMMA PlacedSound ==
    ASSUME NEW clips, ClipList(clips), NEW c, IsClip(c), NEW track \in Int, NEW start \in Int
    PROVE  /\ Sound(Placed(clips, c, track, start), clips) /\ Sound(Paste(clips, c, start), clips)
PROOF
<1>1. Listed(c.id) /\ c.track \in Int
  BY DEF IsClip
<1>2. ASSUME NEW t \in Int PROVE Sound(Placed(clips, c, t, start), clips)
  <2>. DEFINE id == CopyId(clips, c.id)
              d == Clamp([c EXCEPT !.id = id, !.track = t, !.start = start])
  <2>1. Listed(id) /\ \A i \in DOMAIN clips : clips[i].id # id
    BY <1>1, NewIds
  <2>2. Placed(clips, c, t, start) = Append(clips, d)
    BY DEF Placed
  <2>. HIDE DEF id
  <2>3. Called(d, id)
    BY <2>1, CopiedClip, Zenon
  <2>. HIDE DEF d
  <2>4. Sound(Append(clips, d), clips)
    BY <2>1, <2>3, AppendedSound DEF Called
  <2>. QED BY <2>2, <2>4
<1>. QED BY <1>1, <1>2 DEF Paste

\* A copy at another place, on another track, or put between the others
LEMMA DuplicateSound ==
    ASSUME NEW clips, ClipList(clips), NEW id \in Ids(clips), NEW start \in Int, NEW track \in Int
    PROVE  /\ Sound(Duplicate(clips, id, start), clips)
           /\ Sound(DuplicateToTrack(clips, id, start, track), clips)
           /\ Sound(ShuffleDuplicate(clips, id, start, track), clips)
PROOF
<1>. DEFINE c == Named(clips, id)
<1>1. IsClip(c) /\ Listed(id) /\ c.id = id
  BY NamedIs DEF IsClip
<1>2. Sound(Duplicate(clips, id, start), clips)
  <2>. DEFINE new == CopyId(clips, id)
              d == [c EXCEPT !.id = new, !.start = start]
  <2>1. Listed(new) /\ \A i \in DOMAIN clips : clips[i].id # new
    BY <1>1, NewIds
  <2>2. Duplicate(clips, id, start) = Append(clips, d)
    BY DEF Duplicate
  <2>. HIDE DEF new, c
  <2>3. Called(d, new)
    BY <1>1, <2>1, CopiedClip, Zenon
  <2>. HIDE DEF d
  <2>4. Sound(Append(clips, d), clips)
    BY <2>1, <2>3, AppendedSound DEF Called
  <2>. QED BY <2>2, <2>4
<1>3. Sound(DuplicateToTrack(clips, id, start, track), clips)
  BY <1>1, PlacedSound DEF DuplicateToTrack
<1>4. Sound(ShuffleDuplicate(clips, id, start, track), clips)
  <2>. DEFINE opened == Shift(clips, LAMBDA d : d.track = track /\ d.start >= start, c.dur)
  <2>1. c.dur \in Int
    BY <1>1 DEF IsClip
  <2>2. ShuffleDuplicate(clips, id, start, track) = Placed(opened, Named(opened, id), track, start)
    BY Zenon DEF ShuffleDuplicate
  <2>. HIDE DEF c
  <2>3. Revised(opened, clips)
    BY <2>1, LikeShifted, Zenon DEF Shift, ChangeAll, Revised
  <2>. HIDE DEF opened
  <2>4. Sound(opened, clips) /\ ClipList(opened) /\ DOMAIN opened = DOMAIN clips /\ \A i \in DOMAIN clips : opened[i].id = clips[i].id
    BY <2>3, RevisedSound, Zenon DEF Sound
  <2>5. id \in Ids(opened)
    BY <2>4 DEF Ids
  <2>6. IsClip(Named(opened, id))
    BY <2>4, <2>5, NamedIs
  <2>7. Sound(Placed(opened, Named(opened, id), track, start), opened)
    BY <2>4, <2>6, PlacedSound
  <2>. QED BY <2>2, <2>4, <2>7, SoundAgain
<1>. QED BY <1>2, <1>3, <1>4

\* Two lists of clips without a common id
LEMMA JoinedSound ==
    ASSUME NEW a, ClipList(a), NEW b, ClipList(b), \A i \in DOMAIN a, k \in DOMAIN b : a[i].id # b[k].id
    PROVE  Sound(a \o b, a)
PROOF
<1>. DEFINE j == a \o b
<1>1. /\ Labelled(a) /\ Listed(a) /\ Labelled(b) /\ Listed(b)
      /\ \A i \in DOMAIN a : IsClip(a[i])
      /\ \A i \in DOMAIN b : IsClip(b[i])
  BY ClipListIs
<1>2. /\ DOMAIN a = 1 .. Len(a) /\ Len(a) \in Nat /\ Len(b) \in Nat
  BY <1>1, ListedIs
<1>3. Labelled(j)
  BY <1>1, JoinLabelled
<1>4. /\ Listed(j) /\ DOMAIN j = 1 .. Len(a) + Len(b)
      /\ \A i \in DOMAIN a : j[i] = a[i]
      /\ \A i \in 1 .. Len(a) + Len(b) : i > Len(a) => i - Len(a) \in DOMAIN b /\ j[i] = b[i - Len(a)]
  <2>1. Labelled(a) /\ Labelled(b)
    BY <1>1
  <2>. QED BY <2>1, JoinListed, Zenon DEF Labelled
<1>. HIDE DEF j
<1>5. \A i \in DOMAIN j : i \in DOMAIN a \/ i > Len(a)
  BY <1>2, <1>4
<1>6. \A i \in DOMAIN j : IsClip(j[i])
  BY <1>1, <1>4, <1>5, Zenon
<1>7. \A i \in DOMAIN a : i \in DOMAIN j
  BY <1>2, <1>4
<1>. QED BY <1>3, <1>4, <1>6, <1>7, Zenon DEF Sound, ClipList, LockedStay, j

\* Pasting clips that have ids of their own
LEMMA PasteSound ==
    ASSUME NEW clips, ClipList(clips), NEW copied, ClipList(copied), NEW start \in Int
    PROVE  Sound(PasteRange(clips, copied, start), clips)
PROOF
<1>. DEFINE Id(i) == CopyId(clips, copied[i].id)
            Made(i) == Clamp([copied[i] EXCEPT !.id = PasteIds(clips, copied)[i], !.start = start + Larger(0, @)])
            made == [i \in DOMAIN copied |-> Made(i)]
<1>1. Listed(clips) /\ Labelled(copied) /\ Listed(copied) /\ \A i \in DOMAIN copied : IsClip(copied[i]) /\ Listed(copied[i].id)
  <2>1. Listed(clips) /\ Labelled(copied) /\ Listed(copied) /\ \A i \in DOMAIN copied : IsClip(copied[i])
    BY ClipListIs
  <2>. QED BY <2>1, Zenon DEF IsClip
<1>2. ASSUME NEW i \in DOMAIN copied PROVE Called(Made(i), Id(i)) /\ \A k \in DOMAIN clips : clips[k].id # Id(i)
  <2>. DEFINE at == start + Larger(0, copied[i].start)
              id == Id(i)
  <2>1. at \in Int
    BY <1>1 DEF IsClip, Larger
  <2>2. PasteIds(clips, copied)[i] = id
    BY Zenon DEF PasteIds
  <2>3. Made(i) = Clamp([copied[i] EXCEPT !.id = id, !.start = at])
    BY <2>2
  <2>4. Listed(id) /\ \A k \in DOMAIN clips : clips[k].id # id
    BY <1>1, NewIds
  <2>. HIDE DEF at, id
  <2>5. Called(Clamp([copied[i] EXCEPT !.id = id, !.start = at]), id)
    BY <1>1, <2>1, <2>4, CopiedClip
  <2>. QED BY <2>3, <2>4, <2>5, Zenon DEF id
<1>3. ASSUME NEW i \in DOMAIN copied, NEW k \in DOMAIN copied, Id(i) = Id(k) PROVE i = k
  <2>1. copied[i].id = copied[k].id
    BY <1>1, <1>3, FreshIdIs, Zenon DEF CopyId
  <2>. QED BY <1>1, <2>1, Zenon DEF Labelled
<1>4. PasteRange(clips, copied, start) = clips \o made
  BY Zenon DEF PasteRange
<1>. HIDE DEF Id, Made
<1>5. ClipList(made)
  <2>1. made = [i \in DOMAIN copied |-> made[i]] /\ \A i \in DOMAIN copied : made[i] = Made(i)
    OBVIOUS
  <2>. HIDE DEF made
  <2>2. Listed(made) /\ DOMAIN made = DOMAIN copied
    BY <1>1, <2>1, ReplacedListed
  <2>3. \A i \in DOMAIN made : IsClip(made[i]) /\ made[i].id = Id(i)
    BY <1>2, <2>1, <2>2, Zenon DEF Called
  <2>4. \A i, k \in DOMAIN made : made[i].id = made[k].id => i = k
    BY <1>3, <2>2, <2>3, Zenon
  <2>. QED BY <2>2, <2>3, <2>4, Zenon DEF ClipList, Labelled
<1>6. \A i \in DOMAIN clips, k \in DOMAIN made : clips[i].id # made[k].id
  BY <1>2, Zenon DEF Called
<1>. HIDE DEF made
<1>. QED BY <1>4, <1>5, <1>6, JoinedSound

-----------------------------------------------------------------------------
\* Lists from which clips are taken

\* The clips at some of the places of a list
LEMMA PickedClips ==
    ASSUME NEW clips, ClipList(clips), NEW S, S \subseteq DOMAIN clips
    PROVE  /\ ClipList(Picked(clips, Ascending(S)))
           /\ \A n \in DOMAIN Picked(clips, Ascending(S)) : \E i \in S : Picked(clips, Ascending(S))[n] = clips[i]
           /\ \A i \in S : \E n \in DOMAIN Picked(clips, Ascending(S)) : Picked(clips, Ascending(S))[n] = clips[i]
           /\ (\A i \in DOMAIN clips : clips[i].locked => i \in S) => Sound(Picked(clips, Ascending(S)), clips)
PROOF
<1>. DEFINE f == Ascending(S)
            p == Picked(clips, f)
<1>1. /\ Listed(clips) /\ \A i \in DOMAIN clips : IsClip(clips[i])
      /\ \A i, k \in DOMAIN clips : clips[i].id = clips[k].id => i = k
  BY ClipListIs
<1>2. DOMAIN clips = 1 .. Len(clips) /\ Len(clips) \in Nat
  BY <1>1, ListedIs
<1>3. Enumerates(f, S)
  BY <1>2, AscendingPlaces
<1>. HIDE DEF f
<1>4. \A i, k \in S : clips[i].id = clips[k].id => i = k
  BY <1>1, Zenon
<1>5. /\ Labelled(p)
      /\ \A n \in DOMAIN p : \E i \in S : p[n] = clips[i]
      /\ \A i \in S : \E n \in DOMAIN p : p[n] = clips[i]
  BY <1>3, <1>4, PickLabelled
<1>. HIDE DEF p
<1>6. \A n \in DOMAIN p : IsClip(p[n])
  BY <1>1, <1>5
<1>7. ClipList(p)
  BY <1>5, <1>6, Zenon DEF ClipList
<1>8. (\A i \in DOMAIN clips : clips[i].locked => i \in S) => Sound(p, clips)
  BY <1>5, <1>7, Zenon DEF Sound, LockedStay
<1>. QED BY <1>5, <1>7, <1>8, Zenon DEF p, f

\* A list without the clip that has an id
LEMMA WithoutIs ==
    ASSUME NEW clips, ClipList(clips), NEW id
    PROVE  /\ ClipList(Without(clips, id))
           /\ \A i \in DOMAIN clips : clips[i].id # id => \E k \in DOMAIN Without(clips, id) : Without(clips, id)[k] = clips[i]
PROOF
<1>. DEFINE S == {i \in DOMAIN clips : clips[i].id # id}
<1>1. S \subseteq DOMAIN clips /\ \A i \in DOMAIN clips : clips[i].id # id => i \in S
  OBVIOUS
<1>2. Without(clips, id) = Picked(clips, Ascending(S))
  BY Zenon DEF Without
<1>. HIDE DEF S
<1>3. /\ ClipList(Picked(clips, Ascending(S)))
      /\ \A i \in S : \E n \in DOMAIN Picked(clips, Ascending(S)) : Picked(clips, Ascending(S))[n] = clips[i]
  BY <1>1, PickedClips
<1>. QED BY <1>1, <1>2, <1>3, Zenon

\* What becomes of the clips when a clip that is not locked is taken from what was made of them
LEMMA WithoutSound ==
    ASSUME NEW clips, ClipList(clips), NEW id, Free(clips, id), NEW made, Sound(made, clips)
    PROVE  Sound(Without(made, id), clips)
PROOF
<1>1. \A i \in DOMAIN clips : clips[i].locked => clips[i].id # id
  BY NamedIs, Zenon DEF Free
<1>2. ClipList(made) /\ \A i \in DOMAIN clips : clips[i].locked => \E k \in DOMAIN made : made[k] = clips[i]
  BY Zenon DEF Sound, LockedStay
<1>3. /\ ClipList(Without(made, id))
      /\ \A i \in DOMAIN made : made[i].id # id => \E k \in DOMAIN Without(made, id) : Without(made, id)[k] = made[i]
  BY <1>2, WithoutIs
<1>4. ASSUME NEW i \in DOMAIN clips, clips[i].locked PROVE \E k \in DOMAIN Without(made, id) : Without(made, id)[k] = clips[i]
  <2>1. PICK k \in DOMAIN made : made[k] = clips[i]
    BY <1>2, <1>4
  <2>2. made[k].id # id
    BY <1>1, <1>4, <2>1
  <2>. QED BY <1>3, <2>1, <2>2
<1>. QED BY <1>3, <1>4 DEF Sound, LockedStay

\* Two clips glued
LEMMA GluedSound ==
    ASSUME NEW clips, ClipList(clips), NEW l, NEW r, \E i \in DOMAIN clips : l = clips[i], \E i \in DOMAIN clips : r = clips[i],
           CanGlue(l, r)
    PROVE  Sound(Glued(clips, l, r), clips)
PROOF
<1>1. PICK i \in DOMAIN clips, k \in DOMAIN clips : l = clips[i] /\ r = clips[k]
  OBVIOUS
<1>2. IsClip(l) /\ IsClip(r) /\ ~l.locked /\ ~r.locked
  BY <1>1, ClipListIs, Zenon DEF CanGlue
<1>3. Free(clips, l.id) /\ Free(clips, r.id)
  <2>1. ASSUME NEW n \in DOMAIN clips, ~clips[n].locked PROVE Free(clips, clips[n].id)
    <3>1. clips[n].id \in Ids(clips)
      BY DEF Ids
    <3>2. clips[n] = Named(clips, clips[n].id)
      BY <3>1, NamedIs
    <3>. QED BY <2>1, <3>1, <3>2 DEF Free
  <2>. QED BY <1>1, <1>2, <2>1
<1>. DEFINE wide == [l EXCEPT !.dur = Larger(0, End(r) - l.start)]
            g == GlueLeft(l, r)
<1>4. g.id = l.id /\ IsClip(g) /\ g.locked = l.locked
  <2>1. Larger(0, End(r) - l.start) \in Int
    BY <1>2 DEF IsClip, End, Larger
  <2>2. Like(wide, l)
    BY <1>2, <2>1, LikeEdited
  <2>3. g = Clamp([wide EXCEPT !.fout = r.fout])
    BY DEF GlueLeft
  <2>. HIDE DEF wide, g
  <2>4. IsClip(wide)
    BY <2>2 DEF Like
  <2>5. Like(Clamp([wide EXCEPT !.fout = r.fout]), wide)
    BY <2>4, LikeFaded
  <2>. QED BY <2>2, <2>3, <2>5 DEF Like
<1>. HIDE DEF g
<1>. DEFINE made == Change(clips, l.id, LAMBDA c : g)
<1>5. \A n \in DOMAIN clips : /\ Like(clips[n], clips[n])
                              /\ clips[n].id = l.id => Like(g, clips[n]) /\ ~clips[n].locked
  <2>1. \A n \in DOMAIN clips : Like(clips[n], clips[n])
    BY ClipListIs
  <2>2. ASSUME NEW n \in DOMAIN clips, clips[n].id = l.id PROVE Like(g, clips[n]) /\ ~clips[n].locked
    <3>1. clips[n] = l
      BY <1>1, <2>2, ClipListIs
    <3>. QED BY <1>2, <1>4, <3>1 DEF Like
  <2>. QED BY <2>1, <2>2
<1>6. Revised(made, clips)
  BY <1>5, Zenon DEF Change, Revised
<1>7. Glued(clips, l, r) = Without(made, r.id)
  BY Zenon DEF Glued, g
<1>. HIDE DEF made
<1>8. Sound(made, clips)
  BY <1>6, RevisedSound
<1>. QED BY <1>3, <1>7, <1>8, WithoutSound

\* A clip glued to one that continues it, or that it continues
LEMMA GlueSound ==
    ASSUME NEW clips, ClipList(clips), NEW id
    PROVE  /\ CanGlueAdjacent(clips, id) => Sound(GlueAdjacent(clips, id), clips)
           /\ \A other : CanGlueSelected(clips, id, other) => Sound(GlueSelected(clips, id, other), clips)
PROOF
<1>0. ASSUME NEW x, Free(clips, x) PROVE \E i \in DOMAIN clips : Named(clips, x) = clips[i]
  <2>1. x \in Ids(clips)
    BY <1>0, Zenon DEF Free
  <2>. QED BY <2>1, NamedIs
<1>1. ASSUME CanGlueAdjacent(clips, id) PROVE Sound(GlueAdjacent(clips, id), clips)
  <2>. DEFINE S == GluePartners(clips, id)
              c == Named(clips, id)
              other == clips[Min(S)]
  <2>1. Free(clips, id) /\ S # {}
    BY <1>1, Zenon DEF CanGlueAdjacent
  <2>2. DOMAIN clips = 1 .. Len(clips) /\ Len(clips) \in Nat
    BY ClipListIs, ListedIs
  <2>3. S \subseteq DOMAIN clips /\ \A i \in S : CanGlue(c, clips[i]) \/ CanGlue(clips[i], c)
    BY Zenon DEF GluePartners
  <2>. HIDE DEF S, c
  <2>4. S \in SUBSET Nat
    BY <2>2, <2>3
  <2>5. Min(S) \in S
    BY <2>1, <2>4, LeastIn
  <2>6. Min(S) \in DOMAIN clips /\ (CanGlue(c, other) \/ CanGlue(other, c))
    BY <2>3, <2>5
  <2>7. \E i \in DOMAIN clips : c = clips[i]
    BY <1>0, <2>1 DEF c
  <2>8. GlueAdjacent(clips, id) = IF CanGlue(c, other) THEN Glued(clips, c, other) ELSE Glued(clips, other, c)
    BY Zenon DEF GlueAdjacent, S, c
  <2>9. \E i \in DOMAIN clips : other = clips[i]
    BY <2>6
  <2>. HIDE DEF other
  <2>10. CASE CanGlue(c, other)
    BY <2>7, <2>8, <2>9, <2>10, GluedSound
  <2>11. CASE ~CanGlue(c, other)
    <3>1. CanGlue(other, c) /\ GlueAdjacent(clips, id) = Glued(clips, other, c)
      BY <2>6, <2>8, <2>11
    <3>. QED BY <2>7, <2>9, <3>1, GluedSound
  <2>. QED BY <2>10, <2>11
<1>2. ASSUME NEW b, CanGlueSelected(clips, id, b) PROVE Sound(GlueSelected(clips, id, b), clips)
  <2>. DEFINE c == Named(clips, id)
              other == Named(clips, b)
  <2>1. (\E i \in DOMAIN clips : c = clips[i]) /\ (\E i \in DOMAIN clips : other = clips[i])
    BY <1>0, <1>2, Zenon DEF CanGlueSelected
  <2>2. GlueSelected(clips, id, b) = IF CanGlue(c, other) THEN Glued(clips, c, other) ELSE Glued(clips, other, c)
    BY Zenon DEF GlueSelected
  <2>3. CanGlue(c, other) \/ CanGlue(other, c)
    BY <1>2, Zenon DEF CanGlueSelected
  <2>. HIDE DEF c, other
  <2>4. CASE CanGlue(c, other)
    BY <2>1, <2>2, <2>4, GluedSound
  <2>5. CASE ~CanGlue(c, other)
    <3>1. CanGlue(other, c) /\ GlueSelected(clips, id, b) = Glued(clips, other, c)
      BY <2>2, <2>3, <2>5
    <3>. QED BY <2>1, <3>1, GluedSound
  <2>. QED BY <2>4, <2>5
<1>. QED BY <1>1, <1>2

\* Trimming all clips to a range
LEMMA TrimmedSound ==
    ASSUME NEW clips, ClipList(clips), NEW lo \in Int, NEW hi \in Int
    PROVE  Sound(TrimToRange(clips, lo, hi), clips)
PROOF
<1>. DEFINE S == {i \in DOMAIN clips : clips[i].locked \/ Overlaps(clips[i], lo, hi)}
            kept == Picked(clips, Ascending(S))
            new == ChangeAll(kept, LAMBDA c : ~c.locked, LAMBDA c : Slice(c, Larger(lo, c.start), Smaller(hi, End(c))))
<1>1. S \subseteq DOMAIN clips /\ \A i \in DOMAIN clips : clips[i].locked => i \in S
  OBVIOUS
<1>2. TrimToRange(clips, lo, hi) = new
  BY Zenon DEF TrimToRange
<1>. HIDE DEF S
<1>3. Sound(kept, clips)
  BY <1>1, PickedClips
<1>. HIDE DEF kept
<1>4. ClipList(kept)
  BY <1>3 DEF Sound
<1>5. ASSUME NEW i \in DOMAIN kept
      PROVE  Like(kept[i], kept[i]) /\ Like(Slice(kept[i], Larger(lo, kept[i].start), Smaller(hi, End(kept[i]))), kept[i])
  <2>. DEFINE c == kept[i]
  <2>1. Like(c, c) /\ IsClip(c)
    BY <1>4, ClipListIs
  <2>. HIDE DEF c
  <2>2. Larger(lo, c.start) \in Int /\ Smaller(hi, End(c)) \in Int
    BY <2>1 DEF IsClip, Larger, Smaller, End
  <2>3. Like(Slice(c, Larger(lo, c.start), Smaller(hi, End(c))), c)
    BY <2>1, <2>2, LikeClamped
  <2>. QED BY <2>1, <2>3 DEF c
<1>6. Revised(new, kept)
  BY <1>5, Zenon DEF ChangeAll, Revised
<1>7. Sound(new, kept)
  BY <1>4, <1>6, RevisedSound
<1>. QED BY <1>2, <1>3, <1>7, SoundAgain

\* Quantizing the clips of a range
LEMMA QuantizedSound ==
    ASSUME NEW clips, ClipList(clips), NEW lo, NEW hi
    PROVE  Sound(QuantizeRange(clips, lo, hi, 2), clips)
PROOF
<1>. DEFINE P(c) == ~c.locked /\ c.start >= lo /\ c.start < hi
            F(c) == [c EXCEPT !.start = 2 * ((2 * @ + 2) \div (2 * 2))]
            new == ChangeAll(clips, P, F)
<1>1. QuantizeRange(clips, lo, hi, 2) = new
  BY Zenon DEF QuantizeRange
<1>2. ASSUME NEW i \in DOMAIN clips PROVE Like(clips[i], clips[i]) /\ Like(F(clips[i]), clips[i])
  <2>. DEFINE c == clips[i]
              at == 2 * ((2 * c.start + 2) \div (2 * 2))
  <2>1. Like(c, c) /\ IsClip(c)
    BY ClipListIs
  <2>2. F(c) = [c EXCEPT !.start = at]
    OBVIOUS
  <2>. HIDE DEF c
  <2>3. at \in Int
    <3>1. c.start \in Int
      BY <2>1 DEF IsClip
    <3>2. 2 * c.start + 2 \in Int /\ 2 * 2 = 4
      BY <3>1
    <3>3. (2 * c.start + 2) \div 4 \in Int
      BY <3>2
    <3>. QED BY <3>2, <3>3
  <2>. HIDE DEF at
  <2>4. Like([c EXCEPT !.start = at], c)
    BY <2>1, <2>3, LikeEdited
  <2>. QED BY <2>1, <2>2, <2>4 DEF c
<1>. HIDE DEF F
<1>3. \A i \in DOMAIN clips : clips[i].locked => ~P(clips[i])
  OBVIOUS
<1>. HIDE DEF P
<1>4. Revised(new, clips)
  BY <1>2, <1>3, Zenon DEF ChangeAll, Revised
<1>. HIDE DEF new
<1>. QED BY <1>1, <1>4, RevisedSound

-----------------------------------------------------------------------------
\* Copies of a range

\* What Ranked makes of an order lists the places in it.
LEMMA RankedLists ==
    ASSUME NEW S, IsFiniteSet(S), NEW R, Orders(R, S),
           NEW f, f = [n \in 1 .. Cardinality(S) |-> CHOOSE i \in S : Cardinality(Below(S, R, i)) = n - 1]
    PROVE  Enumerates(f, S)
PROOF
<1>1. ASSUME NEW n \in 1 .. Cardinality(S) PROVE f[n] \in S /\ Cardinality(Below(S, R, f[n])) = n - 1
  <2>1. \E i \in S : Cardinality(Below(S, R, i)) = n - 1
    BY RankAll
  <2>2. f[n] = CHOOSE i \in S : Cardinality(Below(S, R, i)) = n - 1
    BY Zenon
  <2>. QED BY <2>1, <2>2, Zenon
<1>2. f \in [1 .. Cardinality(S) -> S]
  BY <1>1, Zenon
<1>3. Lists(f, S, R)
  BY <1>1, <1>2 DEF Lists
<1>. QED BY <1>3, RankedPlaces

Leading(copies, S) == {p \in S \X S : Leads(copies[p[1]], p[1], copies[p[2]], p[2])}

\* The order of copies is an order of the places of their clips.
LEMMA LeadsOrder ==
    ASSUME NEW copies, NEW len \in Nat, NEW S, S \subseteq 1 .. len,
           \A i \in S : copies[i].start \in Int /\ copies[i].track \in Int
    PROVE  Orders(Leading(copies, S), S) /\ \A i, k \in S : <<k, i>> \in Leading(copies, S) <=> Leads(copies[k], k, copies[i], i)
PROOF
<1>. DEFINE R == Leading(copies, S)
<1>1. \A i, k \in S : <<k, i>> \in R <=> Leads(copies[k], k, copies[i], i)
  BY DEF Leading
<1>. HIDE DEF R
<1>2. \A i \in S : i \in Int
  OBVIOUS
<1>3. \A i \in S : <<i, i>> \notin R
  <2>1. ASSUME NEW i \in S PROVE ~Leads(copies[i], i, copies[i], i)
    BY <1>2 DEF Leads
  <2>. QED BY <1>1, <2>1
<1>4. ASSUME NEW i \in S, NEW j \in S, NEW k \in S, Leads(copies[i], i, copies[j], j), Leads(copies[j], j, copies[k], k)
      PROVE  Leads(copies[i], i, copies[k], k)
  BY <1>2, <1>4 DEF Leads
<1>5. ASSUME NEW i \in S, NEW j \in S, i # j PROVE Leads(copies[i], i, copies[j], j) \/ Leads(copies[j], j, copies[i], i)
  <2>1. /\ copies[i].start \in Int /\ copies[i].track \in Int /\ copies[j].start \in Int /\ copies[j].track \in Int
        /\ i \in Int /\ j \in Int
    BY <1>2
  <2>. QED BY <1>5, <2>1 DEF Leads
<1>6. Orders(R, S)
  BY <1>1, <1>3, <1>4, <1>5 DEF Orders
<1>. QED BY <1>1, <1>6 DEF R

\* What is copied of a range is a list of clips with ids of their own,
LEMMA CopiesAre ==
    ASSUME NEW clips, ClipList(clips), NEW lo \in Int, NEW hi \in Int
    PROVE  ClipList(CopyRange(clips, lo, hi))
PROOF
<1>. DEFINE copies == [i \in DOMAIN clips |-> Copied(clips[i], lo, hi)]
            S == {i \in DOMAIN clips : Overlaps(clips[i], lo, hi)}
            f == Ranked(S, LAMBDA i, k : Leads(copies[i], i, copies[k], k))
            R == Leading(copies, S)
<1>1. CopyRange(clips, lo, hi) = Picked(copies, f)
  BY Zenon DEF CopyRange
<1>2. /\ Listed(clips) /\ DOMAIN clips = 1 .. Len(clips) /\ Len(clips) \in Nat
      /\ \A i \in DOMAIN clips : IsClip(clips[i])
      /\ \A i, k \in DOMAIN clips : clips[i].id = clips[k].id => i = k
  BY ClipListIs, ListedIs
<1>3. ASSUME NEW i \in DOMAIN clips PROVE Like(Copied(clips[i], lo, hi), clips[i])
  <2>. DEFINE c == clips[i]
              a == Larger(lo, c.start)
              b == Smaller(hi, End(c))
              d == Slice(c, a, b)
              at == d.start - lo
  <2>1. IsClip(c)
    BY <1>2
  <2>. HIDE DEF c
  <2>2. a \in Int /\ b \in Int
    BY <2>1 DEF IsClip, Larger, Smaller, End
  <2>3. Copied(c, lo, hi) = [d EXCEPT !.start = at]
    BY DEF Copied
  <2>. HIDE DEF a, b
  <2>4. Like(d, c)
    BY <2>1, <2>2, LikeClamped
  <2>. HIDE DEF d
  <2>5. IsClip(d) /\ at \in Int
    BY <2>4 DEF Like, IsClip
  <2>. HIDE DEF at
  <2>6. Like([d EXCEPT !.start = at], d)
    BY <2>5, LikeEdited
  <2>. QED BY <2>3, <2>4, <2>6, LikeAgain DEF c
<1>4. S \subseteq DOMAIN clips /\ DOMAIN copies = DOMAIN clips
  OBVIOUS
<1>5. \A i \in DOMAIN clips : copies[i] = Copied(clips[i], lo, hi)
  OBVIOUS
<1>6. f = [n \in 1 .. Cardinality(S) |-> CHOOSE i \in S : Cardinality({k \in S : Leads(copies[k], k, copies[i], i)}) = n - 1]
  BY Zenon DEF Ranked
<1>. HIDE DEF copies, S, f
<1>7. \A i \in S : IsClip(copies[i]) /\ copies[i].id = clips[i].id
  BY <1>3, <1>4, <1>5, Zenon DEF Like
<1>8. \A i \in S : copies[i].start \in Int /\ copies[i].track \in Int
  BY <1>7, Zenon DEF IsClip
<1>9. IsFiniteSet(S)
  <2>1. IsFiniteSet(1 .. Len(clips)) /\ S \in SUBSET (1 .. Len(clips))
    BY <1>2, <1>4, FS_Interval
  <2>. QED BY <2>1, FS_Subset
<1>10. Orders(R, S) /\ \A i, k \in S : <<k, i>> \in R <=> Leads(copies[k], k, copies[i], i)
  BY <1>2, <1>4, <1>8, LeadsOrder
<1>. HIDE DEF R
<1>11. \A i \in S : {k \in S : Leads(copies[k], k, copies[i], i)} = Below(S, R, i)
  BY <1>10 DEF Below
<1>12. f = [n \in 1 .. Cardinality(S) |-> CHOOSE i \in S : Cardinality(Below(S, R, i)) = n - 1]
  <2>. DEFINE A(n) == CHOOSE i \in S : Cardinality({k \in S : Leads(copies[k], k, copies[i], i)}) = n - 1
              B(n) == CHOOSE i \in S : Cardinality(Below(S, R, i)) = n - 1
  <2>1. \A n : A(n) = B(n)
    BY <1>11
  <2>2. f = [n \in 1 .. Cardinality(S) |-> A(n)]
    BY <1>6
  <2>. HIDE DEF A, B
  <2>3. f = [n \in 1 .. Cardinality(S) |-> B(n)]
    BY <2>1, <2>2, Zenon
  <2>. QED BY <2>3 DEF B
<1>13. Enumerates(f, S)
  BY <1>9, <1>10, <1>12, RankedLists
<1>14. \A i, k \in S : copies[i].id = copies[k].id => i = k
  BY <1>2, <1>4, <1>7
<1>. DEFINE p == Picked(copies, f)
<1>15. Labelled(p) /\ \A n \in DOMAIN p : \E i \in S : p[n] = copies[i]
  <2>1. S \subseteq DOMAIN copies
    BY <1>4
  <2>. QED BY <1>13, <1>14, <2>1, PickLabelled
<1>. HIDE DEF p
<1>16. \A n \in DOMAIN p : IsClip(p[n])
  BY <1>7, <1>15
<1>. QED BY <1>1, <1>15, <1>16, Zenon DEF ClipList, p

\* and so is what is cut.
LEMMA CutCopiesAre ==
    ASSUME NEW clips, ClipList(clips), NEW lo \in Int, NEW hi \in Int
    PROVE  ClipList(CutCopies(clips, lo, hi))
PROOF
<1>. DEFINE S == {i \in DOMAIN clips : ~clips[i].locked}
<1>1. S \subseteq DOMAIN clips
  OBVIOUS
<1>2. CutCopies(clips, lo, hi) = CopyRange(Picked(clips, Ascending(S)), lo, hi)
  BY Zenon DEF CutCopies
<1>. HIDE DEF S
<1>3. ClipList(Picked(clips, Ascending(S)))
  BY <1>1, PickedClips
<1>. QED BY <1>2, <1>3, CopiesAre

\* Copying a range to its end
LEMMA DuplicateRangeSound ==
    ASSUME NEW clips, ClipList(clips), NEW lo \in Int, NEW hi \in Int
    PROVE  Sound(DuplicateRange(clips, lo, hi), clips)
PROOF
BY CopiesAre, PasteSound DEF DuplicateRange

-----------------------------------------------------------------------------
\* Clearing a range

\* The places of the pieces of a clip
LEMMA PiecePlaces ==
    ASSUME NEW len \in Nat
    PROVE  /\ \A n \in 1 .. 2 * len : /\ (n + 1) \div 2 \in 1 .. len
                                      /\ n % 2 = 1 \/ n % 2 = 0
                                      /\ n % 2 = 1 => n = 2 * ((n + 1) \div 2) - 1
                                      /\ n % 2 = 0 => n = 2 * ((n + 1) \div 2)
           /\ \A i \in 1 .. len : 2 * i - 1 \in 1 .. 2 * len /\ (2 * i - 1) % 2 = 1 /\ ((2 * i - 1) + 1) \div 2 = i
PROOF
<1>1. ASSUME NEW n \in 1 .. 2 * len
      PROVE  /\ (n + 1) \div 2 \in 1 .. len
             /\ n % 2 = 1 \/ n % 2 = 0
             /\ n % 2 = 1 => n = 2 * ((n + 1) \div 2) - 1
             /\ n % 2 = 0 => n = 2 * ((n + 1) \div 2)
  <2>1. n \in Int /\ n >= 1 /\ n <= 2 * len
    OBVIOUS
  <2>. QED BY <2>1
<1>2. ASSUME NEW i \in 1 .. len
      PROVE  2 * i - 1 \in 1 .. 2 * len /\ (2 * i - 1) % 2 = 1 /\ ((2 * i - 1) + 1) \div 2 = i
  <2>1. i \in Int /\ i >= 1 /\ i <= len
    OBVIOUS
  <2>. QED BY <2>1
<1>. QED BY <1>1, <1>2

\* Clearing a range: clips go, are cut at its ends, or fall into two parts, but for locked ones
LEMMA ClearedSound ==
    ASSUME NEW clips, ClipList(clips), NEW lo \in Int, NEW hi \in Int
    PROVE  Sound(ClearRange(clips, lo, hi), clips) /\ Sound(ShuffleDeleteRange(clips, lo, hi), clips)
PROOF
<1>. DEFINE len == Len(clips)
            Half(n) == (n + 1) \div 2
            all == [n \in 1 .. 2 * len |-> ClearedAt(clips, lo, hi, n)]
            S == {n \in 1 .. 2 * len : StaysAt(clips, lo, hi, n)}
            p == Picked(all, Ascending(S))
<1>1. ClearRange(clips, lo, hi) = p
  BY Zenon DEF ClearRange
<1>2. /\ Listed(clips) /\ DOMAIN clips = 1 .. len /\ len \in Nat
      /\ \A i \in DOMAIN clips : IsClip(clips[i]) /\ Like(clips[i], clips[i])
      /\ \A i, k \in DOMAIN clips : clips[i].id = clips[k].id => i = k
  BY ClipListIs, ListedIs
<1>. HIDE DEF len
<1>3. \A n \in 1 .. 2 * len : /\ Half(n) \in DOMAIN clips /\ (n % 2 = 1 \/ n % 2 = 0)
                              /\ n % 2 = 1 => n = 2 * Half(n) - 1
                              /\ n % 2 = 0 => n = 2 * Half(n)
  BY <1>2, PiecePlaces
<1>4. \A i \in DOMAIN clips : 2 * i - 1 \in 1 .. 2 * len /\ (2 * i - 1) % 2 = 1 /\ Half(2 * i - 1) = i
  BY <1>2, PiecePlaces
<1>5. \A n \in 1 .. 2 * len : /\ ClearedAt(clips, lo, hi, n) =
                                   IF Spared(clips[Half(n)], lo, hi) THEN clips[Half(n)]
                                   ELSE IF n % 2 = 1 THEN LeftOf(clips[Half(n)], lo) ELSE RightOf(clips, clips[Half(n)], hi)
                              /\ StaysAt(clips, lo, hi, n) =>
                                   n % 2 = 1 \/ ~Spared(clips[Half(n)], lo, hi)
                              /\ n % 2 = 1 /\ Spared(clips[Half(n)], lo, hi) => StaysAt(clips, lo, hi, n)
  BY DEF ClearedAt, StaysAt
<1>. HIDE DEF Half
<1>6. ASSUME NEW i \in DOMAIN clips PROVE Like(LeftOf(clips[i], lo), clips[i])
                                          /\ Called(RightOf(clips, clips[i], hi), SplitId(clips, clips[i].id))
  <2>. DEFINE c == clips[i]
              new == SplitId(clips, c.id)
              d == Slice(c, hi, End(c))
  <2>1. IsClip(c)
    BY <1>2
  <2>2. Listed(new)
    BY <2>1, NewIds DEF IsClip
  <2>3. RightOf(clips, c, hi) = [d EXCEPT !.id = new]
    BY DEF RightOf
  <2>. HIDE DEF c, new
  <2>4. c.start \in Int /\ End(c) \in Int
    BY <2>1 DEF IsClip, End
  <2>5. Like(LeftOf(c, lo), c)
    BY <2>1, <2>4, LikeClamped DEF LeftOf
  <2>6. Like(d, c)
    BY <2>1, <2>4, LikeClamped
  <2>. HIDE DEF d
  <2>7. IsClip(d)
    BY <2>6 DEF Like
  <2>8. Called([d EXCEPT !.id = new], new)
    BY <2>2, <2>7, RenamedClip DEF Called
  <2>. QED BY <2>3, <2>5, <2>8 DEF c, new
<1>7. \A n \in S : /\ n \in 1 .. 2 * len /\ Half(n) \in DOMAIN clips /\ IsClip(all[n])
                   /\ n % 2 = 1 => all[n].id = clips[Half(n)].id
                   /\ n % 2 = 0 => all[n].id = SplitId(clips, clips[Half(n)].id)
  <2>1. ASSUME NEW n \in S
        PROVE  /\ n \in 1 .. 2 * len /\ Half(n) \in DOMAIN clips /\ IsClip(all[n])
               /\ n % 2 = 1 => all[n].id = clips[Half(n)].id
               /\ n % 2 = 0 => all[n].id = SplitId(clips, clips[Half(n)].id)
    <3>1. n \in 1 .. 2 * len /\ StaysAt(clips, lo, hi, n) /\ all[n] = ClearedAt(clips, lo, hi, n)
      OBVIOUS
    <3>2. Half(n) \in DOMAIN clips
      BY <1>3, <3>1
    <3>. DEFINE c == clips[Half(n)]
    <3>3. IsClip(c) /\ Like(LeftOf(c, lo), c) /\ Called(RightOf(clips, c, hi), SplitId(clips, c.id))
      BY <1>2, <1>6, <3>2
    <3>4. all[n] = (IF Spared(c, lo, hi) THEN c ELSE IF n % 2 = 1 THEN LeftOf(c, lo) ELSE RightOf(clips, c, hi))
      BY <1>5, <3>1
    <3>5. n % 2 = 1 \/ (n % 2 = 0 /\ n % 2 # 1 /\ ~Spared(c, lo, hi))
      BY <1>3, <1>5, <3>1
    <3>. HIDE DEF c, all
    <3>6. CASE n % 2 = 1
      <4>1. all[n] = c \/ all[n] = LeftOf(c, lo)
        BY <3>4, <3>6
      <4>2. IsClip(all[n]) /\ all[n].id = c.id
        BY <3>3, <4>1 DEF Like
      <4>. QED BY <3>1, <3>2, <3>6, <4>2 DEF c
    <3>7. CASE n % 2 # 1
      <4>1. all[n] = RightOf(clips, c, hi)
        BY <3>4, <3>5, <3>7
      <4>2. IsClip(all[n]) /\ all[n].id = SplitId(clips, c.id)
        BY <3>3, <4>1 DEF Called
      <4>. QED BY <3>1, <3>2, <3>7, <4>2 DEF c
    <3>. QED BY <3>6, <3>7
  <2>. QED BY <2>1
<1>8. ASSUME NEW i \in DOMAIN clips, clips[i].locked PROVE \E n \in S : all[n] = clips[i]
  <2>. DEFINE n == 2 * i - 1
  <2>1. n \in 1 .. 2 * len /\ n % 2 = 1 /\ Half(n) = i
    BY <1>4
  <2>. HIDE DEF n
  <2>2. Spared(clips[i], lo, hi)
    BY <1>8 DEF Spared
  <2>3. StaysAt(clips, lo, hi, n) /\ ClearedAt(clips, lo, hi, n) = clips[i]
    BY <1>5, <2>1, <2>2
  <2>4. n \in S /\ all[n] = clips[i]
    BY <2>1, <2>3
  <2>. QED BY <2>4
<1>9. S \subseteq 1 .. 2 * len /\ DOMAIN all = 1 .. 2 * len
  OBVIOUS
<1>. HIDE DEF S, all
<1>10. ASSUME NEW m \in S, NEW n \in S, all[m].id = all[n].id PROVE m = n
  <2>. DEFINE i == Half(m)
              k == Half(n)
  <2>1. /\ m \in 1 .. 2 * len /\ n \in 1 .. 2 * len /\ i \in DOMAIN clips /\ k \in DOMAIN clips
        /\ m % 2 = 1 => all[m].id = clips[i].id
        /\ m % 2 = 0 => all[m].id = SplitId(clips, clips[i].id)
        /\ n % 2 = 1 => all[n].id = clips[k].id
        /\ n % 2 = 0 => all[n].id = SplitId(clips, clips[k].id)
    BY <1>7
  <2>2. /\ (m % 2 = 1 /\ m = 2 * i - 1) \/ (m % 2 = 0 /\ m = 2 * i)
        /\ (n % 2 = 1 /\ n = 2 * k - 1) \/ (n % 2 = 0 /\ n = 2 * k)
    BY <1>3, <2>1
  <2>3. Listed(clips[i].id) /\ Listed(clips[k].id)
    BY <1>2, <2>1, Zenon DEF IsClip
  <2>. HIDE DEF i, k
  <2>4. \A x \in DOMAIN clips : clips[x].id # SplitId(clips, clips[i].id) /\ clips[x].id # SplitId(clips, clips[k].id)
    BY <2>3, NewIds
  <2>5. SplitId(clips, clips[i].id) = SplitId(clips, clips[k].id) => clips[i].id = clips[k].id
    BY <1>2, <2>3, FreshIdIs, Zenon DEF SplitId
  <2>6. m % 2 = n % 2 /\ clips[i].id = clips[k].id
    BY <1>10, <2>1, <2>2, <2>4, <2>5
  <2>7. i = k
    BY <1>2, <2>1, <2>6, Zenon
  <2>. QED BY <2>2, <2>6, <2>7
<1>11. Enumerates(Ascending(S), S)
  <2>1. 2 * len \in Nat
    BY <1>2
  <2>. QED BY <1>9, <2>1, AscendingPlaces
<1>12. /\ Labelled(p)
       /\ \A n \in DOMAIN p : \E i \in S : p[n] = all[i]
       /\ \A i \in S : \E n \in DOMAIN p : p[n] = all[i]
  <2>. DEFINE f == Ascending(S)
  <2>1. Enumerates(f, S) /\ S \subseteq DOMAIN all /\ \A i, k \in S : all[i].id = all[k].id => i = k
    BY <1>9, <1>10, <1>11
  <2>. HIDE DEF f
  <2>2. /\ Labelled(Picked(all, f))
        /\ \A n \in DOMAIN Picked(all, f) : \E i \in S : Picked(all, f)[n] = all[i]
        /\ \A i \in S : \E n \in DOMAIN Picked(all, f) : Picked(all, f)[n] = all[i]
    BY <2>1, PickLabelled
  <2>. QED BY <2>2, Zenon DEF f
<1>. HIDE DEF p
<1>13. ClipList(p)
  <2>1. \A n \in DOMAIN p : IsClip(p[n])
    BY <1>7, <1>12
  <2>. QED BY <1>12, <2>1, Zenon DEF ClipList
<1>14. Sound(p, clips)
  <2>1. ASSUME NEW i \in DOMAIN clips, clips[i].locked PROVE \E k \in DOMAIN p : p[k] = clips[i]
    <3>1. PICK n \in S : all[n] = clips[i]
      BY <1>8, <2>1
    <3>. QED BY <1>12, <3>1
  <2>. QED BY <1>13, <2>1, Zenon DEF Sound, LockedStay
<1>15. Sound(ShuffleDeleteRange(clips, lo, hi), clips)
  <2>. DEFINE new == Shift(p, LAMBDA c : c.start >= hi, lo - hi)
  <2>1. ShuffleDeleteRange(clips, lo, hi) = new
    BY <1>1, Zenon DEF ShuffleDeleteRange
  <2>2. lo - hi \in Int
    OBVIOUS
  <2>3. Revised(new, p)
    BY <1>13, <2>2, LikeShifted, Zenon DEF Shift, ChangeAll, Revised
  <2>4. Sound(new, p)
    BY <1>13, <2>3, RevisedSound
  <2>. QED BY <1>14, <2>1, <2>4, SoundAgain
<1>. QED BY <1>1, <1>14, <1>15

-----------------------------------------------------------------------------
\* The operations that go through a list and carry out another for each item

\* What the k-th pass of an operation makes of the clips: the items it goes through, and two
\* times (a time and a distance) that it was given
Passed(job, cs, k) ==
    CASE job.op = "split" -> SplitAt(cs, job.items[k].id, job.lo)
      [] job.op = "copy" -> Duplicate(cs, job.items[k].id, job.items[k].start + job.lo)
      [] job.op = "separate" -> IF CutBy(job.items[k], job.lo, job.hi)
                                THEN SplitAt(SplitAt(cs, job.items[k].id, job.hi), job.items[k].id, job.lo) ELSE cs
      [] job.op = "glue" -> GluePass(cs, job.lo, job.hi)
      [] job.op = "fade" -> IF ~job.items[k].locked /\ Overlaps(job.items[k], job.lo, job.hi)
                            THEN FadePass(cs, job.items[k], job.lo, job.hi) ELSE cs
Passes(f, job, first, n) == f = [k \in 0 .. n |-> IF k = 0 THEN first ELSE Passed(job, f[k - 1], k)]

\* The clips after each of a number of passes exist.
LEMMA PassesExist ==
    ASSUME NEW job, NEW first, NEW n \in Nat
    PROVE  \E f : Passes(f, job, first, n)
PROOF
<1>. DEFINE Bad == {m \in Nat : ~ \E f : Passes(f, job, first, m)}
<1>1. SUFFICES ASSUME Bad # {} PROVE FALSE
  OBVIOUS
<1>2. PICK m \in Bad : m = 0 \/ (m - 1 \in Nat /\ m - 1 \notin Bad)
  <2>1. Bad \in SUBSET Nat
    OBVIOUS
  <2>. HIDE DEF Bad
  <2>. QED BY <1>1, <2>1, SmallestCounter
<1>3. CASE m = 0
  <2>. DEFINE g == [k \in 0 .. 0 |-> first]
  <2>1. \A k \in 0 .. 0 : k = 0
    OBVIOUS
  <2>2. g = [k \in 0 .. 0 |-> IF k = 0 THEN first ELSE Passed(job, g[k - 1], k)]
    BY <2>1, Zenon
  <2>3. Passes(g, job, first, m)
    BY <1>3, <2>2 DEF Passes
  <2>. QED BY <1>2, <2>3
<1>4. CASE m # 0
  <2>1. m \in Nat /\ m - 1 \in Nat /\ \E f : Passes(f, job, first, m - 1)
    BY <1>2, <1>4
  <2>2. PICK f : Passes(f, job, first, m - 1)
    BY <2>1
  <2>. DEFINE g == [k \in 0 .. m |-> IF k = m THEN Passed(job, f[m - 1], m) ELSE f[k]]
  <2>3. \A k \in 0 .. m - 1 : f[k] = IF k = 0 THEN first ELSE Passed(job, f[k - 1], k)
    BY <2>2, Zenon DEF Passes
  <2>5. ASSUME NEW k \in 0 .. m PROVE g[k] = IF k = 0 THEN first ELSE Passed(job, g[k - 1], k)
    <3>1. CASE k = m
      <4>1. g[k] = Passed(job, f[m - 1], m) /\ g[m - 1] = f[m - 1]
        BY <2>1, <3>1
      <4>. QED BY <1>4, <3>1, <4>1
    <3>2. CASE k # m
      <4>1. k \in 0 .. m - 1 /\ g[k] = f[k]
        BY <2>1, <3>2
      <4>2. CASE k = 0
        BY <2>3, <4>1, <4>2
      <4>3. CASE k # 0
        <5>1. k - 1 \in 0 .. m /\ k - 1 # m
          BY <2>1, <4>1, <4>3
        <5>2. g[k - 1] = f[k - 1]
          BY <5>1
        <5>. QED BY <2>3, <4>1, <4>3, <5>2
      <4>. QED BY <4>2, <4>3
    <3>. QED BY <3>1, <3>2
  <2>6. g = [k \in 0 .. m |-> g[k]]
    OBVIOUS
  <2>. HIDE DEF g
  <2>7. Passes(g, job, first, m)
    BY <2>5, <2>6, Zenon DEF Passes
  <2>. QED BY <1>2, <2>7
<1>. QED BY <1>3, <1>4

\* What a pass is to keep: fades change clips at their places; copies leave every clip there is.
Stage(job, cs, first) ==
    IF job.op = "fade" THEN Revised(cs, first)
    ELSE Sound(cs, first) /\ (job.op = "copy" => Ids(first) \subseteq Ids(cs))

\* What every pass keeps, they all keep.
LEMMA PassesKeep ==
    ASSUME NEW job, NEW first, NEW n \in Nat, NEW f, Passes(f, job, first, n), Stage(job, first, first),
           \A cs : \A k \in 1 .. n : Stage(job, cs, first) => Stage(job, Passed(job, cs, k), first)
    PROVE  Stage(job, f[n], first)
PROOF
<1>. DEFINE Bad == {k \in 0 .. n : ~Stage(job, f[k], first)}
<1>1. SUFFICES ASSUME Bad # {} PROVE FALSE
  <2>1. n \in 0 .. n
    OBVIOUS
  <2>. QED BY <2>1
<1>2. PICK k \in Bad : k = 0 \/ (k - 1 \in Nat /\ k - 1 \notin Bad)
  <2>1. Bad \in SUBSET Nat
    OBVIOUS
  <2>. HIDE DEF Bad
  <2>. QED BY <1>1, <2>1, SmallestCounter
<1>3. \A m \in 0 .. n : f[m] = IF m = 0 THEN first ELSE Passed(job, f[m - 1], m)
  BY Zenon DEF Passes
<1>4. k \in 0 .. n /\ k # 0 /\ k - 1 \in 0 .. n /\ k \in 1 .. n
  <2>1. k \in 0 .. n /\ ~Stage(job, f[k], first)
    BY <1>2
  <2>2. k # 0
    BY <1>3, <2>1
  <2>. QED BY <2>1, <2>2
<1>5. Stage(job, f[k - 1], first)
  BY <1>2, <1>4
<1>6. f[k] = Passed(job, f[k - 1], k)
  BY <1>3, <1>4
<1>. QED BY <1>2, <1>4, <1>5, <1>6

\* Splitting the clips of a selection
LEMMA SplitEach ==
    ASSUME NEW clips, ClipList(clips), NEW chosen, Len(chosen) \in Nat, NEW t \in Int
    PROVE  Sound(Repeated(Len(chosen), clips, LAMBDA cs, i : SplitAt(cs, chosen[i].id, t)), clips)
PROOF
<1>. DEFINE n == Len(chosen)
            job == [op |-> "split", items |-> chosen, lo |-> t, hi |-> t]
            Step(cs, i) == SplitAt(cs, chosen[i].id, t)
            Meets(f) == f = [k \in 0 .. n |-> IF k = 0 THEN clips ELSE Step(f[k - 1], k)]
            end == Repeated(n, clips, LAMBDA cs, i : SplitAt(cs, chosen[i].id, t))
<1>1. \A cs, k : Passed(job, cs, k) = Step(cs, k)
  BY DEF Passed
<1>2. end = (CHOOSE f : Meets(f))[n]
  BY Zenon DEF Repeated
<1>3. job.op = "split"
  OBVIOUS
<1>4. Stage(job, clips, clips)
  BY <1>3, SoundItself DEF Stage
<1>5. ASSUME NEW cs, NEW k, Stage(job, cs, clips) PROVE Stage(job, Step(cs, k), clips)
  <2>1. Sound(cs, clips)
    BY <1>3, <1>5 DEF Stage
  <2>2. ClipList(cs)
    BY <2>1 DEF Sound
  <2>3. Sound(Step(cs, k), cs)
    BY <2>2, SplitSound
  <2>4. Sound(Step(cs, k), clips)
    BY <2>1, <2>3, SoundAgain
  <2>. HIDE DEF Step
  <2>. QED BY <1>3, <2>4 DEF Stage
<1>. HIDE DEF job, Step, n, end
<1>6. PICK f : Passes(f, job, clips, n)
  BY PassesExist DEF n
<1>7. \A g : Passes(g, job, clips, n) <=> Meets(g)
  BY <1>1 DEF Passes
<1>. HIDE DEF Meets
<1>. DEFINE g == CHOOSE h : Meets(h)
<1>8. Meets(g)
  BY <1>6, <1>7, Zenon
<1>. HIDE DEF g
<1>9. Stage(job, g[n], clips)
  <2>1. Passes(g, job, clips, n)
    BY <1>7, <1>8
  <2>2. n \in Nat
    BY DEF n
  <2>3. \A cs : \A k \in 1 .. n : Stage(job, cs, clips) => Stage(job, Passed(job, cs, k), clips)
    BY <1>1, <1>5
  <2>. QED BY <1>4, <2>1, <2>2, <2>3, PassesKeep
<1>10. end = g[n]
  BY <1>2 DEF g
<1>. QED BY <1>3, <1>9, <1>10 DEF Stage, end, n

\* Copying the clips of a selection
LEMMA DuplicateEach ==
    ASSUME NEW clips, ClipList(clips), NEW chosen, Len(chosen) \in Nat, NEW span \in Int,
           \A i \in 1 .. Len(chosen) : chosen[i].id \in Ids(clips) /\ chosen[i].start \in Int
    PROVE  Sound(Repeated(Len(chosen), clips, LAMBDA cs, i : Duplicate(cs, chosen[i].id, chosen[i].start + span)), clips)
PROOF
<1>. DEFINE n == Len(chosen)
            job == [op |-> "copy", items |-> chosen, lo |-> span, hi |-> span]
            Step(cs, i) == Duplicate(cs, chosen[i].id, chosen[i].start + span)
            Meets(f) == f = [k \in 0 .. n |-> IF k = 0 THEN clips ELSE Step(f[k - 1], k)]
            end == Repeated(n, clips, LAMBDA cs, i : Duplicate(cs, chosen[i].id, chosen[i].start + span))
<1>1. \A cs, k : Passed(job, cs, k) = Step(cs, k)
  BY DEF Passed
<1>2. end = (CHOOSE f : Meets(f))[n]
  BY Zenon DEF Repeated
<1>3. job.op = "copy"
  OBVIOUS
<1>4. Stage(job, clips, clips)
  BY <1>3, SoundItself DEF Stage
<1>5. ASSUME NEW cs, NEW k \in 1 .. n, Stage(job, cs, clips) PROVE Stage(job, Step(cs, k), clips)
  <2>. DEFINE id == chosen[k].id
              at == chosen[k].start + span
              new == Duplicate(cs, id, at)
  <2>1. Sound(cs, clips) /\ Ids(clips) \subseteq Ids(cs)
    BY <1>3, <1>5 DEF Stage
  <2>2. ClipList(cs) /\ id \in Ids(cs) /\ at \in Int
    BY <2>1 DEF Sound
  <2>. HIDE DEF id, at
  <2>3. Sound(new, cs)
    BY <2>2, DuplicateSound
  <2>4. Sound(new, clips)
    BY <2>1, <2>3, SoundAgain
  <2>5. Ids(cs) \subseteq Ids(new)
    <3>1. Listed(cs)
      BY <2>2 DEF ClipList, Labelled
    <3>2. new = Append(cs, [Named(cs, id) EXCEPT !.id = CopyId(cs, id), !.start = at])
      BY DEF Duplicate
    <3>3. \A i \in DOMAIN cs : i \in DOMAIN new /\ new[i] = cs[i]
      <4>1. DOMAIN cs = 1 .. Len(cs) /\ Len(cs) \in Nat
        BY <3>1, ListedIs
      <4>. DEFINE x == [Named(cs, id) EXCEPT !.id = CopyId(cs, id), !.start = at]
      <4>. HIDE DEF x, new
      <4>2. DOMAIN new = 1 .. Len(cs) + 1 /\ \A i \in DOMAIN cs : new[i] = cs[i]
        BY <3>1, <3>2, AppendListed DEF x
      <4>. QED BY <4>1, <4>2
    <3>. HIDE DEF new
    <3>. QED BY <3>3 DEF Ids
  <2>6. Ids(clips) \subseteq Ids(new)
    BY <2>1, <2>5
  <2>7. Step(cs, k) = new
    BY DEF id, at
  <2>. HIDE DEF Step, new
  <2>. QED BY <1>3, <2>4, <2>6, <2>7 DEF Stage
<1>. HIDE DEF job, Step, n, end
<1>6. PICK f : Passes(f, job, clips, n)
  BY PassesExist DEF n
<1>7. \A g : Passes(g, job, clips, n) <=> Meets(g)
  BY <1>1 DEF Passes
<1>. HIDE DEF Meets
<1>. DEFINE g == CHOOSE h : Meets(h)
<1>8. Meets(g)
  BY <1>6, <1>7, Zenon
<1>. HIDE DEF g
<1>9. Stage(job, g[n], clips)
  <2>1. Passes(g, job, clips, n)
    BY <1>7, <1>8
  <2>2. n \in Nat
    BY DEF n
  <2>3. \A cs : \A k \in 1 .. n : Stage(job, cs, clips) => Stage(job, Passed(job, cs, k), clips)
    BY <1>1, <1>5
  <2>. QED BY <1>4, <2>1, <2>2, <2>3, PassesKeep
<1>10. end = g[n]
  BY <1>2 DEF g
<1>. QED BY <1>3, <1>9, <1>10 DEF Stage, end, n

\* Cutting every clip at the ends of a range
LEMMA SeparateSound ==
    ASSUME NEW clips, ClipList(clips), NEW lo \in Int, NEW hi \in Int
    PROVE  Sound(SeparateRange(clips, lo, hi), clips)
PROOF
<1>. DEFINE n == Len(clips)
            job == [op |-> "separate", items |-> clips, lo |-> lo, hi |-> hi]
            Step(cs, i) == IF CutBy(clips[i], lo, hi) THEN SplitAt(SplitAt(cs, clips[i].id, hi), clips[i].id, lo) ELSE cs
            Meets(f) == f = [k \in 0 .. n |-> IF k = 0 THEN clips ELSE Step(f[k - 1], k)]
            end == SeparateRange(clips, lo, hi)
<1>1. \A cs, k : Passed(job, cs, k) = Step(cs, k)
  BY DEF Passed
<1>2. end = (CHOOSE f : Meets(f))[n]
  BY Zenon DEF Repeated, SeparateRange
<1>3. job.op = "separate"
  OBVIOUS
<1>4. Stage(job, clips, clips)
  BY <1>3, SoundItself DEF Stage
<1>5. ASSUME NEW cs, NEW k, Stage(job, cs, clips) PROVE Stage(job, Step(cs, k), clips)
  <2>. DEFINE cut == SplitAt(cs, clips[k].id, hi)
              twice == SplitAt(cut, clips[k].id, lo)
  <2>1. Sound(cs, clips)
    BY <1>3, <1>5 DEF Stage
  <2>2. Sound(cut, cs)
    BY <2>1, SplitSound DEF Sound
  <2>. HIDE DEF cut
  <2>3. Sound(twice, cut)
    BY <2>2, SplitSound DEF Sound
  <2>. HIDE DEF twice
  <2>4. Sound(twice, clips)
    BY <2>1, <2>2, <2>3, SoundAgain
  <2>5. Step(cs, k) = twice \/ Step(cs, k) = cs
    BY Zenon DEF cut, twice
  <2>. HIDE DEF Step
  <2>. QED BY <1>3, <2>1, <2>4, <2>5 DEF Stage
<1>6. n \in Nat
  BY Zenon DEF ClipList, Labelled, Listed
<1>. HIDE DEF job, Step, n, end
<1>7. PICK f : Passes(f, job, clips, n)
  BY <1>6, PassesExist
<1>8. \A g : Passes(g, job, clips, n) <=> Meets(g)
  BY <1>1 DEF Passes
<1>. HIDE DEF Meets
<1>. DEFINE g == CHOOSE h : Meets(h)
<1>9. Meets(g)
  BY <1>7, <1>8, Zenon
<1>. HIDE DEF g
<1>10. Stage(job, g[n], clips)
  <2>1. Passes(g, job, clips, n)
    BY <1>8, <1>9
  <2>3. \A cs : \A k \in 1 .. n : Stage(job, cs, clips) => Stage(job, Passed(job, cs, k), clips)
    BY <1>1, <1>5
  <2>. QED BY <1>4, <1>6, <2>1, <2>3, PassesKeep
<1>11. end = g[n]
  BY <1>2 DEF g
<1>. QED BY <1>3, <1>10, <1>11 DEF Stage, end

\* Gluing what continues in a range
LEMMA GlueRangeSound ==
    ASSUME NEW clips, ClipList(clips), NEW lo \in Int, NEW hi \in Int
    PROVE  Sound(GlueRange(clips, lo, hi), clips)
PROOF
<1>. DEFINE n == 2 * Len(clips)
            job == [op |-> "glue", items |-> clips, lo |-> lo, hi |-> hi]
            Step(cs, i) == GluePass(cs, lo, hi)
            Meets(f) == f = [k \in 0 .. n |-> IF k = 0 THEN clips ELSE Step(f[k - 1], k)]
            end == GlueRange(clips, lo, hi)
<1>1. \A cs, k : Passed(job, cs, k) = Step(cs, k)
  BY DEF Passed
<1>2. end = (CHOOSE f : Meets(f))[n]
  BY Zenon DEF Repeated, GlueRange
<1>3. job.op = "glue"
  OBVIOUS
<1>4. Stage(job, clips, clips)
  BY <1>3, SoundItself DEF Stage
<1>5. ASSUME NEW cs, NEW k, Stage(job, cs, clips) PROVE Stage(job, Step(cs, k), clips)
  <2>. DEFINE first == SelectInSeq(InOrder(cs), LAMBDA c : c.id \in GluesInRange(cs, lo, hi))
              id == InOrder(cs)[first].id
  <2>1. Sound(cs, clips)
    BY <1>3, <1>5 DEF Stage
  <2>2. \/ CanGlueAdjacent(cs, id) /\ Step(cs, k) = GlueAdjacent(cs, id)
        \/ Step(cs, k) = cs
    BY Zenon DEF GluePass
  <2>. HIDE DEF id, Step
  <2>3. CanGlueAdjacent(cs, id) => Sound(GlueAdjacent(cs, id), cs)
    BY <2>1, GlueSound DEF Sound
  <2>4. Sound(Step(cs, k), clips)
    BY <2>1, <2>2, <2>3, SoundAgain
  <2>. QED BY <1>3, <2>4 DEF Stage
<1>6. n \in Nat
  <2>1. Len(clips) \in Nat
    BY Zenon DEF ClipList, Labelled, Listed
  <2>. QED BY <2>1
<1>. HIDE DEF job, Step, n, end
<1>7. PICK f : Passes(f, job, clips, n)
  BY <1>6, PassesExist
<1>8. \A g : Passes(g, job, clips, n) <=> Meets(g)
  BY <1>1 DEF Passes
<1>. HIDE DEF Meets
<1>. DEFINE g == CHOOSE h : Meets(h)
<1>9. Meets(g)
  BY <1>7, <1>8, Zenon
<1>. HIDE DEF g
<1>10. Stage(job, g[n], clips)
  <2>1. Passes(g, job, clips, n)
    BY <1>8, <1>9
  <2>3. \A cs : \A k \in 1 .. n : Stage(job, cs, clips) => Stage(job, Passed(job, cs, k), clips)
    BY <1>1, <1>5
  <2>. QED BY <1>4, <1>6, <2>1, <2>3, PassesKeep
<1>11. end = g[n]
  BY <1>2 DEF g
<1>. QED BY <1>3, <1>10, <1>11 DEF Stage, end

\* A clip of the list that is not locked is free.
LEMMA UnlockedFree ==
    ASSUME NEW clips, ClipList(clips), NEW i \in DOMAIN clips, ~clips[i].locked
    PROVE  Free(clips, clips[i].id)
PROOF
<1>. DEFINE id == clips[i].id
<1>1. id \in Ids(clips)
  BY DEF Ids
<1>2. clips[i] = Named(clips, id)
  BY <1>1, NamedIs
<1>. HIDE DEF id
<1>3. ~Named(clips, id).locked
  BY <1>2, Zenon
<1>. QED BY <1>1, <1>3, Zenon DEF Free, id

\* A clip that fades at the ends of a range
LEMMA FadedAtEdgesLike ==
    ASSUME NEW c, IsClip(c), NEW lo, NEW hi
    PROVE  Like(FadedAtEdges(c, lo, hi), c)
PROOF
<1>. DEFINE short == Smaller(ShortFade, c.dur)
            fin == IF c.start >= lo /\ c.start < hi THEN Larger(c.fin, short) ELSE c.fin
            fout == IF End(c) > lo /\ End(c) <= hi THEN Larger(c.fout, short) ELSE c.fout
<1>1. FadedAtEdges(c, lo, hi) = Clamp([c EXCEPT !.fin = fin, !.fout = fout])
  BY Zenon DEF FadedAtEdges
<1>. HIDE DEF fin, fout
<1>. QED BY <1>1, LikeClamped

\* What a pass of fading makes of the clips
LEMMA FadePassRevised ==
    ASSUME NEW clips, ClipList(clips), NEW c, Free(clips, c.id), NEW lo, NEW hi
    PROVE  Revised(FadePass(clips, c, lo, hi), clips)
PROOF
<1>. DEFINE id == c.id
            crossed == Crossfade(clips, id)
            edged == Change(crossed, id, LAMBDA d : FadedAtEdges(d, lo, hi))
<1>1. Revised(crossed, clips)
  BY CrossfadedClips
<1>2. FadePass(clips, c, lo, hi) = crossed \/ FadePass(clips, c, lo, hi) = edged
  BY Zenon DEF FadePass
<1>. HIDE DEF crossed, id
<1>3. ClipList(crossed) /\ Free(crossed, id)
  BY <1>1, RevisedFree DEF id
<1>4. \A i \in DOMAIN crossed : /\ IsClip(crossed[i]) /\ Like(crossed[i], crossed[i])
                                /\ (crossed[i].id = id => ~crossed[i].locked)
  BY <1>3, ClipListIs, NamedIs, Zenon DEF Free
<1>5. \A i \in DOMAIN crossed : Like(FadedAtEdges(crossed[i], lo, hi), crossed[i])
  BY <1>4, FadedAtEdgesLike
<1>6. Revised(edged, crossed)
  BY <1>4, <1>5, Zenon DEF Change, Revised
<1>. HIDE DEF edged
<1>. QED BY <1>1, <1>2, <1>6, RevisedAgain

\* A list is itself with nothing changed.
LEMMA RevisedItself ==
    ASSUME NEW clips, ClipList(clips)
    PROVE  Revised(clips, clips)
PROOF
<1>1. clips = [i \in 1 .. Len(clips) |-> clips[i]] /\ \A i \in DOMAIN clips : Like(clips[i], clips[i])
  BY ClipListIs, Zenon DEF Listed
<1>2. DOMAIN clips = 1 .. Len(clips)
  BY ClipListIs, ListedIs
<1>. QED BY <1>1, <1>2, Zenon DEF Revised

\* Fading the clips of a range
LEMMA FadeRangeSound ==
    ASSUME NEW clips, ClipList(clips), NEW lo \in Int, NEW hi \in Int
    PROVE  Sound(FadeRange(clips, lo, hi), clips)
PROOF
<1>. DEFINE n == Len(clips)
            job == [op |-> "fade", items |-> clips, lo |-> lo, hi |-> hi]
            Step(cs, i) == IF ~clips[i].locked /\ Overlaps(clips[i], lo, hi) THEN FadePass(cs, clips[i], lo, hi) ELSE cs
            Meets(f) == f = [k \in 0 .. n |-> IF k = 0 THEN clips ELSE Step(f[k - 1], k)]
            end == FadeRange(clips, lo, hi)
<1>1. \A cs, k : Passed(job, cs, k) = Step(cs, k)
  BY DEF Passed
<1>2. end = (CHOOSE f : Meets(f))[n]
  BY Zenon DEF Repeated, FadeRange
<1>3. job.op = "fade"
  OBVIOUS
<1>4. Stage(job, clips, clips)
  BY <1>3, RevisedItself DEF Stage
<1>5. n \in Nat /\ DOMAIN clips = 1 .. n
  BY ClipListIs, ListedIs
<1>6. ASSUME NEW cs, NEW k \in 1 .. n, Stage(job, cs, clips) PROVE Stage(job, Step(cs, k), clips)
  <2>. DEFINE c == clips[k]
  <2>1. Revised(cs, clips)
    BY <1>3, <1>6 DEF Stage
  <2>2. \/ ~c.locked /\ Step(cs, k) = FadePass(cs, c, lo, hi)
        \/ Step(cs, k) = cs
    OBVIOUS
  <2>3. ~c.locked => Free(clips, c.id)
    BY <1>5, UnlockedFree
  <2>. HIDE DEF c, Step
  <2>4. ~c.locked => ClipList(cs) /\ Free(cs, c.id)
    BY <2>1, <2>3, RevisedFree
  <2>5. ~c.locked => Revised(FadePass(cs, c, lo, hi), cs)
    BY <2>4, FadePassRevised
  <2>6. Revised(Step(cs, k), clips)
    BY <2>1, <2>2, <2>5, RevisedAgain
  <2>. QED BY <1>3, <2>6 DEF Stage
<1>. HIDE DEF job, Step, n, end
<1>7. PICK f : Passes(f, job, clips, n)
  BY <1>5, PassesExist
<1>8. \A g : Passes(g, job, clips, n) <=> Meets(g)
  BY <1>1 DEF Passes
<1>. HIDE DEF Meets
<1>. DEFINE g == CHOOSE h : Meets(h)
<1>9. Meets(g)
  BY <1>7, <1>8, Zenon
<1>. HIDE DEF g
<1>10. Stage(job, g[n], clips)
  <2>1. Passes(g, job, clips, n)
    BY <1>8, <1>9
  <2>3. \A cs : \A k \in 1 .. n : Stage(job, cs, clips) => Stage(job, Passed(job, cs, k), clips)
    BY <1>1, <1>6
  <2>. QED BY <1>4, <1>5, <2>1, <2>3, PassesKeep
<1>11. end = g[n]
  BY <1>2 DEF g
<1>12. Revised(end, clips)
  BY <1>3, <1>10, <1>11 DEF Stage
<1>. QED BY <1>12, RevisedSound DEF end

\* Gain, mute and polarity of the clips in a range
LEMMA ChangedRangeSound ==
    ASSUME NEW clips, ClipList(clips), NEW lo \in Int, NEW hi \in Int
    PROVE  /\ \A by : Sound(AdjustGainRange(clips, lo, hi, by), clips)
           /\ \A flag, on : Sound(FlagRange(clips, lo, hi, flag, on), clips)
           /\ \A target : Sound(NormalizeRange(clips, lo, hi, target, LAMBDA file : Peaks[file]), clips)
PROOF
<1>. DEFINE cut == SeparateRange(clips, lo, hi)
<1>1. Sound(cut, clips) /\ ClipList(cut)
  BY SeparateSound DEF Sound
<1>. HIDE DEF cut
<1>2. \A i \in DOMAIN cut : /\ Like(cut[i], cut[i]) /\ \A gain : Like(Gained(cut[i], gain), cut[i])
                            /\ \A flag, on : Like(Flagged(cut[i], flag, on), cut[i])
  BY <1>1, ClipListIs, LikeClamped
<1>3. \A i \in DOMAIN cut : InsideRange(cut[i], lo, hi) => ~cut[i].locked
  BY Zenon DEF InsideRange
<1>4. ASSUME NEW new, Revised(new, cut) PROVE Sound(new, clips)
  BY <1>1, <1>4, RevisedSound, SoundAgain
<1>5. ASSUME NEW by PROVE Sound(AdjustGainRange(clips, lo, hi, by), clips)
  <2>1. Revised(AdjustGainRange(clips, lo, hi, by), cut)
    BY <1>2, <1>3, Zenon DEF AdjustGainRange, ChangeRange, ChangeAll, Revised, cut
  <2>. QED BY <1>4, <2>1
<1>6. ASSUME NEW flag, NEW on PROVE Sound(FlagRange(clips, lo, hi, flag, on), clips)
  <2>1. Revised(FlagRange(clips, lo, hi, flag, on), cut)
    BY <1>2, <1>3, Zenon DEF FlagRange, ChangeRange, ChangeAll, Revised, cut
  <2>. QED BY <1>4, <2>1
<1>7. ASSUME NEW target PROVE Sound(NormalizeRange(clips, lo, hi, target, LAMBDA file : Peaks[file]), clips)
  <2>1. Revised(NormalizeRange(clips, lo, hi, target, LAMBDA file : Peaks[file]), cut)
    BY <1>2, <1>3, Zenon DEF NormalizeRange, Normalized, ChangeRange, ChangeAll, Revised, cut
  <2>. QED BY <1>4, <2>1
<1>. QED BY <1>5, <1>6, <1>7

-----------------------------------------------------------------------------
\* Selections

\* The values of a table are finitely many.
LEMMA ValuesFinite ==
    ASSUME NEW n \in Nat, NEW f, NEW T, T = {f[i] : i \in 1 .. n}
    PROVE  IsFiniteSet(T)
PROOF
<1>. DEFINE g == [i \in 1 .. n |-> f[i]]
<1>1. g \in Surjection(1 .. n, T)
  BY DEF Surjection
<1>2. IsFiniteSet(1 .. n)
  BY FS_Interval
<1>. HIDE DEF g
<1>. QED BY <1>1, <1>2, FS_Surjection

\* The first and the last time of clips
LEMMA ExtentOf ==
    ASSUME NEW clips, ClipList(clips), DOMAIN clips # {}
    PROVE  Min({c.start : c \in ToSet(clips)}) \in Int /\ Max({End(c) : c \in ToSet(clips)}) \in Int
PROOF
<1>. DEFINE n == Len(clips)
            starts == [i \in 1 .. n |-> clips[i].start]
            ends == [i \in 1 .. n |-> End(clips[i])]
            S == {c.start : c \in ToSet(clips)}
            E == {End(c) : c \in ToSet(clips)}
<1>1. n \in Nat /\ DOMAIN clips = 1 .. n
  BY ClipListIs, ListedIs
<1>2. \A i \in 1 .. n : clips[i].start \in Int /\ End(clips[i]) \in Int
  <2>1. ASSUME NEW c, IsClip(c) PROVE c.start \in Int /\ End(c) \in Int
    BY <2>1 DEF IsClip, End
  <2>. QED BY <1>1, <2>1, ClipListIs
<1>. HIDE DEF n
<1>3. S = {starts[i] : i \in 1 .. n}
  BY <1>1 DEF ToSet
<1>4. E = {ends[i] : i \in 1 .. n}
  BY <1>1 DEF ToSet
<1>5. (\A i \in 1 .. n : starts[i] \in Int) /\ (\A i \in 1 .. n : ends[i] \in Int)
  BY <1>2
<1>6. PICK i \in 1 .. n : TRUE
  BY <1>1
<1>. HIDE DEF S, E, starts, ends
<1>7. IsFiniteSet(S) /\ S \subseteq Int /\ S # {}
  BY <1>1, <1>3, <1>5, <1>6, ValuesFinite
<1>8. IsFiniteSet(E) /\ E \subseteq Int /\ E # {}
  BY <1>1, <1>4, <1>5, <1>6, ValuesFinite
<1>9. Min(S) \in S /\ Max(E) \in E
  BY <1>7, <1>8, ExtremesIn
<1>10. Min(S) \in Int /\ Max(E) \in Int
  BY <1>7, <1>8, <1>9
<1>. QED BY <1>10 DEF S, E

\* Clips changed at their places are clips.
LEMMA LikeList ==
    ASSUME NEW old, ClipList(old), NEW new, new = [i \in DOMAIN old |-> new[i]], \A i \in DOMAIN old : Like(new[i], old[i])
    PROVE  ClipList(new)
PROOF
<1>1. Labelled(old) /\ \A i \in DOMAIN old : IsClip(new[i]) /\ new[i].id = old[i].id
  BY ClipListIs, Zenon DEF Like
<1>2. Labelled(new) /\ DOMAIN new = DOMAIN old
  BY <1>1, ReplacedLabelled
<1>. QED BY <1>1, <1>2, Zenon DEF ClipList

\* The clips of a selection, and what is copied of them
LEMMA SelectedAre ==
    ASSUME ClipList(doc.clips), NEW ids \in SUBSET Ids(doc.clips), ids # {}
    PROVE  /\ ClipList(Selected(ids)) /\ Len(Selected(ids)) \in Nat /\ DOMAIN Selected(ids) = 1 .. Len(Selected(ids))
           /\ \A i \in DOMAIN Selected(ids) : Selected(ids)[i].id \in Ids(doc.clips) /\ Selected(ids)[i].start \in Int
           /\ Earliest(ids) \in Int /\ Max({End(c) : c \in ToSet(Selected(ids))}) \in Int
           /\ ClipList(Offsets(ids))
PROOF
<1>. DEFINE clips == doc.clips
            S == {i \in DOMAIN clips : clips[i].id \in ids}
            sel == Selected(ids)
<1>1. sel = Picked(clips, Ascending(S))
  BY Zenon DEF Selected
<1>2. S \subseteq DOMAIN clips
  OBVIOUS
<1>3. PICK i \in S : TRUE
  BY DEF Ids
<1>. HIDE DEF sel
<1>4. /\ ClipList(sel)
      /\ \A n \in DOMAIN sel : \E k \in S : sel[n] = clips[k]
      /\ \A k \in S : \E n \in DOMAIN sel : sel[n] = clips[k]
  <2>. HIDE DEF S
  <2>. QED BY <1>1, <1>2, PickedClips
<1>5. DOMAIN sel # {}
  BY <1>3, <1>4
<1>6. Len(sel) \in Nat /\ DOMAIN sel = 1 .. Len(sel)
  BY <1>4, ClipListIs, ListedIs
<1>7. \A n \in DOMAIN sel : sel[n].id \in Ids(clips)
  BY <1>2, <1>4 DEF Ids
<1>8. \A n \in DOMAIN sel : IsClip(sel[n]) /\ sel[n].start \in Int
  BY <1>4, ClipListIs, Zenon DEF IsClip
<1>9. Earliest(ids) \in Int /\ Max({End(c) : c \in ToSet(sel)}) \in Int
  BY <1>4, <1>5, ExtentOf, Zenon DEF Earliest, sel
<1>10. ClipList(Offsets(ids))
  <2>. DEFINE first == Earliest(ids)
              new == [n \in DOMAIN sel |-> [sel[n] EXCEPT !.start = @ - first]]
  <2>1. Offsets(ids) = new
    BY Zenon DEF Offsets, sel
  <2>2. first \in Int
    BY <1>9
  <2>. HIDE DEF first
  <2>3. ASSUME NEW n \in DOMAIN sel PROVE Like(new[n], sel[n])
    <3>1. new[n] = [sel[n] EXCEPT !.start = sel[n].start - first]
      OBVIOUS
    <3>2. sel[n].start - first \in Int
      BY <1>8, <2>2
    <3>. QED BY <1>8, <3>1, <3>2, LikeEdited
  <2>4. new = [n \in DOMAIN sel |-> new[n]]
    OBVIOUS
  <2>. HIDE DEF new
  <2>. QED BY <1>4, <2>1, <2>3, <2>4, LikeList
<1>. QED BY <1>4, <1>6, <1>7, <1>8, <1>9, <1>10 DEF sel

\* The operations on a selection
LEMMA SelectionSound ==
    ASSUME ClipList(doc.clips), NEW ids \in SUBSET Ids(doc.clips), ids # {}
    PROVE  /\ Sound(Picked(doc.clips, Ascending({i \in DOMAIN doc.clips : doc.clips[i].id \notin FreeOf(ids)})), doc.clips)
           /\ \A t \in Int : Sound(Repeated(Len(Selected(ids)), doc.clips, LAMBDA cs, i : SplitAt(cs, Selected(ids)[i].id, t)), doc.clips)
           /\ \A by \in Int : Sound(ChangeAll(doc.clips, LAMBDA c : c.id \in FreeOf(ids),
                                             LAMBDA c : [c EXCEPT !.start = @ + Larger(by, -Earliest(ids))]), doc.clips)
PROOF
<1>. DEFINE clips == doc.clips
            S == {i \in DOMAIN clips : clips[i].id \notin FreeOf(ids)}
<1>1. \A i \in DOMAIN clips : clips[i].locked => clips[i].id \notin FreeOf(ids)
  <2>1. ASSUME NEW i \in DOMAIN clips, clips[i].id \in FreeOf(ids) PROVE ~clips[i].locked
    <3>1. Free(clips, clips[i].id)
      BY <2>1 DEF FreeOf
    <3>2. clips[i].id \in Ids(clips)
      BY DEF Ids
    <3>. QED BY <3>1, <3>2, NamedIs
  <2>. QED BY <2>1
<1>2. Sound(Picked(clips, Ascending(S)), clips)
  <2>1. S \subseteq DOMAIN clips /\ \A i \in DOMAIN clips : clips[i].locked => i \in S
    BY <1>1
  <2>. HIDE DEF S
  <2>. QED BY <2>1, PickedClips
<1>3. ASSUME NEW t \in Int
      PROVE  Sound(Repeated(Len(Selected(ids)), clips, LAMBDA cs, i : SplitAt(cs, Selected(ids)[i].id, t)), clips)
  <2>. DEFINE chosen == Selected(ids)
  <2>1. Len(chosen) \in Nat
    BY SelectedAre
  <2>. HIDE DEF chosen
  <2>2. Sound(Repeated(Len(chosen), clips, LAMBDA cs, i : SplitAt(cs, chosen[i].id, t)), clips)
    BY <2>1, SplitEach, Zenon DEF Repeated
  <2>. QED BY <2>2 DEF chosen
<1>4. ASSUME NEW by \in Int
      PROVE  Sound(ChangeAll(clips, LAMBDA c : c.id \in FreeOf(ids),
                             LAMBDA c : [c EXCEPT !.start = @ + Larger(by, -Earliest(ids))]), clips)
  <2>. DEFINE delta == Larger(by, -Earliest(ids))
              new == ChangeAll(clips, LAMBDA c : c.id \in FreeOf(ids), LAMBDA c : [c EXCEPT !.start = @ + delta])
  <2>1. delta \in Int
    <3>1. Earliest(ids) \in Int
      BY SelectedAre
    <3>. QED BY <3>1 DEF Larger
  <2>. HIDE DEF delta
  <2>2. ASSUME NEW c, IsClip(c) PROVE Like([c EXCEPT !.start = @ + delta], c)
    <3>1. c.start + delta \in Int
      BY <2>1, <2>2 DEF IsClip
    <3>2. [c EXCEPT !.start = @ + delta] = [c EXCEPT !.start = c.start + delta]
      OBVIOUS
    <3>. QED BY <2>2, <3>1, <3>2, LikeEdited
  <2>3. \A i \in DOMAIN clips : Like(clips[i], clips[i]) /\ Like([clips[i] EXCEPT !.start = @ + delta], clips[i])
    BY <2>2, ClipListIs
  <2>4. Revised(new, clips)
    BY <1>1, <2>3, Zenon DEF ChangeAll, Revised
  <2>. HIDE DEF new
  <2>5. Sound(new, clips)
    BY <2>4, RevisedSound
  <2>. QED BY <2>5 DEF new, delta
<1>. QED BY <1>2, <1>3, <1>4

\* Copies of a selection
LEMMA CopiesSound ==
    ASSUME ClipList(doc.clips), NEW ids \in SUBSET Ids(doc.clips), ids # {}, NEW span,
           span = Max({End(c) : c \in ToSet(Selected(ids))}) - Earliest(ids)
    PROVE  Sound(Repeated(Len(Selected(ids)), doc.clips,
                          LAMBDA cs, i : Duplicate(cs, Selected(ids)[i].id, Selected(ids)[i].start + span)), doc.clips)
PROOF
<1>. DEFINE chosen == Selected(ids)
            last == Max({End(c) : c \in ToSet(chosen)})
<1>1. /\ Len(chosen) \in Nat /\ last \in Int /\ Earliest(ids) \in Int
      /\ \A i \in 1 .. Len(chosen) : chosen[i].id \in Ids(doc.clips) /\ chosen[i].start \in Int
  BY SelectedAre
<1>. HIDE DEF last
<1>2. span \in Int
  BY <1>1 DEF last
<1>. HIDE DEF chosen
<1>3. Sound(Repeated(Len(chosen), doc.clips, LAMBDA cs, i : Duplicate(cs, chosen[i].id, chosen[i].start + span)), doc.clips)
  BY <1>1, <1>2, DuplicateEach, Zenon DEF Repeated
<1>. QED BY <1>3 DEF chosen

\* A clip pasted to another track and taken from its own
LEMMA TransferSound ==
    ASSUME NEW clips, ClipList(clips), NEW id \in Ids(clips), NEW t \in Int, NEW track \in Int,
           NEW pasted, pasted = Paste(clips, [Named(clips, id) EXCEPT !.track = track], t)
    PROVE  Sound(pasted, clips) /\ (~Named(clips, id).locked => Sound(Without(pasted, id), clips))
PROOF
<1>. DEFINE c == [Named(clips, id) EXCEPT !.track = track]
<1>1. IsClip(c)
  <2>1. IsClip(Named(clips, id))
    BY NamedIs
  <2>2. Like(c, Named(clips, id))
    BY <2>1, LikeEdited, Zenon
  <2>. HIDE DEF c
  <2>. QED BY <2>2 DEF Like
<1>. HIDE DEF c
<1>2. Sound(Paste(clips, c, t), clips)
  BY <1>1, PlacedSound
<1>3. Sound(pasted, clips)
  BY <1>2 DEF c
<1>4. ~Named(clips, id).locked => Free(clips, id)
  BY Zenon DEF Free
<1>. QED BY <1>3, <1>4, WithoutSound

-----------------------------------------------------------------------------
\* Lists of MIDI regions whose locked regions stay

\* A region with the id and the lock of another
AsRegion(d, r) == IsRegion(d) /\ d.id = r.id /\ d.locked = r.locked
RegionsSound(new, old) == RegionList(new) /\ LockedStay(new, old)

\* What a list of regions is
LEMMA RegionListIs ==
    ASSUME NEW regions, RegionList(regions)
    PROVE  /\ Listed(regions) /\ Labelled(regions) /\ DOMAIN regions = 1 .. Len(regions) /\ Len(regions) \in Nat
           /\ \A i \in DOMAIN regions : IsRegion(regions[i]) /\ AsRegion(regions[i], regions[i])
           /\ \A i, k \in DOMAIN regions : regions[i].id = regions[k].id => i = k
PROOF
<1>1. Labelled(regions) /\ Listed(regions) /\ \A i \in DOMAIN regions : IsRegion(regions[i])
  BY Zenon DEF RegionList, Labelled
<1>2. DOMAIN regions = 1 .. Len(regions) /\ Len(regions) \in Nat
  BY <1>1, ListedIs
<1>. QED BY <1>1, <1>2, Zenon DEF Labelled, AsRegion

\* A list that stays as it is, and one change after another
LEMMA RegionsAgain ==
    ASSUME NEW a, NEW b, NEW c, RegionList(a)
    PROVE  RegionsSound(a, a) /\ (RegionsSound(b, a) /\ RegionsSound(c, b) => RegionsSound(c, a))
PROOF
BY DEF RegionsSound, LockedStay

\* A region changed without its id and its lock
LEMMA RegionEdited ==
    ASSUME NEW r, IsRegion(r)
    PROVE  /\ \A v \in Int : AsRegion([r EXCEPT !.start = v], r) /\ AsRegion([r EXCEPT !.dur = v], r)
           /\ \A v : /\ AsRegion([r EXCEPT !.track = v], r) /\ AsRegion([r EXCEPT !.notes = v], r)
                     /\ AsRegion([r EXCEPT !.events = v], r) /\ AsRegion([r EXCEPT !.muted = v], r)
PROOF
<1>1. /\ "id" \in DOMAIN r /\ "start" \in DOMAIN r /\ "dur" \in DOMAIN r /\ "locked" \in DOMAIN r
      /\ r.id \in Nat /\ r.start \in Int /\ r.dur \in Int
  BY DEF IsRegion
<1>2. ASSUME NEW field, field \notin {"id", "locked"}, NEW v, field \in {"start", "dur"} => v \in Int
      PROVE  AsRegion([r EXCEPT ![field] = v], r)
  <2>. DEFINE d == [r EXCEPT ![field] = v]
  <2>1. DOMAIN d = DOMAIN r /\ \A f \in DOMAIN r : d[f] = IF f = field THEN v ELSE r[f]
    OBVIOUS
  <2>. HIDE DEF d
  <2>2. d.id = r.id /\ d.locked = r.locked
    BY <1>1, <1>2, <2>1
  <2>3. d.start \in Int /\ d.dur \in Int
    BY <1>1, <1>2, <2>1
  <2>4. IsRegion(d)
    BY <1>1, <2>1, <2>2, <2>3 DEF IsRegion
  <2>. QED BY <2>2, <2>4 DEF AsRegion, d
<1>3. ASSUME NEW v \in Int PROVE AsRegion([r EXCEPT !.start = v], r) /\ AsRegion([r EXCEPT !.dur = v], r)
  BY <1>2, Zenon
<1>4. ASSUME NEW v
      PROVE  /\ AsRegion([r EXCEPT !.track = v], r) /\ AsRegion([r EXCEPT !.notes = v], r)
             /\ AsRegion([r EXCEPT !.events = v], r) /\ AsRegion([r EXCEPT !.muted = v], r)
  BY <1>2, Zenon
<1>. QED BY <1>3, <1>4, Zenon

\* One change of a region after another
LEMMA RegionAgain ==
    ASSUME NEW a, NEW b, NEW c, AsRegion(b, a), AsRegion(c, b)
    PROVE  AsRegion(c, a)
PROOF
BY DEF AsRegion

\* Regions changed at their places, the locked ones not at all
LEMMA RevisedRegions ==
    ASSUME NEW old, RegionList(old), NEW new, new = [i \in DOMAIN old |-> new[i]],
           \A i \in DOMAIN old : AsRegion(new[i], old[i]) /\ (old[i].locked => new[i] = old[i])
    PROVE  RegionsSound(new, old) /\ DOMAIN new = DOMAIN old /\ \A i \in DOMAIN old : new[i].id = old[i].id
PROOF
<1>1. /\ new = [i \in DOMAIN old |-> new[i]] /\ Labelled(old)
      /\ \A i \in DOMAIN old : IsRegion(new[i]) /\ new[i].id = old[i].id /\ (old[i].locked => new[i] = old[i])
  BY RegionListIs, Zenon DEF AsRegion
<1>2. Labelled(new) /\ DOMAIN new = DOMAIN old
  BY <1>1, ReplacedLabelled
<1>3. \A i \in DOMAIN new : IsRegion(new[i])
  BY <1>1, <1>2
<1>4. LockedStay(new, old)
  BY <1>1, <1>2 DEF LockedStay
<1>. QED BY <1>1, <1>2, <1>3, <1>4, Zenon DEF RegionsSound, RegionList

\* The region that a command names is the region of the list that has the id.
LEMMA RegionIs ==
    ASSUME NEW regions, RegionList(regions), NEW id \in RegionIds(regions)
    PROVE  /\ \E i \in DOMAIN regions : Region(regions, id) = regions[i] /\ regions[i].id = id
           /\ \A i \in DOMAIN regions : regions[i].id = id => regions[i] = Region(regions, id)
           /\ IsRegion(Region(regions, id)) /\ Region(regions, id).id = id
           /\ FreeRegion(regions, id) => \A i \in DOMAIN regions : regions[i].id = id => ~regions[i].locked
PROOF
<1>. DEFINE I == {i \in 1 .. Len(regions) : regions[i].id = id}
<1>1. DOMAIN regions = 1 .. Len(regions) /\ Len(regions) \in Nat
  BY RegionListIs
<1>2. I # {} /\ I \in SUBSET Nat
  BY <1>1 DEF RegionIds
<1>3. Min(I) \in I
  <2>. HIDE DEF I
  <2>. QED BY <1>2, LeastIn
<1>4. Region(regions, id) = regions[Min(I)]
  BY <1>2, Zenon DEF Region, SelectInSeq
<1>5. Min(I) \in DOMAIN regions /\ regions[Min(I)].id = id
  BY <1>1, <1>3
<1>6. \A i \in DOMAIN regions : regions[i].id = id => i = Min(I)
  BY <1>5, RegionListIs, Zenon
<1>7. IsRegion(regions[Min(I)])
  BY <1>5, RegionListIs, Zenon
<1>. HIDE DEF I
<1>8. FreeRegion(regions, id) => \A i \in DOMAIN regions : regions[i].id = id => ~regions[i].locked
  BY <1>4, <1>6, Zenon DEF FreeRegion
<1>9. \A i \in DOMAIN regions : regions[i].id = id => regions[i] = Region(regions, id)
  BY <1>4, <1>6, Zenon
<1>. QED BY <1>4, <1>5, <1>7, <1>8, <1>9, Zenon

\* The id of a new region is new.
LEMMA NextIdIs ==
    ASSUME NEW regions, RegionList(regions)
    PROVE  NextId(regions) \in Nat /\ \A i \in DOMAIN regions : regions[i].id # NextId(regions)
PROOF
<1>. DEFINE len == Len(regions)
            unused == {n \in 1 .. len + 1 : \A i \in DOMAIN regions : regions[i].id # n}
<1>1. len \in Nat /\ DOMAIN regions = 1 .. len
  BY RegionListIs
<1>. HIDE DEF len
<1>2. unused # {}
  <2>1. SUFFICES ASSUME \A n \in 1 .. len + 1 : \E i \in 1 .. len : regions[i].id = n PROVE FALSE
    BY <1>1
  <2>. DEFINE S == 1 .. len + 1
              T == 1 .. len
              f == [n \in S |-> CHOOSE i \in T : regions[i].id = n]
  <2>2. IsFiniteSet(S) /\ IsFiniteSet(T) /\ Cardinality(T) < Cardinality(S)
    <3>1. /\ IsFiniteSet(1 .. len + 1) /\ Cardinality(1 .. len + 1) = len + 1
          /\ IsFiniteSet(1 .. len) /\ Cardinality(1 .. len) = len
      BY <1>1, FS_Interval
    <3>. QED BY <1>1, <3>1
  <2>. HIDE DEF S, T
  <2>3. \A n \in S : f[n] \in T /\ regions[f[n]].id = n
    BY <2>1, Zenon DEF S, T
  <2>4. f \in [S -> T]
    BY <2>3, Zenon
  <2>. HIDE DEF f
  <2>5. \E m, n \in S : m # n /\ f[m] = f[n]
    BY <2>2, <2>4, FS_PigeonHole
  <2>. QED BY <2>3, <2>5
<1>3. unused \in SUBSET Nat
  BY <1>1
<1>4. Min(unused) \in unused
  <2>. HIDE DEF unused
  <2>. QED BY <1>2, <1>3, LeastIn
<1>5. NextId(regions) = Min(unused)
  BY Zenon DEF NextId, len
<1>. QED BY <1>3, <1>4, <1>5

Precedes(regions, i, k) ==
    \/ regions[i].start < regions[k].start
    \/ regions[i].start = regions[k].start /\ (regions[i].id < regions[k].id \/ (regions[i].id = regions[k].id /\ i < k))
Preceding(regions) == {p \in (DOMAIN regions) \X (DOMAIN regions) : Precedes(regions, p[1], p[2])}

\* The order of regions is an order of their places,
LEMMA PrecedesOrder ==
    ASSUME NEW regions, RegionList(regions)
    PROVE  /\ Orders(Preceding(regions), DOMAIN regions)
           /\ \A i, k \in DOMAIN regions : <<k, i>> \in Preceding(regions) <=> Precedes(regions, k, i)
PROOF
<1>. DEFINE S == DOMAIN regions
            R == Preceding(regions)
<1>1. \A i, k \in S : <<k, i>> \in R <=> Precedes(regions, k, i)
  BY DEF Preceding
<1>2. \A i \in S : i \in Int /\ regions[i].start \in Int /\ regions[i].id \in Int
  <2>1. \A i \in S : IsRegion(regions[i])
    BY RegionListIs, Zenon
  <2>2. S = 1 .. Len(regions) /\ Len(regions) \in Nat
    BY RegionListIs
  <2>3. \A i \in S : regions[i].start \in Int /\ regions[i].id \in Nat
    BY <2>1, Zenon DEF IsRegion
  <2>. HIDE DEF S
  <2>. QED BY <2>2, <2>3
<1>. HIDE DEF R, S
<1>3. \A i \in S : <<i, i>> \notin R
  <2>1. ASSUME NEW i \in S PROVE ~Precedes(regions, i, i)
    BY <1>2 DEF Precedes
  <2>. QED BY <1>1, <2>1
<1>4. ASSUME NEW i \in S, NEW j \in S, NEW k \in S, Precedes(regions, i, j), Precedes(regions, j, k)
      PROVE  Precedes(regions, i, k)
  BY <1>2, <1>4 DEF Precedes
<1>5. ASSUME NEW i \in S, NEW j \in S, i # j PROVE Precedes(regions, i, j) \/ Precedes(regions, j, i)
  BY <1>2, <1>5 DEF Precedes
<1>6. Orders(R, S)
  BY <1>1, <1>3, <1>4, <1>5 DEF Orders
<1>. QED BY <1>1, <1>6 DEF R, S

\* and what is put in it has the regions there were.
LEMMA OrderedRegions ==
    ASSUME NEW regions, RegionList(regions)
    PROVE  /\ RegionsSound(InRegionOrder(regions), regions)
           /\ \A n \in DOMAIN InRegionOrder(regions) : \E i \in DOMAIN regions : InRegionOrder(regions)[n] = regions[i]
PROOF
<1>. DEFINE S == DOMAIN regions
            f == Ranked(S, LAMBDA i, k : Precedes(regions, i, k))
            R == Preceding(regions)
            new == Picked(regions, f)
<1>1. InRegionOrder(regions) = Picked(regions, f)
  BY Zenon DEF InRegionOrder, Precedes
<1>2. f = [n \in 1 .. Cardinality(S) |-> CHOOSE i \in S : Cardinality({k \in S : Precedes(regions, k, i)}) = n - 1]
  BY Zenon DEF Ranked
<1>3. S = 1 .. Len(regions) /\ Len(regions) \in Nat /\ \A i, k \in S : regions[i].id = regions[k].id => i = k
  BY RegionListIs
<1>4. IsFiniteSet(S)
  BY <1>3, FS_Interval
<1>5. Orders(R, S) /\ \A i, k \in S : <<k, i>> \in R <=> Precedes(regions, k, i)
  BY PrecedesOrder
<1>. HIDE DEF S, f, R
<1>6. \A i \in S : {k \in S : Precedes(regions, k, i)} = Below(S, R, i)
  BY <1>5 DEF Below
<1>7. f = [n \in 1 .. Cardinality(S) |-> CHOOSE i \in S : Cardinality(Below(S, R, i)) = n - 1]
  <2>. DEFINE A(n) == CHOOSE i \in S : Cardinality({k \in S : Precedes(regions, k, i)}) = n - 1
              B(n) == CHOOSE i \in S : Cardinality(Below(S, R, i)) = n - 1
  <2>1. \A n : A(n) = B(n)
    BY <1>6
  <2>2. f = [n \in 1 .. Cardinality(S) |-> A(n)]
    BY <1>2, Zenon
  <2>. HIDE DEF A, B
  <2>3. f = [n \in 1 .. Cardinality(S) |-> B(n)]
    BY <2>1, <2>2, Zenon
  <2>. QED BY <2>3, Zenon DEF B
<1>8. Enumerates(f, S)
  BY <1>4, <1>5, <1>7, RankedLists
<1>9. S \subseteq DOMAIN regions
  BY DEF S
<1>10. /\ Labelled(new)
       /\ \A n \in DOMAIN new : \E i \in S : new[n] = regions[i]
       /\ \A i \in S : \E n \in DOMAIN new : new[n] = regions[i]
  <2>1. \A i, k \in S : regions[i].id = regions[k].id => i = k
    BY <1>3
  <2>. HIDE DEF new
  <2>2. /\ Labelled(Picked(regions, f))
        /\ \A n \in DOMAIN Picked(regions, f) : \E i \in S : Picked(regions, f)[n] = regions[i]
        /\ \A i \in S : \E n \in DOMAIN Picked(regions, f) : Picked(regions, f)[n] = regions[i]
    BY <1>8, <1>9, <2>1, PickLabelled
  <2>. QED BY <2>2 DEF new
<1>. HIDE DEF new
<1>11. \A n \in DOMAIN new : IsRegion(new[n])
  BY <1>10, RegionListIs DEF S
<1>12. RegionList(new) /\ LockedStay(new, regions)
  BY <1>10, <1>11, Zenon DEF RegionList, LockedStay, S
<1>13. RegionsSound(new, regions)
  BY <1>12 DEF RegionsSound
<1>14. \A n \in DOMAIN new : \E i \in DOMAIN regions : new[n] = regions[i]
  BY <1>10 DEF S
<1>. QED BY <1>1, <1>13, <1>14, Zenon DEF new

-----------------------------------------------------------------------------
\* The operations on MIDI regions

\* What an operation makes of the region with an id that is not locked
LEMMA ChangedRegions ==
    ASSUME NEW regions, RegionList(regions), NEW id, \A i \in DOMAIN regions : regions[i].id = id => ~regions[i].locked,
           NEW made, \A i \in DOMAIN regions : regions[i].id = id => AsRegion(made[i], regions[i]),
           NEW new, new = [i \in DOMAIN regions |-> IF regions[i].id = id THEN made[i] ELSE regions[i]]
    PROVE  RegionsSound(new, regions) /\ DOMAIN new = DOMAIN regions /\ \A i \in DOMAIN regions : new[i].id = regions[i].id
PROOF
<1>1. \A i \in DOMAIN regions : AsRegion(regions[i], regions[i])
  BY RegionListIs, Zenon
<1>2. new = [i \in DOMAIN regions |-> new[i]]
  BY Zenon
<1>3. \A i \in DOMAIN regions : AsRegion(new[i], regions[i]) /\ (regions[i].locked => new[i] = regions[i])
  BY <1>1, Zenon
<1>. QED BY <1>2, <1>3, RevisedRegions

\* One more region, in its place
LEMMA AddedRegions ==
    ASSUME NEW old, RegionList(old), NEW regions, RegionsSound(regions, old),
           NEW r, IsRegion(r), \A i \in DOMAIN regions : regions[i].id # r.id
    PROVE  /\ RegionsSound(InRegionOrder(Append(regions, r)), old)
           /\ \A n \in DOMAIN InRegionOrder(Append(regions, r)) :
                 \/ InRegionOrder(Append(regions, r))[n] = r
                 \/ InRegionOrder(Append(regions, r))[n].id # r.id
PROOF
<1>. DEFINE more == Append(regions, r)
            new == InRegionOrder(more)
<1>1. RegionList(regions) /\ Labelled(regions) /\ Listed(regions) /\ Len(regions) \in Nat /\ DOMAIN regions = 1 .. Len(regions)
  BY RegionListIs DEF RegionsSound
<1>2. /\ DOMAIN more = 1 .. Len(regions) + 1 /\ more[Len(regions) + 1] = r
      /\ \A i \in DOMAIN regions : more[i] = regions[i]
  BY <1>1, AppendListed
<1>3. Labelled(more)
  BY <1>1, AppendLabelled
<1>. HIDE DEF more
<1>4. \A n \in DOMAIN more : n = Len(regions) + 1 \/ n \in DOMAIN regions
  BY <1>1, <1>2
<1>5. \A n \in DOMAIN more : IsRegion(more[n]) /\ (more[n] = r \/ more[n].id # r.id)
  BY <1>1, <1>2, <1>4, RegionListIs
<1>6. RegionList(more)
  BY <1>3, <1>5, Zenon DEF RegionList
<1>7. \A i \in DOMAIN regions : i \in DOMAIN more
  BY <1>1, <1>2
<1>8. RegionsSound(more, old)
  BY <1>2, <1>6, <1>7, Zenon DEF RegionsSound, LockedStay
<1>9. RegionsSound(new, more) /\ \A n \in DOMAIN new : \E i \in DOMAIN more : new[n] = more[i]
  BY <1>6, OrderedRegions
<1>. HIDE DEF new
<1>10. RegionsSound(new, old)
  BY <1>8, <1>9, RegionsAgain
<1>11. \A n \in DOMAIN new : new[n] = r \/ new[n].id # r.id
  BY <1>5, <1>9
<1>. QED BY <1>10, <1>11 DEF new, more

\* A new region
LEMMA AddedRegionSound ==
    ASSUME NEW d, "regions" \in DOMAIN d, RegionList(d.regions), NEW name, NEW start \in Int, NEW dur \in Int, MinDur \in Int
    PROVE  /\ RegionsSound(AddRegion(d, name, start, dur).regions, d.regions)
           /\ \A n \in DOMAIN AddRegion(d, name, start, dur).regions :
                 AddRegion(d, name, start, dur).regions[n].id = NextId(d.regions) => ~AddRegion(d, name, start, dur).regions[n].locked
PROOF
<1>. DEFINE id == NextId(d.regions)
            r == [id |-> id, track |-> name, start |-> start, dur |-> AtLeast(MinDur, dur), notes |-> <<>>, events |-> <<>>,
                  muted |-> FALSE, locked |-> FALSE]
<1>1. AddRegion(d, name, start, dur).regions = InRegionOrder(Append(d.regions, r))
  BY Zenon DEF AddRegion
<1>2. id \in Nat /\ \A i \in DOMAIN d.regions : d.regions[i].id # id
  BY NextIdIs
<1>. HIDE DEF id
<1>3. AtLeast(MinDur, dur) \in Int
  BY DEF AtLeast
<1>4. IsRegion(r) /\ r.id = id /\ ~r.locked
  BY <1>2, <1>3 DEF IsRegion
<1>. HIDE DEF r
<1>5. RegionsSound(d.regions, d.regions)
  BY RegionsAgain
<1>. DEFINE new == InRegionOrder(Append(d.regions, r))
<1>6. RegionsSound(new, d.regions) /\ \A n \in DOMAIN new : new[n] = r \/ new[n].id # r.id
  <2>1. \A i \in DOMAIN d.regions : d.regions[i].id # r.id
    BY <1>2, <1>4
  <2>. HIDE DEF new
  <2>2. /\ RegionsSound(InRegionOrder(Append(d.regions, r)), d.regions)
        /\ \A n \in DOMAIN InRegionOrder(Append(d.regions, r)) :
              \/ InRegionOrder(Append(d.regions, r))[n] = r
              \/ InRegionOrder(Append(d.regions, r))[n].id # r.id
    BY <1>4, <1>5, <2>1, AddedRegions
  <2>. QED BY <2>2, Zenon DEF new
<1>. HIDE DEF new
<1>7. \A n \in DOMAIN new : new[n].id = id => ~new[n].locked
  BY <1>4, <1>6
<1>. QED BY <1>1, <1>6, <1>7, Zenon DEF new, id

\* A region at another time
LEMMA RegionTimed ==
    ASSUME NEW r, IsRegion(r), NEW start \in Int, NEW dur \in Int
    PROVE  /\ \A name : AsRegion([r EXCEPT !.track = name, !.start = start], r)
           /\ \A notes, events : AsRegion([r EXCEPT !.start = start, !.dur = dur, !.notes = notes, !.events = events], r)
           /\ \A notes : AsRegion([r EXCEPT !.dur = dur, !.notes = notes], r)
PROOF
<1>1. ASSUME NEW name PROVE AsRegion([r EXCEPT !.track = name, !.start = start], r)
  <2>. DEFINE a == [r EXCEPT !.track = name]
              b == [a EXCEPT !.start = start]
  <2>1. [r EXCEPT !.track = name, !.start = start] = b
    OBVIOUS
  <2>2. AsRegion(a, r)
    BY RegionEdited, Zenon
  <2>. HIDE DEF a
  <2>3. AsRegion(b, a)
    BY <2>2, RegionEdited DEF AsRegion
  <2>. HIDE DEF b
  <2>. QED BY <2>1, <2>2, <2>3, RegionAgain
<1>2. ASSUME NEW notes PROVE AsRegion([r EXCEPT !.dur = dur, !.notes = notes], r)
  <2>. DEFINE a == [r EXCEPT !.dur = dur]
              b == [a EXCEPT !.notes = notes]
  <2>1. [r EXCEPT !.dur = dur, !.notes = notes] = b
    OBVIOUS
  <2>2. AsRegion(a, r)
    BY RegionEdited, Zenon
  <2>. HIDE DEF a
  <2>3. AsRegion(b, a)
    BY <2>2, RegionEdited DEF AsRegion
  <2>. HIDE DEF b
  <2>. QED BY <2>1, <2>2, <2>3, RegionAgain
<1>3. ASSUME NEW notes, NEW events
      PROVE  AsRegion([r EXCEPT !.start = start, !.dur = dur, !.notes = notes, !.events = events], r)
  <2>. DEFINE a == [r EXCEPT !.start = start]
              b == [a EXCEPT !.dur = dur]
              c == [b EXCEPT !.notes = notes]
              e == [c EXCEPT !.events = events]
  <2>1. [r EXCEPT !.start = start, !.dur = dur, !.notes = notes, !.events = events] = e
    OBVIOUS
  <2>2. AsRegion(a, r)
    BY RegionEdited, Zenon
  <2>. HIDE DEF a
  <2>3. AsRegion(b, a)
    BY <2>2, RegionEdited DEF AsRegion
  <2>. HIDE DEF b
  <2>4. AsRegion(c, b)
    BY <2>3, RegionEdited DEF AsRegion
  <2>. HIDE DEF c
  <2>5. AsRegion(e, c)
    BY <2>4, RegionEdited DEF AsRegion
  <2>. HIDE DEF e
  <2>. QED BY <2>1, <2>2, <2>3, <2>4, <2>5, RegionAgain
<1>. QED BY <1>1, <1>2, <1>3

\* A region whose start is moved
LEMMA TrimmedRegion ==
    ASSUME NEW r, IsRegion(r), NEW start \in Int, MinDur \in Int
    PROVE  AsRegion(TrimmedStart(r, start), r)
PROOF
<1>. DEFINE from == AtLeast(0, AtMost(RegionEnd(r) - MinDur, start))
            by == Units * (from - r.start)
            Cut(n) == IF n.at < by THEN [n EXCEPT !.len = AtLeast(0, @ + n.at - by), !.at = 0] ELSE [n EXCEPT !.at = @ - by]
            cut == [i \in DOMAIN r.notes |-> Cut(r.notes[i])]
            shifted == [i \in DOMAIN r.events |-> [r.events[i] EXCEPT !.at = @ - by]]
            a == [r EXCEPT !.notes = cut]
            dur == AtLeast(MinDur, RegionEnd(r) - from)
            notes == SelectSeq(a.notes, LAMBDA n : n.len > 1)
            events == SelectSeq(shifted, LAMBDA e : e.at >= 0)
<1>1. TrimmedStart(r, start) = [a EXCEPT !.start = from, !.dur = dur, !.notes = notes, !.events = events]
  BY Zenon DEF TrimmedStart, Notes
<1>2. from \in Int /\ dur \in Int
  <2>1. r.start \in Int /\ r.dur \in Int
    BY DEF IsRegion
  <2>2. RegionEnd(r) \in Int
    BY <2>1 DEF RegionEnd
  <2>3. from \in Int
    BY <2>2 DEF AtLeast, AtMost
  <2>. HIDE DEF from
  <2>. QED BY <2>2, <2>3 DEF AtLeast
<1>. HIDE DEF cut, notes, events, from, dur
<1>3. AsRegion(a, r)
  BY RegionEdited, Zenon
<1>. HIDE DEF a
<1>4. AsRegion([a EXCEPT !.start = from, !.dur = dur, !.notes = notes, !.events = events], a)
  <2>1. IsRegion(a)
    BY <1>3 DEF AsRegion
  <2>. QED BY <1>2, <2>1, RegionTimed
<1>. QED BY <1>1, <1>3, <1>4, RegionAgain

\* Moving and resizing a region, trimming its start and muting it
LEMMA MovedRegions ==
    ASSUME NEW regions, RegionList(regions), NEW id \in RegionIds(regions), FreeRegion(regions, id),
           NEW t \in Int, MinDur \in Int
    PROVE  /\ \A name : RegionsSound(InRegionOrder(ChangeRegion(regions, id, LAMBDA r : [r EXCEPT !.track = name, !.start = t])), regions)
           /\ RegionsSound(ResizeRegion(regions, id, t), regions)
           /\ RegionsSound(TrimRegionStart(regions, id, t), regions)
           /\ \A on : RegionsSound(SetRegionFlag(regions, id, "muted", on), regions)
PROOF
<1>1. \A i \in DOMAIN regions : IsRegion(regions[i]) /\ (regions[i].id = id => ~regions[i].locked)
  BY RegionListIs, RegionIs
<1>2. ASSUME NEW mid, RegionsSound(mid, regions) PROVE RegionsSound(InRegionOrder(mid), regions)
  BY <1>2, OrderedRegions, RegionsAgain DEF RegionsSound
<1>3. ASSUME NEW name
      PROVE  RegionsSound(InRegionOrder(ChangeRegion(regions, id, LAMBDA r : [r EXCEPT !.track = name, !.start = t])), regions)
  <2>. DEFINE made == [i \in DOMAIN regions |-> [regions[i] EXCEPT !.track = name, !.start = t]]
              new == ChangeRegion(regions, id, LAMBDA r : [r EXCEPT !.track = name, !.start = t])
  <2>1. new = [i \in DOMAIN regions |-> IF regions[i].id = id THEN made[i] ELSE regions[i]]
    BY DEF ChangeRegion
  <2>2. \A i \in DOMAIN regions : AsRegion(made[i], regions[i])
    BY <1>1, RegionTimed
  <2>. HIDE DEF made, new
  <2>3. RegionsSound(new, regions)
    BY <1>1, <2>1, <2>2, ChangedRegions
  <2>4. RegionsSound(InRegionOrder(new), regions)
    BY <1>2, <2>3
  <2>. QED BY <2>4 DEF new
<1>4. RegionsSound(ResizeRegion(regions, id, t), regions)
  <2>. DEFINE made == [i \in DOMAIN regions |-> [regions[i] EXCEPT !.dur = AtLeast(MinDur, t)]]
              new == ResizeRegion(regions, id, t)
  <2>1. new = [i \in DOMAIN regions |-> IF regions[i].id = id THEN made[i] ELSE regions[i]]
    BY DEF ChangeRegion, ResizeRegion
  <2>2. AtLeast(MinDur, t) \in Int
    BY DEF AtLeast
  <2>3. \A i \in DOMAIN regions : AsRegion(made[i], regions[i])
    BY <1>1, <2>2, RegionEdited
  <2>. HIDE DEF made, new
  <2>4. RegionsSound(new, regions)
    BY <1>1, <2>1, <2>3, ChangedRegions
  <2>. QED BY <2>4 DEF new
<1>5. RegionsSound(TrimRegionStart(regions, id, t), regions)
  <2>. DEFINE made == [i \in DOMAIN regions |-> TrimmedStart(regions[i], t)]
              new == ChangeRegion(regions, id, LAMBDA r : TrimmedStart(r, t))
  <2>1. new = [i \in DOMAIN regions |-> IF regions[i].id = id THEN made[i] ELSE regions[i]]
    BY DEF ChangeRegion
  <2>2. \A i \in DOMAIN regions : made[i] = TrimmedStart(regions[i], t)
    OBVIOUS
  <2>3. \A i \in DOMAIN regions : AsRegion(made[i], regions[i])
    <3>1. \A i \in DOMAIN regions : AsRegion(TrimmedStart(regions[i], t), regions[i])
      BY <1>1, TrimmedRegion
    <3>. QED BY <2>2, <3>1
  <2>. HIDE DEF made, new
  <2>4. RegionsSound(new, regions)
    BY <1>1, <2>1, <2>3, ChangedRegions
  <2>5. RegionsSound(InRegionOrder(new), regions)
    BY <1>2, <2>4
  <2>6. TrimRegionStart(regions, id, t) = InRegionOrder(new)
    BY Zenon DEF TrimRegionStart, new
  <2>. QED BY <2>5, <2>6
<1>6. ASSUME NEW on PROVE RegionsSound(SetRegionFlag(regions, id, "muted", on), regions)
  <2>. DEFINE made == [i \in DOMAIN regions |-> [regions[i] EXCEPT !.muted = on]]
              new == SetRegionFlag(regions, id, "muted", on)
  <2>1. new = [i \in DOMAIN regions |-> IF regions[i].id = id THEN made[i] ELSE regions[i]]
    BY DEF ChangeRegion, SetRegionFlag
  <2>2. \A i \in DOMAIN regions : AsRegion(made[i], regions[i])
    BY <1>1, RegionEdited
  <2>. HIDE DEF made, new
  <2>3. RegionsSound(new, regions)
    BY <1>1, <2>1, <2>2, ChangedRegions
  <2>. QED BY <2>3 DEF new
<1>. QED BY <1>3, <1>4, <1>5, <1>6

\* Splitting, copying and deleting a region
LEMMA SplitRegions ==
    ASSUME NEW regions, RegionList(regions), NEW id \in RegionIds(regions), FreeRegion(regions, id),
           NEW t \in Int, MinDur \in Int
    PROVE  RegionsSound(SplitRegion(regions, id, t), regions)
PROOF
<1>. DEFINE r == Region(regions, id)
            cut == Units * (t - r.start)
            before == SelectSeq(r.notes, LAMBDA n : n.at < cut)
            after == SelectSeq(r.notes, LAMBDA n : n.at + AtLeast(1, n.len) > cut)
            leftNotes == [i \in DOMAIN before |-> LeftNote(before[i], cut)]
            rightNotes == [i \in DOMAIN after |-> RightNote(after[i], cut)]
            leftDur == AtLeast(MinDur, t - r.start)
            rightDur == AtLeast(MinDur, RegionEnd(r) - t)
            new == NextId(regions)
            left == [r EXCEPT !.dur = leftDur, !.notes = leftNotes]
            right == [r EXCEPT !.id = new, !.start = t, !.dur = rightDur, !.notes = rightNotes]
            changed == ChangeRegion(regions, id, LAMBDA x : left)
<1>1. SplitRegion(regions, id, t) = InRegionOrder(Append(changed, right))
  BY Zenon DEF SplitRegion
<1>2. /\ IsRegion(r) /\ r.id = id
      /\ \A i \in DOMAIN regions : regions[i].id = id => regions[i] = r /\ ~regions[i].locked
  BY RegionIs
<1>3. new \in Nat /\ \A i \in DOMAIN regions : regions[i].id # new
  BY NextIdIs
<1>. HIDE DEF r, leftNotes, rightNotes, new
<1>4. leftDur \in Int /\ rightDur \in Int
  <2>1. r.start \in Int /\ r.dur \in Int
    BY <1>2 DEF IsRegion
  <2>. QED BY <2>1 DEF AtLeast, RegionEnd
<1>. HIDE DEF leftDur, rightDur
<1>5. AsRegion(left, r)
  BY <1>2, <1>4, RegionTimed
<1>6. IsRegion(right) /\ right.id = new
  <2>1. /\ "id" \in DOMAIN r /\ "start" \in DOMAIN r /\ "dur" \in DOMAIN r /\ "locked" \in DOMAIN r
    BY <1>2 DEF IsRegion
  <2>2. /\ right.id = new /\ right.start = t /\ right.dur = rightDur /\ DOMAIN right = DOMAIN r
    BY <2>1
  <2>. HIDE DEF right
  <2>. QED BY <1>3, <1>4, <2>1, <2>2 DEF IsRegion
<1>7. changed = [i \in DOMAIN regions |-> IF regions[i].id = id THEN left ELSE regions[i]]
  BY Zenon DEF ChangeRegion
<1>. HIDE DEF left, right, changed
<1>8. RegionsSound(changed, regions) /\ DOMAIN changed = DOMAIN regions /\ \A i \in DOMAIN regions : changed[i].id = regions[i].id
  <2>. DEFINE made == [i \in DOMAIN regions |-> left]
  <2>1. \A i \in DOMAIN regions : made[i] = left
    OBVIOUS
  <2>2. changed = [i \in DOMAIN regions |-> IF regions[i].id = id THEN made[i] ELSE regions[i]]
    BY <1>7
  <2>3. \A i \in DOMAIN regions : regions[i].id = id => AsRegion(made[i], regions[i])
    BY <1>2, <1>5, <2>1
  <2>4. \A i \in DOMAIN regions : regions[i].id = id => ~regions[i].locked
    BY <1>2
  <2>. HIDE DEF made
  <2>. QED BY <2>2, <2>3, <2>4, ChangedRegions
<1>9. \A i \in DOMAIN changed : changed[i].id # right.id
  BY <1>3, <1>6, <1>8
<1>10. RegionsSound(InRegionOrder(Append(changed, right)), regions)
  BY <1>6, <1>8, <1>9, AddedRegions
<1>. QED BY <1>1, <1>10

\* Copying and deleting a region
LEMMA CopiedRegions ==
    ASSUME NEW regions, RegionList(regions), NEW id \in RegionIds(regions), FreeRegion(regions, id), NEW t \in Int
    PROVE  RegionsSound(DuplicateRegion(regions, id, t), regions) /\ RegionsSound(DeleteRegion(regions, id), regions)
PROOF
<1>1. RegionsSound(DuplicateRegion(regions, id, t), regions)
  <2>. DEFINE r == Region(regions, id)
              new == NextId(regions)
              x == [r EXCEPT !.id = new, !.start = t]
  <2>1. DuplicateRegion(regions, id, t) = InRegionOrder(Append(regions, x))
    BY Zenon DEF DuplicateRegion
  <2>2. IsRegion(r)
    BY RegionIs
  <2>3. new \in Nat /\ \A i \in DOMAIN regions : regions[i].id # new
    BY NextIdIs
  <2>. HIDE DEF r, new
  <2>4. IsRegion(x) /\ x.id = new
    <3>1. /\ "id" \in DOMAIN r /\ "start" \in DOMAIN r /\ "dur" \in DOMAIN r /\ "locked" \in DOMAIN r /\ r.dur \in Int
      BY <2>2 DEF IsRegion
    <3>2. x.id = new /\ x.start = t /\ x.dur = r.dur /\ DOMAIN x = DOMAIN r
      BY <3>1
    <3>. HIDE DEF x
    <3>. QED BY <2>3, <3>1, <3>2 DEF IsRegion
  <2>. HIDE DEF x
  <2>5. \A i \in DOMAIN regions : regions[i].id # x.id
    BY <2>3, <2>4
  <2>6. RegionsSound(regions, regions)
    BY RegionsAgain
  <2>7. RegionsSound(InRegionOrder(Append(regions, x)), regions)
    BY <2>4, <2>5, <2>6, AddedRegions
  <2>. QED BY <2>1, <2>7
<1>2. RegionsSound(DeleteRegion(regions, id), regions)
  <2>. DEFINE S == {i \in DOMAIN regions : regions[i].id # id}
              f == Ascending(S)
              new == Picked(regions, f)
  <2>1. DeleteRegion(regions, id) = new
    BY Zenon DEF DeleteRegion
  <2>2. /\ DOMAIN regions = 1 .. Len(regions) /\ Len(regions) \in Nat
        /\ \A i, k \in DOMAIN regions : regions[i].id = regions[k].id => i = k
        /\ \A i \in DOMAIN regions : IsRegion(regions[i])
    BY RegionListIs
  <2>3. \A i \in DOMAIN regions : regions[i].locked => i \in S
    BY RegionIs
  <2>4. S \subseteq DOMAIN regions
    OBVIOUS
  <2>. HIDE DEF S, f
  <2>5. \A i, k \in S : regions[i].id = regions[k].id => i = k
    BY <2>2, <2>4
  <2>6. Enumerates(f, S)
    BY <2>2, <2>4, AscendingPlaces DEF f
  <2>. HIDE DEF new
  <2>7. /\ Labelled(Picked(regions, f))
        /\ \A n \in DOMAIN Picked(regions, f) : \E i \in S : Picked(regions, f)[n] = regions[i]
        /\ \A i \in S : \E n \in DOMAIN Picked(regions, f) : Picked(regions, f)[n] = regions[i]
    BY <2>4, <2>5, <2>6, PickLabelled
  <2>8. /\ Labelled(new)
        /\ \A n \in DOMAIN new : \E i \in S : new[n] = regions[i]
        /\ \A i \in S : \E n \in DOMAIN new : new[n] = regions[i]
    BY <2>7 DEF new
  <2>9. \A n \in DOMAIN new : IsRegion(new[n])
    BY <2>2, <2>4, <2>8
  <2>10. LockedStay(new, regions)
    BY <2>3, <2>8 DEF LockedStay
  <2>. QED BY <2>1, <2>8, <2>9, <2>10, Zenon DEF RegionsSound, RegionList
<1>. QED BY <1>1, <1>2

\* Locking and unlocking a region
LEMMA LockedRegions ==
    ASSUME NEW regions, RegionList(regions), NEW id, NEW on
    PROVE  RegionList(SetRegionFlag(regions, id, "locked", on))
PROOF
<1>. DEFINE new == SetRegionFlag(regions, id, "locked", on)
<1>1. Labelled(regions) /\ \A i \in DOMAIN regions : IsRegion(regions[i])
  BY RegionListIs
<1>2. ASSUME NEW r, IsRegion(r) PROVE IsRegion([r EXCEPT !.locked = on]) /\ [r EXCEPT !.locked = on].id = r.id
  BY <1>2 DEF IsRegion
<1>3. new = [i \in DOMAIN regions |-> IF regions[i].id = id THEN [regions[i] EXCEPT !.locked = on] ELSE regions[i]]
  BY DEF SetRegionFlag, ChangeRegion
<1>4. /\ new = [i \in DOMAIN regions |-> new[i]]
      /\ \A i \in DOMAIN regions : IsRegion(new[i]) /\ new[i].id = regions[i].id
  <2>. HIDE DEF new
  <2>. QED BY <1>1, <1>2, <1>3, Zenon
<1>. HIDE DEF new
<1>5. Labelled(new) /\ DOMAIN new = DOMAIN regions
  BY <1>1, <1>4, ReplacedLabelled
<1>. QED BY <1>4, <1>5, Zenon DEF RegionList, new

-----------------------------------------------------------------------------
\* Recorded takes and edited notes

\* The end of a take is a time.
LEMMA TakeEndIs ==
    ASSUME NEW take, Listed(take), \A i \in DOMAIN take : take[i].at \in Nat, NEW dur \in Nat
    PROVE  TakeEnd(take, dur) \in Int
PROOF
<1>. DEFINE n == Len(take)
            f == [i \in 1 .. n |-> take[i].at + 1]
            T == {f[i] : i \in 1 .. n}
            S == {Units * dur} \cup T
<1>1. n \in Nat /\ DOMAIN take = 1 .. n
  BY ListedIs
<1>. HIDE DEF n
<1>2. Units * dur \in Int
  BY UnitsAssumption
<1>3. {take[i].at + 1 : i \in DOMAIN take} = T
  BY <1>1
<1>4. \A i \in 1 .. n : f[i] \in Int
  BY <1>1
<1>. HIDE DEF f
<1>5. T \subseteq Int
  BY <1>4
<1>6. IsFiniteSet(T)
  <2>. HIDE DEF T
  <2>. QED BY <1>1, ValuesFinite DEF T
<1>. HIDE DEF T
<1>7. S = T \cup {Units * dur}
  OBVIOUS
<1>8. S \subseteq Int /\ S # {} /\ IsFiniteSet(S)
  BY <1>2, <1>5, <1>6, <1>7, FS_AddElement
<1>9. TakeEnd(take, dur) = Max(S)
  BY <1>3, Zenon DEF TakeEnd
<1>. HIDE DEF S
<1>10. Max(S) \in S
  BY <1>8, ExtremesIn
<1>. QED BY <1>8, <1>9, <1>10

\* A region that gets a take
LEMMA TakenRegion ==
    ASSUME NEW r, IsRegion(r), NEW dur \in Int, NEW range, NEW take, NEW start, NEW length
    PROVE  /\ AsRegion(WithTake([r EXCEPT !.dur = dur], take, start, length), r)
           /\ AsRegion(WithTake(Cleared([r EXCEPT !.dur = dur], range), take, start, length), r)
PROOF
<1>. DEFINE longer == [r EXCEPT !.dur = dur]
<1>1. AsRegion(longer, r)
  BY RegionEdited, Zenon
<1>. HIDE DEF longer
<1>2. ASSUME NEW x, IsRegion(x), NEW notes, NEW events PROVE AsRegion([x EXCEPT !.notes = notes, !.events = events], x)
  <2>. DEFINE a == [x EXCEPT !.notes = notes]
              b == [a EXCEPT !.events = events]
  <2>1. [x EXCEPT !.notes = notes, !.events = events] = b
    OBVIOUS
  <2>2. AsRegion(a, x)
    BY <1>2, RegionEdited, Zenon
  <2>. HIDE DEF a
  <2>3. AsRegion(b, a)
    BY <2>2, RegionEdited DEF AsRegion
  <2>. HIDE DEF b
  <2>. QED BY <2>1, <2>2, <2>3, RegionAgain
<1>3. ASSUME NEW x, IsRegion(x) PROVE AsRegion(WithTake(x, take, start, length), x)
  BY <1>2, <1>3, ZenonT(60) DEF WithTake
<1>4. AsRegion(Cleared(longer, range), longer)
  BY <1>1, <1>2, Zenon DEF Cleared, AsRegion
<1>5. AsRegion(WithTake(longer, take, start, length), r)
  BY <1>1, <1>3, RegionAgain DEF AsRegion
<1>. DEFINE cleared == Cleared(longer, range)
<1>. HIDE DEF cleared
<1>6. AsRegion(cleared, r)
  BY <1>1, <1>4, RegionAgain DEF cleared
<1>7. AsRegion(WithTake(cleared, take, start, length), r)
  BY <1>3, <1>6, RegionAgain DEF AsRegion
<1>. QED BY <1>5, <1>7 DEF longer, cleared

\* Recording a take
LEMMA RecordedRegions ==
    ASSUME NEW d, "regions" \in DOMAIN d, RegionList(d.regions), NEW name, NEW take, Listed(take),
           \A i \in DOMAIN take : take[i].at \in Nat, NEW start \in Int, NEW dur \in Nat, NEW mode, NEW punch, MinDur \in Int
    PROVE  RegionsSound(RecordTake(d, name, take, start, dur, mode, punch).regions, d.regions)
PROOF
<1>. DEFINE range == Replaced(take, start, dur, mode, punch)
            ticks == -((-TakeEnd(take, dur)) \div Units)
            found == IF mode = "new" THEN 0 ELSE TakeTargets(d.regions, name, range)
            held == IF found = 0 THEN AddRegion(d, name, start, ticks) ELSE d
            id == IF found = 0 THEN NextId(d.regions) ELSE d.regions[found].id
            Extended(r) == [r EXCEPT !.dur = AtLeast(@, start + ticks - r.start)]
            Kept(r) == IF mode \in {"replace", "punch"} /\ range[2] > range[1] THEN Cleared(r, range) ELSE r
            old == held.regions
            made == [i \in DOMAIN old |-> WithTake(Kept(Extended(old[i])), take, start, dur)]
            new == ChangeRegion(old, id, LAMBDA r : WithTake(Kept(Extended(r)), take, start, dur))
<1>1. "regions" \in DOMAIN held
  BY Zenon DEF AddRegion
<1>2. RecordTake(d, name, take, start, dur, mode, punch) = [held EXCEPT !.regions = new]
  BY Zenon DEF RecordTake
<1>3. RecordTake(d, name, take, start, dur, mode, punch).regions = new
  <2>. HIDE DEF held, new
  <2>. QED BY <1>1, <1>2
<1>4. ticks \in Int
  <2>1. TakeEnd(take, dur) \in Int
    BY TakeEndIs
  <2>2. -TakeEnd(take, dur) \in Int /\ Units \in Nat \ {0}
    BY <2>1, UnitsAssumption
  <2>3. (-TakeEnd(take, dur)) \div Units \in Int
    BY <2>2
  <2>. QED BY <2>3
<1>. HIDE DEF ticks, range
<1>5. found # 0 => found \in DOMAIN d.regions /\ ~d.regions[found].locked
  <2>. DEFINE I == {i \in 1 .. Len(d.regions) : /\ d.regions[i].track = name /\ ~d.regions[i].locked /\ ~d.regions[i].muted
                                                /\ Units * d.regions[i].start <= range[2]
                                                /\ Units * RegionEnd(d.regions[i]) >= range[1]}
  <2>1. found # 0 => found = TakeTargets(d.regions, name, range) /\ TakeTargets(d.regions, name, range) # 0
    BY Zenon
  <2>2. TakeTargets(d.regions, name, range) = IF I = {} THEN 0 ELSE Min(I)
    BY Zenon DEF TakeTargets, SelectInSeq
  <2>3. I \in SUBSET Nat
    BY RegionListIs
  <2>4. I # {} => Min(I) \in I
    <3>. HIDE DEF I
    <3>. QED BY <2>3, LeastIn
  <2>5. \A i \in I : i \in DOMAIN d.regions /\ ~d.regions[i].locked
    BY RegionListIs
  <2>. HIDE DEF I, found
  <2>. QED BY <2>1, <2>2, <2>4, <2>5
<1>6. RegionsSound(old, d.regions) /\ \A n \in DOMAIN old : old[n].id = id => ~old[n].locked
  <2>1. CASE found = 0
    <3>1. old = AddRegion(d, name, start, ticks).regions /\ id = NextId(d.regions)
      BY <2>1, Zenon
    <3>. HIDE DEF old, id
    <3>2. /\ RegionsSound(AddRegion(d, name, start, ticks).regions, d.regions)
          /\ \A n \in DOMAIN AddRegion(d, name, start, ticks).regions :
                AddRegion(d, name, start, ticks).regions[n].id = NextId(d.regions) => ~AddRegion(d, name, start, ticks).regions[n].locked
      BY <1>4, AddedRegionSound
    <3>. QED BY <3>1, <3>2, Zenon
  <2>2. CASE found # 0
    <3>1. old = d.regions /\ id = d.regions[found].id
      BY <2>2, Zenon
    <3>. HIDE DEF old, id, found
    <3>2. \A n \in DOMAIN d.regions : d.regions[n].id = d.regions[found].id => n = found
      BY <1>5, <2>2, RegionListIs
    <3>3. RegionsSound(d.regions, d.regions)
      BY RegionsAgain
    <3>. QED BY <1>5, <2>2, <3>1, <3>2, <3>3
  <2>. QED BY <2>1, <2>2
<1>. HIDE DEF old, id
<1>7. RegionList(old)
  BY <1>6 DEF RegionsSound
<1>8. new = [i \in DOMAIN old |-> IF old[i].id = id THEN made[i] ELSE old[i]]
  BY DEF ChangeRegion
<1>9. ASSUME NEW i \in DOMAIN old PROVE AsRegion(made[i], old[i])
  <2>. DEFINE r == old[i]
              longer == AtLeast(r.dur, start + ticks - r.start)
  <2>1. IsRegion(r)
    BY <1>7, RegionListIs
  <2>2. made[i] = WithTake(Kept(Extended(r)), take, start, dur)
    OBVIOUS
  <2>3. Extended(r) = [r EXCEPT !.dur = longer]
    OBVIOUS
  <2>. HIDE DEF made, r
  <2>4. longer \in Int
    <3>1. r.start \in Int /\ r.dur \in Int
      BY <2>1 DEF IsRegion
    <3>. QED BY <1>4, <3>1 DEF AtLeast
  <2>. HIDE DEF longer, Extended
  <2>5. /\ AsRegion(WithTake([r EXCEPT !.dur = longer], take, start, dur), r)
        /\ AsRegion(WithTake(Cleared([r EXCEPT !.dur = longer], range), take, start, dur), r)
    BY <2>1, <2>4, TakenRegion
  <2>6. AsRegion(WithTake(Kept(Extended(r)), take, start, dur), r)
    BY <2>3, <2>5, Zenon
  <2>. HIDE DEF Kept
  <2>. QED BY <2>2, <2>6 DEF r
<1>. HIDE DEF made, new
<1>10. RegionsSound(new, old)
  BY <1>6, <1>7, <1>8, <1>9, ChangedRegions
<1>11. RegionsSound(new, d.regions)
  BY <1>6, <1>10, RegionsAgain
<1>. QED BY <1>3, <1>11

\* The operations on the notes and the events of a region
LEMMA EditedNotes ==
    ASSUME NEW r, IsRegion(r)
    PROVE  /\ \A by : AsRegion(Transpose(r, by), r) /\ AsRegion(Quantize(r, by), r)
           /\ \A pitch, by : AsRegion(Humanize(r, LAMBDA n : IF n.pitch = pitch THEN by ELSE 0), r)
           /\ \A pitch, at, len : AsRegion(AddNote(r, pitch, at, len), r)
           /\ \A ids, up, later : AsRegion(MoveNotes(r, ids, up, later), r)
           /\ \A ids, by : AsRegion(ResizeNotes(r, ids, by), r) /\ AsRegion(AdjustVelocities(r, ids, by), r)
           /\ \A ids : AsRegion(DeleteNotes(r, ids), r)
           /\ \A id, on : AsRegion(MuteNote(r, id, on), r)
           /\ \A at, kind, value : AsRegion(AddEvent(r, at, kind, value), r)
           /\ \A id, at : AsRegion(MoveEvent(r, id, at), r)
           /\ \A id : AsRegion(DeleteEvent(r, id), r)
PROOF
<1>1. ASSUME NEW x, AsRegion(x, r) PROVE AsRegion(Sorted(x), r)
  <2>1. AsRegion(Sorted(x), x)
    BY <1>1, RegionEdited, Zenon DEF Sorted, AsRegion
  <2>. QED BY <1>1, <2>1, RegionAgain
<1>2. \A v : AsRegion([r EXCEPT !.notes = v], r) /\ AsRegion([r EXCEPT !.events = v], r)
  BY RegionEdited, Zenon
<1>3. ASSUME NEW by PROVE AsRegion(Transpose(r, by), r) /\ AsRegion(Quantize(r, by), r)
  <2>1. AsRegion(Transpose(r, by), r)
    BY <1>2, Zenon DEF Transpose, Notes
  <2>. DEFINE x == Notes(r, LAMBDA n : [n EXCEPT !.at = by * ((2 * @ + by) \div (2 * by))])
  <2>2. AsRegion(x, r)
    BY <1>2, Zenon DEF Notes
  <2>3. Quantize(r, by) = IF x = r THEN r ELSE Sorted(x)
    BY Zenon DEF Quantize
  <2>. HIDE DEF x
  <2>. QED BY <1>1, <2>1, <2>2, <2>3
<1>4. ASSUME NEW pitch, NEW by PROVE AsRegion(Humanize(r, LAMBDA n : IF n.pitch = pitch THEN by ELSE 0), r)
  <2>. DEFINE x == Notes(r, LAMBDA n : IF n.muted THEN n ELSE [n EXCEPT !.at = AtLeast(0, @ + (IF n.pitch = pitch THEN by ELSE 0))])
  <2>1. AsRegion(x, r)
    BY <1>2, Zenon DEF Notes
  <2>2. Humanize(r, LAMBDA n : IF n.pitch = pitch THEN by ELSE 0) = [x EXCEPT !.notes = InEventOrder(@)]
    BY Zenon DEF Humanize
  <2>. HIDE DEF x
  <2>3. AsRegion([x EXCEPT !.notes = InEventOrder(@)], x)
    BY <2>1, RegionEdited, Zenon DEF AsRegion
  <2>. QED BY <2>1, <2>2, <2>3, RegionAgain, Zenon
<1>5. \A pitch, at, len : AsRegion(AddNote(r, pitch, at, len), r)
  BY <1>2, Zenon DEF AddNote
<1>6. ASSUME NEW ids, NEW up, NEW later PROVE AsRegion(MoveNotes(r, ids, up, later), r)
  <2>. DEFINE x == Chosen(r, ids, LAMBDA n : [Pitched(n, n.pitch + up) EXCEPT !.at = AtLeast(0, @ + later)])
  <2>1. AsRegion(x, r)
    BY <1>2, Zenon DEF Chosen, Notes
  <2>2. MoveNotes(r, ids, up, later) = Sorted(x)
    BY Zenon DEF MoveNotes
  <2>. HIDE DEF x
  <2>. QED BY <1>1, <2>1, <2>2
<1>7. \A ids, by : AsRegion(ResizeNotes(r, ids, by), r) /\ AsRegion(AdjustVelocities(r, ids, by), r)
  BY <1>2, Zenon DEF ResizeNotes, AdjustVelocities, Chosen, Notes
<1>8. \A ids : AsRegion(DeleteNotes(r, ids), r)
  BY <1>2, Zenon DEF DeleteNotes
<1>9. \A id, on : AsRegion(MuteNote(r, id, on), r)
  BY <1>2, Zenon DEF MuteNote, Chosen, Notes
<1>10. \A at, kind, value : AsRegion(AddEvent(r, at, kind, value), r)
  BY <1>2, Zenon DEF AddEvent
<1>11. \A id, at : AsRegion(MoveEvent(r, id, at), r)
  BY <1>2, Zenon DEF MoveEvent
<1>12. \A id : AsRegion(DeleteEvent(r, id), r)
  BY <1>2, Zenon DEF DeleteEvent
<1>. QED BY <1>3, <1>4, <1>5, <1>6, <1>7, <1>8, <1>9, <1>10, <1>11, <1>12

-----------------------------------------------------------------------------
\* The commands that edit clips

SameLists(e, d) == "clips" \in DOMAIN e /\ "regions" \in DOMAIN e /\ e.clips = d.clips /\ e.regions = d.regions

\* The routing rules and the playlists leave the clips and the regions alone.
LEMMA ListsRouted ==
    ASSUME NEW d, "clips" \in DOMAIN d, "regions" \in DOMAIN d
    PROVE  SameLists(NormalizeRouting(d), d) /\ SameLists(NormalizeRouting(RebuildModel(d)), d)
PROOF
<1>1. ASSUME NEW e, "clips" \in DOMAIN e, "regions" \in DOMAIN e PROVE SameLists(NormalizeRouting(e), e)
  BY <1>1, Zenon DEF SameLists, NormalizeRouting
<1>2. SameLists(RebuildModel(d), d)
  BY Zenon DEF SameLists, RebuildModel
<1>. QED BY <1>1, <1>2, Zenon DEF SameLists

\* The lists of a document and the copied clips, and a step that keeps what is locked
ListsGood ==
    /\ "clips" \in DOMAIN doc /\ "regions" \in DOMAIN doc
    /\ ClipList(doc.clips) /\ ClipList(clipboard) /\ RegionList(doc.regions)
LocksKept == LockedStay(doc'.clips, doc.clips) /\ LockedStay(doc'.regions, doc.regions)

\* What is left alone stays.
LEMMA AllStay ==
    ASSUME NEW items
    PROVE  LockedStay(items, items)
PROOF
BY DEF LockedStay

\* What an operation makes of the clips, with the ways in which a command puts it into the document
LEMMA EditsKeep ==
    ASSUME ListsGood, ClipList(clipboard'), NEW clips, ClipList(clips), NEW lists,
           \/ doc' = NormalizeRouting(RebuildModel([doc EXCEPT !.clips = clips]))
           \/ doc' = NormalizeRouting(RebuildModel([doc EXCEPT !.clips = clips, !.lists = lists]))
           \/ doc' = [doc EXCEPT !.clips = clips]
    PROVE  ListsGood' /\ (LockedStay(clips, doc.clips) => LocksKept)
PROOF
<1>1. "clips" \in DOMAIN doc /\ "regions" \in DOMAIN doc /\ RegionList(doc.regions)
  BY DEF ListsGood
<1>2. PICK d : /\ doc' = NormalizeRouting(RebuildModel(d)) \/ doc' = d
               /\ d = [doc EXCEPT !.clips = clips] \/ d = [doc EXCEPT !.clips = clips, !.lists = lists]
  BY Zenon
<1>3. "clips" \in DOMAIN d /\ "regions" \in DOMAIN d /\ d.clips = clips /\ d.regions = doc.regions
  BY <1>1, <1>2, Zenon
<1>4. SameLists(doc', d)
  <2>1. SameLists(NormalizeRouting(RebuildModel(d)), d)
    BY <1>3, ListsRouted
  <2>. QED BY <1>2, <1>3, <2>1, Zenon DEF SameLists
<1>5. "clips" \in DOMAIN doc' /\ "regions" \in DOMAIN doc' /\ doc'.clips = clips /\ doc'.regions = doc.regions
  BY <1>3, <1>4, Zenon DEF SameLists
<1>6. ListsGood'
  BY <1>1, <1>5, Zenon DEF ListsGood
<1>7. LockedStay(clips, doc.clips) => LocksKept
  BY <1>5, AllStay, Zenon DEF LocksKept
<1>. QED BY <1>6, <1>7

\* The forms that commands have
LEMMA CommandsKeep ==
    ASSUME ListsGood
    PROVE  /\ \A command, clips : Sound(clips, doc.clips) /\ EditClips(command, clips) => ListsGood' /\ LocksKept
           /\ \A command, clips : Sound(clips, doc.clips) /\ Refuse(command, clips) => ListsGood' /\ LocksKept
           /\ \A command, clips, changed : Sound(clips, doc.clips) /\ EditRange(command, clips, changed) => ListsGood' /\ LocksKept
           /\ \A command, clips, lists :
                 Sound(clips, doc.clips) /\ Done(command, RebuildModel([doc EXCEPT !.clips = clips, !.lists = lists]))
                    => ListsGood' /\ LocksKept
           /\ \A clips, lists :
                 Sound(clips, doc.clips) /\ ClipList(clipboard') /\ Reconcile(RebuildModel([doc EXCEPT !.clips = clips, !.lists = lists]))
                    => ListsGood' /\ LocksKept
           /\ \A clips :
                 Sound(clips, doc.clips) /\ ClipList(clipboard') /\ Reconcile(Rebuilt(clips)) => ListsGood' /\ LocksKept
           /\ ClipList(clipboard') /\ UNCHANGED doc => ListsGood' /\ LocksKept
           /\ \A id, on : SetClipLocked(id, on) => ListsGood' /\ did'[1] = "lock"
PROOF
<1>1. ClipList(doc.clips) /\ ClipList(clipboard)
  BY DEF ListsGood
<1>2. \A clips : Sound(clips, doc.clips) => ClipList(clips) /\ LockedStay(clips, doc.clips)
  BY DEF Sound
<1>3. ASSUME NEW command, NEW clips, EditClips(command, clips), ClipList(clips)
      PROVE  ListsGood' /\ (LockedStay(clips, doc.clips) => LocksKept)
  <2>1. clipboard' = clipboard /\ doc' = NormalizeRouting(RebuildModel([doc EXCEPT !.clips = clips]))
    BY <1>3, Zenon DEF EditClips, Rebuilt, Done, Reconcile
  <2>. QED BY <1>1, <1>3, <2>1, EditsKeep
<1>4. ASSUME NEW command, NEW clips, Refuse(command, clips), Sound(clips, doc.clips) PROVE ListsGood' /\ LocksKept
  <2>1. clipboard' = clipboard /\ doc' = [doc EXCEPT !.clips = clips]
    BY <1>4, Zenon DEF Refuse
  <2>. QED BY <1>1, <1>2, <1>4, <2>1, EditsKeep
<1>5. ASSUME NEW clips, NEW lists, Sound(clips, doc.clips), ClipList(clipboard'),
             Reconcile(RebuildModel([doc EXCEPT !.clips = clips, !.lists = lists]))
      PROVE  ListsGood' /\ LocksKept
  <2>1. doc' = NormalizeRouting(RebuildModel([doc EXCEPT !.clips = clips, !.lists = lists]))
    BY <1>5, Zenon DEF Reconcile
  <2>. QED BY <1>2, <1>5, <2>1, EditsKeep
<1>6. ASSUME NEW clips, Sound(clips, doc.clips), ClipList(clipboard'), Reconcile(Rebuilt(clips))
      PROVE  ListsGood' /\ LocksKept
  <2>1. doc' = NormalizeRouting(RebuildModel([doc EXCEPT !.clips = clips]))
    BY <1>6, Zenon DEF Reconcile, Rebuilt
  <2>. QED BY <1>2, <1>6, <2>1, EditsKeep
<1>7. ASSUME ClipList(clipboard'), UNCHANGED doc PROVE ListsGood' /\ LocksKept
  BY <1>7, AllStay, Zenon DEF ListsGood, LocksKept
<1>8. ASSUME NEW id, NEW on, SetClipLocked(id, on) PROVE ListsGood' /\ did'[1] = "lock"
  <2>1. EditClips(<<"lock">>, SetLocked(doc.clips, id, on))
    BY <1>8 DEF SetClipLocked
  <2>2. ClipList(SetLocked(doc.clips, id, on))
    BY <1>1, LockedClips
  <2>3. did' = <<"lock">>
    BY <2>1, Zenon DEF EditClips, Done
  <2>4. did'[1] = "lock"
    BY <2>3
  <2>. QED BY <1>3, <2>1, <2>2, <2>4
<1>9. ASSUME NEW command, NEW clips, Sound(clips, doc.clips), EditClips(command, clips) PROVE ListsGood' /\ LocksKept
  BY <1>2, <1>3, <1>9
<1>10. ASSUME NEW command, NEW clips, NEW changed, Sound(clips, doc.clips), EditRange(command, clips, changed) PROVE ListsGood' /\ LocksKept
  BY <1>4, <1>9, <1>10, Zenon DEF EditRange
<1>11. ASSUME NEW command, NEW clips, NEW lists, Sound(clips, doc.clips),
              Done(command, RebuildModel([doc EXCEPT !.clips = clips, !.lists = lists]))
       PROVE  ListsGood' /\ LocksKept
  BY <1>1, <1>5, <1>11, Zenon DEF Done
<1>. QED BY <1>4, <1>5, <1>6, <1>7, <1>8, <1>9, <1>10, <1>11

\* The operations on one clip are sound,
LEMMA OneClipSound ==
    ASSUME NEW clips, ClipList(clips), NEW id, Free(clips, id)
    PROVE  /\ \A t \in Int : Sound(Move(clips, id, t), clips) /\ Sound(TrimStart(clips, id, t), clips)
           /\ \A t \in Int : Sound(TrimEnd(clips, id, t), clips) /\ Sound(SetTrack(clips, id, t), clips)
           /\ \A flag, on : Sound(SetFlag(clips, id, flag, on), clips)
           /\ \A fin, fout : Sound(SetFades(clips, id, fin, fout), clips)
           /\ \A gain : Sound(SetGain(clips, id, gain), clips)
           /\ \A target : Sound(NormalizeGain(clips, id, target, LAMBDA file : Peaks[file]), clips)
           /\ \A by : Sound(Slip(clips, id, by), clips)
           /\ \A file : \A dur \in Int : Sound(SetSource(clips, id, file, dur), clips)
           /\ \A scale \in {1, 2} : Sound(Stretch(clips, id, scale), clips)
           /\ Sound(Crossfade(clips, id), clips)
           /\ \A t, track \in Int : Sound(ShuffleMove(clips, id, t, track), clips)
PROOF
<1>1. \A new : Revised(new, clips) => Sound(new, clips)
  BY RevisedSound
<1>2. ASSUME NEW t \in Int
      PROVE  /\ Sound(Move(clips, id, t), clips) /\ Sound(TrimStart(clips, id, t), clips)
             /\ Sound(TrimEnd(clips, id, t), clips) /\ Sound(SetTrack(clips, id, t), clips)
  BY <1>1, ChangedClips, Zenon
<1>3. /\ \A flag, on : Sound(SetFlag(clips, id, flag, on), clips)
      /\ \A fin, fout : Sound(SetFades(clips, id, fin, fout), clips)
      /\ \A gain : Sound(SetGain(clips, id, gain), clips)
  BY <1>1, ChangedClips, Zenon
<1>4. \A target : Sound(NormalizeGain(clips, id, target, LAMBDA file : Peaks[file]), clips)
  <2>1. \A target : Revised(NormalizeGain(clips, id, target, LAMBDA file : Peaks[file]), clips)
    BY ChangedClips, Zenon
  <2>. QED BY <1>1, <2>1, Zenon
<1>5. /\ \A by : Sound(Slip(clips, id, by), clips)
      /\ \A file : \A dur \in Int : Sound(SetSource(clips, id, file, dur), clips)
      /\ \A scale \in {1, 2} : Sound(Stretch(clips, id, scale), clips)
  BY <1>1, ChangedClips, Zenon
<1>6. Sound(Crossfade(clips, id), clips) /\ \A t, track \in Int : Sound(ShuffleMove(clips, id, t, track), clips)
  BY <1>1, CrossfadedClips, ShuffledClips
<1>. QED BY <1>2, <1>3, <1>4, <1>5, <1>6, Zenon

\* and so are the commands.
LEMMA OneClipKeeps ==
    ASSUME ListsGood, NEW id \in Ids(doc.clips)
    PROVE  /\ \A t \in Int : MoveClip(id, t) \/ TrimClipStart(id, t) \/ TrimClipEnd(id, t) \/ SplitClip(id, t) => ListsGood' /\ LocksKept
           /\ \A t, track \in Int : MoveClipToTrack(id, t, track) \/ CopyClipToTrack(id, t, track) => ListsGood' /\ LocksKept
           /\ \A t, track \in Int : ShuffleClip(id, t, track) \/ ShuffleCopy(id, t, track) => ListsGood' /\ LocksKept
           /\ \A by : SlipClip(id, by) => ListsGood' /\ LocksKept
           /\ \A scale \in {1, 2} : StretchClip(id, scale) => ListsGood' /\ LocksKept
           /\ \A fin, fout : SetClipFades(id, fin, fout) => ListsGood' /\ LocksKept
           /\ \A gain : SetClipGain(id, gain) \/ NormalizeClip(id, gain) => ListsGood' /\ LocksKept
           /\ \A flag, on : SetClipFlag(id, flag, on) => ListsGood' /\ LocksKept
           /\ \A track \in Int : SetClipTrack(id, track) => ListsGood' /\ LocksKept
           /\ \A file \in DOMAIN SourceLength : SetClipSource(id, file) => ListsGood' /\ LocksKept
           /\ DuplicateClip(id) \/ CrossfadeClip(id) \/ GlueClip(id) => ListsGood' /\ LocksKept
           /\ \A other : GlueClips(id, other) => ListsGood' /\ LocksKept
PROOF
<1>. DEFINE clips == doc.clips
<1>1. ClipList(clips)
  BY DEF ListsGood
<1>3. \A command, new : Sound(new, clips) /\ EditClips(command, new) => ListsGood' /\ LocksKept
  BY CommandsKeep DEF clips
<1>. HIDE DEF clips
<1>5. ASSUME NEW t \in Int, MoveClip(id, t) \/ TrimClipStart(id, t) \/ TrimClipEnd(id, t) PROVE ListsGood' /\ LocksKept
  BY <1>1, <1>3, <1>5, OneClipSound, Zenon DEF MoveClip, TrimClipStart, TrimClipEnd, CanTrimStart, CanTrimEnd, clips
<1>6. ASSUME NEW t \in Int, SplitClip(id, t) PROVE ListsGood' /\ LocksKept
  BY <1>1, <1>3, <1>6, SplitSound, Zenon DEF SplitClip, clips
<1>7. ASSUME NEW t \in Int, NEW track \in Int, MoveClipToTrack(id, t, track) PROVE ListsGood' /\ LocksKept
  <2>. DEFINE c == Named(clips, id)
              pasted == Paste(clips, [c EXCEPT !.track = track], t)
              lists == Unplace(doc.lists, id)
  <2>1. Sound(pasted, clips) /\ (~c.locked => Sound(Without(pasted, id), clips))
    BY <1>1, TransferSound DEF clips
  <2>2. c.track = track \/ c.track # track
    OBVIOUS
  <2>3. MoveClipToTrack(id, t, track) =>
          \/ Free(clips, id) /\ EditClips(<<"move">>, Move(clips, id, t))
          \/ /\ ~c.locked
             /\ Done(<<"move to track">>, RebuildModel([doc EXCEPT !.clips = Without(pasted, id), !.lists = lists]))
          \/ Refuse(<<"refused">>, pasted)
    BY <2>2, Zenon DEF MoveClipToTrack, clips
  <2>. HIDE DEF c, pasted, lists
  <2>4. ASSUME Done(<<"move to track">>, RebuildModel([doc EXCEPT !.clips = Without(pasted, id), !.lists = lists])), ~c.locked
        PROVE  ListsGood' /\ LocksKept
    BY <2>1, <2>4, CommandsKeep, Zenon DEF clips
  <2>5. Refuse(<<"refused">>, pasted) => ListsGood' /\ LocksKept
    BY <2>1, CommandsKeep, Zenon DEF clips
  <2>6. Free(clips, id) => Sound(Move(clips, id, t), clips)
    BY <1>1, OneClipSound, Zenon
  <2>. QED BY <1>3, <1>7, <2>3, <2>4, <2>5, <2>6, Zenon
<1>8. ASSUME NEW t \in Int, NEW track \in Int,
             CopyClipToTrack(id, t, track) \/ ShuffleClip(id, t, track) \/ ShuffleCopy(id, t, track)
      PROVE  ListsGood' /\ LocksKept
  <2>1. Sound(DuplicateToTrack(clips, id, t, track), clips) /\ Sound(ShuffleDuplicate(clips, id, t, track), clips)
    BY <1>1, DuplicateSound, Zenon DEF clips
  <2>2. Free(clips, id) => Sound(ShuffleMove(clips, id, t, track), clips)
    BY <1>1, OneClipSound, Zenon
  <2>. QED BY <1>3, <1>8, <2>1, <2>2, Zenon DEF CopyClipToTrack, ShuffleClip, ShuffleCopy, CanShuffleMove, clips
<1>9. ASSUME NEW by, SlipClip(id, by) PROVE ListsGood' /\ LocksKept
  BY <1>1, <1>3, <1>9, OneClipSound, Zenon DEF SlipClip, CanSlip, clips
<1>10. ASSUME NEW scale \in {1, 2}, StretchClip(id, scale) PROVE ListsGood' /\ LocksKept
  <2>1. CanStretch(clips, id, scale) => Free(clips, id)
    BY Zenon DEF CanStretch
  <2>. QED BY <1>1, <1>3, <1>10, <2>1, OneClipSound, Zenon DEF StretchClip, clips
<1>11. ASSUME NEW fin, NEW fout, SetClipFades(id, fin, fout) PROVE ListsGood' /\ LocksKept
  BY <1>1, <1>3, <1>11, OneClipSound, Zenon DEF SetClipFades, clips
<1>12. ASSUME NEW gain, SetClipGain(id, gain) PROVE ListsGood' /\ LocksKept
  <2>. DEFINE new == SetGain(clips, id, gain)
              lists == SyncGain(doc.lists, Named(new, id))
  <2>1. Free(clips, id) /\ Done(<<"gain">>, RebuildModel([doc EXCEPT !.clips = new, !.lists = lists]))
    BY <1>12, Zenon DEF SetClipGain, clips
  <2>2. Sound(new, clips)
    BY <1>1, <2>1, OneClipSound, Zenon
  <2>. HIDE DEF new, lists
  <2>. QED BY <2>1, <2>2, CommandsKeep, Zenon DEF clips
<1>15. ASSUME NEW gain, NormalizeClip(id, gain) PROVE ListsGood' /\ LocksKept
  <2>1. Free(clips, id) /\ EditClips(<<"gain">>, NormalizeGain(clips, id, gain, LAMBDA file : Peaks[file]))
    BY <1>15, Zenon DEF NormalizeClip, CanNormalize, clips
  <2>2. \A target : Sound(NormalizeGain(clips, id, target, LAMBDA file : Peaks[file]), clips)
    BY <1>1, <2>1, OneClipSound, Zenon
  <2>3. Sound(NormalizeGain(clips, id, gain, LAMBDA file : Peaks[file]), clips)
    BY <2>2, Zenon
  <2>. QED BY <1>3, <2>1, <2>3, Zenon
<1>16. ASSUME NEW flag, NEW on, SetClipFlag(id, flag, on) PROVE ListsGood' /\ LocksKept
  BY <1>1, <1>3, <1>16, OneClipSound, Zenon DEF SetClipFlag, clips
<1>17. ASSUME NEW track \in Int, SetClipTrack(id, track) PROVE ListsGood' /\ LocksKept
  BY <1>1, <1>3, <1>17, OneClipSound, Zenon DEF SetClipTrack, clips
<1>18. ASSUME NEW file \in DOMAIN SourceLength, SetClipSource(id, file) PROVE ListsGood' /\ LocksKept
  <2>1. SourceLength[file] \in Int
    BY EditsAssumption DEF EditsAssumption, GivenInputs
  <2>. QED BY <1>1, <1>3, <1>18, <2>1, OneClipSound, Zenon DEF SetClipSource, clips
<1>13. DuplicateClip(id) => ListsGood' /\ LocksKept
  <2>. DEFINE end == End(Named(clips, id))
  <2>1. end \in Int
    <3>1. IsClip(Named(clips, id))
      BY <1>1, NamedIs DEF clips
    <3>. QED BY <3>1 DEF IsClip, End
  <2>2. DuplicateClip(id) => EditClips(<<"copy">>, Duplicate(clips, id, end))
    BY Zenon DEF DuplicateClip, clips
  <2>. HIDE DEF end
  <2>3. Sound(Duplicate(clips, id, end), clips)
    BY <1>1, <2>1, DuplicateSound, Zenon DEF clips
  <2>. QED BY <1>3, <2>2, <2>3, Zenon
<1>14. ASSUME NEW other, CrossfadeClip(id) \/ GlueClip(id) \/ GlueClips(id, other) PROVE ListsGood' /\ LocksKept
  <2>1. CanCrossfade(clips, id) => Sound(Crossfade(clips, id), clips)
    BY <1>1, OneClipSound, Zenon DEF CanCrossfade
  <2>2. /\ CanGlueAdjacent(clips, id) => Sound(GlueAdjacent(clips, id), clips)
        /\ CanGlueSelected(clips, id, other) => Sound(GlueSelected(clips, id, other), clips)
    BY <1>1, GlueSound, Zenon
  <2>. QED BY <1>3, <1>14, <2>1, <2>2, Zenon DEF CrossfadeClip, GlueClip, GlueClips, clips
<1>. QED BY <1>5, <1>6, <1>7, <1>8, <1>9, <1>10, <1>11, <1>12, <1>13, <1>14, <1>15, <1>16, <1>17, <1>18, Zenon

\* the commands on a selection,
LEMMA SelectionKeeps ==
    ASSUME ListsGood, NEW ids \in SUBSET Ids(doc.clips), ids # {}, NEW t \in Int, NEW by \in Int
    PROVE  /\ CopyClips(ids) \/ DeleteClips(ids) \/ CutClips(ids) => ListsGood' /\ LocksKept
           /\ DuplicateClips(ids) \/ SplitClips(ids, t) \/ MoveClips(ids, by) \/ PasteClips(t) => ListsGood' /\ LocksKept
PROOF
<1>1. ClipList(doc.clips) /\ ClipList(clipboard)
  BY DEF ListsGood
<1>2. \A command, new : Sound(new, doc.clips) /\ EditClips(command, new) => ListsGood' /\ LocksKept
  BY CommandsKeep
<1>3. CopyClips(ids) => ListsGood' /\ LocksKept
  <2>1. ClipList(Offsets(ids))
    BY <1>1, SelectedAre, Zenon
  <2>2. CopyClips(ids) => clipboard' = Offsets(ids) /\ UNCHANGED doc
    BY DEF CopyClips
  <2>. QED BY <2>1, <2>2, CommandsKeep, Zenon
<1>4. DeleteClips(ids) \/ CutClips(ids) => ListsGood' /\ LocksKept
  <2>. DEFINE clips == Picked(doc.clips, Ascending({i \in DOMAIN doc.clips : doc.clips[i].id \notin FreeOf(ids)}))
              lists == FoldSet(LAMBDA id, held : Unplace(held, id), doc.lists, FreeOf(ids))
  <2>1. Sound(clips, doc.clips)
    BY <1>1, SelectionSound, Zenon
  <2>2. ClipList(Offsets(ids))
    BY <1>1, SelectedAre, Zenon
  <2>3. Deleted(ids) = RebuildModel([doc EXCEPT !.clips = clips, !.lists = lists])
    BY Zenon DEF Deleted
  <2>. HIDE DEF clips, lists
  <2>4. DeleteClips(ids) => Done(<<"delete">>, RebuildModel([doc EXCEPT !.clips = clips, !.lists = lists]))
    BY <2>3, Zenon DEF DeleteClips
  <2>5. CutClips(ids) => \/ CopyClips(ids)
                         \/ /\ clipboard' = Offsets(ids)
                            /\ Reconcile(RebuildModel([doc EXCEPT !.clips = clips, !.lists = lists]))
    BY <2>3, Zenon DEF CutClips
  <2>6. DeleteClips(ids) => ListsGood' /\ LocksKept
    BY <2>1, <2>4, CommandsKeep, Zenon
  <2>7. ASSUME clipboard' = Offsets(ids), Reconcile(RebuildModel([doc EXCEPT !.clips = clips, !.lists = lists]))
        PROVE  ListsGood' /\ LocksKept
    BY <2>1, <2>2, <2>7, CommandsKeep, Zenon
  <2>. QED BY <1>3, <2>5, <2>6, <2>7, Zenon
<1>5. DuplicateClips(ids) => ListsGood' /\ LocksKept
  <2>. DEFINE span == Max({End(c) : c \in ToSet(Selected(ids))}) - Earliest(ids)
              clips == Repeated(Len(Selected(ids)), doc.clips,
                                LAMBDA cs, i : Duplicate(cs, Selected(ids)[i].id, Selected(ids)[i].start + span))
  <2>1. Sound(clips, doc.clips)
    BY <1>1, CopiesSound, Zenon DEF Repeated
  <2>2. DuplicateClips(ids) => EditClips(<<"copy">>, clips)
    BY Zenon DEF DuplicateClips
  <2>. HIDE DEF clips
  <2>. QED BY <1>2, <2>1, <2>2, Zenon
<1>6. SplitClips(ids, t) => ListsGood' /\ LocksKept
  <2>. DEFINE clips == Repeated(Len(Selected(ids)), doc.clips, LAMBDA cs, i : SplitAt(cs, Selected(ids)[i].id, t))
  <2>1. Sound(clips, doc.clips)
    BY <1>1, SelectionSound, Zenon DEF Repeated
  <2>2. SplitClips(ids, t) => EditClips(<<"split">>, clips)
    BY Zenon DEF SplitClips
  <2>. HIDE DEF clips
  <2>. QED BY <1>2, <2>1, <2>2, Zenon
<1>7. MoveClips(ids, by) => ListsGood' /\ LocksKept
  <2>. DEFINE clips == ChangeAll(doc.clips, LAMBDA c : c.id \in FreeOf(ids),
                                 LAMBDA c : [c EXCEPT !.start = @ + Larger(by, -Earliest(ids))])
  <2>1. Sound(clips, doc.clips)
    BY <1>1, SelectionSound, Zenon DEF ChangeAll
  <2>2. MoveClips(ids, by) => EditClips(<<"move">>, clips)
    BY Zenon DEF MoveClips
  <2>. HIDE DEF clips
  <2>. QED BY <1>2, <2>1, <2>2, Zenon
<1>8. PasteClips(t) => ListsGood' /\ LocksKept
  <2>1. Sound(PasteRange(doc.clips, clipboard, t), doc.clips)
    BY <1>1, PasteSound, Zenon
  <2>2. PasteClips(t) => EditClips(<<"copy">>, PasteRange(doc.clips, clipboard, t))
    BY DEF PasteClips
  <2>. QED BY <1>2, <2>1, <2>2, Zenon
<1>. QED BY <1>3, <1>4, <1>5, <1>6, <1>7, <1>8

\* and the commands on a range of time.
LEMMA RangeKeeps ==
    ASSUME ListsGood, NEW lo \in Int, NEW hi \in Int, NEW by, NEW gain, NEW flag, NEW on
    PROVE  /\ CopyTimeRange(lo, hi) \/ CutTimeRange(lo, hi) \/ ClearTimeRange(lo, hi) => ListsGood' /\ LocksKept
           /\ SeparateTimeRange(lo, hi) \/ DuplicateTimeRange(lo, hi) \/ GlueTimeRange(lo, hi) => ListsGood' /\ LocksKept
           /\ ShuffleDelete(lo, hi) \/ TrimTimeRange(lo, hi) \/ QuantizeClips(lo, hi, 2) => ListsGood' /\ LocksKept
           /\ FadeClips(lo, hi) \/ AdjustGains(lo, hi, by) \/ NormalizeClips(lo, hi, gain) => ListsGood' /\ LocksKept
           /\ SetRangeFlag(lo, hi, flag, on) => ListsGood' /\ LocksKept
PROOF
<1>1. ClipList(doc.clips) /\ ClipList(clipboard)
  BY DEF ListsGood
<1>2. \A command, new : Sound(new, doc.clips) /\ EditClips(command, new) => ListsGood' /\ LocksKept
  BY CommandsKeep
<1>3. \A command, new, changed : Sound(new, doc.clips) /\ EditRange(command, new, changed) => ListsGood' /\ LocksKept
  BY CommandsKeep
<1>4. CopyTimeRange(lo, hi) => ListsGood' /\ LocksKept
  <2>1. ClipList(CopyRange(doc.clips, lo, hi))
    BY <1>1, CopiesAre, Zenon
  <2>2. CopyTimeRange(lo, hi) => clipboard' = CopyRange(doc.clips, lo, hi) /\ UNCHANGED doc
    BY DEF CopyTimeRange
  <2>. QED BY <2>1, <2>2, CommandsKeep, Zenon
<1>5. Sound(ClearRange(doc.clips, lo, hi), doc.clips) /\ Sound(ShuffleDeleteRange(doc.clips, lo, hi), doc.clips)
  BY <1>1, ClearedSound, Zenon
<1>6. CutTimeRange(lo, hi) => ListsGood' /\ LocksKept
  <2>1. ClipList(CutCopies(doc.clips, lo, hi))
    BY <1>1, CutCopiesAre, Zenon
  <2>2. CutTimeRange(lo, hi) => /\ clipboard' = CutCopies(doc.clips, lo, hi)
                                /\ Reconcile(Rebuilt(ClearRange(doc.clips, lo, hi)))
    BY DEF CutTimeRange
  <2>. QED BY <1>5, <2>1, <2>2, CommandsKeep, Zenon
<1>7. ClearTimeRange(lo, hi) \/ ShuffleDelete(lo, hi) => ListsGood' /\ LocksKept
  BY <1>2, <1>5, Zenon DEF ClearTimeRange, ShuffleDelete
<1>8. SeparateTimeRange(lo, hi) \/ DuplicateTimeRange(lo, hi) \/ GlueTimeRange(lo, hi) => ListsGood' /\ LocksKept
  <2>1. Sound(SeparateRange(doc.clips, lo, hi), doc.clips)
    BY <1>1, SeparateSound, Zenon
  <2>2. Sound(DuplicateRange(doc.clips, lo, hi), doc.clips)
    BY <1>1, DuplicateRangeSound, Zenon
  <2>3. Sound(GlueRange(doc.clips, lo, hi), doc.clips)
    BY <1>1, GlueRangeSound, Zenon
  <2>. QED BY <1>2, <2>1, <2>2, <2>3, Zenon DEF SeparateTimeRange, DuplicateTimeRange, GlueTimeRange
<1>9. TrimTimeRange(lo, hi) => ListsGood' /\ LocksKept
  <2>. DEFINE clips == TrimToRange(doc.clips, lo, hi)
              changed == \E c \in ToSet(clips) : Overlaps(c, lo, hi)
  <2>1. TrimTimeRange(lo, hi) => EditRange(<<"trim">>, clips, changed)
    BY Zenon DEF TrimTimeRange
  <2>2. Sound(clips, doc.clips)
    BY <1>1, TrimmedSound, Zenon
  <2>. HIDE DEF clips, changed
  <2>. QED BY <1>3, <2>1, <2>2, Zenon
<1>10. QuantizeClips(lo, hi, 2) \/ FadeClips(lo, hi) => ListsGood' /\ LocksKept
  <2>1. Sound(QuantizeRange(doc.clips, lo, hi, 2), doc.clips)
    BY <1>1, QuantizedSound, Zenon
  <2>2. Sound(FadeRange(doc.clips, lo, hi), doc.clips)
    BY <1>1, FadeRangeSound, Zenon
  <2>. QED BY <1>2, <2>1, <2>2, Zenon DEF QuantizeClips, FadeClips
<1>11. AdjustGains(lo, hi, by) \/ SetRangeFlag(lo, hi, flag, on) => ListsGood' /\ LocksKept
  <2>. DEFINE gained == AdjustGainRange(doc.clips, lo, hi, by)
              flagged == FlagRange(doc.clips, lo, hi, flag, on)
              parts == SeparateRange(doc.clips, lo, hi)
  <2>1. Sound(gained, doc.clips) /\ Sound(flagged, doc.clips)
    BY <1>1, ChangedRangeSound, Zenon
  <2>2. AdjustGains(lo, hi, by) => EditRange(<<"gain">>, gained, gained # parts)
    BY Zenon DEF AdjustGains
  <2>3. SetRangeFlag(lo, hi, flag, on) => EditRange(<<"flag">>, flagged, flagged # parts)
    BY Zenon DEF SetRangeFlag
  <2>. HIDE DEF gained, flagged, parts
  <2>. QED BY <1>3, <2>1, <2>2, <2>3, Zenon
<1>12. NormalizeClips(lo, hi, gain) => ListsGood' /\ LocksKept
  <2>. DEFINE clips == NormalizeRange(doc.clips, lo, hi, gain, LAMBDA file : Peaks[file])
              parts == SeparateRange(doc.clips, lo, hi)
  <2>1. \A target : Sound(NormalizeRange(doc.clips, lo, hi, target, LAMBDA file : Peaks[file]), doc.clips)
    BY <1>1, ChangedRangeSound, Zenon
  <2>2. Sound(clips, doc.clips)
    BY <2>1, Zenon
  <2>3. NormalizeClips(lo, hi, gain) => EditRange(<<"gain">>, clips, clips # parts)
    BY Zenon DEF NormalizeClips
  <2>. HIDE DEF clips, parts
  <2>. QED BY <1>3, <2>2, <2>3, Zenon
<1>. QED BY <1>4, <1>5, <1>6, <1>7, <1>8, <1>9, <1>10, <1>11, <1>12

\* An edit of the clips keeps them in order and leaves what is locked alone, unless it locks or unlocks.
LEMMA ClipCommandKeeps ==
    ASSUME ListsGood, ClipCommand
    PROVE  ListsGood' /\ (LocksKept \/ did'[1] = "lock")
PROOF
<1>. DEFINE Kept == ListsGood' /\ (LocksKept \/ did'[1] = "lock")
<1>1. /\ \A t \in Times : t \in Int
      /\ \A by \in Deltas : by \in Int
      /\ \A track \in Targets : track \in Int
  BY EditsAssumption DEF EditsAssumption, GivenInputs
<1>2. ASSUME NEW id \in Ids(doc.clips)
      PROVE  /\ \A t \in Times : MoveClip(id, t) \/ TrimClipStart(id, t) \/ TrimClipEnd(id, t) \/ SplitClip(id, t) => Kept
             /\ \A t \in Times, track \in Targets : MoveClipToTrack(id, t, track) \/ CopyClipToTrack(id, t, track) => Kept
             /\ \A t \in Times, track \in Targets : ShuffleClip(id, t, track) \/ ShuffleCopy(id, t, track) => Kept
             /\ \A by : SlipClip(id, by) => Kept
             /\ \A scale \in {1, 2} : StretchClip(id, scale) => Kept
             /\ \A fin, fout : SetClipFades(id, fin, fout) => Kept
             /\ \A gain : SetClipGain(id, gain) \/ NormalizeClip(id, gain) => Kept
             /\ \A flag, on : SetClipFlag(id, flag, on) => Kept
             /\ \A on : SetClipLocked(id, on) => Kept
             /\ \A track \in Targets : SetClipTrack(id, track) => Kept
             /\ \A file \in DOMAIN SourceLength : SetClipSource(id, file) => Kept
             /\ DuplicateClip(id) \/ CrossfadeClip(id) \/ GlueClip(id) => Kept
             /\ \A other : GlueClips(id, other) => Kept
  <2>1. \A t \in Times : MoveClip(id, t) \/ TrimClipStart(id, t) \/ TrimClipEnd(id, t) \/ SplitClip(id, t) => Kept
    BY <1>1, OneClipKeeps
  <2>2. \A t \in Times, track \in Targets : MoveClipToTrack(id, t, track) \/ CopyClipToTrack(id, t, track) => Kept
    BY <1>1, OneClipKeeps
  <2>3. \A t \in Times, track \in Targets : ShuffleClip(id, t, track) \/ ShuffleCopy(id, t, track) => Kept
    BY <1>1, OneClipKeeps
  <2>4. \A by : SlipClip(id, by) => Kept
    BY OneClipKeeps
  <2>5. \A scale \in {1, 2} : StretchClip(id, scale) => Kept
    BY OneClipKeeps
  <2>6. \A fin, fout : SetClipFades(id, fin, fout) => Kept
    BY OneClipKeeps
  <2>7. \A gain : SetClipGain(id, gain) \/ NormalizeClip(id, gain) => Kept
    BY OneClipKeeps
  <2>8. \A flag, on : SetClipFlag(id, flag, on) => Kept
    BY OneClipKeeps
  <2>9. \A on : SetClipLocked(id, on) => Kept
    BY CommandsKeep
  <2>10. \A track \in Targets : SetClipTrack(id, track) => Kept
    BY <1>1, OneClipKeeps
  <2>11. \A file \in DOMAIN SourceLength : SetClipSource(id, file) => Kept
    BY OneClipKeeps
  <2>12. DuplicateClip(id) \/ CrossfadeClip(id) \/ GlueClip(id) => Kept
    BY OneClipKeeps
  <2>13. \A other : GlueClips(id, other) => Kept
    BY OneClipKeeps
  <2>. QED BY <2>1, <2>2, <2>3, <2>4, <2>5, <2>6, <2>7, <2>8, <2>9, <2>10, <2>11, <2>12, <2>13
<1>3. ASSUME NEW ids \in (SUBSET Ids(doc.clips)) \ {{}}
      PROVE  /\ CopyClips(ids) \/ DeleteClips(ids) \/ CutClips(ids) \/ DuplicateClips(ids) => Kept
             /\ \A t \in Times : SplitClips(ids, t) => Kept
             /\ \A by \in Deltas : MoveClips(ids, by) => Kept
  <2>1. ids \in SUBSET Ids(doc.clips) /\ ids # {} /\ 0 \in Int
    OBVIOUS
  <2>. QED BY <1>1, <2>1, SelectionKeeps
<1>4. ASSUME NEW t \in Times, PasteClips(t) PROVE Kept
  <2>1. Sound(PasteRange(doc.clips, clipboard, t), doc.clips)
    BY <1>1, PasteSound, Zenon DEF ListsGood
  <2>. QED BY <1>4, <2>1, CommandsKeep, Zenon DEF PasteClips
<1>5. ASSUME NEW lo \in Times, NEW hi \in Times
      PROVE  /\ CopyTimeRange(lo, hi) \/ CutTimeRange(lo, hi) \/ ClearTimeRange(lo, hi) => Kept
             /\ SeparateTimeRange(lo, hi) \/ DuplicateTimeRange(lo, hi) \/ GlueTimeRange(lo, hi) => Kept
             /\ ShuffleDelete(lo, hi) \/ TrimTimeRange(lo, hi) \/ QuantizeClips(lo, hi, 2) \/ FadeClips(lo, hi) => Kept
             /\ \A by : AdjustGains(lo, hi, by) => Kept
             /\ \A gain : NormalizeClips(lo, hi, gain) => Kept
             /\ \A flag, on : SetRangeFlag(lo, hi, flag, on) => Kept
  <2>1. lo \in Int /\ hi \in Int
    BY <1>1
  <2>. QED BY <2>1, RangeKeeps
<1>. HIDE DEF Kept
<1>6. Kept
  BY <1>2, <1>3, <1>4, <1>5, Zenon DEF ClipCommand
<1>. QED BY <1>6 DEF Kept

-----------------------------------------------------------------------------
\* The commands that edit regions and notes

\* The forms of the commands on regions
LEMMA RegionFormsKeep ==
    ASSUME ListsGood, NEW command, NEW d, "clips" \in DOMAIN d, "regions" \in DOMAIN d, d.clips = doc.clips,
           RegionList(d.regions), Done(command, d)
    PROVE  /\ ListsGood' /\ did' = command
           /\ RegionsSound(d.regions, doc.regions) => LocksKept
PROOF
<1>1. doc' = NormalizeRouting(d) /\ clipboard' = clipboard /\ did' = command
  BY Zenon DEF Done, Reconcile
<1>2. SameLists(doc', d)
  BY <1>1, ListsRouted
<1>3. "clips" \in DOMAIN doc' /\ "regions" \in DOMAIN doc' /\ doc'.clips = doc.clips /\ doc'.regions = d.regions
  BY <1>2, Zenon DEF SameLists
<1>4. ListsGood'
  BY <1>1, <1>3, Zenon DEF ListsGood
<1>5. RegionsSound(d.regions, doc.regions) => LocksKept
  BY <1>3, AllStay, Zenon DEF LocksKept, RegionsSound
<1>. QED BY <1>1, <1>4, <1>5

\* A list of regions put into the document
LEMMA RegionsKeep ==
    ASSUME ListsGood, NEW command, NEW regions, EditRegions(command, regions), RegionList(regions)
    PROVE  /\ ListsGood' /\ did' = command
           /\ RegionsSound(regions, doc.regions) => LocksKept
PROOF
<1>. DEFINE d == [doc EXCEPT !.regions = regions]
<1>1. "clips" \in DOMAIN d /\ "regions" \in DOMAIN d /\ d.clips = doc.clips /\ d.regions = regions
  BY Zenon DEF ListsGood
<1>2. Done(command, d)
  BY Zenon DEF EditRegions
<1>. HIDE DEF d
<1>. QED BY <1>1, <1>2, RegionFormsKeep

\* An edit of the MIDI keeps the regions in order and leaves what is locked alone, unless it locks or unlocks.
LEMMA MidiCommandKeeps ==
    ASSUME ListsGood, MidiCommand
    PROVE  ListsGood' /\ (LocksKept \/ did'[1] = "lock")
PROOF
<1>. DEFINE Kept == ListsGood' /\ (LocksKept \/ did'[1] = "lock")
<1>1. /\ \A t \in Times : t \in Int
      /\ MinDur \in Int /\ 2 \in Int
      /\ \A take \in Takes : take.dur \in Nat /\ Listed(take.events) /\ \A i \in DOMAIN take.events : take.events[i].at \in Nat
  BY EditsAssumption DEF EditsAssumption, GivenInputs
<1>2. "clips" \in DOMAIN doc /\ "regions" \in DOMAIN doc /\ RegionList(doc.regions)
  BY DEF ListsGood
<1>3. \A regions : RegionsSound(regions, doc.regions) => RegionList(regions)
  BY DEF RegionsSound
<1>4. \A command, regions : EditRegions(command, regions) /\ RegionsSound(regions, doc.regions) => Kept
  BY <1>3, RegionsKeep
<1>5. \A command, d : "clips" \in DOMAIN d /\ "regions" \in DOMAIN d /\ d.clips = doc.clips
                         /\ Done(command, d) /\ RegionsSound(d.regions, doc.regions) => Kept
  BY <1>3, RegionFormsKeep, Zenon
<1>6. \A name, t, dur : LET d == AddRegion(doc, name, t, dur) IN
                        "clips" \in DOMAIN d /\ "regions" \in DOMAIN d /\ d.clips = doc.clips
  BY <1>2, Zenon DEF AddRegion
<1>7. ASSUME NEW name, NEW t \in Times, AddMidiRegion(name, t, 2) PROVE Kept
  <2>1. RegionsSound(AddRegion(doc, name, t, 2).regions, doc.regions)
    BY <1>1, <1>2, AddedRegionSound, Zenon
  <2>2. Done(<<"region">>, AddRegion(doc, name, t, 2))
    BY <1>7 DEF AddMidiRegion
  <2>. HIDE DEF Kept
  <2>. QED BY <1>5, <1>6, <2>1, <2>2, Zenon
<1>8. ASSUME NEW name, NEW take \in Takes, NEW t \in Times, NEW mode, NEW punch, RecordMidiTake(name, take, t, mode, punch)
      PROVE  Kept
  <2>. DEFINE d == RecordTake(doc, name, take.events, t, take.dur, mode, punch)
  <2>1. RegionsSound(d.regions, doc.regions)
    BY <1>1, <1>2, RecordedRegions, Zenon
  <2>2. \E e, regions : (e = doc \/ \E ticks : e = AddRegion(doc, name, t, ticks)) /\ d = [e EXCEPT !.regions = regions]
    BY Zenon DEF RecordTake
  <2>3. Done(<<"take", name, take, t, mode>>, d)
    BY <1>8 DEF RecordMidiTake
  <2>. HIDE DEF d, Kept
  <2>4. PICK e, regions : (e = doc \/ \E ticks : e = AddRegion(doc, name, t, ticks)) /\ d = [e EXCEPT !.regions = regions]
    BY <2>2
  <2>5. "clips" \in DOMAIN e /\ "regions" \in DOMAIN e /\ e.clips = doc.clips
    BY <1>2, <1>6, <2>4, Zenon
  <2>6. "clips" \in DOMAIN d /\ "regions" \in DOMAIN d /\ d.clips = doc.clips
    BY <2>4, <2>5, Zenon
  <2>. QED BY <1>5, <2>1, <2>3, <2>6, Zenon
<1>9. ASSUME NEW id \in RegionIds(doc.regions), NEW name, NEW t \in Times, MoveMidiRegion(id, name, t) PROVE Kept
  <2>. DEFINE d == MoveRegion(doc, id, name, t)
              regions == InRegionOrder(ChangeRegion(doc.regions, id, LAMBDA r : [r EXCEPT !.track = name, !.start = t]))
  <2>1. FreeRegion(doc.regions, id) /\ Done(<<"region">>, d)
    BY <1>9, Zenon DEF MoveMidiRegion
  <2>2. \A x : RegionsSound(InRegionOrder(ChangeRegion(doc.regions, id, LAMBDA r : [r EXCEPT !.track = x, !.start = t])), doc.regions)
    BY <1>1, <1>2, <2>1, MovedRegions, Zenon DEF ChangeRegion
  <2>3. RegionsSound(regions, doc.regions)
    BY <2>2, Zenon DEF ChangeRegion
  <2>4. "clips" \in DOMAIN d /\ "regions" \in DOMAIN d /\ d.clips = doc.clips /\ d.regions = regions
    BY <1>2, Zenon DEF MoveRegion
  <2>. HIDE DEF d, regions, Kept
  <2>. QED BY <1>5, <2>1, <2>3, <2>4, Zenon
<1>10. ASSUME NEW id \in RegionIds(doc.regions), NEW t \in Times
       PROVE  /\ ResizeMidiRegion(id, t) \/ TrimMidiRegionStart(id, t) \/ SplitMidiRegion(id, t) => Kept
              /\ FreeRegion(doc.regions, id) /\ EditRegions(<<"region">>, DuplicateRegion(doc.regions, id, t)) => Kept
  <2>1. FreeRegion(doc.regions, id) =>
          /\ RegionsSound(ResizeRegion(doc.regions, id, t), doc.regions)
          /\ RegionsSound(TrimRegionStart(doc.regions, id, t), doc.regions)
    BY <1>1, <1>2, MovedRegions, Zenon
  <2>2. FreeRegion(doc.regions, id) => RegionsSound(SplitRegion(doc.regions, id, t), doc.regions)
    BY <1>1, <1>2, SplitRegions, Zenon
  <2>3. FreeRegion(doc.regions, id) => RegionsSound(DuplicateRegion(doc.regions, id, t), doc.regions)
    BY <1>1, <1>2, CopiedRegions, Zenon
  <2>. HIDE DEF Kept
  <2>. QED BY <1>4, <2>1, <2>2, <2>3, Zenon DEF ResizeMidiRegion, TrimMidiRegionStart, SplitMidiRegion, CanSplitRegion
<1>11. ASSUME NEW id \in RegionIds(doc.regions), NEW on
       PROVE  /\ FreeRegion(doc.regions, id) /\ EditRegions(<<"region">>, DeleteRegion(doc.regions, id)) => Kept
              /\ FreeRegion(doc.regions, id) /\ EditRegions(<<"region">>, SetRegionFlag(doc.regions, id, "muted", on)) => Kept
              /\ EditRegions(<<"lock">>, SetRegionFlag(doc.regions, id, "locked", on)) => Kept
  <2>1. 0 \in Int
    OBVIOUS
  <2>2. FreeRegion(doc.regions, id) =>
          /\ RegionsSound(DeleteRegion(doc.regions, id), doc.regions)
          /\ RegionsSound(SetRegionFlag(doc.regions, id, "muted", on), doc.regions)
    BY <1>1, <1>2, <2>1, CopiedRegions, MovedRegions, Zenon
  <2>3. ASSUME EditRegions(<<"lock">>, SetRegionFlag(doc.regions, id, "locked", on)) PROVE Kept
    <3>1. RegionList(SetRegionFlag(doc.regions, id, "locked", on))
      BY <1>2, LockedRegions
    <3>2. ListsGood' /\ did' = <<"lock">>
      BY <2>3, <3>1, RegionsKeep
    <3>. QED BY <3>2
  <2>. HIDE DEF Kept
  <2>. QED BY <1>4, <2>2, <2>3, Zenon
<1>. HIDE DEF Kept
<1>12. Kept
  BY <1>7, <1>8, <1>9, <1>10, <1>11, Zenon DEF MidiCommand
<1>. QED BY <1>12 DEF Kept

\* An edit of one region's notes or events
LEMMA NotesKeep ==
    ASSUME ListsGood, NEW id, FreeRegion(doc.regions, id), NEW made,
           \A i \in DOMAIN doc.regions : AsRegion(made[i], doc.regions[i]),
           EditRegions(<<"notes">>, [i \in DOMAIN doc.regions |-> IF doc.regions[i].id = id THEN made[i] ELSE doc.regions[i]])
    PROVE  ListsGood' /\ LocksKept
PROOF
<1>. DEFINE old == doc.regions
            new == [i \in DOMAIN old |-> IF old[i].id = id THEN made[i] ELSE old[i]]
<1>1. RegionList(old) /\ id \in RegionIds(old) /\ FreeRegion(old, id)
  BY DEF ListsGood, FreeRegion
<1>2. \A i \in DOMAIN old : AsRegion(made[i], old[i])
  OBVIOUS
<1>3. EditRegions(<<"notes">>, new)
  OBVIOUS
<1>4. new = [i \in DOMAIN old |-> IF old[i].id = id THEN made[i] ELSE old[i]]
  OBVIOUS
<1>. HIDE DEF old, new
<1>5. \A i \in DOMAIN old : old[i].id = id => ~old[i].locked
  BY <1>1, RegionIs, Zenon
<1>6. RegionsSound(new, old)
  BY <1>1, <1>2, <1>4, <1>5, ChangedRegions
<1>7. RegionList(new)
  BY <1>6 DEF RegionsSound
<1>. QED BY <1>3, <1>6, <1>7, RegionsKeep DEF old

\* An edit of notes or events keeps the regions in order and leaves what is locked alone.
LEMMA NoteCommandKeeps ==
    ASSUME ListsGood, NoteCommand
    PROVE  ListsGood' /\ LocksKept
PROOF
<1>. DEFINE Kept == ListsGood' /\ LocksKept
            Edit(id, made) ==
                /\ FreeRegion(doc.regions, id)
                /\ EditRegions(<<"notes">>, [i \in DOMAIN doc.regions |-> IF doc.regions[i].id = id THEN made[i] ELSE doc.regions[i]])
<1>1. \A i \in DOMAIN doc.regions : IsRegion(doc.regions[i])
  BY RegionListIs DEF ListsGood
<1>2. ASSUME NEW id, NEW made, Edit(id, made), \A i \in DOMAIN doc.regions : AsRegion(made[i], doc.regions[i]) PROVE Kept
  BY <1>2, NotesKeep
<1>3. PICK id \in RegionIds(doc.regions), pitch \in Notation.pitches, by \in Notation.shifts :
        \/ EditRegion(<<"notes">>, id, LAMBDA x : Transpose(x, by))
        \/ EditRegion(<<"notes">>, id, LAMBDA x : Humanize(x, LAMBDA n : IF n.pitch = pitch THEN by ELSE 0))
        \/ EditRegion(<<"notes">>, id, LAMBDA x : Quantize(x, Notation.q))
        \/ EditRegion(<<"notes">>, id, LAMBDA x : AddNote(x, pitch, AtLeast(0, by), 2))
        \/ \E ids \in (SUBSET {Region(doc.regions, id).notes[i].id : i \in DOMAIN Region(doc.regions, id).notes}) \ {{}} :
              \/ EditRegion(<<"notes">>, id, LAMBDA x : MoveNotes(x, ids, pitch - Region(doc.regions, id).notes[1].pitch, by))
              \/ EditRegion(<<"notes">>, id, LAMBDA x : ResizeNotes(x, ids, by))
              \/ EditRegion(<<"notes">>, id, LAMBDA x : AdjustVelocities(x, ids, by))
              \/ EditRegion(<<"notes">>, id, LAMBDA x : DeleteNotes(x, ids))
              \/ \E n \in ids, on \in BOOLEAN : EditRegion(<<"notes">>, id, LAMBDA x : MuteNote(x, n, on))
        \/ EditRegion(<<"notes">>, id, LAMBDA x : AddEvent(x, AtLeast(0, by), "control", pitch))
        \/ \E i \in DOMAIN Region(doc.regions, id).events :
              \/ EditRegion(<<"notes">>, id, LAMBDA x : MoveEvent(x, Region(doc.regions, id).events[i].id, AtLeast(0, by)))
              \/ EditRegion(<<"notes">>, id, LAMBDA x : DeleteEvent(x, Region(doc.regions, id).events[i].id))
  BY Zenon DEF NoteCommand
<1>4. ASSUME EditRegion(<<"notes">>, id, LAMBDA x : Transpose(x, by)) PROVE Kept
  <2>. DEFINE made == [i \in DOMAIN doc.regions |-> Transpose(doc.regions[i], by)]
  <2>1. Edit(id, made)
    BY <1>4, Zenon DEF EditRegion, ChangeRegion
  <2>2. \A i \in DOMAIN doc.regions : AsRegion(made[i], doc.regions[i])
    BY <1>1, EditedNotes, Zenon
  <2>. HIDE DEF made, Edit, Kept
  <2>. QED BY <1>2, <2>1, <2>2
<1>5. ASSUME EditRegion(<<"notes">>, id, LAMBDA x : Humanize(x, LAMBDA n : IF n.pitch = pitch THEN by ELSE 0)) PROVE Kept
  <2>. DEFINE made == [i \in DOMAIN doc.regions |-> Humanize(doc.regions[i], LAMBDA n : IF n.pitch = pitch THEN by ELSE 0)]
  <2>1. Edit(id, made)
    BY <1>5, Zenon DEF EditRegion, ChangeRegion
  <2>2. \A i \in DOMAIN doc.regions : AsRegion(made[i], doc.regions[i])
    BY <1>1, EditedNotes, Zenon DEF Humanize, Notes
  <2>. HIDE DEF made, Edit, Kept
  <2>. QED BY <1>2, <2>1, <2>2
<1>6. ASSUME EditRegion(<<"notes">>, id, LAMBDA x : Quantize(x, Notation.q)) PROVE Kept
  <2>. DEFINE made == [i \in DOMAIN doc.regions |-> Quantize(doc.regions[i], Notation.q)]
  <2>1. Edit(id, made)
    BY <1>6, Zenon DEF EditRegion, ChangeRegion
  <2>2. \A i \in DOMAIN doc.regions : AsRegion(made[i], doc.regions[i])
    BY <1>1, EditedNotes, Zenon
  <2>. HIDE DEF made, Edit, Kept
  <2>. QED BY <1>2, <2>1, <2>2
<1>7. ASSUME EditRegion(<<"notes">>, id, LAMBDA x : AddNote(x, pitch, AtLeast(0, by), 2)) PROVE Kept
  <2>. DEFINE made == [i \in DOMAIN doc.regions |-> AddNote(doc.regions[i], pitch, AtLeast(0, by), 2)]
  <2>1. Edit(id, made)
    BY <1>7, Zenon DEF EditRegion, ChangeRegion
  <2>2. \A i \in DOMAIN doc.regions : AsRegion(made[i], doc.regions[i])
    BY <1>1, EditedNotes, Zenon
  <2>. HIDE DEF made, Edit, Kept
  <2>. QED BY <1>2, <2>1, <2>2
<1>8. ASSUME EditRegion(<<"notes">>, id, LAMBDA x : AddEvent(x, AtLeast(0, by), "control", pitch)) PROVE Kept
  <2>. DEFINE made == [i \in DOMAIN doc.regions |-> AddEvent(doc.regions[i], AtLeast(0, by), "control", pitch)]
  <2>1. Edit(id, made)
    BY <1>8, Zenon DEF EditRegion, ChangeRegion
  <2>2. \A i \in DOMAIN doc.regions : AsRegion(made[i], doc.regions[i])
    BY <1>1, EditedNotes, Zenon
  <2>. HIDE DEF made, Edit, Kept
  <2>. QED BY <1>2, <2>1, <2>2
<1>9. ASSUME NEW ids \in (SUBSET {Region(doc.regions, id).notes[i].id : i \in DOMAIN Region(doc.regions, id).notes}) \ {{}},
             \/ EditRegion(<<"notes">>, id, LAMBDA x : MoveNotes(x, ids, pitch - Region(doc.regions, id).notes[1].pitch, by))
             \/ EditRegion(<<"notes">>, id, LAMBDA x : ResizeNotes(x, ids, by))
             \/ EditRegion(<<"notes">>, id, LAMBDA x : AdjustVelocities(x, ids, by))
             \/ EditRegion(<<"notes">>, id, LAMBDA x : DeleteNotes(x, ids))
             \/ \E n \in ids, on \in BOOLEAN : EditRegion(<<"notes">>, id, LAMBDA x : MuteNote(x, n, on))
      PROVE  Kept
  <2>1. ASSUME EditRegion(<<"notes">>, id, LAMBDA x : MoveNotes(x, ids, pitch - Region(doc.regions, id).notes[1].pitch, by)) PROVE Kept
    <3>. DEFINE made == [i \in DOMAIN doc.regions |-> MoveNotes(doc.regions[i], ids, pitch - Region(doc.regions, id).notes[1].pitch, by)]
    <3>1. Edit(id, made)
      BY <2>1, Zenon DEF EditRegion, ChangeRegion
    <3>2. \A i \in DOMAIN doc.regions : AsRegion(made[i], doc.regions[i])
      BY <1>1, EditedNotes, Zenon
    <3>. HIDE DEF made, Edit, Kept
    <3>. QED BY <1>2, <3>1, <3>2
  <2>2. ASSUME EditRegion(<<"notes">>, id, LAMBDA x : ResizeNotes(x, ids, by)) PROVE Kept
    <3>. DEFINE made == [i \in DOMAIN doc.regions |-> ResizeNotes(doc.regions[i], ids, by)]
    <3>1. Edit(id, made)
      BY <2>2, Zenon DEF EditRegion, ChangeRegion
    <3>2. \A i \in DOMAIN doc.regions : AsRegion(made[i], doc.regions[i])
      BY <1>1, EditedNotes, Zenon
    <3>. HIDE DEF made, Edit, Kept
    <3>. QED BY <1>2, <3>1, <3>2
  <2>3. ASSUME EditRegion(<<"notes">>, id, LAMBDA x : AdjustVelocities(x, ids, by)) PROVE Kept
    <3>. DEFINE made == [i \in DOMAIN doc.regions |-> AdjustVelocities(doc.regions[i], ids, by)]
    <3>1. Edit(id, made)
      BY <2>3, Zenon DEF EditRegion, ChangeRegion
    <3>2. \A i \in DOMAIN doc.regions : AsRegion(made[i], doc.regions[i])
      BY <1>1, EditedNotes, Zenon
    <3>. HIDE DEF made, Edit, Kept
    <3>. QED BY <1>2, <3>1, <3>2
  <2>4. ASSUME EditRegion(<<"notes">>, id, LAMBDA x : DeleteNotes(x, ids)) PROVE Kept
    <3>. DEFINE made == [i \in DOMAIN doc.regions |-> DeleteNotes(doc.regions[i], ids)]
    <3>1. Edit(id, made)
      BY <2>4, Zenon DEF EditRegion, ChangeRegion
    <3>2. \A i \in DOMAIN doc.regions : AsRegion(made[i], doc.regions[i])
      BY <1>1, EditedNotes, Zenon
    <3>. HIDE DEF made, Edit, Kept
    <3>. QED BY <1>2, <3>1, <3>2
  <2>5. ASSUME NEW n \in ids, NEW on \in BOOLEAN, EditRegion(<<"notes">>, id, LAMBDA x : MuteNote(x, n, on)) PROVE Kept
    <3>. DEFINE made == [i \in DOMAIN doc.regions |-> MuteNote(doc.regions[i], n, on)]
    <3>1. Edit(id, made)
      BY <2>5, Zenon DEF EditRegion, ChangeRegion
    <3>2. \A i \in DOMAIN doc.regions : AsRegion(made[i], doc.regions[i])
      BY <1>1, EditedNotes, Zenon
    <3>. HIDE DEF made, Edit, Kept
    <3>. QED BY <1>2, <3>1, <3>2
  <2>. HIDE DEF Kept
  <2>. QED BY <1>9, <2>1, <2>2, <2>3, <2>4, <2>5, Zenon
<1>10. ASSUME NEW i \in DOMAIN Region(doc.regions, id).events,
             EditRegion(<<"notes">>, id, LAMBDA x : MoveEvent(x, Region(doc.regions, id).events[i].id, AtLeast(0, by)))
             \/ EditRegion(<<"notes">>, id, LAMBDA x : DeleteEvent(x, Region(doc.regions, id).events[i].id))
       PROVE  Kept
  <2>1. ASSUME EditRegion(<<"notes">>, id, LAMBDA x : MoveEvent(x, Region(doc.regions, id).events[i].id, AtLeast(0, by))) PROVE Kept
    <3>. DEFINE made == [k \in DOMAIN doc.regions |-> MoveEvent(doc.regions[k], Region(doc.regions, id).events[i].id, AtLeast(0, by))]
    <3>1. Edit(id, made)
      BY <2>1, Zenon DEF EditRegion, ChangeRegion
    <3>2. \A k \in DOMAIN doc.regions : AsRegion(made[k], doc.regions[k])
      BY <1>1, EditedNotes, Zenon
    <3>. HIDE DEF made, Edit, Kept
    <3>. QED BY <1>2, <3>1, <3>2
  <2>2. ASSUME EditRegion(<<"notes">>, id, LAMBDA x : DeleteEvent(x, Region(doc.regions, id).events[i].id)) PROVE Kept
    <3>. DEFINE made == [k \in DOMAIN doc.regions |-> DeleteEvent(doc.regions[k], Region(doc.regions, id).events[i].id)]
    <3>1. Edit(id, made)
      BY <2>2, Zenon DEF EditRegion, ChangeRegion
    <3>2. \A k \in DOMAIN doc.regions : AsRegion(made[k], doc.regions[k])
      BY <1>1, EditedNotes, Zenon
    <3>. HIDE DEF made, Edit, Kept
    <3>. QED BY <1>2, <3>1, <3>2
  <2>. HIDE DEF Kept
  <2>. QED BY <1>10, <2>1, <2>2, Zenon
<1>. HIDE DEF Kept
<1>11. Kept
  BY <1>3, <1>4, <1>5, <1>6, <1>7, <1>8, <1>9, <1>10, Zenon
<1>. QED BY <1>11 DEF Kept

-----------------------------------------------------------------------------
\* The invariant of the lists

\* While clips, regions or notes are edited, the clips, the copied clips and the regions are lists
\* whose members have ids of their own: without that an edit by id could reach a locked one too.
\* Opening the project again, or taking it to another program, ends the editing.
Edited == {"clips", "midi", "notes"}
ListsInv ==
    /\ area \in DOMAIN Start /\ edits \in Nat
    /\ area \in Edited /\ edits <= MaxEdits[area] => ListsGood

\* A step of an editing area
StepKeeps == ListsGood' /\ (LocksKept \/ did'[1] = "lock")

\* The number of commands stays one.
LEMMA CountedSteps ==
    ASSUME ListsInv, Next
    PROVE  edits' \in Nat
PROOF
<1>1. edits \in Nat /\ MaxEdits[area] \in Nat
  BY EditsAssumption, Zenon DEF ListsInv, EditsAssumption
<1>2. edits' \in {edits + 1, MaxEdits[area], MaxEdits[area] + 1}
  BY Zenon DEF Next, ClipCommand, PlaylistCommand, TrackCommand, StripCommand, MidiCommand, NoteCommand, PointCommand,
               VideoCommand, MediaCommand, Reopen, Exchange, Editing
<1>. QED BY <1>1, <1>2

\* Each step comes from a command of its area, or ends the editing.
LEMMA EditedSteps ==
    ASSUME ListsInv, Next
    PROVE  /\ area' = area
           /\ \/ area \notin Edited
              \/ area \in Edited /\ StepKeeps
              \/ did'[1] \in {"reopen", "exchange"} /\ ~(edits' <= MaxEdits[area])
PROOF
<1>1. area \in DOMAIN Start /\ edits \in Nat /\ (area \in Edited /\ edits <= MaxEdits[area] => ListsGood)
  BY DEF ListsInv
<1>2. MaxEdits[area] \in Nat /\ DOMAIN Folder \cap Edited = {}
  BY <1>1, EditsAssumption DEF EditsAssumption, GivenInputs, Edited
<1>3. edits < MaxEdits[area] => edits <= MaxEdits[area]
  BY <1>1, <1>2
<1>4. CASE ClipCommand
  <2>1. area = "clips" /\ area' = area /\ edits < MaxEdits[area]
    BY <1>4, Zenon DEF ClipCommand, Editing
  <2>2. area \in Edited
    BY <2>1 DEF Edited
  <2>3. ListsGood
    BY <1>1, <1>3, <2>1, <2>2
  <2>. QED BY <1>4, <2>1, <2>2, <2>3, ClipCommandKeeps DEF StepKeeps
<1>5. CASE MidiCommand
  <2>1. area = "midi" /\ area' = area /\ edits < MaxEdits[area]
    BY <1>5, Zenon DEF MidiCommand, Editing
  <2>2. area \in Edited
    BY <2>1 DEF Edited
  <2>3. ListsGood
    BY <1>1, <1>3, <2>1, <2>2
  <2>. QED BY <1>5, <2>1, <2>2, <2>3, MidiCommandKeeps DEF StepKeeps
<1>6. CASE NoteCommand
  <2>1. area = "notes" /\ area' = area /\ edits < MaxEdits[area]
    BY <1>6, Zenon DEF NoteCommand, Editing
  <2>2. area \in Edited
    BY <2>1 DEF Edited
  <2>3. ListsGood
    BY <1>1, <1>3, <2>1, <2>2
  <2>. QED BY <1>6, <2>1, <2>2, <2>3, NoteCommandKeeps DEF StepKeeps
<1>7. CASE PlaylistCommand \/ TrackCommand \/ StripCommand \/ PointCommand \/ VideoCommand
  <2>1. area' = area /\ area \in {"playlists", "tracks", "strips", "points", "video"}
    BY <1>7 DEF PlaylistCommand, TrackCommand, StripCommand, PointCommand, VideoCommand, Editing
  <2>. QED BY <2>1 DEF Edited
<1>8. CASE MediaCommand
  <2>1. area' = area /\ area \in DOMAIN Folder
    BY <1>8, Zenon DEF MediaCommand, HasFiles
  <2>. QED BY <1>2, <2>1
<1>9. \A n : n = MaxEdits[area] + 1 => ~(n <= MaxEdits[area])
  BY <1>2
<1>10. CASE Reopen
  <2>1. area' = area /\ edits' = MaxEdits[area] + 1 /\ did' = <<"reopen">>
    BY <1>10, Zenon DEF Reopen, Done
  <2>. QED BY <1>9, <2>1
<1>11. ASSUME NEW form \in Forms, Exchange(form)
       PROVE  area' = area /\ did'[1] \in {"reopen", "exchange"} /\ ~(edits' <= MaxEdits[area])
  <2>1. area' = area /\ edits' = MaxEdits[area] + 1 /\ did' = <<"exchange", form>>
    BY <1>11, Zenon DEF Exchange, Done
  <2>. QED BY <1>9, <2>1
<1>. QED BY <1>4, <1>5, <1>6, <1>7, <1>8, <1>10, <1>11, Zenon DEF Next

\* It holds at the start,
LEMMA ListsStart ==
    Init => ListsInv
PROOF
<1>. SUFFICES ASSUME Init PROVE ListsInv
  OBVIOUS
<1>1. area \in DOMAIN Start /\ doc \in Start[area] /\ clipboard = <<>> /\ edits = 0
  BY Zenon DEF Init
<1>2. GivenDocument(doc)
  BY <1>1, EditsAssumption, Zenon DEF EditsAssumption
<1>3. "clips" \in DOMAIN doc /\ "regions" \in DOMAIN doc /\ ClipList(doc.clips) /\ RegionList(doc.regions)
  <2>1. Typed(doc) /\ "regions" \in DOMAIN doc /\ ClipList(doc.clips) /\ RegionList(doc.regions)
    BY <1>2 DEF GivenDocument
  <2>2. {"markers", "map", "points", "tempo", "sel", "loop", "clips"} \subseteq DOMAIN doc
    BY <2>1 DEF Typed
  <2>. QED BY <2>1, <2>2
<1>4. ClipList(<<>>)
  BY DEF ClipList, Labelled, Listed
<1>5. edits \in Nat
  BY <1>1
<1>. QED BY <1>1, <1>3, <1>4, <1>5, Zenon DEF ListsInv, ListsGood

\* and every step keeps it.
LEMMA ListsSteps ==
    ListsInv /\ [Next]_vars => ListsInv'
PROOF
<1>1. ASSUME ListsInv, Next PROVE ListsInv'
  <2>1. area' = area /\ area \in DOMAIN Start /\ edits' \in Nat
    BY <1>1, CountedSteps, EditedSteps DEF ListsInv
  <2>2. area \in Edited /\ edits' <= MaxEdits[area] => ListsGood'
    BY <1>1, EditedSteps DEF StepKeeps
  <2>. QED BY <2>1, <2>2, Zenon DEF ListsInv
<1>2. ASSUME ListsInv, UNCHANGED vars PROVE ListsInv'
  BY <1>2, Zenon DEF vars, ListsInv, ListsGood
<1>. QED BY <1>1, <1>2

\* While clips, regions or notes are edited, every clip, every copied clip and every region has an
\* id of its own, whatever is split, copied, pasted, cut, glued or recorded: freshId never
\* gives an id that is in use, and neither does nextMidiRegionId.
THEOREM IdsStayUnique ==
    Spec => [](area \in Edited /\ edits <= MaxEdits[area] =>
                  ClipList(doc.clips) /\ ClipList(clipboard) /\ RegionList(doc.regions))
PROOF
<1>1. ListsInv => (area \in Edited /\ edits <= MaxEdits[area] =>
                      ClipList(doc.clips) /\ ClipList(clipboard) /\ RegionList(doc.regions))
  BY DEF ListsInv, ListsGood
<1>. QED BY <1>1, ListsStart, ListsSteps, PTL DEF Spec

\* A command leaves every locked clip and region exactly as it was, unless it locks or unlocks
\* one: isClipLocked and the region's flag are asked by every operation that could change one.
THEOREM LockedStayUntouched ==
    Spec => LockedUntouched
PROOF
<1>. DEFINE Untouched ==
              did'[1] \notin {"lock", "exchange", "reopen"} /\ area \in {"clips", "midi", "notes"} =>
                 /\ \A c \in ToSet(doc.clips) : c.locked => c \in ToSet(doc'.clips)
                 /\ \A r \in ToSet(doc.regions) : r.locked => r \in ToSet(doc'.regions)
<1>1. ASSUME NEW new, NEW old, LockedStay(new, old) PROVE \A x \in ToSet(old) : x.locked => x \in ToSet(new)
  BY <1>1, Zenon DEF LockedStay, ToSet
<1>2. ASSUME ListsInv, Next PROVE Untouched
  <2>1. SUFFICES ASSUME did'[1] \notin {"lock", "exchange", "reopen"}, area \in {"clips", "midi", "notes"} PROVE LocksKept
    BY <1>1, Zenon DEF LocksKept
  <2>2. StepKeeps
    BY <1>2, <2>1, EditedSteps DEF Edited
  <2>. QED BY <2>1, <2>2 DEF StepKeeps
<1>3. ListsInv /\ [Next]_vars => [Untouched]_vars
  <2>. HIDE DEF Untouched
  <2>. QED BY <1>2
<1>. QED BY <1>3, ListsStart, ListsSteps, PTL DEF Spec, LockedUntouched
====
