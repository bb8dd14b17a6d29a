--------------------------- MODULE DspManagerProofs ---------------------------
(***************************************************************************)
(* Theorems about DspManager, with their proofs.                           *)
(***************************************************************************)
EXTENDS DspManager, FiniteSetTheorems, SequenceTheorems, NaturalsInduction,
        WellFoundedInduction, TLAPS

\* The value of an instance in the sum, and the function the fold is defined by.
IsTotal(it, g, S) ==
    it = [s \in SUBSET S |-> IF s = {} THEN 0
             ELSE LET x == CHOOSE x \in s : TRUE IN g[x].channels + it[s \ {x}]]

TotalOf(g, S) == CHOOSE it : IsTotal(it, g, S)

LEMMA ChannelsUnfold ==
    ASSUME NEW g, NEW S
    PROVE  Channels(g, S) = TotalOf(g, S)[S]
PROOF
BY DEF Channels, MapThenSumSet, MapThenFoldSet, TotalOf, IsTotal

LEMMA SmallestBad ==
    ASSUME NEW S, IsFiniteSet(S), NEW Bad \in SUBSET SUBSET S, Bad # {}
    PROVE  \E s \in Bad : \A x \in s : s \ {x} \notin Bad
PROOF
<1>1. Bad \in SUBSET FiniteSubsetsOf(S)
  BY FS_Subset DEF FiniteSubsetsOf
<1>2. PICK s \in Bad : \A r \in Bad : ~(<<r, s>> \in StrictSubsetOrdering(S))
  <2>1. IsWellFoundedOn(StrictSubsetOrdering(S), FiniteSubsetsOf(S))
    BY FS_StrictSubsetOrderingWellFounded
  <2>. QED BY <1>1, <2>1, WFMin
<1>. QED BY <1>2 DEF StrictSubsetOrdering

LEMMA TotalsAgree ==
    ASSUME NEW g, NEW h, NEW A, NEW B, NEW it, NEW jt, IsFiniteSet(A),
           IsTotal(it, g, A), IsTotal(jt, h, B),
           \A i \in A \cap B : g[i].channels = h[i].channels
    PROVE  \A s \in SUBSET (A \cap B) : it[s] = jt[s]
PROOF
<1>. DEFINE Bad == {s \in SUBSET (A \cap B) : it[s] # jt[s]}
<1>1. SUFFICES ASSUME Bad # {} PROVE FALSE
  OBVIOUS
<1>2. PICK s \in Bad : \A x \in s : s \ {x} \notin Bad
  <2>1. Bad \in SUBSET SUBSET A
    OBVIOUS
  <2>. QED BY <1>1, <2>1, SmallestBad
<1>3. it[s] = IF s = {} THEN 0
              ELSE LET x == CHOOSE x \in s : TRUE IN g[x].channels + it[s \ {x}]
  BY <1>2 DEF IsTotal
<1>4. jt[s] = IF s = {} THEN 0
              ELSE LET x == CHOOSE x \in s : TRUE IN h[x].channels + jt[s \ {x}]
  BY <1>2 DEF IsTotal
<1>. QED BY <1>2, <1>3, <1>4

LEMMA TotalExists ==
    ASSUME NEW g, NEW S, IsFiniteSet(S)
    PROVE  IsTotal(TotalOf(g, S), g, S)
PROOF
<1>. DEFINE Bad == {T \in SUBSET S : ~ \E it : IsTotal(it, g, T)}
<1>1. SUFFICES ASSUME Bad # {} PROVE FALSE
  BY DEF TotalOf
<1>2. PICK T \in Bad : \A x \in T : T \ {x} \notin Bad
  BY <1>1, SmallestBad
<1>3. \A x \in T : IsTotal(TotalOf(g, T \ {x}), g, T \ {x})
  BY <1>2 DEF TotalOf
<1>. DEFINE Part(x) == TotalOf(g, T \ {x})
            First(s) == CHOOSE x \in s : TRUE
            it == [s \in SUBSET T |-> IF s = {} THEN 0
                      ELSE g[First(s)].channels + Part(First(s))[s \ {First(s)}]]
<1>4. ASSUME NEW s \in SUBSET T, s # {}
      PROVE  it[s \ {First(s)}] = Part(First(s))[s \ {First(s)}]
  <2>. DEFINE x == First(s)  r == s \ {x}  y == First(r)
  <2>1. x \in s /\ x \in T /\ r \in SUBSET T /\ r \in SUBSET (T \ {x})
    BY <1>4
  <2>2. CASE r = {}
    <3>1. it[r] = 0
      BY <2>1, <2>2
    <3>2. Part(x)[r] = 0
      <4>1. IsTotal(Part(x), g, T \ {x})
        BY <1>3, <2>1
      <4>. HIDE DEF Part, r, x
      <4>. QED BY <2>1, <2>2, <4>1 DEF IsTotal
    <3>. QED BY <3>1, <3>2
  <2>3. CASE r # {}
    <3>1. y \in r /\ y \in T /\ r \ {y} \in SUBSET (T \ {y}) /\ r \ {y} \in SUBSET (T \ {x})
      BY <2>1, <2>3
    <3>2. it[r] = g[y].channels + Part(y)[r \ {y}]
      BY <2>1, <2>3
    <3>3. Part(x)[r] = g[y].channels + Part(x)[r \ {y}]
      BY <1>3, <2>1, <2>3 DEF IsTotal
    <3>4. Part(x)[r \ {y}] = Part(y)[r \ {y}]
      <4>1. IsFiniteSet(T \ {x})
        BY <1>2, FS_Subset
      <4>2. r \ {y} \in SUBSET ((T \ {x}) \cap (T \ {y}))
        BY <3>1
      <4>3. IsTotal(Part(x), g, T \ {x}) /\ IsTotal(Part(y), g, T \ {y})
        BY <1>3, <2>1, <3>1
      <4>. HIDE DEF Part, r, x, y
      <4>. QED BY <4>1, <4>2, <4>3, TotalsAgree
    <3>. QED BY <3>2, <3>3, <3>4
  <2>. QED BY <2>2, <2>3
<1>5. IsTotal(it, g, T)
  <2>1. it = [s \in SUBSET T |-> IF s = {} THEN 0
                 ELSE g[First(s)].channels + it[s \ {First(s)}]]
    <3>1. ASSUME NEW s \in SUBSET T
          PROVE  (IF s = {} THEN 0 ELSE g[First(s)].channels + it[s \ {First(s)}])
                 = (IF s = {} THEN 0
                    ELSE g[First(s)].channels + Part(First(s))[s \ {First(s)}])
      <4>1. CASE s = {}
        BY <4>1
      <4>2. CASE s # {}
        <5>1. it[s \ {First(s)}] = Part(First(s))[s \ {First(s)}]
          BY <1>4, <4>2
        <5>. HIDE DEF it, Part, First
        <5>. QED BY <5>1
      <4>. QED BY <4>1, <4>2
    <3>2. it = [s \in SUBSET T |-> IF s = {} THEN 0
                   ELSE g[First(s)].channels + Part(First(s))[s \ {First(s)}]]
      OBVIOUS
    <3>. HIDE DEF it, Part, First
    <3>. QED BY <3>1, <3>2
  <2>. QED BY <2>1 DEF IsTotal
<1>. QED BY <1>2, <1>5

LEMMA ChannelsIn ==
    ASSUME NEW g, NEW S, IsFiniteSet(S), NEW T \in SUBSET S
    PROVE  Channels(g, T) = TotalOf(g, S)[T]
PROOF
<1>1. IsFiniteSet(T)
  BY FS_Subset
<1>2. IsTotal(TotalOf(g, S), g, S) /\ IsTotal(TotalOf(g, T), g, T)
  BY <1>1, TotalExists
<1>3. T \in SUBSET (T \cap S)
  OBVIOUS
<1>. QED BY <1>1, <1>2, <1>3, TotalsAgree, ChannelsUnfold

LEMMA ChannelsStep ==
    ASSUME NEW g, NEW S, IsFiniteSet(S)
    PROVE  /\ Channels(g, {}) = 0
           /\ S # {} => LET x == CHOOSE x \in S : TRUE
                        IN  Channels(g, S) = g[x].channels + Channels(g, S \ {x})
PROOF
<1>1. IsTotal(TotalOf(g, S), g, S)
  BY TotalExists
<1>2. Channels(g, {}) = 0
  <2>1. {} \in SUBSET S
    OBVIOUS
  <2>2. TotalOf(g, S)[{}] = 0
    BY <1>1, <2>1 DEF IsTotal
  <2>. QED BY <2>1, <2>2, ChannelsIn
<1>3. ASSUME S # {}
      PROVE  LET x == CHOOSE x \in S : TRUE
             IN  Channels(g, S) = g[x].channels + Channels(g, S \ {x})
  <2>. DEFINE x == CHOOSE x \in S : TRUE
  <2>1. TotalOf(g, S)[S] = g[x].channels + TotalOf(g, S)[S \ {x}]
    BY <1>1, <1>3 DEF IsTotal
  <2>2. Channels(g, S) = TotalOf(g, S)[S] /\ Channels(g, S \ {x}) = TotalOf(g, S)[S \ {x}]
    <3>1. S \in SUBSET S /\ S \ {x} \in SUBSET S
      OBVIOUS
    <3>. HIDE DEF x
    <3>. QED BY <3>1, ChannelsIn
  <2>. QED BY <2>1, <2>2
<1>. QED BY <1>2, <1>3

LEMMA ChannelsType ==
    ASSUME NEW g, NEW S, IsFiniteSet(S), \A i \in S : g[i].channels \in Nat
    PROVE  Channels(g, S) \in Nat
PROOF
<1>. DEFINE Bad == {T \in SUBSET S : Channels(g, T) \notin Nat}
<1>1. SUFFICES ASSUME Bad # {} PROVE FALSE
  OBVIOUS
<1>2. PICK T \in Bad : \A x \in T : T \ {x} \notin Bad
  BY <1>1, SmallestBad
<1>3. IsFiniteSet(T) /\ T # {}
  <2>1. IsFiniteSet(T)
    BY <1>2, FS_Subset
  <2>2. Channels(g, {}) = 0
    BY ChannelsStep
  <2>. QED BY <1>2, <2>1, <2>2
<1>. DEFINE x == CHOOSE x \in T : TRUE
<1>4. x \in T /\ Channels(g, T) = g[x].channels + Channels(g, T \ {x})
  BY <1>3, ChannelsStep
<1>5. Channels(g, T \ {x}) \in Nat
  BY <1>2, <1>4
<1>6. g[x].channels \in Nat
  BY <1>2, <1>4
<1>. HIDE DEF x
<1>. QED BY <1>2, <1>4, <1>5, <1>6

LEMMA ChannelsRemove ==
    ASSUME NEW g, NEW S, IsFiniteSet(S), \A i \in S : g[i].channels \in Nat, NEW i \in S
    PROVE  Channels(g, S) = g[i].channels + Channels(g, S \ {i})
PROOF
<1>. DEFINE Bad == {T \in SUBSET S : \E j \in T :
                       Channels(g, T) # g[j].channels + Channels(g, T \ {j})}
<1>1. SUFFICES ASSUME Bad # {} PROVE FALSE
  OBVIOUS
<1>2. PICK T \in Bad : \A x \in T : T \ {x} \notin Bad
  BY <1>1, SmallestBad
<1>3. PICK j \in T : Channels(g, T) # g[j].channels + Channels(g, T \ {j})
  BY <1>2
<1>4. IsFiniteSet(T)
  BY <1>2, FS_Subset
<1>. DEFINE x == CHOOSE x \in T : TRUE
<1>5. x \in T /\ Channels(g, T) = g[x].channels + Channels(g, T \ {x})
  BY <1>3, <1>4, ChannelsStep
<1>. HIDE DEF x
<1>6. x # j
  BY <1>3, <1>5
<1>7. Channels(g, T \ {x}) = g[j].channels + Channels(g, (T \ {x}) \ {j})
  BY <1>2, <1>5, <1>6
<1>8. Channels(g, T \ {j}) = g[x].channels + Channels(g, (T \ {j}) \ {x})
  BY <1>2, <1>3, <1>5, <1>6
<1>9. (T \ {x}) \ {j} = (T \ {j}) \ {x}
  OBVIOUS
<1>10. Channels(g, (T \ {j}) \ {x}) \in Nat /\ g[x].channels \in Nat /\ g[j].channels \in Nat
  <2>1. IsFiniteSet((T \ {j}) \ {x})
    BY <1>4, FS_Subset
  <2>. QED BY <1>2, <1>3, <1>5, <2>1, ChannelsType
<1>11. g[x].channels + (g[j].channels + Channels(g, (T \ {j}) \ {x}))
       = g[j].channels + (g[x].channels + Channels(g, (T \ {j}) \ {x}))
  BY <1>10
<1>. QED BY <1>3, <1>5, <1>7, <1>8, <1>9, <1>11

LEMMA ChannelsMonotone ==
    ASSUME NEW g, NEW S, IsFiniteSet(S), \A i \in S : g[i].channels \in Nat,
           NEW T \in SUBSET S
    PROVE  Channels(g, T) <= Channels(g, S)
PROOF
<1>. DEFINE Bad == {U \in SUBSET S : T \subseteq U /\ ~(Channels(g, T) <= Channels(g, U))}
<1>1. SUFFICES ASSUME Bad # {} PROVE FALSE
  OBVIOUS
<1>2. PICK U \in Bad : \A x \in U : U \ {x} \notin Bad
  <2>1. Bad \in SUBSET SUBSET S
    OBVIOUS
  <2>. HIDE DEF Bad
  <2>. QED BY <1>1, <2>1, SmallestBad
<1>3. IsFiniteSet(U) /\ IsFiniteSet(T)
  BY <1>2, FS_Subset
<1>4. Channels(g, T) \in Nat
  BY <1>3, ChannelsType
<1>5. PICK x \in U : x \notin T
  BY <1>2, <1>4
<1>6. Channels(g, U) = g[x].channels + Channels(g, U \ {x})
  BY <1>2, <1>3, ChannelsRemove
<1>7. Channels(g, T) <= Channels(g, U \ {x})
  BY <1>2, <1>5
<1>8. g[x].channels \in Nat /\ Channels(g, U \ {x}) \in Nat
  <2>1. IsFiniteSet(U \ {x})
    BY <1>3, FS_Subset
  <2>. QED BY <1>2, <1>5, <2>1, ChannelsType
<1>. QED BY <1>2, <1>4, <1>6, <1>7, <1>8

LEMMA ChannelsAgree ==
    ASSUME NEW g, NEW h, NEW S, IsFiniteSet(S),
           \A i \in S : g[i].channels = h[i].channels
    PROVE  Channels(g, S) = Channels(h, S)
PROOF
<1>1. IsTotal(TotalOf(g, S), g, S) /\ IsTotal(TotalOf(h, S), h, S)
  BY TotalExists
<1>2. TotalOf(g, S)[S] = TotalOf(h, S)[S]
  BY <1>1, TotalsAgree
<1>. QED BY <1>2, ChannelsUnfold
-----------------------------------------------------------------------------
LEMMA LeastNat ==
    ASSUME NEW S \in SUBSET Nat, S # {}
    PROVE  \E n \in S : \A m \in S : n <= m
PROOF
<1>. DEFINE R == OpToRel(<, Nat)
<1>1. R = {p \in Nat \X Nat : p[1] < p[2]}
  BY Zenon DEF OpToRel
<1>2. IsWellFoundedOn(R, Nat)
  BY NatLessThanWellFounded, Zenon
<1>. HIDE DEF R
<1>3. PICK n \in S : \A m \in S : ~(<<m, n>> \in R)
  BY <1>2, WFMin
<1>4. \A m \in S : ~(m < n)
  <2>1. ASSUME NEW m \in S, m < n PROVE <<m, n>> \in R
    <3>1. <<m, n>> \in Nat \X Nat /\ <<m, n>>[1] < <<m, n>>[2]
      BY <2>1
    <3>. QED BY <1>1, <3>1, Zenon
  <2>. QED BY <1>3, <2>1
<1>5. \A m \in S : n <= m
  BY <1>4
<1>. QED BY <1>5

LEMMA MinIn ==
    ASSUME NEW S \in SUBSET Nat, S # {}
    PROVE  Min(S) \in S
PROOF
BY LeastNat DEF Min

IsKept(kept, list, S, len) ==
    kept = [n \in 0 .. len |->
               IF n = 0 THEN <<>>
               ELSE IF list[n] \in S THEN Append(kept[n - 1], list[n])
               ELSE kept[n - 1]]

KeptOf(list, S, len) == CHOOSE kept : IsKept(kept, list, S, len)

LEMMA KeptUnfold ==
    ASSUME NEW list, NEW S
    PROVE  Kept(list, S) = KeptOf(list, S, Len(list))[Len(list)]
PROOF
BY DEF Kept, KeptOf, IsKept

LEMMA SmallestNat ==
    ASSUME NEW Bad \in SUBSET Nat, Bad # {}
    PROVE  \E n \in Bad : n = 0 \/ (n - 1 \in Nat /\ n - 1 \notin Bad)
PROOF
BY LeastNat

LEMMA KeptExists ==
    ASSUME NEW list, NEW S, NEW len \in Nat
    PROVE  IsKept(KeptOf(list, S, len), list, S, len)
PROOF
<1>. DEFINE Bad == {n \in Nat : ~ \E kept : IsKept(kept, list, S, n)}
<1>1. SUFFICES ASSUME Bad # {} PROVE FALSE
  BY DEF KeptOf
<1>2. PICK n \in Bad : n = 0 \/ (n - 1 \in Nat /\ n - 1 \notin Bad)
  <2>1. Bad \in SUBSET Nat
    OBVIOUS
  <2>. HIDE DEF Bad
  <2>. QED BY <1>1, <2>1, SmallestNat
<1>3. CASE n = 0
  <2>1. IsKept([m \in 0 .. 0 |-> <<>>], list, S, 0)
    BY DEF IsKept
  <2>. QED BY <1>2, <1>3, <2>1
<1>4. CASE n # 0
  <2>1. PICK kept : IsKept(kept, list, S, n - 1)
    BY <1>2, <1>4
  <2>. DEFINE longer == [m \in 0 .. n |->
                  IF m = n THEN IF list[n] \in S THEN Append(kept[n - 1], list[n])
                                ELSE kept[n - 1]
                  ELSE kept[m]]
  <2>2. ASSUME NEW m \in 0 .. n
        PROVE  longer[m] = IF m = 0 THEN <<>>
                           ELSE IF list[m] \in S THEN Append(longer[m - 1], list[m])
                           ELSE longer[m - 1]
    <3>1. CASE m = n
      <4>1. longer[m - 1] = kept[n - 1]
        BY <1>2, <1>4, <3>1
      <4>. QED BY <1>4, <3>1, <4>1
    <3>2. CASE m # n /\ m # 0
      <4>1. m \in 0 .. n - 1 /\ m - 1 \in 0 .. n /\ m - 1 # n
        BY <1>2, <3>2
      <4>2. longer[m] = kept[m] /\ longer[m - 1] = kept[m - 1]
        BY <3>2, <4>1
      <4>3. kept[m] = IF list[m] \in S THEN Append(kept[m - 1], list[m]) ELSE kept[m - 1]
        BY <2>1, <3>2, <4>1 DEF IsKept
      <4>. HIDE DEF longer
      <4>. QED BY <3>2, <4>2, <4>3
    <3>3. CASE m # n /\ m = 0
      <4>1. kept[0] = <<>>
        BY <2>1, <1>2, <1>4 DEF IsKept
      <4>. QED BY <3>3, <4>1
    <3>. QED BY <3>1, <3>2, <3>3
  <2>3. IsKept(longer, list, S, n)
    <3>1. longer = [m \in 0 .. n |-> longer[m]]
      OBVIOUS
    <3>. HIDE DEF longer
    <3>. QED BY <2>2, <3>1 DEF IsKept
  <2>. QED BY <1>2, <2>3
<1>. QED BY <1>3, <1>4

\* The places in a list that the elements it keeps come from.
Places(list, S, result, len) ==
    {f \in [DOMAIN result -> 1 .. len] :
        /\ \A i, j \in DOMAIN result : f[i] = f[j] => i = j
        /\ \A j \in DOMAIN result : list[f[j]] \in S /\ result[j] = list[f[j]]}

LEMMA KeptPlaces ==
    ASSUME NEW X, NEW list \in Seq(X), NEW S
    PROVE  /\ Kept(list, S) \in Seq(X)
           /\ Places(list, S, Kept(list, S), Len(list)) # {}
PROOF
<1>. DEFINE len == Len(list)
            kept == KeptOf(list, S, len)
            Good(n) == kept[n] \in Seq(X) /\ Places(list, S, kept[n], n) # {}
            Bad == {n \in 0 .. len : ~ Good(n)}
<1>1. len \in Nat
  OBVIOUS
<1>2. IsKept(kept, list, S, len)
  <2>. HIDE DEF len
  <2>. QED BY <1>1, KeptExists
<1>3. SUFFICES ASSUME Bad # {} PROVE FALSE
  BY <1>1, KeptUnfold
<1>4. PICK n \in Bad : n = 0 \/ (n - 1 \in Nat /\ n - 1 \notin Bad)
  <2>1. Bad \in SUBSET Nat
    BY <1>1
  <2>. HIDE DEF Bad
  <2>. QED BY <1>3, <2>1, SmallestNat
<1>. HIDE DEF kept
<1>5. CASE n = 0
  <2>1. kept[0] = <<>>
    BY <1>1, <1>2 DEF IsKept
  <2>2. <<>> \in Places(list, S, <<>>, 0)
    BY DEF Places
  <2>3. <<>> \in Seq(X)
    OBVIOUS
  <2>. QED BY <1>4, <1>5, <2>1, <2>2, <2>3
<1>6. CASE n # 0
  <2>1. n \in 1 .. len /\ n - 1 \in 0 .. len /\ Good(n - 1)
    BY <1>1, <1>4, <1>6
  <2>. DEFINE before == kept[n - 1]
  <2>2. kept[n] = IF list[n] \in S THEN Append(before, list[n]) ELSE before
    <3>1. n \in 0 .. len /\ n # 0
      BY <1>6, <2>1
    <3>. HIDE DEF len
    <3>. QED BY <1>2, <3>1 DEF IsKept
  <2>3. before \in Seq(X)
    BY <2>1
  <2>4. PICK f \in Places(list, S, before, n - 1) : TRUE
    BY <2>1
  <2>5. list[n] \in X
    BY <2>1
  <2>. HIDE DEF before, len
  <2>6. f \in [1 .. Len(before) -> 1 .. n - 1] /\ Len(before) \in Nat
    BY <2>3, <2>4 DEF Places
  <2>7. CASE list[n] \in S
    <3>. DEFINE g == [j \in 1 .. Len(before) + 1 |-> IF j = Len(before) + 1 THEN n ELSE f[j]]
                result == Append(before, list[n])
    <3>1. result \in Seq(X) /\ DOMAIN result = 1 .. Len(before) + 1
      BY <2>3, <2>5
    <3>2. \A j \in 1 .. Len(before) : result[j] = before[j]
      BY <2>3, <2>5
    <3>3. result[Len(before) + 1] = list[n]
      BY <2>3, <2>5
    <3>. HIDE DEF result
    <3>4. g \in [DOMAIN result -> 1 .. n]
      BY <2>1, <2>6, <3>1
    <3>5. \A i, j \in DOMAIN result : g[i] = g[j] => i = j
      <4>1. \A i, j \in 1 .. Len(before) : f[i] = f[j] => i = j
        BY <2>3, <2>4 DEF Places
      <4>. QED BY <2>1, <2>6, <3>1, <4>1
    <3>6. \A j \in DOMAIN result : list[g[j]] \in S /\ result[j] = list[g[j]]
      <4>1. \A j \in 1 .. Len(before) : list[f[j]] \in S /\ before[j] = list[f[j]]
        BY <2>3, <2>4 DEF Places
      <4>. QED BY <2>6, <2>7, <3>1, <3>2, <3>3, <4>1
    <3>7. g \in Places(list, S, result, n)
      <4>. HIDE DEF g
      <4>. QED BY <3>4, <3>5, <3>6 DEF Places
    <3>8. kept[n] = result
      BY <2>2, <2>7 DEF result
    <3>. QED BY <1>4, <3>1, <3>7, <3>8
  <2>8. CASE list[n] \notin S
    <3>1. f \in Places(list, S, before, n)
      BY <2>1, <2>4 DEF Places
    <3>. QED BY <1>4, <2>2, <2>3, <2>8, <3>1
  <2>. QED BY <2>7, <2>8
<1>. QED BY <1>5, <1>6
-----------------------------------------------------------------------------
Server == [id : ServerId, address : Address, modules : SUBSET Module,
           high : BOOLEAN, peakHigh : BOOLEAN, latched : BOOLEAN,
           usedChannels : Nat, maxChannels : Nat]
Target == [id : ServerId, address : Address]
Plugin == [mode : {"Local", "ExternalDsp"},
           status : {"Ready", "Refused"}, channels : Nat]

\* The types of the state, and that only finitely many instances are registered.
ServersType == servers \in Seq(Server)
PluginsType ==
    /\ plugins \in [Instance -> Plugin \cup {None}]
    /\ IsFiniteSet(OnServers(plugins))
WindowType ==
    /\ dspEngineRunning \in BOOLEAN
    /\ manual \in SUBSET Address
    /\ window \in {"idle", "adding", "refreshing"}
TargetsType == targets \in Seq(Target)
TypeOK == ServersType /\ PluginsType /\ WindowType /\ TargetsType

\* The two lists name a server after its address.
Named ==
    /\ \A k \in DOMAIN servers : servers[k].id \in Ids(servers[k].address)
    /\ \A k \in DOMAIN targets : targets[k].id \in Ids(targets[k].address)
-----------------------------------------------------------------------------
LEMMA FunctionIsSeq ==
    ASSUME NEW S, NEW n \in Nat, NEW f \in [1 .. n -> S]
    PROVE  f \in Seq(S) /\ Len(f) = n /\ DOMAIN f = 1 .. n
PROOF
OBVIOUS

LEMMA AddressFinite == IsFiniteSet(Address) /\ \A a \in Address : Ids(a) \subseteq ServerId
PROOF
<1>1. IsFiniteSet(Address)
  <2>1. Addresses \in Seq(Address) /\ Address = Range(Addresses)
    BY NetworkAssumption DEF Address
  <2>2. IsFiniteSet(1 .. Len(Addresses))
    BY <2>1, FS_Interval
  <2>3. Addresses \in Surjection(1 .. Len(Addresses), Address)
    BY <2>1 DEF Surjection, Range
  <2>. QED BY <2>2, <2>3, FS_Surjection
<1>2. \A a \in Address : Ids(a) \subseteq ServerId
  BY DEF Ids, ServerId
<1>. QED BY <1>1, <1>2

LEMMA NewServerType ==
    ASSUME NEW a \in Address, NEW answer \in Answer
    PROVE  /\ NewServer(a, answer) \in Server
           /\ NewServer(a, answer).address = a
           /\ NewServer(a, answer).id \in Ids(a)
           /\ NewServer(a, answer).usedChannels = 0
PROOF
<1>1. (IF Live(answer) THEN Host[a] ELSE <<"manual", a>>) \in Ids(a) \cap ServerId
  BY AddressFinite DEF Ids
<1>2. ({DefaultModule} \cup (IF Live(answer) THEN {OwnModule[a]} ELSE {})) \in SUBSET Module
  BY NetworkAssumption DEF Module, Range
<1>3. (IF Live(answer) /\ answer[2] > 0 THEN answer[2] ELSE DefaultChannels) \in Nat
  <2>1. answer[2] \in Nat
    <3>1. CASE answer \in Info
      <4>1. answer[2] \in StatusChannels
        BY <3>1 DEF Info
      <4>. QED BY <4>1, ChannelAssumption
    <3>2. CASE answer = <<"probe", 0>> \/ answer = <<"none", 0>>
      BY <3>2
    <3>. QED BY <3>1, <3>2 DEF Answer, Silence
  <2>. QED BY <2>1, ChannelAssumption
<1>. QED BY <1>1, <1>2, <1>3 DEF NewServer, Server

LEMMA FoundServerType ==
    ASSUME NEW a \in Address, NEW answer \in Answer
    PROVE  LET s == [NewServer(a, answer) EXCEPT !.id = <<"found", Host[a], a>>]
           IN  s \in Server /\ s.address = a /\ s.id \in Ids(a) /\ s.usedChannels = 0
PROOF
<1>1. <<"found", Host[a], a>> \in Ids(a) \cap ServerId
  BY AddressFinite DEF Ids
<1>2. NewServer(a, answer) \in Server /\ NewServer(a, answer).address = a
      /\ NewServer(a, answer).usedChannels = 0
  BY NewServerType
<1>. QED BY <1>1, <1>2 DEF Server

\* What a scan of the network puts in the list.
LEMMA ScannedType ==
    ASSUME NEW found \in Seq(Address), IsInjective(found),
           NEW status, \A k \in DOMAIN found : status[found[k]] \in Answer,
           NEW answer, \A a \in Known(found) : answer[a] \in Answer,
           manual \in SUBSET Address
    PROVE  LET list == Scanned(found, status, answer)
           IN  /\ list \in Seq(Server)
               /\ \A k \in DOMAIN list : /\ list[k].id \in Ids(list[k].address)
                                         /\ list[k].usedChannels = 0
               /\ \A j, k \in DOMAIN list : list[j].address = list[k].address => j = k
PROOF
<1>. DEFINE listed == {a \in Known(found) : answer[a] # Silence \/ a \in manual}
            Found1(a) == [NewServer(a, status[a]) EXCEPT !.id = <<"found", Host[a], a>>]
            Known1(a) == NewServer(a, answer[a])
            known == Kept(Addresses, listed)
            left == [k \in DOMAIN found |-> Found1(found[k])]
            right == [k \in DOMAIN known |-> Known1(known[k])]
            list == left \o right
            Fits1(s, a) == s \in Server /\ s.address = a /\ s.id \in Ids(a) /\ s.usedChannels = 0
<1>1. Scanned(found, status, answer) = list
  BY DEF Scanned
<1>2. known \in Seq(Address) /\ IsInjective(known) /\ \A k \in DOMAIN known : known[k] \in listed
  <2>1. Addresses \in Seq(Address) /\ IsInjective(Addresses)
    BY NetworkAssumption
  <2>. HIDE DEF listed
  <2>2. known \in Seq(Address)
    BY <2>1, KeptPlaces
  <2>3. PICK f \in Places(Addresses, listed, known, Len(Addresses)) : TRUE
    BY <2>1, KeptPlaces
  <2>. HIDE DEF known
  <2>4. \A k \in DOMAIN known : f[k] \in DOMAIN Addresses
    BY <2>1, <2>3 DEF Places
  <2>5. IsInjective(known)
    BY <2>1, <2>3, <2>4 DEF Places, IsInjective
  <2>6. \A k \in DOMAIN known : known[k] \in listed
    BY <2>3 DEF Places
  <2>. QED BY <2>2, <2>5, <2>6
<1>3. \A k \in DOMAIN known : known[k] \notin Range(found)
  BY <1>2 DEF Known
<1>3a. \A k \in DOMAIN found : Fits1(Found1(found[k]), found[k])
  BY FoundServerType
<1>3b. \A k \in DOMAIN known : Fits1(Known1(known[k]), known[k])
  BY <1>2, NewServerType
<1>. HIDE DEF known, listed, Found1, Known1, Fits1
<1>4. ASSUME NEW k \in 1 .. Len(found) PROVE Fits1(left[k], found[k])
  BY <1>3a
<1>5. ASSUME NEW k \in 1 .. Len(known) PROVE Fits1(right[k], known[k])
  BY <1>2, <1>3b
<1>6. left \in Seq(Server) /\ Len(left) = Len(found)
  <2>1. \A k \in 1 .. Len(found) : left[k] \in Server
    BY <1>4 DEF Fits1
  <2>2. left \in [1 .. Len(found) -> Server] /\ Len(found) \in Nat
    <3>1. DOMAIN found = 1 .. Len(found) /\ Len(found) \in Nat
      OBVIOUS
    <3>2. left = [k \in 1 .. Len(found) |-> left[k]]
      BY <3>1
    <3>. HIDE DEF left
    <3>. QED BY <2>1, <3>1, <3>2
  <2>. HIDE DEF left
  <2>. QED BY <2>2, FunctionIsSeq
<1>7. right \in Seq(Server) /\ Len(right) = Len(known)
  <2>1. \A k \in 1 .. Len(known) : right[k] \in Server
    BY <1>5 DEF Fits1
  <2>2. right \in [1 .. Len(known) -> Server] /\ Len(known) \in Nat
    <3>1. DOMAIN known = 1 .. Len(known) /\ Len(known) \in Nat
      BY <1>2
    <3>2. right = [k \in 1 .. Len(known) |-> right[k]]
      BY <3>1
    <3>. HIDE DEF right
    <3>. QED BY <2>1, <3>1, <3>2
  <2>. HIDE DEF right
  <2>. QED BY <2>2, FunctionIsSeq
<1>. HIDE DEF left, right
<1>8. list \in Seq(Server) /\ Len(list) = Len(found) + Len(known)
  BY <1>6, <1>7
<1>9. ASSUME NEW k \in DOMAIN list
      PROVE  IF k <= Len(found) THEN k \in 1 .. Len(found) /\ list[k] = left[k]
             ELSE k - Len(found) \in 1 .. Len(known) /\ list[k] = right[k - Len(found)]
  BY <1>2, <1>6, <1>7
<1>. HIDE DEF list
<1>. DEFINE Of(k) == IF k <= Len(found) THEN found[k] ELSE known[k - Len(found)]
<1>10. ASSUME NEW k \in DOMAIN list PROVE Fits1(list[k], Of(k))
  BY <1>4, <1>5, <1>9
<1>11. ASSUME NEW j \in DOMAIN list, NEW k \in DOMAIN list, Of(j) = Of(k) PROVE j = k
  <2>1. Len(found) \in Nat /\ Len(known) \in Nat /\ j \in Nat /\ k \in Nat
    BY <1>2, <1>8
  <2>2. CASE j <= Len(found) /\ k <= Len(found)
    BY <1>9, <1>11, <2>2 DEF IsInjective
  <2>3. CASE j <= Len(found) /\ ~(k <= Len(found))
    BY <1>2, <1>3, <1>9, <1>11, <2>3 DEF Range
  <2>4. CASE ~(j <= Len(found)) /\ k <= Len(found)
    BY <1>2, <1>3, <1>9, <1>11, <2>4 DEF Range
  <2>5. CASE ~(j <= Len(found)) /\ ~(k <= Len(found))
    <3>1. j - Len(found) \in DOMAIN known /\ k - Len(found) \in DOMAIN known
      BY <1>2, <1>9, <2>5
    <3>2. j - Len(found) = k - Len(found)
      BY <1>2, <1>11, <2>5, <3>1 DEF IsInjective
    <3>. QED BY <2>1, <3>2
  <2>. QED BY <2>2, <2>3, <2>4, <2>5
<1>12. \A k \in DOMAIN list : /\ list[k].id \in Ids(list[k].address)
                              /\ list[k].usedChannels = 0
  BY <1>10 DEF Fits1
<1>13. \A j, k \in DOMAIN list : list[j].address = list[k].address => j = k
  <2>. HIDE DEF Of
  <2>1. \A k \in DOMAIN list : list[k].address = Of(k)
    BY <1>10 DEF Fits1
  <2>. QED BY <1>11, <2>1
<1>. QED BY <1>1, <1>8, <1>12, <1>13
-----------------------------------------------------------------------------
\* Every server counts the channels of all external instances.
Counted == \A k \in DOMAIN servers :
               servers[k].usedChannels = Channels(plugins, OnServers(plugins)) % Wrap

LEMMA OnServersType ==
    ASSUME PluginsType
    PROVE  /\ IsFiniteSet(OnServers(plugins))
           /\ \A i \in OnServers(plugins) : plugins[i].channels \in Nat
           /\ Channels(plugins, OnServers(plugins)) \in Nat
PROOF
<1>1. IsFiniteSet(OnServers(plugins))
  BY DEF PluginsType
<1>2. \A i \in OnServers(plugins) : plugins[i].channels \in Nat
  BY DEF PluginsType, OnServers, Plugin
<1>. QED BY <1>1, <1>2, ChannelsType

LEMMA UpdatedType ==
    ASSUME NEW list \in Seq(Server), NEW registered,
           Channels(registered, OnServers(registered)) \in Nat
    PROVE  LET new == Updated(list, registered)
           IN  /\ new \in Seq(Server) /\ DOMAIN new = DOMAIN list
               /\ \A k \in DOMAIN list :
                     /\ new[k].id = list[k].id /\ new[k].address = list[k].address
                     /\ new[k].usedChannels = Channels(registered, OnServers(registered)) % Wrap
PROOF
<1>. DEFINE used == Channels(registered, OnServers(registered)) % Wrap
            new == Updated(list, registered)
            One(s) == [s EXCEPT !.usedChannels = used, !.latched = @ \/ s.peakHigh]
<1>. HIDE DEF used
<1>1. ASSUME NEW s \in Server
      PROVE  One(s) \in Server /\ One(s).id = s.id /\ One(s).address = s.address
             /\ One(s).usedChannels = used
  <2>1. used \in Nat
    BY ChannelAssumption DEF used
  <2>2. (s.latched \/ s.peakHigh) \in BOOLEAN
    BY DEF Server
  <2>. QED BY <2>1, <2>2 DEF Server
<1>2. new = [k \in DOMAIN list |-> One(list[k])]
  BY DEF Updated, used
<1>. HIDE DEF new, One
<1>3. Len(list) \in Nat /\ DOMAIN list = 1 .. Len(list) /\ \A k \in 1 .. Len(list) : list[k] \in Server
  OBVIOUS
<1>4. new \in [1 .. Len(list) -> Server]
  BY <1>1, <1>2, <1>3
<1>5. new \in Seq(Server) /\ DOMAIN new = DOMAIN list
  BY <1>3, <1>4, FunctionIsSeq
<1>6. \A k \in DOMAIN list : new[k].id = list[k].id /\ new[k].address = list[k].address
                             /\ new[k].usedChannels = used
  BY <1>1, <1>2, <1>3
<1>. QED BY <1>5, <1>6 DEF new, used

\* A list that has no address twice has no machine more often than its addresses.
LEMMA DistinctOnce ==
    ASSUME NEW list \in Seq(Server), NEW name,
           \A j, k \in DOMAIN list : list[j].address = list[k].address => j = k
    PROVE  Cardinality({k \in DOMAIN list : Host[list[k].address] = name})
               <= Cardinality(AddressesOf(name))
PROOF
<1>. DEFINE E == {k \in DOMAIN list : Host[list[k].address] = name}
            f == [k \in E |-> list[k].address]
<1>1. IsFiniteSet(AddressesOf(name))
  BY AddressFinite, FS_Subset DEF AddressesOf
<1>2. \A k \in E : f[k] \in AddressesOf(name)
  <2>1. \A k \in DOMAIN list : list[k] \in Server
    OBVIOUS
  <2>2. \A k \in DOMAIN list : list[k].address \in Address
    BY <2>1 DEF Server
  <2>. QED BY <2>2 DEF AddressesOf
<1>3. f \in Injection(E, AddressesOf(name))
  BY <1>2 DEF Injection, IsInjective
<1>. HIDE DEF E, f
<1>4. Cardinality(E) <= Cardinality(AddressesOf(name))
  BY <1>1, <1>3, FS_Injection
<1>. QED BY <1>4 DEF E

LEMMA RescanKeeps ==
    ASSUME TypeOK, Rescan
    PROVE  /\ ServersType' /\ PluginsType'
           /\ \A k \in DOMAIN servers' : servers'[k].id \in Ids(servers'[k].address)
           /\ Counted' /\ ListedOnce'
PROOF
<1>1. PICK heard \in SUBSET Numeric :
          \E found \in SetToSeqs(heard), status \in [heard -> Info] :
              \E answer \in [Known(found) -> Answer] :
                  servers' = Updated(Scanned(found, status, answer), plugins)
  BY DEF Rescan
<1>2. PICK found \in SetToSeqs(heard), status \in [heard -> Info] :
          \E answer \in [Known(found) -> Answer] :
              servers' = Updated(Scanned(found, status, answer), plugins)
  BY <1>1
<1>2a. PICK answer \in [Known(found) -> Answer] :
          servers' = Updated(Scanned(found, status, answer), plugins)
  BY <1>2
<1>2b. heard \in SUBSET Address
  BY NetworkAssumption
<1>3. found \in Seq(Address) /\ IsInjective(found) /\ \A k \in DOMAIN found : found[k] \in heard
  <2>1. Cardinality(heard) \in Nat
    BY <1>2b, AddressFinite, FS_Subset, FS_CardinalityType
  <2>2. found \in [1 .. Cardinality(heard) -> heard]
        /\ \A i, j \in 1 .. Cardinality(heard) : i # j => found[i] # found[j]
    BY <1>2 DEF SetToSeqs
  <2>3. found \in Seq(heard) /\ DOMAIN found = 1 .. Cardinality(heard)
    BY <2>1, <2>2, FunctionIsSeq
  <2>4. \A k \in DOMAIN found : found[k] \in heard
    BY <2>2, <2>3
  <2>. QED BY <1>2b, <2>2, <2>3, <2>4 DEF IsInjective
<1>. DEFINE list == Scanned(found, status, answer)
<1>4. /\ list \in Seq(Server)
      /\ \A k \in DOMAIN list : list[k].id \in Ids(list[k].address)
      /\ \A j, k \in DOMAIN list : list[j].address = list[k].address => j = k
  <2>1. \A k \in DOMAIN found : status[found[k]] \in Answer
    BY <1>2, <1>3 DEF Answer
  <2>2. \A a \in Known(found) : answer[a] \in Answer
    BY <1>2a
  <2>. QED BY <1>3, <2>1, <2>2, ScannedType DEF TypeOK, WindowType
<1>. HIDE DEF list
<1>5. PluginsType /\ plugins' = plugins
  BY DEF TypeOK, Rescan
<1>6. servers' = Updated(list, plugins)
  BY <1>2a DEF list
<1>7. /\ servers' \in Seq(Server) /\ DOMAIN servers' = DOMAIN list
      /\ \A k \in DOMAIN list :
            /\ servers'[k].id = list[k].id /\ servers'[k].address = list[k].address
            /\ servers'[k].usedChannels = Channels(plugins, OnServers(plugins)) % Wrap
  BY <1>4, <1>5, <1>6, UpdatedType, OnServersType
<1>8. PluginsType' /\ OnServers(plugins') = OnServers(plugins)
  BY <1>5 DEF PluginsType, OnServers
<1>9. \A j, k \in DOMAIN servers' : servers'[j].address = servers'[k].address => j = k
  BY <1>4, <1>7
<1>10. ListedOnce'
  BY <1>7, <1>9, DistinctOnce DEF ListedOnce, Entries
<1>. QED BY <1>4, <1>5, <1>7, <1>8, <1>10 DEF ServersType, Counted

\* What a step that writes an instance does, whatever the instance becomes.
LEMMA SetPluginKeeps ==
    ASSUME TypeOK, NEW i \in Instance, NEW state \in Plugin \cup {None}, SetPlugin(i, state)
    PROVE  /\ ServersType' /\ PluginsType' /\ Counted'
           /\ DOMAIN servers' = DOMAIN servers
           /\ \A k \in DOMAIN servers : /\ servers'[k].id = servers[k].id
                                        /\ servers'[k].address = servers[k].address
           /\ \A j \in Instance \ {i} : plugins'[j] = plugins[j]
           /\ plugins'[i] = state
PROOF
<1>1. plugins' = [plugins EXCEPT ![i] = state] /\ servers' = Updated(servers, plugins')
  BY DEF SetPlugin
<1>2. plugins \in [Instance -> Plugin \cup {None}] /\ servers \in Seq(Server)
  BY DEF TypeOK, PluginsType, ServersType
<1>3. plugins' \in [Instance -> Plugin \cup {None}]
      /\ (\A j \in Instance \ {i} : plugins'[j] = plugins[j]) /\ plugins'[i] = state
  BY <1>1, <1>2
<1>4. PluginsType'
  <2>1. OnServers(plugins') \in SUBSET (OnServers(plugins) \cup {i})
    BY <1>3 DEF OnServers
  <2>2. IsFiniteSet(OnServers(plugins) \cup {i})
    BY FS_AddElement DEF TypeOK, PluginsType
  <2>3. IsFiniteSet(OnServers(plugins'))
    BY <2>1, <2>2, FS_Subset
  <2>. QED BY <1>3, <2>3 DEF PluginsType, OnServers
<1>5. Channels(plugins', OnServers(plugins')) \in Nat
  <2>1. IsFiniteSet(OnServers(plugins'))
    BY <1>4 DEF PluginsType, OnServers
  <2>2. \A j \in OnServers(plugins') : plugins'[j].channels \in Nat
    BY <1>3 DEF OnServers, Plugin
  <2>. QED BY <2>1, <2>2, ChannelsType
<1>6. /\ servers' \in Seq(Server) /\ DOMAIN servers' = DOMAIN servers
      /\ \A k \in DOMAIN servers :
            /\ servers'[k].id = servers[k].id /\ servers'[k].address = servers[k].address
            /\ servers'[k].usedChannels = Channels(plugins', OnServers(plugins')) % Wrap
  BY <1>1, <1>2, <1>5, UpdatedType
<1>. QED BY <1>3, <1>4, <1>6 DEF ServersType, Counted, OnServers
-----------------------------------------------------------------------------
LEMMA FoundIn ==
    ASSUME ServersType, NEW id, Matches(servers, id) # {}
    PROVE  /\ Found(servers, id) \in DOMAIN servers
           /\ id \in {servers[Found(servers, id)].id, servers[Found(servers, id)].address}
PROOF
<1>1. Matches(servers, id) \in SUBSET Nat
  BY DEF Matches, ServersType
<1>2. Found(servers, id) \in Matches(servers, id)
  BY <1>1, MinIn DEF Found
<1>. QED BY <1>2 DEF Matches

LEMMA RefreshedType ==
    ASSUME NEW s \in Server, NEW a \in Address, NEW answer \in Answer,
           NEW high \in BOOLEAN, NEW peakHigh \in BOOLEAN,
           s.id \in Ids(s.address)
    PROVE  LET new == Refreshed(s, a, answer, high, peakHigh)
           IN  /\ new \in Server /\ new.id \in Ids(new.address)
               /\ new.address \in {s.address, a}
               /\ new.usedChannels = s.usedChannels
               /\ s.latched => new.latched
PROOF
<1>. DEFINE new == Refreshed(s, a, answer, high, peakHigh)
            fresh == NewServer(a, answer)
            base == [fresh EXCEPT !.usedChannels = s.usedChannels, !.latched = s.latched]
<1>1. ASSUME NEW t \in Server
      PROVE  LET w == WithJitter(t, high, peakHigh)
             IN  /\ w \in Server /\ w.id = t.id /\ w.address = t.address
                 /\ w.usedChannels = t.usedChannels /\ (t.latched => w.latched)
  BY DEF WithJitter, Server
<1>2. /\ base \in Server /\ base.id \in Ids(base.address) /\ base.address = a
      /\ base.usedChannels = s.usedChannels /\ base.latched = s.latched
  <2>1. fresh \in Server /\ fresh.address = a /\ fresh.id \in Ids(a)
    BY NewServerType
  <2>. HIDE DEF fresh
  <2>. QED BY <2>1 DEF Server
<1>3. CASE Live(answer)
  <2>1. new = WithJitter(base, high, peakHigh)
    BY <1>3 DEF Refreshed
  <2>. HIDE DEF new, base
  <2>. QED BY <1>1, <1>2, <2>1 DEF new
<1>4. CASE ~Live(answer) /\ answer # Silence
  <2>1. new = WithJitter(s, high, peakHigh)
    BY <1>4 DEF Refreshed
  <2>. HIDE DEF new, base
  <2>. QED BY <1>1, <2>1 DEF new
<1>5. CASE ~Live(answer) /\ answer = Silence
  BY <1>5 DEF Refreshed
<1>. QED BY <1>3, <1>4, <1>5

LEMMA HeadTarget ==
    ASSUME TypeOK, Named, targets # <<>>
    PROVE  /\ Head(targets) \in Target /\ Head(targets).id \in Ids(Head(targets).address)
           /\ Tail(targets) \in Seq(Target)
           /\ \A k \in DOMAIN Tail(targets) :
                 Tail(targets)[k].id \in Ids(Tail(targets)[k].address)
PROOF
<1>1. targets \in Seq(Target) /\ Len(targets) \in Nat \ {0}
  BY DEF TypeOK, TargetsType
<1>2. Head(targets) = targets[1] /\ 1 \in DOMAIN targets
  BY <1>1
<1>3. Tail(targets) \in Seq(Target)
  BY <1>1
<1>4. ASSUME NEW k \in DOMAIN Tail(targets)
      PROVE  Tail(targets)[k].id \in Ids(Tail(targets)[k].address)
  <2>1. k + 1 \in DOMAIN targets /\ Tail(targets)[k] = targets[k + 1]
    BY <1>1
  <2>. QED BY <2>1 DEF Named
<1>. QED BY <1>1, <1>2, <1>3, <1>4 DEF Named

\* An entry that is found by the name of a target is of the target's machine.
LEMMA SameMachine ==
    ASSUME NEW a \in Address, NEW b \in Address, NEW id \in Ids(a), NEW own \in Ids(b),
           id \in {own, b}
    PROVE  Host[a] = Host[b]
PROOF
<1>1. Host[a] \in Range(Host) /\ Host[b] \in Range(Host)
  BY NetworkAssumption DEF Range
<1>2. CASE id = b
  <2>1. id = Host[a]
    BY <1>2, NameAssumption DEF Ids
  <2>. QED BY <1>2, <2>1, NameAssumption
<1>3. CASE id = own
  <2>. DEFINE Made(c) == {<<"manual", c>>, <<"found", Host[c], c>>}
  <2>0. /\ id \in Made(a) \cup {Host[a]} /\ own \in Made(b) \cup {Host[b]}
        /\ Made(a) \cap Range(Host) = {} /\ Made(b) \cap Range(Host) = {}
    BY NameAssumption DEF Ids
  <2>1. CASE id = Host[a] \/ own = Host[b]
    <3>. HIDE DEF Made
    <3>. QED BY <1>1, <1>3, <2>0, <2>1
  <2>2. CASE id # Host[a] /\ own # Host[b]
    BY <1>3, <2>2 DEF Ids
  <2>. QED BY <2>1, <2>2
<1>. QED BY <1>2, <1>3

\* What a refresh does to the list: one entry is written anew, if it is there.
LEMMA RefreshKeeps ==
    ASSUME TypeOK, Named, RefreshOne
    PROVE  /\ servers' \in Seq(Server) /\ DOMAIN servers' = DOMAIN servers
           /\ \A k \in DOMAIN servers :
                 /\ servers'[k].id \in Ids(servers'[k].address)
                 /\ servers'[k].usedChannels = servers[k].usedChannels
                 /\ servers[k].latched => servers'[k].latched
           /\ \A k \in DOMAIN servers :
                 Host[servers'[k].address] = Host[servers[k].address]
PROOF
<1>. DEFINE target == Head(targets)
<1>1. target \in Target /\ target.id \in Ids(target.address)
  BY HeadTarget DEF RefreshOne
<1>. HIDE DEF target
<1>2. servers \in Seq(Server) /\ \A k \in DOMAIN servers : servers[k] \in Server
  BY DEF TypeOK, ServersType
<1>3. CASE servers' = servers
  BY <1>2, <1>3 DEF Named
<1>4. CASE \E k \in Entry(target), answer \in Answer, high \in BOOLEAN :
              \E peakHigh \in Peaks(servers[k], high) :
                  servers' = [servers EXCEPT ![k] =
                                 Refreshed(@, target.address, answer, high, peakHigh)]
  <2>1. PICK k \in Entry(target), answer \in Answer, high \in BOOLEAN :
              \E peakHigh \in Peaks(servers[k], high) :
                  servers' = [servers EXCEPT ![k] =
                                 Refreshed(@, target.address, answer, high, peakHigh)]
    BY <1>4
  <2>2. PICK peakHigh \in Peaks(servers[k], high) :
                  servers' = [servers EXCEPT ![k] =
                                 Refreshed(@, target.address, answer, high, peakHigh)]
    BY <2>1
  <2>3. k \in DOMAIN servers /\ target.id \in {servers[k].id, servers[k].address}
    <3>1. Matches(servers, target.id) # {} /\ k = Found(servers, target.id)
      BY DEF Entry
    <3>. QED BY <3>1, FoundIn DEF TypeOK
  <2>4. servers[k] \in Server /\ servers[k].id \in Ids(servers[k].address)
    BY <1>2, <2>3 DEF Named
  <2>5. peakHigh \in BOOLEAN
    BY <2>4 DEF Peaks, Server
  <2>6. target.address \in Address /\ target.id \in ServerId
    BY <1>1 DEF Target
  <2>. DEFINE new == Refreshed(servers[k], target.address, answer, high, peakHigh)
  <2>7. /\ new \in Server /\ new.id \in Ids(new.address)
        /\ new.address \in {servers[k].address, target.address}
        /\ new.usedChannels = servers[k].usedChannels
        /\ servers[k].latched => new.latched
    BY <2>4, <2>5, <2>6, RefreshedType
  <2>8. servers' = [servers EXCEPT ![k] = new]
    BY <2>2
  <2>. HIDE DEF new
  <2>9. Host[new.address] = Host[servers[k].address]
    <3>1. servers[k].address \in Address
      BY <2>4 DEF Server
    <3>. QED BY <1>1, <2>3, <2>4, <2>6, <2>7, <3>1, SameMachine
  <2>. QED BY <1>2, <2>3, <2>7, <2>8, <2>9 DEF Named
<1>. QED BY <1>3, <1>4 DEF RefreshOne, target

LEMMA RemoveKeeps ==
    ASSUME TypeOK, Named, NEW id, RemoveServer(id)
    PROVE  /\ servers' \in Seq(Server)
           /\ \E f \in [DOMAIN servers' -> DOMAIN servers] :
                 /\ \A j, k \in DOMAIN servers' : f[j] = f[k] => j = k
                 /\ \A k \in DOMAIN servers' : servers'[k] = servers[f[k]]
PROOF
<1>1. servers \in Seq(Server)
  BY DEF TypeOK, ServersType
<1>. DEFINE others == {s \in Range(servers) : s.id # id}
<1>2. servers' = Kept(servers, others)
  BY DEF RemoveServer
<1>. HIDE DEF others
<1>3. servers' \in Seq(Server)
  BY <1>1, <1>2, KeptPlaces
<1>4. PICK f \in Places(servers, others, servers', Len(servers)) : TRUE
  BY <1>1, <1>2, KeptPlaces
<1>5. f \in [DOMAIN servers' -> DOMAIN servers]
  BY <1>1, <1>4 DEF Places
<1>. QED BY <1>3, <1>4, <1>5 DEF Places

LEMMA ClearKeeps ==
    ASSUME TypeOK, Named, NEW id, ClearJitterLatch(id)
    PROVE  /\ servers' \in Seq(Server) /\ DOMAIN servers' = DOMAIN servers
           /\ \A k \in DOMAIN servers :
                 /\ servers'[k].id = servers[k].id
                 /\ servers'[k].address = servers[k].address
                 /\ servers'[k].usedChannels = servers[k].usedChannels
PROOF
<1>. DEFINE k == Found(servers, id)
            new == [servers[k] EXCEPT !.latched = FALSE, !.peakHigh = servers[k].high]
<1>1. k \in DOMAIN servers
  BY FoundIn DEF ClearJitterLatch, TypeOK
<1>2. servers \in Seq(Server) /\ servers[k] \in Server
  BY <1>1 DEF TypeOK, ServersType
<1>3. servers' = [servers EXCEPT ![k] = new]
  BY <1>1, <1>2 DEF ClearJitterLatch
<1>. HIDE DEF k
<1>4. new \in Server /\ new.id = servers[k].id /\ new.address = servers[k].address
      /\ new.usedChannels = servers[k].usedChannels
  BY <1>2 DEF Server
<1>. HIDE DEF new
<1>. QED BY <1>1, <1>2, <1>3, <1>4
-----------------------------------------------------------------------------
IInv == TypeOK /\ Named /\ Counted

LEMMA RequestType ==
    ASSUME NEW request \in Request
    PROVE  request.channels \in Nat
PROOF
<1>1. request.channels \in ChannelCount
  BY DEF Request
<1>2. \A c \in ChannelCount : c \in Nat
  BY ChannelAssumption
<1>. QED BY <1>1, <1>2

LEMMA AssignmentType ==
    ASSUME NEW request \in Request
    PROVE  Assignment(request) \in Plugin
PROOF
<1>1. request.channels \in Nat
  BY RequestType
<1>. QED BY <1>1 DEF Assignment, Refused, External, Local, Plugin

\* A server accepts an instance only when it has room for it, where no sum wraps.
LEMMA RoomForReady ==
    ASSUME IInv, NEW request \in Request, Assignment(request) = External(request, "Ready"),
           Channels(plugins, OnServers(plugins)) + request.channels < Wrap
    PROVE  /\ Channels(plugins, OnServers(plugins)) + request.channels
                  <= servers[Selected(request)].maxChannels
           /\ servers[Selected(request)].maxChannels \in Nat
PROOF
<1>1. ~NoServer(request) /\ Accepts(servers[Selected(request)], request)
  <2>1. Refused(request) # External(request, "Ready")
    BY DEF Refused, External, Local
  <2>. QED BY <2>1 DEF Assignment
<1>2. Selected(request) \in DOMAIN servers
  <2>1. CASE request.server = None
    BY <1>1, <2>1 DEF Selected, NoServer, IInv, TypeOK, ServersType
  <2>2. CASE request.server # None
    BY <1>1, <2>2, FoundIn DEF Selected, NoServer, IInv, TypeOK
  <2>. QED BY <2>1, <2>2
<1>. DEFINE S == Channels(plugins, OnServers(plugins))
            s == servers[Selected(request)]
<1>3. S \in Nat /\ request.channels \in Nat
  BY OnServersType, RequestType DEF IInv, TypeOK
<1>4. s.usedChannels = S % Wrap /\ (s.usedChannels + request.channels) % Wrap <= s.maxChannels
  BY <1>1, <1>2 DEF Accepts, Fits, IInv, Counted
<1>5. s.maxChannels \in Nat
  <2>1. s \in Server
    BY <1>2 DEF IInv, TypeOK, ServersType
  <2>. HIDE DEF s
  <2>. QED BY <2>1 DEF Server
<1>. HIDE DEF S, s
<1>6. S + request.channels < Wrap
  BY DEF S
<1>7. S % Wrap = S /\ (S + request.channels) % Wrap = S + request.channels
  BY <1>3, <1>6, ChannelAssumption
<1>. QED BY <1>4, <1>5, <1>7 DEF S, s

LEMMA NoMoreThanRoom ==
    ASSUME IInv, NEW i \in Instance, NEW request \in Request, ToldReady(i, request),
           SetPlugin(i, plugins'[i]),
           Channels(plugins, OnServers(plugins)) + request.channels < Wrap
    PROVE  Channels(plugins', OnServers(plugins')) <= servers[Selected(request)].maxChannels
PROOF
<1>. DEFINE state == External(request, "Ready")
            O == OnServers(plugins)
            S == OnServers(plugins')
            T == O \cup {i}
            room == servers[Selected(request)].maxChannels
<1>1. state \in Plugin /\ state.channels = request.channels /\ request.channels \in Nat
  <2>1. request.channels \in Nat
    BY RequestType
  <2>. QED BY <2>1 DEF External, Plugin
<1>2. (\A j \in Instance \ {i} : plugins'[j] = plugins[j]) /\ plugins'[i] = state
  BY <1>1, SetPluginKeeps DEF IInv, ToldReady
<1>3. S \in SUBSET T
  BY <1>2 DEF OnServers
<1>4. IsFiniteSet(O) /\ (\A j \in O : plugins[j].channels \in Nat) /\ Channels(plugins, O) \in Nat
  BY OnServersType DEF IInv, TypeOK
<1>5. IsFiniteSet(T) /\ IsFiniteSet(O \ {i}) /\ IsFiniteSet(S)
  BY <1>3, <1>4, FS_AddElement, FS_Subset
<1>6. \A j \in T : plugins'[j].channels \in Nat
  BY <1>1, <1>2, <1>4 DEF OnServers
<1>7. \A j \in O \ {i} : plugins'[j].channels = plugins[j].channels
  BY <1>2 DEF OnServers
<1>8. plugins'[i].channels = request.channels
  BY <1>1, <1>2
<1>9. Channels(plugins, O) + request.channels <= room /\ room \in Nat
  BY RoomForReady DEF ToldReady
<1>. HIDE DEF O, S, state, room
<1>10. Channels(plugins', S) <= Channels(plugins', T)
  BY <1>3, <1>5, <1>6, ChannelsMonotone
<1>11. Channels(plugins', T) = request.channels + Channels(plugins', O \ {i})
  <2>1. i \in T /\ T \ {i} = O \ {i}
    OBVIOUS
  <2>. QED BY <1>5, <1>6, <1>8, <2>1, ChannelsRemove
<1>12. Channels(plugins', O \ {i}) = Channels(plugins, O \ {i})
  BY <1>5, <1>7, ChannelsAgree
<1>13. Channels(plugins, O \ {i}) <= Channels(plugins, O)
  BY <1>4, ChannelsMonotone
<1>14. Channels(plugins, O \ {i}) \in Nat /\ Channels(plugins', S) \in Nat
  BY <1>3, <1>4, <1>5, <1>6, ChannelsType
<1>15. Channels(plugins', S) <= room
  BY <1>1, <1>4, <1>9, <1>10, <1>11, <1>12, <1>13, <1>14
<1>. QED BY <1>15 DEF S, room

\* A step that leaves the instances and the targets alone, and what is counted.
LEMMA PluginsFrame ==
    ASSUME IInv, plugins' = plugins
    PROVE  PluginsType' /\ OnServers(plugins') = OnServers(plugins)
PROOF
BY DEF IInv, TypeOK, PluginsType, OnServers

LEMMA InitList ==
    ASSUME Init
    PROVE  /\ servers \in Seq(Server)
           /\ \A k \in DOMAIN servers : /\ servers[k].id \in Ids(servers[k].address)
                                        /\ servers[k].usedChannels = 0
           /\ \A j, k \in DOMAIN servers : servers[j].address = servers[k].address => j = k
PROOF
<1>. DEFINE answer == [a \in Known(<<>>) |-> Silence]
<1>1. <<>> \in Seq(Address) /\ IsInjective(<<>>)
  BY DEF IsInjective
<1>2. \A a \in Known(<<>>) : answer[a] \in Answer
  BY DEF Answer
<1>3. \A k \in DOMAIN <<>> : <<>>[<<>>[k]] \in Answer
  OBVIOUS
<1>4. servers = Scanned(<<>>, <<>>, answer) /\ manual \in SUBSET Address
  BY NetworkAssumption DEF Init
<1>. HIDE DEF answer
<1>. QED BY <1>1, <1>2, <1>3, <1>4, ScannedType

LEMMA InitIInv == Init => IInv
PROOF
<1>. SUFFICES ASSUME Init PROVE IInv
  OBVIOUS
<1>1. OnServers(plugins) = {} /\ PluginsType
  <2>1. OnServers(plugins) = {}
    BY DEF Init, OnServers
  <2>. QED BY <2>1, FS_EmptySet DEF Init, PluginsType
<1>2. Channels(plugins, {}) = 0
  BY FS_EmptySet, ChannelsStep
<1>3. WindowType /\ TargetsType /\ targets = <<>>
  BY NetworkAssumption DEF Init, WindowType, TargetsType
<1>6. /\ servers \in Seq(Server)
      /\ \A k \in DOMAIN servers : /\ servers[k].id \in Ids(servers[k].address)
                                   /\ servers[k].usedChannels = 0
      /\ \A j, k \in DOMAIN servers : servers[j].address = servers[k].address => j = k
  BY InitList
<1>7. ServersType /\ Named
  BY <1>3, <1>6 DEF ServersType, Named
<1>8. Counted
  <2>1. 0 % Wrap = 0
    BY ChannelAssumption
  <2>. QED BY <1>1, <1>2, <1>6, <2>1 DEF Counted
<1>. QED BY <1>1, <1>3, <1>7, <1>8 DEF IInv, TypeOK

LEMMA NextIInv == IInv /\ [Next]_vars => IInv'
PROOF
<1>. SUFFICES ASSUME IInv, [Next]_vars PROVE IInv'
  OBVIOUS
<1>0. TypeOK /\ Named /\ Counted /\ WindowType /\ TargetsType /\ ServersType /\ PluginsType
  BY DEF IInv, TypeOK
<1>1. CASE Rescan
  <2>1. /\ ServersType' /\ Counted'
        /\ \A k \in DOMAIN servers' : servers'[k].id \in Ids(servers'[k].address)
    BY <1>0, <1>1, RescanKeeps
  <2>2. /\ plugins' = plugins /\ targets' = targets /\ UNCHANGED <<dspEngineRunning, manual>>
        /\ window' \in {"idle", window}
    BY <1>1 DEF Rescan
  <2>3. WindowType' /\ TargetsType' /\ Named'
    BY <1>0, <1>1, <2>1, <2>2 DEF WindowType, TargetsType, Named
  <2>. QED BY <2>1, <2>2, <2>3, PluginsFrame DEF IInv, TypeOK
<1>3. ASSUME NEW a \in Typed, AddManualServer(a) PROVE IInv'
  <2>1. UNCHANGED <<servers, plugins, dspEngineRunning, targets>>
        /\ window' = "adding" /\ manual' = manual \cup {a}
    BY <1>3 DEF AddManualServer
  <2>2. WindowType' /\ TargetsType' /\ ServersType' /\ Named'
    BY <1>0, <2>1, NetworkAssumption DEF WindowType, TargetsType, ServersType, Named
  <2>3. Counted'
    BY <1>0, <2>1, PluginsFrame DEF Counted
  <2>. QED BY <2>1, <2>2, <2>3, PluginsFrame DEF IInv, TypeOK
<1>4. ASSUME NEW id \in ServerId, RemoveServer(id) PROVE IInv'
  <2>1. plugins' = plugins /\ targets' = targets /\ UNCHANGED <<dspEngineRunning, manual, window>>
    BY <1>4 DEF RemoveServer
  <2>2. PICK f \in [DOMAIN servers' -> DOMAIN servers] :
            \A k \in DOMAIN servers' : servers'[k] = servers[f[k]]
    BY <1>0, <1>4, RemoveKeeps
  <2>3. ServersType'
    BY <1>0, <1>4, RemoveKeeps DEF ServersType
  <2>4. WindowType' /\ TargetsType' /\ Named'
    BY <1>0, <2>1, <2>2 DEF WindowType, TargetsType, Named
  <2>5. Counted'
    BY <1>0, <2>1, <2>2, PluginsFrame DEF Counted
  <2>. QED BY <2>1, <2>3, <2>4, <2>5, PluginsFrame DEF IInv, TypeOK
<1>5. ASSUME NEW id \in ServerId, ClearJitterLatch(id) PROVE IInv'
  <2>1. plugins' = plugins /\ targets' = targets /\ UNCHANGED <<dspEngineRunning, manual, window>>
    BY <1>5 DEF ClearJitterLatch
  <2>2. /\ servers' \in Seq(Server) /\ DOMAIN servers' = DOMAIN servers
        /\ \A k \in DOMAIN servers : /\ servers'[k].id = servers[k].id
                                     /\ servers'[k].address = servers[k].address
                                     /\ servers'[k].usedChannels = servers[k].usedChannels
    BY <1>0, <1>5, ClearKeeps
  <2>3. WindowType' /\ TargetsType' /\ ServersType' /\ Named'
    BY <1>0, <2>1, <2>2 DEF WindowType, TargetsType, ServersType, Named
  <2>4. Counted'
    BY <1>0, <2>1, <2>2, PluginsFrame DEF Counted
  <2>. QED BY <2>1, <2>3, <2>4, PluginsFrame DEF IInv, TypeOK
<1>6. ASSUME UNCHANGED <<servers, plugins>>,
             WindowType', TargetsType', Named'
      PROVE  IInv'
  <2>1. ServersType'
    BY <1>0, <1>6 DEF ServersType
  <2>2. Counted'
    BY <1>0, <1>6, PluginsFrame DEF Counted
  <2>. QED BY <1>6, <2>1, <2>2, PluginsFrame DEF IInv, TypeOK
<1>7. ASSUME NEW running \in BOOLEAN, SetDspEngineRunning(running) PROVE IInv'
  BY <1>0, <1>6, <1>7 DEF SetDspEngineRunning, WindowType, TargetsType, Named
<1>8. CASE Refresh
  <2>1. UNCHANGED <<servers, plugins, dspEngineRunning, manual>> /\ window' = "refreshing"
        /\ targets' = [k \in DOMAIN servers |-> [id |-> servers[k].id,
                                                 address |-> servers[k].address]]
    BY <1>8 DEF Refresh
  <2>2. Len(servers) \in Nat /\ DOMAIN servers = 1 .. Len(servers)
        /\ \A k \in 1 .. Len(servers) : servers[k] \in Server
    BY <1>0 DEF ServersType
  <2>3. targets' \in [1 .. Len(servers) -> Target]
    BY <2>1, <2>2 DEF Server, Target
  <2>4. TargetsType' /\ DOMAIN targets' = DOMAIN servers
    BY <2>2, <2>3, FunctionIsSeq DEF TargetsType
  <2>5. Named'
    BY <1>0, <2>1, <2>4 DEF Named
  <2>6. WindowType'
    BY <1>0, <2>1 DEF WindowType
  <2>. QED BY <1>6, <2>1, <2>4, <2>5, <2>6
<1>9. CASE RefreshOne
  <2>1. plugins' = plugins /\ UNCHANGED <<dspEngineRunning, manual, window>>
        /\ targets # <<>> /\ targets' = Tail(targets)
    BY <1>9 DEF RefreshOne
  <2>2. /\ servers' \in Seq(Server) /\ DOMAIN servers' = DOMAIN servers
        /\ \A k \in DOMAIN servers :
              /\ servers'[k].id \in Ids(servers'[k].address)
              /\ servers'[k].usedChannels = servers[k].usedChannels
    BY <1>0, <1>9, RefreshKeeps
  <2>3. TargetsType' /\ \A k \in DOMAIN targets' : targets'[k].id \in Ids(targets'[k].address)
    BY <1>0, <2>1, HeadTarget DEF TargetsType
  <2>4. WindowType' /\ ServersType' /\ Named'
    BY <1>0, <2>1, <2>2, <2>3 DEF WindowType, ServersType, Named
  <2>5. Counted'
    BY <1>0, <2>1, <2>2, PluginsFrame DEF Counted
  <2>. QED BY <2>1, <2>3, <2>4, <2>5, PluginsFrame DEF IInv, TypeOK
<1>10. CASE RefreshEnds
  BY <1>0, <1>6, <1>10 DEF RefreshEnds, WindowType, TargetsType, Named
<1>11. ASSUME NEW i \in Instance, NEW state \in Plugin \cup {None}, SetPlugin(i, state)
       PROVE  IInv'
  <2>1. UNCHANGED <<dspEngineRunning, manual, window, targets>>
    BY <1>11 DEF SetPlugin
  <2>2. /\ ServersType' /\ PluginsType' /\ Counted' /\ DOMAIN servers' = DOMAIN servers
        /\ \A k \in DOMAIN servers : /\ servers'[k].id = servers[k].id
                                     /\ servers'[k].address = servers[k].address
    BY <1>0, <1>11, SetPluginKeeps
  <2>3. WindowType' /\ TargetsType' /\ Named'
    BY <1>0, <2>1, <2>2 DEF WindowType, TargetsType, Named
  <2>. QED BY <1>11, <2>2, <2>3 DEF IInv, TypeOK
<1>12. ASSUME NEW i \in Instance, UnregisterPlugin(i) PROVE IInv'
  BY <1>11, <1>12 DEF UnregisterPlugin
<1>15. ASSUME NEW i \in Instance, RegisterPlugin(i) PROVE IInv'
  <2>1. Local \in Plugin
    BY DEF Local, Plugin
  <2>. QED BY <1>11, <1>15, <2>1, AssignmentType DEF RegisterPlugin
<1>16. CASE UNCHANGED vars
  BY <1>0, <1>6, <1>16 DEF vars, WindowType, TargetsType, Named
<1>. QED
  BY <1>1, <1>3, <1>4, <1>5, <1>7, <1>8, <1>9, <1>10, <1>12, <1>15, <1>16 DEF Next

\* The state is well typed: every server of the list has the name, the modules and
\* the meters of a server, a refresh asks only servers, and finitely many instances
\* are registered, whatever was scanned, removed, refreshed or registered before.
THEOREM TypeCorrect == Spec => []TypeOK
PROOF
<1>1. IInv => TypeOK
  BY DEF IInv
<1>. QED BY <1>1, InitIInv, NextIInv, PTL DEF Spec

\* For all networks, instances and channel counts: an instance is told it is ready only by
\* a server on which the channels of all external instances, its own among them, are then no
\* more than it last said it has, unless their sum does not fit 32 bits.
THEOREM ReadyAlwaysFits == Spec => ReadyFits
PROOF
<1>. DEFINE Room == \A i \in Instance : SetPlugin(i, plugins'[i]) =>
           \A request \in Request :
               ToldReady(i, request) /\ Channels(plugins, OnServers(plugins)) + request.channels < Wrap =>
                   Channels(plugins', OnServers(plugins')) <= servers[Selected(request)].maxChannels
<1>1. IInv => Room
  BY NoMoreThanRoom
<1>2. IInv /\ [Next]_vars => [Room]_vars
  BY <1>1
<1>. QED BY <1>2, InitIInv, NextIInv, PTL DEF Spec, ReadyFits

LEMMA NextListedOnce ==
    ASSUME IInv, ListedOnce, [Next]_vars
    PROVE  ListedOnce'
PROOF
<1>0. TypeOK /\ Named /\ ServersType
  BY DEF IInv, TypeOK
<1>1. ASSUME DOMAIN servers' = DOMAIN servers,
             \A k \in DOMAIN servers : Host[servers'[k].address] = Host[servers[k].address]
      PROVE  ListedOnce'
  <2>1. \A name \in Range(Host) : Entries(name)' = Entries(name)
    BY <1>1 DEF Entries
  <2>2. \A name \in Range(Host) : Cardinality(Entries(name)') = Cardinality(Entries(name))
    BY <2>1
  <2>. QED BY <2>2 DEF ListedOnce
<1>2. CASE Rescan
  BY <1>0, <1>2, RescanKeeps
<1>3. CASE UNCHANGED servers
  BY <1>1, <1>3
<1>4. ASSUME NEW id \in ServerId, RemoveServer(id) PROVE ListedOnce'
  <2>1. PICK f \in [DOMAIN servers' -> DOMAIN servers] :
            /\ \A j, k \in DOMAIN servers' : f[j] = f[k] => j = k
            /\ \A k \in DOMAIN servers' : servers'[k] = servers[f[k]]
    BY <1>0, <1>4, RemoveKeeps
  <2>2. servers \in Seq(Server) /\ servers' \in Seq(Server)
    BY <1>0, <1>4, RemoveKeeps DEF ServersType
  <2>3. ASSUME NEW name \in Range(Host)
        PROVE  Cardinality(Entries(name)') <= Cardinality(AddressesOf(name))
    <3>. DEFINE before == Entries(name)
                after == Entries(name)'
                g == [k \in after |-> f[k]]
    <3>a. IsFiniteSet(before)
      <4>1. IsFiniteSet(1 .. Len(servers)) /\ DOMAIN servers = 1 .. Len(servers)
        BY <2>2, FS_Interval
      <4>. QED BY <4>1, FS_Subset DEF Entries
    <3>b. \A k \in after : f[k] \in before /\ \A j \in after : f[j] = f[k] => j = k
      BY <2>1 DEF Entries
    <3>c. g \in Injection(after, before)
      <4>. HIDE DEF before, after
      <4>. QED BY <3>b DEF Injection, IsInjective
    <3>1. /\ Cardinality(after) \in Nat /\ Cardinality(before) \in Nat
          /\ Cardinality(after) <= Cardinality(before)
      <4>. HIDE DEF before, after, g
      <4>. QED BY <3>a, <3>c, FS_Injection, FS_CardinalityType
    <3>2. Cardinality(AddressesOf(name)) \in Nat
      BY AddressFinite, FS_Subset, FS_CardinalityType DEF AddressesOf
    <3>3. Cardinality(Entries(name)) <= Cardinality(AddressesOf(name))
      BY DEF ListedOnce
    <3>. QED BY <3>1, <3>2, <3>3
  <2>. QED BY <2>3 DEF ListedOnce
<1>5. ASSUME NEW id \in ServerId, ClearJitterLatch(id) PROVE ListedOnce'
  BY <1>0, <1>1, <1>5, ClearKeeps
<1>6. CASE RefreshOne
  BY <1>0, <1>1, <1>6, RefreshKeeps
<1>7. ASSUME NEW i \in Instance, NEW state \in Plugin \cup {None}, SetPlugin(i, state)
      PROVE  ListedOnce'
  BY <1>0, <1>1, <1>7, SetPluginKeeps
<1>8. ASSUME NEW i \in Instance, RegisterPlugin(i) \/ UnregisterPlugin(i) PROVE ListedOnce'
  <2>1. Local \in Plugin
    BY DEF Local, Plugin
  <2>. QED BY <1>7, <1>8, <2>1, AssignmentType DEF RegisterPlugin, UnregisterPlugin
<1>. QED
  BY <1>2, <1>3, <1>4, <1>5, <1>6, <1>8
  DEF Next, vars, AddManualServer, SetDspEngineRunning, Refresh, RefreshEnds

\* However many addresses a machine has, and however the list was rescanned, reordered or
\* shortened while a refresh was asking: no machine is listed more often than it has addresses.
THEOREM NeverListedTwice == Spec => []ListedOnce
PROOF
<1>1. Init => ListedOnce
  <2>. SUFFICES ASSUME Init PROVE ListedOnce
    OBVIOUS
  <2>. QED BY InitList, DistinctOnce DEF ListedOnce, Entries
<1>2. IInv /\ ListedOnce /\ [Next]_vars => (IInv /\ ListedOnce)'
  BY NextIInv, NextListedOnce
<1>. QED BY <1>1, <1>2, InitIInv, PTL DEF Spec

\* A refresh writes only to entries of the machine that answered, even where a machine is
\* listed under two addresses, and never unlatches one.
THEOREM LatchAlwaysHolds == Spec => LatchHolds
PROOF
<1>. DEFINE Held == RefreshOne =>
           \A k \in DOMAIN servers :
               /\ Host[servers'[k].address] = Host[servers[k].address]
               /\ servers[k].latched => servers'[k].latched
<1>1. IInv => Held
  BY RefreshKeeps DEF IInv
<1>2. IInv /\ [Next]_vars => [Held]_vars
  BY <1>1
<1>. QED BY <1>2, InitIInv, NextIInv, PTL DEF Spec, LatchHolds
=============================================================================
