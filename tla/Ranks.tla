--------------------------------- MODULE Ranks ---------------------------------
(***************************************************************************)
(* Lemmas about listing a finite set of numbers in order by the rank of    *)
(* its elements, as Incidents does with records and EventRelay with events.*)
(***************************************************************************)
EXTENDS Integers, Sequences, FiniteSets, FiniteSetTheorems, TLAPS

RankOf(S, r) == Cardinality({x \in S : x <= r})
Listed(S) == [i \in 1 .. Cardinality(S) |->
                CHOOSE e \in S : Cardinality({x \in S : x <= e}) = i]

(* The rank of an element counts it and the smaller ones; ranks are         *)
(* different, so every rank up to the cardinality belongs to an element.   *)
LEMMA RankFacts ==
  ASSUME NEW S \in SUBSET Int, IsFiniteSet(S)
  PROVE  /\ Cardinality(S) \in Nat
         /\ \A r \in S : RankOf(S, r) \in 1 .. Cardinality(S)
         /\ \A r, s \in S : RankOf(S, r) = RankOf(S, s) => r = s
         /\ \A r, s \in S : r < s => RankOf(S, r) < RankOf(S, s)
         /\ \A i \in 1 .. Cardinality(S) : \E r \in S : RankOf(S, r) = i
<1> DEFINE Below(r) == {x \in S : x <= r}
           rank == [r \in S |-> RankOf(S, r)]
<1>1. Cardinality(S) \in Nat
  BY FS_CardinalityType
<1>2. ASSUME NEW r \in S
      PROVE  /\ IsFiniteSet(Below(r)) /\ RankOf(S, r) \in Int
             /\ RankOf(S, r) \in 1 .. Cardinality(S)
  <2>1. Below(r) \in SUBSET S /\ r \in Below(r)
    OBVIOUS
  <2>2. IsFiniteSet(Below(r)) /\ Cardinality(Below(r)) <= Cardinality(S)
    BY <2>1, FS_Subset
  <2>3. Cardinality(Below(r)) \in Nat /\ Cardinality(Below(r)) # 0
    BY <2>1, <2>2, FS_CardinalityType, FS_EmptySet
  <2> QED BY <1>1, <2>2, <2>3 DEF RankOf
<1>3. ASSUME NEW r \in S, NEW s \in S, r < s PROVE RankOf(S, r) < RankOf(S, s)
  <2>1. \A x \in S : x <= r => x <= s
    BY <1>3
  <2>2. r \in Int /\ s \in Int
    OBVIOUS
  <2>3. s \in Below(s) /\ s \notin Below(r)
    BY <1>3, <2>2
  <2>4. Below(r) \in SUBSET Below(s)
    BY <2>1
  <2>5. RankOf(S, r) <= RankOf(S, s) /\ RankOf(S, r) # RankOf(S, s)
    <3>1. IsFiniteSet(Below(s)) /\ Below(r) # Below(s)
      BY <1>2, <2>3
    <3>2. /\ Cardinality(Below(r)) <= Cardinality(Below(s))
          /\ Cardinality(Below(s)) = Cardinality(Below(r)) => Below(s) = Below(r)
      BY <2>4, <3>1, FS_Subset
    <3> QED BY <3>1, <3>2 DEF RankOf
  <2>6. RankOf(S, r) \in Int /\ RankOf(S, s) \in Int
    BY <1>2, Zenon
  <2> QED BY <2>5, <2>6
<1>4. \A r, s \in S : RankOf(S, r) = RankOf(S, s) => r = s
  <2> SUFFICES ASSUME NEW r \in S, NEW s \in S, RankOf(S, r) = RankOf(S, s), r # s
               PROVE  FALSE
    OBVIOUS
  <2>1. RankOf(S, r) \in Int /\ r \in Int /\ s \in Int
    <3> RankOf(S, r) \in Int
      BY <1>2, Zenon
    <3> QED OBVIOUS
  <2>2. r < s => RankOf(S, r) < RankOf(S, s)
    BY <1>3
  <2>3. s < r => RankOf(S, s) < RankOf(S, r)
    BY <1>3
  <2> QED BY <2>1, <2>2, <2>3
<1>5. rank \in Injection(S, 1 .. Cardinality(S))
  BY <1>2, <1>4 DEF Injection, IsInjective
<1>6. IsFiniteSet(1 .. Cardinality(S)) /\ Cardinality(1 .. Cardinality(S)) = Cardinality(S)
  BY <1>1, FS_Interval
<1>7. rank \in Surjection(S, 1 .. Cardinality(S))
  BY <1>5, <1>6, FS_Injection
<1>8. \A i \in 1 .. Cardinality(S) : \E r \in S : RankOf(S, r) = i
  BY <1>7 DEF Surjection
<1> QED BY <1>1, <1>2, <1>3, <1>4, <1>8

(* The whole set in order, its greatest element last.                       *)
LEMMA ListedFacts ==
  ASSUME NEW S \in SUBSET Int, IsFiniteSet(S)
  PROVE  /\ Listed(S) \in Seq(S)
         /\ \A r \in S : \E i \in DOMAIN Listed(S) : Listed(S)[i] = r
         /\ \A i, j \in DOMAIN Listed(S) : i < j => Listed(S)[i] < Listed(S)[j]
         /\ S = {} => Listed(S) = <<>>
         /\ S # {} => /\ Listed(S) # <<>>
                      /\ \A r \in S : r <= Listed(S)[Len(Listed(S))]
<1> DEFINE n == Cardinality(S)
<1>3. n \in Nat /\ \A r, s \in S : RankOf(S, r) = RankOf(S, s) => r = s
  BY RankFacts
<1>4. ASSUME NEW i \in 1 .. n
      PROVE  Listed(S)[i] \in S /\ RankOf(S, Listed(S)[i]) = i
  <2>1. \E e \in S : Cardinality({x \in S : x <= e}) = i
    BY RankFacts, Zenon DEF RankOf
  <2>2. Listed(S)[i] = CHOOSE e \in S : Cardinality({x \in S : x <= e}) = i
    BY DEF Listed
  <2> QED BY <2>1, <2>2, Zenon DEF RankOf
<1>5. Listed(S) \in [1 .. n -> S]
  BY <1>4 DEF Listed
<1>6. Listed(S) \in Seq(S) /\ Len(Listed(S)) = n /\ DOMAIN Listed(S) = 1 .. n
  BY <1>3, <1>5
<1>7. ASSUME NEW r \in S PROVE \E i \in 1 .. n : Listed(S)[i] = r
  <2>1. RankOf(S, r) \in 1 .. n
    BY RankFacts
  <2>2. PICK i \in 1 .. n : i = RankOf(S, r)
    BY <2>1
  <2>3. Listed(S)[i] \in S /\ RankOf(S, Listed(S)[i]) = RankOf(S, r)
    BY <1>4, <2>2
  <2>4. Listed(S)[i] = r
    BY <1>3, <2>3
  <2> QED BY <2>2, <2>4
<1>8. ASSUME S # {}
      PROVE  n # 0 /\ \A r \in S : r <= Listed(S)[n]
  <2>1. n # 0
    BY <1>8, FS_EmptySet
  <2>2. Listed(S)[n] \in S /\ Cardinality({x \in S : x <= Listed(S)[n]}) = Cardinality(S)
    BY <1>3, <1>4, <2>1 DEF RankOf
  <2>3. {x \in S : x <= Listed(S)[n]} = S
    <3> {x \in S : x <= Listed(S)[n]} \in SUBSET S
      OBVIOUS
    <3> QED BY <2>2, FS_Subset
  <2> QED BY <2>1, <2>3
<1>9. S = {} => n = 0
  BY FS_EmptySet
<1>10. ASSUME NEW i \in 1 .. n, NEW j \in 1 .. n, i < j
       PROVE  Listed(S)[i] < Listed(S)[j]
  <2> DEFINE a == Listed(S)[i]
             b == Listed(S)[j]
  <2>1. a \in S /\ b \in S /\ a \in Int /\ b \in Int
        /\ RankOf(S, a) = i /\ RankOf(S, b) = j
    BY <1>4
  <2>2. \A r, s \in S : r < s => RankOf(S, r) < RankOf(S, s)
    BY RankFacts
  <2> HIDE DEF a, b
  <2>3. a # b
    BY <1>3, <1>10, <2>1
  <2>4. ~(b < a)
    BY <1>3, <1>10, <2>1, <2>2
  <2>5. a < b
    BY <2>1, <2>3, <2>4
  <2> QED BY <2>5 DEF a, b
<1> QED BY <1>3, <1>6, <1>7, <1>8, <1>9, <1>10

(* The n smallest: with one of them every smaller element, all when there  *)
(* are no more than n, and some when there are any.                        *)
Lowest(S, n) == {p \in S : Cardinality({q \in S : q < p}) < n}
LEMMA LowestFacts ==
  ASSUME NEW S \in SUBSET Nat, IsFiniteSet(S), NEW n \in Nat
  PROVE  /\ Lowest(S, n) \in SUBSET S
         /\ \A p \in S : \A q \in Lowest(S, n) : p <= q => p \in Lowest(S, n)
         /\ Cardinality(S) <= n => Lowest(S, n) = S
         /\ n # 0 /\ S # {} => Lowest(S, n) # {}
<1> DEFINE B(p) == {q \in S : q < p}
<1>1. ASSUME NEW p \in S
      PROVE  IsFiniteSet(B(p)) /\ Cardinality(B(p)) \in Nat
  BY FS_Subset, FS_CardinalityType
<1>2. ASSUME NEW p \in S, NEW q \in Lowest(S, n), p <= q
      PROVE  p \in Lowest(S, n)
  <2>1. q \in S /\ Cardinality(B(q)) < n
    BY DEF Lowest
  <2>2. B(p) \in SUBSET B(q)
    <3>1. p \in Nat /\ q \in Nat /\ \A x \in S : x \in Nat
      BY <2>1
    <3>2. \A x \in S : x < p => x < q
      BY <1>2, <3>1
    <3> QED BY <3>2
  <2>3. Cardinality(B(p)) <= Cardinality(B(q))
    BY <1>1, <2>1, <2>2, FS_Subset
  <2>4. Cardinality(B(p)) < n
    <3>1. Cardinality(B(p)) \in Nat /\ Cardinality(B(q)) \in Nat
      BY <1>1, <2>1
    <3> QED BY <2>1, <2>3, <3>1
  <2> QED BY <2>4 DEF Lowest
<1>3. ASSUME Cardinality(S) <= n, NEW p \in S PROVE p \in Lowest(S, n)
  <2>1. B(p) \in SUBSET S /\ B(p) # S
    OBVIOUS
  <2>2. Cardinality(B(p)) <= Cardinality(S) /\ Cardinality(B(p)) # Cardinality(S)
    BY <2>1, FS_Subset
  <2>3. Cardinality(B(p)) \in Nat /\ Cardinality(S) \in Nat
    BY <1>1, FS_CardinalityType
  <2>4. Cardinality(B(p)) < n
    BY <1>3, <2>2, <2>3
  <2> QED BY <2>4 DEF Lowest
<1>4. ASSUME n # 0, S # {} PROVE Lowest(S, n) # {}
  <2>1. S \in SUBSET Int
    OBVIOUS
  <2>2. /\ Listed(S) \in Seq(S) /\ Listed(S) # <<>>
        /\ \A r \in S : \E i \in DOMAIN Listed(S) : Listed(S)[i] = r
        /\ \A i, j \in DOMAIN Listed(S) : i < j => Listed(S)[i] < Listed(S)[j]
    BY <1>4, <2>1, ListedFacts
  <2>3. PICK p : p = Listed(S)[1]
    OBVIOUS
  <2>4. p \in S /\ 1 \in DOMAIN Listed(S) /\ DOMAIN Listed(S) \subseteq Nat \ {0}
    BY <2>2, <2>3
  <2>5. \A r \in S : ~(r < p)
    <3>1. SUFFICES ASSUME NEW r \in S, r < p PROVE FALSE
      OBVIOUS
    <3>2. PICK i \in DOMAIN Listed(S) : Listed(S)[i] = r
      BY <2>2
    <3>3. i \in Nat /\ (i = 1 \/ 1 < i)
      BY <2>4
    <3>4. r \in Nat /\ p \in Nat
      BY <2>4
    <3>5. i # 1
      BY <2>3, <3>1, <3>2, <3>4
    <3>6. p < r
      BY <2>2, <2>3, <2>4, <3>2, <3>3, <3>5
    <3> QED BY <3>1, <3>4, <3>6
  <2>6. B(p) = {}
    BY <2>5
  <2>7. Cardinality(B(p)) = 0
    BY <2>6, FS_EmptySet
  <2>8. Cardinality(B(p)) < n
    BY <1>4, <2>7
  <2> QED BY <2>4, <2>8 DEF Lowest
<1> QED BY <1>2, <1>3, <1>4 DEF Lowest
================================================================================
