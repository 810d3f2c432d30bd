---------------------------- MODULE SelectProofs ----------------------------
(* Proofs about Select, for every table, statement, view and report.         *)
EXTENDS Select, FiniteSetTheorems, SequenceTheorems, WellFoundedInduction, TLAPS

----------------------------------------------------------------------------
(* Positions of a sequence. *)

(* A set of naturals that is not empty has a smallest element. *)
LEMMA HasSmallest ==
  ASSUME NEW S \in SUBSET Nat, S # {}
  PROVE  \E x \in S : \A y \in S : x <= y
<1>1. \E x \in S : \A y \in S : ~(<<y, x>> \in OpToRel(<, Nat))
  <2>1. IsWellFoundedOn(OpToRel(<, Nat), Nat)
    BY NatLessThanWellFounded
  <2> QED
    BY <2>1, WFMin
<1>2. PICK x \in S : \A y \in S : ~(<<y, x>> \in OpToRel(<, Nat))
  BY <1>1
<1>3. \A y \in S : ~(y < x)
  BY <1>2 DEF OpToRel
<1> QED
  BY <1>3

(* Induction, for a property given as the set of the naturals that have it.  *)
LEMMA NatSets ==
  ASSUME NEW S \in SUBSET Nat, 0 \in S, \A m \in S : m + 1 \in S
  PROVE  S = Nat
<1>1. CASE Nat \ S # {}
  <2>1. PICK x \in Nat \ S : \A y \in Nat \ S : x <= y
    BY <1>1, HasSmallest
  <2>2. x # 0 /\ x - 1 \in Nat /\ ~(x <= x - 1)
    BY <2>1
  <2>3. x - 1 + 1 \in S
    BY <2>1, <2>2
  <2> QED
    BY <2>1, <2>3
<1> QED
  BY <1>1

(* How many elements of S are not above i. *)
Rank(S, i) == Cardinality({j \in S : j <= i})

(* The rank is an increasing function from S onto 1 .. Cardinality(S). *)
LEMMA RankIs ==
  ASSUME NEW m \in Nat, NEW S \in SUBSET (1..m)
  PROVE  /\ IsFiniteSet(S) /\ Cardinality(S) \in 0..m
         /\ \A i \in S : Rank(S, i) \in 1..Cardinality(S)
         /\ \A i, j \in S : i < j => Rank(S, i) < Rank(S, j)
         /\ \A k \in 1..Cardinality(S) : \E i \in S : Rank(S, i) = k
<1> DEFINE Below(i) == {j \in S : j <= i}
<1>1. IsFiniteSet(1..m) /\ Cardinality(1..m) = m
  <2>1. 1 \in Int /\ m \in Int
    OBVIOUS
  <2>2. IsFiniteSet(1..m) /\ Cardinality(1..m) = IF 1 > m THEN 0 ELSE m - 1 + 1
    BY <2>1, FS_Interval, Zenon
  <2> QED
    BY <2>2
<1>2. IsFiniteSet(S) /\ Cardinality(S) \in 0..m
  <2>1. IsFiniteSet(S) /\ Cardinality(S) <= Cardinality(1..m)
    BY <1>1, FS_Subset
  <2>2. Cardinality(S) \in Nat
    BY <2>1, FS_CardinalityType
  <2> QED
    BY <2>1, <2>2, <1>1
<1>3. ASSUME NEW i \in S
      PROVE  IsFiniteSet(Below(i)) /\ Cardinality(Below(i)) \in 1..Cardinality(S)
  <2>1. Below(i) \in SUBSET S /\ i \in Below(i)
    OBVIOUS
  <2>2. IsFiniteSet(Below(i)) /\ Cardinality(Below(i)) <= Cardinality(S)
    BY <1>2, <2>1, FS_Subset
  <2>3. Cardinality(Below(i)) \in Nat
    BY <2>2, FS_CardinalityType
  <2>4. Cardinality(Below(i)) # 0
    BY <2>1, <2>2, FS_EmptySet
  <2> QED
    BY <2>2, <2>3, <2>4, <1>2
<1>4. ASSUME NEW i \in S, NEW j \in S, i < j
      PROVE  Cardinality(Below(i)) < Cardinality(Below(j))
  <2>1. Below(i) \in SUBSET Below(j) /\ j \in Below(j) /\ j \notin Below(i)
    <3>1. (\A x \in S : x \in Int) /\ i \in Int /\ j \in Int
      OBVIOUS
    <3>2. \A x \in S : x <= i => x <= j
      BY <3>1, <1>4
    <3>3. Below(i) \in SUBSET Below(j)
      BY <3>2
    <3>4. j \in Below(j) /\ j \notin Below(i)
      BY <3>1, <1>4
    <3> QED
      BY <3>3, <3>4
  <2>2. /\ Cardinality(Below(i)) <= Cardinality(Below(j))
        /\ Cardinality(Below(j)) = Cardinality(Below(i)) => Below(j) = Below(i)
    BY <1>3, <2>1, FS_Subset
  <2> QED
    BY <1>3, <2>1, <2>2
<1> DEFINE rank == [i \in S |-> Cardinality(Below(i))]
<1>5. rank \in Surjection(S, 1..Cardinality(S))
  <2>1. IsFiniteSet(1..Cardinality(S)) /\ Cardinality(1..Cardinality(S)) = Cardinality(S)
    <3>1. 1 \in Int /\ Cardinality(S) \in Int
      BY <1>2
    <3>2. /\ IsFiniteSet(1..Cardinality(S))
          /\ Cardinality(1..Cardinality(S)) = IF 1 > Cardinality(S) THEN 0 ELSE Cardinality(S) - 1 + 1
      BY <3>1, FS_Interval, Zenon
    <3> QED
      BY <3>2, <1>2
  <2>2. rank \in [S -> 1..Cardinality(S)]
    BY <1>3
  <2>3. ASSUME NEW i \in S, NEW j \in S, rank[i] = rank[j]
        PROVE  i = j
    BY <2>3, <1>3, <1>4
  <2>4. rank \in Injection(S, 1..Cardinality(S))
    BY <2>2, <2>3 DEF Injection, IsInjective
  <2> QED
    BY <2>1, <2>4, FS_Injection
<1>6. \A k \in 1..Cardinality(S) : \E i \in S : rank[i] = k
  BY <1>5 DEF Surjection
<1> QED
  BY <1>2, <1>3, <1>4, <1>6 DEF Rank

(* The positions of a set are enumerated in their order, each of them once.  *)
LEMMA EnumeratedIs ==
  ASSUME NEW m \in Nat, NEW S \in SUBSET (1..m)
  PROVE  /\ Cardinality(S) \in 0..m
         /\ Enumerated(S) \in [1..Cardinality(S) -> S]
         /\ \A j, k \in 1..Cardinality(S) : j < k => Enumerated(S)[j] < Enumerated(S)[k]
         /\ \A i \in S : \E k \in 1..Cardinality(S) : Enumerated(S)[k] = i
<1> DEFINE E == Enumerated(S)
<1>1. \A k \in 1..Cardinality(S) : E[k] \in S /\ Rank(S, E[k]) = k
  <2>1. \A k \in 1..Cardinality(S) : E[k] = CHOOSE i \in S : Rank(S, i) = k
    BY DEF Enumerated, Rank
  <2> QED
    BY <2>1, RankIs
<1>2. DOMAIN E = 1..Cardinality(S) /\ E = [k \in 1..Cardinality(S) |-> E[k]]
  BY DEF Enumerated
<1> HIDE DEF E
<1>3. Cardinality(S) \in 0..m
  BY RankIs
<1>6. \A x \in S : x \in Int /\ Rank(S, x) \in Int
  BY RankIs, <1>3
<1>7. \A x, y \in S : x < y => Rank(S, x) < Rank(S, y)
  BY RankIs
<1>4. ASSUME NEW j \in 1..Cardinality(S), NEW k \in 1..Cardinality(S), j < k
      PROVE  E[j] < E[k]
  <2>1. E[j] \in S /\ E[k] \in S /\ Rank(S, E[j]) = j /\ Rank(S, E[k]) = k
    BY <1>1
  <2>2. j \in Int /\ k \in Int /\ E[j] \in Int /\ E[k] \in Int
    BY <2>1, <1>3, <1>6
  <2>3. ~(E[k] < E[j])
    <3> SUFFICES ASSUME E[k] < E[j] PROVE FALSE
      OBVIOUS
    <3>1. Rank(S, E[k]) < Rank(S, E[j])
      BY <2>1, <1>7
    <3> QED
      BY <3>1, <2>1, <2>2, <1>4
  <2>4. E[k] # E[j]
    BY <2>1, <2>2, <1>4
  <2> QED
    BY <2>2, <2>3, <2>4
<1>5. ASSUME NEW i \in S
      PROVE  \E k \in 1..Cardinality(S) : E[k] = i
  <2>1. Rank(S, i) \in 1..Cardinality(S)
    BY RankIs
  <2>2. E[Rank(S, i)] = i
    <3>1. E[Rank(S, i)] \in S /\ Rank(S, E[Rank(S, i)]) = Rank(S, i)
      BY <2>1, <1>1
    <3>2. i \in Int /\ E[Rank(S, i)] \in Int /\ Rank(S, i) \in Int
      BY <3>1, <1>6
    <3>3. ASSUME i < E[Rank(S, i)] PROVE FALSE
      <4>1. Rank(S, i) < Rank(S, E[Rank(S, i)])
        BY <3>1, <3>3, <1>7
      <4> QED
        BY <4>1, <3>1, <3>2
    <3>4. ASSUME E[Rank(S, i)] < i PROVE FALSE
      <4>1. Rank(S, E[Rank(S, i)]) < Rank(S, i)
        BY <3>1, <3>4, <1>7
      <4> QED
        BY <4>1, <3>1, <3>2
    <3> QED
      BY <3>2, <3>3, <3>4
  <2> QED
    BY <2>1, <2>2
<1> QED
  BY <1>1, <1>2, <1>3, <1>4, <1>5 DEF E

(* All positions are enumerated as they are. *)
LEMMA EnumeratedAll ==
  ASSUME NEW m \in Nat
  PROVE  Cardinality(1..m) = m /\ \A k \in 1..m : Enumerated(1..m)[k] = k
<1>1. ASSUME NEW k \in 0..m
      PROVE  Cardinality(1..k) = k
  <2>1. 1 \in Int /\ k \in Int
    OBVIOUS
  <2>2. Cardinality(1..k) = IF 1 > k THEN 0 ELSE k - 1 + 1
    BY <2>1, FS_Interval, Zenon
  <2> QED
    BY <2>2
<1>2. ASSUME NEW k \in 1..m
      PROVE  Rank(1..m, k) = k
  <2>1. {j \in 1..m : j <= k} = 1..k
    OBVIOUS
  <2>2. Cardinality(1..k) = k
    BY <1>1
  <2> QED
    BY <2>1, <2>2 DEF Rank
<1>3. ASSUME NEW k \in 1..m
      PROVE  Enumerated(1..m)[k] = k
  <2>1. Enumerated(1..m)[k] = CHOOSE i \in 1..m : Rank(1..m, i) = k
    <3>1. Cardinality(1..m) = m
      BY <1>1
    <3> QED
      BY <3>1 DEF Enumerated, Rank
  <2>2. (CHOOSE i \in 1..m : Rank(1..m, i) = k) \in 1..m
        /\ Rank(1..m, CHOOSE i \in 1..m : Rank(1..m, i) = k) = k
    BY <1>2
  <2> QED
    BY <2>1, <2>2, <1>2
<1> QED
  BY <1>1, <1>3

(* A subsequence has the elements at the positions it is made of. *)
LEMMA PickedIs ==
  ASSUME NEW T, NEW s \in Seq(T), NEW S \in SUBSET (DOMAIN s)
  PROVE  /\ Picked(s, S) \in Seq(T)
         /\ Len(Picked(s, S)) = Cardinality(S) /\ Cardinality(S) \in 0..Len(s)
         /\ \A k \in 1..Len(Picked(s, S)) : \E i \in S : Picked(s, S)[k] = s[i]
         /\ \A i \in S : \E k \in 1..Len(Picked(s, S)) : Picked(s, S)[k] = s[i]
<1>1. DOMAIN s = 1..Len(s) /\ Len(s) \in Nat
  OBVIOUS
<1>2. S \in SUBSET (1..Len(s))
  BY <1>1
<1>3. /\ Cardinality(S) \in 0..Len(s)
      /\ Enumerated(S) \in [1..Cardinality(S) -> S]
      /\ \A i \in S : \E k \in 1..Cardinality(S) : Enumerated(S)[k] = i
  BY <1>1, <1>2, EnumeratedIs
<1>4. \A k \in 1..Cardinality(S) : Enumerated(S)[k] \in S
  BY <1>3
<1>5. Picked(s, S) = [k \in 1..Cardinality(S) |-> s[Enumerated(S)[k]]]
  BY DEF Picked
<1>6. \A k \in 1..Cardinality(S) : s[Enumerated(S)[k]] \in T
  BY <1>1, <1>2, <1>4
<1>7. Picked(s, S) \in Seq(T) /\ Len(Picked(s, S)) = Cardinality(S)
  BY <1>3, <1>5, <1>6
<1> QED
  BY <1>3, <1>4, <1>5, <1>7

(* What is made of all positions is the sequence itself. *)
LEMMA PickedAll ==
  ASSUME NEW T, NEW s \in Seq(T)
  PROVE  Picked(s, DOMAIN s) = s
<1>1. DOMAIN s = 1..Len(s) /\ Len(s) \in Nat
  OBVIOUS
<1>2. Cardinality(1..Len(s)) = Len(s) /\ \A k \in 1..Len(s) : Enumerated(1..Len(s))[k] = k
  BY <1>1, EnumeratedAll
<1>3. Picked(s, 1..Len(s)) = [k \in 1..Len(s) |-> s[k]]
  BY <1>2 DEF Picked
<1> QED
  BY <1>1, <1>3

----------------------------------------------------------------------------
(* The columns of a statement. *)

LEMMA ResolvedIs ==
  ASSUME NEW f \in Fields
  PROVE  Resolved(f) \in Fields /\ Resolved(Resolved(f)) = Resolved(f)
<1>1. CASE f.fn = "COUNT" /\ f.name = "*"
  <2>1. Resolved(f) = [f EXCEPT !.name = Pk]
    BY <1>1 DEF Resolved
  <2>2. Resolved(f) \in Fields /\ Resolved(f).name = Pk
    BY <2>1, NameAssumption DEF Fields
  <2>3. Pk # "*"
    BY NameAssumption
  <2>4. Resolved(Resolved(f)) = Resolved(f)
    BY <2>2, <2>3 DEF Resolved
  <2> QED
    BY <2>2, <2>4
<1>2. CASE ~(f.fn = "COUNT" /\ f.name = "*")
  BY <1>2 DEF Resolved
<1> QED
  BY <1>1, <1>2

(* What FieldsKept picks from. *)
ResolvedFields(fs) == [i \in DOMAIN fs |-> Resolved(fs[i])]
Kept(fs) == {i \in DOMAIN fs : \A j \in 1..(i - 1) : ResolvedFields(fs)[j].name # ResolvedFields(fs)[i].name}

LEMMA KeptIs ==
  ASSUME NEW fs \in Seq(Fields)
  PROVE  /\ ResolvedFields(fs) \in Seq(Fields) /\ Len(ResolvedFields(fs)) = Len(fs)
         /\ DOMAIN ResolvedFields(fs) = DOMAIN fs
         /\ Kept(fs) \in SUBSET (DOMAIN ResolvedFields(fs))
         /\ FieldsKept(fs) = Picked(ResolvedFields(fs), Kept(fs))
<1>1. DOMAIN fs = 1..Len(fs) /\ Len(fs) \in Nat /\ \A i \in 1..Len(fs) : fs[i] \in Fields
  OBVIOUS
<1>2. \A i \in 1..Len(fs) : Resolved(fs[i]) \in Fields
  BY <1>1, ResolvedIs
<1>3. ResolvedFields(fs) = [i \in 1..Len(fs) |-> Resolved(fs[i])]
  BY <1>1 DEF ResolvedFields
<1>4. ResolvedFields(fs) \in Seq(Fields) /\ Len(ResolvedFields(fs)) = Len(fs)
  BY <1>1, <1>2, <1>3
<1>5. DOMAIN ResolvedFields(fs) = DOMAIN fs
  BY DEF ResolvedFields
<1>6. FieldsKept(fs) = Picked(ResolvedFields(fs), Kept(fs))
  BY DEF FieldsKept, ResolvedFields, Kept
<1> QED
  BY <1>4, <1>5, <1>6 DEF Kept

(* A column is kept once, at least one is, and keeping again changes nothing *)
(* of their number.                                                          *)
LEMMA FieldsKeptIs ==
  ASSUME NEW fs \in Seq(Fields)
  PROVE  /\ FieldsKept(fs) \in Seq(Fields) /\ Len(FieldsKept(fs)) \in 0..Len(fs)
         /\ fs # <<>> => FieldsKept(fs) # <<>>
         /\ Len(FieldsKept(FieldsKept(fs))) = Len(FieldsKept(fs))
         /\ \A j, k \in 1..Len(FieldsKept(fs)) : j < k => FieldsKept(fs)[j].name # FieldsKept(fs)[k].name
<1> DEFINE rs == ResolvedFields(fs)
           ks == FieldsKept(fs)
<1>1. /\ rs \in Seq(Fields) /\ Len(rs) = Len(fs) /\ DOMAIN rs = DOMAIN fs
      /\ Kept(fs) \in SUBSET (DOMAIN rs) /\ ks = Picked(rs, Kept(fs))
  BY KeptIs
<1>2. /\ ks \in Seq(Fields) /\ Len(ks) = Cardinality(Kept(fs)) /\ Cardinality(Kept(fs)) \in 0..Len(fs)
      /\ \A i \in Kept(fs) : \E k \in 1..Len(ks) : ks[k] = rs[i]
  BY <1>1, PickedIs
<1>3. ASSUME fs # <<>>
      PROVE  ks # <<>>
  <2>1. 1 \in DOMAIN fs
    BY <1>3
  <2>2. 1 \in Kept(fs)
    BY <2>1 DEF Kept
  <2>3. \E k \in 1..Len(ks) : ks[k] = rs[1]
    BY <2>2, <1>2
  <2> QED
    BY <2>3, <1>2
<1>4. DOMAIN fs = 1..Len(fs) /\ Len(fs) \in Nat
  OBVIOUS
<1>5. ASSUME NEW j \in 1..Len(ks), NEW k \in 1..Len(ks), j < k
      PROVE  ks[j].name # ks[k].name
  <2> DEFINE E == Enumerated(Kept(fs))
  <2>1. Kept(fs) \in SUBSET (1..Len(fs))
    BY <1>1, <1>4
  <2>2. /\ E \in [1..Cardinality(Kept(fs)) -> Kept(fs)]
        /\ \A u, v \in 1..Cardinality(Kept(fs)) : u < v => E[u] < E[v]
    BY <2>1, <1>4, EnumeratedIs
  <2>3. j \in 1..Cardinality(Kept(fs)) /\ k \in 1..Cardinality(Kept(fs))
    BY <1>2
  <2>4. ks[j] = rs[E[j]] /\ ks[k] = rs[E[k]]
    BY <1>1, <2>3 DEF Picked
  <2> HIDE DEF E
  <2>5. E[j] \in Kept(fs) /\ E[k] \in Kept(fs) /\ E[j] < E[k]
    BY <2>2, <2>3, <1>5
  <2>6. E[j] \in 1..Len(fs) /\ E[k] \in 1..Len(fs)
    BY <2>5, <2>1
  <2>7. E[j] \in 1..(E[k] - 1)
    BY <2>5, <2>6, <1>4
  <2>8. rs[E[j]].name # rs[E[k]].name
    BY <2>5, <2>7 DEF Kept
  <2> QED
    BY <2>4, <2>8
<1>6. ASSUME NEW k \in 1..Len(ks)
      PROVE  Resolved(ks[k]) = ks[k]
  <2>1. PICK i \in Kept(fs) : ks[k] = rs[i]
    BY <1>1, PickedIs
  <2>2. i \in DOMAIN fs
    BY <1>1
  <2>3. rs[i] = Resolved(fs[i]) /\ fs[i] \in Fields
    BY <2>2 DEF ResolvedFields
  <2> QED
    BY <2>1, <2>3, ResolvedIs
<1> HIDE DEF rs, ks
<1>7. DOMAIN ks = 1..Len(ks) /\ Len(ks) \in Nat
  BY <1>2
<1>8. ResolvedFields(ks) = ks
  <2>1. ResolvedFields(ks) = [k \in 1..Len(ks) |-> ks[k]]
    BY <1>6, <1>7 DEF ResolvedFields
  <2> QED
    BY <2>1, <1>2
<1>9. Kept(ks) = DOMAIN ks
  <2>1. \A k \in DOMAIN ks : \A j \in 1..(k - 1) : ks[j].name # ks[k].name
    <3> TAKE k \in DOMAIN ks
    <3> TAKE j \in 1..(k - 1)
    <3>1. j \in 1..Len(ks) /\ k \in 1..Len(ks) /\ j < k
      BY <1>7
    <3> QED
      BY <3>1, <1>5
  <2> QED
    BY <2>1, <1>8 DEF Kept
<1>10. FieldsKept(ks) = ks
  <2>1. FieldsKept(ks) = Picked(ks, DOMAIN ks)
    BY <1>2, <1>8, <1>9, KeptIs
  <2> QED
    BY <2>1, <1>2, PickedAll
<1> QED
  BY <1>2, <1>3, <1>5, <1>10 DEF ks

(* A column before which nothing was redundant keeps its position. *)
LEMMA KeepsItsPlace ==
  ASSUME NEW fs \in Seq(Fields), NEW p \in DOMAIN fs,
         \A j \in 1..p : \A h \in 1..(j - 1) : Resolved(fs[h]).name # Resolved(fs[j]).name
  PROVE  p \in 1..Len(FieldsKept(fs)) /\ FieldsKept(fs)[p] = Resolved(fs[p])
<1> DEFINE K == Kept(fs)
<1>1. DOMAIN fs = 1..Len(fs) /\ Len(fs) \in Nat /\ p \in 1..Len(fs)
  OBVIOUS
<1>2. /\ ResolvedFields(fs) \in Seq(Fields) /\ DOMAIN ResolvedFields(fs) = DOMAIN fs
      /\ K \in SUBSET (DOMAIN fs) /\ FieldsKept(fs) = Picked(ResolvedFields(fs), K)
  BY KeptIs
<1>3. \A j \in 1..p : j \in K
  <2> TAKE j \in 1..p
  <2>1. \A h \in 1..j : h \in DOMAIN fs
    BY <1>1
  <2>2. \A h \in 1..j : ResolvedFields(fs)[h] = Resolved(fs[h])
    BY <2>1 DEF ResolvedFields
  <2>3. j \in DOMAIN fs /\ \A h \in 1..(j - 1) : ResolvedFields(fs)[h].name # ResolvedFields(fs)[j].name
    BY <1>1, <2>1, <2>2
  <2> QED
    BY <2>3 DEF Kept
<1>4. Rank(K, p) = p
  <2>1. {j \in K : j <= p} = 1..p
    <3> HIDE DEF K
    <3> QED
      BY <1>1, <1>2, <1>3
  <2>2. Cardinality(1..p) = p
    BY <1>1, EnumeratedAll
  <2> QED
    BY <2>1, <2>2 DEF Rank
<1>5. p \in K /\ K \in SUBSET (1..Len(fs))
  BY <1>1, <1>2, <1>3
<1> HIDE DEF K
<1>6. PICK k \in 1..Cardinality(K) : Enumerated(K)[k] = p
  BY <1>1, <1>5, EnumeratedIs
<1>7. Rank(K, Enumerated(K)[k]) = k
  <2>1. Enumerated(K)[k] = CHOOSE i \in K : Rank(K, i) = k
    BY DEF Enumerated, Rank
  <2>2. \E i \in K : Rank(K, i) = k
    BY <1>1, <1>5, RankIs
  <2> QED
    BY <2>1, <2>2
<1>8. k = p /\ p \in 1..Cardinality(K)
  BY <1>4, <1>6, <1>7
<1>9. FieldsKept(fs)[p] = ResolvedFields(fs)[p] /\ Len(FieldsKept(fs)) = Cardinality(K)
  <2>1. FieldsKept(fs) = [i \in 1..Cardinality(K) |-> ResolvedFields(fs)[Enumerated(K)[i]]]
    BY <1>2 DEF Picked
  <2>2. Len(Picked(ResolvedFields(fs), K)) = Cardinality(K)
    BY <1>2, PickedIs
  <2> QED
    BY <1>2, <1>6, <1>8, <2>1, <2>2
<1> QED
  BY <1>8, <1>9 DEF ResolvedFields

----------------------------------------------------------------------------
(* The merge with a view. *)

LEMMA StmtIs ==
  ASSUME NEW s \in Stmts
  PROVE  /\ s.fields \in Seq(Fields) /\ s.group \in Seq(Groups) /\ s.order \in Seq(Orders)
         /\ s.where \in Seq(Names) /\ s.during \in BOOLEAN
         /\ s.offset \in 0..MaxInt /\ s.count \in 0..MaxInt /\ s.limited \in BOOLEAN
BY DEF Stmts

LEMMA KeptInStmts ==
  ASSUME NEW s \in Stmts
  PROVE  [s EXCEPT !.fields = FieldsKept(@)] \in Stmts
<1>1. FieldsKept(s.fields) \in Seq(Fields)
  BY StmtIs, FieldsKeptIs
<1> QED
  BY <1>1 DEF Stmts

LEMMA SelectedIs ==
  ASSUME NEW T, NEW xs \in Seq(T), NEW fs
  PROVE  /\ Selected(xs, fs) \in Seq(T)
         /\ (\A k \in DOMAIN xs : InSelect(xs[k], fs)) => Selected(xs, fs) = xs
<1> DEFINE S == {k \in DOMAIN xs : InSelect(xs[k], fs)}
<1>1. S \in SUBSET (DOMAIN xs)
  OBVIOUS
<1>2. Selected(xs, fs) = Picked(xs, S)
  BY DEF Selected
<1>3. Selected(xs, fs) \in Seq(T)
  BY <1>1, <1>2, PickedIs
<1>4. ASSUME \A k \in DOMAIN xs : InSelect(xs[k], fs)
      PROVE  Selected(xs, fs) = xs
  <2>1. S = DOMAIN xs
    BY <1>4
  <2> QED
    BY <1>2, <2>1, PickedAll
<1> QED
  BY <1>3, <1>4

(* The merged statement, clause by clause. *)
MergedFields(s, v) == IF IsAll(s) THEN v.fields ELSE FieldsKept(s.fields)
LEMMA MergedIs ==
  ASSUME NEW s \in Stmts, NEW v \in Stmts
  PROVE  /\ Merged(s, v) \in Stmts
         /\ Merged(s, v).fields = MergedFields(s, v)
         /\ Merged(s, v).where = s.where \o v.where
         /\ Merged(s, v).group = IF s.group = <<>> THEN Selected(v.group, MergedFields(s, v)) ELSE s.group
         /\ Merged(s, v).order = IF s.order = <<>> THEN Selected(v.order, MergedFields(s, v)) ELSE s.order
         /\ PageSize(v) => Merged(s, v).limited /\ Merged(s, v).count = v.count
         /\ ~PageSize(v) => Merged(s, v).limited = s.limited /\ Merged(s, v).count = s.count
         /\ Merged(s, v).offset = IF v.offset > s.offset THEN v.offset ELSE s.offset
<1> DEFINE l == Limited(s, v)
           fs == MergedFields(s, v)
           g  == IF s.group = <<>> THEN Selected(v.group, fs) ELSE s.group
           o  == IF s.order = <<>> THEN Selected(v.order, fs) ELSE s.order
<1>1. /\ l \in Stmts /\ l.group = s.group /\ l.order = s.order /\ l.where = s.where /\ l.during = s.during
      /\ PageSize(v) => l.limited /\ l.count = v.count
      /\ ~PageSize(v) => l.limited = s.limited /\ l.count = s.count
      /\ l.offset = IF v.offset > s.offset THEN v.offset ELSE s.offset
  <2>1. (IF v.offset > s.offset THEN v.offset ELSE s.offset) \in 0..MaxInt
    BY StmtIs
  <2>2. (IF PageSize(v) THEN v.count ELSE s.count) \in 0..MaxInt
    BY StmtIs
  <2>3. (s.limited \/ PageSize(v)) \in BOOLEAN
    OBVIOUS
  <2> QED
    BY <2>1, <2>2, <2>3 DEF Limited, Stmts
<1>2. fs \in Seq(Fields) /\ g \in Seq(Groups) /\ o \in Seq(Orders) /\ s.where \o v.where \in Seq(Names)
  <2>1. fs \in Seq(Fields)
    BY StmtIs, FieldsKeptIs DEF MergedFields
  <2>2. g \in Seq(Groups)
    BY StmtIs, SelectedIs
  <2>3. o \in Seq(Orders)
    BY StmtIs, SelectedIs
  <2> QED
    BY <2>1, <2>2, <2>3, StmtIs
<1>3. Merged(s, v) = [l EXCEPT !.fields = fs, !.where = s.where \o v.where,
                               !.during = s.during \/ v.during, !.group = g, !.order = o]
  BY <1>1 DEF Merged, MergedFields
<1> HIDE DEF l, fs, g, o
<1>4. (s.during \/ v.during) \in BOOLEAN
  OBVIOUS
<1>5. /\ Merged(s, v) \in Stmts
      /\ Merged(s, v).fields = fs /\ Merged(s, v).where = s.where \o v.where
      /\ Merged(s, v).group = g /\ Merged(s, v).order = o
      /\ Merged(s, v).limited = l.limited /\ Merged(s, v).count = l.count
      /\ Merged(s, v).offset = l.offset
  BY <1>1, <1>2, <1>3, <1>4 DEF Stmts
<1> QED
  BY <1>1, <1>5 DEF fs, g, o

LEMMA ConcatIs ==
  ASSUME NEW T, NEW a \in Seq(T), NEW b \in Seq(T)
  PROVE  /\ DOMAIN (a \o b) = 1..(Len(a) + Len(b))
         /\ Len(a) \in Nat /\ Len(b) \in Nat /\ DOMAIN a = 1..Len(a) /\ DOMAIN b = 1..Len(b)
         /\ \A k \in 1..Len(a) : (a \o b)[k] = a[k]
         /\ \A k \in 1..Len(b) : (a \o b)[Len(a) + k] = b[k]
<1>1. Len(a) \in Nat /\ Len(b) \in Nat /\ DOMAIN a = 1..Len(a) /\ DOMAIN b = 1..Len(b)
  BY LenProperties
<1>2. /\ a \o b \in Seq(T) /\ Len(a \o b) = Len(a) + Len(b)
      /\ \A i \in 1..Len(a) + Len(b) :
           (a \o b)[i] = IF i <= Len(a) THEN a[i] ELSE b[i - Len(a)]
  BY ConcatProperties
<1>3. DOMAIN (a \o b) = 1..(Len(a) + Len(b))
  BY <1>2, LenProperties
<1>4. ASSUME NEW k \in 1..Len(a)
      PROVE  (a \o b)[k] = a[k]
  BY <1>1, <1>2
<1>5. ASSUME NEW k \in 1..Len(b)
      PROVE  (a \o b)[Len(a) + k] = b[k]
  <2>1. Len(a) + k \in 1..Len(a) + Len(b) /\ ~(Len(a) + k <= Len(a)) /\ (Len(a) + k) - Len(a) = k
    BY <1>1
  <2> QED
    BY <2>1, <1>2
<1> QED
  BY <1>1, <1>3, <1>4, <1>5

(* A condition of the view occurs once in the merged statement, unless it is *)
(* out of range; then a column occurs twice.                                 *)
LEMMA OccursOnce ==
  ASSUME NEW s \in Stmts, NEW v \in Stmts, ~WhereOutRange(s, v), NEW i \in DOMAIN v.where
  PROVE  Occurs(v.where[i], s.where \o v.where) = 1
<1> DEFINE a == s.where
           b == v.where
           w == a \o b
           at == Len(a) + i
<1>1. a \in Seq(Names) /\ b \in Seq(Names)
  BY StmtIs
<1>2. /\ \A k \in DOMAIN a : a[k] # b[i]
      /\ \A j \in 1..(i - 1) : b[j] # b[i]
      /\ \A j \in DOMAIN b : \A k \in 1..(j - 1) : b[k] # b[j]
  BY DEF WhereOutRange
<1> HIDE DEF a, b
<1>3. /\ DOMAIN w = 1..(Len(a) + Len(b))
      /\ Len(a) \in Nat /\ Len(b) \in Nat /\ DOMAIN a = 1..Len(a) /\ DOMAIN b = 1..Len(b)
      /\ \A k \in 1..Len(a) : w[k] = a[k]
      /\ \A k \in 1..Len(b) : w[Len(a) + k] = b[k]
  BY <1>1, ConcatIs
<1> HIDE DEF w
<1>4. i \in 1..Len(b)
  BY <1>3 DEF b
<1>5. at \in DOMAIN w /\ w[at] = b[i]
  BY <1>3, <1>4
<1>6. ASSUME NEW j \in DOMAIN w, w[j] = b[i]
      PROVE  j = at
  <2>1. CASE j <= Len(a)
    <3>1. j \in DOMAIN a /\ w[j] = a[j]
      BY <1>3, <2>1
    <3> QED
      BY <3>1, <1>6, <1>2
  <2>2. CASE j > Len(a)
    <3> DEFINE k == j - Len(a)
    <3>1. k \in 1..Len(b) /\ Len(a) + k = j
      BY <1>3, <2>2
    <3>2. b[k] = b[i]
      BY <3>1, <1>3, <1>6
    <3> HIDE DEF k
    <3>3. k \notin 1..(i - 1) /\ i \notin 1..(k - 1)
      BY <3>1, <3>2, <1>2, <1>3
    <3>4. k = i
      BY <3>1, <3>3, <1>3, <1>4
    <3> QED
      BY <3>1, <3>4
  <2> QED
    BY <2>1, <2>2, <1>3
<1>7. {j \in DOMAIN w : w[j] = b[i]} = {at}
  BY <1>5, <1>6
<1>8. Occurs(b[i], w) = 1
  BY <1>7, FS_Singleton DEF Occurs
<1> QED
  BY <1>8 DEF w, a, b

LEMMA OccursTwice ==
  ASSUME NEW s \in Stmts, NEW v \in Stmts, WhereOutRange(s, v)
  PROVE  \E i \in DOMAIN v.where : Occurs(v.where[i], s.where \o v.where) > 1
<1> DEFINE a == s.where
           b == v.where
           w == a \o b
<1>1. a \in Seq(Names) /\ b \in Seq(Names)
  BY StmtIs
<1>2. PICK i \in DOMAIN b :
        \/ \E k \in DOMAIN a : a[k] = b[i]
        \/ \E j \in 1..(i - 1) : b[j] = b[i]
  BY DEF WhereOutRange
<1> HIDE DEF a, b
<1>3. /\ DOMAIN w = 1..(Len(a) + Len(b))
      /\ Len(a) \in Nat /\ Len(b) \in Nat /\ DOMAIN a = 1..Len(a) /\ DOMAIN b = 1..Len(b)
      /\ \A k \in 1..Len(a) : w[k] = a[k]
      /\ \A k \in 1..Len(b) : w[Len(a) + k] = b[k]
  BY <1>1, ConcatIs
<1> HIDE DEF w
<1> DEFINE at == Len(a) + i
<1>4. i \in 1..Len(b) /\ at \in DOMAIN w /\ w[at] = b[i]
  BY <1>2, <1>3
<1>5. \E j \in DOMAIN w : j # at /\ w[j] = b[i]
  <2>1. CASE \E k \in DOMAIN a : a[k] = b[i]
    <3>1. PICK k \in DOMAIN a : a[k] = b[i]
      BY <2>1
    <3>2. k \in DOMAIN w /\ w[k] = a[k] /\ k # at
      BY <1>3, <1>4
    <3> QED
      BY <3>1, <3>2
  <2>2. CASE \E j \in 1..(i - 1) : b[j] = b[i]
    <3>1. PICK j \in 1..(i - 1) : b[j] = b[i]
      BY <2>2
    <3>2. j \in 1..Len(b) /\ Len(a) + j \in DOMAIN w /\ Len(a) + j # at
      BY <1>3, <1>4
    <3>3. w[Len(a) + j] = b[j]
      BY <1>3, <3>2
    <3> QED
      BY <3>1, <3>2, <3>3
  <2> QED
    BY <1>2, <2>1, <2>2
<1>6. PICK j \in DOMAIN w : j # at /\ w[j] = b[i]
  BY <1>5
<1> DEFINE P == {x \in DOMAIN w : w[x] = b[i]}
<1>7. {at, j} \in SUBSET P /\ P \in SUBSET (DOMAIN w)
  BY <1>4, <1>6
<1>8. IsFiniteSet(DOMAIN w)
  <2>1. 1 \in Int /\ Len(a) + Len(b) \in Int
    BY <1>3
  <2>2. IsFiniteSet(1..(Len(a) + Len(b)))
    BY <2>1, FS_Interval
  <2> QED
    BY <2>2, <1>3
<1>9. IsFiniteSet(P)
  BY <1>7, <1>8, FS_Subset
<1>10. Cardinality({at, j}) = 2
  <2>1. IsFiniteSet({at}) /\ Cardinality({at}) = 1
    BY FS_Singleton
  <2>2. {at} \cup {j} = {at, j}
    OBVIOUS
  <2>3. j \notin {at}
    BY <1>6
  <2>4. Cardinality({at} \cup {j}) = IF j \in {at} THEN Cardinality({at}) ELSE Cardinality({at}) + 1
    BY <2>1, FS_AddElement
  <2> QED
    BY <2>1, <2>2, <2>3, <2>4
<1>11. Cardinality({at, j}) <= Cardinality(P) /\ Cardinality(P) \in Nat
  BY <1>7, <1>9, FS_Subset, FS_CardinalityType
<1>12. Occurs(b[i], w) = Cardinality(P)
  BY DEF Occurs
<1>13. Occurs(b[i], w) > 1
  BY <1>10, <1>11, <1>12
<1> QED
  BY <1>2, <1>13 DEF w, a, b

----------------------------------------------------------------------------
(* The invariant: the statement, the report and the groups. *)

StmtInv ==
  /\ asked \in Stmts /\ Parsed(asked)
  /\ view # NoView => view \in Stmts /\ Parsed(view)
  /\ stmt \in Stmts /\ stmt.fields # <<>>
  /\ pc \in {"parsed", "refused"} => stmt = asked
  /\ pc \notin {"parsed", "refused"} =>
       IF view = NoView THEN stmt = [asked EXCEPT !.fields = FieldsKept(@)]
                        ELSE stmt = Merged(asked, view) /\ ~WhereOutRange(asked, view)
  /\ pc = "refused" /\ view # NoView =>
       \/ ~IsAll(asked) /\ UnknownField(asked.fields, NamesOf(view.fields))
       \/ asked.during /\ view.during
       \/ WhereOutRange(asked, view)

LEMMA StmtInit == Init => StmtInv
<1> SUFFICES ASSUME Init PROVE StmtInv
  OBVIOUS
<1>1. PICK q \in Queries : asked = q[1] /\ view = q[2]
  BY DEF Init
<1>2. asked \in Stmts /\ Parsed(asked) /\ (view # NoView => view \in Stmts /\ Parsed(view))
  BY <1>1, StmtAssumption, ViewAssumption
<1>3. asked.fields # <<>>
  BY <1>2 DEF Parsed
<1> QED
  BY <1>2, <1>3 DEF Init, StmtInv

LEMMA StmtStep == StmtInv /\ [Next]_vars => StmtInv'
<1> SUFFICES ASSUME StmtInv, [Next]_vars PROVE StmtInv'
  OBVIOUS
<1>1. asked \in Stmts /\ stmt \in Stmts /\ asked.fields # <<>>
  BY DEF StmtInv, Parsed
<1>2. CASE EmbellishTable
  <2>1. CASE UnknownField(stmt.fields, Names)
    <3>1. UNCHANGED <<asked, view, stmt>> /\ pc' = "refused" /\ pc = "parsed" /\ view = NoView
      BY <1>2, <2>1 DEF EmbellishTable
    <3> QED
      BY <3>1 DEF StmtInv
  <2>2. CASE ~UnknownField(stmt.fields, Names)
    <3>1. /\ UNCHANGED <<asked, view>> /\ pc' = "fetch" /\ pc = "parsed" /\ view = NoView
          /\ stmt' = [stmt EXCEPT !.fields = FieldsKept(stmt.fields)] /\ stmt = asked
      BY <1>2, <2>2 DEF EmbellishTable, StmtInv
    <3>2. stmt' \in Stmts
      BY <3>1, <1>1, KeptInStmts
    <3>3. FieldsKept(asked.fields) # <<>>
      BY <1>1, StmtIs, FieldsKeptIs
    <3>4. stmt'.fields = FieldsKept(asked.fields)
      BY <3>1, <1>1 DEF Stmts
    <3> QED
      BY <3>1, <3>2, <3>3, <3>4 DEF StmtInv
  <2> QED
    BY <2>1, <2>2
<1>3. CASE EmbellishView
  <2>1. /\ UNCHANGED <<asked, view>> /\ pc = "parsed" /\ view # NoView /\ stmt = asked
        /\ \/ pc' = "refused" /\ stmt' = stmt
              /\ \/ ~IsAll(asked) /\ UnknownField(asked.fields, NamesOf(view.fields))
                 \/ asked.during /\ view.during
                 \/ WhereOutRange(asked, view)
           \/ pc' = "fetch" /\ stmt' = Merged(stmt, view) /\ ~WhereOutRange(asked, view)
    BY <1>3 DEF EmbellishView, StmtInv
  <2>2. view \in Stmts /\ view.fields # <<>>
    BY <2>1 DEF StmtInv, Parsed
  <2>3. CASE pc' = "refused"
    BY <2>1, <2>3 DEF StmtInv
  <2>4. CASE pc' = "fetch" /\ stmt' = Merged(stmt, view) /\ ~WhereOutRange(asked, view)
    <3>1. stmt' \in Stmts /\ stmt'.fields = MergedFields(asked, view)
      BY <2>1, <2>2, <2>4, <1>1, MergedIs
    <3>2. FieldsKept(asked.fields) # <<>>
      BY <1>1, StmtIs, FieldsKeptIs
    <3>3. MergedFields(asked, view) # <<>>
      BY <2>2, <3>2 DEF MergedFields
    <3> QED
      BY <2>1, <2>4, <3>1, <3>3 DEF StmtInv
  <2> QED
    BY <2>1, <2>3, <2>4
<1>4. ASSUME UNCHANGED <<asked, view, stmt>>, pc \notin {"parsed", "refused"}, pc' \notin {"parsed", "refused"}
      PROVE  StmtInv'
  BY <1>4 DEF StmtInv
<1>5. CASE Fetch
  BY <1>4, <1>5 DEF Fetch
<1>6. CASE AddRow
  BY <1>4, <1>6 DEF AddRow
<1>7. CASE Collect
  <2>1. UNCHANGED <<asked, view, stmt>> /\ pc = "rows" /\ pc' \in {"done", "sort"}
    BY <1>7 DEF Collect
  <2> QED
    BY <1>4, <2>1
<1>8. CASE Sort
  <2>1. UNCHANGED <<asked, view, stmt>> /\ pc = "sort" /\ pc' \in {"limit", "panic"}
    BY <1>8 DEF Sort
  <2> QED
    BY <1>4, <2>1
<1>9. CASE Limit
  BY <1>4, <1>9 DEF Limit
<1>10. CASE NextRow
  <2>1. UNCHANGED <<asked, view, stmt>> /\ pc = "read" /\ pc' \in {"read", "done", "panic"}
    BY <1>10 DEF NextRow
  <2> QED
    BY <1>4, <2>1
<1>11. CASE NoColumns
  BY <1>4, <1>11 DEF NoColumns
<1>12. CASE UNCHANGED vars
  BY <1>12 DEF vars, StmtInv
<1> QED
  BY <1>2, <1>3, <1>5, <1>6, <1>7, <1>8, <1>9, <1>10, <1>11, <1>12 DEF Next

(* The report has one cell for each column that is not redundant; until it   *)
(* is fetched there is none.                                                 *)
Cell == Cells \cup {Null}
Width == Len(FieldsKept(stmt.fields))
RecordsInv ==
  /\ records \in Seq([1..Width -> Cell]) /\ Len(records) <= MaxInt
  /\ n \in 0..Len(records)
  /\ pc \in {"parsed", "fetch", "refused"} => records = <<>>

LEMMA RecordsInit == Init => RecordsInv
<1> SUFFICES ASSUME Init PROVE RecordsInv
  OBVIOUS
<1>1. <<>> \in Seq([1..Width -> Cell]) /\ Len(<<>>) = 0
  OBVIOUS
<1> QED
  BY <1>1, BoundAssumption DEF Init, RecordsInv

LEMMA RecordsStep == StmtInv /\ RecordsInv /\ [Next]_vars => RecordsInv'
<1> SUFFICES ASSUME StmtInv, RecordsInv, [Next]_vars PROVE RecordsInv'
  OBVIOUS
<1>1. ASSUME UNCHANGED <<records, n>>, pc = "parsed"
      PROVE  RecordsInv'
  <2>1. records' = <<>> /\ n' = 0
    BY <1>1 DEF RecordsInv
  <2>2. <<>> \in Seq([1..Width' -> Cell]) /\ Len(<<>>) = 0
    OBVIOUS
  <2> QED
    BY <2>1, <2>2, BoundAssumption DEF RecordsInv, Cell
<1>2. ASSUME UNCHANGED <<records, n, stmt>>, pc' \notin {"parsed", "fetch", "refused"}
      PROVE  RecordsInv'
  BY <1>2 DEF RecordsInv, Width, Cell
<1>3. CASE Fetch
  <2>1. CASE pc' = "error" /\ UNCHANGED records
    <3>1. UNCHANGED <<records, n, stmt>> /\ pc' = "error"
      BY <1>3, <2>1 DEF Fetch
    <3> QED
      BY <3>1, <1>2
  <2>2. CASE ~(pc' = "error" /\ UNCHANGED records)
    <3>1. /\ UNCHANGED <<n, stmt>> /\ pc' = "rows" /\ pc = "fetch"
          /\ \E m \in 0..(IF view = NoView THEN MaxRows ELSE MaxViewRows) :
               records' \in [1..m -> [DOMAIN FieldsKept(stmt.fields) -> Cells \cup {Null}]]
      BY <1>3, <2>2 DEF Fetch
    <3>2. PICK m \in 0..MaxInt : records' \in [1..m -> [DOMAIN FieldsKept(stmt.fields) -> Cell]]
      <4>1. ASSUME NEW x \in 0..(IF view = NoView THEN MaxRows ELSE MaxViewRows)
            PROVE  x \in 0..MaxInt
        BY BoundAssumption
      <4> QED
        BY <3>1, <4>1 DEF Cell
    <3>3. DOMAIN FieldsKept(stmt.fields) = 1..Width
      BY StmtIs, FieldsKeptIs DEF StmtInv, Width
    <3>4. records' \in Seq([1..Width -> Cell]) /\ Len(records') = m
      BY <3>2, <3>3
    <3>5. n = 0
      BY <3>1 DEF RecordsInv
    <3>6. Len(records') <= MaxInt /\ n' \in 0..Len(records')
      BY <3>1, <3>4, <3>5, BoundAssumption
    <3>7. Width' = Width
      BY <3>1 DEF Width
    <3> QED
      BY <3>1, <3>4, <3>6, <3>7 DEF RecordsInv, Cell
  <2> QED
    BY <2>1, <2>2
<1>4. CASE AddRow
  <2>1. /\ UNCHANGED <<records, stmt>> /\ n < Len(records) /\ pc = "rows" /\ n' \in {n, n + 1}
        /\ pc' \in {"rows", "panic", "error"}
    BY <1>4 DEF AddRow
  <2>2. n' \in 0..Len(records)
    BY <2>1 DEF RecordsInv
  <2> QED
    BY <2>1, <2>2 DEF RecordsInv, Width, Cell
<1>5. CASE EmbellishTable
  BY <1>1, <1>5 DEF EmbellishTable
<1>6. CASE EmbellishView
  BY <1>1, <1>6 DEF EmbellishView
<1>7. CASE Collect
  <2>1. UNCHANGED <<records, n, stmt>> /\ pc' \in {"done", "sort"}
    BY <1>7 DEF Collect
  <2> QED
    BY <1>2, <2>1
<1>8. CASE Sort
  <2>1. UNCHANGED <<records, n, stmt>> /\ pc' \in {"limit", "panic"}
    BY <1>8 DEF Sort
  <2> QED
    BY <1>2, <2>1
<1>9. CASE Limit
  BY <1>2, <1>9 DEF Limit
<1>10. CASE NextRow
  <2>1. UNCHANGED <<records, n, stmt>> /\ pc' \in {"read", "done", "panic"}
    BY <1>10 DEF NextRow
  <2> QED
    BY <1>2, <2>1
<1>11. CASE NoColumns
  BY <1>2, <1>11 DEF NoColumns
<1>12. CASE UNCHANGED vars
  BY <1>12 DEF vars, RecordsInv, Width, Cell
<1> QED
  BY <1>3, <1>4, <1>5, <1>6, <1>7, <1>8, <1>9, <1>10, <1>11, <1>12 DEF Next

----------------------------------------------------------------------------
(* One more cell for an aggregate. *)

(* What CellIsRight says of an aggregate a, for the records of M. *)
IsCell(a) == a.v \in Int /\ a.valid \in BOOLEAN
GivenOf(i, M) == {j \in M : Valid(i, records[j][i])}
RightCell(a, i, M) ==
  LET fn == stmt.fields[i].fn IN
  /\ fn = "COUNT" => a.v = Cardinality(M)
  /\ fn \in {"MAX", "MIN"} => a.valid = (GivenOf(i, M) # {})
  /\ fn = "MAX" /\ a.valid =>
       /\ \E j \in GivenOf(i, M) : a.v = Number(i, records[j][i])
       /\ \A j \in GivenOf(i, M) : a.v >= Number(i, records[j][i])
  /\ fn = "MIN" /\ a.valid =>
       /\ \E j \in GivenOf(i, M) : a.v = Number(i, records[j][i])
       /\ \A j \in GivenOf(i, M) : a.v <= Number(i, records[j][i])
  /\ fn = "none" => \E j \in M : (\A m \in M : m <= j) /\ a.v = Number(i, records[j][i])

(* A cell that is there is converted to a number. *)
LEMMA NumberIs ==
  ASSUME RecordsInv, NEW j \in 1..Len(records), NEW i \in 1..Width
  PROVE  Number(i, records[j][i]) \in Int /\ Valid(i, records[j][i]) \in BOOLEAN
<1>1. records[j] \in [1..Width -> Cell]
  BY ElementOfSeq DEF RecordsInv
<1>2. records[j][i] \in Cell
  BY <1>1
<1>3. records[j][i] # Null => records[j][i] \in Int
  <2>1. \A c \in Cells : c \in Int
    BY CellAssumption
  <2> QED
    BY <1>2, <2>1 DEF Cell
<1> QED
  BY <1>3 DEF Number, Valid

LEMMA NoneIsRight ==
  ASSUME NEW i, stmt.fields[i].fn # "none"
  PROVE  IsCell(None) /\ RightCell(None, i, {})
<1>1. None.v = 0 /\ None.valid = FALSE
  BY DEF None
<1>2. GivenOf(i, {}) = {}
  BY DEF GivenOf
<1>3. Cardinality({}) = 0
  BY FS_EmptySet
<1> HIDE DEF None
<1>4. IsCell(None)
  <2>1. None.v \in Int
    BY <1>1
  <2>2. None.valid \in BOOLEAN
    BY <1>1, Zenon
  <2> QED
    BY <2>1, <2>2 DEF IsCell
<1>5. RightCell(None, i, {})
  BY <1>1, <1>2, <1>3, Zenon DEF RightCell
<1> QED
  BY <1>4, <1>5

LEMMA MeanIs ==
  ASSUME NEW i \in Nat \ {0}, NEW a \in Int, NEW x \in Int, NEW s \in Int
  PROVE  (a * (i - 1) + x * s) \div i \in Int
<1>1. a * (i - 1) + x * s \in Int
  OBVIOUS
<1> QED
  BY <1>1

LEMMA AggregateIsRight ==
  ASSUME RecordsInv, NEW i, stmt.fields[i].fn \in Functions \ {"none"}, i \in Nat \ {0},
         stmt.fields[i].fn # "COUNT" => i \in 1..Width,
         NEW M \in SUBSET (1..Len(records)), IsFiniteSet(M),
         NEW j \in 1..Len(records), j \notin M,
         NEW a, IsCell(a), RightCell(a, i, M)
  PROVE  /\ IsCell(Aggregate(i, a, records[j][i]))
         /\ RightCell(Aggregate(i, a, records[j][i]), i, M \cup {j})
<1> DEFINE fn == stmt.fields[i].fn
           c  == records[j][i]
           x  == Number(i, c)
           b  == Aggregate(i, a, c)
<1>1. fn \in {"AVG", "COUNT", "MAX", "MIN", "SUM"}
  BY DEF Functions
<1>2. CASE fn = "COUNT"
  <2>1. b = [v |-> a.v + 1, valid |-> TRUE]
    BY <1>2 DEF Aggregate
  <2>2. Cardinality(M \cup {j}) = Cardinality(M) + 1
    BY FS_AddElement
  <2>3. a.v = Cardinality(M) /\ a.v \in Int
    BY <1>2 DEF RightCell, IsCell
  <2> QED
    BY <1>2, <2>1, <2>2, <2>3 DEF RightCell, IsCell
<1>3. CASE fn # "COUNT" /\ ~Valid(i, c)
  <2>1. b = a
    BY <1>3 DEF Aggregate
  <2>2. GivenOf(i, M \cup {j}) = GivenOf(i, M)
    BY <1>3 DEF GivenOf
  <2> QED
    BY <1>1, <1>3, <2>1, <2>2 DEF RightCell
<1>4. CASE fn # "COUNT" /\ Valid(i, c)
  <2>1. GivenOf(i, M \cup {j}) = GivenOf(i, M) \cup {j}
    BY <1>4 DEF GivenOf
  <2>2. x \in Int /\ \A m \in GivenOf(i, M) : Number(i, records[m][i]) \in Int
    BY <1>4, NumberIs DEF GivenOf
  <2>3. a.v \in Int /\ a.valid \in BOOLEAN
    BY DEF IsCell
  <2>4. CASE fn = "AVG"
    <3>1. b = [v |-> (a.v * (i - 1) + x * Scale) \div i, valid |-> TRUE]
      BY <1>4, <2>4 DEF Aggregate
    <3>2. a.v \in Int /\ x \in Int /\ Scale \in Int
      BY <2>2, <2>3, BoundAssumption
    <3>3. (a.v * (i - 1) + x * Scale) \div i \in Int
      BY <3>2, MeanIs
    <3> QED
      BY <2>4, <3>1, <3>3 DEF IsCell, RightCell
  <2>5. CASE fn = "SUM"
    <3>1. b = [v |-> a.v + x, valid |-> TRUE]
      BY <1>4, <2>5 DEF Aggregate
    <3> QED
      BY <2>2, <2>3, <2>5, <3>1 DEF IsCell, RightCell
  <2>6. CASE fn = "MAX"
    <3>1. b.valid = TRUE /\ b.v = IF ~a.valid \/ a.v < x THEN x ELSE a.v
      BY <1>4, <2>6 DEF Aggregate
    <3> DEFINE Num(m) == Number(i, records[m][i])
               G == GivenOf(i, M)
    <3>2. /\ a.valid <=> G # {}
          /\ a.valid => (\E m \in G : a.v = Num(m)) /\ (\A m \in G : a.v >= Num(m))
      BY <2>6, Zenon DEF RightCell
    <3>3. x = Num(j) /\ \A m \in G : Num(m) \in Int
      BY <2>2
    <3> HIDE DEF b, x, G, Num
    <3> DEFINE Good == /\ b.v \in Int /\ \E m \in G \cup {j} : b.v = Num(m)
          /\ \A m \in G \cup {j} : b.v >= Num(m)
    <3>4. ASSUME ~a.valid \/ a.v < x PROVE Good
      <4>1. b.v = x
        BY <3>1, <3>4
      <4>2. \A m \in G : b.v >= Num(m)
        <5>1. CASE a.valid
          BY <2>2, <2>3, <3>2, <3>3, <3>4, <4>1, <5>1
        <5>2. CASE ~a.valid
          BY <3>2, <5>2
        <5> QED
          BY <5>1, <5>2
      <4>3. b.v >= Num(j) /\ b.v \in Int /\ b.v = Num(j)
        BY <4>1, <3>3, <2>2
      <4> QED
        BY <4>2, <4>3 DEF Good
    <3>5. ASSUME ~(~a.valid \/ a.v < x) PROVE Good
      <4>1. b.v = a.v /\ a.valid
        BY <3>1, <3>5, <2>3
      <4>2. b.v >= Num(j) /\ b.v \in Int
        BY <4>1, <3>3, <3>5, <2>2, <2>3
      <4>3. (\E m \in G : b.v = Num(m)) /\ (\A m \in G : b.v >= Num(m))
        BY <4>1, <3>2
      <4> QED
        BY <4>2, <4>3 DEF Good
    <3>6. /\ b.v \in Int /\ \E m \in G \cup {j} : b.v = Num(m)
          /\ \A m \in G \cup {j} : b.v >= Num(m)
      BY <3>4, <3>5
    <3>7. IsCell(b)
      BY <3>1, <3>6 DEF IsCell
    <3>8. RightCell(b, i, M \cup {j})
      <4>1. GivenOf(i, M \cup {j}) = G \cup {j} /\ GivenOf(i, M \cup {j}) # {}
        BY <2>1 DEF G
      <4> QED
        BY <2>6, <3>1, <3>6, <4>1, Zenon DEF RightCell, Num
    <3> QED
      BY <3>7, <3>8 DEF b
  <2>7. CASE fn = "MIN"
    <3>1. b.valid = TRUE /\ b.v = IF ~a.valid \/ a.v > x THEN x ELSE a.v
      BY <1>4, <2>7 DEF Aggregate
    <3> DEFINE Num(m) == Number(i, records[m][i])
               G == GivenOf(i, M)
    <3>2. /\ a.valid <=> G # {}
          /\ a.valid => (\E m \in G : a.v = Num(m)) /\ (\A m \in G : a.v <= Num(m))
      BY <2>7, Zenon DEF RightCell
    <3>3. x = Num(j) /\ \A m \in G : Num(m) \in Int
      BY <2>2
    <3> HIDE DEF b, x, G, Num
    <3> DEFINE Good == /\ b.v \in Int /\ \E m \in G \cup {j} : b.v = Num(m)
          /\ \A m \in G \cup {j} : b.v <= Num(m)
    <3>4. ASSUME ~a.valid \/ a.v > x PROVE Good
      <4>1. b.v = x
        BY <3>1, <3>4
      <4>2. \A m \in G : b.v <= Num(m)
        <5>1. CASE a.valid
          BY <2>2, <2>3, <3>2, <3>3, <3>4, <4>1, <5>1
        <5>2. CASE ~a.valid
          BY <3>2, <5>2
        <5> QED
          BY <5>1, <5>2
      <4>3. b.v <= Num(j) /\ b.v \in Int /\ b.v = Num(j)
        BY <4>1, <3>3, <2>2
      <4> QED
        BY <4>2, <4>3 DEF Good
    <3>5. ASSUME ~(~a.valid \/ a.v > x) PROVE Good
      <4>1. b.v = a.v /\ a.valid
        BY <3>1, <3>5, <2>3
      <4>2. b.v <= Num(j) /\ b.v \in Int
        BY <4>1, <3>3, <3>5, <2>2, <2>3
      <4>3. (\E m \in G : b.v = Num(m)) /\ (\A m \in G : b.v <= Num(m))
        BY <4>1, <3>2
      <4> QED
        BY <4>2, <4>3 DEF Good
    <3>6. /\ b.v \in Int /\ \E m \in G \cup {j} : b.v = Num(m)
          /\ \A m \in G \cup {j} : b.v <= Num(m)
      BY <3>4, <3>5
    <3>7. IsCell(b)
      BY <3>1, <3>6 DEF IsCell
    <3>8. RightCell(b, i, M \cup {j})
      <4>1. GivenOf(i, M \cup {j}) = G \cup {j} /\ GivenOf(i, M \cup {j}) # {}
        BY <2>1 DEF G
      <4> QED
        BY <2>7, <3>1, <3>6, <4>1, Zenon DEF RightCell, Num
    <3> QED
      BY <3>7, <3>8 DEF b
  <2> QED
    BY <1>1, <1>4, <2>4, <2>5, <2>6, <2>7
<1> QED
  BY <1>2, <1>3, <1>4

----------------------------------------------------------------------------
(* The groups. *)

(* d are the groups of the first m records. *)
MembersTo(k, m) == {j \in 1..m : Key(j) = k}
DataRight(d, m) ==
  /\ DOMAIN d = {Key(j) : j \in 1..m}
  /\ IsFiniteSet(DOMAIN d) /\ Cardinality(DOMAIN d) <= m
  /\ \A k \in DOMAIN d : \A i \in DOMAIN stmt.fields :
       IsCell(d[k][i]) /\ RightCell(d[k][i], i, MembersTo(k, m))
DataInv == DataRight(data, n)

LEMMA FieldIs ==
  ASSUME StmtInv, NEW i \in DOMAIN stmt.fields
  PROVE  i \in Nat \ {0} /\ stmt.fields[i].fn \in Functions
<1>1. stmt.fields \in Seq(Fields)
  BY StmtIs DEF StmtInv
<1>2. i \in 1..Len(stmt.fields) /\ Len(stmt.fields) \in Nat
  BY <1>1, LenProperties
<1>3. stmt.fields[i] \in Fields
  BY <1>1, <1>2, ElementOfSeq
<1> QED
  BY <1>2, <1>3 DEF Fields

LEMMA RowAfterIsRight ==
  ASSUME StmtInv, RecordsInv, n < Len(records), ~CellOutOfRange(records[n + 1]), DataRight(data, n),
         NEW i \in DOMAIN stmt.fields
  PROVE  /\ IsCell(RowAfter(n + 1)[i])
         /\ RightCell(RowAfter(n + 1)[i], i, MembersTo(Key(n + 1), n) \cup {n + 1})
<1> DEFINE j  == n + 1
           fn == stmt.fields[i].fn
           k  == Key(j)
           M  == MembersTo(k, n)
           c  == RowAfter(j)[i]
<1>1. j \in 1..Len(records) /\ n \in Nat
  BY DEF RecordsInv
<1>2. M \in SUBSET (1..n) /\ j \notin M /\ M \in SUBSET (1..Len(records))
  BY <1>1 DEF MembersTo
<1>3. IsFiniteSet(M)
  <2>1. 1 \in Int /\ n \in Int
    BY <1>1
  <2>2. IsFiniteSet(1..n)
    BY <2>1, FS_Interval
  <2> QED
    BY <1>2, <2>2, FS_Subset
<1>4. i \in Nat \ {0} /\ fn \in Functions
  BY FieldIs
<1>5. fn # "COUNT" => i \in 1..Width
  <2>1. records[j] \in [1..Width -> Cell]
    BY <1>1, ElementOfSeq DEF RecordsInv
  <2>2. Width \in Nat
    BY StmtIs, FieldsKeptIs DEF StmtInv, Width
  <2>3. Len(records[j]) = Width
    BY <2>1, <2>2
  <2>4. fn # "COUNT" => ~(i > Len(records[j]))
    BY DEF CellOutOfRange
  <2> QED
    BY <1>4, <2>2, <2>3, <2>4
<1>6. CASE fn = "none"
  <2> DEFINE x == Number(i, records[j][i])
  <2>1. c = [v |-> x, valid |-> records[j][i] # Null]
    BY <1>6 DEF RowAfter
  <2>2. x \in Int
    BY <1>1, <1>5, <1>6, NumberIs
  <2> HIDE DEF c
  <2>3. c.v = x /\ c.valid \in BOOLEAN
    BY <2>1
  <2>4. \A m \in M \cup {j} : m <= j
    BY <1>1, <1>2
  <2>5. IsCell(c)
    BY <2>2, <2>3 DEF IsCell
  <2>6. RightCell(c, i, M \cup {j})
    BY <1>6, <2>3, <2>4 DEF RightCell
  <2> QED
    BY <2>5, <2>6 DEF c
<1>7. CASE fn # "none"
  <2> DEFINE a == IF k \in DOMAIN data THEN data[k][i] ELSE None
  <2>1. c = Aggregate(i, a, records[j][i])
    BY <1>7 DEF RowAfter
  <2>2. IsCell(a) /\ RightCell(a, i, M)
    <3>1. CASE k \in DOMAIN data
      BY <3>1 DEF DataRight
    <3>2. CASE k \notin DOMAIN data
      <4>1. M = {}
        BY <3>2 DEF DataRight, MembersTo
      <4> QED
        BY <3>2, <4>1, <1>7, NoneIsRight
    <3> QED
      BY <3>1, <3>2
  <2> HIDE DEF a, M, c
  <2>3. /\ IsCell(Aggregate(i, a, records[j][i]))
        /\ RightCell(Aggregate(i, a, records[j][i]), i, M \cup {j})
    BY <1>1, <1>2, <1>3, <1>4, <1>5, <1>7, <2>2, AggregateIsRight
  <2> QED
    BY <2>1, <2>3 DEF c, M
<1> QED
  BY <1>6, <1>7

LEMMA AddRowIsRight ==
  ASSUME StmtInv, RecordsInv, n < Len(records), ~CellOutOfRange(records[n + 1]), DataRight(data, n),
         NEW d,
         d = [k \in DOMAIN data \cup {Key(n + 1)} |->
                IF k = Key(n + 1) THEN RowAfter(n + 1) ELSE data[k]]
  PROVE  DataRight(d, n + 1)
<1>1. n \in Nat
  BY DEF RecordsInv
<1>2. DOMAIN d = DOMAIN data \cup {Key(n + 1)}
  OBVIOUS
<1>3. DOMAIN d = {Key(j) : j \in 1..(n + 1)}
  <2>1. DOMAIN data = {Key(j) : j \in 1..n}
    BY DEF DataRight
  <2>2. 1..(n + 1) = 1..n \cup {n + 1}
    BY <1>1
  <2> QED
    BY <1>2, <2>1, <2>2
<1>4. IsFiniteSet(DOMAIN d) /\ Cardinality(DOMAIN d) <= n + 1
  <2>1. IsFiniteSet(DOMAIN data) /\ Cardinality(DOMAIN data) <= n
    BY DEF DataRight
  <2>2. Cardinality(DOMAIN data) \in Nat
    BY <2>1, FS_CardinalityType
  <2>3. /\ IsFiniteSet(DOMAIN data \cup {Key(n + 1)})
        /\ Cardinality(DOMAIN data \cup {Key(n + 1)}) =
             IF Key(n + 1) \in DOMAIN data THEN Cardinality(DOMAIN data) ELSE Cardinality(DOMAIN data) + 1
    BY <2>1, FS_AddElement
  <2> QED
    BY <1>1, <1>2, <2>1, <2>2, <2>3
<1>5. ASSUME NEW k \in DOMAIN d, NEW i \in DOMAIN stmt.fields
      PROVE  IsCell(d[k][i]) /\ RightCell(d[k][i], i, MembersTo(k, n + 1))
  <2>1. CASE k = Key(n + 1)
    <3>1. d[k] = RowAfter(n + 1)
      BY <1>2, <2>1
    <3>2. MembersTo(k, n + 1) = MembersTo(Key(n + 1), n) \cup {n + 1}
      BY <1>1, <2>1 DEF MembersTo
    <3> QED
      BY <3>1, <3>2, RowAfterIsRight
  <2>2. CASE k # Key(n + 1)
    <3>1. k \in DOMAIN data /\ d[k] = data[k]
      BY <1>2, <2>2
    <3>2. MembersTo(k, n + 1) = MembersTo(k, n)
      BY <1>1, <2>2 DEF MembersTo
    <3> QED
      BY <3>1, <3>2 DEF DataRight
  <2> QED
    BY <2>1, <2>2
<1> QED
  BY <1>3, <1>4, <1>5 DEF DataRight

(* Before the first record there is no group, whatever the statement is.     *)
LEMMA NoData ==
  ASSUME NEW d, DOMAIN d = {}
  PROVE  DataRight(d, 0)
<1>1. {Key(j) : j \in 1..0} = {}
  OBVIOUS
<1>2. IsFiniteSet({}) /\ Cardinality({}) = 0
  BY FS_EmptySet
<1> QED
  BY <1>1, <1>2 DEF DataRight

LEMMA DataInit == Init => DataInv
<1> SUFFICES ASSUME Init PROVE DataInv
  OBVIOUS
<1>1. DOMAIN data = {} /\ n = 0
  BY DEF Init
<1> QED
  BY <1>1, NoData DEF DataInv

LEMMA DataStep == StmtInv /\ RecordsInv /\ DataInv /\ [Next]_vars => DataInv'
<1> SUFFICES ASSUME StmtInv, RecordsInv, DataInv, [Next]_vars PROVE DataInv'
  OBVIOUS
<1>1. ASSUME UNCHANGED <<data, n>>, pc = "parsed" \/ pc = "fetch"
      PROVE  DataInv'
  <2>1. n = 0
    BY <1>1 DEF RecordsInv
  <2>2. DOMAIN data = {}
    BY <2>1 DEF DataInv, DataRight
  <2>3. DOMAIN data' = {} /\ n' = 0
    BY <1>1, <2>1, <2>2
  <2>4. {Key(j)' : j \in 1..0} = {} /\ IsFiniteSet({}) /\ Cardinality({}) = 0
    BY FS_EmptySet
  <2> QED
    BY <2>3, <2>4 DEF DataInv, DataRight
<1>2. ASSUME UNCHANGED <<stmt, records>>, NEW d, NEW m, d = data', m = n', DataRight(d, m)
      PROVE  DataInv'
  <2>1. ASSUME NEW j
        PROVE  Key(j)' = Key(j)
    BY <1>2 DEF Key, UseAggregate, DistinctList, Enumerated
  <2>2. {Key(j)' : j \in 1..n'} = {Key(j) : j \in 1..m}
    BY <1>2, <2>1
  <2>3. DOMAIN data' = {Key(j)' : j \in 1..n'} /\ IsFiniteSet(DOMAIN data') /\ Cardinality(DOMAIN data') <= n'
    BY <1>2, <2>2 DEF DataRight
  <2>4. ASSUME NEW k \in DOMAIN data', NEW i \in DOMAIN stmt'.fields
        PROVE  (IsCell(data[k][i]) /\ RightCell(data[k][i], i, MembersTo(k, n)))'
    <3>1. MembersTo(k, n)' = MembersTo(k, m)
      BY <1>2, <2>1 DEF MembersTo
    <3>2. IsCell(d[k][i]) /\ RightCell(d[k][i], i, MembersTo(k, m))
      BY <1>2, <2>4 DEF DataRight
    <3>3. (IsCell(data[k][i]))'
      BY <1>2, <3>2 DEF IsCell
    <3>4. (RightCell(data[k][i], i, MembersTo(k, n)))'
      <4> DEFINE S == MembersTo(k, m)
      <4>1. /\ \A j : Number(i, records[j][i])' = Number(i, records[j][i])
            /\ stmt'.fields[i].fn = stmt.fields[i].fn
        BY <1>2 DEF Number
      <4>2. GivenOf(i, MembersTo(k, n))' = GivenOf(i, S)
        BY <3>1, <1>2 DEF GivenOf, Valid
      <4> HIDE DEF S
      <4> QED
        BY <1>2, <3>1, <3>2, <4>1, <4>2, Zenon DEF RightCell, S
    <3> QED
      BY <3>3, <3>4
  <2> QED
    BY <2>3, <2>4 DEF DataInv, DataRight
<1>3. ASSUME UNCHANGED <<stmt, records, data, n>>
      PROVE  DataInv'
  BY <1>2, <1>3 DEF DataInv
<1>4. CASE EmbellishTable
  BY <1>1, <1>4 DEF EmbellishTable
<1>5. CASE EmbellishView
  BY <1>1, <1>5 DEF EmbellishView
<1>6. CASE Fetch
  BY <1>1, <1>6 DEF Fetch
<1>7. CASE AddRow
  <2>1. CASE UNCHANGED <<n, data>>
    BY <1>3, <1>7, <2>1 DEF AddRow
  <2>2. CASE ~UNCHANGED <<n, data>>
    <3>1. /\ UNCHANGED <<stmt, records>> /\ n < Len(records) /\ ~CellOutOfRange(records[n + 1]) /\ n' = n + 1
          /\ data' = [k \in DOMAIN data \cup {Key(n + 1)} |->
                        IF k = Key(n + 1) THEN RowAfter(n + 1) ELSE data[k]]
      BY <1>7, <2>2 DEF AddRow
    <3>2. DataRight([k \in DOMAIN data \cup {Key(n + 1)} |->
                       IF k = Key(n + 1) THEN RowAfter(n + 1) ELSE data[k]], n + 1)
      BY <3>1, AddRowIsRight DEF DataInv
    <3> QED
      BY <1>2, <3>1, <3>2
  <2> QED
    BY <2>1, <2>2
<1>8. CASE Collect
  BY <1>3, <1>8 DEF Collect
<1>9. CASE Sort
  BY <1>3, <1>9 DEF Sort
<1>10. CASE Limit
  BY <1>3, <1>10 DEF Limit
<1>11. CASE NextRow
  BY <1>3, <1>11 DEF NextRow
<1>12. CASE NoColumns
  BY <1>3, <1>12 DEF NoColumns
<1>13. CASE UNCHANGED vars
  BY <1>3, <1>13 DEF vars
<1> QED
  BY <1>4, <1>5, <1>6, <1>7, <1>8, <1>9, <1>10, <1>11, <1>12, <1>13 DEF Next

----------------------------------------------------------------------------
(* The result set. *)

(* s lists the groups, each of them once. *)
Lists(s) ==
  /\ s \in [1..Cardinality(DOMAIN data) -> DOMAIN data]
  /\ \A i, j \in DOMAIN s : s[i] = s[j] => i = j

LEMMA ListsIs ==
  ASSUME DataInv, NEW s, Lists(s)
  PROVE  /\ s \in Seq(DOMAIN data) /\ Len(s) = Cardinality(DOMAIN data)
         /\ Len(s) \in Nat /\ Len(s) <= n /\ DOMAIN s = 1..Len(s)
         /\ {s[i] : i \in DOMAIN s} = DOMAIN data
<1> DEFINE c == Cardinality(DOMAIN data)
<1>1. IsFiniteSet(DOMAIN data) /\ c \in Nat /\ c <= n
  BY FS_CardinalityType DEF DataInv, DataRight
<1>2. s \in [1..c -> DOMAIN data] /\ \A i, j \in DOMAIN s : s[i] = s[j] => i = j
  BY DEF Lists
<1> HIDE DEF c
<1>3. s \in Seq(DOMAIN data) /\ Len(s) = c /\ DOMAIN s = 1..c
  BY <1>1, <1>2
<1>4. s \in Surjection(1..c, DOMAIN data)
  <2>1. s \in Injection(1..c, DOMAIN data)
    BY <1>2, <1>3 DEF Injection, IsInjective
  <2>2. Cardinality(1..c) = c
    <3>1. 1 \in Int /\ c \in Int
      BY <1>1
    <3>2. Cardinality(1..c) = IF 1 > c THEN 0 ELSE c - 1 + 1
      BY <3>1, FS_Interval, Zenon
    <3> QED
      BY <3>2, <1>1
  <2> QED
    BY <1>1, <2>1, <2>2, FS_Injection DEF c
<1>5. \A k \in DOMAIN data : \E i \in 1..c : s[i] = k
  BY <1>4 DEF Surjection
<1>6. {s[i] : i \in DOMAIN s} = DOMAIN data
  <2>1. \A i \in DOMAIN s : s[i] \in DOMAIN data
    BY <1>2
  <2>2. \A k \in DOMAIN data : \E i \in DOMAIN s : k = s[i]
    BY <1>3, <1>5
  <2> QED
    BY <2>1, <2>2, Zenon
<1> QED
  BY <1>1, <1>3, <1>6 DEF c

(* What is sorted is a list of the groups too. *)
LEMMA PermutedLists ==
  ASSUME DataInv, Lists(out), NEW t \in [DOMAIN out -> DOMAIN data], Permuted(out, t)
  PROVE  Lists(t)
<1>1. PICK f \in [DOMAIN out -> DOMAIN out] :
        /\ \A i, j \in DOMAIN out : f[i] = f[j] => i = j
        /\ t = [i \in DOMAIN out |-> out[f[i]]]
  BY DEF Permuted
<1>2. /\ DOMAIN out = 1..Cardinality(DOMAIN data)
      /\ \A i, j \in DOMAIN out : out[i] = out[j] => i = j
  BY DEF Lists
<1>3. t \in [1..Cardinality(DOMAIN data) -> DOMAIN data]
  BY <1>2
<1>4. ASSUME NEW i \in DOMAIN t, NEW j \in DOMAIN t, t[i] = t[j]
      PROVE  i = j
  <2>1. i \in DOMAIN out /\ j \in DOMAIN out /\ f[i] \in DOMAIN out /\ f[j] \in DOMAIN out
    BY <1>1
  <2>2. out[f[i]] = out[f[j]]
    BY <1>1, <1>4, <2>1
  <2> QED
    BY <1>1, <1>2, <2>1, <2>2
<1> QED
  BY <1>3, <1>4 DEF Lists

OutInv ==
  /\ pc \in {"sort", "limit", "read", "done"} => Lists(out)
  /\ pc \in {"sort", "limit", "read"} => DOMAIN data # {}

LEMMA OutInit == Init => OutInv
BY DEF Init, OutInv

LEMMA OutStep == DataInv /\ OutInv /\ [Next]_vars => OutInv'
<1> SUFFICES ASSUME DataInv, OutInv, [Next]_vars PROVE OutInv'
  OBVIOUS
<1>1. ASSUME pc' \notin {"sort", "limit", "read", "done"}
      PROVE  OutInv'
  BY <1>1 DEF OutInv
<1>2. ASSUME UNCHANGED <<data, out>>, pc \in {"sort", "limit", "read"}
      PROVE  OutInv'
  BY <1>2 DEF OutInv, Lists
<1>3. CASE EmbellishTable
  <2>1. pc' \in {"refused", "fetch"}
    BY <1>3 DEF EmbellishTable
  <2> QED
    BY <1>1, <2>1
<1>4. CASE EmbellishView
  <2>1. pc' \in {"refused", "fetch"}
    BY <1>4 DEF EmbellishView
  <2> QED
    BY <1>1, <2>1
<1>5. CASE Fetch
  <2>1. pc' \in {"rows", "error"}
    BY <1>5 DEF Fetch
  <2> QED
    BY <1>1, <2>1
<1>6. CASE AddRow
  <2>1. pc' \in {"rows", "error", "panic"}
    BY <1>6 DEF AddRow
  <2> QED
    BY <1>1, <2>1
<1>7. CASE Collect
  <2>1. /\ UNCHANGED data /\ Lists(out') /\ pc' \in {"done", "sort"}
        /\ pc' = "sort" => DOMAIN data # {}
    BY <1>7 DEF Collect, Lists
  <2> QED
    BY <2>1 DEF OutInv, Lists
<1>8. CASE Sort
  <2>1. CASE UNCHANGED out
    BY <1>2, <1>8, <2>1 DEF Sort
  <2>2. CASE ~UNCHANGED out
    <3>1. /\ UNCHANGED data /\ pc = "sort" /\ pc' = "limit"
          /\ out' \in [DOMAIN out -> DOMAIN data] /\ SortedBy(out, out')
      BY <1>8, <2>2 DEF Sort
    <3>2. Lists(out) /\ DOMAIN data # {}
      BY <3>1 DEF OutInv
    <3>3. Permuted(out, out')
      BY <3>1 DEF SortedBy
    <3>4. Lists(out')
      BY <3>1, <3>2, <3>3, PermutedLists
    <3> QED
      BY <3>1, <3>2, <3>4 DEF OutInv, Lists
  <2> QED
    BY <2>1, <2>2
<1>9. CASE Limit
  BY <1>2, <1>9 DEF Limit
<1>10. CASE NextRow
  BY <1>2, <1>10 DEF NextRow
<1>11. CASE NoColumns
  BY <1>2, <1>11 DEF NoColumns
<1>12. CASE UNCHANGED vars
  BY <1>12 DEF vars, OutInv, Lists
<1> QED
  BY <1>3, <1>4, <1>5, <1>6, <1>7, <1>8, <1>9, <1>10, <1>11, <1>12 DEF Next

(* Once sorted, the result set stays so. *)
InLess == \A i, j \in DOMAIN out : i < j /\ Less(out[j], out[i]) => Less(out[i], out[j])
SortInv == pc \in {"limit", "read", "done"} => ~OrderOutOfRange /\ InLess

LEMMA LessStays ==
  ASSUME UNCHANGED <<stmt, data>>, NEW p, NEW q
  PROVE  /\ Less(p, q)' <=> Less(p, q)
         /\ \A k : Ties(k, p, q)' <=> Ties(k, p, q)
<1>1. \A k : LessAt(k, p, q)' <=> LessAt(k, p, q)
  BY DEF LessAt, IsTime
<1>2. \A k : LessAt(k, q, p)' <=> LessAt(k, q, p)
  BY DEF LessAt, IsTime
<1>3. \A k : Ties(k, p, q)' <=> Ties(k, p, q)
  BY <1>1, <1>2, Zenon DEF Ties
<1> QED
  BY <1>1, <1>3, Zenon DEF Less

LEMMA SortInit == Init => SortInv
BY DEF Init, SortInv

LEMMA SortStep == DataInv /\ OutInv /\ SortInv /\ [Next]_vars => SortInv'
<1> SUFFICES ASSUME DataInv, OutInv, SortInv, [Next]_vars PROVE SortInv'
  OBVIOUS
<1>1. ASSUME pc' \notin {"limit", "read", "done"}
      PROVE  SortInv'
  BY <1>1 DEF SortInv
<1>2. ASSUME UNCHANGED <<stmt, data, out>>, ~OrderOutOfRange, InLess
      PROVE  SortInv'
  <2>1. \A p, q : /\ Less(p, q)' <=> Less(p, q)
                  /\ \A k : Ties(k, p, q)' <=> Ties(k, p, q)
    BY <1>2, LessStays
  <2>2. (~OrderOutOfRange)'
    BY <1>2, <2>1 DEF OrderOutOfRange
  <2>3. InLess'
    BY <1>2, <2>1 DEF InLess
  <2> QED
    BY <2>2, <2>3 DEF SortInv
<1>3. CASE EmbellishTable
  <2>1. pc' \in {"refused", "fetch"}
    BY <1>3 DEF EmbellishTable
  <2> QED
    BY <1>1, <2>1
<1>4. CASE EmbellishView
  <2>1. pc' \in {"refused", "fetch"}
    BY <1>4 DEF EmbellishView
  <2> QED
    BY <1>1, <2>1
<1>5. CASE Fetch
  <2>1. pc' \in {"rows", "error"}
    BY <1>5 DEF Fetch
  <2> QED
    BY <1>1, <2>1
<1>6. CASE AddRow
  <2>1. pc' \in {"rows", "error", "panic"}
    BY <1>6 DEF AddRow
  <2> QED
    BY <1>1, <2>1
<1>7. CASE Collect
  <2>1. CASE DOMAIN data = {}
    <3>1. DOMAIN out' = {}
      BY <1>7, <2>1 DEF Collect
    <3> QED
      BY <3>1 DEF SortInv, OrderOutOfRange, InLess
  <2>2. CASE DOMAIN data # {}
    <3>1. pc' = "sort"
      BY <1>7, <2>2 DEF Collect
    <3> QED
      BY <1>1, <3>1
  <2> QED
    BY <2>1, <2>2
<1>8. CASE Sort
  <2>1. CASE stmt.order = <<>>
    <3>1. UNCHANGED <<stmt, data, out>> /\ DOMAIN stmt.order = {}
      BY <1>8, <2>1 DEF Sort
    <3>2. ~OrderOutOfRange /\ InLess
      BY <3>1 DEF OrderOutOfRange, InLess, Less
    <3> QED
      BY <1>2, <3>1, <3>2
  <2>2. CASE stmt.order # <<>> /\ OrderOutOfRange
    <3>1. pc' = "panic"
      BY <1>8, <2>2 DEF Sort
    <3> QED
      BY <1>1, <3>1
  <2>3. CASE stmt.order # <<>> /\ ~OrderOutOfRange
    <3>1. /\ UNCHANGED <<stmt, data>> /\ pc = "sort"
          /\ out' \in [DOMAIN out -> DOMAIN data] /\ SortedBy(out, out')
      BY <1>8, <2>3 DEF Sort
    <3>2. \A p, q : /\ Less(p, q)' <=> Less(p, q)
                    /\ \A k : Ties(k, p, q)' <=> Ties(k, p, q)
      BY <3>1, LessStays
    <3>3. InLess'
      BY <3>1, <3>2 DEF SortedBy, InLess
    <3>4. PICK f \in [DOMAIN out -> DOMAIN out] :
            /\ \A i, j \in DOMAIN out : f[i] = f[j] => i = j
            /\ out' = [i \in DOMAIN out |-> out[f[i]]]
      BY <3>1 DEF SortedBy, Permuted
    <3>5. ASSUME OrderOutOfRange'
          PROVE  FALSE
      <4>1. PICK k \in DOMAIN stmt.order :
              /\ stmt.order[k].pos > Len(stmt.fields)
              /\ \A j \in 1..(k - 1) : stmt.order[j].pos <= Len(stmt.fields)
              /\ \E i, j \in DOMAIN out' : i # j /\ \A m \in 1..(k - 1) : Ties(m, out'[i], out'[j])
        BY <3>1, <3>2, <3>5 DEF OrderOutOfRange
      <4>2. PICK i, j \in DOMAIN out' : i # j /\ \A m \in 1..(k - 1) : Ties(m, out'[i], out'[j])
        BY <4>1
      <4>3. /\ f[i] \in DOMAIN out /\ f[j] \in DOMAIN out /\ f[i] # f[j]
            /\ out'[i] = out[f[i]] /\ out'[j] = out[f[j]]
        BY <3>4, <4>2
      <4> QED
        BY <2>3, <4>1, <4>2, <4>3 DEF OrderOutOfRange
    <3> QED
      BY <3>3, <3>5 DEF SortInv
  <2> QED
    BY <2>1, <2>2, <2>3
<1>9. CASE Limit
  BY <1>2, <1>9 DEF Limit, SortInv
<1>10. CASE NextRow
  BY <1>2, <1>10 DEF NextRow, SortInv
<1>11. CASE NoColumns
  BY <1>2, <1>11 DEF NoColumns, SortInv
<1>12. CASE UNCHANGED vars
  <2>1. UNCHANGED <<stmt, data, out>> /\ pc' = pc
    BY <1>12 DEF vars
  <2> QED
    BY <1>1, <1>2, <2>1 DEF SortInv
<1> QED
  BY <1>3, <1>4, <1>5, <1>6, <1>7, <1>8, <1>9, <1>10, <1>11, <1>12 DEF Next

----------------------------------------------------------------------------
(* The window. *)

LEMMA WrapIs ==
  ASSUME NEW x \in Nat, x <= 2 * MaxInt
  PROVE  /\ Wrap(x) \in Int
         /\ x <= MaxInt => Wrap(x) = x
         /\ x > MaxInt => Wrap(x) < 0
BY BoundAssumption DEF Wrap

Start == IF stmt.limited THEN stmt.offset ELSE 0
End   == IF stmt.limited /\ ~(Wrap(stmt.count + stmt.offset) > Len(out))
           THEN Wrap(stmt.count + stmt.offset) ELSE Len(out)
WindowInv ==
  /\ pc \notin {"read", "done", "panic"} => shown = <<>> /\ pos = 0
  /\ pc \in {"sort", "limit"} => size = Len(out)
  /\ shown \in Seq(DOMAIN data)
  /\ shown # <<>> => Start + Len(shown) <= Len(out)
  /\ \A m \in 1..Len(shown) : shown[m] = out[Start + m]
  /\ stmt.limited => Len(shown) <= stmt.count
  /\ pc = "read" \/ (pc = "done" /\ out # <<>>) =>
       /\ pos = Start + Len(shown) /\ size = End
       /\ Start <= size => pos <= size
       /\ size = 0 => shown = <<>>
  /\ pc = "done" /\ out # <<>> => size = 0 \/ pos = size
  /\ out = <<>> => shown = <<>>

LEMMA WindowInit == Init => WindowInv
<1> SUFFICES ASSUME Init PROVE WindowInv
  OBVIOUS
<1>1. /\ pc = "parsed" /\ shown = <<>> /\ pos = 0
      /\ <<>> \in Seq(DOMAIN data) /\ Len(<<>>) = 0
  BY DEF Init
<1>2. stmt.limited => 0 <= stmt.count
  BY StmtInit, StmtIs DEF StmtInv
<1> QED
  BY <1>1, <1>2 DEF WindowInv

(* Where the window begins and ends. *)
LEMMA WindowIs ==
  ASSUME StmtInv, DataInv, Lists(out)
  PROVE  /\ stmt.offset \in 0..MaxInt /\ stmt.count \in 0..MaxInt /\ Start \in Nat /\ Start <= MaxInt
         /\ End \in Int /\ End <= Len(out) /\ Len(out) \in Nat
         /\ Start <= End => Start <= Len(out)
         /\ ~stmt.limited => Start = 0 /\ End = Len(out)
         /\ stmt.limited /\ stmt.offset + stmt.count <= MaxInt =>
              End = IF stmt.offset + stmt.count > Len(out) THEN Len(out) ELSE stmt.offset + stmt.count
         /\ stmt.limited /\ stmt.offset + stmt.count > MaxInt => End < 0
<1>1. stmt.offset \in 0..MaxInt /\ stmt.count \in 0..MaxInt /\ MaxInt \in Nat
  BY StmtIs, BoundAssumption DEF StmtInv
<1>2. Len(out) \in Nat
  BY ListsIs
<1> DEFINE x == stmt.count + stmt.offset
<1>3. x \in Nat /\ x <= 2 * MaxInt /\ stmt.offset + stmt.count = x
  BY <1>1
<1>4. Wrap(x) \in Int /\ (x <= MaxInt => Wrap(x) = x) /\ (x > MaxInt => Wrap(x) < 0)
  BY <1>3, WrapIs
<1>5. Start \in Nat /\ Start <= MaxInt /\ (~stmt.limited => Start = 0) /\ (stmt.limited => Start = stmt.offset)
  BY <1>1 DEF Start
<1> DEFINE w == Wrap(x)
<1>6. End = IF stmt.limited /\ ~(w > Len(out)) THEN w ELSE Len(out)
  BY DEF End
<1> HIDE DEF w
<1>7. End \in Int /\ End <= Len(out) /\ (~stmt.limited => End = Len(out))
  BY <1>2, <1>4, <1>6 DEF w
<1>8. stmt.limited /\ x <= MaxInt => End = IF x > Len(out) THEN Len(out) ELSE x
  BY <1>2, <1>3, <1>4, <1>6 DEF w
<1>9. stmt.limited /\ x > MaxInt => End < 0
  BY <1>2, <1>3, <1>4, <1>6 DEF w
<1> HIDE DEF x
<1>10. Start <= End => Start <= Len(out)
  BY <1>2, <1>5, <1>7
<1> QED
  BY <1>1, <1>2, <1>3, <1>5, <1>7, <1>8, <1>9, <1>10

LEMMA NextRowWindow ==
  ASSUME StmtInv, RecordsInv, DataInv, OutInv, WindowInv, NextRow, shown' # shown
  PROVE  WindowInv'
<1>1. /\ pc = "read" /\ pc' = "read" /\ size # 0 /\ pos # size /\ ~(pos >= Len(out))
      /\ shown' = Append(shown, out[pos + 1]) /\ pos' = pos + 1
      /\ UNCHANGED <<stmt, data, out, size>>
  BY DEF NextRow
<1>2. /\ pos = Start + Len(shown) /\ size = End /\ (Start <= size => pos <= size)
      /\ shown \in Seq(DOMAIN data) /\ \A m \in 1..Len(shown) : shown[m] = out[Start + m]
      /\ stmt.limited => Len(shown) <= stmt.count
  BY <1>1 DEF WindowInv
<1>3. Lists(out)
  BY <1>1 DEF OutInv
<1> DEFINE l == Len(shown)
<1>4. l \in Nat /\ Start \in Nat /\ Len(out) \in Nat /\ End \in Int /\ pos \in Nat /\ Start <= MaxInt
  BY <1>2, <1>3, WindowIs
<1>5. pos + 1 \in 1..Len(out) /\ out[pos + 1] \in DOMAIN data
  <2>1. pos + 1 \in 1..Len(out)
    BY <1>1, <1>4
  <2>2. DOMAIN out = 1..Len(out)
    BY <1>3, ListsIs
  <2> QED
    BY <2>1, <2>2, <1>3 DEF Lists
<1>6. /\ shown' \in Seq(DOMAIN data) /\ Len(shown') = l + 1 /\ shown' # <<>>
      /\ \A m \in 1..l : shown'[m] = shown[m]
      /\ shown'[l + 1] = out[pos + 1]
  BY <1>1, <1>2, <1>5, AppendProperties
<1>7. ASSUME NEW m \in 1..(l + 1)
      PROVE  shown'[m] = out[Start + m]
  <2>1. CASE m = l + 1
    <3>1. Start + m = pos + 1
      BY <1>2, <1>4, <2>1
    <3> QED
      BY <1>6, <2>1, <3>1
  <2>2. CASE m # l + 1
    BY <1>2, <1>4, <1>6, <2>2
  <2> QED
    BY <2>1, <2>2
<1>8. Start + (l + 1) <= Len(out) /\ pos + 1 = Start + (l + 1)
  BY <1>2, <1>4, <1>5
<1>9. stmt.limited => l + 1 <= stmt.count
  <2> SUFFICES ASSUME stmt.limited PROVE l + 1 <= stmt.count
    OBVIOUS
  <2>1. stmt.offset \in 0..MaxInt /\ stmt.count \in 0..MaxInt /\ Start = stmt.offset
    BY <1>3, WindowIs DEF Start
  <2>2. CASE stmt.offset + stmt.count <= MaxInt
    <3>1. End = IF stmt.offset + stmt.count > Len(out) THEN Len(out) ELSE stmt.offset + stmt.count
      BY <1>3, <2>2, WindowIs
    <3>2. CASE Start <= End
      <4>1. pos < End
        BY <1>1, <1>2, <1>4, <3>2
      <4>2. End <= stmt.offset + stmt.count
        BY <1>4, <2>1, <2>2, <3>1
      <4> HIDE DEF l
      <4>3. pos = Start + l
        BY <1>2 DEF l
      <4> QED
        BY <1>4, <2>1, <4>1, <4>2, <4>3, BoundAssumption
    <3>3. CASE ~(Start <= End)
      BY <1>1, <1>2, <1>4, <2>1, <3>1, <3>3
    <3> QED
      BY <3>2, <3>3
  <2>3. CASE stmt.offset + stmt.count > MaxInt
    <3>1. Len(out) <= n
      BY <1>3, ListsIs
    <3>2. n <= Len(records) /\ Len(records) <= MaxInt /\ n \in Nat /\ Len(records) \in Nat
      BY LenProperties DEF RecordsInv
    <3>3. Len(out) <= MaxInt /\ MaxInt \in Nat
      BY <1>4, <3>1, <3>2, BoundAssumption
    <3> HIDE DEF l
    <3> QED
      BY <1>4, <1>8, <2>1, <2>3, <3>3
  <2> QED
    BY <2>1, <2>2, <2>3, BoundAssumption
<1>10. Start <= size => pos + 1 <= size
  BY <1>1, <1>2, <1>4
<1>11. out # <<>>
  BY <1>5
<1>12. Start' = Start /\ End' = End
  BY <1>1 DEF Start, End
<1>13. (\A m \in 1..Len(shown) : shown[m] = out[Start + m])'
  BY <1>1, <1>6, <1>7, <1>12
<1>14. /\ pos' = Start' + Len(shown') /\ size' = End' /\ (Start' <= size' => pos' <= size')
       /\ size' # 0 /\ Start' + Len(shown') <= Len(out') /\ (stmt'.limited => Len(shown') <= stmt'.count)
  BY <1>1, <1>2, <1>6, <1>8, <1>9, <1>10, <1>12
<1> QED
  BY <1>1, <1>6, <1>11, <1>13, <1>14 DEF WindowInv

LEMMA WindowStep ==
  StmtInv /\ StmtInv' /\ RecordsInv /\ DataInv /\ OutInv /\ WindowInv /\ [Next]_vars => WindowInv'
<1> SUFFICES ASSUME StmtInv, StmtInv', RecordsInv, DataInv, OutInv, WindowInv, [Next]_vars PROVE WindowInv'
  OBVIOUS
<1>1. ASSUME UNCHANGED <<pos, shown>>, pc \notin {"read", "done", "panic"},
             pc' \in {"sort", "limit"} => size' = Len(out'),
             pc' # "read", pc' = "done" => out' = <<>>
      PROVE  WindowInv'
  <2>1. shown' = <<>> /\ pos' = 0
    BY <1>1 DEF WindowInv
  <2>2. <<>> \in Seq(DOMAIN data') /\ Len(<<>>) = 0
    OBVIOUS
  <2>3. stmt'.limited => 0 <= stmt'.count
    <3>1. stmt' \in Stmts
      BY DEF StmtInv
    <3>2. stmt'.count \in 0..MaxInt
      BY <3>1, StmtIs
    <3> QED
      BY <3>2
  <2> QED
    BY <1>1, <2>1, <2>2, <2>3 DEF WindowInv
<1>2. ASSUME UNCHANGED <<stmt, data, out, size, pos, shown>>, pc = "read",
             pc' = "panic" \/ (pc' = "done" /\ (size = 0 \/ pos = size))
      PROVE  WindowInv'
  BY <1>2 DEF WindowInv, Start, End
<1>3. CASE EmbellishTable
  <2>1. pc' \in {"refused", "fetch"} /\ UNCHANGED <<pos, shown>> /\ pc = "parsed"
    BY <1>3 DEF EmbellishTable
  <2> QED
    BY <1>1, <2>1
<1>4. CASE EmbellishView
  <2>1. pc' \in {"refused", "fetch"} /\ UNCHANGED <<pos, shown>> /\ pc = "parsed"
    BY <1>4 DEF EmbellishView
  <2> QED
    BY <1>1, <2>1
<1>5. CASE Fetch
  <2>1. pc' \in {"rows", "error"} /\ UNCHANGED <<pos, shown>> /\ pc = "fetch"
    BY <1>5 DEF Fetch
  <2> QED
    BY <1>1, <2>1
<1>6. CASE AddRow
  <2>1. pc' \in {"rows", "error", "panic"} /\ UNCHANGED <<pos, shown>> /\ pc = "rows"
    BY <1>6 DEF AddRow
  <2> QED
    BY <1>1, <2>1
<1>7. CASE Collect
  <2>1. UNCHANGED <<pos, shown>> /\ pc = "rows" /\ size' = Len(out') /\ pc' \in {"done", "sort"}
    BY <1>7 DEF Collect
  <2>2. pc' = "done" => out' = <<>>
    <3> SUFFICES ASSUME pc' = "done" PROVE out' = <<>>
      OBVIOUS
    <3>1. DOMAIN data = {} /\ out' \in [1..Cardinality(DOMAIN data) -> DOMAIN data]
      BY <1>7 DEF Collect
    <3>2. Cardinality(DOMAIN data) = 0
      BY <3>1, FS_EmptySet
    <3> QED
      BY <3>1, <3>2
  <2> QED
    BY <1>1, <2>1, <2>2
<1>8. CASE Sort
  <2>1. UNCHANGED <<pos, shown, size>> /\ pc = "sort" /\ pc' \in {"limit", "panic"} /\ size = Len(out)
    BY <1>8 DEF Sort, WindowInv
  <2>2. Len(out') = Len(out)
    <3>1. CASE UNCHANGED out
      BY <3>1
    <3>2. CASE ~UNCHANGED out
      <4>1. out' \in [DOMAIN out -> DOMAIN data]
        BY <1>8, <3>2 DEF Sort
      <4>2. DOMAIN out = 1..Len(out) /\ Len(out) \in Nat
        BY <2>1, ListsIs DEF OutInv
      <4> QED
        BY <4>1, <4>2
    <3> QED
      BY <3>1, <3>2
  <2> QED
    BY <1>1, <2>1, <2>2
<1>9. CASE Limit
  <2>1. /\ UNCHANGED <<stmt, data, out, shown>> /\ pc = "limit" /\ pc' = "read"
        /\ shown = <<>> /\ pos = 0 /\ size = Len(out)
    BY <1>9 DEF Limit, WindowInv
  <2>2. pos' = Start /\ size' = End
    BY <1>9, <2>1 DEF Limit, Start, End
  <2>3. Start' = Start /\ End' = End
    BY <2>1 DEF Start, End
  <2>4. Start \in Nat /\ (stmt.limited => 0 <= stmt.count)
    <3>1. Lists(out)
      BY <2>1 DEF OutInv
    <3> QED
      BY <3>1, WindowIs
  <2>5. Len(shown') = 0 /\ shown' = <<>> /\ <<>> \in Seq(DOMAIN data')
    BY <2>1
  <2> QED
    BY <2>1, <2>2, <2>3, <2>4, <2>5 DEF WindowInv
<1>10. CASE NextRow
  <2>1. CASE shown' = shown
    <3>1. shown # Append(shown, out[pos + 1])
      <4>1. shown \in Seq(DOMAIN data) /\ Len(shown) \in Nat
        BY DEF WindowInv
      <4>2. Len(Append(shown, out[pos + 1])) = Len(shown) + 1
        BY <4>1
      <4> QED
        BY <4>1, <4>2
    <3>2. /\ UNCHANGED <<stmt, data, out, size, pos, shown>> /\ pc = "read"
          /\ pc' = "panic" \/ (pc' = "done" /\ pos = size)
      BY <1>10, <2>1, <3>1 DEF NextRow
    <3> QED
      BY <1>2, <3>2
  <2>2. CASE shown' # shown
    BY <1>10, <2>2, NextRowWindow
  <2> QED
    BY <2>1, <2>2
<1>11. CASE NoColumns
  BY <1>2, <1>11 DEF NoColumns
<1>12. CASE UNCHANGED vars
  BY <1>12 DEF vars, WindowInv, Start, End
<1> QED
  BY <1>3, <1>4, <1>5, <1>6, <1>7, <1>8, <1>9, <1>10, <1>11, <1>12 DEF Next

----------------------------------------------------------------------------
(* Why it may panic. *)

Explained ==
  \/ stmt.limited /\ out # <<>>
     /\ (stmt.offset > Len(out) \/ stmt.offset + stmt.count > MaxInt)
  \/ \E k \in DOMAIN stmt.group : stmt.group[k].pos > Len(FieldsKept(stmt.fields))
  \/ \E k \in DOMAIN stmt.order : stmt.order[k].pos > Len(stmt.fields)
  \/ view # NoView /\ Len(stmt.fields) > Len(FieldsKept(stmt.fields))

LEMMA PanicInit == Init => PanicIsExplained
BY DEF Init, PanicIsExplained

LEMMA PanicStep ==
  StmtInv /\ RecordsInv /\ DataInv /\ OutInv /\ WindowInv /\ PanicIsExplained /\ [Next]_vars => PanicIsExplained'
<1> SUFFICES ASSUME StmtInv, RecordsInv, DataInv, OutInv, WindowInv, PanicIsExplained, [Next]_vars
             PROVE  PanicIsExplained'
  OBVIOUS
<1>1. ASSUME pc' # "panic"
      PROVE  PanicIsExplained'
  BY <1>1 DEF PanicIsExplained
<1>2. ASSUME UNCHANGED <<stmt, view, out>>, Explained
      PROVE  PanicIsExplained'
  BY <1>2 DEF PanicIsExplained, Explained
<1>3. CASE AddRow
  <2>1. CASE pc' = "panic"
    <3> DEFINE r == records[n + 1]
    <3>1. /\ UNCHANGED <<stmt, view, out>> /\ pc = "rows" /\ n < Len(records)
          /\ GroupOutOfRange(r) \/ CellOutOfRange(r)
      BY <1>3, <2>1 DEF AddRow
    <3>2. Len(r) = Width /\ Width \in Nat
      <4>1. n + 1 \in 1..Len(records)
        BY <3>1 DEF RecordsInv
      <4>2. r \in [1..Width -> Cell]
        BY <4>1, ElementOfSeq DEF RecordsInv
      <4>3. Width \in Nat
        BY StmtIs, FieldsKeptIs DEF StmtInv, Width
      <4> QED
        BY <4>2, <4>3
    <3>3. DOMAIN stmt.fields = 1..Len(stmt.fields) /\ Len(stmt.fields) \in Nat
      BY StmtIs, LenProperties DEF StmtInv
    <3> HIDE DEF r
    <3>4. CASE \E k \in DOMAIN stmt.group : stmt.group[k].pos > Len(r)
      <4>1. Explained
        BY <3>2, <3>4 DEF Explained, Width
      <4> QED
        BY <1>2, <3>1, <4>1
    <3>5. CASE \E i \in DOMAIN stmt.fields : i > Len(r)
      <4>1. Len(stmt.fields) > Width
        BY <3>2, <3>3, <3>5
      <4>2. view # NoView
        <5> SUFFICES ASSUME view = NoView PROVE FALSE
          OBVIOUS
        <5>1. stmt = [asked EXCEPT !.fields = FieldsKept(asked.fields)] /\ asked \in Stmts
          BY <3>1 DEF StmtInv
        <5>2. stmt.fields = FieldsKept(asked.fields) /\ asked.fields \in Seq(Fields)
          BY <5>1, StmtIs DEF Stmts
        <5>3. Width = Len(stmt.fields)
          BY <5>2, FieldsKeptIs DEF Width
        <5> QED
          BY <3>3, <4>1, <5>3
      <4>3. Explained
        BY <4>1, <4>2 DEF Explained, Width
      <4> QED
        BY <1>2, <3>1, <4>3
    <3> QED
      BY <3>1, <3>4, <3>5 DEF GroupOutOfRange, CellOutOfRange
  <2> QED
    BY <1>1, <2>1
<1>4. CASE Sort
  <2>1. CASE pc' = "panic"
    <3>1. UNCHANGED <<stmt, view, out>> /\ OrderOutOfRange
      BY <1>4, <2>1 DEF Sort
    <3>2. Explained
      BY <3>1 DEF OrderOutOfRange, Explained
    <3> QED
      BY <1>2, <3>1, <3>2
  <2> QED
    BY <1>1, <2>1
<1>5. CASE NextRow
  <2>1. CASE pc' = "panic"
    <3>1. /\ UNCHANGED <<stmt, view, out>> /\ pc = "read" /\ pos # size /\ pos >= Len(out)
      BY <1>5, <2>1 DEF NextRow
    <3>2. Lists(out) /\ DOMAIN data # {}
      BY <3>1 DEF OutInv
    <3>3. out # <<>>
      <4>1. PICK k \in DOMAIN data : TRUE
        BY <3>2
      <4>2. k \in {out[i] : i \in DOMAIN out}
        BY <3>2, <4>1, ListsIs
      <4>3. DOMAIN out # {} /\ DOMAIN out = 1..Len(out)
        BY <3>2, <4>2, ListsIs
      <4> QED
        BY <4>3
    <3>4. pos = Start + Len(shown) /\ size = End /\ (Start <= size => pos <= size) /\ Len(shown) \in Nat
      BY <3>1, LenProperties DEF WindowInv
    <3>5. stmt.limited /\ (stmt.offset > Len(out) \/ stmt.offset + stmt.count > MaxInt)
      <4> SUFFICES ASSUME ~(stmt.limited /\ (stmt.offset > Len(out) \/ stmt.offset + stmt.count > MaxInt))
                   PROVE  FALSE
        OBVIOUS
      <4>1. /\ stmt.offset \in 0..MaxInt /\ stmt.count \in 0..MaxInt /\ Start \in Nat
            /\ End \in Int /\ End <= Len(out) /\ Len(out) \in Nat
            /\ MaxInt \in Nat
        BY <3>2, WindowIs, BoundAssumption
      <4>2. CASE ~stmt.limited
        <5>1. Start = 0 /\ End = Len(out)
          BY <3>2, <4>2, WindowIs
        <5> QED
          BY <3>1, <3>4, <4>1, <5>1
      <4>3. CASE stmt.limited
        <5>1. stmt.offset <= Len(out) /\ stmt.offset + stmt.count <= MaxInt
          BY <4>1, <4>3
        <5>2. End = IF stmt.offset + stmt.count > Len(out) THEN Len(out) ELSE stmt.offset + stmt.count
          BY <3>2, <4>3, <5>1, WindowIs
        <5>3. Start = stmt.offset
          BY <4>3 DEF Start
        <5> QED
          BY <3>1, <3>4, <4>1, <5>1, <5>2, <5>3
      <4> QED
        BY <4>2, <4>3
    <3>6. Explained
      BY <3>3, <3>5 DEF Explained
    <3> QED
      BY <1>2, <3>1, <3>6
  <2> QED
    BY <1>1, <2>1
<1>6. CASE EmbellishTable
  <2>1. pc' \in {"refused", "fetch"}
    BY <1>6 DEF EmbellishTable
  <2> QED
    BY <1>1, <2>1
<1>7. CASE EmbellishView
  <2>1. pc' \in {"refused", "fetch"}
    BY <1>7 DEF EmbellishView
  <2> QED
    BY <1>1, <2>1
<1>8. CASE Fetch
  <2>1. pc' \in {"rows", "error"}
    BY <1>8 DEF Fetch
  <2> QED
    BY <1>1, <2>1
<1>9. CASE Collect
  <2>1. pc' \in {"done", "sort"}
    BY <1>9 DEF Collect
  <2> QED
    BY <1>1, <2>1
<1>10. CASE Limit
  BY <1>1, <1>10 DEF Limit
<1>11. CASE NoColumns
  BY <1>1, <1>11 DEF NoColumns
<1>12. CASE UNCHANGED vars
  BY <1>12 DEF vars, PanicIsExplained
<1> QED
  BY <1>3, <1>4, <1>5, <1>6, <1>7, <1>8, <1>9, <1>10, <1>11, <1>12 DEF Next

----------------------------------------------------------------------------
(* What holds in every state. *)

Inv ==
  /\ StmtInv /\ RecordsInv /\ DataInv /\ OutInv
  /\ SortInv /\ WindowInv /\ PanicIsExplained

(* The statement, the report, the groups, the result set and the window are  *)
(* typed and stay what the steps before made of them.                        *)
THEOREM Invariance == Spec => []Inv
<1>1. Init => Inv
  BY StmtInit, RecordsInit, DataInit, OutInit, SortInit, WindowInit, PanicInit DEF Inv
<1>2. Inv /\ [Next]_vars => Inv'
  BY StmtStep, RecordsStep, DataStep, OutStep, SortStep, WindowStep, PanicStep DEF Inv
<1> QED
  BY <1>1, <1>2, PTL DEF Spec

(* aggregateData: one group per key, with the COUNT, MAX and MIN of its      *)
(* records and the last value of its other columns, for every report.        *)
THEOREM GroupsAreRightHolds == Spec => []GroupsAreRight
<1>1. Inv => GroupsAreRight
  <2> SUFFICES ASSUME Inv PROVE GroupsAreRight
    OBVIOUS
  <2>1. DOMAIN data = {Key(j) : j \in 1..n}
    BY DEF Inv, DataInv, DataRight
  <2>2. ASSUME NEW k \in DOMAIN data, NEW i \in DOMAIN stmt.fields
        PROVE  CellIsRight(k, i)
    <3>1. RightCell(data[k][i], i, MembersTo(k, n))
      BY DEF Inv, DataInv, DataRight
    <3>2. Members(k) = MembersTo(k, n)
      BY DEF Members, MembersTo
    <3>3. Given(k, i) = GivenOf(i, MembersTo(k, n))
      BY <3>2 DEF Given, GivenOf
    <3> QED
      BY <3>1, <3>2, <3>3, Zenon DEF CellIsRight, RightCell
  <2> QED
    BY <2>1, <2>2 DEF GroupsAreRight
<1> QED
  BY <1>1, Invariance, PTL

(* Rows.Next and Rows.Sort index out of range, and the aggregation too, for  *)
(* one of the four reasons only.                                             *)
THEOREM PanicIsExplainedHolds == Spec => []PanicIsExplained
<1>1. Inv => PanicIsExplained
  BY DEF Inv
<1> QED
  BY <1>1, Invariance, PTL


(* Rows.Limit and Rows.Next: the groups handed out are those of the window   *)
(* of the statement after the merge, whatever its bounds.                    *)
LEMMA WindowOfTheStatement ==
  ASSUME Inv, pc = "done", out # <<>>
  PROVE  /\ {out[i] : i \in DOMAIN out} = DOMAIN data /\ Len(out) = Cardinality(DOMAIN data)
         /\ shown = IF stmt.limited THEN Window(stmt.offset, stmt.count) ELSE out
<1>1. /\ {out[i] : i \in DOMAIN out} = DOMAIN data /\ Len(out) = Cardinality(DOMAIN data)
      /\ shown = IF stmt.limited
                   THEN SubSeq(out, stmt.offset + 1, Smaller(stmt.offset + stmt.count, Len(out)))
                   ELSE out
  <2>1. StmtInv /\ DataInv /\ Lists(out) /\ WindowInv
    BY DEF Inv, OutInv
  <2>2. /\ {out[i] : i \in DOMAIN out} = DOMAIN data /\ Len(out) = Cardinality(DOMAIN data)
        /\ out \in Seq(DOMAIN data) /\ Len(out) \in Nat /\ DOMAIN out = 1..Len(out)
    BY <2>1, ListsIs
  <2>3. /\ pos = Start + Len(shown) /\ size = End
        /\ Start <= size => pos <= size
        /\ size = 0 => shown = <<>>
        /\ size = 0 \/ pos = size
        /\ shown \in Seq(DOMAIN data) /\ Len(shown) \in Nat /\ DOMAIN shown = 1..Len(shown)
        /\ \A m \in 1..Len(shown) : shown[m] = out[Start + m]
    BY <2>1, LenProperties DEF WindowInv
  <2>4. /\ stmt.offset \in 0..MaxInt /\ stmt.count \in 0..MaxInt /\ Start \in Nat
        /\ End \in Int /\ End <= Len(out) /\ MaxInt \in Nat
        /\ ~stmt.limited => Start = 0 /\ End = Len(out)
        /\ stmt.limited /\ stmt.offset + stmt.count <= MaxInt =>
             End = IF stmt.offset + stmt.count > Len(out) THEN Len(out) ELSE stmt.offset + stmt.count
        /\ stmt.limited /\ stmt.offset + stmt.count > MaxInt => End < 0
    BY <2>1, WindowIs, BoundAssumption
  <2>5. Len(out) # 0
    BY <2>2
  <2>6. CASE ~stmt.limited
    <3>1. Start = 0 /\ Len(shown) = Len(out)
      BY <2>2, <2>3, <2>4, <2>5, <2>6
    <3>2. \A m \in 1..Len(shown) : shown[m] = out[m]
      BY <2>3, <3>1
    <3>3. shown = out
      BY <2>2, <2>3, <3>1, <3>2, SeqEqual
    <3> QED
      BY <2>2, <2>6, <3>3
  <2>7. CASE stmt.limited
    <3> DEFINE e == Smaller(stmt.offset + stmt.count, Len(out))
               w == SubSeq(out, stmt.offset + 1, e)
    <3>1. stmt.offset + stmt.count <= MaxInt
      BY <2>2, <2>3, <2>4, <2>7
    <3>2. Start = stmt.offset
      BY <2>7 DEF Start
    <3>3. e = End /\ e \in Nat /\ e <= Len(out)
      BY <2>2, <2>4, <2>7, <3>1 DEF Smaller
    <3> HIDE DEF e
    <3>4. stmt.offset <= e /\ Len(shown) = e - stmt.offset
      <4>1. CASE e = 0
        <5>1. shown = <<>> /\ stmt.offset = 0
          BY <2>3, <2>4, <2>5, <2>7, <3>1, <3>3, <4>1
        <5> QED
          BY <4>1, <5>1
      <4>2. CASE e # 0
        BY <2>3, <2>4, <3>2, <3>3, <4>2
      <4> QED
        BY <4>1, <4>2
    <3>5. w \in Seq(DOMAIN data) /\ Len(w) = Len(shown)
          /\ \A m \in 1..Len(shown) : w[m] = out[stmt.offset + m]
      <4>1. stmt.offset + 1 \in 1..(Len(out) + 1) /\ e \in stmt.offset..Len(out)
        BY <2>2, <2>4, <3>3, <3>4
      <4>2. \A m \in (stmt.offset + 1)..e : out[m] \in DOMAIN data
        BY <2>2, <2>4, <3>3
      <4>3. stmt.offset + 1 \in Int /\ e \in Int
        BY <2>4, <3>3
      <4>4. /\ w \in Seq(DOMAIN data)
            /\ Len(w) = IF stmt.offset + 1 <= e THEN e - (stmt.offset + 1) + 1 ELSE 0
            /\ \A m \in 1..(e - (stmt.offset + 1) + 1) : w[m] = out[stmt.offset + 1 + m - 1]
        BY <4>2, <4>3, SubSeqProperties
      <4> HIDE DEF w
      <4>5. \A m \in 1..(e - stmt.offset) : stmt.offset + 1 + m - 1 = stmt.offset + m
        BY <2>4, <3>3
      <4>6. e - (stmt.offset + 1) + 1 = e - stmt.offset
        BY <2>4, <3>3
      <4> QED
        BY <2>4, <3>3, <3>4, <4>4, <4>5, <4>6
    <3>6. shown = w
      <4> HIDE DEF w
      <4>1. \A m \in 1..Len(shown) : shown[m] = w[m]
        BY <2>3, <3>2, <3>5
      <4> QED
        BY <2>3, <3>5, <4>1, SeqEqual
    <3> QED
      BY <2>2, <2>7, <3>6 DEF e
  <2> QED
    BY <2>6, <2>7
<1> QED
  BY <1>1 DEF Window

(* LimitClause: the merged window is the one asked for, but for a row count  *)
(* smaller than the view's.                                                  *)
LEMMA WindowAsked ==
  ASSUME StmtInv, pc \notin {"parsed", "refused"}
  PROVE  /\ stmt.limited <=> asked.limited \/ ViewPaged
         /\ stmt.limited => stmt.offset = OffsetAsked
         /\ stmt.limited /\ ~FewerThanTheView => stmt.count = CountAsked
         /\ FewerThanTheView => stmt.count = view.count
<1>1. asked \in Stmts /\ asked.count \in Nat /\ asked.limited \in BOOLEAN
  BY StmtIs, BoundAssumption DEF StmtInv
<1>2. CASE view = NoView
  <2>1. stmt.limited = asked.limited /\ stmt.offset = asked.offset /\ stmt.count = asked.count
    BY <1>1, <1>2 DEF StmtInv, Stmts
  <2>2. ~ViewPaged /\ ~FewerThanTheView /\ OffsetAsked = asked.offset /\ CountAsked = asked.count
    BY <1>2 DEF ViewPaged, FewerThanTheView, OffsetAsked, CountAsked
  <2> QED
    BY <2>1, <2>2, Zenon
<1>3. CASE view # NoView
  <2>1. view \in Stmts /\ view.count \in Nat /\ stmt = Merged(asked, view)
    BY <1>3, StmtIs, BoundAssumption DEF StmtInv
  <2>2. stmt.offset = OffsetAsked
    BY <1>1, <1>3, <2>1, MergedIs DEF OffsetAsked
  <2>3. CASE PageSize(view)
    <3>1. stmt.limited /\ stmt.count = view.count /\ ViewPaged
      BY <1>1, <1>3, <2>1, <2>3, MergedIs DEF ViewPaged
    <3>2. ~FewerThanTheView => CountAsked = view.count
      BY <1>1, <2>1, <3>1 DEF FewerThanTheView, CountAsked, Smaller
    <3> QED
      BY <2>2, <3>1, <3>2, Zenon
  <2>4. CASE ~PageSize(view)
    <3>1. stmt.limited = asked.limited /\ stmt.count = asked.count /\ ~ViewPaged
      BY <1>1, <1>3, <2>1, <2>4, MergedIs DEF ViewPaged
    <3>2. ~FewerThanTheView /\ CountAsked = asked.count
      BY <3>1 DEF FewerThanTheView, CountAsked
    <3> QED
      BY <2>2, <3>1, <3>2, Zenon
  <2> QED
    BY <2>3, <2>4, Zenon
<1> QED
  BY <1>2, <1>3, Zenon

(* Rows.Limit and Rows.Next: what is handed out is the window asked for,     *)
(* whatever the offsets, the row counts and the number of groups; where it   *)
(* asks for fewer rows than its view has, as many as the view's.             *)
THEOREM WindowIsShownHolds == Spec => []WindowIsShown
<1>1. Inv => WindowIsShown
  <2> SUFFICES ASSUME Inv, pc = "done", out # <<>>
               PROVE  /\ {out[i] : i \in DOMAIN out} = DOMAIN data /\ Len(out) = Cardinality(DOMAIN data)
                      /\ ~asked.limited /\ ~ViewPaged => shown = out
                      /\ (asked.limited \/ ViewPaged) /\ ~FewerThanTheView => shown = Window(OffsetAsked, CountAsked)
                      /\ FewerThanTheView => shown = Window(OffsetAsked, view.count)
    BY DEF WindowIsShown
  <2>1. /\ {out[i] : i \in DOMAIN out} = DOMAIN data /\ Len(out) = Cardinality(DOMAIN data)
        /\ shown = IF stmt.limited THEN Window(stmt.offset, stmt.count) ELSE out
    BY WindowOfTheStatement
  <2>2. /\ stmt.limited <=> asked.limited \/ ViewPaged
        /\ stmt.limited => stmt.offset = OffsetAsked
        /\ stmt.limited /\ ~FewerThanTheView => stmt.count = CountAsked
        /\ FewerThanTheView => stmt.count = view.count
    BY WindowAsked DEF Inv
  <2>3. FewerThanTheView => ViewPaged
    BY DEF FewerThanTheView
  <2> QED
    BY <2>1, <2>2, <2>3, Zenon
<1> QED
  BY <1>1, Invariance, PTL

(* embellishView and LimitClause: a statement keeps within its view.         *)
THEOREM ViewHoldsHolds == Spec => []ViewHolds
<1>1. Inv => ViewHolds
  <2> SUFFICES ASSUME Inv, view # NoView
               PROVE  /\ pc \notin {"parsed", "refused"} =>
                           \A i \in DOMAIN view.where : Occurs(view.where[i], stmt.where) = 1
                      /\ PageSize(view) => Len(shown) <= view.count
                      /\ pc = "refused" =>
                           \/ ~IsAll(asked) /\ UnknownField(asked.fields, NamesOf(view.fields))
                           \/ asked.during /\ view.during
                           \/ \E i \in DOMAIN view.where : Occurs(view.where[i], asked.where \o view.where) > 1
    BY DEF ViewHolds
  <2>1. StmtInv /\ WindowInv
    BY DEF Inv
  <2>2. asked \in Stmts /\ view \in Stmts
    BY <2>1 DEF StmtInv
  <2>3. pc \notin {"parsed", "refused"} => stmt = Merged(asked, view) /\ ~WhereOutRange(asked, view)
    BY <2>1 DEF StmtInv
  <2>4. ASSUME pc \notin {"parsed", "refused"}, NEW i \in DOMAIN view.where
        PROVE  Occurs(view.where[i], stmt.where) = 1
    <3>1. Merged(asked, view).where = asked.where \o view.where
      BY <2>2, MergedIs
    <3> QED
      BY <2>2, <2>3, <2>4, <3>1, OccursOnce
  <2>5. ASSUME PageSize(view)
        PROVE  Len(shown) <= view.count
    <3>1. CASE pc \in {"parsed", "refused"}
      <4>1. Len(shown) = 0
        BY <2>1, <3>1 DEF WindowInv
      <4>2. view.count \in Nat
        BY <2>2, StmtIs, BoundAssumption
      <4> QED
        BY <4>1, <4>2
    <3>2. CASE pc \notin {"parsed", "refused"}
      <4>1. Merged(asked, view).limited /\ Merged(asked, view).count = view.count
        BY <2>2, <2>5, MergedIs
      <4>2. stmt.limited /\ stmt.count = view.count
        BY <2>3, <3>2, <4>1
      <4> QED
        BY <2>1, <4>2 DEF WindowInv
    <3> QED
      BY <3>1, <3>2
  <2>6. ASSUME pc = "refused"
        PROVE  \/ ~IsAll(asked) /\ UnknownField(asked.fields, NamesOf(view.fields))
               \/ asked.during /\ view.during
               \/ \E i \in DOMAIN view.where : Occurs(view.where[i], asked.where \o view.where) > 1
    BY <2>1, <2>2, <2>6, OccursTwice DEF StmtInv
  <2> QED
    BY <2>4, <2>5, <2>6
<1> QED
  BY <1>1, Invariance, PTL


(* GROUP BY and ORDER BY name columns from the first on.                      *)
LEMMA PositionsAre ==
  /\ \A s \in Seq(Groups) : \A k \in DOMAIN s : s[k].pos \in Nat \ {0}
  /\ \A s \in Seq(Orders) : \A k \in DOMAIN s : s[k].pos \in Nat \ {0}
<1>1. \A x \in Groups : x.pos \in Nat \ {0}
  BY DEF Groups
<1>2. \A x \in Orders : x.pos \in Nat \ {0}
  BY DEF Orders
<1>3. \A s \in Seq(Groups) : \A k \in DOMAIN s : s[k] \in Groups
  OBVIOUS
<1>4. \A s \in Seq(Orders) : \A k \in DOMAIN s : s[k] \in Orders
  OBVIOUS
<1> QED
  BY <1>1, <1>2, <1>3, <1>4

(* SELECT * of a view: GROUP BY and ORDER BY of the view, and of the         *)
(* statement, look for their columns where they are.                         *)
THEOREM AllIsTheViewHolds == Spec => []AllIsTheView
<1>1. Inv => AllIsTheView
  <2> SUFFICES ASSUME Inv, view # NoView, IsAll(asked), pc \notin {"parsed", "refused"}
               PROVE  /\ PositionsDesignate
                      /\ asked.order = <<>> => stmt.order = view.order
                      /\ asked.group = <<>> => stmt.group = view.group
    BY DEF AllIsTheView
  <2>1. /\ asked \in Stmts /\ Parsed(asked) /\ view \in Stmts /\ Parsed(view)
        /\ stmt = Merged(asked, view) /\ stmt.fields # <<>>
    BY DEF Inv, StmtInv
  <2>2. /\ view.fields \in Seq(Fields) /\ view.group \in Seq(Groups) /\ view.order \in Seq(Orders)
        /\ asked.group \in Seq(Groups) /\ asked.order \in Seq(Orders)
    BY <2>1, StmtIs
  <2>3. MergedFields(asked, view) = view.fields
    BY DEF MergedFields
  <2>4. /\ stmt.fields = view.fields
        /\ stmt.group = IF asked.group = <<>> THEN Selected(view.group, view.fields) ELSE asked.group
        /\ stmt.order = IF asked.order = <<>> THEN Selected(view.order, view.fields) ELSE asked.order
    <3>1. /\ Merged(asked, view).fields = MergedFields(asked, view)
          /\ Merged(asked, view).group = IF asked.group = <<>> THEN Selected(view.group, MergedFields(asked, view)) ELSE asked.group
          /\ Merged(asked, view).order = IF asked.order = <<>> THEN Selected(view.order, MergedFields(asked, view)) ELSE asked.order
      BY <2>1, MergedIs
    <3> QED
      BY <2>1, <2>3, <3>1
  <2>5. \A k \in DOMAIN view.group : /\ view.group[k].pos \in 1..Len(view.fields)
                                     /\ view.fields[view.group[k].pos].name = view.group[k].name
    <3>1. \A k \in DOMAIN view.group : view.group[k].pos \in Nat \ {0}
      BY <2>2, PositionsAre
    <3> QED
      BY <2>1, <2>2, <3>1, LenProperties DEF Parsed
  <2>6. \A k \in DOMAIN view.order : /\ view.order[k].pos \in 1..Len(view.fields)
                                     /\ view.fields[view.order[k].pos].name = view.order[k].name
    <3>1. \A k \in DOMAIN view.order : view.order[k].pos \in Nat \ {0}
      BY <2>2, PositionsAre
    <3> QED
      BY <2>1, <2>2, <3>1, LenProperties DEF Parsed
  <2>7. DOMAIN view.fields = 1..Len(view.fields)
    BY <2>2
  <2>8. Selected(view.group, view.fields) = view.group
    <3>1. \A k \in DOMAIN view.group : InSelect(view.group[k], view.fields)
      BY <2>5, <2>7 DEF InSelect
    <3> QED
      BY <2>2, <3>1, SelectedIs
  <2>9. Selected(view.order, view.fields) = view.order
    <3>1. \A k \in DOMAIN view.order : InSelect(view.order[k], view.fields)
      BY <2>6, <2>7 DEF InSelect
    <3> QED
      BY <2>2, <3>1, SelectedIs
  <2>10. ASSUME NEW x, x.pos \in Nat \ {0}, x.pos <= Len(asked.fields),
                asked.fields[x.pos].name = x.name
         PROVE  Designates(x)
    <3>1. x.pos = 1 /\ x.name = "*"
      BY <2>10 DEF IsAll
    <3>2. 1 <= Len(stmt.fields)
      BY <2>1, <2>2, <2>4
    <3> QED
      BY <3>1, <3>2 DEF Designates
  <2>11. ASSUME NEW k \in DOMAIN stmt.group
         PROVE  Designates(stmt.group[k])
    <3>1. CASE asked.group = <<>>
      BY <2>4, <2>5, <2>8, <2>11, <3>1 DEF Designates
    <3>2. CASE asked.group # <<>>
      <4>1. stmt.group = asked.group /\ asked.group[k].pos \in Nat \ {0}
        BY <2>2, <2>4, <2>11, <3>2, PositionsAre
      <4>2. asked.group[k].pos <= Len(asked.fields) /\ asked.fields[asked.group[k].pos].name = asked.group[k].name
        BY <2>1, <2>11, <4>1 DEF Parsed
      <4> QED
        BY <2>10, <4>1, <4>2
    <3> QED
      BY <3>1, <3>2
  <2>12. ASSUME NEW k \in DOMAIN stmt.order
         PROVE  Designates(stmt.order[k])
    <3>1. CASE asked.order = <<>>
      BY <2>4, <2>6, <2>9, <2>12, <3>1 DEF Designates
    <3>2. CASE asked.order # <<>>
      <4>1. stmt.order = asked.order /\ asked.order[k].pos \in Nat \ {0}
        BY <2>2, <2>4, <2>12, <3>2, PositionsAre
      <4>2. asked.order[k].pos <= Len(asked.fields) /\ asked.fields[asked.order[k].pos].name = asked.order[k].name
        BY <2>1, <2>12, <4>1 DEF Parsed
      <4> QED
        BY <2>10, <4>1, <4>2
    <3> QED
      BY <3>1, <3>2
  <2> QED
    BY <2>4, <2>8, <2>9, <2>11, <2>12 DEF PositionsDesignate
<1> QED
  BY <1>1, Invariance, PTL

(* The order of the statement is the one asked for, and its places are its   *)
(* positions but for a redundant column or an order of the view.             *)
LEMMA OrderIsAsked ==
  ASSUME StmtInv, pc \notin {"parsed", "refused"}
  PROVE  /\ stmt.order = OrderAsked
         /\ \A k \in DOMAIN OrderAsked : Displaced(OrderAsked[k]) =>
              IF OwnOrder THEN RedundantUpTo(OrderAsked[k].pos) ELSE ~IsAll(asked)
<1>1. asked \in Stmts /\ Parsed(asked) /\ asked.fields \in Seq(Fields) /\ asked.order \in Seq(Orders)
  BY StmtIs DEF StmtInv
<1>2. stmt.order = OrderAsked
  <2>1. CASE view = NoView
    BY <1>1, <2>1 DEF StmtInv, Stmts, OrderAsked, OwnOrder
  <2>2. CASE view # NoView
    <3>1. view \in Stmts /\ stmt = Merged(asked, view)
      BY <2>2 DEF StmtInv
    <3>2. /\ stmt.fields = MergedFields(asked, view)
          /\ stmt.order = IF asked.order = <<>> THEN Selected(view.order, MergedFields(asked, view)) ELSE asked.order
      BY <1>1, <3>1, MergedIs
    <3> QED
      BY <2>2, <3>2 DEF OrderAsked, OwnOrder
  <2> QED
    BY <2>1, <2>2
<1>3. ASSUME NEW k \in DOMAIN OrderAsked, Displaced(OrderAsked[k]), ~OwnOrder
      PROVE  ~IsAll(asked)
  BY <1>3 DEF Displaced, Place, OwnOrder
<1>4. ASSUME NEW k \in DOMAIN OrderAsked, Displaced(OrderAsked[k]), OwnOrder
      PROVE  RedundantUpTo(OrderAsked[k].pos)
  <2> SUFFICES ASSUME ~RedundantUpTo(OrderAsked[k].pos) PROVE FALSE
    OBVIOUS
  <2> DEFINE p == asked.order[k].pos
  <2>1. OrderAsked = asked.order /\ k \in DOMAIN asked.order
    BY <1>4 DEF OrderAsked
  <2>2. p \in Nat \ {0} /\ p <= Len(asked.fields)
    BY <1>1, <2>1, PositionsAre DEF Parsed
  <2>3. p \in DOMAIN asked.fields
    BY <1>1, <2>2
  <2>4. ~(view # NoView /\ IsAll(asked))
    BY <1>4 DEF Displaced, Place
  <2>5. stmt.fields = FieldsKept(asked.fields)
    <3>1. CASE view = NoView
      BY <1>1, <3>1 DEF StmtInv, Stmts
    <3>2. CASE view # NoView
      <4>1. view \in Stmts /\ stmt = Merged(asked, view) /\ ~IsAll(asked)
        BY <2>4, <3>2 DEF StmtInv
      <4> QED
        BY <1>1, <4>1, MergedIs DEF MergedFields
    <3> QED
      BY <3>1, <3>2
  <2>6. \A j \in 1..p : \A h \in 1..(j - 1) : Resolved(asked.fields[h]).name # Resolved(asked.fields[j]).name
    BY <2>1 DEF RedundantUpTo
  <2> HIDE DEF p
  <2>7. p \in 1..Len(stmt.fields) /\ stmt.fields[p] = Resolved(asked.fields[p])
    BY <1>1, <2>3, <2>5, <2>6, KeepsItsPlace
  <2>8. stmt.fields \in Seq(Fields) /\ \A i, j \in 1..Len(stmt.fields) : i < j => stmt.fields[i].name # stmt.fields[j].name
    BY <1>1, <2>5, FieldsKeptIs
  <2>9. DOMAIN stmt.fields = 1..Len(stmt.fields) /\ Len(stmt.fields) \in Nat
    BY <2>8
  <2>10. \A i \in DOMAIN stmt.fields : stmt.fields[i].name = Resolved(asked.fields[p]).name => i = p
    BY <2>7, <2>8, <2>9
  <2>11. p = CHOOSE i \in DOMAIN stmt.fields : stmt.fields[i].name = Resolved(asked.fields[p]).name
    BY <2>7, <2>9, <2>10
  <2>12. Place(OrderAsked[k]) = CHOOSE i \in DOMAIN stmt.fields : stmt.fields[i].name = Resolved(asked.fields[p]).name
    BY <1>4, <2>1, <2>4 DEF Place, NameAsked, p
  <2> QED
    BY <1>4, <2>1, <2>11, <2>12 DEF Displaced, p
<1> QED
  BY <1>2, <1>3, <1>4

(* When all columns of ORDER BY have one direction, none of them is a        *)
(* descending date and all are in their places, each of two rows is compared *)
(* as the column asks.                                                       *)
LEMMA ComparedAsAsked ==
  ASSUME OneDirection, stmt.order = OrderAsked, \A k \in DOMAIN OrderAsked : ~Displaced(OrderAsked[k]),
         stmt.order \in Seq(Orders), NEW k \in DOMAIN stmt.order, NEW p, NEW q
  PROVE  LessAt(k, p, q) <=> Precedes(stmt.order[k], p, q)
<1>1. Len(stmt.order) \in DOMAIN stmt.order
  BY LenProperties
<1>2. Place(stmt.order[k]) = stmt.order[k].pos
  BY DEF Displaced
<1>3. /\ stmt.order[Len(stmt.order)].desc = stmt.order[k].desc
      /\ stmt.order[k].desc => ~IsTime(stmt.order[k].pos)
  BY <1>1, <1>2 DEF OneDirection
<1> QED
  BY <1>2, <1>3 DEF LessAt, Precedes

(* Two rows are compared by columns they have, up to the first that tells    *)
(* them apart: sort.Sort would not have come back otherwise.                 *)
LEMMA ComparedInRange ==
  ASSUME stmt.order \in Seq(Orders), ~OrderOutOfRange, Len(stmt.fields) \in Nat,
         NEW i \in DOMAIN out, NEW j \in DOMAIN out, i # j, NEW m \in DOMAIN stmt.order,
         \A l \in 1..(m - 1) : Ties(l, out[i], out[j])
  PROVE  stmt.order[m].pos \in 1..Len(stmt.fields)
<1>1. \A k \in DOMAIN stmt.order : stmt.order[k].pos \in Nat \ {0} /\ k \in Nat
  BY PositionsAre
<1> DEFINE S == {k \in DOMAIN stmt.order : stmt.order[k].pos > Len(stmt.fields) /\ k <= m}
<1>2. S = {}
  <2> SUFFICES ASSUME S # {} PROVE FALSE
    OBVIOUS
  <2>1. S \in SUBSET Nat
    BY <1>1
  <2>2. PICK o \in S : \A y \in S : o <= y
    <3> HIDE DEF S
    <3> QED
      BY <2>1, HasSmallest
  <2>3. o \in DOMAIN stmt.order /\ stmt.order[o].pos > Len(stmt.fields) /\ o <= m
    OBVIOUS
  <2>4. ASSUME NEW l \in 1..(o - 1)
        PROVE  stmt.order[l].pos <= Len(stmt.fields)
    <3>1. l \in DOMAIN stmt.order /\ l <= m /\ ~(o <= l)
      BY <1>1, <2>3
    <3>2. l \notin S
      BY <2>2, <3>1
    <3> QED
      BY <1>1, <3>1, <3>2
  <2>5. \A l \in 1..(o - 1) : Ties(l, out[i], out[j])
    BY <1>1, <2>3
  <2> QED
    BY <2>3, <2>4, <2>5 DEF OrderOutOfRange
<1> QED
  BY <1>1, <1>2

(* Rows.Sort: rows come in the order asked for, by the columns it names,     *)
(* when it has one direction, no descending date and no displaced column,    *)
(* and a column is displaced for one of the two reasons only.                *)
THEOREM ShownInOrderHolds == Spec => []ShownInOrder
<1>1. ASSUME Inv, pc \in {"read", "done"}, OneDirection, \A k \in DOMAIN OrderAsked : ~Displaced(OrderAsked[k])
      PROVE  InOrder
  <2>0. stmt.order = OrderAsked
    BY <1>1, OrderIsAsked DEF Inv
  <2> SUFFICES ASSUME NEW i \in DOMAIN shown, NEW j \in DOMAIN shown, i < j,
                      NEW k \in DOMAIN stmt.order, Precedes(stmt.order[k], shown[j], shown[i]),
                      \A m \in 1..(k - 1) : ~Precedes(stmt.order[m], shown[i], shown[j])
               PROVE  FALSE
    BY <2>0 DEF InOrder
  <2> DEFINE p == shown[i]
             q == shown[j]
             a == Start + i
             b == Start + j
  <2>1. StmtInv /\ DataInv /\ Lists(out) /\ WindowInv /\ ~OrderOutOfRange /\ InLess
    BY <1>1 DEF Inv, OutInv, SortInv
  <2>2. stmt.order \in Seq(Orders) /\ Len(stmt.fields) \in Nat /\ DOMAIN stmt.fields = 1..Len(stmt.fields)
    BY <2>1, StmtIs DEF StmtInv
  <2>3. \A m \in DOMAIN stmt.order : m \in Nat
    BY <2>2
  <2>4. a \in DOMAIN out /\ b \in DOMAIN out /\ a < b /\ p = out[a] /\ q = out[b]
    <3>1. Len(out) \in Nat /\ DOMAIN out = 1..Len(out) /\ Start \in Nat
      BY <2>1, ListsIs, WindowIs
    <3>2. /\ Len(shown) \in Nat /\ DOMAIN shown = 1..Len(shown)
          /\ Start + Len(shown) <= Len(out)
          /\ \A m \in 1..Len(shown) : shown[m] = out[Start + m]
      BY <2>1, LenProperties DEF WindowInv
    <3> QED
      BY <3>1, <3>2
  <2>5. p \in DOMAIN data /\ q \in DOMAIN data
    BY <2>1, <2>4 DEF Lists
  <2> HIDE DEF p, q, a, b
  <2>6. \A m \in DOMAIN stmt.order : /\ LessAt(m, p, q) <=> Precedes(stmt.order[m], p, q)
                                     /\ LessAt(m, q, p) <=> Precedes(stmt.order[m], q, p)
    BY <1>1, <2>0, <2>2, ComparedAsAsked
  <2>7. LessAt(k, q, p) /\ \A m \in 1..(k - 1) : ~LessAt(m, p, q)
    <3>1. \A m \in 1..(k - 1) : m \in DOMAIN stmt.order
      BY <2>2
    <3> QED
      BY <2>6, <3>1 DEF p, q
  <2> DEFINE M == {m \in DOMAIN stmt.order : LessAt(m, p, q) \/ LessAt(m, q, p)}
  <2>8. PICK m \in M : \A y \in M : m <= y
    <3>1. M \in SUBSET Nat /\ M # {}
      BY <2>3, <2>7
    <3> HIDE DEF M
    <3> QED
      BY <3>1, HasSmallest
  <2>9. m \in DOMAIN stmt.order /\ m \in Nat /\ k \in Nat /\ m <= k
    BY <2>3, <2>7, <2>8
  <2>10. \A l \in 1..(m - 1) : Ties(l, p, q) /\ Ties(l, q, p)
    <3> SUFFICES ASSUME NEW l \in 1..(m - 1) PROVE Ties(l, p, q) /\ Ties(l, q, p)
      OBVIOUS
    <3>1. l \in DOMAIN stmt.order /\ ~(m <= l)
      BY <2>2, <2>9
    <3>2. l \notin M
      BY <2>8, <3>1
    <3> QED
      BY <3>1, <3>2 DEF Ties
  <2>11. stmt.order[m].pos \in DOMAIN stmt.fields
    <3>1. a # b
      <4>1. Len(out) \in Nat /\ DOMAIN out = 1..Len(out)
        BY <2>1, ListsIs
      <4> QED
        BY <2>4, <4>1
    <3> QED
      BY <2>1, <2>2, <2>4, <2>9, <2>10, <3>1, ComparedInRange
  <2>12. ~(LessAt(m, p, q) /\ LessAt(m, q, p))
    <3>1. data[p][stmt.order[m].pos].v \in Int /\ data[q][stmt.order[m].pos].v \in Int
      BY <2>1, <2>5, <2>11 DEF DataInv, DataRight, IsCell
    <3>2. ~(Precedes(stmt.order[m], p, q) /\ Precedes(stmt.order[m], q, p))
      BY <1>1, <2>0, <2>9, <3>1 DEF Precedes, Displaced
    <3> QED
      BY <2>6, <2>9, <3>2
  <2>13. LessAt(m, q, p) /\ ~LessAt(m, p, q)
    <3>1. CASE m = k
      BY <2>7, <2>12, <3>1
    <3>2. CASE m # k
      <4>1. m \in 1..(k - 1)
        BY <2>2, <2>9, <3>2
      <4> QED
        BY <2>7, <2>8, <4>1
    <3> QED
      BY <3>1, <3>2
  <2>14. Less(q, p)
    BY <2>9, <2>10, <2>13 DEF Less
  <2>15. Less(p, q)
    BY <2>1, <2>4, <2>14 DEF InLess
  <2>16. PICK l \in DOMAIN stmt.order : LessAt(l, p, q) /\ \A h \in 1..(l - 1) : Ties(h, p, q)
    BY <2>15 DEF Less
  <2>17. l \in Nat /\ m <= l
    BY <2>3, <2>8, <2>16
  <2>18. CASE l = m
    BY <2>13, <2>16, <2>18
  <2>19. CASE l # m
    <3>1. m \in 1..(l - 1)
      BY <2>2, <2>9, <2>17, <2>19
    <3>2. Ties(m, p, q)
      BY <2>16, <3>1
    <3> QED
      BY <2>13, <3>2 DEF Ties
  <2> QED
    BY <2>18, <2>19
<1>2. Inv => ShownInOrder
  BY <1>1, OrderIsAsked DEF Inv, ShownInOrder
<1> QED
  BY <1>2, Invariance, PTL

----------------------------------------------------------------------------
(* Sums. *)

(* T sums up v over the subsets of D, taking any element first; one more     *)
(* element then adds its value, in whatever order the sum is taken.          *)
Any(S) == CHOOSE j \in S : TRUE
IsSum(T, v, D) ==
  \A S \in SUBSET D : T[S] = IF S = {} THEN 0 ELSE v[Any(S)] + T[S \ {Any(S)}]
Additive(T, v, D) ==
  \A S \in SUBSET D : T[S] \in Int /\ \A j \in D \ S : T[S \cup {j}] = v[j] + T[S]
LEMMA SumAdds ==
  ASSUME NEW D, IsFiniteSet(D), NEW v \in [D -> Int], NEW T, IsSum(T, v, D)
  PROVE  Additive(T, v, D)
<1> DEFINE Adds(S) == T[S] \in Int /\ \A j \in D \ S : T[S \cup {j}] = v[j] + T[S]
           P == {m \in Nat : \A S \in SUBSET D : Cardinality(S) <= m => Adds(S)}
<1>1. \A S : S # {} => Any(S) \in S
  BY DEF Any
<1>2. \A S \in SUBSET D : IsFiniteSet(S) /\ Cardinality(S) \in Nat
  BY FS_Subset, FS_CardinalityType
<1>3. \A S \in SUBSET D : \A j \in S : S \ {j} \in SUBSET D /\ Cardinality(S \ {j}) = Cardinality(S) - 1
  BY <1>2, FS_RemoveElement
<1>0. /\ T[{}] = 0
      /\ \A S \in SUBSET D : S # {} => T[S] = v[Any(S)] + T[S \ {Any(S)}]
  BY DEF IsSum
<1>4. 0 \in P
  <2> SUFFICES ASSUME NEW S \in SUBSET D, Cardinality(S) <= 0 PROVE Adds(S)
    OBVIOUS
  <2>1. S = {}
    BY <1>2, FS_EmptySet
  <2>2. T[{}] = 0
    BY <1>0
  <2>3. ASSUME NEW j \in D PROVE T[{} \cup {j}] = v[j] + T[{}]
    <3>1. {j} \in SUBSET D /\ {j} # {} /\ Any({j}) = j /\ {j} \ {j} = {}
      BY <1>1
    <3>2. T[{j}] = v[j] + T[{}]
      BY <1>0, <3>1
    <3> QED
      BY <3>2
  <2> QED
    BY <2>1, <2>2, <2>3
<1>5. ASSUME NEW m \in P PROVE m + 1 \in P
  <2> SUFFICES ASSUME NEW S \in SUBSET D, Cardinality(S) <= m + 1 PROVE Adds(S)
    BY <1>5
  <2>1. \A R \in SUBSET D : Cardinality(R) <= m => Adds(R)
    BY <1>5
  <2> HIDE DEF Adds, P
  <2>2. ASSUME NEW R \in SUBSET D, Cardinality(R) <= m + 1 PROVE T[R] \in Int
    <3>1. CASE R = {}
      BY <1>0, <3>1
    <3>2. CASE R # {}
      <4>1. Any(R) \in R /\ R \ {Any(R)} \in SUBSET D /\ Cardinality(R \ {Any(R)}) = Cardinality(R) - 1
        BY <1>1, <1>3, <3>2
      <4>2. Cardinality(R \ {Any(R)}) <= m
        BY <4>1, <1>2, <2>2, <1>5 DEF P
      <4>3. T[R \ {Any(R)}] \in Int
        BY <2>1, <4>1, <4>2 DEF Adds
      <4>4. v[Any(R)] \in Int /\ T[R] = v[Any(R)] + T[R \ {Any(R)}]
        BY <1>0, <3>2, <4>1
      <4> DEFINE x == v[Any(R)]
                 y == T[R \ {Any(R)}]
      <4>5. x \in Int /\ y \in Int /\ T[R] = x + y
        BY <4>3, <4>4
      <4> HIDE DEF x, y
      <4> QED
        BY ONLY <4>5
    <3> QED
      BY <3>1, <3>2
  <2>3. ASSUME NEW j \in D \ S PROVE T[S \cup {j}] = v[j] + T[S]
    <3> DEFINE U == S \cup {j}
               c == Any(U)
               R == S \ {c}
    <3>1. U \in SUBSET D /\ U # {} /\ c \in U
      BY <1>1, <2>3
    <3>2. T[U] = v[c] + T[U \ {c}]
      BY <1>0, <3>1
    <3>3. CASE c = j
      <4>1. U \ {c} = S
        BY <3>3, <2>3
      <4> QED
        BY <3>2, <3>3, <4>1
    <3>4. CASE c # j
      <4>1. c \in S /\ c \in D /\ R \in SUBSET D /\ j \in D \ R /\ c \in D \ R
        BY <3>1, <3>4, <2>3
      <4>2. Cardinality(R) <= m /\ R \cup {c} = S /\ U \ {c} = R \cup {j}
        <5>1. Cardinality(R) = Cardinality(S) - 1
          BY <1>3, <4>1
        <5>2. R \cup {c} = S /\ U \ {c} = R \cup {j}
          BY <4>1, <3>4
        <5>3. m \in Nat /\ Cardinality(S) \in Nat /\ Cardinality(S) <= m + 1
          BY <1>2, <1>5 DEF P
        <5> HIDE DEF U, R, c
        <5>4. Cardinality(R) <= m
          BY ONLY <5>1, <5>3
        <5> QED
          BY <5>2, <5>4
      <4>3. T[R] \in Int /\ T[R \cup {j}] = v[j] + T[R] /\ T[R \cup {c}] = v[c] + T[R]
        BY <2>1, <4>1, <4>2 DEF Adds
      <4>4. v[j] \in Int /\ v[c] \in Int
        BY <4>1
      <4> HIDE DEF U, R, c
      <4>5. T[U] = v[c] + (v[j] + T[R]) /\ T[S] = v[c] + T[R]
        BY <3>2, <4>2, <4>3
      <4> QED
        BY <4>3, <4>4, <4>5 DEF U
    <3> QED
      BY <3>3, <3>4
  <2> QED
    BY <2>2, <2>3 DEF Adds
<1>6. P = Nat
  BY <1>4, <1>5, NatSets
<1> QED
  BY <1>2, <1>6 DEF Additive

(* There is such a sum.                                                      *)
LEMMA SumExists ==
  ASSUME NEW D, IsFiniteSet(D), NEW v
  PROVE  \E T : T = [S \in SUBSET D |-> T[S]] /\ IsSum(T, v, D)
<1> DEFINE Step(T, S) == IF S = {} THEN 0 ELSE v[Any(S)] + T[S \ {Any(S)}]
           Sums(T, m) == \A S \in SUBSET D : Cardinality(S) <= m => T[S] = Step(T, S)
           P == {m \in Nat : \E T : Sums(T, m)}
<1>1. \A S \in SUBSET D : IsFiniteSet(S) /\ Cardinality(S) \in Nat
  BY FS_Subset, FS_CardinalityType
<1>2. \A S \in SUBSET D : S # {} => /\ S \ {Any(S)} \in SUBSET D
                                    /\ Cardinality(S \ {Any(S)}) = Cardinality(S) - 1
  BY <1>1, FS_RemoveElement DEF Any
<1>3. 0 \in P
  <2> DEFINE T == [S \in SUBSET D |-> 0]
  <2>1. Sums(T, 0)
    BY <1>1, FS_EmptySet
  <2> QED
    BY <2>1
<1>4. ASSUME NEW m \in P PROVE m + 1 \in P
  <2>1. PICK T : Sums(T, m)
    BY <1>4
  <2> DEFINE U == [S \in SUBSET D |-> Step(T, S)]
  <2>2. ASSUME NEW S \in SUBSET D, Cardinality(S) <= m + 1
        PROVE  U[S] = Step(U, S)
    <3>1. U[S] = Step(T, S)
      OBVIOUS
    <3>2. CASE S = {}
      BY <3>1, <3>2
    <3>3. CASE S # {}
      <4> DEFINE R == S \ {Any(S)}
      <4>1. R \in SUBSET D /\ Cardinality(R) <= m
        BY <1>1, <1>2, <1>4, <2>2, <3>3
      <4>2. U[R] = Step(T, R) /\ T[R] = Step(T, R)
        BY <2>1, <4>1
      <4> HIDE DEF U
      <4> QED
        BY <3>1, <3>3, <4>2
    <3> QED
      BY <3>2, <3>3
  <2> HIDE DEF U, Step
  <2>3. Sums(U, m + 1)
    BY <2>2
  <2> QED
    BY <1>4, <2>3
<1>5. P = Nat
  <2>1. P \in SUBSET Nat
    OBVIOUS
  <2> HIDE DEF P
  <2> QED
    BY <1>3, <1>4, <2>1, NatSets
<1>6. Cardinality(D) \in Nat /\ \A S \in SUBSET D : Cardinality(S) <= Cardinality(D)
  BY FS_Subset, FS_CardinalityType
<1>7. PICK T : Sums(T, Cardinality(D))
  BY <1>5, <1>6
<1> DEFINE U == [S \in SUBSET D |-> T[S]]
<1>8. U = [S \in SUBSET D |-> Step(U, S)]
  <2>1. ASSUME NEW S \in SUBSET D PROVE T[S] = Step(U, S)
    <3>1. T[S] = Step(T, S)
      BY <1>6, <1>7
    <3>2. S # {} => U[S \ {Any(S)}] = T[S \ {Any(S)}]
      BY <1>2
    <3> HIDE DEF U
    <3> QED
      BY <3>1, <3>2
  <2> HIDE DEF Step
  <2> QED
    BY <2>1
<1> HIDE DEF U
<1>9. U = [S \in SUBSET D |-> U[S]] /\ \A S \in SUBSET D : U[S] = Step(U, S)
  <2> HIDE DEF Step
  <2> QED
    BY <1>8
<1> QED
  BY <1>9 DEF IsSum

(* The sum of the cells of a column, over any set of records.                *)
Column(i) == [j \in 1..Len(records) |-> Number(i, records[j][i])]
LEMMA TotalIs ==
  ASSUME RecordsInv, NEW i
  PROVE  IsSum(Total(i), Column(i), 1..Len(records))
<1> DEFINE D == 1..Len(records)
           v == Column(i)
           Step(T, S) == IF S = {} THEN 0
                         ELSE LET j == CHOOSE j \in S : TRUE IN Number(i, records[j][i]) + T[S \ {j}]
           P(T) == T = [S \in SUBSET D |-> Step(T, S)]
<1>1. IsFiniteSet(D)
  BY FS_Interval DEF RecordsInv
<1>2. \A S \in SUBSET D : S # {} => Any(S) \in D /\ v[Any(S)] = Number(i, records[Any(S)][i])
  BY DEF Any, Column
<1>3. PICK T : T = [S \in SUBSET D |-> T[S]] /\ IsSum(T, v, D)
  <2> HIDE DEF D, v
  <2> QED
    BY <1>1, SumExists
<1>4. P(T)
  <2>1. \A S \in SUBSET D : T[S] = Step(T, S)
    BY <1>2, <1>3 DEF Any, IsSum
  <2> HIDE DEF Step, v, D
  <2> QED
    BY <1>3, <2>1
<1>5. Total(i) = CHOOSE U : P(U)
  BY DEF Total
<1>6. P(Total(i))
  <2> HIDE DEF P
  <2> QED
    BY <1>4, <1>5
<1>7. \A S \in SUBSET D : Total(i)[S] = Step(Total(i), S)
  <2> HIDE DEF Step
  <2> QED
    BY <1>6
<1> HIDE DEF D
<1>8. \A S \in SUBSET D : Step(Total(i), S) = IF S = {} THEN 0 ELSE v[Any(S)] + Total(i)[S \ {Any(S)}]
  <2> HIDE DEF v
  <2> QED
    BY <1>2 DEF Any
<1> HIDE DEF v, Step
<1> QED
  BY <1>7, <1>8 DEF IsSum, v, D

(* d are the groups of the first m records.                                  *)
SumsTo(d, m) ==
  \A k \in DOMAIN d : \A i \in DOMAIN stmt.fields :
    stmt.fields[i].fn = "SUM" => d[k][i].v = Total(i)[GivenOf(i, MembersTo(k, m))]
SumInv == SumsTo(data, n)

LEMMA SumInit == Init => SumInv
  BY DEF Init, SumInv, SumsTo

LEMMA SumAfter ==
  ASSUME StmtInv, RecordsInv, n < Len(records), ~CellOutOfRange(records[n + 1]), DataRight(data, n),
         SumsTo(data, n), NEW i \in DOMAIN stmt.fields, stmt.fields[i].fn = "SUM"
  PROVE  RowAfter(n + 1)[i].v = Total(i)[GivenOf(i, MembersTo(Key(n + 1), n) \cup {n + 1})]
<1> DEFINE j == n + 1
           k == Key(j)
           M == MembersTo(k, n)
           G == GivenOf(i, M)
           c == records[j][i]
           a == IF k \in DOMAIN data THEN data[k][i] ELSE None
<1>1. j \in 1..Len(records) /\ n \in Nat
  BY DEF RecordsInv
<1>2. G \in SUBSET (1..Len(records)) /\ j \notin G /\ j \notin M
  BY <1>1 DEF GivenOf, MembersTo
<1>3. i \in 1..Width
  <2>1. records[j] \in [1..Width -> Cell]
    BY <1>1, ElementOfSeq DEF RecordsInv
  <2>2. Width \in Nat
    BY StmtIs, FieldsKeptIs DEF StmtInv, Width
  <2>3. Len(records[j]) = Width
    BY <2>1, <2>2
  <2>4. ~(i > Len(records[j]))
    BY DEF CellOutOfRange
  <2> QED
    BY <2>2, <2>3, <2>4, FieldIs
<1>4. Column(i) \in [1..Len(records) -> Int] /\ IsFiniteSet(1..Len(records))
  <2>1. \A m \in 1..Len(records) : Number(i, records[m][i]) \in Int
    BY <1>3, NumberIs
  <2>2. 1 \in Int /\ Len(records) \in Int
    BY <1>1 DEF RecordsInv
  <2>3. IsFiniteSet(1..Len(records))
    BY <2>2, FS_Interval
  <2> QED
    BY <2>1, <2>3 DEF Column
<1>5. /\ Total(i)[{}] = 0 /\ Total(i)[G] \in Int
      /\ Total(i)[G \cup {j}] = Column(i)[j] + Total(i)[G]
  <2>1. /\ \A S \in SUBSET (1..Len(records)) : Total(i)[S] \in Int
        /\ \A S \in SUBSET (1..Len(records)) : \A m \in (1..Len(records)) \ S :
             Total(i)[S \cup {m}] = Column(i)[m] + Total(i)[S]
    <3> DEFINE D == 1..Len(records)
               v == Column(i)
               T == Total(i)
    <3>1. IsSum(T, v, D)
      BY TotalIs
    <3>2. v \in [D -> Int] /\ IsFiniteSet(D)
      BY <1>4
    <3> HIDE DEF D, v, T
    <3>3. Additive(T, v, D)
      BY <3>1, <3>2, SumAdds
    <3> QED
      BY <3>3 DEF Additive, D, v, T
  <2>2. Total(i)[{}] = 0
    BY TotalIs DEF IsSum
  <2> HIDE DEF G, j
  <2> QED
    BY <1>1, <1>2, <2>1, <2>2
<1>6. a.v = Total(i)[G]
  <2>1. CASE k \in DOMAIN data
    BY <2>1 DEF SumsTo
  <2>2. CASE k \notin DOMAIN data
    <3>1. G = {}
      BY <2>2 DEF DataRight, MembersTo, GivenOf
    <3> QED
      BY <1>5, <2>2, <3>1 DEF None
  <2> QED
    BY <2>1, <2>2
<1>7. RowAfter(j)[i] = Aggregate(i, a, c)
  BY DEF RowAfter
<1>8. CASE Valid(i, c)
  <2>1. GivenOf(i, M \cup {j}) = G \cup {j}
    BY <1>8 DEF GivenOf
  <2>2. Aggregate(i, a, c) = [v |-> a.v + Number(i, c), valid |-> TRUE]
    BY <1>8 DEF Aggregate
  <2>3. Column(i)[j] = Number(i, c) /\ Number(i, c) \in Int
    BY <1>1, <1>3, NumberIs DEF Column
  <2> HIDE DEF a, c, G, M, k
  <2>4. RowAfter(j)[i].v = a.v + Number(i, c)
    BY <1>7, <2>2
  <2>5. Total(i)[GivenOf(i, M \cup {j})] = Number(i, c) + Total(i)[G]
    BY <1>5, <2>1, <2>3
  <2> QED
    BY <1>5, <1>6, <2>3, <2>4, <2>5 DEF M, k
<1>9. CASE ~Valid(i, c)
  <2>1. GivenOf(i, M \cup {j}) = G
    BY <1>9 DEF GivenOf
  <2>2. Aggregate(i, a, c) = a
    BY <1>9 DEF Aggregate
  <2> HIDE DEF a, c, G
  <2> QED
    BY <1>6, <1>7, <2>1, <2>2
<1> QED
  BY <1>8, <1>9

LEMMA SumStep == StmtInv /\ RecordsInv /\ DataInv /\ SumInv /\ [Next]_vars => SumInv'
<1> SUFFICES ASSUME StmtInv, RecordsInv, DataInv, SumInv, [Next]_vars PROVE SumInv'
  OBVIOUS
<1>1. ASSUME UNCHANGED data, DOMAIN data = {}
      PROVE  SumInv'
  BY <1>1 DEF SumInv, SumsTo
<1>2. ASSUME UNCHANGED <<stmt, records>>, NEW d, NEW m, d = data', m = n', SumsTo(d, m)
      PROVE  SumInv'
  <2>1. ASSUME NEW j
        PROVE  Key(j)' = Key(j)
    BY <1>2 DEF Key, UseAggregate, DistinctList, Enumerated
  <2>2. ASSUME NEW k \in DOMAIN data', NEW i \in DOMAIN stmt'.fields, stmt'.fields[i].fn = "SUM"
        PROVE  (data[k][i].v = Total(i)[GivenOf(i, MembersTo(k, n))])'
    <3>1. GivenOf(i, MembersTo(k, n))' = GivenOf(i, MembersTo(k, m))
      BY <1>2, <2>1 DEF MembersTo, GivenOf, Valid
    <3>2. Total(i)' = Total(i)
      BY <1>2 DEF Total, Number
    <3>3. d[k][i].v = Total(i)[GivenOf(i, MembersTo(k, m))]
      BY <1>2, <2>2 DEF SumsTo
    <3> QED
      BY <1>2, <3>1, <3>2, <3>3
  <2> QED
    BY <2>2 DEF SumInv, SumsTo
<1>3. ASSUME UNCHANGED <<stmt, records, data, n>>
      PROVE  SumInv'
  BY <1>2, <1>3 DEF SumInv
<1>4. ASSUME UNCHANGED <<data, n>>, pc \in {"parsed", "fetch"}
      PROVE  SumInv'
  <2>1. n = 0
    BY <1>4 DEF RecordsInv
  <2>2. DOMAIN data = {}
    BY <2>1 DEF DataInv, DataRight
  <2> QED
    BY <1>1, <1>4, <2>2
<1>5. CASE EmbellishTable
  BY <1>4, <1>5 DEF EmbellishTable
<1>6. CASE EmbellishView
  BY <1>4, <1>6 DEF EmbellishView
<1>7. CASE Fetch
  BY <1>4, <1>7 DEF Fetch
<1>8. CASE AddRow
  <2>1. CASE UNCHANGED <<n, data>>
    BY <1>3, <1>8, <2>1 DEF AddRow
  <2>2. CASE ~UNCHANGED <<n, data>>
    <3> DEFINE d == [k \in DOMAIN data \cup {Key(n + 1)} |->
                       IF k = Key(n + 1) THEN RowAfter(n + 1) ELSE data[k]]
    <3>1. /\ UNCHANGED <<stmt, records>> /\ n < Len(records) /\ ~CellOutOfRange(records[n + 1])
          /\ n' = n + 1 /\ data' = d
      BY <1>8, <2>2 DEF AddRow
    <3>2. ASSUME NEW k \in DOMAIN d, NEW i \in DOMAIN stmt.fields, stmt.fields[i].fn = "SUM"
          PROVE  d[k][i].v = Total(i)[GivenOf(i, MembersTo(k, n + 1))]
      <4>1. n \in Nat
        BY DEF RecordsInv
      <4>2. CASE k = Key(n + 1)
        <5>1. MembersTo(k, n + 1) = MembersTo(Key(n + 1), n) \cup {n + 1}
          BY <4>1, <4>2 DEF MembersTo
        <5>2. d[k] = RowAfter(n + 1)
          BY <4>2
        <5> HIDE DEF d
        <5> QED
          BY <3>1, <3>2, <5>1, <5>2, SumAfter DEF DataInv, SumInv
      <4>3. CASE k # Key(n + 1)
        <5>1. k \in DOMAIN data /\ d[k] = data[k]
          BY <4>3
        <5>2. MembersTo(k, n + 1) = MembersTo(k, n)
          BY <4>1, <4>3 DEF MembersTo
        <5> HIDE DEF d
        <5> QED
          BY <3>2, <5>1, <5>2 DEF SumInv, SumsTo
      <4> QED
        BY <4>2, <4>3
    <3> HIDE DEF d
    <3>3. SumsTo(d, n + 1)
      BY <3>2 DEF SumsTo
    <3> QED
      BY <1>2, <3>1, <3>3
  <2> QED
    BY <2>1, <2>2
<1>9. CASE Collect
  BY <1>3, <1>9 DEF Collect
<1>10. CASE Sort
  BY <1>3, <1>10 DEF Sort
<1>11. CASE Limit
  BY <1>3, <1>11 DEF Limit
<1>12. CASE NextRow
  BY <1>3, <1>12 DEF NextRow
<1>13. CASE NoColumns
  BY <1>3, <1>13 DEF NoColumns
<1>14. CASE UNCHANGED vars
  BY <1>3, <1>14 DEF vars
<1> QED
  BY <1>5, <1>6, <1>7, <1>8, <1>9, <1>10, <1>11, <1>12, <1>13, <1>14 DEF Next

(* aggregateData: the SUM of a group is that of its records that have a      *)
(* value, each counted once, in whatever order they are summed up.           *)
THEOREM SumsAreRightHolds == Spec => []SumsAreRight
<1>1. SumInv => SumsAreRight
  <2> SUFFICES ASSUME SumInv, NEW k \in DOMAIN data, NEW i \in DOMAIN stmt.fields,
                      stmt.fields[i].fn = "SUM"
               PROVE  data[k][i].v = Total(i)[Given(k, i)]
    BY DEF SumsAreRight
  <2>1. Given(k, i) = GivenOf(i, MembersTo(k, n))
    BY DEF Given, GivenOf, Members, MembersTo
  <2> QED
    BY <2>1 DEF SumInv, SumsTo
<1>2. Init => SumInv
  BY SumInit
<1>3. Inv /\ SumInv /\ [Next]_vars => SumInv'
  BY SumStep DEF Inv
<1> QED
  BY <1>1, <1>2, <1>3, Invariance, PTL DEF Spec
=============================================================================
