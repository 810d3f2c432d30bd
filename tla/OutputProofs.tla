---------------------------- MODULE OutputProofs ----------------------------
(* Proofs about Cells and Output, for every input, every length of a head    *)
(* and of a word, and every number of faults.                                *)
EXTENDS Output, FiniteSetTheorems, SequenceTheorems, WellFoundedInduction, TLAPS

----------------------------------------------------------------------------
(* Induction over naturals and over the records of a column. *)

(* A property that is given as the set of the naturals that have it.         *)
LEMMA NatSets ==
  ASSUME NEW S \in SUBSET Nat, 0 \in S, \A m \in S : m + 1 \in S
  PROVE  S = Nat
<1>1. CASE Nat \ S # {}
  <2>1. IsWellFoundedOn(OpToRel(<, Nat), Nat)
    BY NatLessThanWellFounded
  <2>2. \E x \in Nat \ S : \A y \in Nat \ S : ~(<<y, x>> \in OpToRel(<, Nat))
    BY <1>1, <2>1, WFMin
  <2>3. PICK x \in Nat \ S : \A y \in Nat \ S : ~(y < x)
    BY <2>2 DEF OpToRel
  <2>4. x # 0 /\ x - 1 \in Nat /\ x - 1 < x
    BY <2>3
  <2>5. x - 1 + 1 \in S
    BY <2>3, <2>4
  <2> QED
    BY <2>3, <2>5
<1> QED
  BY <1>1

(* What FoldLeft folds over: the sets of the positions, the last one first.  *)
Folding(f, kind, method, records, n) ==
  \A s \in SUBSET (1..n) :
    f[s] = IF s = {} THEN Empty ELSE Add(kind, method, f[s \ {Max(s)}], records[Max(s)])

(* The largest of a finite set of positions. *)
LEMMA MaxOfSet ==
  ASSUME NEW n \in Nat, NEW s \in SUBSET (1..n), s # {}
  PROVE  Max(s) \in s /\ \A j \in s : j <= Max(s)
<1> DEFINE S == {n - j : j \in s}
<1>1. S \in SUBSET Nat /\ S # {}
  <2>1. \A j \in s : j \in Int /\ n - j \in Nat
    OBVIOUS
  <2> QED
    BY <2>1
<1>2. IsWellFoundedOn(OpToRel(<, Nat), Nat)
  BY NatLessThanWellFounded
<1>3. PICK x \in S : \A y \in S : ~(<<y, x>> \in OpToRel(<, Nat))
  BY <1>1, <1>2, WFMin
<1>4. \A y \in S : ~(y < x)
  BY <1>1, <1>3 DEF OpToRel
<1>5. PICK j \in s : x = n - j
  BY <1>3
<1>6. \A k \in s : j >= k
  <2>1. \A k \in s : k \in Int /\ j \in Int /\ ~(n - k < n - j)
    BY <1>4, <1>5
  <2> QED
    BY <2>1
<1> QED
  BY <1>5, <1>6 DEF Max

LEMMA FoldingExists ==
  ASSUME NEW kind, NEW method, NEW records, NEW n \in Nat
  PROVE  \E f : f = [s \in SUBSET (1..n) |-> f[s]] /\ Folding(f, kind, method, records, n)
<1> DEFINE D == SUBSET (1..n)
           Step(f, s) == IF s = {} THEN Empty ELSE Add(kind, method, f[s \ {Max(s)}], records[Max(s)])
           Folds(f, m) == \A s \in D : Cardinality(s) <= m => f[s] = Step(f, s)
           P == {m \in Nat : \E f : Folds(f, m)}
<1>1. IsFiniteSet(1..n) /\ \A s \in D : IsFiniteSet(s) /\ Cardinality(s) \in Nat
  <2>1. IsFiniteSet(1..n)
    <3>1. 1 \in Int /\ n \in Int
      OBVIOUS
    <3> QED
      BY <3>1, FS_Interval
  <2> QED
    BY <2>1, FS_Subset, FS_CardinalityType
<1>2. \A s \in D : s # {} => s \ {Max(s)} \in D /\ Cardinality(s \ {Max(s)}) = Cardinality(s) - 1
  BY <1>1, MaxOfSet, FS_RemoveElement
<1>3. 0 \in P
  <2> DEFINE f == [s \in D |-> Empty]
  <2>1. Folds(f, 0)
    BY <1>1, FS_EmptySet
  <2> QED
    BY <2>1
<1>4. ASSUME NEW m \in P PROVE m + 1 \in P
  <2>1. PICK f : Folds(f, m)
    BY <1>4
  <2> DEFINE u == [s \in D |-> Step(f, s)]
  <2>2. ASSUME NEW s \in D, Cardinality(s) <= m + 1
        PROVE  u[s] = Step(u, s)
    <3>1. u[s] = Step(f, s)
      OBVIOUS
    <3>2. CASE s = {}
      BY <3>1, <3>2
    <3>3. CASE s # {}
      <4> DEFINE r == s \ {Max(s)}
      <4>1. r \in D /\ Cardinality(r) <= m
        <5>1. r \in D /\ Cardinality(r) = Cardinality(s) - 1
          BY <1>2, <3>3
        <5>2. m \in Nat /\ Cardinality(s) \in Nat
          BY <1>1, <1>4
        <5> HIDE DEF D, r, P
        <5> QED
          BY <2>2, <5>1, <5>2
      <4>2. u[r] = Step(f, r) /\ f[r] = Step(f, r)
        BY <2>1, <4>1
      <4> HIDE DEF u
      <4> QED
        BY <3>1, <3>3, <4>2
    <3> QED
      BY <3>2, <3>3
  <2> HIDE DEF u, Step
  <2>3. Folds(u, m + 1)
    BY <2>2
  <2> QED
    BY <1>4, <2>3
<1>5. P = Nat
  <2>1. P \in SUBSET Nat
    OBVIOUS
  <2> HIDE DEF P
  <2> QED
    BY <1>3, <1>4, <2>1, NatSets
<1>6. Cardinality(1..n) \in Nat /\ \A s \in D : Cardinality(s) <= Cardinality(1..n)
  BY <1>1, FS_Subset, FS_CardinalityType
<1>7. PICK f : Folds(f, Cardinality(1..n))
  BY <1>5, <1>6
<1> DEFINE u == [s \in D |-> f[s]]
<1>8. ASSUME NEW s \in D PROVE u[s] = Step(u, s)
  <2>1. f[s] = Step(f, s) /\ u[s] = f[s]
    BY <1>6, <1>7
  <2>2. s # {} => u[s \ {Max(s)}] = f[s \ {Max(s)}]
    BY <1>2
  <2> HIDE DEF u
  <2> QED
    BY <2>1, <2>2
<1>9. u = [s \in D |-> u[s]]
  OBVIOUS
<1> HIDE DEF u
<1> QED
  BY <1>8, <1>9 DEF Folding

(* AggregateData adds the records one by one: it is the last of a sequence   *)
(* of results that begins with the empty one.                                *)
Adding(a, kind, method, records) ==
  /\ a[0] = Empty
  /\ \A k \in 1..Len(records) : a[k] = Add(kind, method, a[k - 1], records[k])
  /\ AggregateData(kind, method, records) = a[Len(records)]
LEMMA AddsOneByOne ==
  ASSUME NEW kind, NEW method, NEW R, NEW records \in Seq(R)
  PROVE  \E a : Adding(a, kind, method, records)
<1> DEFINE n == Len(records)
           D == SUBSET (1..n)
           Step(f, s) == IF s = {} THEN Empty ELSE Add(kind, method, f[s \ {Max(s)}], records[Max(s)])
           P(f) == f = [s \in D |-> Step(f, s)]
<1>1. n \in Nat /\ DOMAIN records = 1..n
  OBVIOUS
<1>2. PICK g : g = [s \in D |-> g[s]] /\ Folding(g, kind, method, records, n)
  <2> HIDE DEF n
  <2> QED
    BY <1>1, FoldingExists
<1>3. P(g)
  <2>1. \A s \in D : g[s] = Step(g, s)
    <3> HIDE DEF n
    <3> QED
      BY <1>2 DEF Folding
  <2> HIDE DEF Step
  <2> QED
    BY <1>2, <2>1
<1>4. AggregateData(kind, method, records) = (CHOOSE f : P(f))[1..n]
  BY <1>1, Zenon DEF AggregateData, FoldLeft, MapThenFoldSet
<1> DEFINE f == CHOOSE f : P(f)
<1>5. P(f)
  <2> HIDE DEF P
  <2> QED
    BY <1>3
<1>6. \A s \in D : f[s] = Step(f, s)
  <2> HIDE DEF f, Step
  <2> QED
    BY <1>5
<1> HIDE DEF f, P
<1> DEFINE a == [k \in 0..n |-> f[1..k]]
<1>7. a[0] = Empty
  <2>1. 1..0 = {} /\ 1..0 \in D /\ 0 \in 0..n
    BY <1>1
  <2>2. f[1..0] = Empty
    BY <1>6, <2>1
  <2> QED
    BY <2>1, <2>2
<1>8. ASSUME NEW k \in 1..n PROVE a[k] = Add(kind, method, a[k - 1], records[k])
  <2>1. 1..k \in D /\ 1..k # {} /\ k \in 0..n /\ k - 1 \in 0..n
    <3>1. k \in 1..k /\ k \in 0..n /\ k - 1 \in 0..n
      BY <1>1
    <3>2. \A j \in 1..k : j \in 1..n
      BY <1>1
    <3> QED
      BY <3>1, <3>2
  <2>2. Max(1..k) = k
    <3>1. Max(1..k) \in 1..k /\ \A j \in 1..k : j <= Max(1..k)
      <4> HIDE DEF n
      <4> QED
        BY <1>1, <2>1, MaxOfSet
    <3> QED
      BY <3>1
  <2>3. (1..k) \ {k} = 1..(k - 1)
    BY <1>1
  <2>4. f[1..k] = Add(kind, method, f[1..(k - 1)], records[k])
    BY <1>6, <2>1, <2>2, <2>3
  <2> QED
    BY <2>1, <2>4
<1>9. AggregateData(kind, method, records) = a[n]
  BY <1>1, <1>4 DEF f
<1> HIDE DEF a
<1> QED
  BY <1>7, <1>8, <1>9 DEF Adding

----------------------------------------------------------------------------
(* The number of digits. *)

OneDigit(f, n) == f[n] = IF n < 10 THEN 1 ELSE 1 + f[n \div 10]
Below(f, m) == \A n \in Nat : n < m => OneDigit(f, n)
LEMMA BelowAgrees ==
  ASSUME NEW f, NEW g, NEW m \in Nat, Below(f, m), Below(g, m)
  PROVE  \A n \in Nat : n < m => f[n] = g[n]
<1> DEFINE Same(k) == \A n \in Nat : n < k => f[n] = g[n]
           P == {k \in Nat : k <= m => Same(k)}
<1>1. 0 \in P
  OBVIOUS
<1>2. ASSUME NEW k \in P PROVE k + 1 \in P
  <2>1. k \in Nat /\ (k <= m => Same(k))
    BY <1>2
  <2>2. ASSUME k + 1 <= m, NEW n \in Nat, n < k + 1
        PROVE  f[n] = g[n]
    <3>1. OneDigit(f, n) /\ OneDigit(g, n)
      BY <2>1, <2>2 DEF Below
    <3>2. CASE n < 10
      BY <3>1, <3>2 DEF OneDigit
    <3>3. CASE ~(n < 10)
      <4>1. n \div 10 \in Nat /\ n \div 10 < k
        BY <2>1, <2>2, <3>3
      <4>2. f[n \div 10] = g[n \div 10]
        BY <2>1, <2>2, <4>1
      <4> QED
        BY <3>1, <3>3, <4>2 DEF OneDigit
    <3> QED
      BY <3>2, <3>3
  <2>3. k + 1 <= m => Same(k + 1)
    BY <2>2
  <2> HIDE DEF Same
  <2> QED
    BY <2>1, <2>3
<1>3. P = Nat
  <2>1. P \in SUBSET Nat
    OBVIOUS
  <2> HIDE DEF P
  <2> QED
    BY <1>1, <1>2, <2>1, NatSets
<1>4. Same(m)
  <2> HIDE DEF Same
  <2> QED
    BY <1>3
<1> QED
  BY <1>4

LEMMA BelowExists ==
  ASSUME NEW m \in Nat
  PROVE  \E f : Below(f, m)
<1> DEFINE P == {k \in Nat : \E f : Below(f, k)}
<1>1. 0 \in P
  BY DEF Below
<1>2. ASSUME NEW k \in P PROVE k + 1 \in P
  <2>1. k \in Nat /\ \E f : Below(f, k)
    BY <1>2
  <2>2. PICK f : Below(f, k)
    BY <2>1
  <2> DEFINE u == [n \in Nat |-> IF n < 10 THEN 1 ELSE 1 + f[n \div 10]]
  <2>3. ASSUME NEW n \in Nat, n < k + 1 PROVE OneDigit(u, n)
    <3>1. CASE n < 10
      BY <3>1 DEF OneDigit
    <3>2. CASE ~(n < 10)
      <4>1. n \div 10 \in Nat /\ n \div 10 < k
        BY <2>1, <2>3, <3>2
      <4>2. OneDigit(f, n \div 10)
        BY <2>2, <4>1 DEF Below
      <4>3. u[n \div 10] = f[n \div 10]
        BY <4>1, <4>2 DEF OneDigit
      <4>4. u[n] = 1 + f[n \div 10]
        BY <3>2
      <4> HIDE DEF u
      <4> QED
        BY <3>2, <4>3, <4>4 DEF OneDigit
    <3> QED
      BY <3>1, <3>2
  <2> HIDE DEF u
  <2>4. Below(u, k + 1)
    BY <2>3 DEF Below
  <2> QED
    BY <2>1, <2>4
<1>3. P = Nat
  <2>1. P \in SUBSET Nat
    OBVIOUS
  <2> HIDE DEF P
  <2> QED
    BY <1>1, <1>2, <2>1, NatSets
<1> QED
  BY <1>3

LEMMA DigitsAre ==
  \A n \in Nat : OneDigit(Digits, n)
<1> DEFINE Some(n) == CHOOSE f : Below(f, n + 1)
           d == [n \in Nat |-> Some(n)[n]]
           Step(f, n) == IF n < 10 THEN 1 ELSE 1 + f[n \div 10]
           P(f) == f = [n \in Nat |-> Step(f, n)]
<1>1. \A n \in Nat : Below(Some(n), n + 1)
  <2>1. ASSUME NEW n \in Nat PROVE Below(Some(n), n + 1)
    <3>1. n + 1 \in Nat
      OBVIOUS
    <3>2. \E f : Below(f, n + 1)
      BY <3>1, BelowExists
    <3> QED
      BY <3>2
  <2> QED
    BY <2>1
<1>2. \A n \in Nat : d[n] = Some(n)[n]
  OBVIOUS
<1>3. d = [n \in Nat |-> d[n]]
  OBVIOUS
<1> HIDE DEF Some, d
<1>4. ASSUME NEW n \in Nat PROVE d[n] = Step(d, n)
  <2>1. OneDigit(Some(n), n)
    BY <1>1 DEF Below
  <2>2. CASE n < 10
    BY <1>2, <2>1, <2>2 DEF OneDigit
  <2>3. CASE ~(n < 10)
    <3> DEFINE q == n \div 10
    <3>1. q \in Nat /\ q + 1 \in Nat /\ q + 1 <= n + 1 /\ q < q + 1
      BY <2>3
    <3>2. Below(Some(n), q + 1) /\ Below(Some(q), q + 1)
      <4> HIDE DEF q
      <4>1. \A j \in Nat : j < q + 1 => j < n + 1
        BY <3>1
      <4> QED
        BY <1>1, <3>1, <4>1 DEF Below
    <3>3. Some(n)[q] = Some(q)[q]
      <4> HIDE DEF q
      <4> QED
        BY <3>1, <3>2, BelowAgrees
    <3> QED
      BY <1>2, <2>1, <2>3, <3>1, <3>3 DEF OneDigit
  <2> QED
    BY <2>2, <2>3
<1>5. P(d)
  <2> HIDE DEF Step
  <2> QED
    BY <1>3, <1>4
<1>6. Digits = CHOOSE f : P(f)
  BY Zenon DEF Digits
<1>7. P(Digits)
  <2> HIDE DEF P
  <2> QED
    BY <1>5, <1>6
<1>8. \A n \in Nat : Digits[n] = Step(Digits, n)
  <2> HIDE DEF Step
  <2> QED
    BY <1>7
<1> QED
  BY <1>8 DEF OneDigit

(* The next number has as many digits, or one more. *)
DigitsGrow(n) == Digits[n] \in Nat \ {0} /\ Digits[n + 1] \in {Digits[n], Digits[n] + 1}
LEMMA DigitsGrowSlowly ==
  \A n \in Nat : DigitsGrow(n)
<1> DEFINE P == {k \in Nat : \A n \in Nat : n < k => DigitsGrow(n)}
<1>1. 0 \in P
  OBVIOUS
<1>2. ASSUME NEW k \in P PROVE k + 1 \in P
  <2>1. k \in Nat /\ \A n \in Nat : n < k => DigitsGrow(n)
    BY <1>2
  <2>2. OneDigit(Digits, k) /\ OneDigit(Digits, k + 1)
    BY <2>1, DigitsAre
  <2>3. DigitsGrow(k)
    <3>1. CASE k < 9
      BY <2>1, <2>2, <3>1 DEF OneDigit, DigitsGrow
    <3>2. CASE k = 9
      <4>1. OneDigit(Digits, 1)
        BY DigitsAre
      <4> QED
        BY <2>2, <3>2, <4>1 DEF OneDigit, DigitsGrow
    <3>3. CASE k > 9
      <4>1. k \div 10 \in Nat /\ k \div 10 < k /\ (k + 1) \div 10 \in {k \div 10, k \div 10 + 1}
        BY <2>1, <3>3
      <4>2. DigitsGrow(k \div 10)
        BY <2>1, <4>1
      <4>3. Digits[k] = 1 + Digits[k \div 10] /\ Digits[k + 1] = 1 + Digits[(k + 1) \div 10]
        BY <2>1, <2>2, <3>3 DEF OneDigit
      <4> QED
        BY <4>1, <4>2, <4>3 DEF DigitsGrow
    <3> QED
      BY <2>1, <3>1, <3>2, <3>3
  <2> HIDE DEF DigitsGrow
  <2> QED
    BY <2>1, <2>3
<1>3. P = Nat
  <2>1. P \in SUBSET Nat
    OBVIOUS
  <2> HIDE DEF P
  <2> QED
    BY <1>1, <1>2, <2>1, NatSets
<1>4. \A n \in Nat : n + 1 \in P /\ n < n + 1
  <2> HIDE DEF P
  <2> QED
    BY <1>3
<1> QED
  BY <1>4

----------------------------------------------------------------------------
(* The texts, the values they are cast to, and what these show. *)

Kinds == {"LONG", "DOUBLE", "DATE", "STRING"}
Methods == {"none", "COUNT", "SUM", "MAX", "MIN"}

LEMMA WordLengths ==
  /\ \A w \in DOMAIN WordLen : WordLen[w] \in Nat /\ w # "none"
  /\ {"_--", "auto", "Excluded", "2006-01-02", "1483228800", "-62135596800"} \subseteq DOMAIN WordLen
  /\ WordLen["2006-01-02"] = 10
  BY NameAssumption DEF WordLen

LEMMA PrefixLengths ==
  /\ \A p \in DOMAIN PreLen : PreLen[p] \in Nat
  /\ DOMAIN PreLen = {"none", "<_", ">_", "auto", "auto:", "auto:_"}
  /\ PreLen["none"] = 0
<1>1. DOMAIN PreLen = {"none", "<_", ">_", "auto", "auto:", "auto:_"} /\ PreLen["none"] = 0
  BY DEF PreLen
<1>2. PreLen["<_"] = 2 /\ PreLen[">_"] = 2 /\ PreLen["auto"] = 4 /\ PreLen["auto:"] = 5 /\ PreLen["auto:_"] = 6
  BY DEF PreLen
<1> QED
  BY <1>1, <1>2

(* The fields of a text, and its length. *)
LEMMA TextIs ==
  ASSUME NEW t \in Texts
  PROVE  /\ t = [word |-> t.word, pre |-> t.pre, num |-> t.num, dec |-> t.dec, pct |-> t.pct]
         /\ t.num \in Nat /\ t.dec \in 0..3 /\ t.pct \in BOOLEAN /\ t.pre \in DOMAIN PreLen
         /\ t.word \in DOMAIN WordLen \cup {"none"}
         /\ t.word = "none" /\ t.dec = 2 => t.num % 10 = 0
         /\ t.word = "2006-01-02" => t = Date(t.num) /\ t.num # 0
         /\ t.word \notin {"none", "2006-01-02"} => t = Word(t.word)
  BY DEF Texts, Unit

LEMMA NumberLength ==
  ASSUME NEW pre \in DOMAIN PreLen, NEW n \in Nat, NEW dec \in 0..3, NEW pct \in BOOLEAN
  PROVE  /\ TextLen(Number(pre, n, dec, pct)) =
              PreLen[pre] + Digits[n \div 1000] + Decimals(dec) + (IF pct THEN 1 ELSE 0)
         /\ TextLen(Number(pre, n, dec, pct)) \in Nat
<1>1. n \div 1000 \in Nat /\ PreLen[pre] \in Nat /\ Decimals(dec) \in Nat
  BY PrefixLengths DEF Decimals
<1>2. Digits[n \div 1000] \in Nat
  BY <1>1, DigitsGrowSlowly DEF DigitsGrow
<1> QED
  BY <1>1, <1>2 DEF TextLen, Number

LEMMA PlainLength ==
  ASSUME NEW pre \in DOMAIN PreLen, NEW n \in Nat
  PROVE  TextLen(Number(pre, n, 0, FALSE)) \in Nat
<1>1. n \div 1000 \in Nat /\ PreLen[pre] \in Nat /\ Decimals(0) = 0
  BY PrefixLengths DEF Decimals
<1>2. Digits[n \div 1000] \in Nat
  BY <1>1, DigitsGrowSlowly DEF DigitsGrow
<1> QED
  BY <1>1, <1>2 DEF TextLen, Number

LEMMA WordLength ==
  ASSUME NEW t, t.word \in DOMAIN WordLen
  PROVE  TextLen(t) = WordLen[t.word] /\ TextLen(t) \in Nat
  BY WordLengths DEF TextLen

LEMMA TextLength ==
  ASSUME NEW t \in Texts
  PROVE  TextLen(t) \in Nat
<1>1. CASE t.word = "none"
  <2>1. t = Number(t.pre, t.num, t.dec, t.pct)
    BY <1>1, TextIs DEF Number
  <2> QED
    BY <2>1, TextIs, NumberLength
<1>2. CASE t.word # "none"
  BY <1>2, TextIs, WordLength
<1> QED
  BY <1>1, <1>2

(* What is cast from a text shows that text, and is no longer. *)
ShowsIt(kind, t) ==
  LET s == Value(Cast(kind, t))
  IN  /\ Bare(kind, s) = Bare(kind, t)
      /\ TextLen(s) \in Nat
      /\ TextLen(s) <= TextLen(t) \/ Widens(kind, t)
LEMMA SameShows ==
  ASSUME NEW kind, NEW t \in Texts, Value(Cast(kind, t)) = t
  PROVE  ShowsIt(kind, t)
  BY TextLength DEF ShowsIt

LEMMA LongShows ==
  ASSUME NEW t \in Texts, Cast("LONG", t) # Wrong
  PROVE  ShowsIt("LONG", t)
<1> DEFINE v == ParseLong(t)
<1>1. Value(Cast("LONG", t)) = Value(v)
  BY DEF Cast
<1>2. CASE t \in {Dash, Excluded, AutoText}
  <2>1. Value(v) = t
    BY <1>2 DEF ParseLong, Value, ShownLong, Known, Null, Dash, Excluded, AutoText, Word, Spelled, Number
  <2> QED
    BY <1>1, <2>1, SameShows
<1>3. CASE t \notin {Dash, Excluded, AutoText} /\ t.word = "none" /\ t.pre \in {"none", "auto:_", "auto"} /\ t.dec = 0 /\ ~t.pct
  <2>1. v = [Known("long", t.num) EXCEPT !.auto = t.pre # "none"]
    BY <1>3 DEF ParseLong
  <2>2. Value(v) = Number(IF t.pre # "none" THEN "auto:_" ELSE "none", t.num, 0, FALSE)
    BY <2>1 DEF Value, ShownLong, Known, Null
  <2>3. t = Number(t.pre, t.num, 0, FALSE)
    BY <1>3, TextIs DEF Number
  <2>4. CASE t.pre = "auto"
    <3>1. Value(v) = Number("auto:_", t.num, 0, FALSE)
      BY <2>2, <2>4
    <3>2. Bare("LONG", Number("auto:_", t.num, 0, FALSE)) = Bare("LONG", Number("auto", t.num, 0, FALSE))
      BY DEF Bare, Number
    <3>3. TextLen(Number("auto:_", t.num, 0, FALSE)) \in Nat
      <4>1. "auto:_" \in DOMAIN PreLen /\ t.num \in Nat /\ 0 \in 0..3 /\ FALSE \in BOOLEAN
        BY TextIs, PrefixLengths
      <4> QED
        BY <4>1, PlainLength
    <3> QED
      BY <1>1, <2>3, <2>4, <3>1, <3>2, <3>3 DEF ShowsIt, Widens
  <2>5. CASE t.pre # "auto"
    <3>1. Value(v) = t
      BY <1>3, <2>2, <2>3, <2>5
    <3> QED
      BY <1>1, <3>1, SameShows
  <2> QED
    BY <2>4, <2>5
<1> QED
  BY <1>2, <1>3 DEF Cast, ParseLong

LEMMA RoundedIs ==
  ASSUME NEW n \in Nat
  PROVE  /\ Rounded(n) \in Nat /\ Rounded(Rounded(n)) = Rounded(n)
         /\ n % 10 = 0 => Rounded(n) = n
         /\ Rounded(n) \div 1000 \in {n \div 1000, n \div 1000 + 1}
  BY DEF Rounded

LEMMA DoubleShows ==
  ASSUME NEW t \in Texts, Cast("DOUBLE", t) # Wrong
  PROVE  ShowsIt("DOUBLE", t)
<1> DEFINE v == ParseDouble(t)
           few == Number("<_", 10000, 0, t.pct)
           many == Number(">_", 90000, 0, t.pct)
<1>1. Value(Cast("DOUBLE", t)) = Value(v) /\ v # Wrong
  BY DEF Cast
<1>2. CASE t = Dash
  <2>1. Value(v) = t
    BY <1>2 DEF ParseDouble, Value, ShownDouble, Null, Dash, Word, Spelled, Number
  <2> QED
    BY <1>1, <2>1, SameShows
<1>3. CASE t # Dash /\ t = few
  <2>1. Value(v) = Number("<_", 10000, 0, t.pct)
    <3>1. v = [Known("double", 9999) EXCEPT !.almost = TRUE, !.pct = t.pct]
      BY <1>3 DEF ParseDouble, Number
    <3> QED
      BY <3>1 DEF Value, ShownDouble, Known, Null
  <2> QED
    BY <1>1, <1>3, <2>1, SameShows
<1>4. CASE t # Dash /\ t = many
  <2>1. Value(v) = Number(">_", 90000, 0, t.pct)
    <3>1. v = [Known("double", 90001) EXCEPT !.almost = TRUE, !.pct = t.pct]
      BY <1>4 DEF ParseDouble, Number
    <3> QED
      BY <3>1 DEF Value, ShownDouble, Known, Null
  <2> QED
    BY <1>1, <1>4, <2>1, SameShows
<1>5. CASE /\ t # Dash /\ t \notin {few, many}
           /\ t.word = "none" /\ t.pre = "none"
  <2>1. v = [Known("double", t.num) EXCEPT !.pct = t.pct]
    BY <1>5 DEF ParseDouble
  <2>2. Value(v) = Number("none", Rounded(t.num), 2, t.pct)
    BY <2>1, TextIs DEF Value, ShownDouble, Known, Null
  <2>3. t = Number("none", t.num, t.dec, t.pct)
    BY <1>5, TextIs DEF Number
  <2>4. Bare("DOUBLE", Value(v)) = Bare("DOUBLE", t)
    <3>1. Rounded(Rounded(t.num)) = Rounded(t.num)
      BY TextIs, RoundedIs
    <3> QED
      BY <2>2, <2>3, <3>1 DEF Bare, Cents, Number
  <2>5. /\ TextLen(Value(v)) = Digits[Rounded(t.num) \div 1000] + 3 + (IF t.pct THEN 1 ELSE 0)
        /\ TextLen(Value(v)) \in Nat
    <3>1. "none" \in DOMAIN PreLen /\ PreLen["none"] = 0 /\ Rounded(t.num) \in Nat /\ 2 \in 0..3 /\ t.pct \in BOOLEAN
      BY TextIs, RoundedIs, PrefixLengths
    <3>2. TextLen(Value(v)) = 0 + Digits[Rounded(t.num) \div 1000] + Decimals(2) + (IF t.pct THEN 1 ELSE 0)
      BY <2>2, <3>1, NumberLength
    <3>3. TextLen(Value(v)) \in Nat
      BY <2>2, <3>1, NumberLength
    <3>4. Rounded(t.num) \div 1000 \in Nat /\ Decimals(2) = 3
      BY <3>1 DEF Decimals
    <3>5. Digits[Rounded(t.num) \div 1000] \in Nat
      BY <3>4, DigitsGrowSlowly DEF DigitsGrow
    <3> QED
      BY <3>2, <3>3, <3>4, <3>5
  <2>6. CASE t.dec < 2
    BY <1>1, <1>5, <2>4, <2>5, <2>6 DEF ShowsIt, Widens
  <2>7. CASE ~(t.dec < 2)
    <3>1. /\ TextLen(t) = Digits[t.num \div 1000] + (t.dec + 1) + (IF t.pct THEN 1 ELSE 0)
          /\ t.dec \in {2, 3} /\ t.num \div 1000 \in Nat
      <4>1. /\ "none" \in DOMAIN PreLen /\ PreLen["none"] = 0 /\ t.num \in Nat /\ t.dec \in 0..3 /\ t.pct \in BOOLEAN
            /\ t.num \div 1000 \in Nat /\ t.dec \in {2, 3}
        BY <2>7, TextIs, PrefixLengths
      <4>2. TextLen(t) = 0 + Digits[t.num \div 1000] + Decimals(t.dec) + (IF t.pct THEN 1 ELSE 0)
        BY <2>3, <4>1, NumberLength
      <4>3. Digits[t.num \div 1000] \in Nat /\ Decimals(t.dec) = t.dec + 1
        BY <4>1, DigitsGrowSlowly DEF DigitsGrow, Decimals
      <4> QED
        BY <4>1, <4>2, <4>3
    <3>2. CASE t.dec = 2
      <4>1. Rounded(t.num) = t.num
        BY <1>5, <3>2, TextIs, RoundedIs
      <4>2. TextLen(Value(v)) = TextLen(t)
        BY <2>5, <3>1, <3>2, <4>1
      <4> QED
        BY <1>1, <2>4, <2>5, <4>2 DEF ShowsIt
    <3>3. CASE t.dec = 3
      <4>1. Digits[t.num \div 1000] \in Nat /\ Digits[t.num \div 1000 + 1] \in {Digits[t.num \div 1000], Digits[t.num \div 1000] + 1}
        BY <3>1, DigitsGrowSlowly DEF DigitsGrow
      <4>2. Digits[Rounded(t.num) \div 1000] \in {Digits[t.num \div 1000], Digits[t.num \div 1000] + 1}
        BY <4>1, TextIs, RoundedIs
      <4>3. TextLen(Value(v)) <= TextLen(t)
        BY <2>5, <3>1, <3>3, <4>1, <4>2
      <4> QED
        BY <1>1, <2>4, <2>5, <4>3 DEF ShowsIt
    <3> QED
      BY <3>1, <3>2, <3>3
  <2> QED
    BY <2>6, <2>7
<1> QED
  <2>1. t # Dash /\ t \notin {few, many}
        /\ ~(t.word = "none" /\ t.pre = "none") => v = Wrong
    BY DEF ParseDouble
  <2> HIDE DEF v, few, many
  <2> QED
    BY <1>1, <1>2, <1>3, <1>4, <1>5, <2>1

LEMMA CastShows ==
  ASSUME NEW kind \in Kinds, NEW t \in Texts, Cast(kind, t) # Wrong
  PROVE  ShowsIt(kind, t)
<1>1. CASE kind = "DATE"
  <2>1. CASE t = Dash
    <3>1. Value(Cast(kind, t)) = t
      BY <1>1, <2>1 DEF Cast, ParseTime, Value, ShownTime, Null, Dash, Word, Spelled, Number
    <3> QED
      BY <3>1, SameShows
  <2>2. CASE t.word = "2006-01-02"
    <3>1. t = Date(t.num) /\ t # Dash
      BY <2>2, TextIs DEF Dash, Word, Spelled, Number
    <3>2. Value(Cast(kind, t)) = t
      BY <1>1, <2>2, <3>1 DEF Cast, ParseTime, Value, ShownTime, Known, Null
    <3> QED
      BY <3>2, SameShows
  <2> QED
    BY <1>1, <2>1, <2>2 DEF Cast, ParseTime
<1>2. CASE kind = "STRING"
  <2>1. Value(Cast(kind, t)) = t
    BY <1>2 DEF Cast, ParseString, Value, ShownString, Known, Null
  <2> QED
    BY <2>1, SameShows
<1> QED
  BY <1>1, <1>2, LongShows, DoubleShows DEF Kinds

----------------------------------------------------------------------------
(* One record more. *)

Put(a, g, v, cs) == [value |-> [h \in DOMAIN a.value \cup {g} |-> IF h = g THEN v ELSE a.value[h]], cs |-> cs, ok |-> TRUE]
IsPut(b, a, g, v, cs) ==
  /\ b.ok = TRUE /\ b.cs = cs
  /\ DOMAIN b.value = DOMAIN a.value \cup {g}
  /\ b.value[g] = v
  /\ \A h \in DOMAIN a.value : h # g => b.value[h] = a.value[h]
LEMMA PutIs ==
  ASSUME NEW a, NEW g, NEW v, NEW cs
  PROVE  IsPut(Put(a, g, v, cs), a, g, v, cs)
  BY DEF Put, IsPut

Old(a, g) == IF g \in DOMAIN a.value THEN a.value[g] ELSE [Null EXCEPT !.type = "aggr"]

(* A record fails, or puts a value into its group. *)
LEMMA AddPlain ==
  ASSUME NEW kind, NEW a, NEW rec
  PROVE  LET b == Add(kind, "none", a, rec)
             new == Cast(kind, rec.text)
         IN  /\ ~a.ok => b = a
             /\ a.ok /\ new = Wrong => b = Failed
             /\ a.ok /\ new # Wrong => b = Put(a, rec.group, new, MaxLen(rec.text, a.cs))
  BY DEF Add, Put

LEMMA AddCount ==
  ASSUME NEW kind, NEW a, NEW rec
  PROVE  LET b == Add(kind, "COUNT", a, rec)
             new == Counted(Old(a, rec.group))
         IN  /\ ~a.ok => b = a
             /\ a.ok => b = Put(a, rec.group, new, LenFloat64(new))
  BY DEF Add, Put, Old

LEMMA AddNumber ==
  ASSUME NEW kind, NEW method \in {"SUM", "MAX", "MIN"}, NEW a, NEW rec
  PROVE  LET b == Add(kind, method, a, rec)
             old == Old(a, rec.group)
             new == Aggregate(kind, rec.text)
             m == Merged(method, kind, old, new)
         IN  /\ ~a.ok => b = a
             /\ a.ok /\ new = Wrong => b = Failed
             /\ a.ok /\ new # Wrong /\ ~new.valid => b = Put(a, rec.group, old, a.cs)
             /\ a.ok /\ new # Wrong /\ new.valid => b = Put(a, rec.group, m, LenFloat64(m))
  BY DEF Add, Put, Old

(* What is aggregated from a text. *)
Typed(v) ==
  /\ v.type = "aggr" /\ v.num \in Nat /\ v.prec \in {0, 2}
  /\ v.valid \in BOOLEAN /\ v.layout \in BOOLEAN /\ v.seconds \in BOOLEAN
LEMMA WrongIsWrong ==
  ASSUME NEW kind, NEW t, Cast(kind, t) = Wrong
  PROVE  Aggregate(kind, t) = Wrong
<1>1. Wrong.type = "error"
  BY DEF Wrong, Null
<1> QED
  BY <1>1 DEF Aggregate

(* What is cast from the text of a number. *)
NumberCast(v, t) ==
  /\ v.type \in {"long", "double"} /\ v.num \in Nat /\ v.valid \in BOOLEAN
  /\ v.valid => t.word = "none"
LEMMA NumbersAreCast ==
  ASSUME NEW kind \in {"LONG", "DOUBLE"}, NEW t \in Texts
  PROVE  Cast(kind, t) = Wrong \/ NumberCast(Cast(kind, t), t)
<1>1. Cast("LONG", t) = Wrong \/ NumberCast(Cast("LONG", t), t)
  <2>1. Cast("LONG", t) = ParseLong(t)
    BY DEF Cast
  <2>2. ParseLong(t) = Wrong \/ NumberCast(ParseLong(t), t)
    BY TextIs DEF ParseLong, NumberCast, Known, Null, Dash, Excluded, AutoText, Word, Spelled
  <2> QED
    BY <2>1, <2>2
<1>2. Cast("DOUBLE", t) = Wrong \/ NumberCast(Cast("DOUBLE", t), t)
  <2>1. Cast("DOUBLE", t) = ParseDouble(t)
    BY DEF Cast
  <2>2. ParseDouble(t) = Wrong \/ NumberCast(ParseDouble(t), t)
    <3> DEFINE v == ParseDouble(t)
    <3>1. CASE t = Dash
      <4>1. v = [Null EXCEPT !.type = "double"]
        BY <3>1 DEF ParseDouble, Dash, Word, Spelled, Number
      <4> QED
        BY <4>1 DEF NumberCast, Null
    <3>2. CASE t = Number("<_", 10000, 0, t.pct)
      <4>1. v = [Known("double", 9999) EXCEPT !.almost = TRUE, !.pct = t.pct]
        BY <3>2 DEF ParseDouble, Dash, Word, Spelled, Number
      <4>2. t.word = "none"
        BY <3>2 DEF Number
      <4> QED
        BY <4>1, <4>2 DEF NumberCast, Known, Null
    <3>3. CASE t = Number(">_", 90000, 0, t.pct)
      <4>1. v = [Known("double", 90001) EXCEPT !.almost = TRUE, !.pct = t.pct]
        BY <3>3 DEF ParseDouble, Dash, Word, Spelled, Number
      <4>2. t.word = "none"
        BY <3>3 DEF Number
      <4> QED
        BY <4>1, <4>2 DEF NumberCast, Known, Null
    <3>4. CASE t.word = "none" /\ t.pre = "none"
      <4>1. v = [Known("double", t.num) EXCEPT !.pct = t.pct]
        BY <3>4 DEF ParseDouble, Dash, Word, Spelled, Number
      <4> QED
        BY <3>4, <4>1, TextIs DEF NumberCast, Known, Null
    <3> QED
      BY <3>1, <3>2, <3>3, <3>4 DEF ParseDouble
  <2> QED
    BY <2>1, <2>2
<1> QED
  BY <1>1, <1>2

LEMMA AggregateIs ==
  ASSUME NEW kind \in Kinds, NEW t \in Texts, Aggregate(kind, t) # Wrong
  PROVE  LET w == Aggregate(kind, t)
             v == Cast(kind, t)
         IN  /\ Typed(w) /\ w.prec = 0
             /\ kind # "STRING"
             /\ kind = "DATE" => /\ w.valid
                                 /\ t = Dash \/ (t = Date(t.num) /\ w.layout /\ w.num = t.num /\ v.valid)
             /\ kind # "DATE" => /\ ~w.layout /\ ~w.seconds /\ w.valid = v.valid /\ w.num = v.num
                                 /\ v.valid => t.word = "none"
<1> DEFINE w == Aggregate(kind, t)
           v == Cast(kind, t)
<1>1. CASE kind = "STRING"
  <2>1. v.type = "string"
    BY <1>1 DEF Cast, ParseString, Known, Null
  <2>2. w = Wrong
    <3> HIDE DEF v
    <3> QED
      BY <2>1 DEF v, Aggregate
  <2> QED
    BY <2>2
<1>2. CASE kind = "DATE"
  <2>1. CASE t = Dash
    <3>1. v = [Null EXCEPT !.type = "time"]
      BY <1>2, <2>1 DEF Cast, ParseTime, Dash, Word, Spelled
    <3>2. v.type = "time" /\ v.num = 0 /\ v.layout = FALSE
      BY <3>1 DEF Null
    <3> HIDE DEF v
    <3>3. w = [Known("aggr", 0) EXCEPT !.layout = FALSE, !.seconds = TRUE]
      BY <3>2 DEF v, Aggregate
    <3>4. Typed(w) /\ w.prec = 0 /\ w.valid
      BY <3>3 DEF Typed, Known, Null
    <3> QED
      BY <1>2, <2>1, <3>4
  <2>2. CASE t.word = "2006-01-02"
    <3>1. t = Date(t.num) /\ t # Dash /\ t.num \in Nat
      BY <2>2, TextIs DEF Dash, Word, Spelled
    <3>2. v = [Known("time", t.num) EXCEPT !.layout = TRUE]
      BY <1>2, <2>2, <3>1 DEF Cast, ParseTime
    <3>3. v.type = "time" /\ v.num = t.num /\ v.layout = TRUE /\ v.valid = TRUE
      BY <3>2 DEF Known, Null
    <3> HIDE DEF v
    <3>4. w = [Known("aggr", t.num) EXCEPT !.layout = TRUE, !.seconds = TRUE]
      BY <3>3 DEF v, Aggregate
    <3>5. Typed(w) /\ w.prec = 0 /\ w.valid /\ w.layout /\ w.num = t.num
      BY <3>1, <3>4 DEF Typed, Known, Null
    <3> QED
      BY <1>2, <3>1, <3>3, <3>5 DEF v
  <2>3. CASE t # Dash /\ t.word # "2006-01-02"
    <3>1. v = Wrong
      BY <1>2, <2>3 DEF Cast, ParseTime
    <3> QED
      BY <3>1, WrongIsWrong
  <2> QED
    BY <2>1, <2>2, <2>3
<1>3. CASE kind \in {"LONG", "DOUBLE"}
  <2>1. v = Wrong \/ NumberCast(v, t)
    BY <1>3, NumbersAreCast
  <2>2. v # Wrong
    BY WrongIsWrong
  <2>3. NumberCast(v, t)
    BY <2>1, <2>2
  <2> HIDE DEF v
  <2>4. w = [Null EXCEPT !.type = "aggr", !.valid = v.valid, !.num = v.num]
    BY <2>3 DEF v, Aggregate, NumberCast
  <2>5. Typed(w) /\ w.prec = 0 /\ ~w.layout /\ ~w.seconds /\ w.valid = v.valid /\ w.num = v.num
    BY <2>3, <2>4 DEF Typed, Null, NumberCast
  <2> QED
    BY <1>3, <2>3, <2>5 DEF v, NumberCast
<1> QED
  BY <1>1, <1>2, <1>3 DEF Kinds

----------------------------------------------------------------------------
(* The values of the groups, record by record. *)

NullValue == [Null EXCEPT !.type = "aggr"]
(* What an extreme of the texts T is. *)
Extreme(kind, T, v) ==
  \/ v = NullValue /\ \A t \in T : ~Cast(kind, t).valid
  \/ /\ kind # "DATE" /\ v.valid /\ ~v.layout /\ ~v.seconds
     /\ v.prec = IF kind = "DOUBLE" THEN 2 ELSE 0
     /\ \E t \in T : t.word = "none" /\ v.num = Cast(kind, t).num
  \/ kind = "DATE" /\ v.valid /\ (Dash \in T \/ (v.layout /\ \E t \in T : t = Date(v.num)))

LEMMA NullIs ==
  Typed(NullValue) /\ NullValue.valid = FALSE /\ NullValue.prec = 0 /\ NullValue.num = 0
  BY DEF NullValue, Null, Typed

(* The value m that is merged from an old one and a new one. *)
IsMerged(m, method, kind, old, new) ==
  /\ Typed(m) /\ m.valid = TRUE /\ m.layout = new.layout /\ m.seconds = new.seconds
  /\ m.prec = IF kind = "DOUBLE" THEN 2 ELSE old.prec
  /\ method # "SUM" => m.num = new.num \/ (old.valid /\ m.num = old.num)
LEMMA MergedIs ==
  ASSUME NEW kind, NEW method \in {"SUM", "MAX", "MIN"}, NEW old, NEW new, Typed(old), Typed(new)
  PROVE  IsMerged(Merged(method, kind, old, new), method, kind, old, new)
<1> DEFINE n == CASE method = "SUM" -> old.num + new.num
                  [] method # "SUM" /\ Better(method, old, new)  -> new.num
                  [] method # "SUM" /\ ~Better(method, old, new) -> old.num
           m == Merged(method, kind, old, new)
<1>1. n \in Nat /\ (method # "SUM" => n = new.num \/ (old.valid /\ n = old.num))
  <2>1. ~Better(method, old, new) => old.valid
    BY DEF Better
  <2> QED
    BY <2>1 DEF Typed
<1>2. m = [Known("aggr", n) EXCEPT !.layout = new.layout, !.seconds = new.seconds,
                                   !.prec = IF kind = "DOUBLE" THEN 2 ELSE old.prec]
  BY DEF Merged
<1> HIDE DEF n, m
<1>3. /\ m.type = "aggr" /\ m.valid = TRUE /\ m.num = n /\ m.layout = new.layout /\ m.seconds = new.seconds
      /\ m.prec = IF kind = "DOUBLE" THEN 2 ELSE old.prec
  BY <1>2 DEF Known, Null
<1>4. Typed(m)
  BY <1>1, <1>3 DEF Typed
<1> QED
  BY <1>1, <1>3, <1>4 DEF m, IsMerged

LEMMA ExtremeGrows ==
  ASSUME NEW kind \in Kinds, NEW method \in {"MAX", "MIN"}, NEW T, NEW t \in Texts, NEW old,
         Typed(old), Extreme(kind, T, old), Aggregate(kind, t) # Wrong
  PROVE  LET w == Aggregate(kind, t)
         IN  Extreme(kind, T \cup {t}, IF w.valid THEN Merged(method, kind, old, w) ELSE old)
<1> DEFINE w == Aggregate(kind, t)
           m == Merged(method, kind, old, w)
           U == T \cup {t}
<1>1. /\ Typed(w)
      /\ kind = "DATE" => w.valid /\ (t = Dash \/ (t = Date(t.num) /\ w.layout /\ w.num = t.num))
      /\ kind # "DATE" => /\ ~w.layout /\ ~w.seconds /\ w.valid = Cast(kind, t).valid /\ w.num = Cast(kind, t).num
                          /\ Cast(kind, t).valid => t.word = "none"
  BY AggregateIs
<1> HIDE DEF w
<1>2. /\ Typed(m) /\ m.valid = TRUE /\ m.layout = w.layout /\ m.seconds = w.seconds
      /\ m.prec = IF kind = "DOUBLE" THEN 2 ELSE old.prec
      /\ m.num = w.num \/ (old.valid /\ m.num = old.num)
  <2>1. method \in {"SUM", "MAX", "MIN"} /\ method # "SUM" /\ Typed(w) /\ Typed(old)
    BY <1>1
  <2>2. IsMerged(m, method, kind, old, w)
    BY <2>1, MergedIs DEF m
  <2> QED
    BY <2>1, <2>2 DEF IsMerged
<1> HIDE DEF m
<1>3. CASE kind = "DATE"
  <2>1. w.valid
    BY <1>1, <1>3
  <2>2. CASE t = Dash
    BY <1>2, <1>3, <2>1, <2>2 DEF Extreme, m, w
  <2>3. CASE t = Date(t.num) /\ w.layout /\ w.num = t.num
    <3>1. Dash \in U \/ (m.layout /\ \E u \in U : u = Date(m.num))
      <4>1. CASE m.num = w.num
        BY <1>2, <2>3, <4>1
      <4>2. CASE old.valid /\ m.num = old.num
        <5>1. Dash \in T \/ \E u \in T : u = Date(old.num)
          BY <1>3, <4>2, NullIs DEF Extreme
        <5> QED
          BY <1>2, <2>3, <4>2, <5>1
      <4> QED
        BY <1>2, <4>1, <4>2
    <3> QED
      BY <1>2, <1>3, <2>1, <3>1 DEF Extreme, m, w
  <2> QED
    BY <1>1, <1>3, <2>2, <2>3
<1>4. CASE kind # "DATE" /\ w.valid
  <2>1. m.prec = IF kind = "DOUBLE" THEN 2 ELSE 0
    <3>1. kind # "DOUBLE" => old.prec = 0
      BY <1>4, NullIs DEF Extreme
    <3> QED
      BY <1>2, <3>1
  <2>2. \E u \in U : u.word = "none" /\ m.num = Cast(kind, u).num
    <3>1. CASE m.num = w.num
      BY <1>1, <1>4, <3>1
    <3>2. CASE old.valid /\ m.num = old.num
      BY <1>4, <3>2, NullIs DEF Extreme
    <3> QED
      BY <1>2, <3>1, <3>2
  <2> QED
    BY <1>1, <1>2, <1>4, <2>1, <2>2 DEF Extreme, m, w
<1>5. CASE kind # "DATE" /\ ~w.valid
  <2>1. Extreme(kind, U, old)
    BY <1>1, <1>5 DEF Extreme
  <2> QED
    BY <1>5, <2>1 DEF w
<1> QED
  BY <1>3, <1>4, <1>5

LEMMA CountedIs ==
  ASSUME NEW old, Typed(old)
  PROVE  LET m == Counted(old)
         IN  Typed(m) /\ m.valid = TRUE /\ m.layout = FALSE /\ m.seconds = FALSE
  BY DEF Counted, Known, Null, Typed

(* The texts of a group in the first k records. *)
Until(records, k, g) == {records[i].text : i \in {j \in 1..k : records[j].group = g}}
Records == Seq([group : Nat, text : Texts])
LEMMA UntilNext ==
  ASSUME NEW records \in Records, NEW k \in Nat, k < Len(records), NEW g
  PROVE  Until(records, k + 1, g) =
           IF records[k + 1].group = g THEN Until(records, k, g) \cup {records[k + 1].text} ELSE Until(records, k, g)
<1>1. \A j \in 1..(k + 1) : j \in 1..k \/ j = k + 1
  OBVIOUS
<1>2. k + 1 \in 1..(k + 1) /\ 1..k \subseteq 1..(k + 1)
  OBVIOUS
<1> QED
  BY <1>1, <1>2 DEF Until

LEMMA RecordIs ==
  ASSUME NEW records \in Records, NEW k \in 1..Len(records)
  PROVE  records[k].text \in Texts
<1>1. records \in Seq([group : Nat, text : Texts])
  BY DEF Records
<1>2. records[k] \in [group : Nat, text : Texts]
  BY <1>1, ElementOfSeq
<1> QED
  BY <1>2

LEMMA StepByStep ==
  ASSUME NEW n \in Nat, NEW G \in SUBSET Nat, 0 \in G, \A k \in G : k < n => k + 1 \in G
  PROVE  \A k \in 0..n : k \in G
<1> DEFINE S == {k \in Nat : k <= n => k \in G}
<1>1. S = Nat
  <2>1. 0 \in S
    OBVIOUS
  <2>2. ASSUME NEW k \in S PROVE k + 1 \in S
    BY <2>2
  <2>3. S \in SUBSET Nat
    OBVIOUS
  <2> HIDE DEF S
  <2> QED
    BY <2>1, <2>2, <2>3, NatSets
<1> QED
  BY <1>1

----------------------------------------------------------------------------
(* What has been aggregated after k records. *)

LEMMA AddedIs ==
  ASSUME NEW kind, NEW method \in Methods, NEW a, NEW rec
  PROVE  LET b == Add(kind, method, a, rec)
         IN  (~a.ok /\ b = a) \/ b = Failed \/ (a.ok /\ \E v, cs : b = Put(a, rec.group, v, cs))
<1> DEFINE b == Add(kind, method, a, rec)
           Goal == (~a.ok /\ b = a) \/ b = Failed \/ (a.ok /\ \E v, cs : b = Put(a, rec.group, v, cs))
<1>1. CASE method = "none"
  <2>1. (~a.ok /\ b = a) \/ b = Failed \/ (a.ok /\ b = Put(a, rec.group, Cast(kind, rec.text), MaxLen(rec.text, a.cs)))
    BY <1>1, AddPlain
  <2> HIDE DEF b
  <2> QED
    BY <2>1 DEF b
<1>2. CASE method = "COUNT"
  <2> DEFINE v == Counted(Old(a, rec.group))
  <2>1. (~a.ok /\ b = a) \/ (a.ok /\ b = Put(a, rec.group, v, LenFloat64(v)))
    BY <1>2, AddCount
  <2> HIDE DEF b, v
  <2> QED
    BY <2>1 DEF b
<1>3. CASE method \in {"SUM", "MAX", "MIN"}
  <2> DEFINE old == Old(a, rec.group)
             m == Merged(method, kind, old, Aggregate(kind, rec.text))
  <2>1. \/ (~a.ok /\ b = a) \/ b = Failed
        \/ a.ok /\ b = Put(a, rec.group, old, a.cs)
        \/ a.ok /\ b = Put(a, rec.group, m, LenFloat64(m))
    BY <1>3, AddNumber
  <2> HIDE DEF b, m, old
  <2> QED
    BY <2>1 DEF b
<1> QED
  BY <1>1, <1>2, <1>3 DEF Methods

LEMMA FailedIs ==
  Failed.ok = FALSE /\ DOMAIN Failed.value = {} /\ Empty.ok = TRUE /\ Empty.cs = 0 /\ DOMAIN Empty.value = {}
  BY DEF Failed, Empty

Grouped(b, records, k) ==
  /\ IsFiniteSet(DOMAIN b.value)
  /\ b.ok => \A i \in 1..k : records[i].group \in DOMAIN b.value
LEMMA GroupedIs ==
  ASSUME NEW kind, NEW method \in Methods, NEW records \in Records, NEW a, Adding(a, kind, method, records)
  PROVE  \A k \in 0..Len(records) : Grouped(a[k], records, k)
<1> DEFINE G == {k \in Nat : Grouped(a[k], records, k)}
           n == Len(records)
<1>0. n \in Nat
  BY DEF Records
<1>1. 0 \in G
  <2>1. DOMAIN a[0].value = {}
    BY FailedIs DEF Adding
  <2> QED
    BY <2>1, FS_EmptySet DEF Grouped
<1>2. ASSUME NEW k \in G, k < n PROVE k + 1 \in G
  <2>1. k \in Nat /\ Grouped(a[k], records, k)
    BY <1>2
  <2>2. k + 1 \in 1..n /\ k + 1 - 1 = k
    BY <1>0, <1>2, <2>1
  <2>3. a[k + 1] = Add(kind, method, a[k], records[k + 1])
    BY <2>2 DEF Adding
  <2> DEFINE c == a[k]
             b == a[k + 1]
             g == records[k + 1].group
  <2>4. (~c.ok /\ b = c) \/ b = Failed \/ (c.ok /\ \E v, cs : b = Put(c, g, v, cs))
    BY <2>3, AddedIs
  <2> HIDE DEF b, c, g
  <2>5. CASE ~c.ok /\ b = c
    BY <2>1, <2>5 DEF b, c, Grouped
  <2>6. CASE b = Failed
    <3>1. Grouped(b, records, k + 1)
      BY <2>6, FailedIs, FS_EmptySet DEF Grouped
    <3> QED
      BY <2>1, <3>1 DEF b
  <2>7. CASE c.ok /\ \E v, cs : b = Put(c, g, v, cs)
    <3>0. PICK v, cs : b = Put(c, g, v, cs)
      BY <2>7
    <3>1. DOMAIN b.value = DOMAIN c.value \cup {g}
      <4>1. IsPut(b, c, g, v, cs)
        BY <3>0, PutIs
      <4> QED
        BY <4>1 DEF IsPut
    <3>2. IsFiniteSet(DOMAIN b.value)
      BY <2>1, <3>1, FS_AddElement DEF Grouped, c
    <3>3. \A i \in 1..(k + 1) : i \in 1..k \/ i = k + 1
      BY <2>1
    <3>4. \A i \in 1..(k + 1) : records[i].group \in DOMAIN b.value
      BY <2>1, <2>7, <3>1, <3>3 DEF Grouped, c, g
    <3>5. Grouped(b, records, k + 1)
      BY <3>2, <3>4 DEF Grouped
    <3> QED
      BY <2>1, <3>5 DEF b
  <2> QED
    BY <2>4, <2>5, <2>6, <2>7
<1>3. G \in SUBSET Nat
  OBVIOUS
<1> HIDE DEF G
<1>4. \A k \in 0..n : k \in G
  BY <1>0, <1>1, <1>2, <1>3, StepByStep
<1> QED
  BY <1>4 DEF G

(* A plain column: a value is cast from a text of its group, and no text is  *)
(* wider than the column.                                                    *)
Plain(b, kind, records, k) ==
  b.ok => /\ b.cs \in Nat
          /\ \A g \in DOMAIN b.value :
               \E t \in Until(records, k, g) :
                 /\ t \in Texts /\ Cast(kind, t) # Wrong
                 /\ b.value[g] = Cast(kind, t) /\ TextLen(t) <= b.cs
LEMMA PlainIs ==
  ASSUME NEW kind \in Kinds, NEW records \in Records, NEW a, Adding(a, kind, "none", records)
  PROVE  \A k \in 0..Len(records) : Plain(a[k], kind, records, k)
<1> DEFINE G == {k \in Nat : Plain(a[k], kind, records, k)}
           n == Len(records)
<1>0. n \in Nat
  BY DEF Records
<1>1. 0 \in G
  <2>1. a[0].cs = 0 /\ DOMAIN a[0].value = {}
    BY FailedIs DEF Adding
  <2> QED
    BY <2>1 DEF Plain
<1>2. ASSUME NEW k \in G, k < n PROVE k + 1 \in G
  <2>1. k \in Nat /\ Plain(a[k], kind, records, k)
    BY <1>2
  <2>2. k + 1 \in 1..n /\ k + 1 - 1 = k
    BY <1>0, <1>2, <2>1
  <2>3. a[k + 1] = Add(kind, "none", a[k], records[k + 1])
    BY <2>2 DEF Adding
  <2> DEFINE c == a[k]
             b == a[k + 1]
             g == records[k + 1].group
             t == records[k + 1].text
             new == Cast(kind, t)
             cs == MaxLen(t, c.cs)
  <2>4. b.ok => c.ok /\ new # Wrong /\ b = Put(c, g, new, cs)
    BY <2>3, AddPlain, FailedIs
  <2>5. t \in Texts
    BY <2>2, RecordIs
  <2>6. /\ \A h : Until(records, k, h) \subseteq Until(records, k + 1, h)
        /\ t \in Until(records, k + 1, g)
    BY <1>2, <2>1, UntilNext
  <2> HIDE DEF b, c, g, t, new, cs
  <2>7. CASE b.ok
    <3>1. c.cs \in Nat /\ TextLen(t) \in Nat
      BY <2>1, <2>4, <2>5, <2>7, TextLength DEF Plain, c
    <3>2. cs \in Nat /\ TextLen(t) <= cs /\ c.cs <= cs
      BY <3>1 DEF cs, MaxLen
    <3>3. b.cs = cs /\ DOMAIN b.value = DOMAIN c.value \cup {g} /\ b.value[g] = new
          /\ \A h \in DOMAIN c.value : h # g => b.value[h] = c.value[h]
      <4>1. IsPut(b, c, g, new, cs)
        BY <2>4, <2>7, PutIs
      <4> QED
        BY <4>1 DEF IsPut
    <3>4. ASSUME NEW h \in DOMAIN b.value
          PROVE  \E u \in Until(records, k + 1, h) :
                   u \in Texts /\ Cast(kind, u) # Wrong /\ b.value[h] = Cast(kind, u) /\ TextLen(u) <= b.cs
      <4>1. CASE h = g
        BY <2>4, <2>5, <2>6, <2>7, <3>2, <3>3, <4>1 DEF new
      <4>2. CASE h # g
        <5>1. PICK u \in Until(records, k, h) :
                u \in Texts /\ Cast(kind, u) # Wrong /\ c.value[h] = Cast(kind, u) /\ TextLen(u) <= c.cs
          BY <2>1, <2>4, <2>7, <3>3, <3>4, <4>2 DEF Plain, c
        <5>2. TextLen(u) \in Nat
          BY <5>1, TextLength
        <5>3. TextLen(u) <= b.cs
          BY <3>1, <3>2, <3>3, <5>1, <5>2
        <5> QED
          BY <2>6, <3>3, <3>4, <4>2, <5>1, <5>3
      <4> QED
        BY <4>1, <4>2
    <3>5. Plain(b, kind, records, k + 1)
      BY <3>2, <3>3, <3>4 DEF Plain
    <3> QED
      BY <2>1, <3>5 DEF b
  <2>8. CASE ~b.ok
    BY <2>1, <2>8 DEF Plain, b
  <2> QED
    BY <2>7, <2>8
<1>3. G \in SUBSET Nat
  OBVIOUS
<1> HIDE DEF G
<1>4. \A k \in 0..n : k \in G
  BY <1>0, <1>1, <1>2, <1>3, StepByStep
<1> QED
  BY <1>4 DEF G

(* An aggregated column: the values are numbers, and the extremes were sent. *)
Aggregated(b, kind, method, records, k) ==
  b.ok => \A g \in DOMAIN b.value :
            /\ Typed(b.value[g])
            /\ method \in {"MAX", "MIN"} => Extreme(kind, Until(records, k, g), b.value[g])
(* How the last record left its group. *)
LastIs(b, kind, method, rec) ==
  b.ok /\ (method = "COUNT" \/ Cast(kind, rec.text).valid) =>
    LET v == b.value[rec.group]
    IN  v.valid /\ b.cs = LenFloat64(v) /\ (v.seconds => v.layout)

LEMMA OldIs ==
  ASSUME NEW kind, NEW method, NEW records \in Records, NEW k \in Nat, NEW a, NEW g, a.ok,
         Aggregated(a, kind, method, records, k), Grouped(a, records, k)
  PROVE  /\ Typed(Old(a, g))
         /\ method \in {"MAX", "MIN"} => Extreme(kind, Until(records, k, g), Old(a, g))
<1>1. CASE g \in DOMAIN a.value
  BY <1>1 DEF Old, Aggregated
<1>2. CASE g \notin DOMAIN a.value
  <2>1. Until(records, k, g) = {}
    BY <1>2 DEF Until, Grouped
  <2>2. Old(a, g) = NullValue
    BY <1>2 DEF Old, NullValue
  <2> QED
    BY <2>1, <2>2, NullIs DEF Extreme
<1> QED
  BY <1>1, <1>2

LEMMA DashIsNull ==
  ASSUME NEW t \in Texts, Cast("DATE", t).valid
  PROVE  t # Dash
<1>1. Cast("DATE", Dash) = [Null EXCEPT !.type = "time"]
  BY DEF Cast, ParseTime, Dash, Word, Spelled
<1>2. Cast("DATE", Dash).valid = FALSE
  BY <1>1 DEF Null
<1> QED
  BY <1>2

(* What one record puts into an aggregated column. *)
PutsTyped(b, c, kind, method, records, k) ==
  LET rec == records[k + 1]
  IN  \E v, cs : /\ b = Put(c, rec.group, v, cs) /\ Typed(v)
                 /\ method \in {"MAX", "MIN"} => Extreme(kind, Until(records, k, rec.group) \cup {rec.text}, v)
                 /\ method = "COUNT" \/ Cast(kind, rec.text).valid =>
                      v.valid /\ cs = LenFloat64(v) /\ (v.seconds => v.layout)
LEMMA NumberPuts ==
  ASSUME NEW kind \in Kinds, NEW method \in Methods \ {"none"}, NEW records \in Records, NEW k \in Nat, k < Len(records),
         NEW c, c.ok, Aggregated(c, kind, method, records, k), Grouped(c, records, k),
         Add(kind, method, c, records[k + 1]).ok
  PROVE  PutsTyped(Add(kind, method, c, records[k + 1]), c, kind, method, records, k)
<1> DEFINE rec == records[k + 1]
           b == Add(kind, method, c, rec)
           g == rec.group
           t == rec.text
           old == Old(c, g)
           T == Until(records, k, g)
<1>1. Typed(old) /\ (method \in {"MAX", "MIN"} => Extreme(kind, T, old))
  BY OldIs
<1>2. t \in Texts
  <2>1. k + 1 \in 1..Len(records)
    BY DEF Records
  <2> QED
    BY <2>1, RecordIs
<1>3. CASE method = "COUNT"
  <2> DEFINE v == Counted(old)
  <2>1. b = Put(c, g, v, LenFloat64(v))
    BY <1>3, AddCount
  <2>2. Typed(v) /\ v.valid = TRUE /\ v.layout = FALSE /\ v.seconds = FALSE
    BY <1>1, CountedIs
  <2> HIDE DEF v, b, g, t
  <2> QED
    BY <1>3, <2>1, <2>2 DEF PutsTyped, b, g, t
<1>4. CASE method # "COUNT"
  <2> DEFINE new == Aggregate(kind, t)
             m == Merged(method, kind, old, new)
  <2>0. method \in {"SUM", "MAX", "MIN"}
    BY <1>4 DEF Methods
  <2>1. b.ok /\ Failed.ok = FALSE
    BY FailedIs
  <2>2. /\ new # Wrong
        /\ new.valid => b = Put(c, g, m, LenFloat64(m))
        /\ ~new.valid => b = Put(c, g, old, c.cs)
    BY <2>0, <2>1, AddNumber
  <2>3. /\ Typed(new)
        /\ kind = "DATE" => new.valid /\ (t = Dash \/ new.layout)
        /\ kind # "DATE" => ~new.layout /\ ~new.seconds /\ new.valid = Cast(kind, t).valid
    BY <1>2, <2>2, AggregateIs
  <2>4. method \in {"MAX", "MIN"} => Extreme(kind, T \cup {t}, IF new.valid THEN m ELSE old)
    BY <1>1, <1>2, <2>2, ExtremeGrows
  <2> HIDE DEF new, b, g, t, T, old
  <2>5. IsMerged(m, method, kind, old, new)
    BY <1>1, <2>0, <2>3, MergedIs
  <2> HIDE DEF m
  <2>6. CASE new.valid
    <3>1. Typed(m) /\ m.valid /\ m.layout = new.layout /\ m.seconds = new.seconds
      BY <2>5 DEF IsMerged
    <3>2. Cast(kind, t).valid => (m.seconds => m.layout)
      <4>1. CASE kind = "DATE"
        BY <1>2, <2>3, <3>1, <4>1, DashIsNull
      <4>2. CASE kind # "DATE"
        BY <2>3, <3>1, <4>2
      <4> QED
        BY <4>1, <4>2
    <3>3. b = Put(c, g, m, LenFloat64(m))
      BY <2>2, <2>6
    <3>4. method \in {"MAX", "MIN"} => Extreme(kind, T \cup {t}, m)
      BY <2>4, <2>6
    <3> QED
      BY <1>4, <3>1, <3>2, <3>3, <3>4 DEF PutsTyped, b, g, t, T
  <2>7. CASE ~new.valid
    <3>1. ~Cast(kind, t).valid
      BY <2>3, <2>7
    <3>2. b = Put(c, g, old, c.cs)
      BY <2>2, <2>7
    <3>3. method \in {"MAX", "MIN"} => Extreme(kind, T \cup {t}, old)
      BY <2>4, <2>7
    <3> QED
      BY <1>1, <1>4, <3>1, <3>2, <3>3 DEF PutsTyped, b, g, t, T
  <2> QED
    BY <2>6, <2>7
<1> QED
  BY <1>3, <1>4

LEMMA AggregatedIs ==
  ASSUME NEW kind \in Kinds, NEW method \in Methods \ {"none"}, NEW records \in Records, NEW a,
         Adding(a, kind, method, records)
  PROVE  \A k \in 0..Len(records) : /\ Aggregated(a[k], kind, method, records, k)
                                    /\ k > 0 => LastIs(a[k], kind, method, records[k])
<1> DEFINE Inv(k) == Aggregated(a[k], kind, method, records, k) /\ (k > 0 => LastIs(a[k], kind, method, records[k]))
           G == {k \in Nat : Inv(k)}
           n == Len(records)
<1>0. n \in Nat
  BY DEF Records
<1>1. 0 \in G
  <2>1. DOMAIN a[0].value = {}
    BY FailedIs DEF Adding
  <2> QED
    BY <2>1 DEF Aggregated
<1>2. ASSUME NEW k \in G, k < n PROVE k + 1 \in G
  <2>1. k \in Nat /\ Aggregated(a[k], kind, method, records, k)
    BY <1>2
  <2>2. k + 1 \in 1..n /\ k + 1 - 1 = k /\ k \in 0..n /\ k + 1 > 0
    BY <1>0, <1>2, <2>1
  <2>3. a[k + 1] = Add(kind, method, a[k], records[k + 1])
    BY <2>2 DEF Adding
  <2>4. Grouped(a[k], records, k)
    BY <2>2, GroupedIs
  <2> DEFINE c == a[k]
             b == a[k + 1]
             rec == records[k + 1]
  <2>5. b.ok => c.ok
    BY <2>3, AddedIs, FailedIs
  <2> HIDE DEF G
  <2>6. CASE b.ok
    <3>1. PutsTyped(b, c, kind, method, records, k)
      BY <1>2, <2>1, <2>3, <2>4, <2>5, <2>6, NumberPuts
    <3>2. PICK v, cs : /\ b = Put(c, rec.group, v, cs) /\ Typed(v)
                       /\ method \in {"MAX", "MIN"} => Extreme(kind, Until(records, k, rec.group) \cup {rec.text}, v)
                       /\ method = "COUNT" \/ Cast(kind, rec.text).valid =>
                            v.valid /\ cs = LenFloat64(v) /\ (v.seconds => v.layout)
      BY <3>1 DEF PutsTyped
    <3>3. IsPut(b, c, rec.group, v, cs)
      BY <3>2, PutIs
    <3>4. LastIs(b, kind, method, rec)
      BY <3>2, <3>3 DEF LastIs, IsPut
    <3>5. ASSUME NEW g \in DOMAIN b.value
          PROVE  /\ Typed(b.value[g])
                 /\ method \in {"MAX", "MIN"} => Extreme(kind, Until(records, k + 1, g), b.value[g])
      <4>1. CASE g = rec.group
        <5>1. Until(records, k + 1, g) = Until(records, k, rec.group) \cup {rec.text}
          BY <1>2, <2>1, <4>1, UntilNext
        <5>2. b.value[g] = v
          BY <3>3, <4>1 DEF IsPut
        <5> QED
          BY <3>2, <5>1, <5>2
      <4>2. CASE g # rec.group
        <5>1. Until(records, k + 1, g) = Until(records, k, g)
          BY <1>2, <2>1, <4>2, UntilNext
        <5>2. g \in DOMAIN c.value /\ b.value[g] = c.value[g]
          BY <3>3, <3>5, <4>2 DEF IsPut
        <5> QED
          BY <2>1, <2>5, <2>6, <5>1, <5>2 DEF Aggregated
      <4> QED
        BY <4>1, <4>2
    <3>6. Aggregated(b, kind, method, records, k + 1)
      BY <3>5 DEF Aggregated
    <3> QED
      BY <2>1, <3>4, <3>6 DEF G
  <2>7. CASE ~b.ok
    BY <2>1, <2>7 DEF Aggregated, LastIs, G
  <2> QED
    BY <2>6, <2>7
<1>3. G \in SUBSET Nat
  OBVIOUS
<1> HIDE DEF G
<1>4. \A k \in 0..n : k \in G
  BY <1>0, <1>1, <1>2, <1>3, StepByStep
<1> QED
  BY <1>4 DEF G

----------------------------------------------------------------------------
(* What is shown of a column, and how wide it is. *)

IsColumn(r) == r \in Results /\ r.kind \in Kinds /\ r.records # <<>>
ColumnOf(r) == AggregateData(r.kind, r.method, r.records)

LEMMA ResultIs ==
  ASSUME NEW r \in Results
  PROVE  /\ r.kind \in {"error", "exec"} \cup Kinds /\ r.method \in Methods
         /\ r.records \in Records /\ r.offset \in Nat /\ r.style \in {"ascii", "vascii"}
  BY DEF Results, Kinds, Methods, Records

LEMMA LenOfRecords ==
  ASSUME NEW records \in Records
  PROVE  Len(records) \in Nat /\ (records # <<>> => Len(records) > 0)
<1>1. records \in Seq([group : Nat, text : Texts])
  BY DEF Records
<1> QED
  BY <1>1, LenProperties, EmptySeq

LEMMA UntilLast ==
  ASSUME NEW r \in Results, NEW g
  PROVE  Until(r.records, Len(r.records), g) = CellsOf(r, g)
<1>1. DOMAIN r.records = 1..Len(r.records)
  BY ResultIs DEF Records
<1> QED
  BY <1>1 DEF Until, CellsOf

LEMMA PlainColumn ==
  ASSUME NEW r, IsColumn(r), r.method = "none", ColumnOf(r).ok, NEW g \in DOMAIN ColumnOf(r).value
  PROVE  /\ ColumnOf(r).cs \in Nat
         /\ \E t \in CellsOf(r, g) : /\ t \in Texts /\ Cast(r.kind, t) # Wrong
                                     /\ ColumnOf(r).value[g] = Cast(r.kind, t) /\ TextLen(t) <= ColumnOf(r).cs
<1> DEFINE n == Len(r.records)
<1>1. r \in Results /\ r.records \in Records /\ r.kind \in Kinds /\ n \in Nat
  BY ResultIs, LenOfRecords DEF IsColumn
<1>2. PICK a : Adding(a, r.kind, "none", r.records)
  BY <1>1, AddsOneByOne DEF Records
<1>3. a[n] = ColumnOf(r)
  BY <1>2 DEF Adding, ColumnOf
<1>4. n \in 0..n
  BY <1>1
<1>5. Plain(a[n], r.kind, r.records, n)
  BY <1>1, <1>2, <1>4, PlainIs
<1>6. Until(r.records, n, g) = CellsOf(r, g)
  BY <1>1, UntilLast
<1> HIDE DEF n
<1> QED
  BY <1>3, <1>5, <1>6 DEF Plain

LEMMA AggregatedColumn ==
  ASSUME NEW r, IsColumn(r), r.method # "none", ColumnOf(r).ok, NEW g \in DOMAIN ColumnOf(r).value
  PROVE  /\ Typed(ColumnOf(r).value[g])
         /\ r.method \in {"MAX", "MIN"} => Extreme(r.kind, CellsOf(r, g), ColumnOf(r).value[g])
         /\ LastIs(ColumnOf(r), r.kind, r.method, Last(r.records))
<1> DEFINE n == Len(r.records)
<1>1. /\ r \in Results /\ r.records \in Records /\ r.kind \in Kinds /\ r.method \in Methods \ {"none"}
      /\ n \in Nat /\ r.records # <<>>
  <2>1. r \in Results /\ r.kind \in Kinds /\ r.records # <<>>
    BY DEF IsColumn
  <2>2. r.records \in Records /\ r.method \in Methods
    BY <2>1, ResultIs
  <2> QED
    BY <2>1, <2>2, LenOfRecords
<1>2. n > 0
  BY <1>1, LenOfRecords
<1>3. PICK a : Adding(a, r.kind, r.method, r.records)
  BY <1>1, AddsOneByOne DEF Records
<1>4. a[n] = ColumnOf(r)
  BY <1>3 DEF Adding, ColumnOf
<1>5. n \in 0..n
  BY <1>1
<1>6. Aggregated(a[n], r.kind, r.method, r.records, n) /\ LastIs(a[n], r.kind, r.method, r.records[n])
  BY <1>1, <1>2, <1>3, <1>5, AggregatedIs
<1>7. Until(r.records, n, g) = CellsOf(r, g)
  BY <1>1, UntilLast
<1>8. Last(r.records) = r.records[n]
  BY DEF Last
<1> HIDE DEF n
<1> QED
  BY <1>4, <1>6, <1>7, <1>8 DEF Aggregated

(* How an aggregated value is shown. *)
LEMMA AggregateShows ==
  ASSUME NEW v, Typed(v), v.valid
  PROVE  /\ v.layout => Value(v) = Date(LocalDay(v.num))
         /\ ~v.layout /\ ~v.seconds =>
              Value(v) = Number("none", IF v.prec = 0 THEN v.num ELSE Rounded(v.num), v.prec, FALSE)
<1>1. Value(v) = ShownAggregate(v)
  BY DEF Typed, Value
<1> QED
  BY <1>1 DEF ShownAggregate, Typed

LEMMA WasSentHere ==
  ASSUME NEW r, IsColumn(r), r.method \in {"none", "MAX", "MIN"}, ColumnOf(r).ok, NEW g \in DOMAIN ColumnOf(r).value
  PROVE  WasSent(r, ColumnOf(r), g)
<1> DEFINE v == ColumnOf(r).value[g]
           kind == r.kind
           T == CellsOf(r, g)
<1>1. kind \in Kinds
  BY DEF IsColumn
<1>2. CASE r.method = "none"
  <2>1. PICK t \in T : t \in Texts /\ Cast(kind, t) # Wrong /\ v = Cast(kind, t)
    BY <1>2, PlainColumn
  <2>2. Bare(kind, Value(v)) = Bare(kind, t)
    BY <1>1, <2>1, CastShows DEF ShowsIt
  <2> QED
    BY <1>2, <2>1, <2>2 DEF WasSent
<1>3. CASE r.method # "none"
  <2>1. Typed(v) /\ Extreme(kind, T, v)
    BY <1>3, AggregatedColumn
  <2> HIDE DEF v, kind, T
  <2>2. CASE v = NullValue /\ \A t \in T : ~Cast(kind, t).valid
    <3>1. Value(v) = Dash
      BY <2>2 DEF NullValue, Value, ShownAggregate, Null
    <3> QED
      BY <1>3, <2>2, <3>1 DEF WasSent, v, kind, T
  <2>3. CASE /\ kind # "DATE" /\ v.valid /\ ~v.layout /\ ~v.seconds
             /\ v.prec = IF kind = "DOUBLE" THEN 2 ELSE 0
             /\ \E t \in T : t.word = "none" /\ v.num = Cast(kind, t).num
    <3>1. PICK t \in T : t.word = "none" /\ v.num = Cast(kind, t).num
      BY <2>3
    <3> DEFINE n == IF v.prec = 0 THEN v.num ELSE Rounded(v.num)
    <3>2. Value(v) = Number("none", n, v.prec, FALSE)
      BY <2>1, <2>3, AggregateShows
    <3>3. Cents(kind, n) = Cents(kind, v.num)
      BY <2>1, <2>3, RoundedIs DEF Cents, Typed
    <3> HIDE DEF n
    <3>4. Bare(kind, Value(v)) = [word |-> "none", pre |-> "none", num |-> Cents(kind, v.num), pct |-> FALSE]
      BY <3>2, <3>3 DEF Bare, Number
    <3>5. Signless(kind, t) = [word |-> "none", pre |-> "none", num |-> Cents(kind, v.num), pct |-> FALSE]
      BY <3>1 DEF Signless
    <3>6. ~DayBefore(t)
      BY <3>1 DEF DayBefore
    <3> QED
      BY <1>3, <3>1, <3>4, <3>5, <3>6 DEF WasSent, v, kind, T
  <2>4. CASE kind = "DATE" /\ Dash \in T
    BY <1>3, <2>4 DEF WasSent, kind, T
  <2>5. CASE kind = "DATE" /\ v.valid /\ v.layout /\ \E t \in T : t = Date(v.num)
    <3>1. PICK t \in T : t = Date(v.num)
      BY <2>5
    <3>2. Value(v) = Date(LocalDay(v.num)) /\ t.num = v.num /\ t.word = "2006-01-02"
      BY <2>1, <2>5, <3>1, AggregateShows DEF Date, Spelled
    <3>3. CASE DayBefore(t)
      <4>1. Value(v) = Date(t.num - 1)
        BY <3>2, <3>3 DEF LocalDay, DayBefore
      <4> QED
        BY <1>3, <3>1, <3>3, <4>1 DEF WasSent, v, kind, T
    <3>4. CASE ~DayBefore(t)
      <4>1. Value(v) = t
        BY <3>1, <3>2, <3>4 DEF LocalDay, DayBefore
      <4>2. Bare(kind, t) = Signless(kind, t)
        BY <3>1 DEF Bare, Signless, Date, Spelled
      <4> QED
        BY <1>3, <3>1, <3>4, <4>1, <4>2 DEF WasSent, v, kind, T
    <3> QED
      BY <3>3, <3>4
  <2> QED
    BY <2>1, <2>2, <2>3, <2>4, <2>5 DEF Extreme
<1> QED
  BY <1>2, <1>3

(* A value is as wide as lenFloat64 says, but for the digits beyond 13 and   *)
(* the one that rounding adds.                                               *)
LEMMA AggregateFits ==
  ASSUME NEW v, Typed(v), v.valid, v.seconds => v.layout
  PROVE  \/ TextLen(Value(v)) <= LenFloat64(v)
         \/ Digits[Rounded(v.num) \div 1000] > Least(13, Digits[v.num \div 1000])
<1>1. CASE v.layout
  <2> DEFINE day == LocalDay(v.num)
  <2>1. Value(v) = Date(day) /\ LenFloat64(v) = 10
    BY <1>1, AggregateShows, WordLengths DEF LenFloat64
  <2> HIDE DEF day
  <2>2. Date(day).word = "2006-01-02" /\ "2006-01-02" \in DOMAIN WordLen
    BY WordLengths DEF Date, Spelled
  <2>3. TextLen(Date(day)) = 10
    BY <2>2, WordLength, WordLengths
  <2> QED
    BY <2>1, <2>3
<1>2. CASE ~v.layout
  <2> DEFINE q == v.num \div 1000
             n == IF v.prec = 0 THEN v.num ELSE Rounded(v.num)
             d == Digits[q]
             e == Digits[Rounded(v.num) \div 1000]
  <2>1. v.num \in Nat /\ v.prec \in 0..3 /\ ~v.seconds
    BY <1>2 DEF Typed
  <2>2. Value(v) = Number("none", n, v.prec, FALSE)
    BY <1>2, <2>1, AggregateShows
  <2>3. LenFloat64(v) = Least(13, d) + Decimals(v.prec)
    BY <1>2, <2>1 DEF LenFloat64
  <2>4. n \in Nat /\ q \in Nat /\ n \div 1000 \in {q, Rounded(v.num) \div 1000}
        /\ Rounded(v.num) \div 1000 \in {q, q + 1}
    BY <2>1, RoundedIs
  <2>5. d \in Nat /\ e \in {d, d + 1} /\ Digits[n \div 1000] \in {d, e}
    BY <2>4, DigitsGrowSlowly DEF DigitsGrow
  <2>6. Decimals(v.prec) \in Nat
    BY <2>1 DEF Decimals
  <2>7. TextLen(Value(v)) = Digits[n \div 1000] + Decimals(v.prec)
    BY <2>2, <2>4, <2>1, <2>5, <2>6, PrefixLengths DEF TextLen, Number
  <2> HIDE DEF d, e, n
  <2> QED
    BY <2>3, <2>5, <2>6, <2>7 DEF Least, d, e
<1> QED
  BY <1>1, <1>2 DEF Typed

LEMMA FitsHere ==
  ASSUME NEW r, IsColumn(r), ColumnOf(r).ok, NEW g \in DOMAIN ColumnOf(r).value
  PROVE  Fits(r, ColumnOf(r), g)
<1> DEFINE c == ColumnOf(r)
           v == c.value[g]
           last == Last(r.records)
<1>1. r.kind \in Kinds
  BY DEF IsColumn
<1>2. CASE r.method = "none"
  <2>1. c.cs \in Nat
    BY <1>2, PlainColumn
  <2>2. PICK t \in CellsOf(r, g) : /\ t \in Texts /\ Cast(r.kind, t) # Wrong
                                   /\ v = Cast(r.kind, t) /\ TextLen(t) <= c.cs
    BY <1>2, PlainColumn
  <2>3. ShowsIt(r.kind, t) /\ TextLen(t) \in Nat
    BY <1>1, <2>2, CastShows, TextLength
  <2> HIDE DEF c, v
  <2>4. TextLen(Value(v)) <= c.cs \/ Widens(r.kind, t)
    BY <2>1, <2>2, <2>3 DEF ShowsIt
  <2> QED
    BY <1>2, <2>2, <2>4 DEF Fits, v, c
<1>3. CASE r.method # "none"
  <2>1. Typed(v) /\ LastIs(c, r.kind, r.method, last)
    BY <1>3, AggregatedColumn
  <2>2. CASE g = last.group /\ Cast(r.kind, last.text).valid
    <3>1. v.valid /\ c.cs = LenFloat64(v) /\ (v.seconds => v.layout)
      BY <2>1, <2>2 DEF LastIs
    <3>2. \/ TextLen(Value(v)) <= LenFloat64(v)
          \/ Digits[Rounded(v.num) \div 1000] > Least(13, Digits[v.num \div 1000])
      BY <2>1, <3>1, AggregateFits
    <3> HIDE DEF c, v
    <3> QED
      BY <1>3, <3>1, <3>2 DEF Fits, v, c
  <2>3. CASE ~(g = last.group /\ Cast(r.kind, last.text).valid)
    BY <1>3, <2>3 DEF Fits
  <2> QED
    BY <2>2, <2>3
<1> QED
  BY <1>2, <1>3

----------------------------------------------------------------------------
(* The rows of a statement in what is written. *)

IsSeq(s) == \E S : s \in Seq(S)
Count(k, s) == Cardinality(RowsOf(k, s))

LEMMA SeqGrows ==
  ASSUME NEW S, NEW T, S \subseteq T, NEW s \in Seq(S)
  PROVE  s \in Seq(T)
<1>1. Len(s) \in Nat /\ s \in [1..Len(s) -> S]
  BY LenProperties
<1>2. s \in [1..Len(s) -> T]
  BY <1>1
<1> QED
  BY <1>1, <1>2

LEMMA OneSet ==
  ASSUME NEW s, NEW t, IsSeq(s), IsSeq(t)
  PROVE  \E S : s \in Seq(S) /\ t \in Seq(S)
<1>1. PICK S : s \in Seq(S)
  BY DEF IsSeq
<1>2. PICK T : t \in Seq(T)
  BY DEF IsSeq
<1>3. s \in Seq(S \cup T) /\ t \in Seq(S \cup T)
  BY <1>1, <1>2, SeqGrows
<1> QED
  BY <1>3

LEMMA SeqIs ==
  ASSUME NEW s, IsSeq(s)
  PROVE  Len(s) \in Nat /\ DOMAIN s = 1..Len(s)
  BY LenProperties DEF IsSeq

LEMMA ConcatIs ==
  ASSUME NEW s, NEW t, IsSeq(s), IsSeq(t)
  PROVE  /\ IsSeq(s \o t) /\ Len(s \o t) = Len(s) + Len(t)
         /\ \A i \in 1..(Len(s) + Len(t)) : (s \o t)[i] = IF i <= Len(s) THEN s[i] ELSE t[i - Len(s)]
<1>1. PICK S : s \in Seq(S) /\ t \in Seq(S)
  BY OneSet
<1> QED
  BY <1>1, ConcatProperties DEF IsSeq

LEMMA ShortSeqs ==
  /\ IsSeq(<<>>)
  /\ \A x : IsSeq(<<x>>) /\ Len(<<x>>) = 1 /\ <<x>>[1] = x
<1>1. IsSeq(<<>>)
  BY EmptySeq DEF IsSeq
<1>2. ASSUME NEW x PROVE IsSeq(<<x>>) /\ Len(<<x>>) = 1 /\ <<x>>[1] = x
  <2>1. <<x>> \in Seq({x})
    OBVIOUS
  <2> QED
    BY <2>1 DEF IsSeq
<1> QED
  BY <1>1, <1>2

LEMMA AppendIs ==
  ASSUME NEW s, IsSeq(s), NEW x
  PROVE  Append(s, x) = s \o <<x>>
<1>1. PICK S : s \in Seq(S)
  BY DEF IsSeq
<1>2. s \in Seq(S \cup {x}) /\ x \in S \cup {x}
  BY <1>1, SeqGrows
<1> QED
  BY <1>2, AppendIsConcat

LEMMA CountIs ==
  ASSUME NEW k, NEW s, IsSeq(s)
  PROVE  IsFiniteSet(RowsOf(k, s)) /\ Count(k, s) \in Nat
<1>1. Len(s) \in Nat /\ DOMAIN s = 1..Len(s)
  BY SeqIs
<1>2. IsFiniteSet(1..Len(s))
  <2>1. 1 \in Int /\ Len(s) \in Int
    BY <1>1
  <2> QED
    BY <2>1, FS_Interval
<1>3. RowsOf(k, s) \subseteq 1..Len(s)
  BY <1>1 DEF RowsOf
<1>4. IsFiniteSet(RowsOf(k, s))
  BY <1>2, <1>3, FS_Subset
<1> QED
  BY <1>4, FS_CardinalityType DEF Count

LEMMA CountConcat ==
  ASSUME NEW k, NEW s, NEW t, IsSeq(s), IsSeq(t)
  PROVE  Count(k, s \o t) = Count(k, s) + Count(k, t)
<1> DEFINE A == RowsOf(k, s)
           B == RowsOf(k, t)
           f == [j \in B |-> j + Len(s)]
           C == {j + Len(s) : j \in B}
<1>1. /\ Len(s) \in Nat /\ DOMAIN s = 1..Len(s)
      /\ Len(t) \in Nat /\ DOMAIN t = 1..Len(t)
  BY SeqIs
<1>2. /\ DOMAIN (s \o t) = 1..(Len(s) + Len(t))
      /\ \A i \in 1..(Len(s) + Len(t)) : (s \o t)[i] = IF i <= Len(s) THEN s[i] ELSE t[i - Len(s)]
  BY ConcatIs, SeqIs
<1>3. B \subseteq 1..Len(t) /\ A \subseteq 1..Len(s)
  BY <1>1 DEF RowsOf
<1>4. RowsOf(k, s \o t) = A \cup C
  <2>1. ASSUME NEW i \in RowsOf(k, s \o t) PROVE i \in A \cup C
    <3>1. i \in 1..(Len(s) + Len(t)) /\ (s \o t)[i].kind = "row" /\ (s \o t)[i].at = k
      BY <1>2, <2>1 DEF RowsOf
    <3>2. CASE i <= Len(s)
      <4>1. i \in 1..Len(s) /\ (s \o t)[i] = s[i]
        BY <1>1, <1>2, <3>1, <3>2
      <4> QED
        BY <1>1, <3>1, <4>1 DEF RowsOf
    <3>3. CASE ~(i <= Len(s))
      <4>1. i - Len(s) \in 1..Len(t) /\ (s \o t)[i] = t[i - Len(s)] /\ i = (i - Len(s)) + Len(s)
        BY <1>1, <1>2, <3>1, <3>3
      <4>2. i - Len(s) \in B
        BY <1>1, <3>1, <4>1 DEF RowsOf
      <4> QED
        BY <4>1, <4>2
    <3> QED
      BY <3>2, <3>3
  <2>2. ASSUME NEW i \in A PROVE i \in RowsOf(k, s \o t)
    <3>1. i \in 1..Len(s) /\ s[i].kind = "row" /\ s[i].at = k
      BY <1>1, <2>2 DEF RowsOf
    <3>2. i \in 1..(Len(s) + Len(t)) /\ (s \o t)[i] = s[i]
      BY <1>1, <1>2, <3>1
    <3> QED
      BY <1>2, <3>1, <3>2 DEF RowsOf
  <2>3. ASSUME NEW j \in B PROVE j + Len(s) \in RowsOf(k, s \o t)
    <3>1. j \in 1..Len(t) /\ t[j].kind = "row" /\ t[j].at = k
      BY <1>1, <2>3 DEF RowsOf
    <3>2. j + Len(s) \in 1..(Len(s) + Len(t)) /\ (s \o t)[j + Len(s)] = t[j]
      <4> DEFINE m == j + Len(s)
      <4>1. m \in 1..(Len(s) + Len(t)) /\ ~(m <= Len(s)) /\ m - Len(s) = j
        BY <1>1, <3>1
      <4> HIDE DEF m
      <4>2. (s \o t)[m] = t[m - Len(s)]
        BY <1>2, <4>1
      <4> QED
        BY <4>1, <4>2 DEF m
    <3> QED
      BY <1>2, <3>1, <3>2 DEF RowsOf
  <2> HIDE DEF A, B
  <2> QED
    BY <2>1, <2>2, <2>3
<1>5. IsFiniteSet(A) /\ IsFiniteSet(B)
  BY CountIs
<1>6. IsFiniteSet(C) /\ Cardinality(C) = Cardinality(B)
  <2>1. f \in [B -> C] /\ (\A i, j \in B : f[i] = f[j] => i = j) /\ (\A c \in C : \E j \in B : f[j] = c)
    <3>1. \A i, j \in B : i + Len(s) = j + Len(s) => i = j
      BY <1>1, <1>3
    <3> HIDE DEF A, B
    <3> QED
      BY <3>1
  <2> HIDE DEF A, B, C, f
  <2>2. f \in Bijection(B, C)
    BY <2>1 DEF Bijection, Injection, Surjection, IsInjective
  <2>3. ExistsBijection(B, C)
    BY <2>2 DEF ExistsBijection
  <2> QED
    BY <1>5, <2>3, FS_Bijection
<1>7. A \cap C = {}
  <2>1. \A j \in B : j + Len(s) \notin 1..Len(s)
    BY <1>1, <1>3
  <2> HIDE DEF A, B
  <2> QED
    BY <1>3, <2>1
<1>8. Cardinality(A) \in Nat /\ Cardinality(B) \in Nat
  BY <1>5, FS_CardinalityType
<1> HIDE DEF A, B, C
<1>9. Cardinality(A \cup C) = Cardinality(A) + Cardinality(C) - 0
  BY <1>5, <1>6, <1>7, FS_Union, FS_EmptySet
<1> QED
  BY <1>4, <1>6, <1>8, <1>9 DEF Count, A, B

LEMMA CountOne ==
  ASSUME NEW k, NEW x
  PROVE  Count(k, <<x>>) = (IF x.kind = "row" /\ x.at = k THEN 1 ELSE 0) /\ Count(k, <<>>) = 0
<1>1. DOMAIN <<x>> = {1} /\ <<x>>[1] = x /\ DOMAIN <<>> = {}
  OBVIOUS
<1>2. RowsOf(k, <<x>>) = IF x.kind = "row" /\ x.at = k THEN {1} ELSE {}
  BY <1>1 DEF RowsOf
<1>3. RowsOf(k, <<>>) = {}
  BY <1>1 DEF RowsOf
<1> QED
  BY <1>2, <1>3, FS_EmptySet, FS_Singleton DEF Count

LEMMA CountAppend ==
  ASSUME NEW k, NEW s, IsSeq(s), NEW x
  PROVE  /\ IsSeq(s \o <<x>>)
         /\ Count(k, s \o <<x>>) = Count(k, s) + (IF x.kind = "row" /\ x.at = k THEN 1 ELSE 0)
  BY ShortSeqs, ConcatIs, CountConcat, CountOne

(* The rows up to a position are those of a longer text. *)
LEMMA PrefixRows ==
  ASSUME NEW k, NEW s, NEW t, IsSeq(s), IsSeq(t), NEW i \in 1..Len(s)
  PROVE  RowsOf(k, SubSeq(s \o t, 1, i)) = RowsOf(k, SubSeq(s, 1, i))
<1>1. PICK S : s \in Seq(S) /\ t \in Seq(S)
  BY OneSet
<1>2. /\ Len(s) \in Nat /\ Len(t) \in Nat /\ s \o t \in Seq(S) /\ Len(s \o t) = Len(s) + Len(t)
      /\ \A j \in 1..(Len(s) + Len(t)) : (s \o t)[j] = IF j <= Len(s) THEN s[j] ELSE t[j - Len(s)]
  BY <1>1, ConcatProperties, LenProperties
<1>3. 1 \in Int /\ i \in Int /\ 1 <= i /\ i - 1 + 1 = i
  BY <1>2
<1>4. \A j \in 1..i : s[j] \in S /\ (s \o t)[j] = s[j]
  <2>1. \A j \in 1..i : j \in 1..Len(s) /\ j \in 1..(Len(s) + Len(t)) /\ j <= Len(s)
    BY <1>2
  <2> QED
    BY <1>1, <1>2, <2>1, ElementOfSeq
<1>5. /\ SubSeq(s, 1, i) \in Seq(S) /\ Len(SubSeq(s, 1, i)) = i
      /\ \A j \in 1..i : SubSeq(s, 1, i)[j] = s[1 + j - 1]
  BY <1>3, <1>4, SubSeqProperties
<1>6. /\ SubSeq(s \o t, 1, i) \in Seq(S) /\ Len(SubSeq(s \o t, 1, i)) = i
      /\ \A j \in 1..i : SubSeq(s \o t, 1, i)[j] = (s \o t)[1 + j - 1]
  BY <1>3, <1>4, SubSeqProperties
<1>7. DOMAIN SubSeq(s, 1, i) = 1..i /\ DOMAIN SubSeq(s \o t, 1, i) = 1..i
  BY <1>5, <1>6, LenProperties
<1>8. \A j \in 1..i : 1 + j - 1 = j
  BY <1>3
<1>9. \A j \in 1..i : SubSeq(s, 1, i)[j] = s[j] /\ SubSeq(s \o t, 1, i)[j] = s[j]
  BY <1>4, <1>5, <1>6, <1>8
<1> QED
  BY <1>7, <1>9 DEF RowsOf

----------------------------------------------------------------------------
(* The inductive invariant: what is on the screen and in the buffer, for     *)
(* every statement.                                                          *)

NoStats(s) == \A i \in DOMAIN s : s[i].kind # "stats"
PlaceInv ==
  /\ input \in Inputs /\ batch \in BOOLEAN /\ lost \in BOOLEAN
  /\ at \in 1..(Len(input) + 1) /\ pc \in {"seek", "rows", "done", "failed", "panic"}
  /\ pc \in {"seek", "rows"} => at <= Len(input)
BufferInv ==
  /\ IsSeq(buf) /\ NoStats(buf) /\ (pc # "rows" => buf = <<>> /\ size = 0)
  /\ \A k \in Nat : k # at => Count(k, buf) = 0
ScreenInv ==
  /\ IsSeq(screen)
  /\ \A k \in Nat : k > at \/ (k = at /\ pc \in {"seek", "done"}) => Count(k, screen) = 0
RowsInv ==
  pc = "rows" =>
    /\ IsColumn(Result) /\ col = ColumnOf(Result) /\ col.ok /\ ToSet(order) \subseteq DOMAIN col.value
    /\ Len(order) = Given(at) /\ size \in Nat /\ size <= Len(order)
    /\ Count(at, screen) + Count(at, buf) = size
OutputInv == PlaceInv /\ BufferInv /\ ScreenInv /\ RowsInv /\ CsvIsWhole /\ StatisticsCountTheRows

LEMMA InputIs ==
  ASSUME PlaceInv
  PROVE  /\ Len(input) \in Nat /\ Len(input) > 0 /\ at \in Nat
         /\ \A k \in 1..Len(input) : input[k] \in Results
<1>1. input \in Seq(Results) /\ input # <<>>
  BY InputAssumption DEF PlaceInv
<1>2. Len(input) \in Nat /\ Len(input) > 0 /\ \A k \in 1..Len(input) : input[k] \in Results
  BY <1>1, EmptySeq, ElementOfSeq
<1> QED
  BY <1>2 DEF PlaceInv

LEMMA ResultOfAt ==
  ASSUME PlaceInv, pc \in {"seek", "rows"}
  PROVE  Result \in Results
<1>1. at \in 1..Len(input)
  BY InputIs DEF PlaceInv
<1> QED
  BY <1>1, InputIs DEF Result

(* Statistics stay right when something is written behind them. *)
StatsOk(s, l) ==
  \A i \in DOMAIN s :
    s[i].kind = "stats" /\ ~l =>
      /\ s[i].rows = Given(s[i].at)
      /\ Cardinality(RowsOf(s[i].at, SubSeq(s, 1, i))) = s[i].rows
LEMMA StatsStay ==
  ASSUME NEW s, NEW t, NEW l, IsSeq(s), IsSeq(t), StatsOk(s, l), NoStats(t)
  PROVE  StatsOk(s \o t, l)
<1>1. /\ Len(s) \in Nat /\ DOMAIN s = 1..Len(s) /\ Len(t) \in Nat /\ DOMAIN t = 1..Len(t)
      /\ DOMAIN (s \o t) = 1..(Len(s) + Len(t))
      /\ \A i \in 1..(Len(s) + Len(t)) : (s \o t)[i] = IF i <= Len(s) THEN s[i] ELSE t[i - Len(s)]
  BY ConcatIs, SeqIs
<1>2. ASSUME NEW i \in DOMAIN (s \o t), (s \o t)[i].kind = "stats", ~l
      PROVE  /\ (s \o t)[i].rows = Given((s \o t)[i].at)
             /\ Cardinality(RowsOf((s \o t)[i].at, SubSeq(s \o t, 1, i))) = (s \o t)[i].rows
  <2>1. CASE i <= Len(s)
    <3>1. i \in 1..Len(s) /\ (s \o t)[i] = s[i]
      BY <1>1, <1>2, <2>1
    <3>2. RowsOf(s[i].at, SubSeq(s \o t, 1, i)) = RowsOf(s[i].at, SubSeq(s, 1, i))
      BY <3>1, PrefixRows
    <3> QED
      BY <1>1, <1>2, <3>1, <3>2 DEF StatsOk
  <2>2. CASE ~(i <= Len(s))
    <3>1. i - Len(s) \in 1..Len(t) /\ (s \o t)[i] = t[i - Len(s)]
      BY <1>1, <1>2, <2>2
    <3> QED
      BY <1>1, <1>2, <3>1 DEF NoStats
  <2> QED
    BY <2>1, <2>2
<1> QED
  BY <1>2 DEF StatsOk

LEMMA StatsAdded ==
  ASSUME NEW s, NEW l, IsSeq(s), StatsOk(s, l), NEW n, n = Given(at), Count(at, s) = n
  PROVE  StatsOk(s \o <<Stats(n)>>, l)
<1> DEFINE x == Stats(n)
           u == s \o <<x>>
<1>1. /\ Len(s) \in Nat /\ DOMAIN s = 1..Len(s) /\ IsSeq(u) /\ Len(u) = Len(s) + 1 /\ DOMAIN u = 1..(Len(s) + 1)
      /\ \A i \in 1..(Len(s) + 1) : u[i] = IF i <= Len(s) THEN s[i] ELSE <<x>>[i - Len(s)]
  BY ConcatIs, SeqIs, ShortSeqs
<1>2. x.kind = "stats" /\ x.at = at /\ x.rows = n
  BY DEF Stats
<1>3. ASSUME NEW i \in DOMAIN u, u[i].kind = "stats", ~l
      PROVE  /\ u[i].rows = Given(u[i].at)
             /\ Cardinality(RowsOf(u[i].at, SubSeq(u, 1, i))) = u[i].rows
  <2>1. CASE i <= Len(s)
    <3>1. i \in 1..Len(s) /\ u[i] = s[i]
      BY <1>1, <1>3, <2>1
    <3>2. RowsOf(s[i].at, SubSeq(u, 1, i)) = RowsOf(s[i].at, SubSeq(s, 1, i))
      BY <3>1, PrefixRows, ShortSeqs
    <3> HIDE DEF u
    <3> QED
      BY <1>1, <1>3, <3>1, <3>2 DEF StatsOk
  <2>2. CASE ~(i <= Len(s))
    <3>1. i = Len(s) + 1
      BY <1>1, <1>3, <2>2
    <3>2. u[i] = x
      BY <1>1, <3>1, ShortSeqs
    <3>3. SubSeq(u, 1, i) = u
      BY <1>1, <3>1, SubSeqFull DEF IsSeq
    <3>4. Count(at, u) = n + 0
      <4>1. Count(at, u) = Count(at, s) + 0
        BY <1>2, CountAppend
      <4> QED
        BY <4>1
    <3>5. n + 0 = n
      BY CountIs
    <3> HIDE DEF u, x
    <3> QED
      BY <1>2, <3>2, <3>3, <3>4, <3>5 DEF Count
  <2> QED
    BY <2>1, <2>2
<1> HIDE DEF u, x
<1>4. StatsOk(u, l)
  BY <1>3 DEF StatsOk
<1> QED
  BY <1>4 DEF u, x

LEMMA GivenStays ==
  ASSUME input' = input
  PROVE  \A k : Given(k)' = Given(k)
  BY DEF Given

LEMMA EmptyBuffer ==
  ASSUME buf' = <<>>, size' = 0
  PROVE  BufferInv'
<1>1. DOMAIN <<>> = {} /\ IsSeq(<<>>)
  BY ShortSeqs
<1>2. \A k : Count(k, <<>>) = 0
  BY CountOne
<1>3. NoStats(<<>>)
  BY <1>1 DEF NoStats
<1> QED
  BY <1>1, <1>2, <1>3 DEF BufferInv

(* The end of a statement. *)
LEMMA DoneStep ==
  ASSUME OutputInv, pc \in {"seek", "rows"}, NEW ok \in BOOLEAN, Done(ok), lost' \in BOOLEAN,
         IsSeq(screen'), \A k \in Nat : k # at => Count(k, screen') = Count(k, screen),
         StatsOk(screen', lost'), ok /\ batch => Count(at, screen') = Given(at)
  PROVE  OutputInv'
<1>1. /\ Len(input) \in Nat /\ at \in 1..Len(input) /\ at \in Nat
      /\ input' = input /\ batch' = batch /\ buf' = <<>> /\ size' = 0
  BY InputIs DEF OutputInv, PlaceInv, Done
<1>2. CASE ok
  <2>1. at' = at + 1 /\ pc' \in {"seek", "done"} /\ (at = Len(input) <=> pc' = "done")
    BY <1>2 DEF Done
  <2>2. PlaceInv'
    BY <1>1, <2>1 DEF OutputInv, PlaceInv
  <2>3. BufferInv'
    BY <1>1, EmptyBuffer
  <2>4. ScreenInv'
    <3>1. ASSUME NEW k \in Nat, k > at \/ k = at + 1 PROVE Count(k, screen') = 0
      <4>1. k > at /\ k # at
        BY <1>1, <3>1
      <4> QED
        BY <4>1 DEF OutputInv, ScreenInv
    <3>2. \A k \in Nat : k > at + 1 => k > at
      BY <1>1
    <3> QED
      BY <2>1, <3>1, <3>2 DEF ScreenInv
  <2>5. RowsInv'
    BY <2>1 DEF RowsInv
  <2>6. CsvIsWhole'
    <3>1. ASSUME batch, NEW k \in 1..at PROVE Count(k, screen') = Given(k)
      <4>1. CASE k = at
        BY <1>2, <3>1, <4>1
      <4>2. CASE k # at
        <5>1. k \in 1..(at - 1) /\ k \in Nat
          BY <1>1, <3>1, <4>2
        <5> QED
          BY <3>1, <4>2, <5>1 DEF OutputInv, CsvIsWhole, Count
      <4> QED
        BY <4>1, <4>2
    <3>2. 1..(at' - 1) = 1..at
      BY <1>1, <2>1
    <3> QED
      BY <1>1, <3>1, <3>2, GivenStays DEF CsvIsWhole, Count
  <2>7. StatisticsCountTheRows'
    BY <1>1, GivenStays DEF StatisticsCountTheRows, StatsOk
  <2> QED
    BY <2>2, <2>3, <2>4, <2>5, <2>6, <2>7 DEF OutputInv
<1>3. CASE ~ok
  <2>1. at' = at /\ pc' = "failed"
    BY <1>3 DEF Done
  <2>2. PlaceInv'
    BY <1>1, <2>1 DEF OutputInv, PlaceInv
  <2>3. BufferInv'
    BY <1>1, EmptyBuffer
  <2>4. ScreenInv'
    <3>1. ASSUME NEW k \in Nat, k > at PROVE Count(k, screen') = 0
      BY <1>1, <3>1 DEF OutputInv, ScreenInv
    <3> QED
      BY <2>1, <3>1 DEF ScreenInv
  <2>5. RowsInv'
    BY <2>1 DEF RowsInv
  <2>6. CsvIsWhole'
    <3>1. ASSUME batch, NEW k \in 1..(at - 1) PROVE Count(k, screen') = Given(k)
      <4>1. k \in Nat /\ k # at
        BY <1>1, <3>1
      <4> QED
        BY <3>1, <4>1 DEF OutputInv, CsvIsWhole, Count
    <3> QED
      BY <1>1, <2>1, <3>1, GivenStays DEF CsvIsWhole, Count
  <2>7. StatisticsCountTheRows'
    BY <1>1, GivenStays DEF StatisticsCountTheRows, StatsOk
  <2> QED
    BY <2>2, <2>3, <2>4, <2>5, <2>6, <2>7 DEF OutputInv
<1> QED
  BY <1>2, <1>3

----------------------------------------------------------------------------
(* The steps. *)

LEMMA OutputInit ==
  ASSUME Init
  PROVE  OutputInv
<1>1. IsSeq(<<>>)
  BY ShortSeqs
<1>2. \A k : Count(k, <<>>) = 0
  BY CountOne
<1>3. DOMAIN <<>> = {}
  OBVIOUS
<1>4. PlaceInv
  <2>1. input \in Inputs /\ input \in Seq(Results) /\ input # <<>>
    BY InputAssumption DEF Init
  <2>2. Len(input) \in Nat /\ Len(input) > 0
    BY <2>1, EmptySeq
  <2>3. pc = "seek" /\ at = 1 /\ batch \in BOOLEAN /\ lost = FALSE
    BY DEF Init
  <2>4. at \in 1..(Len(input) + 1) /\ at <= Len(input)
    BY <2>2, <2>3
  <2> QED
    BY <2>1, <2>3, <2>4 DEF PlaceInv
<1>5. NoStats(<<>>)
  BY <1>3 DEF NoStats
<1>6. BufferInv /\ ScreenInv
  BY <1>1, <1>2, <1>5 DEF Init, BufferInv, ScreenInv
<1>7. RowsInv
  BY DEF Init, RowsInv
<1>8. CsvIsWhole /\ StatisticsCountTheRows
  BY <1>3 DEF Init, CsvIsWhole, StatisticsCountTheRows
<1> QED
  BY <1>4, <1>6, <1>7, <1>8 DEF OutputInv

(* What is no row counts as none. *)
LEMMA CountOther ==
  ASSUME NEW s, IsSeq(s), NEW x, x.kind # "row"
  PROVE  IsSeq(s \o <<x>>) /\ \A k : Count(k, s \o <<x>>) = Count(k, s)
<1>1. IsSeq(s \o <<x>>)
  BY CountAppend
<1>2. ASSUME NEW k PROVE Count(k, s \o <<x>>) = Count(k, s)
  <2>1. Count(k, s \o <<x>>) = Count(k, s) + 0
    BY CountAppend
  <2> QED
    BY <2>1, CountIs
<1> QED
  BY <1>1, <1>2

(* A statement without rows. *)
LEMMA MessageStep ==
  ASSUME OutputInv, NEW s, Message_(s), s \in {<<>>, <<Message>>, <<Stats(0)>>}, Given(at) = 0
  PROVE  OutputInv'
<1> DEFINE Right(u) == IsSeq(u) /\ (\A k : Count(k, u) = Count(k, screen)) /\ StatsOk(u, lost)
<1>1. /\ pc = "seek" /\ Say(s) /\ Done(TRUE) /\ lost \in BOOLEAN /\ at \in Nat
      /\ IsSeq(screen) /\ StatsOk(screen, lost) /\ Count(at, screen) = 0
  BY InputIs DEF Message_, OutputInv, PlaceInv, ScreenInv, StatisticsCountTheRows, StatsOk
<1>2. Message.kind = "message" /\ Stats(0).kind = "stats"
  BY DEF Message, Stats
<1>3. Right(screen)
  BY <1>1
<1>4. Right(screen \o <<>>)
  BY <1>3, ConcatEmptySeq DEF IsSeq
<1>5. Right(screen \o <<Message>>)
  <2>1. NoStats(<<Message>>) /\ IsSeq(<<Message>>)
    BY <1>2, ShortSeqs DEF NoStats
  <2>2. StatsOk(screen \o <<Message>>, lost)
    BY <1>1, <2>1, StatsStay
  <2> QED
    BY <1>1, <1>2, <2>2, CountOther
<1>6. Right(screen \o <<Stats(0)>>)
  <2>1. StatsOk(screen \o <<Stats(0)>>, lost)
    BY <1>1, StatsAdded
  <2> QED
    BY <1>1, <1>2, <2>1, CountOther
<1>7. /\ lost' \in BOOLEAN /\ IsSeq(screen') /\ (\A k : Count(k, screen') = Count(k, screen))
      /\ StatsOk(screen', lost')
  <2>1. CASE full
    <3>1. lost' = TRUE /\ screen' = screen
      BY <1>1, <2>1 DEF Say
    <3>2. StatsOk(screen', TRUE)
      BY DEF StatsOk
    <3> QED
      BY <1>3, <3>1, <3>2
  <2>2. CASE ~full
    <3>1. lost' = lost /\ screen' = screen \o s
      BY <1>1, <2>2 DEF Say
    <3> HIDE DEF Right
    <3>2. Right(screen \o s)
      BY <1>4, <1>5, <1>6
    <3>3. Right(screen')
      BY <3>1, <3>2
    <3> QED
      BY <1>1, <3>1, <3>3 DEF Right
  <2> QED
    BY <2>1, <2>2
<1>8. TRUE /\ batch => Count(at, screen') = Given(at)
  BY <1>1, <1>7
<1> QED
  BY <1>1, <1>7, <1>8, DoneStep

LEMMA GivenNone ==
  ASSUME OutputInv, pc = "seek"
  PROVE  /\ Result.kind \in {"error", "exec"} => Given(at) = 0
         /\ Result.kind \notin {"error", "exec"} /\ ~ColumnOf(Result).ok => Given(at) = 0
         /\ Result.kind \notin {"error", "exec"} /\ Result.records = <<>> => Given(at) = 0
<1>1. Result \in Results /\ Result = input[at]
  BY ResultOfAt DEF OutputInv, Result
<1>2. Result.kind \in {"error", "exec"} => Given(at) = 0
  BY <1>1 DEF Given
<1>3. Result.kind \notin {"error", "exec"} /\ ~ColumnOf(Result).ok => Given(at) = 0
  BY <1>1 DEF Given, ColumnOf
<1>4. ASSUME Result.kind \notin {"error", "exec"}, Result.records = <<>> PROVE Given(at) = 0
  <2>1. Result.records \in Records /\ Len(Result.records) = 0 /\ Result.offset \in Nat
    BY <1>1, <1>4, ResultIs, EmptySeq
  <2>2. PICK a : Adding(a, Result.kind, Result.method, Result.records)
    BY <2>1, AddsOneByOne DEF Records
  <2>3. ColumnOf(Result) = Empty
    BY <2>1, <2>2 DEF Adding, ColumnOf
  <2>4. Cardinality(DOMAIN ColumnOf(Result).value) = 0
    BY <2>3, FailedIs, FS_EmptySet
  <2>5. Max({0, 0 - Result.offset}) = 0
    BY <2>1 DEF Max
  <2> QED
    BY <1>1, <1>4, <2>3, <2>4, <2>5, FailedIs DEF Given, ColumnOf
<1> QED
  BY <1>2, <1>3, <1>4

LEMMA RefuseStep ==
  ASSUME OutputInv, pc = "seek", Refuse
  PROVE  OutputInv'
<1>1. Given(at) = 0
  BY GivenNone DEF Refuse, ColumnOf
<1> QED
  BY <1>1, MessageStep DEF Refuse

LEMMA ExecStep ==
  ASSUME OutputInv, pc = "seek", Exec
  PROVE  OutputInv'
<1>1. Given(at) = 0
  BY GivenNone DEF Exec
<1> QED
  BY <1>1, MessageStep DEF Exec

LEMMA NoRowStep ==
  ASSUME OutputInv, pc = "seek", NoRow
  PROVE  OutputInv'
<1>1. Given(at) = 0
  BY GivenNone DEF NoRow
<1>2. PICK s \in {<<>>, <<Stats(0)>>} : Message_(s)
  BY DEF NoRow
<1> QED
  BY <1>1, <1>2, MessageStep

(* The groups of a column are finitely many. *)
LEMMA FiniteGroups ==
  ASSUME NEW r \in Results, r.kind \in Kinds
  PROVE  IsFiniteSet(DOMAIN ColumnOf(r).value)
<1>1. r.records \in Records /\ r.method \in Methods
  BY ResultIs
<1>2. PICK a : Adding(a, r.kind, r.method, r.records)
  BY <1>1, AddsOneByOne DEF Records
<1>3. Len(r.records) \in 0..Len(r.records)
  BY <1>1, LenOfRecords
<1>4. Grouped(a[Len(r.records)], r.records, Len(r.records))
  BY <1>1, <1>2, <1>3, GroupedIs
<1> QED
  BY <1>2, <1>4 DEF Adding, Grouped, ColumnOf

LEMMA OrderIs ==
  ASSUME NEW S, IsFiniteSet(S), NEW f \in SetToSeqs(S), NEW offset \in Nat
  PROVE  LET o == SubSeq(f, offset + 1, Len(f))
         IN  /\ ToSet(o) \subseteq S
             /\ Len(o) \in Nat /\ Len(o) = Max({0, Cardinality(S) - offset})
<1> DEFINE n == Cardinality(S)
           o == SubSeq(f, offset + 1, Len(f))
<1>1. n \in Nat
  BY FS_CardinalityType
<1>2. f \in [1..n -> S]
  BY DEF SetToSeqs
<1>3. f \in Seq(S) /\ Len(f) = n
  BY <1>1, <1>2
<1>4. offset + 1 \in Int /\ Len(f) \in Int /\ \A i \in (offset + 1)..Len(f) : f[i] \in S
  BY <1>1, <1>2, <1>3
<1>5. o \in Seq(S) /\ Len(o) = IF offset + 1 <= Len(f) THEN Len(f) - (offset + 1) + 1 ELSE 0
  BY <1>4, SubSeqProperties
<1>6. Max({0, n - offset}) = IF n - offset > 0 THEN n - offset ELSE 0
  BY <1>1 DEF Max
<1>7. ToSet(o) \subseteq S
  <2>1. DOMAIN o = 1..Len(o) /\ \A i \in 1..Len(o) : o[i] \in S
    BY <1>5, LenProperties, ElementOfSeq
  <2> QED
    BY <2>1 DEF ToSet
<1> HIDE DEF o, n
<1>8. Len(o) \in Nat /\ Len(o) = Max({0, n - offset})
  BY <1>1, <1>3, <1>5, <1>6
<1> QED
  BY <1>7, <1>8 DEF o, n

LEMMA WriteHeadStep ==
  ASSUME OutputInv, WriteHead
  PROVE  OutputInv'
<1> DEFINE c == ColumnOf(Result)
           len == IF HeadLen < c.cs THEN c.cs ELSE HeadLen
<1>1. /\ pc = "seek" /\ pc' = "rows" /\ Result.kind \notin {"error", "exec"} /\ Result.records # <<>>
      /\ c.ok /\ col' = c
      /\ buf' = CASE Style = "csv"   -> <<Title(len)>>
                  [] Style = "ascii" -> <<Sep, Title(len), Sep>>
                  [] Style = "vascii" -> <<>>
      /\ UNCHANGED <<batch, input, at, size, bad, screen, full, faults, lost>>
  BY DEF WriteHead, ColumnOf
<1>2. PICK f \in SetToSeqs(DOMAIN c.value) : order' = SubSeq(f, Result.offset + 1, Len(f))
  BY DEF WriteHead, ColumnOf
<1>3. Result \in Results /\ at \in Nat
  BY <1>1, ResultOfAt, InputIs DEF OutputInv
<1>4. /\ Result.kind \in Kinds /\ Result.offset \in Nat /\ IsColumn(Result)
      /\ (Style = "csv" \/ Style = "ascii" \/ Style = "vascii")
  BY <1>1, <1>3, ResultIs DEF IsColumn, Style
<1> HIDE DEF len
<1>5. IsSeq(buf') /\ NoStats(buf') /\ \A k : Count(k, buf') = 0
  <2>1. Title(len).kind = "head" /\ Sep.kind = "sep"
    BY DEF Title, Sep
  <2>2. NoStats(<<>>) /\ NoStats(<<Title(len)>>) /\ NoStats(<<Sep, Title(len), Sep>>)
    BY <2>1 DEF NoStats
  <2>3. IsSeq(<<>>) /\ IsSeq(<<Title(len)>>)
    BY ShortSeqs
  <2>4. IsSeq(<<Sep, Title(len), Sep>>)
    <3>1. <<Sep, Title(len), Sep>> \in Seq({Sep, Title(len)})
      OBVIOUS
    <3> QED
      BY <3>1 DEF IsSeq
  <2>5. \A k : Count(k, <<>>) = 0
    BY CountOne
  <2>6. \A k : Count(k, <<Title(len)>>) = 0
    BY <2>1, CountOne
  <2>7. ASSUME NEW k PROVE Count(k, <<Sep, Title(len), Sep>>) = 0
    <3>1. RowsOf(k, <<Sep, Title(len), Sep>>) = {}
      BY <2>1 DEF RowsOf
    <3> QED
      BY <3>1, FS_EmptySet DEF Count
  <2>8. buf' \in {<<>>, <<Title(len)>>, <<Sep, Title(len), Sep>>}
    BY <1>1, <1>4
  <2> QED
    BY <2>2, <2>3, <2>4, <2>5, <2>6, <2>7, <2>8
<1>6. ToSet(order') \subseteq DOMAIN c.value /\ Len(order') \in Nat /\ Len(order') = Given(at)
  <2>1. IsFiniteSet(DOMAIN c.value)
    BY <1>3, <1>4, FiniteGroups
  <2>2. /\ ToSet(order') \subseteq DOMAIN c.value /\ Len(order') \in Nat
        /\ Len(order') = Max({0, Cardinality(DOMAIN c.value) - Result.offset})
    <3> HIDE DEF c
    <3> QED
      BY <1>2, <1>4, <2>1, OrderIs
  <2>3. Given(at) = Max({0, Cardinality(DOMAIN c.value) - Result.offset})
    BY <1>1 DEF Given, ColumnOf, Result
  <2> QED
    BY <2>2, <2>3
<1> HIDE DEF c
<1>7. Count(at, screen) = 0 /\ IsSeq(screen) /\ size = 0
  BY <1>1, <1>3 DEF OutputInv, ScreenInv, BufferInv
<1>8. PlaceInv'
  BY <1>1 DEF OutputInv, PlaceInv
<1>9. BufferInv'
  BY <1>1, <1>5 DEF BufferInv
<1>10. ScreenInv'
  BY <1>1 DEF OutputInv, ScreenInv
<1>11. RowsInv'
  <2>1. Result' = Result /\ Given(at)' = Given(at)
    BY <1>1 DEF Result, Given
  <2>2. IsColumn(Result') /\ col' = ColumnOf(Result') /\ col'.ok /\ ToSet(order') \subseteq DOMAIN col'.value
    BY <1>1, <1>4, <1>6, <2>1 DEF c
  <2>3. Count(at', screen') = 0 /\ Count(at', buf') = 0
    BY <1>1, <1>5, <1>7
  <2>4. size' = 0
    BY <1>1, <1>7
  <2>5. Count(at', screen') + Count(at', buf') = size'
    BY <2>3, <2>4
  <2>6. Len(order') = Given(at)' /\ size' \in Nat /\ size' <= Len(order')
    BY <1>6, <2>1, <2>4
  <2> QED
    BY <2>2, <2>5, <2>6 DEF RowsInv
<1>12. CsvIsWhole' /\ StatisticsCountTheRows'
  BY <1>1, GivenStays DEF OutputInv, CsvIsWhole, StatisticsCountTheRows
<1> QED
  BY <1>8, <1>9, <1>10, <1>11, <1>12 DEF OutputInv

LEMMA OrderLength ==
  ASSUME OutputInv, pc = "rows"
  PROVE  Len(order) \in Nat
<1> DEFINE r == Result
<1>1. IsColumn(r) /\ ColumnOf(r).ok /\ Len(order) = Given(at) /\ r = input[at]
  BY DEF OutputInv, RowsInv, Result
<1> HIDE DEF r
<1>2. Cardinality(DOMAIN ColumnOf(r).value) \in Nat /\ r.offset \in Nat
  BY <1>1, FiniteGroups, FS_CardinalityType, ResultIs DEF IsColumn
<1>3. Given(at) = IF r.kind \in {"error", "exec"} THEN 0 ELSE Max({0, Cardinality(DOMAIN ColumnOf(r).value) - r.offset})
  BY <1>1 DEF Given, ColumnOf
<1>4. Max({0, Cardinality(DOMAIN ColumnOf(r).value) - r.offset}) \in Nat
  BY <1>2 DEF Max
<1> QED
  BY <1>1, <1>3, <1>4

LEMMA NoStatsAppend ==
  ASSUME NEW s, IsSeq(s), NoStats(s), NEW x, x.kind # "stats"
  PROVE  NoStats(s \o <<x>>)
<1> DEFINE u == s \o <<x>>
<1>1. /\ Len(s) \in Nat /\ DOMAIN u = 1..(Len(s) + 1) /\ DOMAIN s = 1..Len(s)
      /\ \A i \in 1..(Len(s) + 1) : u[i] = IF i <= Len(s) THEN s[i] ELSE <<x>>[i - Len(s)]
  BY ConcatIs, SeqIs, ShortSeqs
<1> HIDE DEF u
<1>2. ASSUME NEW i \in DOMAIN u PROVE u[i].kind # "stats"
  <2>1. CASE i <= Len(s)
    BY <1>1, <1>2, <2>1 DEF NoStats
  <2>2. CASE ~(i <= Len(s))
    <3>1. i - Len(s) = 1
      BY <1>1, <1>2, <2>2
    <3>2. u[i] = x
      BY <1>1, <1>2, <2>2, <3>1, ShortSeqs
    <3> QED
      BY <3>2
  <2> QED
    BY <2>1, <2>2
<1>3. NoStats(u)
  BY <1>2 DEF NoStats
<1> QED
  BY <1>3 DEF u

LEMMA ConcatIsAssociative ==
  ASSUME NEW s, NEW t, NEW u, IsSeq(s), IsSeq(t), IsSeq(u)
  PROVE  s \o (t \o u) = (s \o t) \o u
<1>1. PICK S : s \in Seq(S) /\ t \in Seq(S)
  BY OneSet
<1>2. PICK T : u \in Seq(T)
  BY DEF IsSeq
<1> DEFINE U == S \cup T
<1>3. s \in Seq(U) /\ t \in Seq(U) /\ u \in Seq(U)
  BY <1>1, <1>2, SeqGrows
<1> HIDE DEF U
<1>4. (s \o t) \o u = s \o (t \o u)
  BY <1>3, ConcatAssociative
<1> QED
  BY <1>4

LEMMA WriteStep ==
  ASSUME OutputInv, Write
  PROVE  OutputInv'
<1>1. /\ pc = "rows" /\ size < Len(order) /\ size \in Nat /\ at \in Nat /\ at <= Len(input)
      /\ IsSeq(screen) /\ IsSeq(buf) /\ NoStats(buf) /\ StatsOk(screen, lost)
  BY InputIs DEF Write, OutputInv, PlaceInv, BufferInv, ScreenInv, RowsInv, StatisticsCountTheRows, StatsOk
<1>2. CASE batch /\ bad
  <2>1. lost' = TRUE /\ Done(FALSE) /\ screen' = screen
    BY <1>2 DEF Write
  <2>2. StatsOk(screen', lost')
    BY <2>1 DEF StatsOk
  <2>3. lost' \in BOOLEAN /\ IsSeq(screen') /\ \A k \in Nat : k # at => Count(k, screen') = Count(k, screen)
    BY <1>1, <2>1
  <2> QED
    BY <1>1, <2>1, <2>2, <2>3, DoneStep
<1>3. CASE ~(batch /\ bad)
  <2> DEFINE x == Line(size + 1, Value(col.value[order[size + 1]]))
             u == buf \o <<x>>
  <2>1. /\ size' = size + 1 /\ buf' = u
        /\ UNCHANGED <<pc, batch, input, at, col, order, bad, screen, full, faults, lost>>
    BY <1>1, <1>3, AppendIs DEF Write
  <2>2. x.kind = "row" /\ x.at = at
    BY DEF Line
  <2> HIDE DEF x
  <2>3. IsSeq(u) /\ (\A k : k # at => Count(k, u) = Count(k, buf) + 0) /\ Count(at, u) = Count(at, buf) + 1
    BY <1>1, <2>2, CountAppend
  <2>4. NoStats(u)
    BY <1>1, <2>2, NoStatsAppend
  <2> HIDE DEF u
  <2>5. Count(at, buf) \in Nat /\ Count(at, screen) \in Nat /\ \A k : Count(k, buf) \in Nat
    BY <1>1, CountIs
  <2>6. PlaceInv'
    BY <1>1, <2>1 DEF OutputInv, PlaceInv
  <2>7. BufferInv'
    BY <1>1, <2>1, <2>3, <2>4, <2>5 DEF OutputInv, BufferInv
  <2>8. ScreenInv'
    BY <2>1 DEF OutputInv, ScreenInv
  <2>9. RowsInv'
    <3>1. Result' = Result /\ Given(at)' = Given(at)
      BY <2>1 DEF Result, Given
    <3>2. /\ IsColumn(Result) /\ col = ColumnOf(Result) /\ col.ok /\ ToSet(order) \subseteq DOMAIN col.value
          /\ Len(order) = Given(at) /\ Count(at, screen) + Count(at, buf) = size
      BY <1>1 DEF OutputInv, RowsInv
    <3>3. Len(order) \in Nat
      BY <1>1, OrderLength DEF OutputInv
    <3>4. /\ IsColumn(Result)' /\ col' = ColumnOf(Result)' /\ col'.ok /\ ToSet(order') \subseteq DOMAIN col'.value
          /\ Len(order') = Given(at)'
      BY <2>1, <3>1, <3>2
    <3>5. Count(at, screen)' = Count(at, screen) /\ Count(at, buf)' = Count(at, buf) + 1
      BY <2>1, <2>3
    <3>6. size' \in Nat /\ size' <= Len(order)' /\ Count(at, screen)' + Count(at, buf)' = size'
      BY <1>1, <2>1, <2>5, <3>2, <3>3, <3>5
    <3> QED
      BY <3>4, <3>6 DEF RowsInv
  <2>10. CsvIsWhole' /\ StatisticsCountTheRows'
    BY <2>1, GivenStays DEF OutputInv, CsvIsWhole, StatisticsCountTheRows
  <2> QED
    BY <2>6, <2>7, <2>8, <2>9, <2>10 DEF OutputInv
<1> QED
  BY <1>2, <1>3

(* A part of the buffer is sent. *)
LEMMA PartsAre ==
  ASSUME NEW s, IsSeq(s), NoStats(s), NEW n \in DOMAIN s
  PROVE  /\ IsSeq(SubSeq(s, 1, n)) /\ NoStats(SubSeq(s, 1, n))
         /\ IsSeq(SubSeq(s, n + 1, Len(s))) /\ NoStats(SubSeq(s, n + 1, Len(s)))
         /\ \A k : Count(k, s) = Count(k, SubSeq(s, 1, n)) + Count(k, SubSeq(s, n + 1, Len(s)))
<1> DEFINE p == SubSeq(s, 1, n)
           q == SubSeq(s, n + 1, Len(s))
           S == {s[i] : i \in DOMAIN s}
<1>1. Len(s) \in Nat /\ DOMAIN s = 1..Len(s)
  BY SeqIs
<1>2. s \in Seq(S)
  <2>1. s \in [1..Len(s) -> S]
    <3>1. \E T : s \in [1..Len(s) -> T]
      BY LenProperties DEF IsSeq
    <3> QED
      BY <1>1, <3>1
  <2> HIDE DEF S
  <2> QED
    BY <1>1, <2>1
<1>3. \A x \in S : x.kind # "stats"
  BY DEF NoStats
<1>4. \A i \in 1..Len(s) : s[i] \in S
  BY <1>1
<1> HIDE DEF S
<1>5. 1 \in Int /\ n \in Int /\ n + 1 \in Int /\ Len(s) \in Int /\ 1 <= n /\ n <= Len(s)
  BY <1>1
<1>6. p \in Seq(S)
  <2>1. \A i \in 1..n : s[i] \in S
    BY <1>4, <1>5
  <2> QED
    BY <1>5, <2>1, SubSeqProperties
<1>7. q \in Seq(S)
  <2>1. \A i \in (n + 1)..Len(s) : s[i] \in S
    BY <1>4, <1>5
  <2> QED
    BY <1>5, <2>1, SubSeqProperties
<1>8. p \o q = s
  <2>1. 1 \in 1..Len(s) + 1 /\ n \in 1 - 1 .. Len(s) /\ Len(s) \in n .. Len(s)
    BY <1>1, <1>5
  <2>2. p \o q = SubSeq(s, 1, Len(s))
    BY <1>2, <2>1, ConcatAdjacentSubSeq
  <2> QED
    BY <1>2, <2>2, SubSeqFull
<1> HIDE DEF p, q
<1>9. NoStats(p) /\ NoStats(q)
  <2>1. ASSUME NEW t \in Seq(S) PROVE NoStats(t)
    BY <1>3, <2>1, ElementOfSeq, LenProperties DEF NoStats
  <2> QED
    BY <1>6, <1>7, <2>1
<1>10. IsSeq(p) /\ IsSeq(q)
  BY <1>6, <1>7 DEF IsSeq
<1>11. \A k : Count(k, s) = Count(k, p) + Count(k, q)
  BY <1>8, <1>10, CountConcat
<1> QED
  BY <1>9, <1>10, <1>11 DEF p, q

LEMMA SpillStep ==
  ASSUME OutputInv, Spill
  PROVE  OutputInv'
<1>1. /\ pc = "rows" /\ size \in Nat /\ at \in Nat
      /\ IsSeq(screen) /\ IsSeq(buf) /\ NoStats(buf) /\ StatsOk(screen, lost)
      /\ UNCHANGED <<pc, batch, input, at, col, order, size, full, faults, lost>>
  BY InputIs DEF Spill, OutputInv, BufferInv, ScreenInv, RowsInv, StatisticsCountTheRows, StatsOk
<1>2. /\ IsSeq(screen') /\ IsSeq(buf') /\ NoStats(buf') /\ StatsOk(screen', lost)
      /\ \A k : /\ Count(k, screen') + Count(k, buf') = Count(k, screen) + Count(k, buf)
                /\ Count(k, screen') \in Nat /\ Count(k, buf') \in Nat
                /\ Count(k, buf) = 0 => Count(k, screen') = Count(k, screen)
  <2>1. CASE full
    BY <1>1, <2>1, CountIs DEF Spill
  <2>2. CASE ~full
    <3>1. PICK n \in DOMAIN buf : screen' = screen \o SubSeq(buf, 1, n) /\ buf' = SubSeq(buf, n + 1, Len(buf))
      BY <2>2 DEF Spill
    <3> DEFINE p == SubSeq(buf, 1, n)
               q == SubSeq(buf, n + 1, Len(buf))
               u == screen \o p
    <3>2. /\ IsSeq(p) /\ NoStats(p) /\ IsSeq(q) /\ NoStats(q)
          /\ \A k : Count(k, buf) = Count(k, p) + Count(k, q)
      BY <1>1, PartsAre
    <3>3. screen' = u /\ buf' = q
      BY <3>1
    <3> HIDE DEF p, q
    <3>4. IsSeq(u) /\ StatsOk(u, lost) /\ \A k : Count(k, u) = Count(k, screen) + Count(k, p)
      BY <1>1, <3>2, ConcatIs, StatsStay, CountConcat
    <3>5. \A k : Count(k, screen) \in Nat /\ Count(k, p) \in Nat /\ Count(k, q) \in Nat
      BY <1>1, <3>2, CountIs
    <3> HIDE DEF u
    <3>6. ASSUME NEW k
          PROVE  /\ Count(k, u) + Count(k, q) = Count(k, screen) + Count(k, buf)
                 /\ Count(k, u) \in Nat /\ Count(k, q) \in Nat
                 /\ Count(k, buf) = 0 => Count(k, u) = Count(k, screen)
      BY <3>2, <3>4, <3>5
    <3> QED
      BY <3>2, <3>3, <3>4, <3>6
  <2> QED
    BY <2>1, <2>2
<1>3. PlaceInv'
  BY <1>1 DEF OutputInv, PlaceInv
<1>4. BufferInv'
  <2>1. ASSUME NEW k \in Nat, k # at PROVE Count(k, buf') = 0
    <3>1. Count(k, buf) = 0
      BY <2>1 DEF OutputInv, BufferInv
    <3> QED
      BY <1>2, <3>1
  <2> QED
    BY <1>1, <1>2, <2>1 DEF BufferInv
<1>5. ScreenInv'
  <2>1. ASSUME NEW k \in Nat, k > at PROVE Count(k, screen') = 0
    <3>1. Count(k, buf) = 0 /\ Count(k, screen) = 0
      BY <1>1, <2>1 DEF OutputInv, BufferInv, ScreenInv
    <3> QED
      BY <1>2, <3>1
  <2> QED
    BY <1>1, <1>2, <2>1 DEF ScreenInv
<1>6. RowsInv'
  <2>1. Result' = Result /\ Given(at)' = Given(at)
    BY <1>1 DEF Result, Given
  <2>2. /\ IsColumn(Result) /\ col = ColumnOf(Result) /\ col.ok /\ ToSet(order) \subseteq DOMAIN col.value
        /\ Len(order) = Given(at) /\ Count(at, screen) + Count(at, buf) = size /\ size <= Len(order)
    BY <1>1 DEF OutputInv, RowsInv
  <2>3. Count(at, screen') + Count(at, buf') = size
    BY <1>2, <2>2
  <2> QED
    BY <1>1, <2>1, <2>2, <2>3 DEF RowsInv
<1>7. CsvIsWhole'
  <2>1. ASSUME batch, NEW k \in 1..(at - 1) PROVE Count(k, screen') = Given(k)
    <3>1. k \in Nat /\ k # at
      BY <1>1, <2>1
    <3>2. Count(k, buf) = 0 /\ Count(k, screen) = Given(k)
      BY <2>1, <3>1 DEF OutputInv, BufferInv, CsvIsWhole, Count
    <3> QED
      BY <1>2, <3>2
  <2> QED
    BY <1>1, <2>1, GivenStays DEF CsvIsWhole, Count
<1>8. StatisticsCountTheRows'
  BY <1>1, <1>2, GivenStays DEF StatisticsCountTheRows, StatsOk
<1> QED
  BY <1>3, <1>4, <1>5, <1>6, <1>7, <1>8 DEF OutputInv

(* What Flush sends, when stdout works. *)
LEMMA FlushSends ==
  ASSUME OutputInv, pc = "rows", size = Len(order), ~bad
  PROVE  /\ IsSeq(screen \o Sent(bad)) /\ StatsOk(screen \o Sent(bad), lost)
         /\ \A k : Count(k, screen \o Sent(bad)) = Count(k, screen) + Count(k, buf)
<1> DEFINE e == buf \o End
           u == screen \o e
<1>1. /\ IsSeq(screen) /\ IsSeq(buf) /\ NoStats(buf) /\ StatsOk(screen, lost)
      /\ size = Given(at) /\ Count(at, screen) + Count(at, buf) = size /\ size \in Nat
  BY DEF OutputInv, BufferInv, ScreenInv, RowsInv, StatisticsCountTheRows, StatsOk
<1>2. IsSeq(e) /\ NoStats(e) /\ \A k : Count(k, e) = Count(k, buf)
  <2>1. CASE End = <<>>
    <3>1. e = buf
      BY <1>1, <2>1, ConcatEmptySeq DEF IsSeq
    <3> QED
      BY <1>1, <3>1
  <2>2. CASE End = <<Sep>>
    <3>1. Sep.kind = "sep"
      BY DEF Sep
    <3>2. IsSeq(buf \o <<Sep>>) /\ \A k : Count(k, buf \o <<Sep>>) = Count(k, buf)
      BY <1>1, <3>1, CountOther
    <3>3. NoStats(buf \o <<Sep>>)
      BY <1>1, <3>1, NoStatsAppend
    <3> QED
      BY <2>2, <3>2, <3>3
  <2> QED
    BY <2>1, <2>2 DEF End
<1> HIDE DEF e
<1>3. IsSeq(u) /\ StatsOk(u, lost) /\ \A k : Count(k, u) = Count(k, screen) + Count(k, buf)
  <2>1. IsSeq(u) /\ StatsOk(u, lost)
    BY <1>1, <1>2, ConcatIs, StatsStay
  <2>2. \A k : Count(k, u) = Count(k, screen) + Count(k, e)
    BY <1>1, <1>2, CountConcat
  <2> HIDE DEF u
  <2> QED
    BY <1>2, <2>1, <2>2
<1>4. screen \o Sent(bad) = u \o Statistics
  <2>1. Sent(bad) = e \o Statistics
    BY DEF Sent, e
  <2>2. IsSeq(Statistics)
    BY ShortSeqs DEF Statistics
  <2> QED
    BY <1>1, <1>2, <2>1, <2>2, ConcatIsAssociative
<1> HIDE DEF u
<1>5. CASE batch
  <2>1. u \o Statistics = u
    BY <1>3, <1>5, ConcatEmptySeq DEF IsSeq, Statistics
  <2> QED
    BY <1>3, <1>4, <2>1
<1>6. CASE ~batch
  <2>1. Statistics = <<Stats(size)>> /\ Stats(size).kind = "stats"
    BY <1>6 DEF Statistics, Stats
  <2>2. StatsOk(u \o <<Stats(size)>>, lost)
    <3>1. Count(at, u) = size
      BY <1>1, <1>3
    <3> QED
      BY <1>1, <1>3, <3>1, StatsAdded
  <2>3. IsSeq(u \o <<Stats(size)>>) /\ \A k : Count(k, u \o <<Stats(size)>>) = Count(k, u)
    BY <1>3, <2>1, CountOther
  <2> QED
    BY <1>3, <1>4, <2>1, <2>2, <2>3
<1> QED
  BY <1>5, <1>6

(* After an error of stdout the statistics alone are sent. *)
LEMMA FlushSendsNoRow ==
  ASSUME IsSeq(screen)
  PROVE  IsSeq(screen \o Sent(TRUE)) /\ \A k : Count(k, screen \o Sent(TRUE)) = Count(k, screen)
<1>1. Sent(TRUE) = Statistics
  <2>1. IsSeq(Statistics)
    BY ShortSeqs DEF Statistics
  <2> QED
    BY <2>1, ConcatEmptySeq DEF IsSeq, Sent
<1>2. CASE batch
  <2>1. screen \o Statistics = screen
    BY <1>2, ConcatEmptySeq DEF IsSeq, Statistics
  <2> QED
    BY <1>1, <2>1
<1>3. CASE ~batch
  <2>1. Statistics = <<Stats(size)>> /\ Stats(size).kind = "stats"
    BY <1>3 DEF Statistics, Stats
  <2>2. IsSeq(screen \o <<Stats(size)>>) /\ \A k : Count(k, screen \o <<Stats(size)>>) = Count(k, screen)
    BY <2>1, CountOther
  <2> QED
    BY <1>1, <2>1, <2>2
<1> QED
  BY <1>2, <1>3

LEMMA FlushStep ==
  ASSUME OutputInv, Flush
  PROVE  OutputInv'
<1>1. /\ pc = "rows" /\ size = Len(order) /\ at \in Nat /\ lost \in BOOLEAN /\ batch \in BOOLEAN
      /\ IsSeq(screen) /\ IsSeq(buf) /\ StatsOk(screen, lost)
      /\ Len(order) = Given(at) /\ Count(at, screen) + Count(at, buf) = size /\ size \in Nat
      /\ \A k \in Nat : k # at => Count(k, buf) = 0
  BY InputIs DEF Flush, OutputInv, PlaceInv, BufferInv, ScreenInv, RowsInv, StatisticsCountTheRows, StatsOk
<1>2. \A k : Count(k, screen) \in Nat /\ Count(k, buf) \in Nat
  BY <1>1, CountIs
<1>3. CASE full
  <2> DEFINE failed == bad \/ buf # <<>>
  <2>1. /\ lost' = (lost \/ bad \/ buf \o End \o Statistics # <<>>) /\ screen' = screen
        /\ Done(~Error(failed))
    BY <1>3 DEF Flush
  <2>2. lost' \in BOOLEAN
    BY <2>1
  <2>3. StatsOk(screen', lost')
    <3>1. lost => lost'
      BY <2>1
    <3> QED
      BY <1>1, <2>1, <3>1 DEF StatsOk
  <2>4. (~Error(failed)) \in BOOLEAN
    OBVIOUS
  <2>5. ~Error(failed) /\ batch => Count(at, screen') = Given(at)
    <3>1. ASSUME ~Error(failed), batch PROVE Count(at, screen') = Given(at)
      <4>1. buf = <<>>
        BY <3>1 DEF Error
      <4>2. Count(at, buf) = 0
        BY <4>1, CountOne
      <4> QED
        BY <1>1, <1>2, <2>1, <4>2
    <3> QED
      BY <3>1
  <2> HIDE DEF failed
  <2>6. IsSeq(screen') /\ \A k \in Nat : k # at => Count(k, screen') = Count(k, screen)
    BY <1>1, <2>1
  <2> QED
    BY <1>1, <2>1, <2>2, <2>3, <2>4, <2>5, <2>6, DoneStep
<1>4. CASE ~full /\ ~bad
  <2> DEFINE u == screen \o Sent(bad)
  <2>1. IsSeq(u) /\ StatsOk(u, lost) /\ \A k : Count(k, u) = Count(k, screen) + Count(k, buf)
    BY <1>1, <1>4, FlushSends
  <2>2. screen' = u /\ Done(TRUE)
    <3>1. ~Error(bad) = TRUE
      BY <1>4 DEF Error
    <3> QED
      BY <1>4, <3>1 DEF Flush
  <2>3. lost' = lost
    BY <1>1, <1>4 DEF Flush
  <2> HIDE DEF u
  <2>4. IsSeq(screen') /\ StatsOk(screen', lost') /\ lost' \in BOOLEAN
    BY <1>1, <2>1, <2>2, <2>3
  <2>5. \A k \in Nat : k # at => Count(k, screen') = Count(k, screen)
    BY <1>1, <1>2, <2>1, <2>2
  <2>6. Count(at, screen') = Given(at)
    BY <1>1, <2>1, <2>2
  <2> QED
    BY <1>1, <2>2, <2>4, <2>5, <2>6, DoneStep
<1>5. CASE ~full /\ bad
  <2> DEFINE u == screen \o Sent(TRUE)
  <2>1. IsSeq(u) /\ \A k : Count(k, u) = Count(k, screen)
    BY <1>1, FlushSendsNoRow
  <2>2. screen' = u /\ lost' = TRUE /\ Done(~batch)
    <3>1. Sent(bad) = Sent(TRUE) /\ (~Error(bad)) = ~batch
      BY <1>5 DEF Error, Sent
    <3> QED
      BY <1>5, <3>1 DEF Flush
  <2> HIDE DEF u
  <2>3. IsSeq(screen') /\ StatsOk(screen', lost') /\ lost' \in BOOLEAN
    BY <2>1, <2>2 DEF StatsOk
  <2>4. \A k \in Nat : k # at => Count(k, screen') = Count(k, screen)
    BY <2>1, <2>2
  <2>5. ~batch /\ batch => Count(at, screen') = Given(at)
    OBVIOUS
  <2>6. (~batch) \in BOOLEAN
    OBVIOUS
  <2> QED
    BY <1>1, <2>2, <2>3, <2>4, <2>5, <2>6, DoneStep
<1> QED
  BY <1>3, <1>4, <1>5

(* stdout fails, or nothing happens. *)
LEMMA NothingWritten ==
  ASSUME OutputInv, UNCHANGED <<pc, batch, input, at, col, order, size, buf, bad, screen, lost>>
  PROVE  OutputInv'
<1>1. Result' = Result /\ Given(at)' = Given(at)
  BY DEF Result, Given
<1>2. PlaceInv' /\ BufferInv' /\ ScreenInv'
  BY DEF OutputInv, PlaceInv, BufferInv, ScreenInv
<1>3. RowsInv'
  BY <1>1 DEF OutputInv, RowsInv
<1>4. CsvIsWhole' /\ StatisticsCountTheRows'
  BY GivenStays DEF OutputInv, CsvIsWhole, StatisticsCountTheRows
<1> QED
  BY <1>2, <1>3, <1>4 DEF OutputInv

(* The rows begin behind the last group: the process ends. *)
LEMMA PanicStep ==
  ASSUME OutputInv, Panic
  PROVE  OutputInv'
<1>1. /\ pc = "rows" /\ size = 0 /\ pc' = "panic" /\ buf' = <<>>
      /\ UNCHANGED <<batch, input, at, size, screen, lost>>
  BY DEF Panic
<1>2. PlaceInv'
  BY <1>1 DEF OutputInv, PlaceInv
<1>3. BufferInv'
  BY <1>1, EmptyBuffer
<1>4. ScreenInv' /\ RowsInv'
  BY <1>1 DEF OutputInv, ScreenInv, RowsInv
<1>5. CsvIsWhole' /\ StatisticsCountTheRows'
  BY <1>1, GivenStays DEF OutputInv, CsvIsWhole, StatisticsCountTheRows
<1> QED
  BY <1>2, <1>3, <1>4, <1>5 DEF OutputInv

LEMMA OutputStep ==
  ASSUME OutputInv, [Next]_vars
  PROVE  OutputInv'
<1>1. CASE pc = "seek" /\ (Refuse \/ Exec \/ NoRow)
  BY <1>1, RefuseStep, ExecStep, NoRowStep
<1>2. CASE WriteHead
  BY <1>2, WriteHeadStep
<1>3. CASE Write
  BY <1>3, WriteStep
<1>4. CASE Spill
  BY <1>4, SpillStep
<1>5. CASE Flush
  BY <1>5, FlushStep
<1>6. CASE Fill
  BY <1>6, NothingWritten DEF Fill
<1>7. CASE Panic
  BY <1>7, PanicStep
<1>8. CASE UNCHANGED vars
  BY <1>8, NothingWritten DEF vars
<1> QED
  BY <1>1, <1>2, <1>3, <1>4, <1>5, <1>6, <1>7, <1>8 DEF Next

(* Whatever stdout does, what is on the screen and in the buffer are the     *)
(* rows of the statements, as far as the code says they were written.        *)
THEOREM OutputInvariant == Spec => []OutputInv
<1>1. Init => OutputInv
  BY OutputInit
<1>2. OutputInv /\ [Next]_vars => OutputInv'
  BY OutputStep
<1> QED
  BY <1>1, <1>2, PTL DEF Spec

----------------------------------------------------------------------------
(* What the runs check, for every input. *)

(* The statistics of a statement come behind all of its rows and count them, *)
(* unless stdout failed (write.go, the two buffers of a table).              *)
THEOREM StatisticsCountTheRowsHolds == Spec => []StatisticsCountTheRows
<1>1. OutputInv => StatisticsCountTheRows
  BY DEF OutputInv
<1> QED
  BY <1>1, OutputInvariant, PTL

(* After an error of stdout a CSV goes on to the next statement only when    *)
(* every row of this one was written: the others stop the input.             *)
THEOREM CsvIsWholeHolds == Spec => []CsvIsWhole
<1>1. OutputInv => CsvIsWhole
  BY DEF OutputInv
<1> QED
  BY <1>1, OutputInvariant, PTL

(* No row sticks out of a table, but for the four reasons Fits names: what   *)
(* the records measure bounds what Value shows, whatever was sent.           *)
THEOREM TableFitsHolds == Spec => []TableFits
<1>1. OutputInv => TableFits
  <2>1. ASSUME OutputInv, pc = "rows", NEW g \in ToSet(order) PROVE Fits(Result, col, g)
    <3>1. /\ IsColumn(Result) /\ col = ColumnOf(Result) /\ ColumnOf(Result).ok
          /\ g \in DOMAIN ColumnOf(Result).value
      BY <2>1 DEF OutputInv, RowsInv
    <3> QED
      BY <3>1, FitsHere
  <2> QED
    BY <2>1 DEF TableFits
<1> QED
  BY <1>1, OutputInvariant, PTL

(* What a plain column, MAX or MIN shows was sent in a record of its group,  *)
(* up to the conversions of the code, whatever the order of the records.     *)
THEOREM ShownWasSentHolds == Spec => []ShownWasSent
<1>1. OutputInv => ShownWasSent
  <2>1. ASSUME OutputInv, pc = "rows", Result.method \in {"none", "MAX", "MIN"}, NEW g \in ToSet(order)
        PROVE  WasSent(Result, col, g)
    <3>1. /\ IsColumn(Result) /\ col = ColumnOf(Result) /\ ColumnOf(Result).ok
          /\ g \in DOMAIN ColumnOf(Result).value
      BY <2>1 DEF OutputInv, RowsInv
    <3> QED
      BY <2>1, <3>1, WasSentHere
  <2> QED
    BY <2>1 DEF ShownWasSent
<1> QED
  BY <1>1, OutputInvariant, PTL

=============================================================================
