--------------------------- MODULE TerminalProofs ---------------------------
(* Proofs about Catalog and Terminal, for every set of reports, every line   *)
(* that is typed and every number of inputs and starts.                      *)
EXTENDS Terminal, FiniteSetTheorems, SequenceTheorems, WellFoundedInduction, TLAPS

----------------------------------------------------------------------------
(* Searches in sequences. *)

(* A property that is given as the set of the naturals that have it.         *)
LEMMA NatSets ==
  ASSUME NEW S \in SUBSET Nat, 0 \in S, \A m \in S : m + 1 \in S
  PROVE  S = Nat
<1>1. CASE Nat \ S # {}
  <2>1. IsWellFoundedOn(OpToRel(<, Nat), Nat)
    BY NatLessThanWellFounded
  <2>2. \E x \in Nat \ S : \A y \in Nat \ S : ~(<<y, x>> \in OpToRel(<, Nat))
    BY <1>1, <2>1, WFMin
  <2>3. PICK x \in Nat \ S : \A y \in Nat \ S : ~(y < x)
    BY <2>2 DEF OpToRel
  <2>4. x # 0 /\ x - 1 \in Nat /\ x - 1 < x
    BY <2>3
  <2>5. x - 1 + 1 \in S
    BY <2>3, <2>4
  <2> QED
    BY <2>3, <2>5
<1> QED
  BY <1>1

(* The least of a set of naturals. *)
LEMMA MinOfSet ==
  ASSUME NEW S \in SUBSET Nat, S # {}
  PROVE  Min(S) \in S /\ \A x \in S : Min(S) <= x
<1>1. IsWellFoundedOn(OpToRel(<, Nat), Nat)
  BY NatLessThanWellFounded
<1>2. PICK x \in S : \A y \in S : ~(<<y, x>> \in OpToRel(<, Nat))
  BY <1>1, WFMin
<1>3. \A y \in S : ~(y < x)
  BY <1>2 DEF OpToRel
<1>4. \A y \in S : x <= y
  BY <1>3
<1> QED
  BY <1>4 DEF Min

(* A set of sequences with the empty one and, with each, all that are longer *)
(* by an element has them all.                                               *)
LEMMA SeqSets ==
  ASSUME NEW S, NEW G \in SUBSET Seq(S), <<>> \in G, \A s \in G, x \in S : Append(s, x) \in G
  PROVE  G = Seq(S)
<1> DEFINE P == {m \in Nat : \A s \in Seq(S) : Len(s) = m => s \in G}
<1>1. 0 \in P
  <2>1. \A s \in Seq(S) : Len(s) = 0 => s = <<>>
    BY EmptySeq
  <2> QED
    BY <2>1
<1>2. ASSUME NEW m \in P PROVE m + 1 \in P
  <2>1. m \in Nat /\ \A s \in Seq(S) : Len(s) = m => s \in G
    BY <1>2
  <2>2. ASSUME NEW s \in Seq(S), Len(s) = m + 1 PROVE s \in G
    <3>1. s # <<>>
      BY <2>1, <2>2, EmptySeq
    <3>2. PICK r \in Seq(S), x \in S : s = Append(r, x)
      BY <3>1, SequenceEmptyOrAppend
    <3>3. Len(r) \in Nat /\ Len(s) = Len(r) + 1
      BY <3>2, AppendProperties, LenProperties
    <3>4. Len(r) = m
      BY <2>1, <2>2, <3>3
    <3> QED
      BY <2>1, <3>2, <3>4
  <2> QED
    BY <2>1, <2>2
<1>3. P = Nat
  <2>1. P \in SUBSET Nat
    OBVIOUS
  <2> HIDE DEF P
  <2> QED
    BY <1>1, <1>2, <2>1, NatSets
<1>4. \A s \in Seq(S) : s \in G
  <2>1. \A s \in Seq(S) : Len(s) \in P
    <3> HIDE DEF P
    <3> QED
      BY <1>3, LenProperties
  <2> QED
    BY <2>1
<1> QED
  BY <1>4

(* A sequence over some set. *)
IsSeq(s) == \E S : s \in Seq(S)

(* A sequence has a length and that domain. *)
LEMMA SeqIs ==
  ASSUME NEW s, IsSeq(s)
  PROVE  Len(s) \in Nat /\ DOMAIN s = 1..Len(s)
  BY LenProperties DEF IsSeq

(* A sequence over a set is one over a larger set. *)
LEMMA SeqGrows ==
  ASSUME NEW S, NEW T, S \subseteq T, NEW s \in Seq(S)
  PROVE  s \in Seq(T)
<1>1. Len(s) \in Nat /\ s \in [1..Len(s) -> S]
  BY LenProperties
<1>2. s \in [1..Len(s) -> T]
  BY <1>1
<1> QED
  BY <1>1, <1>2

(* Two sequences are over one set. *)
LEMMA OneSet ==
  ASSUME NEW s, NEW t, IsSeq(s), IsSeq(t)
  PROVE  \E S : s \in Seq(S) /\ t \in Seq(S)
<1>1. PICK S : s \in Seq(S)
  BY DEF IsSeq
<1>2. PICK T : t \in Seq(T)
  BY DEF IsSeq
<1>3. s \in Seq(S \cup T) /\ t \in Seq(S \cup T)
  BY <1>1, <1>2, SeqGrows
<1> QED
  BY <1>3

(* The items of a concatenation. *)
LEMMA ConcatIs ==
  ASSUME NEW s, NEW t, IsSeq(s), IsSeq(t)
  PROVE  /\ IsSeq(s \o t) /\ Len(s \o t) = Len(s) + Len(t) /\ DOMAIN (s \o t) = 1..(Len(s) + Len(t))
         /\ \A i \in 1..(Len(s) + Len(t)) : (s \o t)[i] = IF i <= Len(s) THEN s[i] ELSE t[i - Len(s)]
<1>1. PICK S : s \in Seq(S) /\ t \in Seq(S)
  BY OneSet
<1>2. /\ s \o t \in Seq(S) /\ Len(s \o t) = Len(s) + Len(t)
      /\ \A i \in 1..(Len(s) + Len(t)) : (s \o t)[i] = IF i <= Len(s) THEN s[i] ELSE t[i - Len(s)]
  BY <1>1, ConcatProperties
<1>3. IsSeq(s \o t)
  BY <1>2 DEF IsSeq
<1> QED
  BY <1>2, <1>3, SeqIs

(* The items of a sequence with one more. *)
LEMMA AppendIs ==
  ASSUME NEW s, IsSeq(s), NEW x
  PROVE  /\ IsSeq(Append(s, x)) /\ Len(Append(s, x)) = Len(s) + 1 /\ DOMAIN Append(s, x) = 1..(Len(s) + 1)
         /\ \A i \in 1..Len(s) : Append(s, x)[i] = s[i]
         /\ Append(s, x)[Len(s) + 1] = x
<1>1. PICK S : s \in Seq(S)
  BY DEF IsSeq
<1>2. s \in Seq(S \cup {x}) /\ x \in S \cup {x}
  BY <1>1, SeqGrows
<1> DEFINE T == S \cup {x}
<1>3. s \in Seq(T) /\ x \in T
  BY <1>2
<1> HIDE DEF T
<1>4. /\ Append(s, x) \in Seq(T) /\ Len(Append(s, x)) = Len(s) + 1
      /\ \A i \in 1..Len(s) : Append(s, x)[i] = s[i]
      /\ Append(s, x)[Len(s) + 1] = x
  BY <1>3, AppendProperties
<1>5. IsSeq(Append(s, x))
  BY <1>4 DEF IsSeq
<1> QED
  BY <1>4, <1>5, SeqIs

----------------------------------------------------------------------------
(* Tables and columns by name. *)

(* A database has a list of views. *)
IsDb(d) == IsSeq(d.vw)
Spelled(c) == c.head \in Names /\ c.label \in Names
(* The reports, as ReportAssumption has them. *)
LEMMA ReportsAre ==
  /\ IsSeq(Reports)
  /\ \A i \in DOMAIN Reports :
       /\ Reports[i].name \in Names /\ Reports[i].src = <<>> /\ IsSeq(Reports[i].cols) /\ Reports[i].cols # <<>>
       /\ \A j \in DOMAIN Reports[i].cols :
            /\ Reports[i].cols[j] = [head |-> Reports[i].cols[j].head, label |-> Reports[i].cols[j].label,
                                     segment |-> Reports[i].cols[j].segment, unique |-> FALSE]
            /\ Spelled(Reports[i].cols[j])
<1> DEFINE Columns == [head : Names, label : Names, segment : BOOLEAN, unique : {FALSE}]
           R == [name : Names, src : {<<>>}, pk : Names, cols : Seq(Columns) \ {<<>>}]
<1>1. Reports \in Seq(R)
  BY ReportAssumption
<1>2. \A r \in R : r.name \in Names /\ r.src = <<>> /\ r.cols \in Seq(Columns) /\ r.cols # <<>>
  OBVIOUS
<1>3. \A c \in Columns : c = [head |-> c.head, label |-> c.label, segment |-> c.segment, unique |-> FALSE] /\ Spelled(c)
  <2>1. \A B, U : \A c \in [head : Names, label : Names, segment : B, unique : U] :
          /\ c = [head |-> c.head, label |-> c.label, segment |-> c.segment, unique |-> c.unique]
          /\ c.head \in Names /\ c.label \in Names /\ c.unique \in U
    OBVIOUS
  <2>2. \A c \in Columns : /\ c = [head |-> c.head, label |-> c.label, segment |-> c.segment, unique |-> c.unique]
                            /\ c.head \in Names /\ c.label \in Names /\ c.unique \in {FALSE}
    BY <2>1
  <2> HIDE DEF Columns
  <2> QED
    BY <2>2 DEF Spelled
<1> HIDE DEF Columns, R
<1>4. IsSeq(Reports) /\ \A i \in DOMAIN Reports : Reports[i] \in R
  BY <1>1, ElementOfSeq, LenProperties DEF IsSeq
<1>5. ASSUME NEW i \in DOMAIN Reports
      PROVE  /\ Reports[i].name \in Names /\ Reports[i].src = <<>> /\ IsSeq(Reports[i].cols) /\ Reports[i].cols # <<>>
             /\ \A j \in DOMAIN Reports[i].cols : Reports[i].cols[j] \in Columns
  <2>1. Reports[i] \in R
    BY <1>4
  <2>2. Reports[i].name \in Names /\ Reports[i].src = <<>> /\ Reports[i].cols \in Seq(Columns) /\ Reports[i].cols # <<>>
    BY <1>2, <2>1
  <2> QED
    BY <2>2, ElementOfSeq, LenProperties DEF IsSeq
<1> QED
  BY <1>3, <1>4, <1>5

(* The tables of a database are the reports, then its views. *)
LEMMA TablesAre ==
  ASSUME NEW d, IsDb(d)
  PROVE  /\ IsSeq(Tables(d)) /\ Len(Reports) \in Nat /\ Len(d.vw) \in Nat
         /\ DOMAIN Reports = 1..Len(Reports) /\ DOMAIN d.vw = 1..Len(d.vw)
         /\ DOMAIN Tables(d) = 1..(Len(Reports) + Len(d.vw)) /\ Len(Tables(d)) = Len(Reports) + Len(d.vw)
         /\ \A i \in 1..(Len(Reports) + Len(d.vw)) :
              Tables(d)[i] = IF i <= Len(Reports) THEN Reports[i] ELSE d.vw[i - Len(Reports)]
  BY ReportsAre, ConcatIs, SeqIs DEF Tables, IsDb

(* TableAt finds the first table of a name, or none has it. *)
LEMMA TableAtIs ==
  ASSUME NEW d, IsDb(d), NEW n
  PROVE  \/ TableAt(d, n) = 0 /\ \A i \in DOMAIN Tables(d) : Tables(d)[i].name # n
         \/ /\ TableAt(d, n) \in DOMAIN Tables(d) /\ TableAt(d, n) # 0 /\ TableOf(d, n).name = n
            /\ \A i \in DOMAIN Tables(d) : Tables(d)[i].name = n => TableAt(d, n) <= i
<1> DEFINE I == {i \in 1..Len(Tables(d)) : Tables(d)[i].name = n}
<1>1. Len(Tables(d)) \in Nat /\ DOMAIN Tables(d) = 1..Len(Tables(d))
  BY TablesAre, SeqIs
<1>2. TableAt(d, n) = IF I # {} THEN Min(I) ELSE 0
  BY DEF TableAt, SelectInSeq
<1>3. CASE I = {}
  BY <1>1, <1>2, <1>3
<1>4. CASE I # {}
  <2>1. Min(I) \in I /\ \A i \in I : Min(I) <= i
    <3>1. I \in SUBSET Nat
      BY <1>1
    <3> HIDE DEF I
    <3> QED
      BY <1>4, <3>1, MinOfSet
  <2> QED
    BY <1>1, <1>2, <1>4, <2>1 DEF TableOf
<1> QED
  BY <1>3, <1>4

(* FieldAt finds a column that answers to a name, or none does. *)
LEMMA FieldAtIs ==
  ASSUME NEW t, IsSeq(t.cols), NEW n
  PROVE  \/ FieldAt(t, n) = 0 /\ \A i \in DOMAIN t.cols : ~Named(t, t.cols[i], n)
         \/ FieldAt(t, n) \in DOMAIN t.cols /\ FieldAt(t, n) # 0 /\ Named(t, FieldOf(t, n), n)
<1> DEFINE I == {i \in 1..Len(t.cols) : Named(t, t.cols[i], n)}
<1>1. Len(t.cols) \in Nat /\ DOMAIN t.cols = 1..Len(t.cols)
  BY SeqIs
<1>2. FieldAt(t, n) = IF I # {} THEN Min(I) ELSE 0
  BY DEF FieldAt, SelectInSeq
<1>3. CASE I = {}
  BY <1>1, <1>2, <1>3
<1>4. CASE I # {}
  <2>1. Min(I) \in I
    <3>1. I \in SUBSET Nat
      BY <1>1
    <3> HIDE DEF I
    <3> QED
      BY <1>4, <3>1, MinOfSet
  <2> QED
    BY <1>1, <1>2, <1>4, <2>1 DEF FieldOf
<1> QED
  BY <1>3, <1>4

(* A report is found under its name in every database. *)
LEMMA ReportFound ==
  ASSUME NEW d, IsDb(d), NEW i \in DOMAIN Reports
  PROVE  TableAt(d, Reports[i].name) = i /\ TableOf(d, Reports[i].name) = Reports[i]
<1> DEFINE n == Reports[i].name
<1>1. i \in DOMAIN Tables(d) /\ Tables(d)[i] = Reports[i] /\ i <= Len(Reports) /\ Len(Reports) \in Nat
  BY TablesAre
<1>2. /\ TableAt(d, n) \in DOMAIN Tables(d) /\ Tables(d)[TableAt(d, n)].name = n /\ TableAt(d, n) <= i
  BY <1>1, TableAtIs DEF TableOf
<1>3. TableAt(d, n) \in DOMAIN Reports /\ Tables(d)[TableAt(d, n)] = Reports[TableAt(d, n)]
  <2> DEFINE k == TableAt(d, n)
             r == Len(Reports)
  <2>1. /\ r \in Nat /\ Len(d.vw) \in Nat /\ DOMAIN Reports = 1..r /\ k \in 1..(r + Len(d.vw)) /\ k <= i /\ i <= r
        /\ Tables(d)[k] = IF k <= r THEN Reports[k] ELSE d.vw[k - r]
    BY <1>1, <1>2, TablesAre
  <2> HIDE DEF k, r
  <2>2. k \in DOMAIN Reports /\ Tables(d)[k] = Reports[k]
    BY <2>1
  <2> QED
    BY <2>2 DEF k
<1>4. TableAt(d, n) = i
  BY <1>2, <1>3, ReportAssumption
<1> QED
  BY <1>1, <1>4 DEF TableOf

----------------------------------------------------------------------------
(* What the parser gives. *)

(* A slice has a length. *)
LEMMA SubSeqLen ==
  ASSUME NEW w, NEW m \in Int, NEW n \in Int
  PROVE  Len(SubSeq(w, m, n)) \in Nat
<1> DEFINE S == {w[i] : i \in m..n}
<1>1. \A i \in m..n : w[i] \in S
  OBVIOUS
<1> HIDE DEF S
<1> QED
  BY <1>1, SubSeqProperties

(* A clause of an odd length has a first name. *)
LEMMA ListedStarts ==
  ASSUME NEW ws, Len(ws) \in Nat, Len(ws) % 2 = 1
  PROVE  1 \in DOMAIN Listed(ws)
<1>1. DOMAIN Listed(ws) = 1..((Len(ws) + 1) \div 2)
  BY DEF Listed
<1>2. (Len(ws) + 1) \div 2 >= 1
  OBVIOUS
<1> QED
  BY <1>1, <1>2

(* The names of a list are a sequence. *)
LEMMA ListedIs ==
  ASSUME NEW w, NEW m \in Int, NEW n \in Int
  PROVE  IsSeq(Listed(SubSeq(w, m, n)))
<1> DEFINE S == {w[i] : i \in m..n}
           s == SubSeq(w, m, n)
<1>1. \A i \in m..n : w[i] \in S
  OBVIOUS
<1> HIDE DEF S
<1>2. s \in Seq(S)
  BY <1>1, SubSeqProperties
<1> HIDE DEF s
<1> DEFINE k == (Len(s) + 1) \div 2
           T == {s[2 * i - 1] : i \in 1..k}
           t == [i \in 1..k |-> s[2 * i - 1]]
<1>3. k \in Nat
  <2>1. Len(s) \in Nat
    BY <1>2
  <2> QED
    BY <2>1
<1>4. t \in [1..k -> T]
  OBVIOUS
<1>5. t = Listed(s)
  BY DEF Listed
<1> HIDE DEF k, T, t
<1>6. t \in Seq(T)
  BY <1>3, <1>4
<1> QED
  BY <1>5, <1>6 DEF IsSeq, s

(* A search gives a number, whatever is searched. *)
Found(w, k) == {i \in 1..Len(w) : Is(w[i], k)}
(* The position of a word, or 0. *)
LEMMA SearchIs ==
  ASSUME NEW w, NEW k
  PROVE  (IF Found(w, k) # {} THEN Min(Found(w, k)) ELSE 0) \in Int
<1>1. Found(w, k) \in SUBSET Nat
  BY DEF Found
<1> QED
  BY <1>1, MinOfSet

(* A CREATE VIEW names a view, a source, and columns in their order. *)
Statement(s) ==
  /\ IsSeq(s.fields) /\ 1 \in DOMAIN s.fields /\ s.name \in Names /\ s.src \in Names /\ s.src # <<>>
  /\ \A i \in DOMAIN s.fields : s.fields[i] \in Names /\ s.fields[i] # <<>>
  /\ \A i \in DOMAIN s.labels : s.labels[i] \in Names /\ s.labels[i] # <<>>
(* What the parser takes for a name is one. *)
LEMMA NameIs ==
  ASSUME NEW w, IsName(w)
  PROVE  w \in Names /\ w # <<>>
BY DEF IsName

(* What a CREATE VIEW is parsed to. *)
LEMMA CreateIs ==
  ASSUME NEW w, ParsedCreate(w).verb = "create"
  PROVE  Statement(ParsedCreate(w))
<1> DEFINE At(k) == SelectInSeq(w, LAMBDA x : Is(x, k))
           names == SubSeq(w, At("(") + 1, At(")") - 1)
           unique == At("DISTINCT") = At("SELECT") + 1
           first == At("SELECT") + (IF unique THEN 2 ELSE 1)
           clause == SubSeq(w, first, At("FROM") - 1)
           Rest == {w[At("VIEW") + 1], w[Len(w)]} \cup ToSet(Listed(names)) \cup ToSet(Listed(clause))
           made == [verb |-> "create", replace |-> At("REPLACE") # 0, name |-> w[At("VIEW") + 1],
                    labels |-> Listed(names), fields |-> Listed(clause), unique |-> unique, src |-> w[Len(w)]]
<1>1. NoStmt.verb # "create"
  BY DEF NoStmt
<1>2. ParsedCreate(w) = made /\ IsList(clause) /\ \A n \in Rest : IsName(n)
  BY <1>1 DEF ParsedCreate
<1>3. IsSeq(Listed(clause)) /\ 1 \in DOMAIN Listed(clause)
  <2>1. At("SELECT") \in Int /\ At("FROM") \in Int
    <3>1. At("SELECT") = IF Found(w, "SELECT") # {} THEN Min(Found(w, "SELECT")) ELSE 0
      BY DEF SelectInSeq, Found
    <3>2. At("FROM") = IF Found(w, "FROM") # {} THEN Min(Found(w, "FROM")) ELSE 0
      BY DEF SelectInSeq, Found
    <3> HIDE DEF At
    <3> QED
      BY <3>1, <3>2, SearchIs
  <2>2. first \in Int /\ At("FROM") - 1 \in Int
    <3> HIDE DEF At, unique
    <3> QED
      BY <2>1
  <2>3. IsSeq(Listed(clause))
    BY <2>2, ListedIs
  <2>4. Len(clause) \in Nat /\ Len(clause) % 2 = 1
    <3> DEFINE m == first
               n == At("FROM") - 1
    <3>1. Len(SubSeq(w, m, n)) \in Nat
      <4>1. m \in Int /\ n \in Int
        BY <2>2
      <4> HIDE DEF m, n
      <4> QED
        BY <4>1, SubSeqLen
    <3> HIDE DEF At, first
    <3> QED
      BY <1>2, <3>1 DEF IsList
  <2>5. 1 \in DOMAIN Listed(clause)
    <3> HIDE DEF clause
    <3> QED
      BY <2>4, ListedStarts
  <2> QED
    BY <2>3, <2>5
<1>4. IsName(w[At("VIEW") + 1]) /\ IsName(w[Len(w)])
  BY <1>2
<1>5. /\ \A i \in DOMAIN Listed(names) : Listed(names)[i] \in Names /\ Listed(names)[i] # <<>>
      /\ \A i \in DOMAIN Listed(clause) : Listed(clause)[i] \in Names /\ Listed(clause)[i] # <<>>
  <2> HIDE DEF names, clause
  <2>1. /\ \A i \in DOMAIN Listed(names) : Listed(names)[i] \in ToSet(Listed(names))
        /\ \A i \in DOMAIN Listed(clause) : Listed(clause)[i] \in ToSet(Listed(clause))
    BY DEF ToSet
  <2> QED
    BY <1>2, <2>1, NameIs
<1> DEFINE s == ParsedCreate(w)
<1>6. /\ s.fields = Listed(clause) /\ s.labels = Listed(names)
      /\ s.name = w[At("VIEW") + 1] /\ s.src = w[Len(w)]
  BY <1>2
<1> HIDE DEF s, names, clause, first, unique, At
<1> QED
  BY <1>3, <1>4, <1>5, <1>6, NameIs DEF Statement, s

(* The same of a whole line. *)
LEMMA ParsedIs ==
  ASSUME NEW q, Parsed(q).verb = "create"
  PROVE  Statement(Parsed(q))
<1> DEFINE w == Lexed(Front(q))
<1>1. NoStmt.verb # "create"
  BY DEF NoStmt
<1>2. ParsedDesc(w).verb # "create"
  BY <1>1 DEF ParsedDesc
<1>3. \A p : Pattern(p).verb # "create"
  BY DEF Pattern
<1>4. ParsedShow(w).verb # "create"
  BY <1>1, <1>3 DEF ParsedShow
<1>5. Parsed(q) \in {NoStmt, ParsedDesc(w), ParsedShow(w), ParsedCreate(w)}
  <2> HIDE DEF w
  <2>1. CASE w = <<>>
    BY <2>1 DEF Parsed, w
  <2> QED
    BY DEF Parsed, w
<1> QED
  BY <1>1, <1>2, <1>4, <1>5, CreateIs

----------------------------------------------------------------------------
(* The views of a file, loaded. *)

LoadOne(done, v) == IF Founded(done, v) THEN Append(done, Rebuilt(done, v)) ELSE done

(* What FoldLeft folds over: the sets of the positions, the last one first.  *)
Folding(f, vs, n) ==
  \A s \in SUBSET (1..n) :
    f[s] = IF s = {} THEN <<>> ELSE LoadOne(f[s \ {Max(s)}], vs[Max(s)])

(* The largest of a finite set of positions. *)
LEMMA MaxOfSet ==
  ASSUME NEW n \in Nat, NEW s \in SUBSET (1..n), s # {}
  PROVE  Max(s) \in s /\ \A j \in s : j <= Max(s)
<1> DEFINE S == {n - j : j \in s}
<1>1. S \in SUBSET Nat /\ S # {}
  <2>1. \A j \in s : j \in Int /\ n - j \in Nat
    OBVIOUS
  <2> QED
    BY <2>1
<1>2. IsWellFoundedOn(OpToRel(<, Nat), Nat)
  BY NatLessThanWellFounded
<1>3. PICK x \in S : \A y \in S : ~(<<y, x>> \in OpToRel(<, Nat))
  BY <1>1, <1>2, WFMin
<1>4. \A y \in S : ~(y < x)
  BY <1>1, <1>3 DEF OpToRel
<1>5. PICK j \in s : x = n - j
  BY <1>3
<1>6. \A k \in s : j >= k
  <2>1. \A k \in s : k \in Int /\ j \in Int /\ ~(n - k < n - j)
    BY <1>4, <1>5
  <2> QED
    BY <2>1
<1> QED
  BY <1>5, <1>6 DEF Max

(* There is the function that folds the loading over sets of positions. *)
LEMMA FoldingExists ==
  ASSUME NEW vs, NEW n \in Nat
  PROVE  \E f : f = [s \in SUBSET (1..n) |-> f[s]] /\ Folding(f, vs, n)
<1> DEFINE D == SUBSET (1..n)
           Step(f, s) == IF s = {} THEN <<>> ELSE LoadOne(f[s \ {Max(s)}], vs[Max(s)])
           Folds(f, m) == \A s \in D : Cardinality(s) <= m => f[s] = Step(f, s)
           P == {m \in Nat : \E f : Folds(f, m)}
<1>1. IsFiniteSet(1..n) /\ \A s \in D : IsFiniteSet(s) /\ Cardinality(s) \in Nat
  <2>1. IsFiniteSet(1..n)
    <3>1. 1 \in Int /\ n \in Int
      OBVIOUS
    <3> QED
      BY <3>1, FS_Interval
  <2> QED
    BY <2>1, FS_Subset, FS_CardinalityType
<1>2. \A s \in D : s # {} => s \ {Max(s)} \in D /\ Cardinality(s \ {Max(s)}) = Cardinality(s) - 1
  BY <1>1, MaxOfSet, FS_RemoveElement
<1>3. 0 \in P
  <2> DEFINE f == [s \in D |-> <<>>]
  <2>1. Folds(f, 0)
    BY <1>1, FS_EmptySet
  <2> QED
    BY <2>1
<1>4. ASSUME NEW m \in P PROVE m + 1 \in P
  <2>1. PICK f : Folds(f, m)
    BY <1>4
  <2> DEFINE u == [s \in D |-> Step(f, s)]
  <2>2. ASSUME NEW s \in D, Cardinality(s) <= m + 1
        PROVE  u[s] = Step(u, s)
    <3>1. u[s] = Step(f, s)
      OBVIOUS
    <3>2. CASE s = {}
      BY <3>1, <3>2
    <3>3. CASE s # {}
      <4> DEFINE r == s \ {Max(s)}
      <4>1. r \in D /\ Cardinality(r) <= m
        <5>1. r \in D /\ Cardinality(r) = Cardinality(s) - 1
          BY <1>2, <3>3
        <5>2. m \in Nat /\ Cardinality(s) \in Nat
          BY <1>1, <1>4
        <5> HIDE DEF D, r, P
        <5> QED
          BY <2>2, <5>1, <5>2
      <4>2. u[r] = Step(f, r) /\ f[r] = Step(f, r)
        BY <2>1, <4>1
      <4> HIDE DEF u
      <4> QED
        BY <3>1, <3>3, <4>2
    <3> QED
      BY <3>2, <3>3
  <2> HIDE DEF u, Step
  <2>3. Folds(u, m + 1)
    BY <2>2
  <2> QED
    BY <1>4, <2>3
<1>5. P = Nat
  <2>1. P \in SUBSET Nat
    OBVIOUS
  <2> HIDE DEF P
  <2> QED
    BY <1>3, <1>4, <2>1, NatSets
<1>6. Cardinality(1..n) \in Nat /\ \A s \in D : Cardinality(s) <= Cardinality(1..n)
  BY <1>1, FS_Subset, FS_CardinalityType
<1>7. PICK f : Folds(f, Cardinality(1..n))
  BY <1>5, <1>6
<1> DEFINE u == [s \in D |-> f[s]]
<1>8. ASSUME NEW s \in D PROVE u[s] = Step(u, s)
  <2>1. f[s] = Step(f, s) /\ u[s] = f[s]
    BY <1>6, <1>7
  <2>2. s # {} => u[s \ {Max(s)}] = f[s \ {Max(s)}]
    BY <1>2
  <2> HIDE DEF u
  <2> QED
    BY <2>1, <2>2
<1>9. u = [s \in D |-> u[s]]
  OBVIOUS
<1> HIDE DEF u
<1> QED
  BY <1>8, <1>9 DEF Folding

(* LoadViews reads the views one by one, and rebuilds each from those before it. *)
Loading(a, vs) ==
  /\ a[0] = <<>>
  /\ \A k \in 1..Len(vs) : a[k] = LoadOne(a[k - 1], vs[k])
  /\ LoadViews(vs) = a[Len(vs)]
(* loadViews takes the views of the file one after the other. *)
LEMMA LoadsOneByOne ==
  ASSUME NEW R, NEW vs \in Seq(R)
  PROVE  \E a : Loading(a, vs)
<1> DEFINE n == Len(vs)
           D == SUBSET (1..n)
           Step(f, s) == IF s = {} THEN <<>> ELSE LoadOne(f[s \ {Max(s)}], vs[Max(s)])
           P(f) == f = [s \in D |-> Step(f, s)]
<1>1. n \in Nat /\ DOMAIN vs = 1..n
  OBVIOUS
<1>2. PICK g : g = [s \in D |-> g[s]] /\ Folding(g, vs, n)
  <2> HIDE DEF n
  <2> QED
    BY <1>1, FoldingExists
<1>3. P(g)
  <2>1. \A s \in D : g[s] = Step(g, s)
    <3> HIDE DEF n
    <3> QED
      BY <1>2 DEF Folding
  <2> HIDE DEF Step
  <2> QED
    BY <1>2, <2>1
<1>4. LoadViews(vs) = (CHOOSE f : P(f))[1..n]
  BY <1>1, Zenon DEF LoadViews, LoadOne, FoldLeft, MapThenFoldSet
<1> DEFINE f == CHOOSE f : P(f)
<1>5. P(f)
  <2> HIDE DEF P
  <2> QED
    BY <1>3
<1>6. \A s \in D : f[s] = Step(f, s)
  <2> HIDE DEF f, Step
  <2> QED
    BY <1>5
<1> HIDE DEF f, P
<1> DEFINE a == [k \in 0..n |-> f[1..k]]
<1>7. a[0] = <<>>
  <2>1. 1..0 = {} /\ 1..0 \in D /\ 0 \in 0..n
    BY <1>1
  <2>2. f[1..0] = <<>>
    BY <1>6, <2>1
  <2> QED
    BY <2>1, <2>2
<1>8. ASSUME NEW k \in 1..n PROVE a[k] = LoadOne(a[k - 1], vs[k])
  <2>1. 1..k \in D /\ 1..k # {} /\ k \in 0..n /\ k - 1 \in 0..n
    <3>1. k \in 1..k /\ k \in 0..n /\ k - 1 \in 0..n
      BY <1>1
    <3>2. \A j \in 1..k : j \in 1..n
      BY <1>1
    <3> QED
      BY <3>1, <3>2
  <2>2. Max(1..k) = k
    <3>1. Max(1..k) \in 1..k /\ \A j \in 1..k : j <= Max(1..k)
      <4> HIDE DEF n
      <4> QED
        BY <1>1, <2>1, MaxOfSet
    <3> QED
      BY <3>1
  <2>3. (1..k) \ {k} = 1..(k - 1)
    BY <1>1
  <2>4. f[1..k] = LoadOne(f[1..(k - 1)], vs[k])
    BY <1>6, <2>1, <2>2, <2>3
  <2> QED
    BY <2>1, <2>4
<1>9. LoadViews(vs) = a[n]
  BY <1>1, <1>4 DEF f
<1> HIDE DEF a
<1> QED
  BY <1>7, <1>8, <1>9 DEF Loading

(* The names of reports and of views. *)
ReportNames == {Reports[i].name : i \in DOMAIN Reports}
NamesIn(vs) == {vs[i].name : i \in DOMAIN vs}

(* A view of a report has the columns the report has now. *)
AView(v) ==
  /\ v = [name |-> v.name, src |-> v.src, pk |-> v.pk, cols |-> v.cols]
  /\ v.name \in Names /\ v.src # <<>> /\ IsSeq(v.cols)
  /\ \A i \in DOMAIN v.cols : Spelled(v.cols[i])
Settled(v) ==
  \A i \in DOMAIN Reports : Reports[i].name = v.src =>
    /\ FieldsIn(Reports[i], Heads(v))
    /\ \A j \in DOMAIN v.cols :
         LET c == v.cols[j]
             f == FieldOf(Reports[i], c.head)
         IN  /\ f.head = c.head /\ f.unique = FALSE
             /\ c = [head |-> c.head, label |-> c.label, segment |-> f.segment, unique |-> c.unique]
(* The views of a database, or of a file: their sources are reports or views *)
(* before them, in which they find their columns.                            *)
Views(vs) ==
  /\ IsSeq(vs)
  /\ \A i \in DOMAIN vs :
       /\ AView(vs[i]) /\ Settled(vs[i]) /\ vs[i].name \notin ReportNames
       /\ vs[i].src \in ReportNames \cup {vs[j].name : j \in 1..(i - 1)}
  /\ \A i, j \in DOMAIN vs : vs[i].src = vs[j].name => FieldsIn(vs[j], Heads(vs[i]))
  /\ \A i, j \in DOMAIN vs : vs[i].name = vs[j].name => i = j
(* Two views that are the same but for the columns of a view of a view, and  *)
(* for what was DISTINCT; and a view of a report with nothing that is.       *)
HeadsAre(v, w) == \A j \in DOMAIN w.cols : v.cols[j].head = w.cols[j].head
Like(v, w) ==
  /\ v.name = w.name /\ v.src = w.src /\ v.pk = w.pk /\ Labels(v) = Labels(w)
  /\ w.src \in ReportNames => HeadsAre(v, w)
Bare(v) == v.src \in ReportNames => \A j \in DOMAIN v.cols : v.cols[j].unique = FALSE
Same(vs, ws) == Len(vs) = Len(ws) /\ \A i \in 1..Len(ws) : Like(vs[i], ws[i])

(* FieldsIn, column by column. *)
LEMMA FieldsAre ==
  ASSUME NEW t, NEW v
  PROVE  /\ FieldsIn(t, Heads(v)) <=> \A i \in DOMAIN v.cols : FieldAt(t, v.cols[i].head) # 0
BY DEF FieldsIn, Heads

(* What Views says, view by view. *)
LEMMA ViewsAre ==
  ASSUME NEW vs, Views(vs)
  PROVE  /\ IsSeq(vs) /\ Len(vs) \in Nat /\ DOMAIN vs = 1..Len(vs)
         /\ \A i \in 1..Len(vs) :
              /\ AView(vs[i]) /\ Settled(vs[i]) /\ vs[i].name \notin ReportNames /\ vs[i].name \in NamesIn(vs)
              /\ vs[i].src \in ReportNames \cup NamesIn(vs)
<1>1. IsSeq(vs) /\ Len(vs) \in Nat /\ DOMAIN vs = 1..Len(vs)
  BY SeqIs DEF Views
<1>2. ASSUME NEW i \in 1..Len(vs) PROVE vs[i].src \in ReportNames \cup NamesIn(vs)
  <2>1. \A j \in 1..(i - 1) : j \in 1..Len(vs)
    BY <1>1, <1>2
  <2> QED
    BY <1>1, <1>2, <2>1 DEF Views, NamesIn
<1> QED
  BY <1>1, <1>2 DEF Views, NamesIn

(* A view is found under its name. *)
LEMMA ViewFound ==
  ASSUME NEW d, Views(d.vw), NEW j \in DOMAIN d.vw
  PROVE  TableAt(d, d.vw[j].name) # 0 /\ TableOf(d, d.vw[j].name) = d.vw[j]
<1> DEFINE r == Len(Reports)
           n == d.vw[j].name
           k == TableAt(d, n)
<1>1. /\ IsDb(d) /\ r \in Nat /\ Len(d.vw) \in Nat /\ j \in 1..Len(d.vw) /\ n \notin ReportNames
      /\ DOMAIN Reports = 1..r /\ DOMAIN d.vw = 1..Len(d.vw)
  BY ViewsAre, ReportsAre, SeqIs DEF IsDb
<1>2. /\ DOMAIN Tables(d) = 1..(r + Len(d.vw))
      /\ \A i \in 1..(r + Len(d.vw)) : Tables(d)[i] = IF i <= r THEN Reports[i] ELSE d.vw[i - r]
  BY <1>1, TablesAre
<1> HIDE DEF r
<1>3. r + j \in DOMAIN Tables(d) /\ Tables(d)[r + j] = d.vw[j]
  <2> DEFINE i == r + j
  <2>1. i \in 1..(r + Len(d.vw)) /\ ~(i <= r) /\ i - r = j
    BY <1>1
  <2> HIDE DEF i
  <2>2. i \in DOMAIN Tables(d) /\ Tables(d)[i] = d.vw[j]
    BY <1>2, <2>1
  <2> QED
    BY <2>2 DEF i
<1>4. k \in DOMAIN Tables(d) /\ k # 0 /\ TableOf(d, n) = Tables(d)[k] /\ Tables(d)[k].name = n
  BY <1>1, <1>3, TableAtIs DEF TableOf
<1> HIDE DEF k
<1>5. ~(k <= r)
  <2>1. ASSUME k <= r PROVE FALSE
    <3>1. k \in DOMAIN Reports /\ Tables(d)[k] = Reports[k]
      BY <1>1, <1>2, <1>4, <2>1
    <3> QED
      BY <1>1, <1>4, <3>1 DEF ReportNames
  <2> QED
    BY <2>1
<1>6. k - r \in DOMAIN d.vw /\ Tables(d)[k] = d.vw[k - r]
  BY <1>1, <1>2, <1>4, <1>5
<1>7. k - r = j
  BY <1>4, <1>6 DEF Views
<1> QED
  BY <1>4, <1>6, <1>7 DEF k

(* A view more. *)
LEMMA ViewsGrow ==
  ASSUME NEW vs, Views(vs), NEW v, AView(v), Settled(v), v.name \notin ReportNames \cup NamesIn(vs),
         v.src \in ReportNames \cup NamesIn(vs),
         \A j \in DOMAIN vs : vs[j].name = v.src => FieldsIn(vs[j], Heads(v))
  PROVE  Views(Append(vs, v)) /\ NamesIn(Append(vs, v)) = NamesIn(vs) \cup {v.name}
<1> DEFINE ws == Append(vs, v)
           n == Len(vs)
<1>1. /\ IsSeq(ws) /\ n \in Nat /\ DOMAIN vs = 1..n /\ DOMAIN ws = 1..(n + 1)
      /\ (\A i \in 1..n : ws[i] = vs[i]) /\ ws[n + 1] = v
  BY ViewsAre, AppendIs
<1> HIDE DEF ws, n
<1>2. (\A i \in 1..(n + 1) : i \in 1..n \/ i = n + 1) /\ n + 1 \in 1..(n + 1) /\ \A i \in 1..n : i \in 1..(n + 1)
  BY <1>1
<1>3. NamesIn(ws) = NamesIn(vs) \cup {v.name}
  BY <1>1, <1>2 DEF NamesIn
<1>4. \A i \in 1..n : /\ AView(vs[i]) /\ Settled(vs[i]) /\ vs[i].name \notin ReportNames /\ vs[i].name \in NamesIn(vs)
                       /\ vs[i].src \in ReportNames \cup NamesIn(vs)
  BY <1>1, ViewsAre
<1>5. ASSUME NEW i \in DOMAIN ws
      PROVE  ws[i].src \in ReportNames \cup {ws[j].name : j \in 1..(i - 1)}
  <2>1. CASE i \in 1..n
    <3>1. vs[i].src \in ReportNames \cup {vs[j].name : j \in 1..(i - 1)}
      BY <1>1, <2>1 DEF Views
    <3>2. \A j \in 1..(i - 1) : j \in 1..n
      BY <1>1, <2>1
    <3> QED
      BY <1>1, <2>1, <3>1, <3>2
  <2>2. CASE i = n + 1
    <3>1. 1..(i - 1) = 1..n
      BY <1>1, <2>2
    <3>2. NamesIn(vs) = {ws[j].name : j \in 1..n}
      BY <1>1 DEF NamesIn
    <3> QED
      BY <1>1, <2>2, <3>1, <3>2
  <2> QED
    BY <1>1, <1>2, <1>5, <2>1, <2>2
<1>6. \A i \in DOMAIN ws : AView(ws[i]) /\ Settled(ws[i]) /\ ws[i].name \notin ReportNames
  BY <1>1, <1>2, <1>4
<1>7. ASSUME NEW i \in DOMAIN ws, NEW j \in DOMAIN ws, ws[i].src = ws[j].name
      PROVE  FieldsIn(ws[j], Heads(ws[i]))
  <2>1. CASE j = n + 1
    <3>1. ws[i].src = v.name /\ v.name \notin ReportNames \cup NamesIn(vs)
      BY <1>1, <1>7, <2>1
    <3>2. ws[i].src \in ReportNames \cup NamesIn(vs)
      BY <1>1, <1>2, <1>4
    <3> QED
      BY <3>1, <3>2
  <2>2. CASE j \in 1..n /\ i = n + 1
    BY <1>1, <1>7, <2>2
  <2>3. CASE j \in 1..n /\ i \in 1..n
    BY <1>1, <1>7, <2>3 DEF Views
  <2> QED
    BY <1>1, <1>2, <2>1, <2>2, <2>3
<1>8. ASSUME NEW i \in DOMAIN ws, NEW j \in DOMAIN ws, ws[i].name = ws[j].name PROVE i = j
  <2>1. \A k, l \in 1..n : vs[k].name = vs[l].name => k = l
    BY <1>1 DEF Views
  <2> QED
    BY <1>1, <1>2, <1>4, <1>8, <2>1
<1>9. Views(ws)
  BY <1>1, <1>5, <1>6, <1>7, <1>8 DEF Views
<1> QED
  BY <1>3, <1>9 DEF ws

(* A table that is found is a report or a view. *)
LEMMA TableIs ==
  ASSUME NEW d, Views(d.vw), NEW n, TableAt(d, n) # 0
  PROVE  LET t == TableOf(d, n)
         IN  t.name \in Names /\ IsSeq(t.cols) /\ \A i \in DOMAIN t.cols : Spelled(t.cols[i])
<1> DEFINE k == TableAt(d, n)
           r == Len(Reports)
           m == Len(d.vw)
<1>1. IsDb(d)
  BY DEF Views, IsDb
<1>2. /\ r \in Nat /\ m \in Nat /\ DOMAIN Reports = 1..r /\ DOMAIN d.vw = 1..m
      /\ DOMAIN Tables(d) = 1..(r + m)
      /\ \A i \in 1..(r + m) : Tables(d)[i] = IF i <= r THEN Reports[i] ELSE d.vw[i - r]
  BY <1>1, TablesAre
<1>3. k \in DOMAIN Tables(d) /\ TableOf(d, n) = Tables(d)[k]
  BY <1>1, TableAtIs DEF TableOf
<1> HIDE DEF k, r, m
<1>4. CASE k <= r
  <2>1. k \in DOMAIN Reports /\ TableOf(d, n) = Reports[k]
    BY <1>2, <1>3, <1>4
  <2> QED
    BY <2>1, ReportsAre
<1>5. CASE ~(k <= r)
  <2>1. k - r \in DOMAIN d.vw /\ TableOf(d, n) = d.vw[k - r]
    BY <1>2, <1>3, <1>5
  <2> QED
    BY <2>1 DEF Views, AView
<1> QED
  BY <1>4, <1>5

(* A view read again has the name, source and labels that it had. *)
LEMMA RebuiltIs ==
  ASSUME NEW vs, Views(vs), NEW v, AView(v), Settled(v), Founded(vs, v)
  PROVE  LET u == Rebuilt(vs, v) IN AView(u) /\ Settled(u) /\ Like(u, v) /\ Bare(u)
<1> DEFINE u == Rebuilt(vs, v)
           src == TableOf([vw |-> vs], v.src)
           Again(c) == [head |-> FieldOf(src, c.head).head, label |-> c.label,
                        segment |-> FieldOf(src, c.head).segment, unique |-> FieldOf(src, c.head).unique]
           cols == [i \in DOMAIN v.cols |-> Again(v.cols[i])]
<1>1. u = [name |-> v.name, src |-> v.src, pk |-> v.pk, cols |-> cols]
  BY DEF Rebuilt
<1>2. IsSeq(cols) /\ DOMAIN cols = DOMAIN v.cols /\ \A i \in DOMAIN v.cols : cols[i].label = v.cols[i].label
  <2>1. Len(v.cols) \in Nat /\ DOMAIN v.cols = 1..Len(v.cols)
    BY SeqIs DEF AView
  <2>2. \A i \in DOMAIN v.cols : Again(v.cols[i]).label = v.cols[i].label
    OBVIOUS
  <2> DEFINE S == {Again(v.cols[i]) : i \in DOMAIN v.cols}
  <2>3. cols \in [1..Len(v.cols) -> S] /\ DOMAIN cols = DOMAIN v.cols /\ \A i \in DOMAIN v.cols : cols[i] = Again(v.cols[i])
    BY <2>1
  <2> HIDE DEF S, cols, Again
  <2>4. cols \in Seq(S)
    BY <2>1, <2>3
  <2> QED
    BY <2>2, <2>3, <2>4 DEF IsSeq
<1>8. \A i \in DOMAIN cols : Spelled(cols[i])
  <2> DEFINE d == [vw |-> vs]
  <2>1. d.vw = vs /\ src = TableOf(d, v.src) /\ TableAt(d, v.src) # 0 /\ FieldsIn(src, Heads(v))
    BY DEF Founded
  <2> HIDE DEF d, cols, src
  <2>2. IsSeq(src.cols) /\ \A i \in DOMAIN src.cols : Spelled(src.cols[i])
    BY <2>1, TableIs
  <2>3. ASSUME NEW i \in DOMAIN v.cols
        PROVE  FieldOf(src, v.cols[i].head).head \in Names /\ v.cols[i].label \in Names
    <3>1. FieldAt(src, v.cols[i].head) # 0
      BY <2>1, <2>3, FieldsAre
    <3>2. FieldAt(src, v.cols[i].head) \in DOMAIN src.cols
      BY <2>2, <3>1, FieldAtIs
    <3> QED
      BY <2>2, <2>3, <3>2 DEF FieldOf, AView, Spelled
  <2>4. \A i \in DOMAIN v.cols : cols[i] = Again(v.cols[i])
    BY DEF cols
  <2>5. \A c : Again(c).head = FieldOf(src, c.head).head /\ Again(c).label = c.label
    OBVIOUS
  <2> HIDE DEF Again
  <2> QED
    BY <1>2, <2>3, <2>4, <2>5 DEF Spelled
<1> HIDE DEF cols
<1>3. /\ u.name = v.name /\ u.src = v.src /\ u.cols = cols /\ u.pk = v.pk
      /\ u = [name |-> u.name, src |-> u.src, pk |-> u.pk, cols |-> u.cols]
  BY <1>1
<1> HIDE DEF u
<1>4. AView(u)
  BY <1>2, <1>3, <1>8 DEF AView
<1>5. Labels(u) = Labels(v)
  BY <1>2, <1>3 DEF Labels
<1>6. CASE v.src \in ReportNames
  <2>1. PICK i \in DOMAIN Reports : Reports[i].name = v.src
    BY <1>6 DEF ReportNames
  <2>2. src = Reports[i]
    <3> DEFINE d == [vw |-> vs]
    <3>1. IsDb(d)
      BY DEF IsDb, Views
    <3> HIDE DEF d
    <3>2. TableOf(d, Reports[i].name) = Reports[i]
      BY <3>1, ReportFound
    <3> QED
      BY <2>1, <3>2 DEF d
  <2> HIDE DEF src
  <2>3. ASSUME NEW j \in DOMAIN v.cols
        PROVE  LET c == cols[j]
               IN  /\ c.head = v.cols[j].head /\ c.unique = FALSE
                   /\ c = [head |-> c.head, label |-> c.label,
                           segment |-> FieldOf(Reports[i], c.head).segment, unique |-> c.unique]
    <3> DEFINE c == v.cols[j]
               f == FieldOf(Reports[i], c.head)
    <3>1. f.head = c.head /\ f.unique = FALSE
      BY <2>1, <2>3 DEF Settled
    <3>2. cols[j] = [head |-> f.head, label |-> c.label, segment |-> f.segment, unique |-> f.unique]
      BY <2>2, <2>3 DEF cols
    <3>3. c.head = v.cols[j].head /\ f = FieldOf(Reports[i], c.head)
      OBVIOUS
    <3> HIDE DEF c, f, cols
    <3> QED
      BY <3>1, <3>2, <3>3
  <2>4. FieldsIn(Reports[i], Heads(v)) /\ \A k \in DOMAIN Reports : Reports[k].name = v.src => k = i
    BY <2>1, ReportAssumption DEF Settled
  <2>5. FieldsIn(Reports[i], Heads(u))
    <3>0. \A j \in DOMAIN v.cols : FieldAt(Reports[i], v.cols[j].head) # 0
      BY <2>4, FieldsAre
    <3>1. \A j \in DOMAIN u.cols : FieldAt(Reports[i], u.cols[j].head) # 0
      BY <1>2, <1>3, <2>3, <3>0
    <3> QED
      BY <3>1, FieldsAre
  <2>6. ASSUME NEW j \in DOMAIN u.cols PROVE FieldOf(Reports[i], u.cols[j].head).head = u.cols[j].head
                                              /\ FieldOf(Reports[i], u.cols[j].head).unique = FALSE
    <3>1. j \in DOMAIN v.cols /\ u.cols[j].head = v.cols[j].head
      BY <1>2, <1>3, <2>3, <2>6
    <3>2. FieldOf(Reports[i], v.cols[j].head).head = v.cols[j].head /\ FieldOf(Reports[i], v.cols[j].head).unique = FALSE
      BY <2>1, <3>1 DEF Settled
    <3> QED
      BY <3>1, <3>2
  <2>7. Settled(u)
    BY <1>2, <1>3, <2>3, <2>4, <2>5, <2>6 DEF Settled
  <2>8. HeadsAre(u, v) /\ Bare(u)
    BY <1>2, <1>3, <2>3 DEF HeadsAre, Bare
  <2> QED
    BY <1>3, <1>4, <1>5, <2>7, <2>8 DEF Like, u
<1>7. CASE v.src \notin ReportNames
  <2>1. Settled(u)
    BY <1>3, <1>7 DEF Settled, ReportNames
  <2>2. Like(u, v) /\ Bare(u)
    BY <1>3, <1>5, <1>7 DEF Like, Bare
  <2> QED
    BY <1>4, <2>1, <2>2 DEF u
<1> QED
  BY <1>6, <1>7

(* The columns of a rebuilt view are columns of its source. *)
LEMMA RebuiltFinds ==
  ASSUME NEW vs, Views(vs), NEW v, AView(v), Founded(vs, v), NEW j \in DOMAIN vs, vs[j].name = v.src
  PROVE  FieldsIn(vs[j], Heads(Rebuilt(vs, v)))
<1> DEFINE u == Rebuilt(vs, v)
           d == [vw |-> vs]
           t == vs[j]
           Again(c) == [head |-> FieldOf(TableOf(d, v.src), c.head).head, label |-> c.label,
                        segment |-> FieldOf(TableOf(d, v.src), c.head).segment,
                        unique |-> FieldOf(TableOf(d, v.src), c.head).unique]
<1>1. u.cols = [i \in DOMAIN v.cols |-> Again(v.cols[i])]
  BY DEF Rebuilt
<1>2. TableOf(d, v.src) = t /\ IsSeq(t.cols)
  <2>1. d.vw = vs
    OBVIOUS
  <2> HIDE DEF d
  <2>2. TableOf(d, vs[j].name) = vs[j]
    BY <2>1, ViewFound
  <2> QED
    BY <2>2 DEF Views, AView
<1>3. FieldsIn(t, Heads(v))
  BY <1>2 DEF Founded
<1> HIDE DEF u, d, t
<1>4. ASSUME NEW i \in DOMAIN u.cols PROVE FieldAt(t, u.cols[i].head) # 0
  <2> DEFINE n == v.cols[i].head
             k == FieldAt(t, n)
  <2>1. i \in DOMAIN v.cols /\ u.cols[i].head = FieldOf(t, n).head
    BY <1>1, <1>2, <1>4
  <2>2. FieldAt(t, n) # 0
    BY <1>3, <2>1, FieldsAre
  <2>3. k \in DOMAIN t.cols /\ FieldOf(t, n) = t.cols[k]
    BY <1>2, <2>2, FieldAtIs DEF FieldOf
  <2> HIDE DEF k, n
  <2>4. Named(t, t.cols[k], u.cols[i].head)
    BY <2>1, <2>3 DEF Named
  <2> QED
    BY <1>2, <2>3, <2>4, FieldAtIs
<1> QED
  BY <1>4, FieldsAre DEF u, t

(* A file of views is loaded, up to the first that cannot be, as it is but   *)
(* for the columns of a view of a view.                                      *)
LoadedTo(a, vs, k) ==
  /\ IsSeq(a[k]) /\ Len(a[k]) <= k
  /\ Len(a[k]) = k => Views(a[k]) /\ \A i \in 1..k : Like(a[k][i], vs[i]) /\ Bare(a[k][i])
(* One view more is loaded. *)
LEMMA LoadedStep ==
  ASSUME NEW vs, Views(vs), NEW a, Loading(a, vs), NEW k \in Nat, k + 1 <= Len(vs), LoadedTo(a, vs, k)
  PROVE  /\ LoadedTo(a, vs, k + 1)
         /\ Len(a[k]) = k /\ Founded(a[k], vs[k + 1]) => Len(a[k + 1]) = k + 1
<1> DEFINE v == vs[k + 1]
           u == Rebuilt(a[k], v)
<1>1. Len(vs) \in Nat /\ k + 1 \in 1..Len(vs) /\ k + 1 - 1 = k /\ Len(a[k]) \in Nat
  BY ViewsAre, SeqIs DEF LoadedTo
<1>2. a[k + 1] = IF Founded(a[k], v) THEN Append(a[k], u) ELSE a[k]
  <2>1. a[k + 1] = LoadOne(a[k + 1 - 1], vs[k + 1])
    BY <1>1 DEF Loading
  <2> QED
    BY <1>1, <2>1 DEF LoadOne
<1>3. CASE ~Founded(a[k], v)
  <2>1. a[k + 1] = a[k] /\ Len(a[k]) <= k + 1 /\ Len(a[k]) # k + 1
    BY <1>1, <1>2, <1>3 DEF LoadedTo
  <2> QED
    BY <1>3, <2>1 DEF LoadedTo
<1>4. CASE Founded(a[k], v) /\ Len(a[k]) # k
  <2>1. IsSeq(a[k + 1]) /\ Len(a[k + 1]) = Len(a[k]) + 1
    BY <1>2, <1>4, AppendIs DEF LoadedTo
  <2>2. Len(a[k + 1]) <= k + 1 /\ Len(a[k + 1]) # k + 1
    BY <1>1, <1>4, <2>1 DEF LoadedTo
  <2> QED
    BY <1>4, <2>1, <2>2 DEF LoadedTo
<1>5. CASE Founded(a[k], v) /\ Len(a[k]) = k
  <2>1. Views(a[k]) /\ \A i \in 1..k : Like(a[k][i], vs[i]) /\ Bare(a[k][i])
    BY <1>5 DEF LoadedTo
  <2>2. AView(v) /\ Settled(v) /\ v.name \notin ReportNames
    BY <1>1, ViewsAre
  <2>3. AView(u) /\ Settled(u) /\ Like(u, v) /\ Bare(u)
    <3> HIDE DEF v
    <3> QED
      BY <1>5, <2>1, <2>2, RebuiltIs
  <2>4. \A j \in DOMAIN a[k] : a[k][j].name = u.src => FieldsIn(a[k][j], Heads(u))
    <3>1. u.src = v.src
      BY <2>3 DEF Like
    <3> HIDE DEF v
    <3> QED
      BY <1>5, <2>1, <2>2, <3>1, RebuiltFinds
  <2>5. DOMAIN a[k] = 1..k /\ DOMAIN vs = 1..Len(vs)
    BY <1>5, <2>1, ViewsAre
  <2>6. \A i \in 1..k : a[k][i].name = vs[i].name
    BY <2>1 DEF Like
  <2>7. u.name = v.name /\ u.src = v.src
    BY <2>3 DEF Like
  <2>8. v.name \notin NamesIn(a[k])
    <3>1. \A i \in 1..k : i \in DOMAIN vs /\ i # k + 1
      BY <1>1, <2>5
    <3>2. \A i \in 1..k : vs[i].name # vs[k + 1].name
      BY <1>1, <2>5, <3>1 DEF Views
    <3> QED
      BY <2>5, <2>6, <3>2 DEF NamesIn
  <2>9. v.src \in ReportNames \cup NamesIn(a[k])
    <3>1. vs[k + 1].src \in ReportNames \cup {vs[j].name : j \in 1..(k + 1 - 1)}
      BY <1>1, <2>5 DEF Views
    <3> QED
      BY <1>1, <2>5, <2>6, <3>1 DEF NamesIn
  <2> HIDE DEF u, v
  <2>10. Views(Append(a[k], u))
    BY <2>1, <2>2, <2>3, <2>4, <2>7, <2>8, <2>9, ViewsGrow
  <2>11. /\ a[k + 1] = Append(a[k], u) /\ IsSeq(a[k + 1]) /\ Len(a[k + 1]) = k + 1
         /\ \A i \in 1..k : a[k + 1][i] = a[k][i]
         /\ a[k + 1][k + 1] = u
    BY <1>2, <1>5, AppendIs DEF LoadedTo
  <2>12. ASSUME NEW i \in 1..(k + 1) PROVE Like(a[k + 1][i], vs[i]) /\ Bare(a[k + 1][i])
    <3>1. i \in 1..k \/ i = k + 1
      OBVIOUS
    <3> QED
      BY <2>1, <2>3, <2>11, <3>1 DEF v
  <2>13. Len(a[k + 1]) <= k + 1
    BY <2>11
  <2> QED
    BY <2>10, <2>11, <2>12, <2>13 DEF LoadedTo
<1> QED
  BY <1>3, <1>4, <1>5

(* Before the first view none is loaded. *)
LEMMA LoadedStart ==
  ASSUME NEW vs, NEW a, Loading(a, vs)
  PROVE  LoadedTo(a, vs, 0) /\ Len(a[0]) = 0
<1>1. a[0] = <<>>
  BY DEF Loading
<1>2. IsSeq(<<>>) /\ Len(<<>>) = 0 /\ DOMAIN <<>> = {}
  BY EmptySeq DEF IsSeq
<1>3. Views(<<>>)
  BY <1>2 DEF Views
<1> QED
  BY <1>1, <1>2, <1>3 DEF LoadedTo

(* A file that loads gives all of its views back. *)
LEMMA LoadIs ==
  ASSUME NEW vs, Views(vs), Loadable(vs)
  PROVE  /\ Views(LoadViews(vs)) /\ Same(LoadViews(vs), vs)
         /\ \A i \in 1..Len(vs) : Bare(LoadViews(vs)[i])
<1> DEFINE n == Len(vs)
<1>1. n \in Nat
  BY ViewsAre
<1>2. PICK a : Loading(a, vs)
  <2>1. PICK R : vs \in Seq(R)
    BY DEF Views, IsSeq
  <2> QED
    BY <2>1, LoadsOneByOne
<1> DEFINE P == {k \in Nat : k <= n => LoadedTo(a, vs, k)}
<1>3. 0 \in P
  BY <1>2, LoadedStart
<1>4. ASSUME NEW k \in P PROVE k + 1 \in P
  <2>1. CASE k + 1 <= n
    <3>1. k \in Nat /\ LoadedTo(a, vs, k)
      <4> HIDE DEF n
      <4> QED
        BY <1>1, <1>4, <2>1
    <3>2. LoadedTo(a, vs, k + 1)
      BY <1>2, <2>1, <3>1, LoadedStep
    <3> QED
      BY <3>1, <3>2
  <2>2. CASE ~(k + 1 <= n)
    <3> HIDE DEF n
    <3> QED
      BY <1>4, <2>2
  <2> QED
    BY <2>1, <2>2
<1>5. LoadedTo(a, vs, n)
  <2>1. P \in SUBSET Nat
    OBVIOUS
  <2>2. P = Nat
    <3> HIDE DEF P
    <3> QED
      BY <1>3, <1>4, <2>1, NatSets
  <2> HIDE DEF n
  <2> QED
    BY <1>1, <2>2
<1>6. LoadViews(vs) = a[n] /\ Len(a[n]) = n
  BY <1>2 DEF Loading, Loadable
<1> QED
  BY <1>5, <1>6 DEF LoadedTo, Same

(* Views that are alike have the labels and the source of each other. *)
LEMMA LikeIs ==
  ASSUME NEW v, NEW w, Like(v, w)
  PROVE  /\ v.name = w.name /\ v.src = w.src /\ DOMAIN v.cols = DOMAIN w.cols /\ Like(w, v)
         /\ \A j \in DOMAIN w.cols : v.cols[j].label = w.cols[j].label
         /\ w.src \in ReportNames => HeadsAre(v, w)
<1>1. /\ Labels(v) = Labels(w) /\ v.src = w.src /\ v.name = w.name /\ v.pk = w.pk
      /\ w.src \in ReportNames => HeadsAre(v, w)
  BY DEF Like
<1>2. DOMAIN Labels(v) = DOMAIN v.cols /\ DOMAIN Labels(w) = DOMAIN w.cols
  BY DEF Labels
<1>3. DOMAIN v.cols = DOMAIN w.cols
  BY <1>1, <1>2
<1>4. ASSUME NEW j \in DOMAIN w.cols PROVE v.cols[j].label = w.cols[j].label
  <2>1. Labels(v)[j] = v.cols[j].label /\ Labels(w)[j] = w.cols[j].label
    BY <1>3, <1>4 DEF Labels
  <2> QED
    BY <1>1, <2>1
<1>5. Like(w, v)
  BY <1>1, <1>3 DEF Like, HeadsAre
<1> QED
  BY <1>1, <1>3, <1>4, <1>5

(* What is alike to the like is alike. *)
LEMMA LikeToo ==
  ASSUME NEW u, NEW v, NEW w, Like(u, v), Like(v, w)
  PROVE  Like(u, w)
<1>1. DOMAIN v.cols = DOMAIN w.cols
  BY LikeIs
<1> QED
  BY <1>1 DEF Like, HeadsAre

(* Two views with the same heads and labels find the same columns. *)
LEMMA SameFields ==
  ASSUME NEW v, NEW w, IsView(v), IsView(w), IsSeq(v.cols), IsSeq(w.cols), DOMAIN v.cols = DOMAIN w.cols,
         \A j \in DOMAIN w.cols : v.cols[j].label = w.cols[j].label,
         HeadsAre(v, w), NEW n, FieldAt(w, n) # 0
  PROVE  FieldAt(v, n) # 0 /\ FieldOf(v, n).head = FieldOf(w, n).head
<1>1. Len(v.cols) \in Nat /\ Len(w.cols) \in Nat /\ DOMAIN v.cols = 1..Len(v.cols) /\ DOMAIN w.cols = 1..Len(w.cols)
  BY SeqIs
<1>2. 1..Len(v.cols) = 1..Len(w.cols)
  BY <1>1
<1>3. \A j \in 1..Len(w.cols) : Named(v, v.cols[j], n) <=> Named(w, w.cols[j], n)
  BY <1>1 DEF Named, HeadsAre
<1>4. {j \in 1..Len(v.cols) : Named(v, v.cols[j], n)} = {j \in 1..Len(w.cols) : Named(w, w.cols[j], n)}
  BY <1>2, <1>3
<1>5. FieldAt(v, n) = FieldAt(w, n)
  <2>1. FieldAt(v, n) = IF {j \in 1..Len(v.cols) : Named(v, v.cols[j], n)} # {}
                          THEN Min({j \in 1..Len(v.cols) : Named(v, v.cols[j], n)}) ELSE 0
    BY DEF FieldAt, SelectInSeq
  <2>2. FieldAt(w, n) = IF {j \in 1..Len(w.cols) : Named(w, w.cols[j], n)} # {}
                          THEN Min({j \in 1..Len(w.cols) : Named(w, w.cols[j], n)}) ELSE 0
    BY DEF FieldAt, SelectInSeq
  <2> QED
    BY <1>4, <2>1, <2>2
<1>6. FieldAt(w, n) \in DOMAIN w.cols
  BY FieldAtIs
<1> QED
  BY <1>5, <1>6 DEF FieldOf, HeadsAre

(* Why a file cannot be loaded: without a view that has a column by a name   *)
(* its source has it by no more, it can.                                     *)
LEMMA FoundedUnless ==
  ASSUME NEW vs, Views(vs), \A i, j \in DOMAIN vs : ~TakesAnOldName(vs[i], vs[j]),
         NEW a, NEW k \in Nat, k + 1 <= Len(vs), LoadedTo(a, vs, k), Len(a[k]) = k
  PROVE  Founded(a[k], vs[k + 1])
<1> DEFINE v == vs[k + 1]
           d == [vw |-> a[k]]
<1>1. /\ Views(a[k]) /\ (\A i \in 1..k : Like(a[k][i], vs[i])) /\ DOMAIN a[k] = 1..k
      /\ DOMAIN vs = 1..Len(vs) /\ Len(vs) \in Nat /\ k + 1 \in DOMAIN vs /\ k + 1 - 1 = k
  BY ViewsAre DEF LoadedTo
<1>2. d.vw = a[k] /\ IsDb(d) /\ AView(v) /\ Settled(v) /\ v.src \in ReportNames \cup {vs[j].name : j \in 1..k}
  BY <1>1 DEF Views, IsDb
<1> SUFFICES TableAt(d, v.src) # 0 /\ FieldsIn(TableOf(d, v.src), Heads(v))
  BY DEF Founded
<1> HIDE DEF d
<1>3. CASE v.src \in ReportNames
  <2>1. PICK i \in DOMAIN Reports : Reports[i].name = v.src
    BY <1>3 DEF ReportNames
  <2>2. TableAt(d, Reports[i].name) = i /\ TableOf(d, Reports[i].name) = Reports[i] /\ i # 0
    BY <1>2, ReportFound, ReportsAre, SeqIs
  <2> QED
    BY <1>2, <2>1, <2>2 DEF Settled
<1>4. CASE v.src \notin ReportNames
  <2>1. PICK j \in 1..k : v.src = vs[j].name
    BY <1>2, <1>4
  <2> DEFINE t == a[k][j]
  <2>2. Like(t, vs[j]) /\ j \in DOMAIN vs
    BY <1>1, <2>1
  <2>3. TableAt(d, t.name) # 0 /\ TableOf(d, t.name) = t /\ t.name = v.src
    BY <1>1, <1>2, <2>1, <2>2, ViewFound DEF Like
  <2>4. FieldsIn(t, Heads(v))
    <3>1. CASE vs[j].src \in ReportNames
      <4>1. HeadsAre(t, vs[j]) /\ AView(t) /\ AView(vs[j]) /\ FieldsIn(vs[j], Heads(v))
        BY <1>1, <2>1, <2>2, <3>1 DEF Like, Views
      <4>2. DOMAIN t.cols = DOMAIN vs[j].cols /\ \A i \in DOMAIN vs[j].cols : t.cols[i].label = vs[j].cols[i].label
        BY <2>2, LikeIs
      <4>3. IsView(t) /\ IsView(vs[j]) /\ IsSeq(t.cols) /\ IsSeq(vs[j].cols)
        BY <4>1 DEF AView, IsView
      <4> HIDE DEF t, v
      <4>4. \A i \in DOMAIN v.cols : FieldAt(vs[j], v.cols[i].head) # 0
        BY <4>1, FieldsAre
      <4>5. \A i \in DOMAIN v.cols : FieldAt(t, v.cols[i].head) # 0
        BY <4>1, <4>2, <4>3, <4>4, SameFields
      <4> QED
        BY <4>5, FieldsAre
    <3>2. CASE vs[j].src \notin ReportNames
      <4>1. ASSUME NEW i \in DOMAIN v.cols PROVE FieldAt(t, v.cols[i].head) # 0
        <5>1. ~TakesAnOldName(v, vs[j]) /\ v.src = vs[j].name
          BY <1>1, <2>1, <2>2
        <5>2. PICK l \in DOMAIN vs[j].cols : v.cols[i].head = vs[j].cols[l].label
          BY <3>2, <4>1, <5>1 DEF TakesAnOldName, ReportNames
        <5>3. Labels(t) = Labels(vs[j]) /\ AView(t)
          BY <1>1, <2>1, <2>2 DEF Like, Views
        <5> HIDE DEF t
        <5>4. l \in DOMAIN t.cols /\ t.cols[l].label = v.cols[i].head
          <6>1. DOMAIN Labels(t) = DOMAIN t.cols /\ DOMAIN Labels(vs[j]) = DOMAIN vs[j].cols
            BY DEF Labels
          <6>2. l \in DOMAIN t.cols
            BY <5>2, <5>3, <6>1
          <6>3. Labels(t)[l] = t.cols[l].label /\ Labels(vs[j])[l] = vs[j].cols[l].label
            BY <5>2, <6>2 DEF Labels
          <6> QED
            BY <5>2, <5>3, <6>2, <6>3
        <5>5. Named(t, t.cols[l], v.cols[i].head) /\ IsSeq(t.cols)
          BY <5>3, <5>4 DEF Named, IsView, AView
        <5> QED
          BY <5>4, <5>5, FieldAtIs
      <4> HIDE DEF t, v
      <4> QED
        BY <4>1, FieldsAre
    <3> QED
      BY <3>1, <3>2
  <2> QED
    BY <2>3, <2>4
<1> QED
  BY <1>3, <1>4

(* A file loads when no view takes a name that an older one gave up. *)
LEMMA LoadsUnless ==
  ASSUME NEW vs, Views(vs), \A i, j \in DOMAIN vs : ~TakesAnOldName(vs[i], vs[j])
  PROVE  Loadable(vs)
<1> DEFINE n == Len(vs)
<1>1. n \in Nat
  BY ViewsAre
<1>2. PICK a : Loading(a, vs)
  <2>1. PICK R : vs \in Seq(R)
    BY DEF Views, IsSeq
  <2> QED
    BY <2>1, LoadsOneByOne
<1> DEFINE P == {k \in Nat : k <= n => LoadedTo(a, vs, k) /\ Len(a[k]) = k}
<1>3. 0 \in P
  BY <1>2, LoadedStart
<1>4. ASSUME NEW k \in P PROVE k + 1 \in P
  <2>1. CASE k + 1 <= n
    <3>1. k \in Nat /\ LoadedTo(a, vs, k) /\ Len(a[k]) = k
      <4> HIDE DEF n
      <4> QED
        BY <1>1, <1>4, <2>1
    <3>2. LoadedTo(a, vs, k + 1) /\ Len(a[k + 1]) = k + 1
      BY <1>2, <2>1, <3>1, LoadedStep, FoundedUnless
    <3> QED
      BY <3>1, <3>2
  <2>2. CASE ~(k + 1 <= n)
    <3> HIDE DEF n
    <3> QED
      BY <1>4, <2>2
  <2> QED
    BY <2>1, <2>2
<1>5. Len(a[n]) = n
  <2>1. P \in SUBSET Nat
    OBVIOUS
  <2>2. P = Nat
    <3> HIDE DEF P
    <3> QED
      BY <1>3, <1>4, <2>1, NatSets
  <2> HIDE DEF n
  <2> QED
    BY <1>1, <2>2
<1> QED
  BY <1>2, <1>5 DEF Loading, Loadable

----------------------------------------------------------------------------
(* The database of a connection, and CREATE VIEW. *)

(* A database that is opened on a file has its views, in their order. *)
Opened(d, vs) ==
  /\ d = [vw |-> d.vw, indexed |-> d.indexed]
  /\ Views(d.vw) /\ Same(d.vw, vs)
  /\ IsSeq(d.indexed) /\ Len(d.indexed) <= Len(d.vw)
  /\ \A i \in 1..Len(d.indexed) : d.indexed[i] = d.vw[i]

(* Loading a file opens the database of it. *)
LEMMA LoadOpens ==
  ASSUME NEW vs, Views(vs), Loadable(vs)
  PROVE  Opened(Load(vs), vs) /\ Load(vs).indexed = Load(vs).vw
<1> DEFINE w == LoadViews(vs)
           d == [vw |-> w, indexed |-> w]
<1>1. Load(vs) = d
  BY DEF Load
<1>2. d.vw = w /\ d.indexed = w /\ d = [vw |-> d.vw, indexed |-> d.indexed]
  OBVIOUS
<1>3. Views(w) /\ Same(w, vs)
  BY LoadIs
<1> HIDE DEF w, d
<1>4. IsSeq(w) /\ Len(w) <= Len(w)
  BY <1>3, SeqIs DEF Views
<1> QED
  BY <1>1, <1>2, <1>3, <1>4 DEF Opened

(* A database that is opened is one. *)
LEMMA OpenedIsOpen ==
  ASSUME NEW d, NEW vs, Opened(d, vs)
  PROVE  d # NoDb
<1>1. "vw" \in DOMAIN d
  BY DEF Opened
<1> QED
  BY <1>1 DEF NoDb

(* The names of the tables are those of the reports and of the views. *)
LEMMA TableNamesAre ==
  ASSUME NEW vs, IsSeq(vs)
  PROVE  NamesOf(Reports \o vs) = ReportNames \cup NamesIn(vs)
<1>1. /\ Len(Reports) \in Nat /\ DOMAIN Reports = 1..Len(Reports) /\ Len(vs) \in Nat /\ DOMAIN vs = 1..Len(vs)
      /\ DOMAIN (Reports \o vs) = 1..(Len(Reports) + Len(vs))
      /\ \A i \in 1..(Len(Reports) + Len(vs)) :
           (Reports \o vs)[i] = IF i <= Len(Reports) THEN Reports[i] ELSE vs[i - Len(Reports)]
  BY ReportsAre, ConcatIs, SeqIs
<1> DEFINE t == Reports \o vs
           m == Len(Reports)
           n == Len(vs)
<1>2. /\ m \in Nat /\ n \in Nat /\ DOMAIN Reports = 1..m /\ DOMAIN vs = 1..n /\ DOMAIN t = 1..(m + n)
      /\ \A i \in 1..(m + n) : t[i] = IF i <= m THEN Reports[i] ELSE vs[i - m]
  BY <1>1
<1> HIDE DEF t, m, n
<1>3. ASSUME NEW i \in 1..(m + n) PROVE t[i].name \in ReportNames \cup NamesIn(vs)
  <2>1. CASE i <= m
    BY <1>2, <1>3, <2>1 DEF ReportNames
  <2>2. CASE ~(i <= m)
    <3>1. i - m \in 1..n /\ t[i] = vs[i - m]
      BY <1>2, <1>3, <2>2
    <3> QED
      BY <1>2, <3>1 DEF NamesIn
  <2> QED
    BY <2>1, <2>2
<1>4. ASSUME NEW i \in 1..m PROVE Reports[i].name \in NamesOf(t)
  <2>1. i \in 1..(m + n) /\ t[i] = Reports[i]
    BY <1>2
  <2> QED
    BY <1>2, <2>1 DEF NamesOf
<1>5. ASSUME NEW i \in 1..n PROVE vs[i].name \in NamesOf(t)
  <2> DEFINE k == i + m
  <2>1. k \in 1..(m + n) /\ ~(k <= m) /\ k - m = i
    BY <1>2
  <2> HIDE DEF k
  <2>2. t[k] = vs[i]
    BY <1>2, <2>1
  <2> QED
    BY <1>2, <2>1, <2>2 DEF NamesOf
<1>6. NamesOf(t) \subseteq ReportNames \cup NamesIn(vs)
  BY <1>2, <1>3 DEF NamesOf
<1>7. ReportNames \subseteq NamesOf(t) /\ NamesIn(vs) \subseteq NamesOf(t)
  BY <1>2, <1>4, <1>5 DEF ReportNames, NamesIn
<1> QED
  BY <1>6, <1>7 DEF t

(* Views that are the same have the same names. *)
LEMMA SameNames ==
  ASSUME NEW vs, NEW ws, IsSeq(vs), IsSeq(ws), Same(vs, ws)
  PROVE  NamesIn(vs) = NamesIn(ws)
<1>1. Len(ws) \in Nat /\ DOMAIN vs = 1..Len(ws) /\ DOMAIN ws = 1..Len(ws)
  BY SeqIs DEF Same
<1>2. \A i \in 1..Len(ws) : vs[i].name = ws[i].name
  BY DEF Same, Like
<1> QED
  BY <1>1, <1>2 DEF NamesIn

(* Views are the same as themselves. *)
LEMMA SameIsReflexive ==
  ASSUME NEW vs, IsSeq(vs)
  PROVE  Same(vs, vs)
BY DEF Same, Like, HeadsAre

(* The view that a statement makes. *)
LEMMA NewViewIs ==
  ASSUME NEW d, NEW vs, Opened(d, vs), NEW s, Statement(s), Creates(d, s)
  PROVE  LET v == NewView(d, s)
         IN  /\ AView(v) /\ Settled(v) /\ v.name = s.name /\ v.src \in ReportNames \cup NamesIn(d.vw)
             /\ \A j \in DOMAIN d.vw : d.vw[j].name = v.src => FieldsIn(d.vw[j], Heads(v))
<1> DEFINE v == NewView(d, s)
           src == TableOf(d, s.src)
           Label(i) == IF i \in DOMAIN s.labels THEN s.labels[i] ELSE s.fields[i]
           Col(i) == [head |-> s.fields[i], label |-> Label(i), segment |-> FieldOf(src, s.fields[i]).segment,
                      unique |-> s.unique /\ i = 1]
           cols == [i \in DOMAIN s.fields |-> Col(i)]
<1>1. IsDb(d) /\ IsSeq(s.fields) /\ s.name \in Names /\ s.src # <<>>
  BY DEF Opened, Views, IsDb, Statement
<1>2. v = [name |-> s.name, src |-> src.name, pk |-> src.pk, cols |-> cols]
  BY DEF NewView
<1>3. TableAt(d, s.src) \in DOMAIN Tables(d) /\ src.name = s.src
  BY <1>1, TableAtIs DEF Creates
<1>4. /\ DOMAIN cols = DOMAIN s.fields /\ IsSeq(cols)
      /\ \A i \in DOMAIN s.fields : /\ cols[i].head = s.fields[i]
                                    /\ cols[i].segment = FieldOf(src, s.fields[i]).segment
                                    /\ cols[i] = [head |-> cols[i].head, label |-> cols[i].label,
                                                  segment |-> cols[i].segment, unique |-> cols[i].unique]
                                    /\ Spelled(cols[i])
  <2>1. Len(s.fields) \in Nat /\ DOMAIN s.fields = 1..Len(s.fields)
    BY <1>1, SeqIs
  <2>2. \A i : /\ Col(i).head = s.fields[i]
               /\ Col(i).segment = FieldOf(src, s.fields[i]).segment
               /\ Col(i) = [head |-> Col(i).head, label |-> Col(i).label,
                            segment |-> Col(i).segment, unique |-> Col(i).unique]
    OBVIOUS
  <2> DEFINE S == {Col(i) : i \in DOMAIN s.fields}
  <2>3. /\ cols \in [1..Len(s.fields) -> S] /\ DOMAIN cols = DOMAIN s.fields
        /\ \A i \in DOMAIN s.fields : cols[i] = Col(i)
    BY <2>1
  <2>5. \A i \in DOMAIN s.fields : Spelled(Col(i))
    <3>1. ASSUME NEW i \in DOMAIN s.fields PROVE s.fields[i] \in Names /\ Label(i) \in Names
      BY <3>1 DEF Statement
    <3>2. \A i : Col(i).head = s.fields[i] /\ Col(i).label = Label(i)
      OBVIOUS
    <3> HIDE DEF Label, Col
    <3> QED
      BY <3>1, <3>2 DEF Spelled
  <2> HIDE DEF S, cols, Col
  <2>4. cols \in Seq(S)
    BY <2>1, <2>3
  <2> QED
    BY <2>2, <2>3, <2>4, <2>5 DEF IsSeq
<1> HIDE DEF cols, Col, Label
<1>5. /\ v.name = s.name /\ v.src = s.src /\ v.cols = cols
      /\ v = [name |-> v.name, src |-> v.src, pk |-> v.pk, cols |-> v.cols]
  BY <1>2, <1>3
<1> HIDE DEF v
<1>6. AView(v)
  BY <1>1, <1>4, <1>5 DEF AView
<1>7. FieldsIn(src, Heads(v))
  <2>1. \A j \in DOMAIN s.fields : FieldAt(src, s.fields[j]) # 0
    BY DEF Creates, FieldsIn
  <2>2. DOMAIN v.cols = DOMAIN s.fields /\ \A j \in DOMAIN s.fields : v.cols[j].head = s.fields[j]
    BY <1>4, <1>5
  <2> HIDE DEF src
  <2>3. \A j \in DOMAIN v.cols : FieldAt(src, v.cols[j].head) # 0
    BY <2>1, <2>2
  <2> QED
    BY <2>3, FieldsAre
<1>8. Settled(v)
  <2>1. ASSUME NEW i \in DOMAIN Reports, Reports[i].name = s.src, NEW j \in DOMAIN s.fields
        PROVE  /\ FieldOf(Reports[i], cols[j].head).head = cols[j].head
               /\ FieldOf(Reports[i], cols[j].head).unique = FALSE
               /\ cols[j] = [head |-> cols[j].head, label |-> cols[j].label,
                             segment |-> FieldOf(Reports[i], cols[j].head).segment, unique |-> cols[j].unique]
    <3>1. src = Reports[i]
      BY <1>1, <2>1, ReportFound
    <3>2. FieldAt(src, s.fields[j]) # 0
      BY <2>1 DEF Creates, FieldsIn
    <3>3. IsSeq(Reports[i].cols) /\ Reports[i].src = <<>>
      BY <2>1, ReportsAre
    <3>4. Named(Reports[i], FieldOf(Reports[i], s.fields[j]), s.fields[j])
      BY <3>1, <3>2, <3>3, FieldAtIs
    <3>5. FieldOf(Reports[i], s.fields[j]).head = s.fields[j]
      BY <3>3, <3>4 DEF Named, IsView
    <3>6. FieldAt(Reports[i], s.fields[j]) \in DOMAIN Reports[i].cols
      BY <3>1, <3>2, <3>3, FieldAtIs
    <3>7. FieldOf(Reports[i], s.fields[j]).unique = FALSE
      <4> DEFINE c == Reports[i].cols[FieldAt(Reports[i], s.fields[j])]
      <4>1. c = [head |-> c.head, label |-> c.label, segment |-> c.segment, unique |-> FALSE]
        BY <2>1, <3>6, ReportsAre
      <4> HIDE DEF c
      <4>2. c.unique = FALSE
        BY <4>1
      <4> QED
        BY <4>2 DEF c, FieldOf
    <3> QED
      BY <1>4, <2>1, <3>1, <3>5, <3>7
  <2>2. \A i \in DOMAIN Reports : Reports[i].name = s.src => FieldsIn(Reports[i], Heads(v))
    <3>1. \A i \in DOMAIN Reports : Reports[i].name = s.src => src = Reports[i]
      BY <1>1, ReportFound
    <3> QED
      BY <1>7, <3>1
  <2>3. v.src = s.src /\ v.cols = cols /\ DOMAIN cols = DOMAIN s.fields
    BY <1>4, <1>5
  <2> HIDE DEF src
  <2> QED
    BY <2>1, <2>2, <2>3 DEF Settled
<1>9. v.src \in ReportNames \cup NamesIn(d.vw)
  <2>1. NamesOf(Tables(d)) = ReportNames \cup NamesIn(d.vw)
    BY <1>1, TableNamesAre DEF Tables, IsDb
  <2>2. s.src \in NamesOf(Tables(d))
    BY <1>3 DEF NamesOf, TableOf
  <2> QED
    BY <1>5, <2>1, <2>2
<1>10. \A j \in DOMAIN d.vw : d.vw[j].name = v.src => FieldsIn(d.vw[j], Heads(v))
  <2>1. \A j \in DOMAIN d.vw : TableOf(d, d.vw[j].name) = d.vw[j]
    BY ViewFound DEF Opened
  <2> QED
    BY <1>5, <1>7, <2>1
<1> QED
  BY <1>5, <1>6, <1>8, <1>9, <1>10 DEF v

(* CREATE VIEW adds a view, and the file with it can be opened. *)
LEMMA CreateStep ==
  ASSUME NEW d, NEW vs, Opened(d, vs), NEW s, Statement(s), Creates(d, s), NEW ws, ws = AddView(d, NewView(d, s))
  PROVE  /\ Views(ws) /\ Opened([vw |-> ws, indexed |-> d.indexed], ws)
         /\ NamesIn(ws) = NamesIn(d.vw) \cup {s.name}
<1> DEFINE v == NewView(d, s)
           e == [vw |-> ws, indexed |-> d.indexed]
<1>1. /\ AView(v) /\ Settled(v) /\ v.name = s.name /\ v.src \in ReportNames \cup NamesIn(d.vw)
      /\ \A j \in DOMAIN d.vw : d.vw[j].name = v.src => FieldsIn(d.vw[j], Heads(v))
  BY NewViewIs
<1> HIDE DEF v
<1>2. /\ Views(d.vw) /\ IsSeq(d.vw) /\ IsDb(d) /\ Len(d.vw) \in Nat /\ DOMAIN d.vw = 1..Len(d.vw)
      /\ IsSeq(d.indexed) /\ Len(d.indexed) \in Nat /\ Len(d.indexed) <= Len(d.vw)
      /\ \A i \in 1..Len(d.indexed) : d.indexed[i] = d.vw[i]
  BY SeqIs DEF Opened, Views, IsDb
<1>3. e.vw = ws /\ e.indexed = d.indexed /\ e = [vw |-> e.vw, indexed |-> e.indexed]
  OBVIOUS
<1> HIDE DEF e
<1>4. CASE v.name \in NamesIn(d.vw)
  <2>1. ws = d.vw
    BY <1>4 DEF AddView, NamesIn, v
  <2> QED
    BY <1>1, <1>2, <1>3, <1>4, <2>1, SameIsReflexive DEF Opened, e
<1>5. CASE v.name \notin NamesIn(d.vw)
  <2>1. ws = Append(d.vw, v)
    BY <1>5 DEF AddView, NamesIn, v
  <2>2. /\ IsSeq(ws) /\ Len(ws) = Len(d.vw) + 1 /\ DOMAIN ws = 1..(Len(d.vw) + 1)
        /\ \A i \in 1..Len(d.vw) : ws[i] = d.vw[i]
        /\ ws[Len(d.vw) + 1] = v
    BY <1>2, <2>1, AppendIs
  <2>3. v.name \notin ReportNames
    <3>1. ASSUME NEW i \in DOMAIN Reports, Reports[i].name = s.name PROVE FALSE
      <4>1. TableAt(d, s.name) = i /\ TableOf(d, s.name) = Reports[i] /\ i # 0 /\ Reports[i].src = <<>>
        BY <1>2, <3>1, ReportFound, ReportsAre, SeqIs
      <4> QED
        BY <4>1 DEF Creates, IsView
    <3> QED
      BY <1>1, <3>1 DEF ReportNames
  <2>4. NamesIn(ws) = NamesIn(d.vw) \cup {s.name}
    BY <1>1, <1>2, <1>5, <2>1, <2>3, ViewsGrow
  <2>5. Views(ws)
    BY <1>1, <1>2, <1>5, <2>1, <2>3, ViewsGrow
  <2>6. Len(d.indexed) <= Len(ws) /\ \A i \in 1..Len(d.indexed) : d.indexed[i] = ws[i]
    <3>1. \A i \in 1..Len(d.indexed) : i \in 1..Len(d.vw)
      BY <1>2
    <3> QED
      BY <1>2, <2>2, <3>1
  <2>7. Opened(e, ws)
    BY <1>2, <1>3, <2>2, <2>5, <2>6, SameIsReflexive DEF Opened
  <2> QED
    BY <2>4, <2>5, <2>7 DEF e
<1> QED
  BY <1>4, <1>5

----------------------------------------------------------------------------
(* What holds of the views at every prompt: those of the file can be loaded, *)
(* and an open connection has the same ones, the first of them indexed.      *)

(* The file has views, and an open connection has those, in their order. *)
TermInv ==
  /\ Views(file)
  /\ conn # NoDb => Opened(conn, file)

(* The database of the next statement is that of the file. *)
LEMMA DatabaseIs ==
  ASSUME TermInv, CanConnect
  PROVE  Opened(Database, file) /\ Database # NoDb
<1>1. Opened(Database, file)
  BY LoadOpens DEF TermInv, Database, CanConnect
<1> QED
  BY <1>1, OpenedIsOpen

(* A statement keeps the file and the connection in step. *)
LEMMA RunKeeps ==
  ASSUME TermInv, CanConnect, NEW s, s.verb = "create" => Statement(s), Run(s)
  PROVE  TermInv'
<1> DEFINE d == Database
<1>1. Opened(d, file) /\ Views(file)
  BY DatabaseIs DEF TermInv
<1>2. CASE s.verb = "create" /\ Creates(d, s)
  <2> DEFINE ws == AddView(d, NewView(d, s))
  <2>1. file' = ws /\ conn' = [vw |-> ws, indexed |-> d.indexed]
    BY <1>2 DEF Run
  <2>2. Statement(s) /\ Creates(d, s)
    BY <1>2
  <2> HIDE DEF d, ws
  <2>3. Views(ws) /\ Opened([vw |-> ws, indexed |-> d.indexed], ws)
    BY <1>1, <2>2, CreateStep DEF ws
  <2> QED
    BY <2>1, <2>3 DEF TermInv
<1>3. CASE ~(s.verb = "create" /\ Creates(d, s))
  <2>1. file' = file /\ conn' \in {d, NoDb}
    BY <1>3 DEF Run
  <2> HIDE DEF d
  <2> QED
    BY <1>1, <2>1 DEF TermInv
<1> QED
  BY <1>2, <1>3

(* The tool starts with no views in its file, and no connection. *)
LEMMA InitTerm == Init => TermInv
<1>1. Views(<<>>)
  <2>1. IsSeq(<<>>) /\ DOMAIN <<>> = {}
    BY EmptySeq DEF IsSeq
  <2> QED
    BY <2>1 DEF Views
<1> QED
  BY <1>1 DEF Init, TermInv

(* Only the start of the tool and a statement touch the views. *)
LEMMA Touches ==
  ASSUME [Next]_vars
  PROVE  \/ UNCHANGED <<conn, file, comp>>
         \/ \E rehash \in BOOLEAN : Scan(rehash)
         \/ CanConnect /\ (\E s : (s.verb = "create" => Statement(s)) /\ Run(s)) /\ UNCHANGED comp
<1>1. CASE \E rehash \in BOOLEAN : Scan(rehash)
  BY <1>1
<1>2. CASE Typing
  BY <1>2 DEF Typing, Type
<1>3. CASE Tab \/ EnterBlank \/ EnterMore \/ Interrupt
  BY <1>3 DEF Tab, EnterBlank, EnterMore, Interrupt
<1>4. CASE EnterEnd
  <2> DEFINE q == Joined(Append(lines, Trimmed(line)))
  <2>1. UNCHANGED <<conn, file, comp>> \/ (Seek(q) /\ UNCHANGED comp)
    BY <1>4 DEF EnterEnd
  <2> HIDE DEF q
  <2>2. CASE Seek(q) /\ UNCHANGED comp
    <3>1. UNCHANGED <<conn, file>> \/ (CanConnect /\ Run(Parsed(q)))
      BY <2>2 DEF Seek
    <3>2. Parsed(q).verb = "create" => Statement(Parsed(q))
      BY ParsedIs
    <3> QED
      BY <2>2, <3>1, <3>2
  <2> QED
    BY <2>1, <2>2
<1>5. CASE UNCHANGED vars
  BY <1>5 DEF vars
<1> QED
  BY <1>1, <1>2, <1>3, <1>4, <1>5 DEF Next

(* No step parts the file from the connection. *)
LEMMA StepTerm == TermInv /\ [Next]_vars => TermInv'
<1> SUFFICES ASSUME TermInv, [Next]_vars PROVE TermInv'
  OBVIOUS
<1>1. CASE UNCHANGED <<conn, file, comp>>
  BY <1>1 DEF TermInv
<1>2. CASE \E rehash \in BOOLEAN : Scan(rehash)
  BY <1>2 DEF Scan, TermInv
<1>3. CASE CanConnect /\ \E s : (s.verb = "create" => Statement(s)) /\ Run(s)
  BY <1>3, RunKeeps
<1> QED
  BY <1>1, <1>2, <1>3, Touches

(* At every prompt the views of the file have names of their own, that no    *)
(* report has, and sources that stand before them with all of the columns;   *)
(* those of a report have its columns as they are; and an open connection    *)
(* has the same views, however they were loaded.                             *)
THEOREM TerminalInvariant == Spec => []TermInv
BY InitTerm, StepTerm, PTL DEF Spec

----------------------------------------------------------------------------
(* What loading has made of a view of a report. *)
LEMMA ForgetsDistinct ==
  ASSUME NEW v, NEW w, AView(v), AView(w), Settled(v), Settled(w), Bare(v), Like(v, w), w.src \in ReportNames
  PROVE  v = Undistinct(w)
<1>1. PICK i \in DOMAIN Reports : Reports[i].name = w.src
  BY DEF ReportNames
<1>2. v.src = w.src /\ v.name = w.name /\ v.pk = w.pk /\ HeadsAre(v, w)
  BY DEF Like
<1>3. DOMAIN v.cols = DOMAIN w.cols /\ \A j \in DOMAIN w.cols : v.cols[j].label = w.cols[j].label
  BY LikeIs
<1>4. ASSUME NEW j \in DOMAIN w.cols PROVE v.cols[j] = [w.cols[j] EXCEPT !.unique = FALSE]
  <2> DEFINE c == w.cols[j]
             f == FieldOf(Reports[i], c.head)
  <2>1. c = [head |-> c.head, label |-> c.label, segment |-> f.segment, unique |-> c.unique]
    BY <1>1, <1>4 DEF Settled
  <2>2. v.cols[j] = [head |-> c.head, label |-> c.label, segment |-> f.segment, unique |-> FALSE]
    <3> DEFINE b == v.cols[j]
    <3>1. b.head = c.head /\ b.label = c.label /\ b.unique = FALSE
      BY <1>2, <1>3, <1>4 DEF Bare, HeadsAre
    <3>2. b = [head |-> b.head, label |-> b.label, segment |-> FieldOf(Reports[i], b.head).segment, unique |-> b.unique]
      BY <1>1, <1>2, <1>3, <1>4 DEF Settled
    <3> HIDE DEF b, c
    <3> QED
      BY <3>1, <3>2 DEF b
  <2> HIDE DEF c, f
  <2>3. v.cols[j] = [c EXCEPT !.unique = FALSE]
    <3> DEFINE r == [head |-> c.head, label |-> c.label, segment |-> f.segment, unique |-> c.unique]
    <3>1. \A x : [r EXCEPT !.unique = x] = [head |-> c.head, label |-> c.label, segment |-> f.segment, unique |-> x]
      OBVIOUS
    <3> HIDE DEF r
    <3>2. r = c
      BY <2>1 DEF r
    <3> QED
      BY <2>2, <3>1, <3>2
  <2> QED
    BY <2>3 DEF c
<1> DEFINE cols == [j \in DOMAIN w.cols |-> [w.cols[j] EXCEPT !.unique = FALSE]]
<1>5. v.cols = cols
  <2>1. v.cols = [j \in DOMAIN v.cols |-> v.cols[j]]
    <3>1. PICK S : v.cols \in Seq(S)
      BY DEF AView, IsSeq
    <3>2. v.cols \in [1..Len(v.cols) -> S]
      BY <3>1, LenProperties
    <3> QED
      BY <3>2
  <2> QED
    BY <1>3, <1>4, <2>1
<1>6. Undistinct(w) = [w EXCEPT !.cols = cols]
  BY DEF Undistinct
<1> HIDE DEF cols
<1>7. [w EXCEPT !.cols = cols] = [name |-> w.name, src |-> w.src, pk |-> w.pk, cols |-> cols]
  BY DEF AView
<1>8. v = [name |-> w.name, src |-> w.src, pk |-> w.pk, cols |-> cols]
  BY <1>2, <1>5 DEF AView
<1> QED
  BY <1>6, <1>7, <1>8

(* What is in step is not lost by a restart. *)
LEMMA RestartKeeps == TermInv => RestartKeepsTheViews
<1> SUFFICES ASSUME TermInv PROVE RestartKeepsTheViews
  OBVIOUS
<1> DEFINE again == Load(file).vw
           Kept == /\ Len(again) = Len(conn.vw)
                   /\ \A i \in DOMAIN again :
                        LET v == again[i]
                            w == conn.vw[i]
                        IN  /\ v.name = w.name /\ v.src = w.src /\ Labels(v) = Labels(w)
                            /\ IsView(TableOf(conn, w.src)) \/ v = Undistinct(w)
<1>0. Loadable(file) \/ \E i, j \in DOMAIN file : TakesAnOldName(file[i], file[j])
  BY LoadsUnless DEF TermInv
<1> SUFFICES ASSUME conn # NoDb, Loadable(file) PROVE Kept
  BY <1>0 DEF RestartKeepsTheViews
<1>1. again = LoadViews(file)
  BY DEF Load
<1>2. /\ Views(again) /\ Same(again, file) /\ Views(file) /\ Views(conn.vw) /\ Same(conn.vw, file)
      /\ \A i \in 1..Len(file) : Bare(again[i])
  BY <1>1, LoadIs DEF TermInv, Opened
<1> HIDE DEF again
<1>3. /\ Len(file) \in Nat /\ Len(again) = Len(file) /\ Len(conn.vw) = Len(file)
      /\ DOMAIN file = 1..Len(file) /\ DOMAIN again = 1..Len(file) /\ DOMAIN conn.vw = 1..Len(file)
  BY <1>2, SeqIs DEF Views, Same
<1>4. ASSUME NEW i \in 1..Len(file)
      PROVE  /\ again[i].name = conn.vw[i].name /\ again[i].src = conn.vw[i].src
             /\ Labels(again[i]) = Labels(conn.vw[i])
             /\ IsView(TableOf(conn, conn.vw[i].src)) \/ again[i] = Undistinct(conn.vw[i])
  <2> DEFINE n == conn.vw[i].src
  <2>1. Like(again[i], file[i]) /\ Like(conn.vw[i], file[i])
    BY <1>2, <1>4 DEF Same
  <2>2. n \in ReportNames => again[i] = Undistinct(conn.vw[i])
    <3>1. AView(again[i]) /\ Settled(again[i]) /\ AView(conn.vw[i]) /\ Settled(conn.vw[i]) /\ Bare(again[i])
      BY <1>2, <1>3, <1>4, ViewsAre
    <3>2. Like(again[i], conn.vw[i])
      BY <2>1, LikeIs, LikeToo
    <3> QED
      BY <3>1, <3>2, ForgetsDistinct
  <2>3. ASSUME n \notin ReportNames PROVE IsView(TableOf(conn, n))
    <3>1. n \in NamesIn(conn.vw) /\ IsDb(conn)
      BY <1>2, <1>3, <1>4, <2>3, ViewsAre DEF IsDb
    <3> HIDE DEF n
    <3>2. NamesOf(Tables(conn)) = ReportNames \cup NamesIn(conn.vw)
      BY <3>1, TableNamesAre DEF Tables, IsDb
    <3>3. TableAt(conn, n) \in DOMAIN Tables(conn) /\ TableOf(conn, n).name = n
      BY <3>1, <3>2, TableAtIs DEF NamesOf
    <3> DEFINE k == TableAt(conn, n)
               r == Len(Reports)
    <3>4. TableOf(conn, n) = Tables(conn)[k]
      BY DEF TableOf
    <3> HIDE DEF k
    <3>5. CASE k <= r
      <4>1. k \in DOMAIN Reports /\ Tables(conn)[k] = Reports[k]
        BY <3>1, <3>3, <3>5, TablesAre DEF k
      <4> QED
        BY <2>3, <3>3, <3>4, <4>1 DEF ReportNames
    <3>6. CASE ~(k <= r)
      <4>1. k - r \in DOMAIN conn.vw /\ Tables(conn)[k] = conn.vw[k - r]
        <5>1. /\ r \in Nat /\ Len(conn.vw) \in Nat /\ DOMAIN conn.vw = 1..Len(conn.vw)
              /\ k \in 1..(r + Len(conn.vw))
              /\ Tables(conn)[k] = IF k <= r THEN Reports[k] ELSE conn.vw[k - r]
          BY <3>1, <3>3, TablesAre DEF k
        <5> HIDE DEF r
        <5> QED
          BY <3>6, <5>1
      <4> QED
        BY <1>2, <3>4, <4>1 DEF Views, AView, IsView
    <3> QED
      BY <3>5, <3>6
  <2> QED
    BY <2>1, <2>2, <2>3 DEF Like
<1> QED
  BY <1>3, <1>4 DEF again

(* A restart of the tool brings back the views of the open connection, after *)
(* every statement; what breaks it is the one case that the property names   *)
(* (db.go:358).                                                              *)
THEOREM RestartKeepsTheViewsHolds == Spec => []RestartKeepsTheViews
BY RestartKeeps, TerminalInvariant, PTL

----------------------------------------------------------------------------
(* The names of the prompt, step by step. *)

(* What the two parts of the tool know of the names. *)
OfferNow == IF comp = NoDb THEN {} ELSE ListTables(comp, <<>>)
IndexNow == IF conn = NoDb THEN Known ELSE NamesOf(Indexed(conn))

(* The names that are known are those of the reports and of the file. *)
LEMMA KnownIs ==
  ASSUME Views(file)
  PROVE  Known = ReportNames \cup NamesIn(file)
BY TableNamesAre DEF Known, Views

(* The database of the next statement has every name there is, and indexes   *)
(* those that the abstract prompt says.                                      *)
LEMMA DatabaseNames ==
  ASSUME TermInv, CanConnect
  PROVE  /\ Known = ReportNames \cup NamesIn(Database.vw)
         /\ IndexNow = NamesOf(Indexed(Database))
<1> DEFINE d == Database
<1>1. Opened(d, file) /\ Views(file)
  BY DatabaseIs DEF TermInv
<1>2. CASE conn = NoDb
  <2>1. d = Load(file)
    BY <1>2 DEF Database
  <2> HIDE DEF d
  <2>2. d.indexed = d.vw /\ IsSeq(d.vw) /\ IsSeq(file) /\ Same(d.vw, file)
    BY <1>1, <1>2, <2>1, LoadOpens DEF Opened, Views, CanConnect
  <2>3. NamesIn(d.vw) = NamesIn(file)
    BY <2>2, SameNames
  <2>4. NamesOf(Indexed(d)) = ReportNames \cup NamesIn(d.vw)
    BY <2>2, TableNamesAre DEF Indexed
  <2>5. Known = ReportNames \cup NamesIn(d.vw)
    BY <1>1, <2>3, KnownIs
  <2> QED
    BY <1>2, <2>4, <2>5 DEF IndexNow, d
<1>3. CASE conn # NoDb
  <2>1. d = conn
    BY <1>3 DEF Database
  <2>2. NamesIn(d.vw) = NamesIn(file)
    <3> HIDE DEF d
    <3>1. IsSeq(d.vw) /\ IsSeq(file) /\ Same(d.vw, file)
      BY <1>1 DEF Opened, Views
    <3> QED
      BY <3>1, SameNames
  <2>3. Known = ReportNames \cup NamesIn(d.vw)
    BY <1>1, <2>2, KnownIs
  <2> QED
    BY <1>3, <2>1, <2>3 DEF IndexNow
<1> QED
  BY <1>2, <1>3

(* Every name begins with the empty word. *)
LEMMA EmptyPrefix ==
  ASSUME NEW n \in Names
  PROVE  IsPrefix(<<>>, n)
<1>1. Len(<<>>) = 0 /\ Len(n) \in Nat
  BY DEF Names
<1>2. SubSeq(<<>>, 1, 0) = <<>> /\ SubSeq(n, 1, 0) = <<>>
  BY SubSeqEmpty
<1> QED
  BY <1>1, <1>2 DEF IsPrefix

(* The completer, when it is loaded, offers every name. *)
LEMMA LoadOffers ==
  ASSUME Views(file), Loadable(file)
  PROVE  ListTables(Load(file), <<>>) = Known /\ Load(file) # NoDb
<1> DEFINE d == Load(file)
<1>1. Opened(d, file)
  BY LoadOpens
<1> HIDE DEF d
<1>2. IsSeq(d.vw) /\ IsSeq(file) /\ Same(d.vw, file) /\ Views(d.vw)
  BY <1>1 DEF Opened, Views
<1>3. TableNames(d) = ReportNames \cup NamesIn(d.vw)
  BY <1>2, TableNamesAre DEF TableNames, Tables, NamesOf
<1>4. TableNames(d) = Known
  BY <1>2, <1>3, SameNames, KnownIs
<1>5. \A n \in TableNames(d) : n \in Names
  <2>1. \A n \in ReportNames : n \in Names
    <3>1. \A i \in DOMAIN Reports : Reports[i].name \in Names
      BY ReportsAre
    <3> QED
      BY <3>1 DEF ReportNames
  <2>2. \A n \in NamesIn(d.vw) : n \in Names
    <3>1. \A i \in DOMAIN d.vw : d.vw[i].name \in Names
      BY <1>2 DEF Views, AView
    <3> QED
      BY <3>1 DEF NamesIn
  <2> QED
    BY <1>3, <2>1, <2>2
<1>6. PrefixedBy(TableNames(d), <<>>) = TableNames(d)
  BY <1>5, EmptyPrefix DEF PrefixedBy
<1> QED
  BY <1>1, <1>4, <1>6, OpenedIsOpen DEF ListTables, d

(* Starting the prompt, as the abstract prompt sees it. *)
LEMMA ScanRefines ==
  ASSUME TermInv, NEW rehash \in BOOLEAN, Scan(rehash)
  PROVE  /\ OfferNow' \in {{}, Known} /\ IndexNow' = Known /\ Known' = Known
<1>1. file' = file /\ conn' = NoDb /\ (comp' = NoDb \/ (Loadable(file) /\ comp' = Load(file)))
  BY DEF Scan
<1>2. Known' = Known /\ IndexNow' = Known'
  BY <1>1 DEF Known, IndexNow
<1>3. OfferNow' \in {{}, Known}
  <2>1. Loadable(file) => ListTables(Load(file), <<>>) = Known
    BY LoadOffers DEF TermInv
  <2> QED
    BY <1>1, <2>1 DEF OfferNow
<1> QED
  BY <1>2, <1>3

(* A statement, as the abstract prompt sees it. *)
LEMMA RunRefines ==
  ASSUME TermInv, CanConnect, NEW s, s.verb = "create" => Statement(s), Run(s)
  PROVE  \/ IndexNow' = Known' /\ Known' = Known
         \/ IndexNow' = IndexNow /\ \E n : Known' = Known \cup {n}
         \/ IndexNow' = IndexNow /\ Known' = Known
<1> DEFINE d == Database
<1>1. Opened(d, file) /\ d # NoDb
  BY DatabaseIs
<1>2. Known = ReportNames \cup NamesIn(d.vw) /\ IndexNow = NamesOf(Indexed(d))
  BY DatabaseNames
<1>3. CASE s.verb = "create" /\ Creates(d, s)
  <2> DEFINE ws == AddView(d, NewView(d, s))
             e == [vw |-> ws, indexed |-> d.indexed]
  <2>1. file' = ws /\ conn' = e
    BY <1>3 DEF Run
  <2>2. Statement(s) /\ Creates(d, s)
    BY <1>3
  <2>3. e.indexed = d.indexed
    OBVIOUS
  <2> HIDE DEF d, e, ws
  <2>4. Views(ws) /\ Opened(e, ws) /\ NamesIn(ws) = NamesIn(d.vw) \cup {s.name}
    BY <1>1, <2>2, CreateStep DEF ws, e
  <2>5. e # NoDb
    BY <2>4, OpenedIsOpen
  <2>6. IndexNow' = IndexNow
    BY <1>2, <2>1, <2>3, <2>5 DEF IndexNow, Indexed
  <2>7. NamesOf(Reports \o ws) = ReportNames \cup NamesIn(ws)
    BY <2>4, TableNamesAre DEF Views
  <2>8. Known' = Known \cup {s.name}
    BY <1>2, <2>1, <2>4, <2>7 DEF Known
  <2> QED
    BY <2>6, <2>8
<1>4. CASE ~(s.verb = "create" /\ Creates(d, s))
  <2>1. file' = file /\ conn' \in {d, NoDb}
    BY <1>4 DEF Run
  <2>2. Known' = Known
    BY <2>1 DEF Known
  <2> HIDE DEF d
  <2>3. conn' = d => IndexNow' = IndexNow
    BY <1>1, <1>2 DEF IndexNow
  <2>4. conn' = NoDb => IndexNow' = Known'
    BY DEF IndexNow
  <2> QED
    BY <2>1, <2>2, <2>3, <2>4
<1> QED
  BY <1>3, <1>4

(* A step of the tool is a step of the abstract prompt, or none. *)
LEMMA StepRefines == TermInv /\ [Next]_vars => [Prompt!Next]_(Prompt!names)
<1> SUFFICES ASSUME TermInv, [Next]_vars PROVE [Prompt!Next]_(Prompt!names)
  OBVIOUS
<1>1. Prompt!names = <<Known, OfferNow, IndexNow>>
  BY DEF Prompt!names, OfferNow, IndexNow
<1>2. Prompt!names' = <<Known', OfferNow', IndexNow'>>
  BY DEF Prompt!names, OfferNow, IndexNow
<1>3. CASE UNCHANGED <<conn, file, comp>>
  <2>1. Known' = Known /\ OfferNow' = OfferNow
    BY <1>3 DEF Known, OfferNow
  <2>2. IndexNow' = IndexNow
    BY <1>3, <2>1 DEF IndexNow
  <2> QED
    BY <1>1, <1>2, <2>1, <2>2
<1>4. CASE \E rehash \in BOOLEAN : Scan(rehash)
  <2>1. OfferNow' \in {{}, Known} /\ IndexNow' = Known /\ Known' = Known
    BY <1>4, ScanRefines
  <2>2. Prompt!Start
    BY <2>1 DEF Prompt!Start, OfferNow, IndexNow
  <2> QED
    BY <2>2 DEF Prompt!Next
<1>5. CASE CanConnect /\ (\E s : (s.verb = "create" => Statement(s)) /\ Run(s)) /\ UNCHANGED comp
  <2>1. OfferNow' = OfferNow
    BY <1>5 DEF OfferNow
  <2>2. \/ IndexNow' = Known' /\ Known' = Known
        \/ IndexNow' = IndexNow /\ \E n : Known' = Known \cup {n}
        \/ IndexNow' = IndexNow /\ Known' = Known
    BY <1>5, RunRefines
  <2>3. CASE IndexNow' = Known' /\ Known' = Known
    <3>1. Prompt!Leave
      BY <2>1, <2>3 DEF Prompt!Leave, OfferNow, IndexNow
    <3> QED
      BY <3>1 DEF Prompt!Next
  <2>4. CASE IndexNow' = IndexNow /\ \E n : Known' = Known \cup {n}
    <3>1. PICK n : Known' = Known \cup {n}
      BY <2>4
    <3>2. CASE n \in Known
      BY <1>1, <1>2, <2>1, <2>4, <3>1, <3>2
    <3>3. CASE n \notin Known
      <4>1. Prompt!Create
        BY <2>1, <2>4, <3>1, <3>3 DEF Prompt!Create, OfferNow, IndexNow
      <4> QED
        BY <4>1 DEF Prompt!Next
    <3> QED
      BY <3>2, <3>3
  <2>5. CASE IndexNow' = IndexNow /\ Known' = Known
    BY <1>1, <1>2, <2>1, <2>5
  <2> QED
    BY <2>2, <2>3, <2>4, <2>5
<1> QED
  BY <1>3, <1>4, <1>5, Touches

(* What Tab offers and what SHOW TABLES WITH looks at are the tables of the  *)
(* start of the tool and of the start of the connection, whatever views are  *)
(* created meanwhile: the prompt implements Dictionary.                      *)
THEOREM ImplementsDictionaryHolds == Spec => ImplementsDictionary
<1>1. Init => Prompt!Init
  <2> SUFFICES ASSUME Init PROVE Prompt!Init
    OBVIOUS
  <2>1. file = <<>> /\ comp = NoDb /\ conn = NoDb
    BY DEF Init
  <2>2. Views(<<>>)
    BY InitTerm, <2>1 DEF TermInv
  <2>3. NamesOf(Reports \o <<>>) = NamesOf(Reports)
    <3>1. Reports \o <<>> = Reports
      BY ReportsAre, ConcatEmptySeq DEF IsSeq
    <3> QED
      BY <3>1
  <2> QED
    BY <2>1, <2>3 DEF Prompt!Init, Known
<1> QED
  BY <1>1, StepRefines, TerminalInvariant, PTL DEF Spec, ImplementsDictionary, Prompt!Spec

----------------------------------------------------------------------------
(* SHOW TABLES WITH. *)

(* FlattenSeq is defined by a recursive function, which exists. *)
Flattens(f, seqs, n) ==
  \A i \in 1..n : f[i] = IF i = 1 THEN seqs[i] ELSE f[i - 1] \o seqs[i]

(* There is the function that flattens a list of lists. *)
LEMMA FlattensExists ==
  ASSUME NEW seqs, NEW n \in Nat
  PROVE  \E f : f = [i \in 1..n |-> f[i]] /\ Flattens(f, seqs, n)
<1> DEFINE P == {m \in Nat : \E f : Flattens(f, seqs, m)}
<1>1. 0 \in P
  BY DEF Flattens
<1>2. ASSUME NEW m \in P PROVE m + 1 \in P
  <2>1. PICK f : Flattens(f, seqs, m)
    BY <1>2
  <2> DEFINE Step(i) == IF i = 1 THEN seqs[i] ELSE f[i - 1] \o seqs[i]
             u == [i \in 1..(m + 1) |-> Step(i)]
  <2>2. m \in Nat
    BY <1>2
  <2>3. ASSUME NEW i \in 1..(m + 1)
        PROVE  u[i] = IF i = 1 THEN seqs[i] ELSE u[i - 1] \o seqs[i]
    <3>1. u[i] = Step(i)
      OBVIOUS
    <3>2. CASE i = 1
      BY <3>1, <3>2
    <3>3. CASE i # 1
      <4>1. i - 1 \in 1..m /\ i - 1 \in 1..(m + 1)
        BY <2>2, <2>3, <3>3
      <4>2. u[i - 1] = Step(i - 1) /\ f[i - 1] = Step(i - 1)
        BY <2>1, <4>1 DEF Flattens
      <4> HIDE DEF u
      <4> QED
        BY <3>1, <3>3, <4>2
    <3> QED
      BY <3>2, <3>3
  <2> HIDE DEF u
  <2>4. Flattens(u, seqs, m + 1)
    BY <2>3 DEF Flattens
  <2> QED
    BY <2>2, <2>4
<1>3. n \in P
  <2>1. P \in SUBSET Nat
    OBVIOUS
  <2> HIDE DEF P
  <2>2. P = Nat
    BY <1>1, <1>2, <2>1, NatSets
  <2> QED
    BY <2>2
<1>4. PICK f : Flattens(f, seqs, n)
  BY <1>3
<1> DEFINE u == [i \in 1..n |-> f[i]]
<1>5. ASSUME NEW i \in 1..n
      PROVE  u[i] = IF i = 1 THEN seqs[i] ELSE u[i - 1] \o seqs[i]
  <2>1. i = 1 \/ i - 1 \in 1..n
    OBVIOUS
  <2>2. u[i] = f[i] /\ (i - 1 \in 1..n => u[i - 1] = f[i - 1])
    OBVIOUS
  <2> HIDE DEF u
  <2> QED
    BY <1>4, <2>1, <2>2 DEF Flattens
<1>6. u = [i \in 1..n |-> u[i]]
  OBVIOUS
<1> HIDE DEF u
<1> QED
  BY <1>5, <1>6 DEF Flattens

(* FlattenSeq, one list after the other. *)
LEMMA FlattenSteps ==
  ASSUME NEW S, NEW seqs \in Seq(Seq(S)), seqs # <<>>
  PROVE  \E f : Flattens(f, seqs, Len(seqs)) /\ FlattenSeq(seqs) = f[Len(seqs)]
<1> DEFINE n == Len(seqs)
           P(f) == f = [i \in 1..n |-> IF i = 1 THEN seqs[i] ELSE f[i - 1] \o seqs[i]]
<1>1. n \in Nat /\ n # 0
  BY EmptySeq
<1>2. FlattenSeq(seqs) = (CHOOSE f : P(f))[n]
  BY <1>1, Zenon DEF FlattenSeq
<1>3. PICK g : g = [i \in 1..n |-> g[i]] /\ Flattens(g, seqs, n)
  <2> HIDE DEF n
  <2> QED
    BY <1>1, FlattensExists
<1>4. P(g)
  <2> HIDE DEF n
  <2> QED
    BY <1>3 DEF Flattens
<1> DEFINE f == CHOOSE f : P(f)
<1>5. P(f)
  <2> HIDE DEF P
  <2> QED
    BY <1>4
<1>6. Flattens(f, seqs, n)
  <2> HIDE DEF f, n
  <2> QED
    BY <1>5 DEF Flattens
<1>7. FlattenSeq(seqs) = f[n]
  BY <1>2
<1> HIDE DEF f, P
<1> QED
  BY <1>6, <1>7

(* One more sequence. *)
LEMMA FlattenGrows ==
  ASSUME NEW S, NEW seqs \in Seq(Seq(S)), NEW x \in Seq(S)
  PROVE  FlattenSeq(Append(seqs, x)) = IF seqs = <<>> THEN x ELSE FlattenSeq(seqs) \o x
<1> DEFINE more == Append(seqs, x)
           n == Len(seqs)
<1>1. n \in Nat /\ (seqs = <<>> <=> n = 0) /\ \A i \in 1..n : seqs[i] \in Seq(S)
  BY ElementOfSeq, LenProperties, EmptySeq
<1>2. more \in Seq(Seq(S)) /\ more # <<>> /\ Len(more) = n + 1 /\ more[n + 1] = x /\ \A i \in 1..n : more[i] = seqs[i]
  BY AppendProperties
<1> HIDE DEF more
<1>3. PICK g : Flattens(g, more, n + 1) /\ FlattenSeq(more) = g[n + 1]
  BY <1>2, FlattenSteps
<1>4. g[n + 1] = IF n + 1 = 1 THEN x ELSE g[n] \o x
  <2>1. n + 1 \in 1..(n + 1) /\ n + 1 - 1 = n
    BY <1>1
  <2> DEFINE k == n + 1
  <2>2. k \in 1..(n + 1) /\ k - 1 = n /\ more[k] = x
    BY <1>2, <2>1
  <2> HIDE DEF k, n
  <2>3. g[k] = IF k = 1 THEN more[k] ELSE g[k - 1] \o more[k]
    BY <1>3, <2>2 DEF Flattens
  <2> QED
    BY <2>2, <2>3 DEF k
<1>5. CASE n = 0
  BY <1>1, <1>3, <1>4, <1>5 DEF more
<1>6. CASE n # 0
  <2>1. PICK f : Flattens(f, seqs, n) /\ FlattenSeq(seqs) = f[n]
    BY <1>1, <1>6, FlattenSteps
  <2> HIDE DEF n
  <2> DEFINE P == {m \in Nat : m + 1 \in 1..n => f[m + 1] = g[m + 1]}
  <2>2. 0 \in P
    <3>1. CASE 1 \in 1..n
      <4>1. 1 \in 1..(n + 1) /\ more[1] = seqs[1]
        BY <1>1, <1>2, <3>1
      <4>2. f[1] = seqs[1] /\ g[1] = more[1]
        BY <1>3, <2>1, <3>1, <4>1 DEF Flattens
      <4> QED
        BY <4>1, <4>2
    <3>2. CASE 1 \notin 1..n
      BY <3>2
    <3> QED
      BY <3>1, <3>2
  <2>3. ASSUME NEW m \in P PROVE m + 1 \in P
    <3>1. CASE m + 1 + 1 \in 1..n
      <4> DEFINE k == m + 1 + 1
      <4>1. m \in Nat /\ m + 1 \in 1..n /\ f[m + 1] = g[m + 1] /\ k \in 1..n /\ k \in 1..(n + 1) /\ k # 1 /\ k - 1 = m + 1
        BY <1>1, <2>3, <3>1
      <4>2. more[k] = seqs[k]
        BY <1>2, <4>1 DEF n
      <4> HIDE DEF k
      <4>3. f[k] = f[k - 1] \o seqs[k] /\ g[k] = g[k - 1] \o more[k]
        BY <1>3, <2>1, <4>1 DEF Flattens
      <4>4. f[k] = g[k]
        BY <4>1, <4>2, <4>3
      <4> QED
        BY <4>1, <4>4 DEF k
    <3>2. CASE ~(m + 1 + 1 \in 1..n)
      BY <2>3, <3>2
    <3> QED
      BY <3>1, <3>2
  <2>4. P = Nat
    <3>1. P \in SUBSET Nat
      OBVIOUS
    <3> HIDE DEF P
    <3> QED
      BY <2>2, <2>3, <3>1, NatSets
  <2>5. f[n] = g[n]
    <3> HIDE DEF P
    <3>1. n - 1 \in P /\ n - 1 + 1 = n /\ n \in 1..n
      BY <1>1, <1>6, <2>4
    <3>2. n - 1 + 1 \in 1..n => f[n - 1 + 1] = g[n - 1 + 1]
      BY <3>1 DEF P
    <3> QED
      BY <3>1, <3>2
  <2>6. seqs # <<>> /\ n + 1 # 1
    BY <1>1, <1>6
  <2> QED
    BY <1>3, <1>4, <2>1, <2>5, <2>6 DEF more
<1> QED
  BY <1>5, <1>6

(* What is flattened has the elements of its parts. *)
LEMMA FlattenIs ==
  ASSUME NEW S, NEW seqs \in Seq(Seq(S))
  PROVE  FlattenSeq(seqs) \in Seq(S)
<1> DEFINE G == {u \in Seq(Seq(S)) : FlattenSeq(u) \in Seq(S)}
<1>1. <<>> \in G
  <2>1. <<>> \in Seq(Seq(S)) /\ <<>> \in Seq(S) /\ Len(<<>>) = 0
    BY EmptySeq
  <2>2. FlattenSeq(<<>>) = <<>>
    BY <2>1 DEF FlattenSeq
  <2> QED
    BY <2>1, <2>2
<1>2. ASSUME NEW u \in G, NEW x \in Seq(S) PROVE Append(u, x) \in G
  <2>1. u \in Seq(Seq(S)) /\ FlattenSeq(u) \in Seq(S)
    OBVIOUS
  <2>2. Append(u, x) \in Seq(Seq(S))
    BY <2>1, AppendProperties
  <2>3. FlattenSeq(Append(u, x)) = x \/ FlattenSeq(Append(u, x)) = FlattenSeq(u) \o x
    BY <2>1, FlattenGrows
  <2>4. FlattenSeq(u) \o x \in Seq(S)
    BY <2>1, ConcatProperties
  <2> QED
    BY <2>2, <2>3, <2>4
<1> HIDE DEF G
<1>3. G = Seq(Seq(S))
  <2>1. G \in SUBSET Seq(Seq(S))
    BY DEF G
  <2> QED
    BY <1>1, <1>2, <2>1, SeqSets
<1> QED
  BY <1>3 DEF G

(* The tables listed are indexed ones with a column of that name. *)
HasColumn(t, n) == \E j \in DOMAIN t.cols : IndexName(t, t.cols[j]) = n
(* A table that SHOW TABLES WITH lists is indexed, with the column. *)
LEMMA ListedTables ==
  ASSUME NEW d, NEW n, IsSeq(Indexed(d)), \A i \in DOMAIN Indexed(d) : IsSeq(Indexed(d)[i].cols),
         NEW t \in ToSet(TablesWithColumn(d, n))
  PROVE  \E i \in DOMAIN Indexed(d) : t = Indexed(d)[i] /\ HasColumn(t, n)
<1> DEFINE ts == Indexed(d)
           S == {u \in {ts[i] : i \in DOMAIN ts} : HasColumn(u, n)}
           At(u) == {j \in DOMAIN u.cols : IndexName(u, u.cols[j]) = n}
           Part(u) == [j \in 1..Cardinality(At(u)) |-> u]
           parts == [i \in DOMAIN ts |-> Part(ts[i])]
<1>1. TablesWithColumn(d, n) = FlattenSeq(parts)
  BY DEF TablesWithColumn
<1>2. IsSeq(ts) /\ Len(ts) \in Nat /\ DOMAIN ts = 1..Len(ts) /\ \A i \in DOMAIN ts : IsSeq(ts[i].cols)
  BY SeqIs
<1> HIDE DEF ts
<1>3. ASSUME NEW i \in DOMAIN ts PROVE Part(ts[i]) \in Seq(S)
  <2> DEFINE u == ts[i]
  <2>1. IsFiniteSet(At(u)) /\ Cardinality(At(u)) \in Nat
    <3>1. Len(u.cols) \in Nat /\ DOMAIN u.cols = 1..Len(u.cols)
      BY <1>2, <1>3, SeqIs
    <3>2. IsFiniteSet(1..Len(u.cols))
      <4>1. 1 \in Int /\ Len(u.cols) \in Int
        BY <3>1
      <4> QED
        BY <4>1, FS_Interval
    <3>3. At(u) \subseteq 1..Len(u.cols)
      BY <3>1
    <3> HIDE DEF At
    <3> QED
      BY <3>2, <3>3, FS_Subset, FS_CardinalityType
  <2>2. CASE At(u) = {}
    <3>1. 1..Cardinality(At(u)) = {}
      <4>1. Cardinality(At(u)) = 0
        BY <2>2, FS_EmptySet
      <4> QED
        BY <4>1
    <3> HIDE DEF At, u
    <3>2. Part(u) = <<>>
      BY <3>1
    <3>3. <<>> \in Seq(S)
      <4> HIDE DEF S
      <4> QED
        BY EmptySeq
    <3> QED
      BY <3>2, <3>3 DEF u
  <2>3. CASE At(u) # {}
    <3>1. u \in S
      BY <1>3, <2>3 DEF HasColumn
    <3> HIDE DEF At, S, u
    <3>2. Part(u) \in [1..Cardinality(At(u)) -> S]
      BY <3>1
    <3>3. Part(u) \in Seq(S)
      BY <2>1, <3>2
    <3> QED
      BY <3>3 DEF u
  <2> QED
    BY <2>2, <2>3
<1>4. parts \in Seq(Seq(S))
  <2> HIDE DEF S, Part
  <2>1. parts \in [1..Len(ts) -> Seq(S)]
    BY <1>2, <1>3
  <2> HIDE DEF parts
  <2> QED
    BY <1>2, <2>1
<1> HIDE DEF parts
<1>5. FlattenSeq(parts) \in Seq(S)
  <2> HIDE DEF S
  <2> QED
    BY <1>4, FlattenIs
<1>6. t \in S
  <2> HIDE DEF S
  <2>1. PICK k \in DOMAIN FlattenSeq(parts) : t = FlattenSeq(parts)[k]
    BY <1>1 DEF ToSet
  <2> QED
    BY <1>5, <2>1, LenProperties, ElementOfSeq
<1> QED
  BY <1>6 DEF ts

(* A table that is indexed is found under its name. *)
LEMMA IndexedFound ==
  ASSUME NEW d, NEW vs, Opened(d, vs), NEW i \in DOMAIN Indexed(d)
  PROVE  /\ TableAt(d, Indexed(d)[i].name) # 0 /\ TableOf(d, Indexed(d)[i].name) = Indexed(d)[i]
         /\ IsSeq(Indexed(d)[i].cols)
<1> DEFINE r == Len(Reports)
           t == Indexed(d)[i]
<1>1. /\ IsDb(d) /\ Views(d.vw) /\ IsSeq(d.indexed) /\ r \in Nat /\ Len(d.vw) \in Nat /\ Len(d.indexed) \in Nat
      /\ DOMAIN Reports = 1..r /\ DOMAIN d.vw = 1..Len(d.vw) /\ Len(d.indexed) <= Len(d.vw)
      /\ \A j \in 1..Len(d.indexed) : d.indexed[j] = d.vw[j]
  BY ReportsAre, SeqIs DEF Opened, Views, IsDb
<1>2. i \in 1..(r + Len(d.indexed)) /\ t = IF i <= r THEN Reports[i] ELSE d.indexed[i - r]
  BY <1>1, ReportsAre, ConcatIs DEF Indexed
<1> HIDE DEF t
<1>3. CASE i <= r
  <2>1. i \in DOMAIN Reports /\ t = Reports[i] /\ i # 0
    BY <1>1, <1>2, <1>3
  <2> QED
    BY <1>1, <2>1, ReportFound, ReportsAre DEF t
<1>4. CASE ~(i <= r)
  <2> DEFINE j == i - r
  <2>1. j \in 1..Len(d.indexed) /\ j \in 1..Len(d.vw) /\ t = d.indexed[j] /\ r + j = i
    <3> HIDE DEF r
    <3> QED
      BY <1>1, <1>2, <1>4
  <2> HIDE DEF j
  <2>2. t = d.vw[j] /\ j \in DOMAIN d.vw
    BY <1>1, <2>1
  <2>3. TableAt(d, t.name) # 0 /\ TableOf(d, t.name) = t
    BY <1>1, <2>2, ViewFound
  <2>4. IsSeq(t.cols)
    BY <1>1, <2>2 DEF Views, AView
  <2> QED
    BY <2>3, <2>4 DEF t
<1> QED
  BY <1>3, <1>4

(* SHOW TABLES WITH and DESC agree where the tables are in step. *)
LEMMA WithAgrees == TermInv => WithAgreesWithDesc
<1> SUFFICES ASSUME TermInv, CanConnect, NEW n, NEW t \in ToSet(TablesWithColumn(Database, n))
             PROVE  Describe(Database, [table |-> t.name, cols |-> <<n>>]) # Refused
  BY DEF WithAgreesWithDesc
<1> DEFINE d == Database
           s == [table |-> t.name, cols |-> <<n>>]
<1>1. Opened(d, file)
  BY DatabaseIs
<1> HIDE DEF d
<1>2. IsSeq(Indexed(d)) /\ \A i \in DOMAIN Indexed(d) : IsSeq(Indexed(d)[i].cols)
  BY <1>1, ReportsAre, ConcatIs, IndexedFound DEF Indexed, Opened
<1>3. t \in ToSet(TablesWithColumn(d, n))
  BY DEF d
<1>4. PICK i \in DOMAIN Indexed(d) : t = Indexed(d)[i] /\ HasColumn(t, n)
  BY <1>2, <1>3, ListedTables
<1>5. TableAt(d, t.name) # 0 /\ TableOf(d, t.name) = t /\ IsSeq(t.cols)
  BY <1>1, <1>4, IndexedFound
<1>6. FieldAt(t, n) # 0
  <2>1. PICK j \in DOMAIN t.cols : IndexName(t, t.cols[j]) = n
    BY <1>4 DEF HasColumn
  <2>2. Named(t, t.cols[j], n)
    BY <2>1 DEF IndexName, Named
  <2> QED
    BY <1>5, <2>1, <2>2, FieldAtIs
<1>7. s.table = t.name /\ s.cols # <<>> /\ s.cols[1] = n
  OBVIOUS
<1> HIDE DEF s
<1>8. Describe(d, s) = Described(t, <<FieldOf(t, n)>>)
  BY <1>5, <1>6, <1>7 DEF Describe
<1>9. Described(t, <<FieldOf(t, n)>>).ok = TRUE /\ Refused.ok = FALSE
  BY DEF Described, Rows, Refused
<1> QED
  BY <1>8, <1>9 DEF s, d

(* A table that SHOW TABLES WITH lists under a column is one that DESC finds *)
(* that column in, for every history of views.                               *)
THEOREM WithAgreesWithDescHolds == Spec => []WithAgreesWithDesc
BY WithAgrees, TerminalInvariant, PTL

----------------------------------------------------------------------------
(* The completer.  A line is split into words by a fold over its keys, whose *)
(* steps are kept in a table: induction over sets, as SeqSets has it, then    *)
(* goes from a text to the one with a key more.                              *)
(* A fold over the positions of a sequence, in a table of its steps. *)
StartOf(n) == SUBSET (1..n)
(* The positions up to one, and those before it. *)
LEMMA Starts ==
  ASSUME NEW n \in Nat, NEW k \in 1..n
  PROVE  /\ 1..k \in StartOf(n) /\ 1..(k - 1) \in StartOf(n) /\ 1..k # {}
         /\ Max(1..k) = k /\ (1..k) \ {k} = 1..(k - 1)
<1>1. 1..k \in StartOf(n) /\ 1..(k - 1) \in StartOf(n) /\ k \in 1..k /\ (1..k) \ {k} = 1..(k - 1)
  BY DEF StartOf
<1>2. Max(1..k) \in 1..k /\ \A j \in 1..k : j <= Max(1..k)
  BY <1>1, MaxOfSet DEF StartOf
<1> QED
  BY <1>1, <1>2

Tabled(f, T, base, n, g) ==
  /\ f = [s \in StartOf(n) |-> IF s = {} THEN base ELSE g[<<f[s \ {Max(s)}], Max(s)>>]]
  /\ \A s \in StartOf(n) : f[s] \in T
(* There is the function that folds over the first positions. *)
LEMMA FoldTable ==
  ASSUME NEW T, NEW base \in T, NEW n \in Nat, NEW g, \A x \in T, k \in 1..n : g[<<x, k>>] \in T
  PROVE  \E f : Tabled(f, T, base, n, g)
<1> DEFINE D == StartOf(n)
           Step(f, s) == IF s = {} THEN base ELSE g[<<f[s \ {Max(s)}], Max(s)>>]
           Folds(f, m) == \A s \in D : Cardinality(s) <= m => f[s] = Step(f, s) /\ f[s] \in T
           P == {m \in Nat : \E f : Folds(f, m)}
<1>1. IsFiniteSet(1..n) /\ \A s \in D : IsFiniteSet(s) /\ Cardinality(s) \in Nat
  <2>1. IsFiniteSet(1..n)
    <3>1. 1 \in Int /\ n \in Int
      OBVIOUS
    <3> QED
      BY <3>1, FS_Interval
  <2> QED
    BY <2>1, FS_Subset, FS_CardinalityType DEF StartOf
<1>2. \A s \in D : s # {} => /\ s \ {Max(s)} \in D /\ Cardinality(s \ {Max(s)}) = Cardinality(s) - 1
                             /\ Max(s) \in 1..n
  BY <1>1, MaxOfSet, FS_RemoveElement DEF StartOf
<1>3. 0 \in P
  <2> DEFINE f == [s \in D |-> base]
  <2>1. Folds(f, 0)
    <3>1. \A s \in D : Cardinality(s) <= 0 => s = {}
      BY <1>1, FS_EmptySet
    <3> QED
      BY <3>1
  <2> QED
    BY <2>1
<1>4. ASSUME NEW m \in P PROVE m + 1 \in P
  <2>1. PICK f : Folds(f, m)
    BY <1>4
  <2> DEFINE u == [s \in D |-> Step(f, s)]
  <2>2. ASSUME NEW s \in D, Cardinality(s) <= m + 1
        PROVE  u[s] = Step(u, s) /\ u[s] \in T
    <3>1. u[s] = Step(f, s)
      OBVIOUS
    <3>2. CASE s = {}
      BY <3>1, <3>2
    <3>3. CASE s # {}
      <4> DEFINE r == s \ {Max(s)}
      <4>1. r \in D /\ Cardinality(r) <= m
        <5>1. r \in D /\ Cardinality(r) = Cardinality(s) - 1
          BY <1>2, <3>3
        <5>2. m \in Nat /\ Cardinality(s) \in Nat
          BY <1>1, <1>4
        <5> HIDE DEF D, r, P
        <5> QED
          BY <2>2, <5>1, <5>2
      <4>2. u[r] = Step(f, r) /\ f[r] = Step(f, r) /\ f[r] \in T
        BY <2>1, <4>1
      <4>3. Max(s) \in 1..n
        BY <1>2, <3>3
      <4> HIDE DEF u, r
      <4>4. g[<<f[r], Max(s)>>] \in T
        BY <4>2, <4>3
      <4>5. Step(f, s) = g[<<f[r], Max(s)>>] /\ Step(u, s) = g[<<u[r], Max(s)>>]
        BY <3>3 DEF r
      <4> HIDE DEF Step
      <4> QED
        BY <3>1, <4>2, <4>4, <4>5
    <3> QED
      BY <3>2, <3>3
  <2> HIDE DEF u, Step
  <2>3. Folds(u, m + 1)
    BY <2>2
  <2> QED
    BY <1>4, <2>3
<1>5. P = Nat
  <2>1. P \in SUBSET Nat
    OBVIOUS
  <2> HIDE DEF P
  <2> QED
    BY <1>3, <1>4, <2>1, NatSets
<1>6. Cardinality(1..n) \in Nat /\ \A s \in D : Cardinality(s) <= Cardinality(1..n)
  BY <1>1, FS_Subset, FS_CardinalityType DEF StartOf
<1>7. PICK f : Folds(f, Cardinality(1..n))
  BY <1>5, <1>6
<1> DEFINE u == [s \in D |-> f[s]]
<1>8. ASSUME NEW s \in D PROVE u[s] = Step(u, s) /\ u[s] \in T
  <2>1. f[s] = Step(f, s) /\ u[s] = f[s] /\ f[s] \in T
    BY <1>6, <1>7
  <2>2. s # {} => u[s \ {Max(s)}] = f[s \ {Max(s)}]
    BY <1>2
  <2> HIDE DEF u
  <2> QED
    BY <2>1, <2>2
<1>9. u = [s \in D |-> u[s]]
  OBVIOUS
<1> HIDE DEF u
<1>10. u = [s \in D |-> Step(u, s)]
  BY <1>8, <1>9
<1> QED
  BY <1>8, <1>10 DEF Tabled

----------------------------------------------------------------------------
(* The words of a line, key by key. *)
Keys == STRING \cup {Blank, Stump}
Text == Seq(Keys)
(* A text is keys, one after the other. *)
LEMMA TextIs ==
  ASSUME NEW s \in Text
  PROVE  Len(s) \in Nat /\ DOMAIN s = 1..Len(s) /\ \A i \in 1..Len(s) : s[i] \in Keys
<1>1. s \in Seq(Keys)
  BY DEF Text
<1> HIDE DEF Keys
<1> QED
  BY <1>1, LenProperties, ElementOfSeq
(* One key more. *)
LEMMA TextGrows ==
  ASSUME NEW s \in Text, NEW k \in Keys
  PROVE  LET r == Append(s, k)
         IN  /\ r \in Text /\ Len(r) = Len(s) + 1 /\ DOMAIN r = 1..(Len(s) + 1) /\ r[Len(s) + 1] = k
             /\ \A i \in 1..Len(s) : r[i] = s[i]
<1> DEFINE r == Append(s, k)
<1>1. s \in Seq(Keys)
  BY DEF Text
<1>2. /\ r \in Text /\ Len(r) = Len(s) + 1 /\ r[Len(s) + 1] = k
      /\ \A i \in 1..Len(s) : r[i] = s[i]
  <2> HIDE DEF Keys
  <2> QED
    BY <1>1, AppendProperties DEF Text
<1> HIDE DEF r
<1>3. DOMAIN r = 1..(Len(s) + 1)
  BY <1>2, TextIs
<1> QED
  BY <1>2, <1>3 DEF r
(* What a text is split into, and the words of a whole text. *)
WordLists == {ws \in Seq(Text) : ws # <<>>}
Splits(s) == FoldLeft(Split, <<<<>>>>, s)

(* A key goes into the last word, or ends it. *)
LEMMA SplitIs ==
  ASSUME NEW ws \in WordLists, NEW k \in Keys
  PROVE  LET n == Len(ws)
             longer == [ws EXCEPT ![n] = Append(@, k)]
         IN  /\ Split(ws, k) \in WordLists
             /\ n \in Nat \ {0} /\ ws[n] \in Text /\ Last(ws) = ws[n]
             /\ longer \in WordLists /\ Len(longer) = n /\ longer[n] = Append(ws[n], k)
             /\ \A i \in 1..(n - 1) : longer[i] = ws[i]
             /\ Append(ws[n], k) \in Text
<1> DEFINE n == Len(ws)
           longer == [ws EXCEPT ![n] = Append(@, k)]
<1>1. n \in Nat \ {0} /\ n \in 1..n /\ ws \in Seq(Text)
  BY EmptySeq DEF WordLists
<1>2. ws[n] \in Text /\ Last(ws) = ws[n]
  BY <1>1, ElementOfSeq DEF Last
<1>3. Append(ws[n], k) \in Text
  BY <1>2, AppendProperties DEF Text
<1>4. longer = [ws EXCEPT ![n] = Append(ws[n], k)]
  OBVIOUS
<1> HIDE DEF longer
<1> DEFINE w == Append(ws[n], k)
<1>5. w \in Text /\ longer = [ws EXCEPT ![n] = w]
  BY <1>3, <1>4
<1> HIDE DEF w, n
<1>6. longer \in Seq(Text) /\ Len(longer) = Len(ws) /\ \A j \in 1..Len(ws) : longer[j] = IF j = n THEN w ELSE ws[j]
  BY <1>1, <1>5, ExceptSeq DEF n
<1>7. longer # <<>>
  BY <1>1, <1>6, EmptySeq DEF n
<1>8. longer \in WordLists /\ Len(longer) = n /\ longer[n] = w /\ \A i \in 1..(n - 1) : longer[i] = ws[i]
  <2>1. \A i \in 1..(n - 1) : i \in 1..n /\ i # n
    BY <1>1
  <2> QED
    BY <1>1, <1>6, <1>7, <2>1 DEF WordLists, n
<1>9. <<>> \in Text
  BY EmptySeq DEF Text
<1>10. Append(longer, <<>>) \in WordLists /\ Append(ws, <<>>) \in WordLists
  BY <1>1, <1>8, <1>9, AppendProperties DEF WordLists
<1>11. Split(ws, k) \in {ws, Append(ws, <<>>), Append(longer, <<>>), longer}
  BY DEF Split, longer, n
<1>12. Split(ws, k) \in WordLists
  BY <1>8, <1>10, <1>11
<1> QED
  BY <1>1, <1>2, <1>3, <1>8, <1>12 DEF n, longer, w

(* The words of a text, key by key. *)
Splitting(a, s) ==
  /\ a[0] = <<<<>>>>
  /\ \A k \in 1..Len(s) : a[k] = Split(a[k - 1], s[k])
  /\ Splits(s) = a[Len(s)]
(* The words of a text are made key by key. *)
LEMMA SplitsKeyByKey ==
  ASSUME NEW s \in Text
  PROVE  \E a : Splitting(a, s)
<1> DEFINE n == Len(s)
           g == [p \in WordLists \X (1..n) |-> Split(p[1], s[p[2]])]
           Step(f, d) == IF d = {} THEN <<<<>>>> ELSE Split(f[d \ {Max(d)}], s[Max(d)])
           P(f) == f = [d \in SUBSET (1..n) |-> Step(f, d)]
<1>1. n \in Nat /\ DOMAIN s = 1..n /\ \A k \in 1..n : s[k] \in Keys
  BY LenProperties, ElementOfSeq DEF Text
<1>2. <<<<>>>> \in WordLists
  <2>1. <<>> \in Text
    BY EmptySeq DEF Text
  <2> QED
    BY <2>1 DEF WordLists
<1>3. ASSUME NEW ws \in WordLists, NEW k \in 1..n PROVE g[<<ws, k>>] = Split(ws, s[k]) /\ g[<<ws, k>>] \in WordLists
  <2>1. g[<<ws, k>>] = Split(ws, s[k])
    OBVIOUS
  <2>2. s[k] \in Keys
    BY <1>1
  <2> HIDE DEF g, n
  <2> QED
    BY <2>1, <2>2, SplitIs
<1>4. PICK h : /\ h = [d \in StartOf(n) |-> IF d = {} THEN <<<<>>>> ELSE g[<<h[d \ {Max(d)}], Max(d)>>]]
               /\ \A d \in StartOf(n) : h[d] \in WordLists
  <2> DEFINE base == <<<<>>>>
  <2>1. base \in WordLists /\ \A ws \in WordLists, k \in 1..n : g[<<ws, k>>] \in WordLists
    BY <1>2, <1>3
  <2> HIDE DEF g, n, base
  <2>2. PICK h : Tabled(h, WordLists, base, n, g)
    BY <1>1, <2>1, FoldTable
  <2>3. /\ h = [d \in StartOf(n) |-> IF d = {} THEN base ELSE g[<<h[d \ {Max(d)}], Max(d)>>]]
        /\ \A d \in StartOf(n) : h[d] \in WordLists
    BY <2>2 DEF Tabled
  <2> QED
    BY <2>3 DEF base
<1>5. P(h)
  <2>1. ASSUME NEW d \in StartOf(n) PROVE h[d] = Step(h, d)
    <3>1. CASE d = {}
      BY <1>4, <3>1
    <3>2. CASE d # {}
      <4>1. Max(d) \in 1..n /\ d \ {Max(d)} \in StartOf(n)
        <5> HIDE DEF n
        <5> QED
          BY <1>1, <3>2, MaxOfSet DEF StartOf
      <4>2. h[d] = g[<<h[d \ {Max(d)}], Max(d)>>]
        <5> HIDE DEF g
        <5> QED
          BY <1>4, <3>2
      <4>3. h[d \ {Max(d)}] \in WordLists
        BY <1>4, <4>1
      <4> HIDE DEF g, n
      <4> QED
        BY <1>3, <3>2, <4>1, <4>2, <4>3
    <3> QED
      BY <3>1, <3>2
  <2>2. h = [d \in StartOf(n) |-> h[d]]
    <3> HIDE DEF g
    <3> QED
      BY <1>4
  <2> HIDE DEF Step
  <2> QED
    BY <2>1, <2>2 DEF StartOf
<1>6. Splits(s) = (CHOOSE f : P(f))[1..n]
  BY <1>1, Zenon DEF Splits, FoldLeft, MapThenFoldSet
<1> DEFINE f == CHOOSE f : P(f)
<1>7. P(f)
  <2> HIDE DEF P
  <2> QED
    BY <1>5
<1>8. \A d \in StartOf(n) : f[d] = Step(f, d)
  <2> HIDE DEF f, Step
  <2> QED
    BY <1>7 DEF StartOf
<1>9. Splits(s) = f[1..n]
  BY <1>6
<1> HIDE DEF f, P
<1> DEFINE a == [k \in 0..n |-> f[1..k]]
<1>10. a[0] = <<<<>>>>
  <2>1. 1..0 = {} /\ 1..0 \in StartOf(n) /\ 0 \in 0..n
    BY <1>1 DEF StartOf
  <2>2. f[1..0] = <<<<>>>>
    BY <1>8, <2>1
  <2> QED
    BY <2>1, <2>2
<1>11. ASSUME NEW k \in 1..n PROVE a[k] = Split(a[k - 1], s[k])
  <2>1. k \in 0..n /\ k - 1 \in 0..n
    BY <1>1
  <2>2. 1..k \in StartOf(n) /\ 1..k # {} /\ Max(1..k) = k /\ (1..k) \ {k} = 1..(k - 1)
    <3> HIDE DEF n
    <3> QED
      BY <1>1, Starts
  <2>3. f[1..k] = Split(f[1..(k - 1)], s[k])
    BY <1>8, <2>2
  <2> QED
    BY <2>1, <2>3
<1>12. Splits(s) = a[n]
  BY <1>1, <1>9
<1> HIDE DEF a
<1> QED
  BY <1>10, <1>11, <1>12 DEF Splitting

(* A key more. *)
LEMMA SplitsEmpty ==
  Splits(<<>>) = <<<<>>>>
<1>1. <<>> \in Text /\ Len(<<>>) = 0
  BY EmptySeq DEF Text
<1>2. PICK a : Splitting(a, <<>>)
  BY <1>1, SplitsKeyByKey
<1> QED
  BY <1>1, <1>2 DEF Splitting

(* One key more, in words. *)
LEMMA SplitsGrow ==
  ASSUME NEW s \in Text, NEW k \in Keys
  PROVE  Append(s, k) \in Text /\ Splits(Append(s, k)) = Split(Splits(s), k)
<1> DEFINE r == Append(s, k)
           n == Len(s)
<1>1. /\ r \in Text /\ n \in Nat /\ Len(r) = n + 1 /\ r[n + 1] = k
      /\ \A i \in 1..n : r[i] = s[i]
  <2>1. s \in Seq(Keys)
    BY DEF Text
  <2> QED
    BY <2>1, AppendProperties, LenProperties DEF Text
<1>2. PICK a : Splitting(a, s)
  BY SplitsKeyByKey
<1>3. PICK b : Splitting(b, r)
  <2> HIDE DEF r
  <2> QED
    BY <1>1, SplitsKeyByKey
<1> HIDE DEF r, n
<1> DEFINE P == {m \in Nat : m <= n => a[m] = b[m]}
<1>4. 0 \in P
  BY <1>2, <1>3 DEF Splitting
<1>5. ASSUME NEW m \in P PROVE m + 1 \in P
  <2>1. CASE m + 1 <= n
    <3>1. m \in Nat /\ m + 1 \in 1..n /\ m + 1 \in 1..(n + 1) /\ m + 1 - 1 = m /\ a[m] = b[m]
      BY <1>1, <1>5, <2>1
    <3>2. a[m + 1] = Split(a[m], s[m + 1]) /\ b[m + 1] = Split(b[m], r[m + 1])
      BY <1>1, <1>2, <1>3, <3>1 DEF Splitting, n
    <3> QED
      BY <1>1, <3>1, <3>2
  <2>2. CASE ~(m + 1 <= n)
    BY <1>5, <2>2
  <2> QED
    BY <2>1, <2>2
<1>6. a[n] = b[n]
  <2>1. P \in SUBSET Nat
    OBVIOUS
  <2>2. P = Nat
    <3> HIDE DEF P
    <3> QED
      BY <1>4, <1>5, <2>1, NatSets
  <2> QED
    BY <1>1, <2>2
<1>7. b[n + 1] = Split(b[n], k)
  <2>1. n + 1 \in 1..Len(r) /\ n + 1 - 1 = n
    BY <1>1
  <2>2. \A j \in 1..Len(r) : b[j] = Split(b[j - 1], r[j])
    BY <1>3 DEF Splitting
  <2> DEFINE j == n + 1
  <2>3. j \in 1..Len(r) /\ j - 1 = n /\ r[j] = k
    BY <1>1, <2>1
  <2> HIDE DEF j
  <2>4. b[j] = Split(b[j - 1], r[j])
    BY <2>2, <2>3
  <2>5. b[j] = Split(b[n], k)
    BY <2>3, <2>4
  <2> QED
    BY <2>5 DEF j
<1> QED
  BY <1>1, <1>2, <1>3, <1>6, <1>7 DEF Splitting, r, n

(* The words of a text are words. *)
LEMMA SplitsAre ==
  ASSUME NEW s \in Text
  PROVE  Splits(s) \in WordLists
<1> DEFINE G == {u \in Text : Splits(u) \in WordLists}
<1>1. <<>> \in G
  <2>1. <<>> \in Text /\ <<<<>>>> # <<>>
    BY EmptySeq DEF Text
  <2>2. <<<<>>>> \in Seq(Text)
    BY <2>1
  <2> QED
    BY <2>1, <2>2, SplitsEmpty DEF WordLists
<1>2. ASSUME NEW u \in G, NEW k \in Keys PROVE Append(u, k) \in G
  <2>1. Append(u, k) \in Text /\ Splits(Append(u, k)) = Split(Splits(u), k)
    BY SplitsGrow
  <2>2. Split(Splits(u), k) \in WordLists
    BY SplitIs
  <2> QED
    BY <2>1, <2>2
<1>3. G \in SUBSET Seq(Keys)
  BY DEF Text
<1> HIDE DEF G
<1>4. G = Seq(Keys)
  BY <1>1, <1>2, <1>3, SeqSets
<1> QED
  BY <1>4 DEF G, Text

(* The word that ends at the cursor. *)
Stops(s) == {i \in DOMAIN s : s[i] \in {Blank, "("}}
CursorWord(s) == SubSeq(s, IF Stops(s) = {} THEN 1 ELSE Max(Stops(s)) + 1, Len(s))
(* The word at the cursor begins behind the last separator. *)
LEMMA CursorIs ==
  ASSUME NEW s \in Text
  PROVE  \E from \in 1..(Len(s) + 1) :
           /\ CursorWord(s) = SubSeq(s, from, Len(s)) /\ CursorWord(s) \in Text
           /\ from = 1 \/ from - 1 \in Stops(s)
           /\ \A i \in from..Len(s) : i \notin Stops(s)
<1> DEFINE S == Stops(s)
           n == Len(s)
           from == IF S = {} THEN 1 ELSE Max(S) + 1
<1>1. n \in Nat /\ DOMAIN s = 1..n /\ S \in SUBSET (1..n) /\ \A i \in 1..n : s[i] \in Keys
  BY LenProperties, ElementOfSeq DEF Text, Stops
<1>2. from \in 1..(n + 1) /\ (from = 1 \/ from - 1 \in S) /\ \A i \in from..n : i \notin S
  <2>1. CASE S = {}
    BY <1>1, <2>1
  <2>2. CASE S # {}
    <3> HIDE DEF S, n
    <3>1. Max(S) \in S /\ \A j \in S : j <= Max(S)
      BY <1>1, <2>2, MaxOfSet
    <3>2. Max(S) \in 1..n /\ from = Max(S) + 1
      BY <1>1, <2>2, <3>1
    <3> HIDE DEF from
    <3> QED
      BY <1>1, <3>1, <3>2
  <2> QED
    BY <2>1, <2>2
<1>3. CursorWord(s) = SubSeq(s, from, n)
  BY DEF CursorWord
<1> HIDE DEF from, n
<1>4. SubSeq(s, from, n) \in Text
  <2>1. \A i \in from..n : s[i] \in Keys
    BY <1>1, <1>2
  <2> QED
    BY <1>1, <1>2, <2>1, SubSeqProperties DEF Text
<1> QED
  BY <1>2, <1>3, <1>4 DEF n

(* The same, the other way: what begins there is the word. *)
LEMMA CursorAt ==
  ASSUME NEW s \in Text, NEW from \in 1..(Len(s) + 1), from = 1 \/ from - 1 \in Stops(s),
         \A i \in from..Len(s) : i \notin Stops(s)
  PROVE  CursorWord(s) = SubSeq(s, from, Len(s))
<1>1. PICK at \in 1..(Len(s) + 1) :
           /\ CursorWord(s) = SubSeq(s, at, Len(s))
           /\ at = 1 \/ at - 1 \in Stops(s)
           /\ \A i \in at..Len(s) : i \notin Stops(s)
  BY CursorIs
<1>2. Len(s) \in Nat
  BY LenProperties DEF Text
<1>3. at = from
  <2>1. ~(at < from)
    <3>1. ASSUME at < from PROVE FALSE
      <4>1. from - 1 \in at..Len(s) /\ from # 1
        BY <1>1, <1>2, <3>1
      <4> QED
        BY <1>1, <4>1
    <3> QED
      BY <3>1
  <2>2. ~(from < at)
    <3>1. ASSUME from < at PROVE FALSE
      <4>1. at - 1 \in from..Len(s) /\ at # 1
        BY <1>1, <1>2, <3>1
      <4> QED
        BY <1>1, <4>1
    <3> QED
      BY <3>1
  <2> QED
    BY <1>1, <1>2, <2>1, <2>2
<1> QED
  BY <1>1, <1>3

(* The end of a text, with one key more. *)
LEMMA SubSeqGrows ==
  ASSUME NEW s \in Text, NEW k \in Keys, NEW m \in 1..(Len(s) + 1)
  PROVE  SubSeq(Append(s, k), m, Len(s) + 1) = Append(SubSeq(s, m, Len(s)), k)
<1> DEFINE n == Len(s)
           r == Append(s, k)
           u == SubSeq(r, m, n + 1)
           v == SubSeq(s, m, n)
<1>1. n \in Nat /\ s \in Seq(Keys) /\ \A i \in 1..n : s[i] \in Keys
  BY LenProperties, ElementOfSeq DEF Text
<1>2. /\ r \in Seq(Keys) /\ Len(r) = n + 1 /\ r[n + 1] = k
      /\ \A i \in 1..n : r[i] = s[i]
  <2>1. r \in Text /\ Len(r) = n + 1 /\ r[n + 1] = k /\ \A i \in 1..n : r[i] = s[i]
    BY TextGrows
  <2> QED
    BY <2>1 DEF Text
<1>3. /\ v \in Seq(Keys) /\ Len(v) = n - m + 1
      /\ \A i \in 1..(n - m + 1) : v[i] = s[m + i - 1]
  <2>1. \A i \in m..n : s[i] \in Keys
    BY <1>1
  <2>2. m \in Int /\ n \in Int
    BY <1>1
  <2> HIDE DEF n, v
  <2>3. /\ v \in Seq(Keys) /\ Len(v) = IF m <= n THEN n - m + 1 ELSE 0
        /\ \A i \in 1..(n - m + 1) : v[i] = s[m + i - 1]
    BY <2>1, <2>2, SubSeqProperties DEF v
  <2> QED
    BY <1>1, <2>3 DEF n
<1> HIDE DEF r, n
<1>4. /\ u \in Seq(Keys) /\ Len(u) = n - m + 2
      /\ \A i \in 1..(n - m + 2) : u[i] = r[m + i - 1]
  <2>1. \A i \in m..(n + 1) : r[i] \in Keys
    <3>1. \A i \in 1..(n + 1) : r[i] \in Keys
      BY <1>2, ElementOfSeq
    <3> QED
      BY <1>1, <3>1
  <2>2. m \in Int /\ n + 1 \in Int /\ m <= n + 1
    BY <1>1 DEF n
  <2> DEFINE j == n + 1
  <2> HIDE DEF u
  <2>3. u = SubSeq(r, m, j) /\ j \in Int /\ \A i \in m..j : r[i] \in Keys
    BY <2>1, <2>2 DEF u
  <2> HIDE DEF j
  <2>4. /\ u \in Seq(Keys) /\ Len(u) = IF m <= j THEN j - m + 1 ELSE 0
        /\ \A i \in 1..(j - m + 1) : u[i] = r[m + i - 1]
    BY <2>2, <2>3, SubSeqProperties
  <2> QED
    BY <1>1, <2>2, <2>4 DEF j, n
<1> HIDE DEF u, v
<1> DEFINE w == Append(v, k)
<1>5. /\ w \in Seq(Keys) /\ Len(w) = n - m + 2 /\ w[n - m + 2] = k
      /\ \A i \in 1..(n - m + 1) : w[i] = v[i]
  <2>1. n - m + 1 \in Nat /\ n - m + 1 + 1 = n - m + 2
    BY <1>1 DEF n
  <2>2. v \in Text
    BY <1>3 DEF Text
  <2>3. w \in Text /\ Len(w) = Len(v) + 1 /\ w[Len(v) + 1] = k /\ \A i \in 1..Len(v) : w[i] = v[i]
    BY <2>2, TextGrows
  <2> HIDE DEF w
  <2> QED
    BY <1>3, <2>1, <2>3 DEF Text
<1> HIDE DEF w
<1>6. ASSUME NEW i \in 1..(n - m + 2) PROVE u[i] = w[i]
  <2>0. n \in Nat /\ m \in 1..(n + 1)
    BY <1>1 DEF n
  <2>1. CASE i = n - m + 2
    <3>1. m + i - 1 = n + 1
      BY <2>0, <2>1
    <3> QED
      BY <1>2, <1>4, <1>5, <2>1, <3>1
  <2>2. CASE i # n - m + 2
    <3>1. i \in 1..(n - m + 1) /\ m + i - 1 \in 1..n
      BY <1>6, <2>0, <2>2
    <3> QED
      BY <1>2, <1>3, <1>4, <1>5, <3>1
  <2> QED
    BY <2>1, <2>2
<1>7. u = w
  BY <1>4, <1>5, <1>6, SeqEqual
<1> QED
  BY <1>7 DEF u, v, w, r, n

(* The last word of a text is the one at the cursor. *)
LEMMA LastIsAtCursor ==
  ASSUME NEW s \in Text
  PROVE  Last(Splits(s)) = CursorWord(s)
<1> DEFINE G == {u \in Text : Last(Splits(u)) = CursorWord(u)}
<1>1. <<>> \in G
  <2>1. <<>> \in Text /\ Len(<<>>) = 0 /\ Stops(<<>>) = {}
    BY EmptySeq DEF Text, Stops
  <2>2. CursorWord(<<>>) = <<>>
    BY <2>1, SubSeqEmpty DEF CursorWord
  <2>3. Last(<<<<>>>>) = <<>>
    BY DEF Last
  <2> QED
    BY <2>1, <2>2, <2>3, SplitsEmpty
<1>2. ASSUME NEW u \in G, NEW k \in Keys PROVE Append(u, k) \in G
  <2> DEFINE ws == Splits(u)
             n == Len(ws)
             longer == [ws EXCEPT ![n] = Append(@, k)]
             r == Append(u, k)
             m == Len(u)
  <2>1. /\ u \in Text /\ r \in Text /\ Splits(r) = Split(ws, k) /\ ws \in WordLists
        /\ Last(ws) = CursorWord(u)
    BY SplitsGrow, SplitsAre
  <2>2. /\ n \in Nat \ {0} /\ ws[n] \in Text /\ Last(ws) = ws[n]
        /\ longer \in WordLists /\ Len(longer) = n /\ longer[n] = Append(ws[n], k)
    BY <2>1, SplitIs
  <2>3. /\ m \in Nat /\ DOMAIN u = 1..m /\ Len(r) = m + 1 /\ DOMAIN r = 1..(m + 1) /\ r[m + 1] = k
        /\ \A i \in 1..m : r[i] = u[i]
    BY TextIs, TextGrows
  <2> HIDE DEF r, m
  <2> SUFFICES Last(Splits(r)) = CursorWord(r)
    BY <2>1 DEF r
  <2>4. CASE k \in {Blank, "("}
    <3>1. CursorWord(r) = <<>>
      <4>1. m + 1 \in Stops(r)
        BY <2>3, <2>4 DEF Stops
      <4> DEFINE f == m + 2
      <4>2. f \in 1..(Len(r) + 1) /\ f - 1 \in Stops(r) /\ \A i \in f..Len(r) : i \notin Stops(r)
        BY <2>3, <4>1
      <4> HIDE DEF f
      <4>3. CursorWord(r) = SubSeq(r, f, Len(r))
        BY <2>1, <4>2, CursorAt
      <4>4. f \in Int /\ Len(r) \in Int /\ Len(r) < f
        BY <2>3 DEF f
      <4> QED
        BY <4>3, <4>4, SubSeqEmpty
    <3>2. Last(Split(ws, k)) = <<>>
      <4>1. (Split(ws, k) = ws /\ Last(ws) = <<>>) \/ Split(ws, k) \in {Append(ws, <<>>), Append(longer, <<>>)}
        BY <2>4 DEF Split
      <4>2. <<>> \in Text /\ ws \in Seq(Text) /\ longer \in Seq(Text)
        BY <2>1, <2>2, EmptySeq DEF Text, WordLists
      <4> HIDE DEF longer, ws
      <4>3. Last(Append(ws, <<>>)) = <<>> /\ Last(Append(longer, <<>>)) = <<>>
        BY <4>2, AppendProperties DEF Last
      <4> QED
        BY <4>1, <4>3
    <3> QED
      BY <2>1, <3>1, <3>2
  <2>5. CASE k \notin {Blank, "("}
    <3>1. Split(ws, k) = longer
      BY <2>5 DEF Split
    <3>2. PICK f \in 1..(m + 1) :
             /\ CursorWord(u) = SubSeq(u, f, m)
             /\ f = 1 \/ f - 1 \in Stops(u)
             /\ \A i \in f..m : i \notin Stops(u)
      BY <2>1, CursorIs DEF m
    <3>3. Stops(r) = Stops(u)
      <4>1. \A i \in 1..(m + 1) : i \in 1..m \/ i = m + 1
        BY <2>3
      <4>2. \A i \in 1..m : i \in 1..(m + 1)
        BY <2>3
      <4> QED
        BY <2>3, <2>5, <4>1, <4>2 DEF Stops
    <3>4. \A i \in f..(m + 1) : i \notin Stops(r)
      <4>1. \A i \in f..(m + 1) : i \in f..m \/ i = m + 1
        BY <2>3
      <4>2. m + 1 \notin Stops(r)
        BY <2>3, <2>5 DEF Stops
      <4> QED
        BY <3>2, <3>3, <4>1, <4>2
    <3>5. f \in 1..(m + 1 + 1)
      BY <2>3
    <3>6. CursorWord(r) = SubSeq(r, f, m + 1)
      BY <2>1, <2>3, <3>2, <3>3, <3>4, <3>5, CursorAt
    <3>7. SubSeq(r, f, m + 1) = Append(SubSeq(u, f, m), k)
      BY <2>1, SubSeqGrows DEF r, m
    <3>8. Last(longer) = Append(ws[n], k)
      <4> HIDE DEF longer, ws
      <4> QED
        BY <2>2 DEF Last
    <3> QED
      BY <2>1, <2>2, <3>1, <3>2, <3>6, <3>7, <3>8
  <2> QED
    BY <2>4, <2>5
<1>3. G \in SUBSET Seq(Keys)
  BY DEF Text
<1> HIDE DEF G
<1>4. G = Seq(Keys)
  BY <1>1, <1>2, <1>3, SeqSets
<1> QED
  BY <1>4 DEF G, Text

(* The words of a text, those before the last staying as they are. *)
LEMMA SplitKeeps ==
  ASSUME NEW ws \in WordLists, NEW k \in Keys
  PROVE  LET r == Split(ws, k)
         IN  Len(r) \in Nat /\ Len(ws) \in Nat /\ Len(ws) <= Len(r) /\ \A i \in 1..(Len(ws) - 1) : r[i] = ws[i]
<1> DEFINE n == Len(ws)
           longer == [ws EXCEPT ![n] = Append(@, k)]
           r == Split(ws, k)
<1>1. /\ n \in Nat \ {0} /\ longer \in WordLists /\ Len(longer) = n
      /\ \A i \in 1..(n - 1) : longer[i] = ws[i]
  BY SplitIs
<1>2. <<>> \in Text
  BY EmptySeq DEF Text
<1>3. r \in {ws, Append(ws, <<>>), Append(longer, <<>>), longer}
  BY DEF Split
<1> HIDE DEF longer, r
<1>4. /\ Len(Append(ws, <<>>)) = n + 1 /\ \A i \in 1..n : Append(ws, <<>>)[i] = ws[i]
      /\ Len(Append(longer, <<>>)) = n + 1 /\ \A i \in 1..n : Append(longer, <<>>)[i] = longer[i]
  BY <1>1, <1>2, AppendProperties DEF WordLists
<1> HIDE DEF n
<1>5. \A i \in 1..(n - 1) : i \in 1..n
  BY <1>1
<1>6. Len(r) \in {n, n + 1} /\ \A i \in 1..(n - 1) : r[i] = ws[i]
  <2>1. Len(ws) = n /\ Len(longer) = n
    BY <1>1 DEF n
  <2> QED
    BY <1>1, <1>3, <1>4, <1>5, <2>1
<1>7. Len(r) \in Nat /\ n <= Len(r)
  BY <1>1, <1>6
<1> QED
  BY <1>1, <1>6, <1>7 DEF n, r

(* Two texts, one behind the other. *)
LEMMA TextJoins ==
  ASSUME NEW s \in Text, NEW t \in Text
  PROVE  /\ s \o t \in Text /\ Len(s \o t) = Len(s) + Len(t) /\ Len(s) \in Nat /\ Len(t) \in Nat
         /\ \A i \in 1..(Len(s) + Len(t)) : (s \o t)[i] = IF i <= Len(s) THEN s[i] ELSE t[i - Len(s)]
<1>1. s \in Seq(Keys) /\ t \in Seq(Keys)
  BY DEF Text
<1> HIDE DEF Keys
<1> QED
  BY <1>1, ConcatProperties, LenProperties DEF Text

(* The items of a slice. *)
LEMMA SliceIs ==
  ASSUME NEW S, NEW s \in Seq(S), NEW a \in 1..(Len(s) + 1), NEW b \in 0..Len(s), a <= b + 1
  PROVE  LET u == SubSeq(s, a, b)
         IN  /\ u \in Seq(S) /\ Len(u) = b - a + 1 /\ DOMAIN u = 1..(b - a + 1)
             /\ \A i \in 1..(b - a + 1) : u[i] = s[a + i - 1]
<1> DEFINE u == SubSeq(s, a, b)
<1>1. Len(s) \in Nat /\ DOMAIN s = 1..Len(s) /\ \A i \in 1..Len(s) : s[i] \in S
  BY LenProperties, ElementOfSeq
<1>2. u = [i \in 1..(b - a + 1) |-> s[a + i - 1]]
  BY <1>1
<1>3. \A i \in 1..(b - a + 1) : a + i - 1 \in 1..Len(s)
  BY <1>1
<1> DEFINE n == b - a + 1
<1>4. n \in Nat
  BY <1>1
<1> HIDE DEF u, n
<1>5. u = [i \in 1..n |-> s[a + i - 1]] /\ \A i \in 1..n : s[a + i - 1] \in S
  BY <1>1, <1>2, <1>3 DEF n
<1>6. u \in Seq(S) /\ Len(u) = n /\ DOMAIN u = 1..n
  BY <1>4, <1>5
<1>7. \A i \in 1..n : u[i] = s[a + i - 1]
  BY <1>5
<1> QED
  BY <1>6, <1>7 DEF u, n

----------------------------------------------------------------------------
(* What a text has beyond its keys: characters, and bytes. *)
More(w, k) == IF k \in DOMAIN w THEN w[k] ELSE 0
Weights(w) == \A k \in DOMAIN w : w[k] \in Nat
Weighing(a, w, s) ==
  /\ a[0] = 0
  /\ \A k \in 1..Len(s) : a[k] = a[k - 1] + More(w, s[k])
  /\ \A k \in 0..Len(s) : a[k] \in Nat
  /\ Beyond(w, s) = a[Len(s)]
(* It is added up key by key. *)
LEMMA BeyondKeyByKey ==
  ASSUME NEW w, Weights(w), NEW s \in Text
  PROVE  \E a : Weighing(a, w, s)
<1> DEFINE n == Len(s)
           g == [p \in Nat \X (1..n) |-> p[1] + More(w, s[p[2]])]
           Step(f, d) == IF d = {} THEN 0 ELSE f[d \ {Max(d)}] + More(w, s[Max(d)])
           P(f) == f = [d \in SUBSET (1..n) |-> Step(f, d)]
<1>1. n \in Nat /\ DOMAIN s = 1..n /\ \A k \in Keys : More(w, k) \in Nat
  BY TextIs DEF More, Weights
<1>2. \A k \in 1..n : s[k] \in Keys
  BY TextIs
<1>3. ASSUME NEW x \in Nat, NEW k \in 1..n PROVE g[<<x, k>>] = x + More(w, s[k]) /\ g[<<x, k>>] \in Nat
  <2>1. g[<<x, k>>] = x + More(w, s[k])
    OBVIOUS
  <2>2. More(w, s[k]) \in Nat
    BY <1>1, <1>2
  <2> HIDE DEF g, n
  <2> QED
    BY <2>1, <2>2
<1>4. PICK h : /\ h = [d \in StartOf(n) |-> IF d = {} THEN 0 ELSE g[<<h[d \ {Max(d)}], Max(d)>>]]
               /\ \A d \in StartOf(n) : h[d] \in Nat
  <2>1. 0 \in Nat /\ \A x \in Nat, k \in 1..n : g[<<x, k>>] \in Nat
    BY <1>3
  <2> HIDE DEF g, n
  <2>2. PICK h : Tabled(h, Nat, 0, n, g)
    BY <1>1, <2>1, FoldTable
  <2> QED
    BY <2>2 DEF Tabled
<1>5. P(h)
  <2>1. ASSUME NEW d \in StartOf(n) PROVE h[d] = Step(h, d)
    <3>1. CASE d = {}
      BY <1>4, <3>1
    <3>2. CASE d # {}
      <4>1. Max(d) \in 1..n /\ d \ {Max(d)} \in StartOf(n)
        <5> HIDE DEF n
        <5> QED
          BY <1>1, <3>2, MaxOfSet DEF StartOf
      <4>2. h[d] = g[<<h[d \ {Max(d)}], Max(d)>>]
        <5> HIDE DEF g
        <5> QED
          BY <1>4, <3>2
      <4>3. h[d \ {Max(d)}] \in Nat
        BY <1>4, <4>1
      <4> HIDE DEF g, n
      <4> QED
        BY <1>3, <3>2, <4>1, <4>2, <4>3
    <3> QED
      BY <3>1, <3>2
  <2>2. h = [d \in StartOf(n) |-> h[d]]
    <3> HIDE DEF g
    <3> QED
      BY <1>4
  <2> HIDE DEF Step
  <2> QED
    BY <2>1, <2>2 DEF StartOf
<1>6. Beyond(w, s) = (CHOOSE f : P(f))[1..n]
  BY <1>1, Zenon DEF Beyond, FoldLeft, MapThenFoldSet, More
<1> DEFINE f == CHOOSE f : P(f)
<1>7. P(f)
  <2> HIDE DEF P
  <2> QED
    BY <1>5
<1>8. \A d \in StartOf(n) : f[d] = Step(f, d)
  <2> HIDE DEF f, Step
  <2> QED
    BY <1>7 DEF StartOf
<1>9. Beyond(w, s) = f[1..n]
  BY <1>6
<1> HIDE DEF f, P
<1> DEFINE a == [k \in 0..n |-> f[1..k]]
<1>10. a[0] = 0
  <2>1. 1..0 = {} /\ 1..0 \in StartOf(n) /\ 0 \in 0..n
    BY <1>1 DEF StartOf
  <2>2. f[1..0] = 0
    BY <1>8, <2>1
  <2> QED
    BY <2>1, <2>2
<1>11. ASSUME NEW k \in 1..n PROVE a[k] = a[k - 1] + More(w, s[k])
  <2>1. k \in 0..n /\ k - 1 \in 0..n
    BY <1>1
  <2>2. 1..k \in StartOf(n) /\ 1..k # {} /\ Max(1..k) = k /\ (1..k) \ {k} = 1..(k - 1)
    <3> HIDE DEF n
    <3> QED
      BY <1>1, Starts
  <2>3. f[1..k] = f[1..(k - 1)] + More(w, s[k])
    BY <1>8, <2>2
  <2> QED
    BY <2>1, <2>3
<1>12. Beyond(w, s) = a[n]
  BY <1>1, <1>9
<1> HIDE DEF a
<1> DEFINE G == {k \in Nat : k <= n => a[k] \in Nat}
<1>13. 0 \in G
  BY <1>10
<1>14. ASSUME NEW k \in G PROVE k + 1 \in G
  <2> HIDE DEF n
  <2>1. CASE k + 1 <= n
    <3> DEFINE j == k + 1
    <3>1. k \in Nat /\ j \in 1..n /\ j - 1 = k /\ a[k] \in Nat
      BY <1>1, <1>14, <2>1
    <3> HIDE DEF j
    <3>2. a[j] = a[k] + More(w, s[j]) /\ More(w, s[j]) \in Nat
      BY <1>1, <1>2, <1>11, <3>1
    <3> QED
      BY <3>1, <3>2 DEF j
  <2>2. CASE ~(k + 1 <= n)
    BY <1>14, <2>2
  <2> QED
    BY <2>1, <2>2
<1>15. G = Nat
  <2>1. G \in SUBSET Nat
    OBVIOUS
  <2> HIDE DEF G
  <2> QED
    BY <1>13, <1>14, <2>1, NatSets
<1>16. \A k \in 0..n : a[k] \in Nat
  <2> HIDE DEF n
  <2> QED
    BY <1>1, <1>15
<1> QED
  BY <1>10, <1>11, <1>12, <1>16 DEF Weighing

(* One key more. *)
LEMMA BeyondIs ==
  ASSUME NEW w, Weights(w)
  PROVE  /\ Beyond(w, <<>>) = 0
         /\ \A s \in Text : Beyond(w, s) \in Nat
         /\ \A s \in Text, k \in Keys : Beyond(w, Append(s, k)) = Beyond(w, s) + More(w, k) /\ More(w, k) \in Nat
<1>1. Beyond(w, <<>>) = 0
  <2>1. <<>> \in Text /\ Len(<<>>) = 0
    BY EmptySeq DEF Text
  <2>2. PICK a : Weighing(a, w, <<>>)
    BY <2>1, BeyondKeyByKey
  <2> QED
    BY <2>1, <2>2 DEF Weighing
<1>2. ASSUME NEW s \in Text PROVE Beyond(w, s) \in Nat
  <2>1. PICK a : Weighing(a, w, s)
    BY BeyondKeyByKey
  <2>2. Len(s) \in 0..Len(s)
    BY TextIs
  <2> QED
    BY <2>1, <2>2 DEF Weighing
<1>3. ASSUME NEW s \in Text, NEW k \in Keys
      PROVE  Beyond(w, Append(s, k)) = Beyond(w, s) + More(w, k) /\ More(w, k) \in Nat
  <2> DEFINE r == Append(s, k)
             n == Len(s)
  <2>1. r \in Text /\ n \in Nat /\ Len(r) = n + 1 /\ r[n + 1] = k /\ \A i \in 1..n : r[i] = s[i]
    BY TextGrows, TextIs
  <2> HIDE DEF r
  <2>2. PICK a : Weighing(a, w, s)
    BY BeyondKeyByKey
  <2>3. PICK b : Weighing(b, w, r)
    BY <2>1, BeyondKeyByKey
  <2> HIDE DEF n
  <2> DEFINE P == {m \in Nat : m <= n => a[m] = b[m]}
  <2>4. 0 \in P
    BY <2>2, <2>3 DEF Weighing
  <2>5. ASSUME NEW m \in P PROVE m + 1 \in P
    <3>1. CASE m + 1 <= n
      <4> DEFINE j == m + 1
      <4>1. m \in Nat /\ j \in 1..n /\ j \in 1..(n + 1) /\ j - 1 = m /\ a[m] = b[m]
        BY <2>1, <2>5, <3>1
      <4> HIDE DEF j
      <4>2. a[j] = a[j - 1] + More(w, s[j]) /\ b[j] = b[j - 1] + More(w, r[j])
        BY <2>1, <2>2, <2>3, <4>1 DEF Weighing, n
      <4>3. a[j] = b[j]
        BY <2>1, <4>1, <4>2
      <4> QED
        BY <4>1, <4>3 DEF j
    <3>2. CASE ~(m + 1 <= n)
      BY <2>5, <3>2
    <3> QED
      BY <3>1, <3>2
  <2>6. a[n] = b[n]
    <3>1. P \in SUBSET Nat
      OBVIOUS
    <3>2. P = Nat
      <4> HIDE DEF P
      <4> QED
        BY <2>4, <2>5, <3>1, NatSets
    <3> QED
      BY <2>1, <3>2
  <2> DEFINE j == n + 1
  <2>7. j \in 1..Len(r) /\ j - 1 = n /\ r[j] = k /\ j = Len(r)
    BY <2>1
  <2> HIDE DEF j
  <2>8. Beyond(w, r) = b[n] + More(w, k) /\ Beyond(w, s) = a[n]
    BY <2>2, <2>3, <2>7 DEF Weighing, n
  <2>9. More(w, k) \in Nat
    BY DEF More, Weights
  <2> QED
    BY <2>6, <2>8, <2>9 DEF r
<1> QED
  BY <1>1, <1>2, <1>3

(* What two texts have, one behind the other. *)
LEMMA BeyondJoins ==
  ASSUME NEW w, Weights(w), NEW s \in Text, NEW t \in Text
  PROVE  Beyond(w, s \o t) = Beyond(w, s) + Beyond(w, t)
<1> DEFINE G == {u \in Text : Beyond(w, s \o u) = Beyond(w, s) + Beyond(w, u)}
<1>1. <<>> \in G
  <2>1. <<>> \in Text /\ s \in Seq(Keys)
    BY EmptySeq DEF Text
  <2>2. s \o <<>> = s
    <3> HIDE DEF Keys
    <3> QED
      BY <2>1, ConcatEmptySeq
  <2>3. Beyond(w, <<>>) = 0 /\ Beyond(w, s) \in Nat
    BY BeyondIs
  <2> QED
    BY <2>1, <2>2, <2>3
<1>2. ASSUME NEW u \in G, NEW k \in Keys PROVE Append(u, k) \in G
  <2>1. u \in Text /\ Append(u, k) \in Text /\ s \o u \in Text
    BY TextGrows, TextJoins
  <2>2. s \o Append(u, k) = Append(s \o u, k)
    <3>1. s \in Seq(Keys) /\ u \in Seq(Keys)
      BY <2>1 DEF Text
    <3> HIDE DEF Keys
    <3> QED
      BY <3>1
  <2>3. /\ Beyond(w, Append(s \o u, k)) = Beyond(w, s \o u) + More(w, k)
        /\ Beyond(w, Append(u, k)) = Beyond(w, u) + More(w, k)
        /\ Beyond(w, s \o u) = Beyond(w, s) + Beyond(w, u)
        /\ Beyond(w, s) \in Nat /\ Beyond(w, u) \in Nat /\ More(w, k) \in Nat
    BY <2>1, BeyondIs
  <2> DEFINE r == Append(u, k)
             q == Append(s \o u, k)
  <2>4. r \in Text /\ s \o r = q /\ Beyond(w, q) = Beyond(w, s) + Beyond(w, r)
    <3> HIDE DEF G
    <3> QED
      BY <2>1, <2>2, <2>3
  <2> HIDE DEF r, q
  <2>5. r \in G
    BY <2>4
  <2> QED
    BY <2>5 DEF r
<1>3. G \in SUBSET Seq(Keys)
  BY DEF Text
<1> HIDE DEF G
<1>4. G = Seq(Keys)
  BY <1>1, <1>2, <1>3, SeqSets
<1> QED
  BY <1>4 DEF G, Text

(* A text of plain keys has nothing beyond them. *)
LEMMA BeyondNone ==
  ASSUME NEW w, Weights(w), NEW t \in Text, \A i \in 1..Len(t) : t[i] \notin DOMAIN w
  PROVE  Beyond(w, t) = 0
<1> DEFINE G == {u \in Text : (\A i \in 1..Len(u) : u[i] \notin DOMAIN w) => Beyond(w, u) = 0}
<1>1. <<>> \in G
  <2>1. <<>> \in Text
    BY EmptySeq DEF Text
  <2> QED
    BY <2>1, BeyondIs
<1>2. ASSUME NEW u \in G, NEW k \in Keys PROVE Append(u, k) \in G
  <2> DEFINE r == Append(u, k)
  <2>1. /\ u \in Text /\ r \in Text /\ Len(u) \in Nat /\ Len(r) = Len(u) + 1 /\ r[Len(u) + 1] = k
        /\ \A i \in 1..Len(u) : r[i] = u[i]
    BY TextGrows, TextIs
  <2>2. Beyond(w, r) = Beyond(w, u) + More(w, k)
    BY <2>1, BeyondIs
  <2> HIDE DEF r
  <2>3. ASSUME \A i \in 1..Len(r) : r[i] \notin DOMAIN w PROVE Beyond(w, r) = 0
    <3>1. Len(u) + 1 \in 1..Len(r) /\ \A i \in 1..Len(u) : i \in 1..Len(r)
      BY <2>1
    <3>2. More(w, k) = 0 /\ \A i \in 1..Len(u) : u[i] \notin DOMAIN w
      BY <2>1, <2>3, <3>1 DEF More
    <3>3. Beyond(w, u) = 0
      BY <3>2
    <3> QED
      BY <2>2, <3>2, <3>3
  <2>4. r \in G
    BY <2>1, <2>3
  <2> QED
    BY <2>4 DEF r
<1>3. G \in SUBSET Seq(Keys)
  BY DEF Text
<1> HIDE DEF G
<1>4. G = Seq(Keys)
  BY <1>1, <1>2, <1>3, SeqSets
<1> QED
  BY <1>4 DEF G, Text

(* The weights of the keys, and what follows for the length of a text. *)
LEMMA WeightsAre == Weights(Letters) /\ Weights(Wide)
BY KeyAssumption DEF Weights
(* Characters and bytes of a text, and of two texts. *)
LEMMA CharsIs ==
  /\ \A s \in Text : /\ Chars(s) \in Nat /\ Bytes(s) \in Nat /\ Chars(s) >= Len(s) /\ Bytes(s) >= Chars(s)
                     /\ ~HasWide(s) => Bytes(s) = Chars(s)
  /\ \A s, t \in Text : Chars(s \o t) = Chars(s) + Chars(t) /\ Bytes(s \o t) = Bytes(s) + Bytes(t)
  /\ Chars(<<>>) = 0 /\ Bytes(<<>>) = 0
<1>1. ASSUME NEW s \in Text
      PROVE  /\ Chars(s) \in Nat /\ Bytes(s) \in Nat /\ Chars(s) >= Len(s) /\ Bytes(s) >= Chars(s)
             /\ ~HasWide(s) => Bytes(s) = Chars(s)
             /\ Len(s) \in Nat /\ Beyond(Letters, s) \in Nat /\ Beyond(Wide, s) \in Nat
  <2>1. Len(s) \in Nat /\ Beyond(Letters, s) \in Nat /\ Beyond(Wide, s) \in Nat
    BY WeightsAre, BeyondIs, TextIs
  <2>2. ~HasWide(s) => Beyond(Wide, s) = 0
    <3>1. DOMAIN s = 1..Len(s)
      BY TextIs
    <3> QED
      BY <3>1, WeightsAre, BeyondNone DEF HasWide
  <2> QED
    BY <2>1, <2>2 DEF Chars, Bytes
<1>2. ASSUME NEW s \in Text, NEW t \in Text
      PROVE  Chars(s \o t) = Chars(s) + Chars(t) /\ Bytes(s \o t) = Bytes(s) + Bytes(t)
  <2>1. /\ Beyond(Letters, s \o t) = Beyond(Letters, s) + Beyond(Letters, t)
        /\ Beyond(Wide, s \o t) = Beyond(Wide, s) + Beyond(Wide, t)
    BY WeightsAre, BeyondJoins
  <2>2. Len(s \o t) = Len(s) + Len(t)
    BY TextJoins
  <2> DEFINE r == s \o t
  <2>3. /\ Len(s) \in Nat /\ Beyond(Letters, s) \in Nat /\ Beyond(Wide, s) \in Nat
        /\ Len(t) \in Nat /\ Beyond(Letters, t) \in Nat /\ Beyond(Wide, t) \in Nat
    BY <1>1
  <2>4. /\ Beyond(Letters, r) = Beyond(Letters, s) + Beyond(Letters, t)
        /\ Beyond(Wide, r) = Beyond(Wide, s) + Beyond(Wide, t) /\ Len(r) = Len(s) + Len(t)
    BY <2>1, <2>2
  <2> HIDE DEF r
  <2>5. Chars(r) = Chars(s) + Chars(t) /\ Bytes(r) = Bytes(s) + Bytes(t)
    BY <2>3, <2>4 DEF Chars, Bytes
  <2> QED
    BY <2>5 DEF r
<1>3. Chars(<<>>) = 0 /\ Bytes(<<>>) = 0
  <2>1. Beyond(Letters, <<>>) = 0 /\ Beyond(Wide, <<>>) = 0
    BY WeightsAre, BeyondIs
  <2>2. Len(<<>>) = 0
    OBVIOUS
  <2> QED
    BY <2>1, <2>2 DEF Chars, Bytes
<1> QED
  BY <1>1, <1>2, <1>3

(* One key more has a character, or more. *)
LEMMA CharsGrow ==
  ASSUME NEW s \in Text, NEW k \in Keys
  PROVE  /\ Chars(Append(s, k)) = Chars(s) + 1 + More(Letters, k) /\ More(Letters, k) \in Nat
         /\ k \in {Blank, "("} => More(Letters, k) = 0
<1>1. Beyond(Letters, Append(s, k)) = Beyond(Letters, s) + More(Letters, k) /\ More(Letters, k) \in Nat
      /\ Beyond(Letters, s) \in Nat
  BY WeightsAre, BeyondIs
<1>2. Len(Append(s, k)) = Len(s) + 1 /\ Len(s) \in Nat
  BY TextGrows, TextIs
<1>3. k \in {Blank, "("} => k \notin DOMAIN Letters
  BY KeyAssumption
<1> QED
  BY <1>1, <1>2, <1>3 DEF Chars, More

(* A text in two parts. *)
LEMMA PartsOfText ==
  ASSUME NEW s \in Text, NEW m \in 0..Len(s)
  PROVE  /\ SubSeq(s, 1, m) \in Text /\ Len(SubSeq(s, 1, m)) = m
         /\ SubSeq(s, m + 1, Len(s)) \in Text /\ Len(SubSeq(s, m + 1, Len(s))) = Len(s) - m
         /\ s = SubSeq(s, 1, m) \o SubSeq(s, m + 1, Len(s))
<1> DEFINE n == Len(s)
           u == SubSeq(s, 1, m)
           v == SubSeq(s, m + 1, n)
<1>1. n \in Nat /\ s \in Seq(Keys)
  BY TextIs DEF Text
<1> HIDE DEF Keys
<1>2. /\ 1 \in 1..(n + 1) /\ m \in 0..n /\ 1 <= m + 1 /\ m - 1 + 1 = m
      /\ m + 1 \in 1..(n + 1) /\ n \in 0..n /\ m + 1 <= n + 1 /\ n - (m + 1) + 1 = n - m
  BY <1>1
<1>3. u \in Text /\ Len(u) = m /\ \A i \in 1..m : u[i] = s[1 + i - 1]
  BY <1>1, <1>2, SliceIs DEF Text
<1>4. v \in Text /\ Len(v) = n - m /\ \A i \in 1..(n - m) : v[i] = s[m + 1 + i - 1]
  <2> DEFINE a == m + 1
  <2>1. a \in 1..(n + 1) /\ n \in 0..n /\ a <= n + 1 /\ n - a + 1 = n - m /\ n = Len(s)
    BY <1>2
  <2> HIDE DEF a, n
  <2>2. /\ SubSeq(s, a, n) \in Seq(Keys) /\ Len(SubSeq(s, a, n)) = n - a + 1
        /\ \A i \in 1..(n - a + 1) : SubSeq(s, a, n)[i] = s[a + i - 1]
    BY <1>1, <2>1, SliceIs
  <2> QED
    BY <2>1, <2>2 DEF a, Text
<1> HIDE DEF u, v, n
<1>5. /\ u \o v \in Text /\ Len(u \o v) = m + (n - m)
      /\ \A i \in 1..(m + (n - m)) : (u \o v)[i] = IF i <= m THEN u[i] ELSE v[i - m]
  BY <1>3, <1>4, TextJoins
<1>6. m + (n - m) = n
  BY <1>1, <1>2
<1>7. ASSUME NEW i \in 1..n PROVE (u \o v)[i] = s[i]
  <2>1. CASE i <= m
    <3>1. i \in 1..m /\ 1 + i - 1 = i
      BY <1>1, <1>2, <2>1
    <3> QED
      BY <1>3, <1>5, <1>6, <2>1, <3>1
  <2>2. CASE ~(i <= m)
    <3>1. i - m \in 1..(n - m) /\ m + 1 + (i - m) - 1 = i
      BY <1>1, <1>2, <2>2
    <3> QED
      BY <1>4, <1>5, <1>6, <2>2, <3>1
  <2> QED
    BY <2>1, <2>2
<1>8. u \o v = s
  BY <1>1, <1>5, <1>6, <1>7, SeqEqual DEF n, Text
<1> QED
  BY <1>3, <1>4, <1>8 DEF u, v, n

(* A longer start of a text has more characters. *)
LEMMA StartChars ==
  ASSUME NEW s \in Text, NEW j \in 0..Len(s), NEW i \in 0..Len(s), i < j
  PROVE  Chars(SubSeq(s, 1, i)) < Chars(SubSeq(s, 1, j))
<1> DEFINE u == SubSeq(s, 1, j)
           v == SubSeq(u, i + 1, j)
<1>1. u \in Text /\ Len(u) = j /\ Len(s) \in Nat
  BY PartsOfText, TextIs
<1>2. SubSeq(u, 1, i) = SubSeq(s, 1, i)
  <2>1. 1 \in 1..(Len(s) + 1) /\ j \in 0..Len(s) /\ 1 <= j + 1 /\ j - 1 + 1 = j /\ i - 1 + 1 = i /\ 1 <= i + 1
        /\ 1 \in 1..(j + 1) /\ i \in 0..j /\ i \in 0..Len(s)
    BY <1>1
  <2>2. s \in Seq(Keys) /\ u \in Seq(Keys)
    BY <1>1 DEF Text
  <2> HIDE DEF Keys
  <2>3. \A k \in 1..j : u[k] = s[1 + k - 1]
    BY <2>1, <2>2, SliceIs
  <2> DEFINE x == SubSeq(u, 1, i)
             y == SubSeq(s, 1, i)
  <2>4. y \in Seq(Keys) /\ Len(y) = i /\ \A k \in 1..i : y[k] = s[1 + k - 1]
    BY <2>1, <2>2, SliceIs
  <2> HIDE DEF u
  <2>5. x \in Seq(Keys) /\ Len(x) = i /\ \A k \in 1..i : x[k] = u[1 + k - 1]
    BY <1>1, <2>1, <2>2, SliceIs
  <2> HIDE DEF x, y
  <2>6. \A k \in 1..i : k \in 1..j /\ 1 + k - 1 = k
    BY <2>1
  <2>7. \A k \in 1..i : x[k] = y[k]
    BY <2>3, <2>4, <2>5, <2>6
  <2>8. x = y
    BY <2>4, <2>5, <2>7, SeqEqual
  <2> QED
    BY <2>8 DEF x, y
<1> HIDE DEF u
<1>3. i \in 0..Len(u) /\ Len(u) - i \in Nat /\ Len(u) - i > 0
  BY <1>1
<1> DEFINE x == SubSeq(u, 1, i)
<1>4. x \in Text /\ v \in Text /\ Len(v) = Len(u) - i /\ u = x \o v
  BY <1>1, <1>3, PartsOfText
<1>5. x = SubSeq(s, 1, i)
  BY <1>2
<1> HIDE DEF v, x
<1>6. Chars(u) = Chars(x) + Chars(v) /\ Chars(x) \in Nat /\ Chars(v) \in Nat /\ Chars(v) >= Len(v)
  BY <1>4, CharsIs
<1>7. Chars(x) < Chars(u)
  BY <1>3, <1>4, <1>6
<1> QED
  BY <1>5, <1>7 DEF u

(* The largest of a set of places. *)
LEMMA LastPlace ==
  ASSUME NEW n \in Nat, NEW S \in SUBSET (0..n), S # {}
  PROVE  Max(S) \in S /\ \A j \in S : j <= Max(S)
<1> DEFINE R == {n - j : j \in S}
<1>1. R \in SUBSET Nat /\ R # {}
  <2>1. \A j \in S : j \in Int /\ n - j \in Nat
    OBVIOUS
  <2> QED
    BY <2>1
<1>2. Min(R) \in R /\ \A x \in R : Min(R) <= x
  <2> HIDE DEF R
  <2> QED
    BY <1>1, MinOfSet
<1>3. PICK m \in S : Min(R) = n - m
  BY <1>2
<1>4. ASSUME NEW j \in S PROVE j <= m
  <2>1. n - j \in R
    OBVIOUS
  <2>2. n - m <= n - j
    BY <1>2, <1>3, <2>1
  <2> QED
    BY <2>2
<1> QED
  BY <1>3, <1>4 DEF Max

(* A slice of the characters ends and begins somewhere. *)
LEMMA CutIs ==
  ASSUME NEW s \in Text, NEW n \in Nat
  PROVE  /\ KeysIn(s, n) \in 0..Len(s) /\ Behind(s, n) \in Text /\ Before(s, n) \in Text
         /\ \E m \in 0..Len(s) : Before(s, n) \in {SubSeq(s, 1, m), Append(SubSeq(s, 1, m), Stump)}
         /\ \A m \in 0..Len(s) : n = Chars(SubSeq(s, 1, m)) =>
              Before(s, n) = SubSeq(s, 1, m) /\ Behind(s, n) = SubSeq(s, m + 1, Len(s))
<1> DEFINE P == {i \in 0..Len(s) : Chars(SubSeq(s, 1, i)) <= n}
           k == KeysIn(s, n)
<1>1. Len(s) \in Nat /\ k = Max(P) /\ s \in Seq(Keys)
  BY TextIs DEF KeysIn, Text
<1>2. 0 \in P
  <2> DEFINE e == SubSeq(s, 1, 0)
  <2>1. e = <<>>
    BY SubSeqEmpty
  <2> HIDE DEF e
  <2>2. Chars(e) = 0
    BY <2>1, CharsIs
  <2> QED
    BY <1>1, <2>2 DEF e
<1>3. k \in P /\ \A i \in P : i <= k
  <2>1. P \in SUBSET (0..Len(s)) /\ P # {}
    BY <1>2
  <2> HIDE DEF P
  <2> QED
    BY <1>1, <2>1, LastPlace
<1> HIDE DEF k
<1>4. k \in 0..Len(s)
  BY <1>3
<1> DEFINE u == SubSeq(s, 1, k)
           v == SubSeq(s, k + 2, Len(s))
           t == <<Stump>>
<1>5. u \in Text /\ SubSeq(s, k + 1, Len(s)) \in Text
  BY <1>4, PartsOfText
<1>6. v \in Text
  <2>1. CASE k + 1 <= Len(s)
    <3>1. k + 2 \in 1..(Len(s) + 1) /\ Len(s) \in 0..Len(s) /\ k + 2 <= Len(s) + 1
      BY <1>1, <1>4, <2>1
    <3> HIDE DEF Keys
    <3> QED
      BY <1>1, <3>1, SliceIs DEF Text
  <2>2. CASE ~(k + 1 <= Len(s))
    <3>1. k + 2 \in Int /\ Len(s) \in Int /\ Len(s) < k + 2
      BY <1>1, <1>4, <2>2
    <3>2. v = <<>>
      BY <3>1, SubSeqEmpty
    <3> QED
      BY <3>2, EmptySeq DEF Text
  <2> QED
    BY <2>1, <2>2
<1>7. Stump \in Keys /\ t \in Text
  <2>1. Stump \in Keys
    BY DEF Keys
  <2> HIDE DEF Keys
  <2> QED
    BY <2>1 DEF Text
<1>8. u \o t = Append(u, Stump)
  <2>1. u \in Seq(Keys) /\ Stump \in Keys
    BY <1>5, <1>7 DEF Text
  <2> HIDE DEF Keys, u
  <2> QED
    BY <2>1
<1>9. u \o <<>> = u
  <2>1. u \in Seq(Keys)
    BY <1>5 DEF Text
  <2> HIDE DEF Keys, u
  <2> QED
    BY <2>1, ConcatEmptySeq
<1>10. Before(s, n) \in Text /\ (Before(s, n) = u \/ Before(s, n) = Append(u, Stump))
  <2>1. Before(s, n) = u \o (IF Whole(s, n) THEN <<>> ELSE t)
    BY DEF Before, k
  <2>2. u \o t \in Text
    BY <1>5, <1>7, TextJoins
  <2> QED
    BY <1>5, <1>8, <1>9, <2>1, <2>2
<1>11. Behind(s, n) \in Text
  <2>1. Behind(s, n) = IF Whole(s, n) THEN SubSeq(s, k + 1, Len(s)) ELSE t \o v
    BY DEF Behind, k
  <2>2. t \o v \in Text
    BY <1>6, <1>7, TextJoins
  <2> QED
    BY <1>5, <2>1, <2>2
<1>12. ASSUME NEW m \in 0..Len(s), n = Chars(SubSeq(s, 1, m))
       PROVE  Before(s, n) = SubSeq(s, 1, m) /\ Behind(s, n) = SubSeq(s, m + 1, Len(s))
  <2>1. m <= k
    BY <1>3, <1>12
  <2>2. ~(m < k)
    <3> SUFFICES ASSUME m < k PROVE FALSE
      OBVIOUS
    <3>1. n < Chars(u) /\ Chars(u) <= n
      BY <1>3, <1>4, <1>12, StartChars
    <3>2. Chars(u) \in Nat
      BY <1>5, CharsIs
    <3> HIDE DEF u
    <3> QED
      BY <3>1, <3>2
  <2>3. k = m
    BY <1>1, <1>4, <2>1, <2>2
  <2>4. Whole(s, n)
    BY <1>12, <2>3 DEF Whole, k
  <2>5. Before(s, n) = u \o <<>> /\ Behind(s, n) = SubSeq(s, k + 1, Len(s))
    BY <2>4 DEF Before, Behind, k
  <2> QED
    BY <1>9, <2>3, <2>5
<1> QED
  BY <1>4, <1>10, <1>11, <1>12 DEF u, k

(* A name is a text. *)
LEMMA NameTexts == Names \subseteq Text
<1>1. STRING \subseteq Keys
  BY DEF Keys
<1> HIDE DEF Keys
<1> QED
  BY <1>1, SeqGrows DEF Names, Text

(* A name behind the word it begins with. *)
LEMMA PrefixChars ==
  ASSUME NEW n \in Text, NEW w \in Text, IsPrefix(w, n)
  PROVE  /\ Chars(w) <= Chars(n)
         /\ HasWide(w) => HasWide(n)
         /\ Behind(n, Chars(w)) = SubSeq(n, Len(w) + 1, Len(n)) /\ w \o Behind(n, Chars(w)) = n
<1> DEFINE m == Len(w)
           u == SubSeq(n, 1, m)
           v == SubSeq(n, m + 1, Len(n))
<1>1. /\ m <= Len(n) /\ w = u /\ m \in Nat /\ Len(n) \in Nat /\ m \in 0..Len(n)
      /\ DOMAIN w = 1..m /\ DOMAIN n = 1..Len(n) /\ n \in Seq(Keys)
  <2>1. m <= Len(n) /\ SubSeq(w, 1, Len(w)) = SubSeq(n, 1, Len(w))
    BY DEF IsPrefix
  <2>2. SubSeq(w, 1, Len(w)) = w
    <3>1. w \in Seq(Keys)
      BY DEF Text
    <3> HIDE DEF Keys
    <3> QED
      BY <3>1
  <2>3. m \in Nat /\ Len(n) \in Nat /\ DOMAIN w = 1..m /\ DOMAIN n = 1..Len(n)
    BY TextIs
  <2>4. m \in 0..Len(n)
    BY <2>1, <2>3
  <2> QED
    BY <2>1, <2>2, <2>3, <2>4 DEF Text
<1> HIDE DEF m
<1>2. u \in Text /\ v \in Text /\ n = u \o v
  BY <1>1, PartsOfText
<1>3. Chars(w) \in Nat /\ Behind(n, Chars(w)) = v
  <2>1. Chars(w) \in Nat
    BY CharsIs
  <2> QED
    BY <1>1, <2>1, CutIs
<1>4. Chars(w) <= Chars(n)
  <2>1. Chars(u \o v) = Chars(u) + Chars(v) /\ Chars(v) \in Nat /\ Chars(u) \in Nat
    BY <1>2, CharsIs
  <2> HIDE DEF u, v
  <2> QED
    BY <1>1, <1>2, <2>1
<1>5. ASSUME HasWide(w) PROVE HasWide(n)
  <2>1. PICK i \in 1..m : w[i] \in DOMAIN Wide
    BY <1>1, <1>5 DEF HasWide
  <2>2. n[i] = w[i] /\ i \in 1..Len(n)
    <3>1. 1 \in 1..(Len(n) + 1) /\ m \in 0..Len(n) /\ 1 <= m + 1 /\ m - 1 + 1 = m /\ 1 + i - 1 = i /\ i \in 1..Len(n)
      BY <1>1
    <3> HIDE DEF Keys
    <3>2. \A j \in 1..m : u[j] = n[1 + j - 1]
      BY <1>1, <3>1, SliceIs
    <3> QED
      BY <1>1, <3>1, <3>2
  <2> QED
    BY <1>1, <2>1, <2>2 DEF HasWide
<1> QED
  BY <1>1, <1>2, <1>3, <1>4, <1>5 DEF m

(* The names of a database are ASCII, and so is what they begin with. *)
LEMMA NarrowName ==
  ASSUME NEW n \in Names
  PROVE  /\ n \in Text /\ ~HasWide(n)
         /\ \A w \in Text : IsPrefix(w, n) => ~HasWide(w) /\ Bytes(w) = Chars(w) /\ ~(Bytes(w) > Chars(n))
<1>1. n \in Text
  BY NameTexts
<1>2. ~HasWide(n)
  <2> DEFINE S == STRING \ (Keywords \cup Signs \cup DOMAIN Wide)
  <2>1. n \in Seq(S) /\ \A k \in S : k \notin DOMAIN Wide
    BY DEF Names
  <2> HIDE DEF S
  <2>2. \A i \in DOMAIN n : n[i] \in S
    BY <2>1, LenProperties, ElementOfSeq
  <2> QED
    BY <2>1, <2>2 DEF HasWide
<1>3. ASSUME NEW w \in Text, IsPrefix(w, n) PROVE ~HasWide(w) /\ Bytes(w) = Chars(w) /\ ~(Bytes(w) > Chars(n))
  <2>1. ~HasWide(w) /\ Chars(w) <= Chars(n)
    BY <1>1, <1>2, <1>3, PrefixChars
  <2>2. Bytes(w) = Chars(w) /\ Chars(w) \in Nat /\ Chars(n) \in Nat
    BY <1>1, <2>1, CharsIs
  <2> QED
    BY <2>1, <2>2
<1> QED
  BY <1>1, <1>2, <1>3

(* What the completer splits a line into. *)
LEMMA TokenizeIs ==
  ASSUME NEW s \in Text
  PROVE  /\ Tokenize(s) \in Seq(Text)
         /\ s = <<>> => Tokenize(s) = <<>>
         /\ s # <<>> => /\ Tokenize(s) = Splits(s) /\ Tokenize(s) \in WordLists
                        /\ Len(Tokenize(s)) \in Nat \ {0} /\ Tokenize(s)[Len(Tokenize(s))] = CursorWord(s)
<1>1. <<>> \in Seq(Text)
  BY EmptySeq
<1>2. Splits(s) \in WordLists /\ Last(Splits(s)) = CursorWord(s)
  BY SplitsAre, LastIsAtCursor
<1>3. Splits(s) \in Seq(Text) /\ Len(Splits(s)) \in Nat \ {0}
  BY <1>2, EmptySeq DEF WordLists
<1> QED
  BY <1>1, <1>2, <1>3 DEF Tokenize, Splits, Last

(* A text without a separator is a word. *)
LEMMA OneWord ==
  ASSUME NEW s \in Text, Stops(s) = {}
  PROVE  Splits(s) = <<s>>
<1> DEFINE G == {u \in Text : Stops(u) = {} => Splits(u) = <<u>>}
<1>1. <<>> \in G
  <2>1. <<>> \in Text
    BY EmptySeq DEF Text
  <2> QED
    BY <2>1, SplitsEmpty
<1>2. ASSUME NEW u \in G, NEW k \in Keys PROVE Append(u, k) \in G
  <2> DEFINE r == Append(u, k)
  <2>1. u \in Text /\ r \in Text /\ Splits(r) = Split(Splits(u), k)
    BY SplitsGrow
  <2>2. /\ DOMAIN u = 1..Len(u) /\ Len(u) \in Nat /\ DOMAIN r = 1..(Len(u) + 1) /\ r[Len(u) + 1] = k
        /\ \A i \in 1..Len(u) : r[i] = u[i]
    BY TextIs, TextGrows
  <2>3. ASSUME Stops(r) = {} PROVE Splits(r) = <<r>>
    <3>1. k \notin {Blank, "("}
      <4>1. Len(u) + 1 \in DOMAIN r /\ Len(u) + 1 \notin Stops(r)
        BY <2>2, <2>3
      <4> HIDE DEF r
      <4> QED
        BY <2>2, <4>1 DEF Stops
    <3>2. Stops(u) = {}
      <4> HIDE DEF r
      <4>1. \A i \in 1..Len(u) : i \in 1..(Len(u) + 1)
        BY <2>2
      <4> QED
        BY <2>2, <2>3, <4>1 DEF Stops
    <3>3. Splits(u) = <<u>>
      BY <3>2
    <3>4. Split(<<u>>, k) = [<<u>> EXCEPT ![1] = Append(@, k)]
      <4>1. Len(<<u>>) = 1
        OBVIOUS
      <4> QED
        BY <3>1, <4>1 DEF Split
    <3>5. [<<u>> EXCEPT ![1] = Append(@, k)] = <<r>>
      OBVIOUS
    <3> QED
      BY <2>1, <3>3, <3>4, <3>5
  <2> QED
    BY <2>1, <2>3
<1>3. G \in SUBSET Seq(Keys)
  BY DEF Text
<1> HIDE DEF G
<1>4. G = Seq(Keys)
  BY <1>1, <1>2, <1>3, SeqSets
<1> QED
  BY <1>4 DEF G, Text

(* The first word of a text that begins with a key and a space. *)
Opens(s) == Len(s) >= 2 /\ s[1] \notin {Blank, "("} /\ s[2] = Blank
(* A key and a space: the key is the first word. *)
LEMMA FirstWord ==
  ASSUME NEW s \in Text, Opens(s)
  PROVE  Len(Splits(s)) \in Nat /\ Len(Splits(s)) >= 2 /\ Splits(s)[1] = <<s[1]>>
<1> DEFINE G == {u \in Text : Opens(u) => Len(Splits(u)) \in Nat /\ Len(Splits(u)) >= 2 /\ Splits(u)[1] = <<u[1]>>}
<1>1. <<>> \in G
  <2>1. <<>> \in Text /\ Len(<<>>) = 0
    BY EmptySeq DEF Text
  <2> QED
    BY <2>1 DEF Opens
<1>2. ASSUME NEW u \in G, NEW k \in Keys PROVE Append(u, k) \in G
  <2> DEFINE r == Append(u, k)
             ws == Splits(u)
  <2>1. u \in Text /\ r \in Text /\ Splits(r) = Split(ws, k) /\ ws \in WordLists
    BY SplitsGrow, SplitsAre
  <2>2. /\ DOMAIN u = 1..Len(u) /\ Len(u) \in Nat /\ Len(r) = Len(u) + 1 /\ r[Len(u) + 1] = k
        /\ \A i \in 1..Len(u) : r[i] = u[i]
    BY TextIs, TextGrows
  <2> HIDE DEF r
  <2>3. ASSUME Opens(r) PROVE Len(Splits(r)) \in Nat /\ Len(Splits(r)) >= 2 /\ Splits(r)[1] = <<r[1]>>
    <3>1. CASE Len(u) >= 2
      <4>1. Opens(u) /\ r[1] = u[1]
        BY <2>2, <2>3, <3>1 DEF Opens
      <4>2. Len(ws) \in Nat /\ Len(ws) >= 2 /\ ws[1] = <<u[1]>>
        BY <4>1
      <4>3. /\ Len(Splits(r)) \in Nat /\ Len(ws) <= Len(Splits(r))
            /\ \A i \in 1..(Len(ws) - 1) : Splits(r)[i] = ws[i]
        BY <2>1, SplitKeeps
      <4> HIDE DEF ws
      <4>4. 1 \in 1..(Len(ws) - 1)
        BY <4>2
      <4> QED
        BY <4>1, <4>2, <4>3, <4>4
    <3>2. CASE ~(Len(u) >= 2)
      <4>1. Len(u) = 1 /\ r[1] = u[1] /\ k = Blank /\ u[1] \notin {Blank, "("}
        BY <2>2, <2>3, <3>2 DEF Opens
      <4>2. Stops(u) = {}
        BY <2>2, <4>1 DEF Stops
      <4>3. ws = <<u>>
        BY <2>1, <4>2, OneWord
      <4>4. u = <<u[1]>>
        BY <2>1, <4>1 DEF Text
      <4> HIDE DEF ws
      <4>5. Len(ws) = 1 /\ ws[1] = u
        BY <4>3
      <4>6. Last(ws) = u /\ u # <<>>
        BY <4>1, <4>5, EmptySeq DEF Last
      <4>7. Split(ws, k) = Append(ws, <<>>)
        BY <4>1, <4>6 DEF Split
      <4>8. <<>> \in Text /\ ws \in Seq(Text)
        BY <2>1, EmptySeq DEF Text, WordLists
      <4>9. Len(Splits(r)) = 2 /\ Splits(r)[1] = u
        BY <2>1, <4>5, <4>7, <4>8, AppendProperties
      <4> QED
        BY <4>1, <4>4, <4>9
    <3> QED
      BY <3>1, <3>2
  <2> QED
    BY <2>1, <2>3 DEF r
<1>3. G \in SUBSET Seq(Keys)
  BY DEF Text
<1> HIDE DEF G
<1>4. G = Seq(Keys)
  BY <1>1, <1>2, <1>3, SeqSets
<1> QED
  BY <1>4 DEF G, Text

(* Words that are joined again. *)
LEMMA JoinedEmpty == Joined(<<>>) = <<>>
<1> DEFINE parts == [i \in DOMAIN <<>> |-> IF i = 1 THEN <<>>[i] ELSE <<Blank>> \o <<>>[i]]
<1>1. DOMAIN <<>> = {}
  OBVIOUS
<1>2. parts = <<>>
  BY <1>1
<1>3. FlattenSeq(<<>>) = <<>>
  BY EmptySeq DEF FlattenSeq
<1> QED
  BY <1>2, <1>3 DEF Joined

(* One word more, behind a space. *)
LEMMA JoinedGrows ==
  ASSUME NEW ws \in Seq(Text), NEW w \in Text
  PROVE  Joined(Append(ws, w)) = IF ws = <<>> THEN w ELSE Joined(ws) \o (<<Blank>> \o w)
<1> DEFINE Part(r, i) == IF i = 1 THEN r[i] ELSE <<Blank>> \o r[i]
           Parted(r) == [i \in DOMAIN r |-> Part(r, i)]
           n == Len(ws)
           r == Append(ws, w)
           x == IF n = 0 THEN w ELSE <<Blank>> \o w
<1>1. /\ n \in Nat /\ DOMAIN ws = 1..n /\ (ws = <<>> <=> n = 0) /\ \A i \in 1..n : ws[i] \in Text
      /\ r \in Seq(Text) /\ Len(r) = n + 1 /\ r[n + 1] = w /\ \A i \in 1..n : r[i] = ws[i]
  BY ElementOfSeq, LenProperties, EmptySeq, AppendProperties
<1>2. DOMAIN r = 1..(n + 1)
  BY <1>1, LenProperties
<1>3. \A u \in Text : <<Blank>> \o u \in Text
  <2>1. <<Blank>> \in Seq(Keys)
    BY DEF Keys
  <2> QED
    BY <2>1, ConcatProperties DEF Text
<1> HIDE DEF r, n
<1>4. Parted(ws) \in Seq(Text) /\ Len(Parted(ws)) = n
  <2>1. \A i \in 1..n : Part(ws, i) \in Text
    BY <1>1, <1>3
  <2> HIDE DEF Part
  <2>2. Parted(ws) \in [1..n -> Text]
    BY <1>1, <2>1
  <2> HIDE DEF Parted
  <2> QED
    BY <1>1, <2>2
<1>5. x \in Text
  BY <1>1, <1>3
<1>6. Parted(r) = Append(Parted(ws), x)
  <2> DEFINE p == Parted(r)
             q == Append(Parted(ws), x)
  <2>1. /\ q \in Seq(Text) /\ Len(q) = n + 1 /\ q[n + 1] = x
        /\ \A i \in 1..n : q[i] = Parted(ws)[i]
    <3> HIDE DEF Parted, x
    <3> QED
      BY <1>4, <1>5, AppendProperties
  <2>2. /\ DOMAIN p = 1..(n + 1) /\ p = [i \in 1..(n + 1) |-> Part(r, i)]
    BY <1>2
  <2>3. \A i \in 1..n : i \in 1..(n + 1) /\ Part(r, i) = Part(ws, i) /\ Parted(ws)[i] = Part(ws, i)
    BY <1>1
  <2>4. n + 1 \in 1..(n + 1) /\ Part(r, n + 1) = x
    BY <1>1
  <2>5. DOMAIN q = 1..(n + 1) /\ q = [i \in 1..(n + 1) |-> q[i]]
    <3> HIDE DEF q
    <3>1. q \in [1..(n + 1) -> Text]
      BY <2>1, LenProperties
    <3> QED
      BY <3>1
  <2> HIDE DEF p, q, Part, Parted, x
  <2>6. ASSUME NEW i \in 1..(n + 1) PROVE Part(r, i) = q[i]
    <3>1. i \in 1..n \/ i = n + 1
      BY <1>1
    <3> QED
      BY <2>1, <2>3, <2>4, <3>1
  <2>7. p = q
    BY <2>2, <2>5, <2>6
  <2> QED
    BY <2>7 DEF p, q
<1>7. Joined(ws) = FlattenSeq(Parted(ws)) /\ Joined(r) = FlattenSeq(Parted(r))
  BY DEF Joined
<1> HIDE DEF Parted, x
<1>8. FlattenSeq(Append(Parted(ws), x)) = IF Parted(ws) = <<>> THEN x ELSE FlattenSeq(Parted(ws)) \o x
  BY <1>4, <1>5, FlattenGrows DEF Text
<1>9. Parted(ws) = <<>> <=> n = 0
  BY <1>4, EmptySeq
<1> QED
  BY <1>1, <1>6, <1>7, <1>8, <1>9 DEF x, r

(* Joined words begin with the first of them and a space. *)
LEMMA JoinedIs ==
  ASSUME NEW ws \in Seq(Text)
  PROVE  /\ Joined(ws) \in Text
         /\ ws # <<>> => /\ Len(ws[1]) <= Len(Joined(ws)) /\ \A i \in 1..Len(ws[1]) : Joined(ws)[i] = ws[1][i]
                         /\ Len(ws) >= 2 => Len(ws[1]) + 1 <= Len(Joined(ws)) /\ Joined(ws)[Len(ws[1]) + 1] = Blank
<1> DEFINE First(u) == u # <<>> => /\ Len(u[1]) <= Len(Joined(u)) /\ \A i \in 1..Len(u[1]) : Joined(u)[i] = u[1][i]
                                   /\ Len(u) >= 2 => Len(u[1]) + 1 <= Len(Joined(u)) /\ Joined(u)[Len(u[1]) + 1] = Blank
           G == {u \in Seq(Text) : Joined(u) \in Text /\ First(u)}
<1>1. <<>> \in G
  <2>1. <<>> \in Seq(Text) /\ <<>> \in Text
    BY EmptySeq DEF Text
  <2> QED
    BY <2>1, JoinedEmpty
<1>2. ASSUME NEW u \in G, NEW w \in Text PROVE Append(u, w) \in G
  <2> DEFINE r == Append(u, w)
             j == Joined(u)
             e == <<Blank>> \o w
  <2>1. /\ u \in Seq(Text) /\ Len(u) \in Nat /\ (u = <<>> <=> Len(u) = 0) /\ j \in Text
        /\ r \in Seq(Text) /\ Len(r) = Len(u) + 1 /\ r[Len(u) + 1] = w /\ \A i \in 1..Len(u) : r[i] = u[i]
    BY LenProperties, EmptySeq, AppendProperties
  <2>2. Joined(r) = IF u = <<>> THEN w ELSE j \o e
    BY <2>1, JoinedGrows
  <2>3. e \in Text /\ Len(e) = 1 + Len(w) /\ e[1] = Blank
    <3>1. <<Blank>> \in Seq(Keys) /\ Len(<<Blank>>) = 1 /\ <<Blank>>[1] = Blank
      BY DEF Keys
    <3>2. 1 \in 1..(1 + Len(w)) /\ Len(w) \in Nat
      BY TextIs
    <3> DEFINE b == <<Blank>>
    <3>3. b \in Text /\ Len(b) = 1 /\ b[1] = Blank
      BY <3>1 DEF Text
    <3> HIDE DEF b
    <3>4. /\ b \o w \in Text /\ Len(b \o w) = Len(b) + Len(w)
          /\ \A i \in 1..(Len(b) + Len(w)) : (b \o w)[i] = IF i <= Len(b) THEN b[i] ELSE w[i - Len(b)]
      BY <3>3, TextJoins
    <3>5. (b \o w)[1] = b[1]
      BY <3>2, <3>3, <3>4
    <3> QED
      BY <3>3, <3>4, <3>5 DEF b
  <2>4. /\ j \o e \in Text /\ Len(j \o e) = Len(j) + Len(e)
        /\ \A i \in 1..(Len(j) + Len(e)) : (j \o e)[i] = IF i <= Len(j) THEN j[i] ELSE e[i - Len(j)]
    <3> HIDE DEF e, j
    <3> QED
      BY <2>1, <2>3, TextJoins
  <2>5. Len(j) \in Nat /\ Len(w) \in Nat /\ Len(e) \in Nat
    BY <2>1, <2>3, TextIs
  <2> HIDE DEF r, j, e
  <2>6. First(r)
    <3>1. CASE u = <<>>
      <4>1. r[1] = w /\ Len(r) = 1 /\ Joined(r) = w
        BY <2>1, <2>2, <3>1
      <4> QED
        BY <2>5, <4>1
    <3>2. CASE u # <<>>
      <4>1. r[1] = u[1] /\ Joined(r) = j \o e /\ u[1] \in Text
        <5>1. 1 \in 1..Len(u)
          BY <2>1, <3>2
        <5> QED
          BY <2>1, <2>2, <3>2, <5>1, ElementOfSeq
      <4> DEFINE m == Len(u[1])
      <4>2. m \in Nat /\ m <= Len(j) /\ \A i \in 1..m : j[i] = u[1][i]
        BY <3>2, <4>1, TextIs DEF j
      <4>3. Len(u) >= 2 => m + 1 <= Len(j) /\ j[m + 1] = Blank
        BY <3>2 DEF j
      <4> HIDE DEF m
      <4>4. \A i \in 1..m : (j \o e)[i] = u[1][i]
        <5>1. \A i \in 1..m : i \in 1..(Len(j) + Len(e)) /\ i <= Len(j)
          BY <2>5, <4>2
        <5> QED
          BY <2>4, <4>2, <5>1
      <4>5. m + 1 <= Len(j) + Len(e) /\ (j \o e)[m + 1] = Blank
        <5>1. CASE Len(u) >= 2
          <6>1. m + 1 \in 1..(Len(j) + Len(e)) /\ m + 1 <= Len(j)
            BY <2>5, <4>2, <4>3, <5>1
          <6> QED
            BY <2>4, <4>3, <5>1, <6>1
        <5>2. CASE ~(Len(u) >= 2)
          <6>1. u = Append(<<>>, u[1])
            <7>1. Len(u) = 1
              <8>1. Len(u) \in Nat /\ Len(u) # 0
                BY <2>1, <3>2
              <8>2. \A k \in Nat : k # 0 /\ ~(k >= 2) => k = 1
                OBVIOUS
              <8> HIDE DEF G
              <8> QED
                BY <5>2, <8>1, <8>2
            <7> QED
              BY <2>1, <7>1
          <6>2. <<>> \in Seq(Text)
            BY EmptySeq
          <6>3. j = u[1]
            BY <4>1, <6>1, <6>2, JoinedGrows DEF j
          <6>4. Len(j) = m /\ m + 1 \in 1..(Len(j) + Len(e)) /\ m + 1 - Len(j) = 1 /\ ~(m + 1 <= Len(j))
            <7>1. Len(j) = m
              BY <6>3 DEF m
            <7> QED
              BY <2>3, <2>5, <4>2, <7>1
          <6> DEFINE h == m + 1
          <6>5. h \in 1..(Len(j) + Len(e)) /\ h - Len(j) = 1 /\ ~(h <= Len(j))
            BY <6>4
          <6> HIDE DEF h
          <6>6. (j \o e)[h] = Blank
            BY <2>3, <2>4, <6>5
          <6> QED
            BY <6>4, <6>6 DEF h
        <5> QED
          BY <5>1, <5>2
      <4>6. m <= Len(j \o e) /\ m + 1 <= Len(j \o e)
        BY <2>4, <2>5, <4>2, <4>5
      <4> QED
        BY <4>1, <4>4, <4>5, <4>6 DEF m
    <3> QED
      BY <3>1, <3>2
  <2>7. Joined(r) \in Text
    BY <2>2, <2>4
  <2> HIDE DEF First
  <2> QED
    BY <2>1, <2>6, <2>7 DEF r
<1>3. G \in SUBSET Seq(Text)
  OBVIOUS
<1> HIDE DEF G
<1>4. G = Seq(Text)
  BY <1>1, <1>2, <1>3, SeqSets
<1> QED
  BY <1>4 DEF G

(* The parts of a text between marks. *)
PartOne(ps, k, mark) == IF k = mark THEN Append(ps, <<>>) ELSE Append(Front(ps), Append(Last(ps), k))
(* A key makes one part longer, or begins another. *)
LEMMA PartOneIs ==
  ASSUME NEW ps \in WordLists, NEW k \in Keys, NEW mark
  PROVE  PartOne(ps, k, mark) \in WordLists
<1>1. ps \in Seq(Text) /\ Len(ps) \in Nat \ {0} /\ Len(ps) \in 1..Len(ps) /\ \A i \in 1..Len(ps) : ps[i] \in Text
  BY EmptySeq, ElementOfSeq DEF WordLists
<1>2. <<>> \in Text
  BY EmptySeq DEF Text
<1>3. Append(ps, <<>>) \in Seq(Text) /\ Append(ps, <<>>) # <<>>
  BY <1>1, <1>2, AppendProperties
<1> DEFINE w == Append(Last(ps), k)
           f == Front(ps)
<1>4. w \in Text
  BY <1>1, TextGrows DEF Last
<1>5. f \in Seq(Text)
  <2>1. Len(ps) - 1 \in Int /\ 1 \in Int /\ \A i \in 1..(Len(ps) - 1) : ps[i] \in Text
    BY <1>1
  <2> QED
    BY <2>1, SubSeqProperties DEF Front
<1> HIDE DEF w, f
<1>6. Append(f, w) \in Seq(Text) /\ Append(f, w) # <<>>
  BY <1>4, <1>5, AppendProperties
<1> QED
  BY <1>3, <1>6 DEF PartOne, WordLists, w, f

(* The parts of a text are texts. *)
LEMMA PartsAre ==
  ASSUME NEW s \in Text, NEW mark
  PROVE  Parts(s, mark) \in WordLists
<1> DEFINE n == Len(s)
           g == [p \in WordLists \X (1..n) |-> PartOne(p[1], s[p[2]], mark)]
           Step(f, d) == IF d = {} THEN <<<<>>>> ELSE PartOne(f[d \ {Max(d)}], s[Max(d)], mark)
           P(f) == f = [d \in SUBSET (1..n) |-> Step(f, d)]
           base == <<<<>>>>
<1>1. n \in Nat /\ DOMAIN s = 1..n /\ \A k \in 1..n : s[k] \in Keys
  BY TextIs
<1>2. base \in WordLists
  <2>1. <<>> \in Text
    BY EmptySeq DEF Text
  <2> QED
    BY <2>1 DEF WordLists
<1>3. ASSUME NEW ws \in WordLists, NEW k \in 1..n PROVE g[<<ws, k>>] = PartOne(ws, s[k], mark) /\ g[<<ws, k>>] \in WordLists
  <2>1. g[<<ws, k>>] = PartOne(ws, s[k], mark)
    OBVIOUS
  <2>2. s[k] \in Keys
    BY <1>1
  <2> HIDE DEF g, n
  <2> QED
    BY <2>1, <2>2, PartOneIs
<1>4. PICK h : /\ h = [d \in StartOf(n) |-> IF d = {} THEN <<<<>>>> ELSE g[<<h[d \ {Max(d)}], Max(d)>>]]
               /\ \A d \in StartOf(n) : h[d] \in WordLists
  <2>1. base \in WordLists /\ \A ws \in WordLists, k \in 1..n : g[<<ws, k>>] \in WordLists
    BY <1>2, <1>3
  <2> HIDE DEF g, n, base
  <2>2. PICK h : Tabled(h, WordLists, base, n, g)
    BY <1>1, <2>1, FoldTable
  <2>3. /\ h = [d \in StartOf(n) |-> IF d = {} THEN base ELSE g[<<h[d \ {Max(d)}], Max(d)>>]]
        /\ \A d \in StartOf(n) : h[d] \in WordLists
    BY <2>2 DEF Tabled
  <2> QED
    BY <2>3 DEF base
<1>5. P(h)
  <2>1. ASSUME NEW d \in StartOf(n) PROVE h[d] = Step(h, d)
    <3>1. CASE d = {}
      BY <1>4, <3>1
    <3>2. CASE d # {}
      <4>1. Max(d) \in 1..n /\ d \ {Max(d)} \in StartOf(n)
        <5> HIDE DEF n
        <5> QED
          BY <1>1, <3>2, MaxOfSet DEF StartOf
      <4>2. h[d] = g[<<h[d \ {Max(d)}], Max(d)>>]
        <5> HIDE DEF g
        <5> QED
          BY <1>4, <3>2
      <4>3. h[d \ {Max(d)}] \in WordLists
        BY <1>4, <4>1
      <4> HIDE DEF g, n
      <4> QED
        BY <1>3, <3>2, <4>1, <4>2, <4>3
    <3> QED
      BY <3>1, <3>2
  <2>2. h = [d \in StartOf(n) |-> h[d]]
    <3> HIDE DEF g
    <3> QED
      BY <1>4
  <2> HIDE DEF Step
  <2> QED
    BY <2>1, <2>2 DEF StartOf
<1>6. Parts(s, mark) = (CHOOSE f : P(f))[1..n]
  BY <1>1, Zenon DEF Parts, PartOne, FoldLeft, MapThenFoldSet
<1> DEFINE f == CHOOSE f : P(f)
<1>7. P(f)
  <2> HIDE DEF P
  <2> QED
    BY <1>5
<1>8. \A d \in StartOf(n) : f[d] = Step(f, d)
  <2> HIDE DEF f, Step
  <2> QED
    BY <1>7 DEF StartOf
<1>9. Parts(s, mark) = f[1..n]
  BY <1>6
<1> HIDE DEF f, P
<1> DEFINE G == {k \in Nat : k <= n => f[1..k] \in WordLists}
<1>10. 0 \in G
  <2>1. 1..0 = {} /\ 1..0 \in StartOf(n)
    BY <1>1 DEF StartOf
  <2>2. f[1..0] = <<<<>>>>
    BY <1>8, <2>1
  <2> QED
    BY <1>2, <2>2
<1>11. ASSUME NEW k \in G PROVE k + 1 \in G
  <2>1. CASE k + 1 <= n
    <3> HIDE DEF n
    <3> DEFINE j == k + 1
    <3>1. k \in Nat /\ j \in 1..n /\ j - 1 = k /\ f[1..k] \in WordLists
      BY <1>1, <1>11, <2>1
    <3> HIDE DEF j
    <3>2. 1..j \in StartOf(n) /\ 1..j # {} /\ Max(1..j) = j /\ (1..j) \ {j} = 1..(j - 1) /\ s[j] \in Keys
      BY <1>1, <3>1, Starts
    <3>3. f[1..j] = PartOne(f[1..k], s[j], mark)
      BY <1>8, <3>1, <3>2
    <3>4. f[1..j] \in WordLists
      BY <3>1, <3>2, <3>3, PartOneIs
    <3> QED
      BY <3>1, <3>4 DEF j
  <2>2. CASE ~(k + 1 <= n)
    <3> HIDE DEF n
    <3> QED
      BY <1>11, <2>2
  <2> QED
    BY <2>1, <2>2
<1>12. G = Nat
  <2>1. G \in SUBSET Nat
    OBVIOUS
  <2> HIDE DEF G
  <2> QED
    BY <1>10, <1>11, <2>1, NatSets
<1> HIDE DEF n
<1> QED
  BY <1>1, <1>9, <1>12

(* The last of some words is a word. *)
LEMMA LastOf ==
  ASSUME NEW ws \in Seq(Text), ws # <<>>
  PROVE  Last(ws) \in Text
<1>1. Len(ws) \in Nat /\ Len(ws) # 0
  BY EmptySeq
<1>2. Len(ws) \in 1..Len(ws)
  BY <1>1
<1> QED
  BY <1>2, ElementOfSeq DEF Last

(* The columns a SELECT has so far are words of it. *)
LEMMA SelectedAre ==
  ASSUME NEW s \in Text
  PROVE  Selected(s) \subseteq Text
<1>1. ASSUME NEW p \in Text PROVE SelectedIn(p) \in Seq(Text)
  <2> DEFINE I == {i \in 1..Len(p) : p[i] = "("}
             m == SelectInSeq(p, LAMBDA k : k = "(")
             u == SubSeq(p, m + 1, Len(p))
  <2>1. Len(p) \in Nat /\ \A i \in 1..Len(p) : p[i] \in Keys
    BY <1>1, TextIs
  <2>2. m = IF I # {} THEN Min(I) ELSE 0
    BY DEF SelectInSeq
  <2>3. I \in SUBSET Nat
    BY <2>1
  <2> HIDE DEF I, m
  <2>4. m \in Nat
    BY <2>2, <2>3, MinOfSet
  <2>5. m + 1 \in Int /\ Len(p) \in Int /\ \A i \in (m + 1)..Len(p) : p[i] \in Keys
    BY <2>1, <2>4
  <2>6. u \in Text
    BY <2>5, SubSeqProperties DEF Text
  <2> HIDE DEF u
  <2>7. Tokenize(u) \in Seq(Text)
    BY <2>6, TokenizeIs
  <2> QED
    BY <2>7 DEF SelectedIn, u, m
<1>2. ASSUME NEW p \in ToSet(Parts(s, ",")) PROVE p \in Text
  <2>1. Parts(s, ",") \in Seq(Text)
    BY PartsAre DEF WordLists
  <2> QED
    BY <1>2, <2>1, ElementOfSeq, LenProperties DEF ToSet
<1>3. ASSUME NEW p \in ToSet(Parts(s, ",")), SelectedIn(p) # <<>> PROVE Last(SelectedIn(p)) \in Text
  <2>1. SelectedIn(p) \in Seq(Text)
    BY <1>1, <1>2, <1>3
  <2> DEFINE w == SelectedIn(p)
  <2>2. w \in Seq(Text) /\ w # <<>>
    BY <1>3, <2>1
  <2> HIDE DEF w
  <2>4. Last(w) \in Text
    BY <2>2, LastOf
  <2> QED
    BY <2>4 DEF w
<1> QED
  BY <1>3 DEF Selected

(* What is read of the words behind SELECT. *)
Clauses == {"all", "column", "group", "order"}
Reads == [kind : Clauses \cup {"table", "during", "void"}, word : Text, table : Text, text : [Clauses -> Text]]
ReadOne(t, b, i) == IF i = 1 THEN b ELSE Read(t, b, i)

(* What a keyword begins, in each part of a SELECT. *)
LEMMA KeywordIs ==
  ASSUME NEW c, NEW p
  PROVE  Keyword(c, p) \in {"table", "column", "during", "group", "order", "void", "none"}
BY DEF Keyword

(* The state of the reader, one word later. *)
LEMMA ReadOneIs ==
  ASSUME NEW t \in Seq(Text), NEW b \in Reads, NEW i \in 1..Len(t)
  PROVE  ReadOne(t, b, i) \in Reads
<1>1. Len(t) \in Nat /\ t[i] \in Text
  BY ElementOfSeq, LenProperties
<1>2. /\ b.kind \in Clauses \cup {"table", "during", "void"}
      /\ b.word \in Text /\ b.table \in Text /\ b.text \in [Clauses -> Text]
  BY DEF Reads
<1> DEFINE k == Keyword(t[i], t[i - 1])
           w == t[i]
           r == Read(t, b, i)
<1>3. k \in {"table", "column", "during", "group", "order", "void", "none"}
  BY KeywordIs
<1>4. DOMAIN b.text = Clauses
  BY <1>2
<1>5. CASE k # "none"
  <2>1. r = [b EXCEPT !.kind = IF i < Len(t) THEN k ELSE @]
    <3> HIDE DEF k
    <3> QED
      BY <1>5 DEF Read, k
  <2>2. (IF i < Len(t) THEN k ELSE b.kind) \in Clauses \cup {"table", "during", "void"}
    <3> HIDE DEF k
    <3> QED
      BY <1>2, <1>3, <1>5 DEF Clauses
  <2> HIDE DEF k, r
  <2>3. r \in Reads
    BY <2>1, <2>2 DEF Reads
  <2> QED
    BY <2>3 DEF r, ReadOne
<1>6. CASE k = "none"
  <2> DEFINE new == [b EXCEPT !.word = w]
  <2>1. new \in Reads /\ new.text = b.text /\ new.kind = b.kind
    BY <1>1 DEF Reads
  <2>2. CASE b.kind \in Clauses
    <3> DEFINE v == b.text[b.kind] \o <<Blank>> \o w
    <3>1. r = [new EXCEPT !.text[b.kind] = @ \o <<Blank>> \o w]
      <4> HIDE DEF k
      <4> QED
        BY <1>4, <1>6, <2>2 DEF Read, k, Clauses
    <3>2. v \in Text
      <4>1. <<Blank>> \in Text
        BY DEF Text, Keys
      <4>2. b.text[b.kind] \in Text
        BY <1>2, <2>2
      <4> QED
        BY <1>1, <4>1, <4>2, TextJoins
    <3>3. r = [new EXCEPT !.text = [b.text EXCEPT ![b.kind] = v]]
      BY <2>1, <3>1
    <3> HIDE DEF v, r, new
    <3>4. [b.text EXCEPT ![b.kind] = v] \in [Clauses -> Text]
      BY <1>2, <3>2
    <3>5. r \in Reads
      BY <2>1, <3>3, <3>4 DEF Reads
    <3> QED
      BY <3>5 DEF r, ReadOne
  <2>3. CASE b.kind = "table"
    <3>1. r = IF b.table = <<>> THEN [new EXCEPT !.table = w] ELSE [new EXCEPT !.kind = "void"]
      <4> HIDE DEF k
      <4> QED
        BY <1>4, <1>6, <2>3 DEF Read, k, Clauses
    <3> HIDE DEF new, r
    <3>2. r \in Reads
      BY <1>1, <2>1, <3>1 DEF Reads
    <3> QED
      BY <3>2 DEF r, ReadOne
  <2>4. CASE b.kind = "during"
    <3>1. r = [new EXCEPT !.kind = IF Contains(w, ",") THEN "void" ELSE @]
      <4> HIDE DEF k
      <4> QED
        BY <1>4, <1>6, <2>4 DEF Read, k, Clauses
    <3> HIDE DEF new, r
    <3>2. r \in Reads
      BY <2>1, <3>1 DEF Reads
    <3> QED
      BY <3>2 DEF r, ReadOne
  <2>5. CASE b.kind = "void"
    <3>1. r = new
      <4> HIDE DEF k
      <4> QED
        BY <1>4, <1>6, <2>5 DEF Read, k, Clauses
    <3> HIDE DEF new, r
    <3> QED
      BY <2>1, <3>1 DEF r, ReadOne
  <2> QED
    BY <1>2, <2>2, <2>3, <2>4, <2>5
<1> QED
  BY <1>5, <1>6

(* A word that is no keyword is kept; a keyword, but for the last word, says *)
(* what follows.                                                             *)
LEMMA ReadKeeps ==
  ASSUME NEW t \in Seq(Text), NEW b \in Reads, NEW i \in 2..Len(t)
  PROVE  LET k == Keyword(t[i], t[i - 1])
             r == ReadOne(t, b, i)
         IN  /\ k = "none" => r.word = t[i]
             /\ k # "none" /\ i < Len(t) => r.kind = k
             /\ k # "none" /\ i = Len(t) => r.kind = b.kind
<1>1. Len(t) \in Nat
  BY LenProperties
<1>2. b.kind \in Clauses \cup {"table", "during", "void"} /\ DOMAIN b.text = Clauses
  BY DEF Reads
<1> DEFINE k == Keyword(t[i], t[i - 1])
           w == t[i]
           r == Read(t, b, i)
           new == [b EXCEPT !.word = w]
<1>3. ReadOne(t, b, i) = r
  BY <1>1 DEF ReadOne
<1>4. CASE k # "none"
  <2>1. r = [b EXCEPT !.kind = IF i < Len(t) THEN k ELSE @]
    <3> HIDE DEF k
    <3> QED
      BY <1>4 DEF Read, k
  <2> HIDE DEF k, r
  <2>2. r.kind = IF i < Len(t) THEN k ELSE b.kind
    BY <2>1 DEF Reads
  <2> QED
    BY <1>3, <1>4, <2>2 DEF k
<1>5. CASE k = "none"
  <2>1. \/ r = [new EXCEPT !.text[b.kind] = @ \o <<Blank>> \o w]
        \/ r = [new EXCEPT !.table = w] \/ r = [new EXCEPT !.kind = "void"]
        \/ r = [new EXCEPT !.kind = IF Contains(w, ",") THEN "void" ELSE @]
        \/ r = new
    <3> HIDE DEF k
    <3>1. CASE b.kind \in Clauses
      BY <1>2, <1>5, <3>1 DEF Read, k
    <3>2. CASE b.kind = "table"
      BY <1>2, <1>5, <3>2 DEF Read, k, Clauses
    <3>3. CASE b.kind = "during"
      BY <1>2, <1>5, <3>3 DEF Read, k, Clauses
    <3>4. CASE b.kind = "void"
      BY <1>2, <1>5, <3>4 DEF Read, k, Clauses
    <3> QED
      BY <1>2, <3>1, <3>2, <3>3, <3>4
  <2>2. r.word = w
    <3>1. "word" \in DOMAIN b
      BY DEF Reads
    <3>2. "word" \in DOMAIN new /\ new.word = w
      BY <3>1
    <3> HIDE DEF r, new
    <3> QED
      BY <2>1, <3>2
  <2> QED
    BY <1>3, <1>5, <2>2
<1> QED
  BY <1>4, <1>5

ReadAll(t) == FoldLeftDomain(LAMBDA b, i : IF i = 1 THEN b ELSE Read(t, b, i), Start, t)
Reading(a, t) ==
  /\ a[0] = Start
  /\ \A k \in 1..Len(t) : a[k] = ReadOne(t, a[k - 1], k)
  /\ \A k \in 0..Len(t) : a[k] \in Reads
  /\ ReadAll(t) = a[Len(t)]
(* SELECT is read word by word. *)
LEMMA ReadsWordByWord ==
  ASSUME NEW t \in Seq(Text)
  PROVE  \E a : Reading(a, t)
<1> DEFINE n == Len(t)
           g == [p \in Reads \X (1..n) |-> ReadOne(t, p[1], p[2])]
           Step(f, d) == IF d = {} THEN Start ELSE ReadOne(t, f[d \ {Max(d)}], Max(d))
           P(f) == f = [d \in SUBSET (1..n) |-> Step(f, d)]
           places == [i \in DOMAIN t |-> i]
<1>1. n \in Nat /\ DOMAIN t = 1..n
  BY LenProperties
<1>2. Start \in Reads
  <2>1. <<>> \in Text
    BY EmptySeq DEF Text
  <2> QED
    BY <2>1 DEF Start, Reads, Clauses
<1>3. ASSUME NEW b \in Reads, NEW k \in 1..n PROVE g[<<b, k>>] = ReadOne(t, b, k) /\ g[<<b, k>>] \in Reads
  <2>1. g[<<b, k>>] = ReadOne(t, b, k)
    OBVIOUS
  <2> HIDE DEF g
  <2> QED
    BY <2>1, ReadOneIs
<1>4. PICK h : /\ h = [d \in StartOf(n) |-> IF d = {} THEN Start ELSE g[<<h[d \ {Max(d)}], Max(d)>>]]
               /\ \A d \in StartOf(n) : h[d] \in Reads
  <2>1. \A b \in Reads, k \in 1..n : g[<<b, k>>] \in Reads
    BY <1>3
  <2> HIDE DEF g, n
  <2>2. PICK h : Tabled(h, Reads, Start, n, g)
    BY <1>1, <1>2, <2>1, FoldTable
  <2> QED
    BY <2>2 DEF Tabled
<1>5. P(h)
  <2>1. ASSUME NEW d \in StartOf(n) PROVE h[d] = Step(h, d)
    <3>1. CASE d = {}
      BY <1>4, <3>1
    <3>2. CASE d # {}
      <4>1. Max(d) \in 1..n /\ d \ {Max(d)} \in StartOf(n)
        <5> HIDE DEF n
        <5> QED
          BY <1>1, <3>2, MaxOfSet DEF StartOf
      <4>2. h[d] = g[<<h[d \ {Max(d)}], Max(d)>>]
        <5> HIDE DEF g
        <5> QED
          BY <1>4, <3>2
      <4>3. h[d \ {Max(d)}] \in Reads
        BY <1>4, <4>1
      <4> HIDE DEF g, n
      <4> QED
        BY <1>3, <3>2, <4>1, <4>2, <4>3
    <3> QED
      BY <3>1, <3>2
  <2>2. h = [d \in StartOf(n) |-> h[d]]
    <3> HIDE DEF g
    <3> QED
      BY <1>4
  <2> HIDE DEF Step
  <2> QED
    BY <2>1, <2>2 DEF StartOf
<1> DEFINE Placed(f, d) == IF d = {} THEN Start ELSE ReadOne(t, f[d \ {Max(d)}], places[Max(d)])
           Q(f) == f = [d \in SUBSET (DOMAIN places) |-> Placed(f, d)]
<1>6. ReadAll(t) = (CHOOSE f : Q(f))[DOMAIN places]
  BY Zenon DEF ReadAll, ReadOne, FoldLeftDomain, FoldLeft, MapThenFoldSet
<1>7. DOMAIN places = 1..n /\ \A i \in 1..n : places[i] = i
  BY <1>1
<1> HIDE DEF places
<1>8. ASSUME NEW f, NEW d \in SUBSET (1..n) PROVE Placed(f, d) = Step(f, d)
  <2>1. d # {} => Max(d) \in 1..n
    <3> HIDE DEF n
    <3> QED
      BY <1>1, MaxOfSet
  <2> HIDE DEF n
  <2> QED
    BY <1>7, <2>1
<1>9. Q(h)
  <2>1. h = [d \in SUBSET (1..n) |-> h[d]] /\ \A d \in SUBSET (1..n) : h[d] = Step(h, d)
    <3> HIDE DEF Step, n
    <3> QED
      BY <1>5
  <2> HIDE DEF Step, Placed, n
  <2> QED
    BY <1>7, <1>8, <2>1
<1> DEFINE f == CHOOSE f : Q(f)
<1>10. Q(f)
  <2> HIDE DEF Q
  <2> QED
    BY <1>9
<1>11. \A d \in StartOf(n) : f[d] = Step(f, d)
  <2> HIDE DEF f, Step, Placed, n
  <2> QED
    BY <1>7, <1>8, <1>10 DEF StartOf
<1>12. ReadAll(t) = f[1..n]
  BY <1>6, <1>7
<1> HIDE DEF f, P, Q, Placed
<1> DEFINE a == [k \in 0..n |-> f[1..k]]
<1>13. a[0] = Start
  <2>1. 1..0 = {} /\ 1..0 \in StartOf(n) /\ 0 \in 0..n
    BY <1>1 DEF StartOf
  <2>2. f[1..0] = Start
    BY <1>11, <2>1
  <2> QED
    BY <2>1, <2>2
<1>14. ASSUME NEW k \in 1..n PROVE a[k] = ReadOne(t, a[k - 1], k)
  <2>1. k \in 0..n /\ k - 1 \in 0..n
    BY <1>1
  <2>2. 1..k \in StartOf(n) /\ 1..k # {} /\ Max(1..k) = k /\ (1..k) \ {k} = 1..(k - 1)
    <3> HIDE DEF n
    <3> QED
      BY <1>1, Starts
  <2>3. f[1..k] = ReadOne(t, f[1..(k - 1)], k)
    BY <1>11, <2>2
  <2> QED
    BY <2>1, <2>3
<1>15. ReadAll(t) = a[n]
  BY <1>1, <1>12
<1> HIDE DEF a
<1> DEFINE G == {k \in Nat : k <= n => a[k] \in Reads}
<1>16. 0 \in G
  BY <1>2, <1>13
<1>17. ASSUME NEW k \in G PROVE k + 1 \in G
  <2>1. CASE k + 1 <= n
    <3> HIDE DEF n
    <3> DEFINE j == k + 1
    <3>1. k \in Nat /\ j \in 1..n /\ j - 1 = k /\ a[k] \in Reads
      BY <1>1, <1>17, <2>1
    <3> HIDE DEF j
    <3>2. a[j] = ReadOne(t, a[k], j)
      BY <1>14, <3>1
    <3>3. a[j] \in Reads
      BY <3>1, <3>2, ReadOneIs DEF n
    <3> QED
      BY <3>1, <3>3 DEF j
  <2>2. CASE ~(k + 1 <= n)
    <3> HIDE DEF n
    <3> QED
      BY <1>17, <2>2
  <2> QED
    BY <2>1, <2>2
<1>18. G = Nat
  <2>1. G \in SUBSET Nat
    OBVIOUS
  <2> HIDE DEF G
  <2> QED
    BY <1>16, <1>17, <2>1, NatSets
<1>19. \A k \in 0..n : a[k] \in Reads
  <2> HIDE DEF n
  <2> QED
    BY <1>1, <1>18
<1> QED
  BY <1>13, <1>14, <1>15, <1>19 DEF Reading

----------------------------------------------------------------------------
(* Offers: of names of the database, or of words of the line.               *)
(* The names of a database are spelled without keywords and signs. *)
NamesOnly(d) ==
  /\ TableNames(d) \subseteq Names /\ ColumnNames(d) \subseteq Names
  /\ \A t : TableAt(d, t) # 0 => ColumnHeads(TableOf(d, t)) \subseteq Names
(* What the views of a file bring to a database is names. *)
LEMMA DbNames ==
  ASSUME NEW d, Views(d.vw), d.indexed = d.vw
  PROVE  NamesOnly(d)
<1> DEFINE r == Len(Reports)
           m == Len(d.vw)
<1>1. IsDb(d) /\ Indexed(d) = Tables(d)
  BY DEF Views, IsDb, Indexed, Tables
<1>2. /\ r \in Nat /\ m \in Nat /\ DOMAIN Reports = 1..r /\ DOMAIN d.vw = 1..m
      /\ DOMAIN Tables(d) = 1..(r + m)
      /\ \A i \in 1..(r + m) : Tables(d)[i] = IF i <= r THEN Reports[i] ELSE d.vw[i - r]
  BY <1>1, TablesAre
<1>3. ASSUME NEW i \in DOMAIN Tables(d)
      PROVE  LET t == Tables(d)[i]
             IN  t.name \in Names /\ IsSeq(t.cols) /\ \A j \in DOMAIN t.cols : Spelled(t.cols[j])
  <2> HIDE DEF r, m
  <2>1. CASE i <= r
    <3>1. i \in DOMAIN Reports /\ Tables(d)[i] = Reports[i]
      BY <1>2, <1>3, <2>1
    <3> QED
      BY <3>1, ReportsAre
  <2>2. CASE ~(i <= r)
    <3>1. i - r \in DOMAIN d.vw /\ Tables(d)[i] = d.vw[i - r]
      BY <1>2, <1>3, <2>2
    <3> QED
      BY <3>1 DEF Views, AView
  <2> QED
    BY <2>1, <2>2
<1>4. TableNames(d) \subseteq Names
  BY <1>3 DEF TableNames
<1>5. ColumnNames(d) \subseteq Names
  <2>1. \A i \in DOMAIN Tables(d) : \A j \in DOMAIN Tables(d)[i].cols :
          IndexName(Tables(d)[i], Tables(d)[i].cols[j]) \in Names
    BY <1>3 DEF IndexName, Spelled
  <2> QED
    BY <1>1, <2>1 DEF ColumnNames
<1>6. ASSUME NEW t, TableAt(d, t) # 0 PROVE ColumnHeads(TableOf(d, t)) \subseteq Names
  <2>1. TableAt(d, t) \in DOMAIN Tables(d) /\ TableOf(d, t) = Tables(d)[TableAt(d, t)]
    BY <1>1, <1>6, TableAtIs DEF TableOf
  <2>2. \A j \in DOMAIN TableOf(d, t).cols : Spelled(TableOf(d, t).cols[j])
    BY <1>3, <2>1
  <2> QED
    BY <2>2 DEF ColumnHeads, Spelled
<1> QED
  BY <1>4, <1>5, <1>6 DEF NamesOnly

(* The names of a database are texts. *)
Worded(d) ==
  /\ TableNames(d) \subseteq Text /\ ColumnNames(d) \subseteq Text
  /\ \A t : TableAt(d, t) # 0 => ColumnHeads(TableOf(d, t)) \subseteq Text
(* The names of a database are words that can be typed. *)
LEMMA DbWords ==
  ASSUME NEW d, Views(d.vw), d.indexed = d.vw
  PROVE  Worded(d)
BY DbNames, NameTexts DEF NamesOnly, Worded

(* The word of an offer fits a text when it is the one at its end, or when   *)
(* that is a keyword.                                                        *)
Touching(w) == Len(w) = 1 /\ Keyword(w, <<"BY">>) # "none"
Fits(o, s) == o.names = {} \/ o.word = CursorWord(s) \/ Touching(CursorWord(s))
Offers(o) == o.names \subseteq Text /\ o.word \in Text /\ \A n \in o.names : IsPrefix(o.word, n)
(* An offer of nothing. *)
LEMMA NoOfferIs == Offers(NoOffer) /\ NoOffer.names = {} /\ ~NoOffer.lost /\ Offers(Lost) /\ Lost.names = {}
<1>1. <<>> \in Text
  BY EmptySeq DEF Text
<1> QED
  BY <1>1 DEF Offers, NoOffer, Lost

(* What an offer is made of, and when it is cut outside of a name. *)
LEMMA OfferIs ==
  ASSUME NEW names, NEW w \in Text
  PROVE  LET o == Offer(PrefixedBy(names, w), w)
         IN  /\ names \subseteq Text => Offers(o)
             /\ o.names = {} \/ o.word = w
             /\ names \subseteq Text /\ o.lost => HasWide(w)
             /\ names \subseteq Names => ~o.lost
<1> DEFINE ns == PrefixedBy(names, w)
           o == Offer(ns, w)
<1>1. \A n \in ns : n \in names /\ IsPrefix(w, n)
  BY DEF PrefixedBy
<1>2. \/ o = Lost /\ \E n \in ns : Bytes(w) > Chars(n)
      \/ o = [names |-> ns, word |-> w, lost |-> FALSE]
  <2> HIDE DEF ns
  <2> QED
    BY DEF Offer
<1> HIDE DEF ns, o
<1>3. names \subseteq Text => Offers(o)
  BY <1>1, <1>2, NoOfferIs DEF Offers
<1>4. o.names = {} \/ o.word = w
  BY <1>2, NoOfferIs
<1>5. ASSUME names \subseteq Text, o.lost PROVE HasWide(w)
  <2>1. PICK n \in ns : Bytes(w) > Chars(n)
    BY <1>2, <1>5
  <2>2. Chars(w) <= Chars(n) /\ Chars(w) \in Nat /\ Chars(n) \in Nat /\ Bytes(w) \in Nat
    BY <1>1, <1>5, PrefixChars, CharsIs
  <2>3. Bytes(w) # Chars(w)
    BY <2>1, <2>2
  <2> QED
    BY <2>3, CharsIs
<1>6. ASSUME names \subseteq Names PROVE ~o.lost
  <2>1. \A n \in ns : ~(Bytes(w) > Chars(n))
    BY <1>1, <1>6, NarrowName
  <2> QED
    BY <1>2, <2>1
<1> QED
  BY <1>3, <1>4, <1>5, <1>6 DEF o, ns

(* A name that is offered begins with the word. *)
LEMMA OfferNames ==
  ASSUME NEW names, NEW w, NEW n \in Offer(PrefixedBy(names, w), w).names
  PROVE  n \in names /\ IsPrefix(w, n) /\ Offer(PrefixedBy(names, w), w).word = w
<1> DEFINE ns == PrefixedBy(names, w)
           o == Offer(ns, w)
<1>1. n \in o.names
  OBVIOUS
<1> HIDE DEF ns
<1>2. o = Lost \/ o = [names |-> ns, word |-> w, lost |-> FALSE]
  BY DEF Offer
<1> HIDE DEF o
<1>3. o.names = ns /\ o.word = w
  BY <1>1, <1>2, NoOfferIs
<1> QED
  BY <1>1, <1>3 DEF o, ns, PrefixedBy

(* What is kept of the words of a SELECT is one of them, and what is grouped *)
(* or ordered by stands behind a BY.                                         *)
LEMMA ReadTakes ==
  ASSUME NEW t \in Seq(Text), NEW b \in Reads, NEW i \in 1..Len(t)
  PROVE  LET r == ReadOne(t, b, i)
         IN  /\ r.word \in {b.word, t[i]}
             /\ r.kind \in {"group", "order"} => r.kind = b.kind \/ t[i] = <<"BY">>
<1>1. b.kind \in Clauses \cup {"table", "during", "void"} /\ DOMAIN b.text = Clauses
  BY DEF Reads
<1> DEFINE k == Keyword(t[i], t[i - 1])
           w == t[i]
           r == Read(t, b, i)
           new == [b EXCEPT !.word = w]
<1>2. ReadOne(t, b, i) \in {b, r}
  BY DEF ReadOne
<1>3. k \in {"group", "order"} => w = <<"BY">>
  BY DEF Keyword, Is
<1>4. \/ r = [b EXCEPT !.kind = IF i < Len(t) THEN k ELSE @]
      \/ r = [new EXCEPT !.text[b.kind] = @ \o <<Blank>> \o w]
      \/ r = [new EXCEPT !.table = w] \/ r = [new EXCEPT !.kind = "void"]
      \/ r = [new EXCEPT !.kind = IF Contains(w, ",") THEN "void" ELSE @]
      \/ r = new
  <2> HIDE DEF k
  <2>1. CASE k # "none"
    BY <2>1 DEF Read, k
  <2>2. CASE k = "none"
    <3>1. CASE b.kind \in Clauses
      BY <1>1, <2>2, <3>1 DEF Read, k
    <3>2. CASE b.kind = "table"
      BY <1>1, <2>2, <3>2 DEF Read, k, Clauses
    <3>3. CASE b.kind = "during"
      BY <1>1, <2>2, <3>3 DEF Read, k, Clauses
    <3>4. CASE b.kind = "void"
      BY <1>1, <2>2, <3>4 DEF Read, k, Clauses
    <3> QED
      BY <1>1, <3>1, <3>2, <3>3, <3>4
  <2> QED
    BY <2>1, <2>2
<1>5. /\ "word" \in DOMAIN b /\ "kind" \in DOMAIN b
      /\ DOMAIN new = DOMAIN b /\ new.word = w /\ new.kind = b.kind
  <2>1. "word" \in DOMAIN b /\ "kind" \in DOMAIN b
    BY DEF Reads
  <2> QED
    BY <2>1
<1> HIDE DEF new, k, w
<1>6. r.word \in {b.word, w} /\ r.kind \in {b.kind, k, "void"}
  <2> HIDE DEF r
  <2> QED
    BY <1>4, <1>5
<1> HIDE DEF r
<1>7. r.kind \in {"group", "order"} => r.kind = b.kind \/ w = <<"BY">>
  BY <1>3, <1>6
<1> QED
  BY <1>2, <1>6, <1>7 DEF w

(* So at every word. *)
LEMMA ReadsTyped ==
  ASSUME NEW t \in Seq(Text), NEW b, Reading(b, t)
  PROVE  LET r == b[Len(t)]
         IN  /\ r.word = <<>> \/ \E i \in 1..Len(t) : r.word = t[i]
             /\ r.kind \in {"group", "order"} => \E i \in 1..Len(t) : t[i] = <<"BY">>
<1> DEFINE n == Len(t)
           Good(r) == /\ r.word = <<>> \/ \E i \in 1..n : r.word = t[i]
                      /\ r.kind \in {"group", "order"} => \E i \in 1..n : t[i] = <<"BY">>
           G == {k \in Nat : k <= n => Good(b[k])}
<1>1. n \in Nat
  BY LenProperties
<1>2. 0 \in G
  BY DEF Reading, Start
<1>3. ASSUME NEW k \in G PROVE k + 1 \in G
  <2> DEFINE j == k + 1
  <2>1. CASE j <= n
    <3>1. k \in Nat /\ j \in 1..n /\ j - 1 = k /\ k \in 0..n
      BY <1>1, <2>1
    <3>2. Good(b[k])
      BY <1>1, <2>1, <3>1
    <3> HIDE DEF j
    <3>3. b[j] = ReadOne(t, b[k], j) /\ b[k] \in Reads
      BY <3>1 DEF Reading
    <3>4. b[j].word \in {b[k].word, t[j]} /\ (b[j].kind \in {"group", "order"} => b[j].kind = b[k].kind \/ t[j] = <<"BY">>)
      BY <3>1, <3>3, ReadTakes
    <3>5. Good(b[j])
      BY <3>1, <3>2, <3>4
    <3> HIDE DEF Good
    <3> QED
      BY <3>1, <3>5 DEF j
  <2>2. CASE ~(j <= n)
    <3> HIDE DEF Good
    <3> QED
      BY <2>2
  <2> QED
    BY <2>1, <2>2
<1>4. G = Nat
  <2>1. G \in SUBSET Nat
    OBVIOUS
  <2> HIDE DEF G
  <2> QED
    BY <1>2, <1>3, <2>1, NatSets
<1>5. n \in G
  BY <1>1, <1>4
<1> HIDE DEF Good
<1>6. Good(b[n])
  BY <1>1, <1>5
<1> QED
  BY <1>6 DEF Good

(* The keys of the words are those of the text. *)
Kept(ws, s) == \A i \in 1..Len(ws) : \A j \in 1..Len(ws[i]) : \E p \in 1..Len(s) : s[p] = ws[i][j]
(* The words of a text are kept in it, in their order. *)
LEMMA WordsAreTyped ==
  ASSUME NEW s \in Text
  PROVE  Kept(Splits(s), s)
<1> DEFINE G == {u \in Text : Kept(Splits(u), u)}
<1>1. <<>> \in G
  <2>1. <<>> \in Text /\ Len(<<>>) = 0
    BY EmptySeq DEF Text
  <2>2. Len(<<<<>>>>) = 1 /\ <<<<>>>>[1] = <<>>
    OBVIOUS
  <2> QED
    BY <2>1, <2>2, SplitsEmpty DEF Kept
<1>2. ASSUME NEW u \in G, NEW k \in Keys PROVE Append(u, k) \in G
  <2> DEFINE r == Append(u, k)
             ws == Splits(u)
             n == Len(ws)
             longer == [ws EXCEPT ![n] = Append(@, k)]
  <2>1. u \in Text /\ r \in Text /\ Splits(r) = Split(ws, k) /\ ws \in WordLists /\ Kept(ws, u)
    BY SplitsGrow, SplitsAre
  <2>2. /\ Len(u) \in Nat /\ Len(r) = Len(u) + 1 /\ r[Len(u) + 1] = k
        /\ \A i \in 1..Len(u) : r[i] = u[i]
    BY <2>1, TextIs, TextGrows
  <2>3. /\ n \in Nat \ {0} /\ ws[n] \in Text /\ longer \in WordLists /\ Len(longer) = n
        /\ longer[n] = Append(ws[n], k) /\ \A i \in 1..(n - 1) : longer[i] = ws[i]
    BY <2>1, SplitIs
  <2>4. /\ Len(ws[n]) \in Nat /\ Len(longer[n]) = Len(ws[n]) + 1 /\ longer[n][Len(ws[n]) + 1] = k
        /\ \A j \in 1..Len(ws[n]) : longer[n][j] = ws[n][j]
    <3> DEFINE x == ws[n]
               y == longer[n]
    <3>1. x \in Text /\ y = Append(x, k)
      BY <2>3
    <3> HIDE DEF x, y, longer, ws, n
    <3>2. /\ Len(x) \in Nat /\ Len(y) = Len(x) + 1 /\ y[Len(x) + 1] = k
          /\ \A j \in 1..Len(x) : y[j] = x[j]
      BY <3>1, TextIs, TextGrows
    <3> QED
      BY <3>2 DEF x, y
  <2>5. Splits(r) \in {ws, Append(ws, <<>>), Append(longer, <<>>), longer}
    BY <2>1 DEF Split
  <2> HIDE DEF r, ws, longer, n
  <2>6. Kept(ws, r)
    BY <2>1, <2>2 DEF Kept
  <2>7. Kept(longer, r)
    <3> SUFFICES ASSUME NEW i \in 1..n, NEW j \in 1..Len(longer[i])
                 PROVE  \E p \in 1..Len(r) : r[p] = longer[i][j]
      BY <2>3 DEF Kept
    <3>1. CASE i \in 1..(n - 1)
      <4>1. longer[i] = ws[i] /\ i \in 1..Len(ws)
        BY <2>3, <3>1 DEF n
      <4>2. j \in 1..Len(ws[i])
        BY <4>1
      <4> QED
        BY <2>6, <4>1, <4>2 DEF Kept
    <3>2. CASE i = n /\ j = Len(ws[n]) + 1
      BY <2>2, <2>4, <3>2
    <3>3. CASE i = n /\ j # Len(ws[n]) + 1
      <4>1. j \in 1..Len(ws[n]) /\ longer[i][j] = ws[n][j] /\ n \in 1..Len(ws)
        BY <2>3, <2>4, <3>3 DEF n
      <4> QED
        BY <2>6, <4>1 DEF Kept
    <3> QED
      BY <2>3, <3>1, <3>2, <3>3
  <2>8. ASSUME NEW vs \in WordLists, Kept(vs, r) PROVE Kept(Append(vs, <<>>), r)
    <3>1. <<>> \in Text /\ Len(<<>>) = 0
      BY EmptySeq DEF Text
    <3>2. /\ Len(vs) \in Nat /\ Len(Append(vs, <<>>)) = Len(vs) + 1 /\ Append(vs, <<>>)[Len(vs) + 1] = <<>>
          /\ \A i \in 1..Len(vs) : Append(vs, <<>>)[i] = vs[i]
      BY <3>1, AppendProperties, LenProperties DEF WordLists
    <3> DEFINE w == Append(vs, <<>>)
    <3> HIDE DEF w
    <3>3. /\ Len(vs) \in Nat /\ Len(w) = Len(vs) + 1 /\ w[Len(vs) + 1] = <<>>
          /\ \A i \in 1..Len(vs) : w[i] = vs[i]
      BY <3>2 DEF w
    <3>4. Kept(w, r)
      BY <2>8, <3>1, <3>3 DEF Kept
    <3> QED
      BY <3>4 DEF w
  <2>9. Kept(Splits(r), r)
    <3>1. Kept(Append(ws, <<>>), r) /\ Kept(Append(longer, <<>>), r)
      BY <2>1, <2>3, <2>6, <2>7, <2>8
    <3> QED
      BY <2>5, <2>6, <2>7, <3>1
  <2> QED
    BY <2>1, <2>9 DEF r
<1>3. G \in SUBSET Seq(Keys)
  BY DEF Text
<1> HIDE DEF G
<1>4. G = Seq(Keys)
  BY <1>1, <1>2, <1>3, SeqSets
<1> QED
  BY <1>4 DEF G, Text

(* Names that are spelled without keywords and signs are texts. *)
LEMMA NamesAreWords ==
  ASSUME NEW d, NamesOnly(d)
  PROVE  Worded(d)
BY NameTexts DEF NamesOnly, Worded

(* What SELECT offers fits, and it loses the cursor only behind a BY.        *)
LEMMA SelectIs ==
  ASSUME NEW s \in Text, NEW d
  PROVE  LET o == SelectCompleter(d, s)
             t == Tokenize(s)
         IN  /\ NamesOnly(d) /\ o.lost => HasWide(s) /\ \E p \in 1..Len(s) : s[p] = "BY"
             /\ Worded(d) => Offers(o)
             /\ Len(t) < 2 => o.names = {} /\ ~o.lost
             /\ Len(t) >= 2 /\ Is(t[1], "SELECT") => Fits(o, s)
<1> DEFINE t == Tokenize(s)
           n == Len(t)
           o == SelectCompleter(d, s)
           a == ReadAll(t)
           w == a.word
           names ==
             CASE a.kind = "table"  -> ListTables(d, w)
               [] a.kind = "all"    -> IF Incomplete(a.text["all"]) THEN PrefixedBy(ColumnNames(d), w) ELSE {}
               [] a.kind = "column" -> IF ~WithCompletion(a.text["column"], <<Blank, "AND", Blank>>) THEN {}
                                       ELSE IF TableAt(d, a.table) = 0 THEN PrefixedBy(ColumnNames(d), w)
                                       ELSE ListTableColumns(d, a.table, w)
               [] a.kind \in {"group", "order"} ->
                    IF WithCompletion(a.text[a.kind], <<",">>) THEN PrefixedBy(Selected(a.text["all"]), w) ELSE {}
               [] a.kind = "during" -> PrefixedBy(DuringList, w)
               [] a.kind = "void"   -> {}
<1>1. o = IF n < 2 THEN NoOffer ELSE Offer(names, w)
  BY Zenon DEF SelectCompleter, ReadAll
<1>2. t \in Seq(Text) /\ n \in Nat
  <2>1. t \in Seq(Text)
    BY TokenizeIs
  <2> QED
    BY <2>1, LenProperties
<1>3. PICK b : Reading(b, t)
  <2> HIDE DEF t
  <2> QED
    BY <1>2, ReadsWordByWord
<1>4. a = b[n] /\ a \in Reads
  BY <1>2, <1>3 DEF Reading
<1>5. /\ a.kind \in Clauses \cup {"table", "during", "void"} /\ a.word \in Text /\ a.table \in Text
      /\ \A c \in Clauses : a.text[c] \in Text
  BY <1>4 DEF Reads
<1> DEFINE From(X) == /\ names = PrefixedBy(X, w)
                      /\ Worded(d) => X \subseteq Text
                      /\ NamesOnly(d) => X \subseteq Names \/ a.kind \in {"group", "order"}
<1>6. \E X : From(X)
  <2> HIDE DEF a, t, n, o
  <2>1. PrefixedBy({}, w) = {}
    BY DEF PrefixedBy
  <2>2. names = {} => From({})
    <3> HIDE DEF names
    <3> QED
      BY <2>1
  <2>3. CASE a.kind = "table"
    <3>1. names = PrefixedBy(TableNames(d), w)
      BY <2>3 DEF ListTables
    <3> HIDE DEF names
    <3>2. From(TableNames(d))
      BY <3>1 DEF Worded, NamesOnly
    <3> HIDE DEF From
    <3> QED
      BY <3>2
  <2>4. CASE a.kind = "all"
    <3>1. names = {} \/ names = PrefixedBy(ColumnNames(d), w)
      BY <2>4
    <3> HIDE DEF names
    <3>2. From({}) \/ From(ColumnNames(d))
      BY <2>2, <3>1 DEF Worded, NamesOnly
    <3> HIDE DEF From
    <3> QED
      BY <3>2
  <2>5. CASE a.kind = "column"
    <3>1. \/ names = {} \/ names = PrefixedBy(ColumnNames(d), w)
          \/ TableAt(d, a.table) # 0 /\ names = PrefixedBy(ColumnHeads(TableOf(d, a.table)), w)
      BY <2>5 DEF ListTableColumns
    <3> HIDE DEF names
    <3>2. From({}) \/ From(ColumnNames(d)) \/ From(ColumnHeads(TableOf(d, a.table)))
      BY <2>2, <3>1 DEF Worded, NamesOnly
    <3> HIDE DEF From
    <3> QED
      BY <3>2
  <2>6. CASE a.kind \in {"group", "order"}
    <3>1. names = {} \/ names = PrefixedBy(Selected(a.text["all"]), w)
      BY <2>6
    <3>2. Selected(a.text["all"]) \subseteq Text
      BY <1>5, SelectedAre DEF Clauses
    <3> HIDE DEF names
    <3>3. From({}) \/ From(Selected(a.text["all"]))
      BY <2>2, <2>6, <3>1, <3>2
    <3> HIDE DEF From
    <3> QED
      BY <3>3
  <2>7. CASE a.kind = "during"
    <3>1. names = PrefixedBy(DuringList, w)
      BY <2>7
    <3>2. DuringList \subseteq Text /\ DuringList \subseteq Names
      BY DuringAssumption, NameTexts
    <3> HIDE DEF names
    <3>3. From(DuringList)
      BY <3>1, <3>2
    <3> HIDE DEF From
    <3> QED
      BY <3>3
  <2>8. CASE a.kind = "void"
    <3>1. names = {}
      BY <2>8
    <3> HIDE DEF names, From
    <3> QED
      BY <2>2, <3>1
  <2> QED
    BY <1>5, <2>3, <2>4, <2>5, <2>6, <2>7, <2>8 DEF Clauses
<1>7. a.kind = "void" => names = {}
  <2> HIDE DEF a
  <2> QED
    OBVIOUS
<1>8. PICK X : From(X)
  BY <1>6
<1> HIDE DEF names, a, o, t
<1>9. /\ Worded(d) => Offers(o)
      /\ n < 2 => o.names = {} /\ ~o.lost
      /\ n >= 2 => (o.names = {} \/ o.word = w) /\ (names = {} => o.names = {})
      /\ NamesOnly(d) /\ o.lost => HasWide(w) /\ a.kind \in {"group", "order"}
  <2>1. CASE n < 2
    <3>1. o = NoOffer /\ ~(n >= 2)
      BY <1>1, <1>2, <2>1
    <3> QED
      BY <3>1, NoOfferIs
  <2>2. CASE ~(n < 2)
    <3>1. o = Offer(PrefixedBy(X, w), w)
      BY <1>1, <1>8, <2>2
    <3>2. /\ X \subseteq Text => Offers(o)
          /\ o.names = {} \/ o.word = w
          /\ X \subseteq Text /\ o.lost => HasWide(w)
          /\ X \subseteq Names => ~o.lost
      BY <1>5, <3>1, OfferIs
    <3>3. names = {} => o.names = {}
      <4>1. o = Offer(names, w)
        BY <1>8, <3>1
      <4>2. ASSUME names = {} PROVE o.names = {}
        BY <4>1, <4>2 DEF Offer, Lost, NoOffer
      <4> QED
        BY <4>2
    <3> QED
      BY <1>8, <2>2, <3>2, <3>3, NamesAreWords
  <2> QED
    BY <2>1, <2>2
<1>10. ASSUME NamesOnly(d), o.lost PROVE HasWide(s) /\ \E p \in 1..Len(s) : s[p] = "BY"
  <2>1. s # <<>> /\ Kept(t, s)
    <3>1. s # <<>>
      <4>1. Len(<<>>) = 0
        OBVIOUS
      <4>2. ~(n < 2)
        BY <1>9, <1>10
      <4> QED
        BY <1>2, <4>1, <4>2, TokenizeIs DEF t
    <3> QED
      BY <3>1, TokenizeIs, WordsAreTyped DEF t
  <2>2. HasWide(w) /\ a.kind \in {"group", "order"}
    BY <1>9, <1>10
  <2>3. /\ w = <<>> \/ \E i \in 1..n : w = t[i]
        /\ \E i \in 1..n : t[i] = <<"BY">>
    BY <1>2, <1>3, <1>4, <2>2, ReadsTyped
  <2>4. HasWide(s)
    <3>1. w # <<>>
      <4>1. DOMAIN <<>> = {}
        OBVIOUS
      <4> QED
        BY <2>2, <4>1 DEF HasWide
    <3>2. PICK i \in 1..n : w = t[i]
      BY <2>3, <3>1
    <3>3. DOMAIN w = 1..Len(w) /\ DOMAIN s = 1..Len(s)
      BY <1>5, TextIs
    <3>4. PICK j \in 1..Len(w) : w[j] \in DOMAIN Wide
      BY <2>2, <3>3 DEF HasWide
    <3>5. PICK p \in 1..Len(s) : s[p] = w[j]
      BY <2>1, <3>2, <3>4 DEF Kept
    <3> QED
      BY <3>3, <3>4, <3>5 DEF HasWide
  <2>5. \E p \in 1..Len(s) : s[p] = "BY"
    <3>1. PICK i \in 1..n : t[i] = <<"BY">>
      BY <2>3
    <3> DEFINE x == t[i]
    <3>2. Len(x) = 1 /\ x[1] = "BY"
      BY <3>1
    <3> HIDE DEF x
    <3>3. 1 \in 1..Len(x)
      BY <3>2
    <3>4. \A j \in 1..Len(x) : \E p \in 1..Len(s) : s[p] = x[j]
      BY <2>1 DEF Kept, x
    <3>5. \E p \in 1..Len(s) : s[p] = x[1]
      BY <3>3, <3>4
    <3> QED
      BY <3>2, <3>5
  <2> QED
    BY <2>4, <2>5
<1>11. ASSUME n >= 2, Is(t[1], "SELECT") PROVE Fits(o, s)
  <2>1. (o.names = {} \/ o.word = w) /\ (names = {} => o.names = {})
    BY <1>9, <1>11
  <2>2. s # <<>> /\ t[n] = CursorWord(s)
    <3>1. s # <<>>
      <4>1. Len(<<>>) = 0
        OBVIOUS
      <4> QED
        BY <1>11, <4>1, TokenizeIs DEF t
    <3> QED
      BY <3>1, TokenizeIs DEF t
  <2> DEFINE k == Keyword(t[n], t[n - 1])
  <2> HIDE DEF t, n
  <2>3. n \in 2..n /\ n = Len(t) /\ n - 1 \in 0..n /\ n \in 1..n
    BY <1>2, <1>11 DEF n
  <2>4. b[n] = ReadOne(t, b[n - 1], n) /\ b[n - 1] \in Reads
    BY <1>3, <2>3 DEF Reading
  <2>5. /\ k = "none" => b[n].word = t[n]
        /\ k # "none" => b[n].kind = b[n - 1].kind
    BY <1>2, <2>3, <2>4, ReadKeeps
  <2>6. CASE k = "none"
    BY <1>4, <2>1, <2>2, <2>5, <2>6 DEF Fits
  <2>7. CASE k # "none"
    <3>1. \/ \E c \in {"FROM", "WHERE", "DURING", "GROUP", "ORDER", "LIMIT"} : t[n] = <<c>>
          \/ t[n] = <<"BY">> /\ (Is(t[n - 1], "GROUP") \/ Is(t[n - 1], "ORDER"))
      BY <2>7 DEF Keyword, Is
    <3>2. CASE \E c \in {"FROM", "WHERE", "DURING", "GROUP", "ORDER", "LIMIT"} : t[n] = <<c>>
      <4>1. PICK c \in {"FROM", "WHERE", "DURING", "GROUP", "ORDER", "LIMIT"} : t[n] = <<c>>
        BY <3>2
      <4>2. Len(<<c>>) = 1
        OBVIOUS
      <4>3. Keyword(<<c>>, <<"BY">>) # "none"
        BY DEF Keyword, Is
      <4> QED
        BY <2>2, <4>1, <4>2, <4>3 DEF Fits, Touching
    <3>3. CASE t[n] = <<"BY">> /\ (Is(t[n - 1], "GROUP") \/ Is(t[n - 1], "ORDER"))
      <4> DEFINE m == n - 1
      <4>1. m # 1
        BY <1>11, <3>3 DEF Is
      <4>2. m \in 2..n /\ m \in 1..n /\ m - 1 \in 0..n /\ m < n
        BY <2>3, <4>1
      <4>3. Keyword(t[m], t[m - 1]) = "void"
        BY <3>3 DEF Keyword, Is
      <4> HIDE DEF m
      <4>4. b[m] = ReadOne(t, b[m - 1], m) /\ b[m - 1] \in Reads
        BY <1>3, <2>3, <4>2 DEF Reading
      <4>5. b[m].kind = "void"
        BY <1>2, <2>3, <4>2, <4>3, <4>4, ReadKeeps
      <4> QED
        BY <1>4, <1>7, <2>1, <2>5, <2>7, <4>5 DEF m, Fits
    <3> QED
      BY <3>1, <3>2, <3>3
  <2> QED
    BY <2>6, <2>7
<1> QED
  BY <1>9, <1>10, <1>11 DEF o, t

(* The verb of a line is its first word. *)
LEMMA VerbIs ==
  ASSUME NEW s \in Text, Len(Tokenize(s)) >= 2
  PROVE  Verb(s) = Tokenize(s)[1]
<1> DEFINE t == Tokenize(s)
           n == Len(t)
<1>1. t \in Seq(Text) /\ n \in Nat
  <2>1. t \in Seq(Text)
    BY TokenizeIs
  <2> QED
    BY <2>1, LenProperties
<1>2. Words(s) = t \/ Words(s) = SubSeq(t, 1, n - 1)
  BY DEF Words, Front
<1> HIDE DEF t
<1>3. n >= 2 /\ 1 \in 1..(n + 1) /\ n - 1 \in 0..n
  BY <1>1 DEF t
<1>4. Len(SubSeq(t, 1, n - 1)) = n - 1 /\ SubSeq(t, 1, n - 1)[1] = t[1]
  BY <1>1, <1>3, SliceIs
<1>5. Words(s) # <<>> /\ Words(s)[1] = t[1]
  <2>1. Len(<<>>) = 0
    OBVIOUS
  <2> QED
    BY <1>1, <1>2, <1>3, <1>4, <2>1
<1> QED
  BY <1>5 DEF Verb, t

(* Every offer of the completer fits its line. *)
LEMMA DescribeIs ==
  ASSUME NEW s \in Text, NEW d, Len(Tokenize(s)) >= 2
  PROVE  LET o == DescribeCompleter(d, s)
         IN  (NamesOnly(d) => ~o.lost) /\ Fits(o, s) /\ (Worded(d) => Offers(o))
<1> DEFINE t == Tokenize(s)
           n == Len(t)
           tpos == IF n >= 2 /\ Is(t[2], "FULL") THEN 3 ELSE 2
           o == DescribeCompleter(d, s)
<1>1. s # <<>> /\ t[n] = CursorWord(s) /\ CursorWord(s) \in Text
  <2>1. s # <<>>
    <3>1. Len(<<>>) = 0
      OBVIOUS
    <3> QED
      BY <3>1, TokenizeIs
  <2> QED
    BY <2>1, TokenizeIs, CursorIs
<1>2. o = CASE tpos = n     -> Offer(ListTables(d, t[n]), t[n])
            [] tpos = n - 1 -> IF TableAt(d, t[tpos]) = 0 THEN NoOffer
                               ELSE Offer(ListTableColumns(d, t[tpos], t[n]), t[n])
            [] OTHER        -> NoOffer
  BY DEF DescribeCompleter
<1> HIDE DEF o, n, t
<1>3. \/ o = NoOffer
      \/ o = Offer(ListTables(d, t[n]), t[n])
      \/ \E x : TableAt(d, x) # 0 /\ o = Offer(ListTableColumns(d, x, t[n]), t[n])
  <2> HIDE DEF tpos
  <2>1. CASE tpos = n
    BY <1>2, <2>1
  <2>2. CASE tpos # n /\ tpos = n - 1
    BY <1>2, <2>2
  <2>3. CASE tpos # n /\ tpos # n - 1
    BY <1>2, <2>3
  <2> QED
    BY <2>1, <2>2, <2>3
<1>4. CASE o = NoOffer
  BY <1>4, NoOfferIs DEF Fits, o
<1>5. CASE o = Offer(ListTables(d, t[n]), t[n])
  <2>1. o = Offer(PrefixedBy(TableNames(d), t[n]), t[n])
    BY <1>5 DEF ListTables
  <2>2. /\ TableNames(d) \subseteq Text => Offers(o)
        /\ o.names = {} \/ o.word = t[n]
        /\ TableNames(d) \subseteq Names => ~o.lost
    BY <1>1, <2>1, OfferIs
  <2> QED
    BY <1>1, <2>2 DEF Fits, Worded, NamesOnly, o
<1>6. CASE \E x : TableAt(d, x) # 0 /\ o = Offer(ListTableColumns(d, x, t[n]), t[n])
  <2>1. PICK x : TableAt(d, x) # 0 /\ o = Offer(ListTableColumns(d, x, t[n]), t[n])
    BY <1>6
  <2> DEFINE X == ColumnHeads(TableOf(d, x))
  <2>2. o = Offer(PrefixedBy(X, t[n]), t[n])
    BY <2>1 DEF ListTableColumns
  <2> HIDE DEF X
  <2>3. /\ X \subseteq Text => Offers(o)
        /\ o.names = {} \/ o.word = t[n]
        /\ X \subseteq Names => ~o.lost
    BY <1>1, <2>2, OfferIs
  <2> QED
    BY <1>1, <2>1, <2>3 DEF Fits, Worded, NamesOnly, X, o
<1> QED
  BY <1>3, <1>4, <1>5, <1>6

(* What SHOW offers fits, once its words are those of SHOW TABLES. *)
LEMMA ShowIs ==
  ASSUME NEW s \in Text, NEW d, Len(Tokenize(s)) >= 2
  PROVE  LET o == ShowCompleter(d, s)
             t == Tokenize(s)
         IN  /\ (NamesOnly(d) => ~o.lost) /\ (Worded(d) => Offers(o))
             /\ Fits(o, s) \/ SubSeq(t, 2, Len(t) - 1) \notin ShowWords
<1> DEFINE t == Tokenize(s)
           n == Len(t)
           Skip(at, k) == IF at <= n /\ Is(t[at], k) THEN at + 1 ELSE at
           a == Skip(2, "FULL")
           b == Skip(a, "TABLES")
           cpos == Skip(b, "WITH")
           o == ShowCompleter(d, s)
           m == SubSeq(t, 2, n - 1)
<1>1. s # <<>> /\ t[n] = CursorWord(s) /\ t \in Seq(Text)
  <2>1. s # <<>>
    <3>1. Len(<<>>) = 0
      OBVIOUS
    <3> QED
      BY <3>1, TokenizeIs
  <2> QED
    BY <2>1, TokenizeIs
<1>2. o = IF n < 4 \/ cpos > n THEN NoOffer ELSE Offer(PrefixedBy(ColumnNames(d), t[cpos]), t[cpos])
  BY DEF ShowCompleter
<1>3. n \in Nat /\ n >= 2 /\ \A i \in 1..n : t[i] \in Text
  <2> HIDE DEF t
  <2>1. n \in Nat
    BY <1>1, LenProperties
  <2> QED
    BY <1>1, <2>1, ElementOfSeq DEF t
<1> HIDE DEF t, n, o
<1>4. cpos \in 2..5
  BY <1>3
<1>5. CASE n < 4 \/ cpos > n
  BY <1>2, <1>5, NoOfferIs DEF Fits, o
<1>6. CASE n >= 4 /\ cpos <= n
  <2>1. o = Offer(PrefixedBy(ColumnNames(d), t[cpos]), t[cpos]) /\ t[cpos] \in Text
    <3> HIDE DEF cpos
    <3> QED
      BY <1>2, <1>3, <1>4, <1>6
  <2>2. /\ ColumnNames(d) \subseteq Text => Offers(o)
        /\ o.names = {} \/ o.word = t[cpos]
        /\ ColumnNames(d) \subseteq Names => ~o.lost
    <3> HIDE DEF cpos
    <3> QED
      BY <2>1, OfferIs
  <2>3. /\ (NamesOnly(d) => ~o.lost) /\ (Worded(d) => Offers(o))
        /\ o.names = {} \/ o.word = t[cpos]
    <3> HIDE DEF cpos
    <3> QED
      BY <2>2 DEF Worded, NamesOnly
  <2>4. ASSUME m \in ShowWords PROVE cpos = n
    <3>1. n - 2 \in Nat /\ 2 \in 1..(n + 1) /\ n - 1 \in 0..n /\ (n - 1) - 2 + 1 = n - 2
      BY <1>3
    <3>2. Len(m) = n - 2 /\ \A i \in 1..(n - 2) : m[i] = t[i + 1]
      <4>1. Len(m) = (n - 1) - 2 + 1 /\ \A i \in 1..((n - 1) - 2 + 1) : m[i] = t[2 + i - 1]
        BY <1>1, <1>3, <3>1, SliceIs
      <4> HIDE DEF m
      <4> QED
        BY <1>3, <4>1
    <3> HIDE DEF m
    <3>3. PICK p \in 0..1, q \in 0..1, r \in 0..1 :
            /\ Len(m) = p + q + r
            /\ p = 1 => m[1] = <<"FULL">>
            /\ q = 1 => m[p + 1] = <<"TABLES">>
            /\ r = 1 => m[p + q + 1] = <<"WITH">>
      <4>1. PICK f \in {<<>>, << <<"FULL">> >>}, g \in {<<>>, << <<"TABLES">> >>}, w \in {<<>>, << <<"WITH">> >>} :
              m = (f \o g) \o w
        BY <2>4 DEF ShowWords
      <4> DEFINE S == {<<"FULL">>, <<"TABLES">>, <<"WITH">>}
      <4>2. /\ f \in Seq(S) /\ Len(f) \in 0..1 /\ (Len(f) = 1 => f[1] = <<"FULL">>)
            /\ g \in Seq(S) /\ Len(g) \in 0..1 /\ (Len(g) = 1 => g[1] = <<"TABLES">>)
            /\ w \in Seq(S) /\ Len(w) \in 0..1 /\ (Len(w) = 1 => w[1] = <<"WITH">>)
        <5>1. <<"FULL">> \in S /\ <<"TABLES">> \in S /\ <<"WITH">> \in S
          OBVIOUS
        <5> HIDE DEF S
        <5>2. \A x \in S : <<x>> \in Seq(S) /\ Len(<<x>>) = 1 /\ <<x>>[1] = x
          OBVIOUS
        <5>3. <<>> \in Seq(S) /\ Len(<<>>) = 0
          BY EmptySeq
        <5>4. f \in Seq(S) /\ Len(f) \in 0..1 /\ (Len(f) = 1 => f[1] = <<"FULL">>)
          <6> DEFINE x == <<"FULL">>
          <6>1. x \in S /\ (f = <<>> \/ f = <<x>>)
            BY <5>1
          <6> HIDE DEF x
          <6>2. CASE f = <<>>
            BY <5>3, <6>2
          <6>3. CASE f = <<x>>
            BY <5>2, <6>1, <6>3 DEF x
          <6> QED
            BY <6>1, <6>2, <6>3
        <5>5. g \in Seq(S) /\ Len(g) \in 0..1 /\ (Len(g) = 1 => g[1] = <<"TABLES">>)
          <6> DEFINE x == <<"TABLES">>
          <6>1. x \in S /\ (g = <<>> \/ g = <<x>>)
            BY <5>1
          <6> HIDE DEF x
          <6>2. CASE g = <<>>
            BY <5>3, <6>2
          <6>3. CASE g = <<x>>
            BY <5>2, <6>1, <6>3 DEF x
          <6> QED
            BY <6>1, <6>2, <6>3
        <5>6. w \in Seq(S) /\ Len(w) \in 0..1 /\ (Len(w) = 1 => w[1] = <<"WITH">>)
          <6> DEFINE x == <<"WITH">>
          <6>1. x \in S /\ (w = <<>> \/ w = <<x>>)
            BY <5>1
          <6> HIDE DEF x
          <6>2. CASE w = <<>>
            BY <5>3, <6>2
          <6>3. CASE w = <<x>>
            BY <5>2, <6>1, <6>3 DEF x
          <6> QED
            BY <6>1, <6>2, <6>3
        <5> QED
          BY <5>4, <5>5, <5>6
      <4> HIDE DEF S
      <4> DEFINE e == f \o g
      <4>3. /\ e \in Seq(S) /\ Len(e) = Len(f) + Len(g)
            /\ \A i \in 1..(Len(f) + Len(g)) : e[i] = IF i <= Len(f) THEN f[i] ELSE g[i - Len(f)]
        BY <4>2, ConcatProperties
      <4> HIDE DEF e
      <4>4. /\ Len(m) = Len(e) + Len(w)
            /\ \A i \in 1..(Len(e) + Len(w)) : m[i] = IF i <= Len(e) THEN e[i] ELSE w[i - Len(e)]
        BY <4>1, <4>2, <4>3, ConcatProperties DEF e
      <4> QED
        BY <4>2, <4>3, <4>4
    <3>4. p + q + r = n - 2 /\ p + q + r >= 2 /\ m[1] = t[2] /\ m[2] = t[3] /\ (n >= 5 => m[3] = t[4])
      <4>1. p + q + r = n - 2 /\ p + q + r >= 2
        BY <1>3, <1>6, <3>2, <3>3
      <4>2. 1 \in 1..(n - 2) /\ 2 \in 1..(n - 2) /\ (n >= 5 => 3 \in 1..(n - 2)) /\ 1 + 1 = 2 /\ 2 + 1 = 3 /\ 3 + 1 = 4
        BY <1>3, <1>6
      <4>3. m[1] = t[1 + 1] /\ m[2] = t[2 + 1] /\ (n >= 5 => m[3] = t[3 + 1])
        BY <3>2, <4>2
      <4> QED
        BY <4>1, <4>2, <4>3
    <3>5. CASE p = 1 /\ q = 1 /\ r = 1
      <4>1. n = 5 /\ t[2] = <<"FULL">> /\ t[3] = <<"TABLES">> /\ t[4] = <<"WITH">>
        BY <1>3, <3>3, <3>4, <3>5
      <4>2. a = 3
        BY <4>1 DEF Is
      <4>3. b = 4
        BY <4>1, <4>2 DEF Is
      <4> HIDE DEF a, b
      <4> QED
        BY <4>1, <4>3 DEF Is
    <3>6. CASE p = 1 /\ q = 1 /\ r = 0
      <4>1. n = 4 /\ t[2] = <<"FULL">> /\ t[3] = <<"TABLES">>
        BY <1>3, <3>3, <3>4, <3>6
      <4> QED
        BY <1>6, <4>1 DEF Is
    <3>7. CASE p = 1 /\ q = 0 /\ r = 1
      <4>1. n = 4 /\ t[2] = <<"FULL">> /\ t[3] = <<"WITH">>
        BY <1>3, <3>3, <3>4, <3>7
      <4> QED
        BY <1>6, <4>1 DEF Is
    <3>8. CASE p = 0 /\ q = 1 /\ r = 1
      <4>1. n = 4 /\ t[2] = <<"TABLES">> /\ t[3] = <<"WITH">>
        BY <1>3, <3>3, <3>4, <3>8
      <4> QED
        BY <1>6, <4>1 DEF Is
    <3> HIDE DEF cpos
    <3> QED
      BY <3>4, <3>5, <3>6, <3>7, <3>8
  <2> HIDE DEF cpos
  <2>5. m \in ShowWords => Fits(o, s)
    BY <1>1, <2>3, <2>4 DEF Fits
  <2> QED
    BY <2>3, <2>5 DEF m, o, n, t
<1> QED
  BY <1>3, <1>4, <1>5, <1>6

(* Place finds the first place of a word that is in the text. *)
LEMMA PlaceIs ==
  ASSUME NEW s \in Text, NEW w, NEW p \in 0..Len(s), SubSeq(s, p + 1, p + Len(w)) = w
  PROVE  /\ Place(s, w) \in 0..p /\ Len(s) \in Nat
         /\ SubSeq(s, Place(s, w) + 1, Place(s, w) + Len(w)) = w
<1> DEFINE P == {x \in 0..Len(s) : SubSeq(s, x + 1, x + Len(w)) = w}
           i == Place(s, w)
<1>1. Len(s) \in Nat
  BY TextIs
<1>2. P \in SUBSET Nat /\ p \in P /\ P # {}
  <2>1. p \in P
    OBVIOUS
  <2>2. \A x \in 0..Len(s) : x \in Nat
    OBVIOUS
  <2> QED
    BY <2>1, <2>2, Zenon
<1>3. Min(P) \in P /\ \A x \in P : Min(P) <= x
  <2> HIDE DEF P
  <2> QED
    BY <1>2, MinOfSet
<1> DEFINE Here(x) == /\ SubSeq(s, x + 1, x + Len(w)) = w
                       /\ \A j \in 0..(x - 1) : SubSeq(s, j + 1, j + Len(w)) # w
<1>4. Min(P) \in 0..Len(s) /\ SubSeq(s, Min(P) + 1, Min(P) + Len(w)) = w
  BY <1>3
<1> DEFINE m == Min(P)
<1> HIDE DEF P
<1>5. \A j \in 0..(m - 1) : j \notin P /\ j \in 0..Len(s)
  BY <1>1, <1>3, <1>4
<1>6. \E x \in 0..Len(s) : Here(x)
  BY <1>4, <1>5 DEF P
<1>7. i = CHOOSE x \in 0..Len(s) : Here(x)
  BY DEF Place
<1> HIDE DEF i, Here
<1>8. i \in 0..Len(s) /\ Here(i)
  BY <1>6, <1>7
<1>9. i <= p
  <2>1. ~(p \in 0..(i - 1))
    BY <1>8 DEF Here
  <2> QED
    BY <1>1, <1>8, <2>1
<1> QED
  BY <1>1, <1>8, <1>9 DEF Here, i

(* The bytes before a place are the characters before it, or more. *)
LEMMA IndexIs ==
  ASSUME NEW s \in Text, NEW w, Place(s, w) \in 0..Len(s)
  PROVE  LET pre == SubSeq(s, 1, Place(s, w))
             rest == SubSeq(s, Place(s, w) + 1, Len(s))
         IN  /\ pre \in Text /\ rest \in Text /\ s = pre \o rest
             /\ Chars(s) = Chars(pre) + Chars(rest) /\ Chars(s) \in Nat /\ Chars(pre) \in Nat /\ Chars(rest) \in Nat
             /\ Index(s, w) \in Nat /\ Index(s, w) >= Chars(pre)
             /\ ~HasWide(pre) => Index(s, w) = Chars(pre)
<1> DEFINE pre == SubSeq(s, 1, Place(s, w))
           rest == SubSeq(s, Place(s, w) + 1, Len(s))
<1>1. pre \in Text /\ rest \in Text /\ s = pre \o rest
  BY PartsOfText
<1>2. Index(s, w) = Bytes(pre)
  BY DEF Index
<1> HIDE DEF pre, rest
<1>3. Chars(s) = Chars(pre) + Chars(rest) /\ Chars(s) \in Nat /\ Chars(pre) \in Nat /\ Chars(rest) \in Nat
  BY <1>1, CharsIs
<1>4. Bytes(pre) \in Nat /\ Bytes(pre) >= Chars(pre) /\ (~HasWide(pre) => Bytes(pre) = Chars(pre))
  BY <1>1, CharsIs
<1> QED
  BY <1>1, <1>2, <1>3, <1>4 DEF pre, rest

(* What a text ends with. *)
LEMMA SuffixIs ==
  ASSUME NEW u \in Text, NEW s \in Text, IsSuffix(u, s)
  PROVE  /\ Len(u) \in Nat /\ Len(s) \in Nat /\ Len(u) <= Len(s)
         /\ \A i \in 1..Len(u) : s[Len(s) - Len(u) + i] = u[i]
<1> DEFINE m == Len(u)
           n == Len(s)
           a == Reverse(u)
           b == Reverse(s)
<1>1. m \in Nat /\ n \in Nat /\ (\A i \in 1..m : u[i] \in Keys) /\ \A i \in 1..n : s[i] \in Keys
  BY TextIs
<1>2. /\ a \in Text /\ Len(a) = m /\ \A i \in 1..m : a[i] = u[m - i + 1]
      /\ b \in Text /\ Len(b) = n /\ \A i \in 1..n : b[i] = s[n - i + 1]
  <2> HIDE DEF Keys
  <2>1. a = [i \in 1..m |-> u[(m - i) + 1]] /\ b = [i \in 1..n |-> s[(n - i) + 1]]
    BY DEF Reverse
  <2> HIDE DEF m, n, a, b
  <2>2. (\A i \in 1..m : (m - i) + 1 \in 1..m) /\ \A i \in 1..n : (n - i) + 1 \in 1..n
    BY <1>1
  <2>3. a \in Seq(Keys) /\ Len(a) = m /\ \A i \in 1..m : a[i] = u[(m - i) + 1]
    BY <1>1, <2>1, <2>2
  <2>4. b \in Seq(Keys) /\ Len(b) = n /\ \A i \in 1..n : b[i] = s[(n - i) + 1]
    BY <1>1, <2>1, <2>2
  <2> QED
    BY <2>3, <2>4 DEF Text
<1>3. Len(a) <= Len(b) /\ SubSeq(a, 1, Len(a)) = SubSeq(b, 1, Len(a))
  BY DEF IsSuffix, IsPrefix
<1> HIDE DEF m, n, a, b
<1>4. m <= n /\ \A i \in 1..m : a[i] = b[i]
  <2>1. m <= n
    BY <1>2, <1>3
  <2>2. 1 \in 1..(m + 1) /\ m \in 0..m /\ 1 \in 1..(n + 1) /\ m \in 0..n /\ m - 1 + 1 = m
    BY <1>1, <2>1
  <2> DEFINE x == SubSeq(a, 1, m)
             y == SubSeq(b, 1, m)
  <2>3. \A i \in 1..m : x[i] = a[1 + i - 1]
    BY <1>2, <2>2, SliceIs DEF Text
  <2>4. \A i \in 1..m : y[i] = b[1 + i - 1]
    BY <1>2, <2>2, SliceIs DEF Text
  <2>5. \A i \in 1..m : 1 + i - 1 = i
    BY <1>1
  <2>6. x = y
    BY <1>2, <1>3
  <2> HIDE DEF x, y
  <2> QED
    BY <2>1, <2>3, <2>4, <2>5, <2>6
<1>5. ASSUME NEW i \in 1..m PROVE s[n - m + i] = u[i]
  <2> DEFINE j == m - i + 1
  <2>1. j \in 1..m /\ j \in 1..n /\ m - j + 1 = i /\ n - j + 1 = n - m + i
    BY <1>1, <1>4
  <2> HIDE DEF j
  <2>2. a[j] = u[m - j + 1] /\ b[j] = s[n - j + 1] /\ a[j] = b[j]
    BY <1>2, <1>4, <2>1
  <2> QED
    BY <2>1, <2>2
<1> QED
  BY <1>1, <1>4, <1>5 DEF m, n

(* The word at the cursor is the end of the text, and has no separator. *)
LEMMA CursorEnds ==
  ASSUME NEW s \in Text
  PROVE  /\ Stops(CursorWord(s)) = {}
         /\ \E p \in 0..Len(s) : /\ p + Len(CursorWord(s)) = Len(s)
                                 /\ SubSeq(s, p + 1, p + Len(CursorWord(s))) = CursorWord(s)
<1> DEFINE n == Len(s)
           w == CursorWord(s)
<1>1. n \in Nat /\ DOMAIN s = 1..n /\ s \in Seq(Keys)
  BY TextIs DEF Text
<1>2. PICK from \in 1..(n + 1) : w = SubSeq(s, from, n) /\ \A i \in from..n : i \notin Stops(s)
  BY CursorIs
<1> HIDE DEF n, w, Keys
<1>3. n \in 0..n /\ from <= n + 1 /\ from \in Nat
  BY <1>1
<1>4. Len(w) = n - from + 1 /\ DOMAIN w = 1..(n - from + 1) /\ \A i \in 1..(n - from + 1) : w[i] = s[from + i - 1]
  BY <1>1, <1>2, <1>3, SliceIs DEF n
<1>5. Stops(w) = {}
  <2> SUFFICES ASSUME NEW i \in DOMAIN w, w[i] \in {Blank, "("} PROVE FALSE
    BY DEF Stops
  <2>1. from + i - 1 \in from..n /\ from + i - 1 \in 1..n /\ w[i] = s[from + i - 1]
    BY <1>1, <1>3, <1>4
  <2> QED
    BY <1>1, <1>2, <2>1 DEF Stops
<1>6. /\ from - 1 \in 0..n /\ (from - 1) + Len(w) = n /\ SubSeq(s, (from - 1) + 1, (from - 1) + Len(w)) = w
  <2>1. from - 1 \in 0..n /\ (from - 1) + 1 = from /\ (from - 1) + Len(w) = n
    BY <1>1, <1>3, <1>4
  <2> QED
    BY <1>2, <2>1
<1> QED
  BY <1>5, <1>6 DEF n, w

(* A slice of one key. *)
LEMMA OneKey ==
  ASSUME NEW s \in Text, NEW k \in 1..Len(s)
  PROVE  SubSeq(s, k, k) = <<s[k]>>
<1>1. Len(s) \in Nat /\ s \in Seq(Keys) /\ s[k] \in Keys
  BY TextIs DEF Text
<1> HIDE DEF Keys
<1>2. k \in 1..(Len(s) + 1) /\ k \in 0..Len(s) /\ k <= k + 1 /\ k - k + 1 = 1 /\ k + 1 - 1 = k
  BY <1>1
<1> DEFINE x == SubSeq(s, k, k)
           y == <<s[k]>>
<1>3. x \in Seq(Keys) /\ Len(x) = 1 /\ x[1] = s[k]
  <2>1. x \in Seq(Keys) /\ Len(x) = k - k + 1 /\ \A i \in 1..(k - k + 1) : x[i] = s[k + i - 1]
    BY <1>1, <1>2, SliceIs
  <2> HIDE DEF x
  <2>2. 1 \in 1..(k - k + 1)
    BY <1>2
  <2> QED
    BY <1>2, <2>1, <2>2
<1>4. y \in Seq(Keys) /\ Len(y) = 1 /\ y[1] = s[k]
  BY <1>1
<1> HIDE DEF x, y
<1>5. \A i \in 1..1 : i = 1
  OBVIOUS
<1>6. x = y
  BY <1>3, <1>4, <1>5, SeqEqual
<1> QED
  BY <1>6 DEF x, y

(* What has no separator is less than two words. *)
LEMMA FewWords ==
  ASSUME NEW u \in Text, Stops(u) = {}
  PROVE  Len(Tokenize(u)) < 2
<1>1. Tokenize(u) = <<>> \/ Tokenize(u) = <<u>>
  BY OneWord, TokenizeIs
<1>2. Len(<<>>) = 0 /\ Len(<<u>>) = 1
  OBVIOUS
<1>3. Len(Tokenize(u)) = 0 \/ Len(Tokenize(u)) = 1
  BY <1>1, <1>2, Zenon
<1> DEFINE l == Len(Tokenize(u))
<1>4. l < 2
  <2> HIDE DEF l
  <2>1. l = 0 \/ l = 1
    BY <1>3 DEF l
  <2> QED
    BY <2>1
<1> QED
  BY <1>4

(* Nor has what begins it. *)
LEMMA PrefixStops ==
  ASSUME NEW s \in Text, Stops(s) = {}, NEW n \in Nat
  PROVE  Len(Tokenize(Before(s, n))) < 2
<1>1. Len(s) \in Nat /\ DOMAIN s = 1..Len(s) /\ s \in Seq(Keys)
  BY TextIs DEF Text
<1>2. PICK m \in 0..Len(s) : Before(s, n) \in {SubSeq(s, 1, m), Append(SubSeq(s, 1, m), Stump)}
  BY CutIs
<1> DEFINE u == SubSeq(s, 1, m)
           r == Append(u, Stump)
<1>3. 1 \in 1..(Len(s) + 1) /\ m - 1 + 1 = m /\ 1 <= m + 1 /\ m \in Nat
  BY <1>1
<1>4. u \in Text /\ Len(u) = m /\ DOMAIN u = 1..m /\ \A i \in 1..m : u[i] = s[1 + i - 1]
  <2> HIDE DEF Keys
  <2> QED
    BY <1>1, <1>3, SliceIs DEF Text
<1>5. Stump \in Keys /\ Stump \notin {Blank, "("}
  BY DEF Keys, Stump, Blank
<1> HIDE DEF u, Keys
<1>6. Stops(u) = {}
  <2> SUFFICES ASSUME NEW i \in 1..m, u[i] \in {Blank, "("} PROVE FALSE
    BY <1>4 DEF Stops
  <2>1. i \in DOMAIN s /\ u[i] = s[i]
    <3>1. 1 + i - 1 = i
      BY <1>1
    <3> QED
      BY <1>1, <1>4, <3>1
  <2> QED
    BY <2>1 DEF Stops
<1>7. r \in Text /\ DOMAIN r = 1..(m + 1) /\ r[m + 1] = Stump /\ \A i \in 1..m : r[i] = u[i]
  BY <1>4, <1>5, TextGrows, TextIs
<1> HIDE DEF r
<1>8. Stops(r) = {}
  <2> SUFFICES ASSUME NEW i \in 1..(m + 1), r[i] \in {Blank, "("} PROVE FALSE
    BY <1>7 DEF Stops
  <2>1. i # m + 1
    BY <1>5, <1>7
  <2>2. i \in 1..m
    BY <1>3, <2>1
  <2> QED
    BY <1>4, <1>6, <1>7, <2>2 DEF Stops
<1>9. Before(s, n) = u \/ Before(s, n) = r
  BY <1>2 DEF u, r
<1> QED
  BY <1>4, <1>6, <1>7, <1>8, <1>9, FewWords

(* The end of a text, cut off. *)
LEMMA SuffixPart ==
  ASSUME NEW u \in Text, NEW s \in Text, IsSuffix(u, s)
  PROVE  LET k == Len(s) - Len(u)
         IN  k \in 0..Len(s) /\ SubSeq(s, k + 1, Len(s)) = u
<1> DEFINE m == Len(u)
           n == Len(s)
           k == n - m
           v == SubSeq(s, k + 1, n)
<1>1. m \in Nat /\ n \in Nat /\ m <= n /\ \A i \in 1..m : s[k + i] = u[i]
  BY SuffixIs
<1>2. s \in Seq(Keys)
  BY DEF Text
<1> DEFINE a == k + 1
<1>3. k \in 0..n /\ a \in 1..(n + 1) /\ n \in 0..n /\ a <= n + 1 /\ n - a + 1 = m /\ \A i \in 1..m : a + i - 1 = k + i
  BY <1>1
<1> HIDE DEF Keys, a, n, m, k
<1>4. /\ SubSeq(s, a, n) \in Seq(Keys) /\ Len(SubSeq(s, a, n)) = n - a + 1
      /\ \A i \in 1..(n - a + 1) : SubSeq(s, a, n)[i] = s[a + i - 1]
  BY <1>2, <1>3, SliceIs DEF n
<1>5. v \in Text /\ Len(v) = m /\ \A i \in 1..m : v[i] = s[k + i]
  BY <1>3, <1>4 DEF a, Text
<1> HIDE DEF v
<1>6. v = u
  BY <1>1, <1>5, SeqEqual DEF m, Text
<1> QED
  BY <1>3, <1>6 DEF v, k, m, n

(* A text that begins with SELECT and a space, and ends a line, has the word *)
(* at its end in common with it.                                             *)
LEMMA SameCursor ==
  ASSUME NEW u \in Text, NEW s \in Text, Len(u) >= 2, u[2] = Blank, IsSuffix(u, s)
  PROVE  CursorWord(u) = CursorWord(s)
<1> DEFINE m == Len(u)
           n == Len(s)
<1>1. /\ m \in Nat /\ n \in Nat /\ m <= n /\ DOMAIN u = 1..m /\ DOMAIN s = 1..n
      /\ \A i \in 1..m : s[n - m + i] = u[i]
  BY SuffixIs, TextIs
<1>2. PICK from \in 1..(m + 1) :
        /\ CursorWord(u) = SubSeq(u, from, m)
        /\ from = 1 \/ from - 1 \in Stops(u)
        /\ \A i \in from..m : i \notin Stops(u)
  BY CursorIs
<1> HIDE DEF m, n
<1>3. 2 \in Stops(u)
  BY <1>1 DEF Stops, m
<1>4. from > 2 /\ from - 1 \in Stops(u) /\ from - 1 \in 1..m
  <2>1. ~(2 \in from..m)
    BY <1>2, <1>3
  <2>2. from > 2
    BY <1>1, <2>1 DEF m
  <2> QED
    BY <1>1, <1>2, <2>2
<1> DEFINE at == n - m + from
<1>5. at \in 1..(n + 1) /\ at - 1 \in 1..n /\ at - 1 = n - m + (from - 1)
  BY <1>1, <1>4
<1>6. at - 1 \in Stops(s)
  BY <1>1, <1>4, <1>5 DEF Stops
<1>7. ASSUME NEW i \in at..n PROVE i \notin Stops(s)
  <2> DEFINE j == i - (n - m)
  <2>1. j \in from..m /\ j \in 1..m /\ n - m + j = i
    BY <1>1, <1>4
  <2> HIDE DEF j
  <2>2. s[i] = u[j] /\ j \notin Stops(u)
    BY <1>1, <1>2, <2>1
  <2> QED
    BY <1>1, <2>1, <2>2 DEF Stops
<1> HIDE DEF at
<1>8. CursorWord(s) = SubSeq(s, at, n)
  BY <1>5, <1>6, <1>7, CursorAt DEF n
<1>9. SubSeq(s, at, n) = SubSeq(u, from, m)
  <2>1. u \in Seq(Keys) /\ s \in Seq(Keys)
    BY DEF Text
  <2>2. at <= n + 1 /\ n \in 0..n /\ m \in 0..m /\ from <= m + 1 /\ n - at + 1 = m - from + 1 /\ at \in Nat /\ from \in Nat
    BY <1>1, <1>4 DEF at
  <2> HIDE DEF Keys
  <2> DEFINE x == SubSeq(s, at, n)
             y == SubSeq(u, from, m)
             l == m - from + 1
  <2>3. /\ x \in Seq(Keys) /\ Len(x) = n - at + 1
        /\ \A i \in 1..(n - at + 1) : x[i] = s[at + i - 1]
    <3>1. at \in 1..(Len(s) + 1) /\ n \in 0..Len(s)
      BY <1>5, <2>2 DEF n
    <3> HIDE DEF x, y, l
    <3>2. SubSeq(s, at, n) = x
      BY DEF x
    <3> QED
      BY <2>1, <2>2, <3>1, <3>2, SliceIs
  <2>4. /\ y \in Seq(Keys) /\ Len(y) = m - from + 1
        /\ \A i \in 1..(m - from + 1) : y[i] = u[from + i - 1]
    BY <2>1, <2>2, SliceIs DEF m
  <2>5. ASSUME NEW i \in 1..l PROVE s[at + i - 1] = u[from + i - 1]
    <3>1. from + i - 1 \in 1..m /\ n - m + (from + i - 1) = at + i - 1
      BY <1>1, <1>4, <2>2 DEF at
    <3> QED
      BY <1>1, <3>1
  <2> HIDE DEF x, y
  <2>6. Len(x) = Len(y) /\ \A i \in 1..Len(x) : x[i] = y[i]
    BY <2>2, <2>3, <2>4, <2>5
  <2>7. x = y
    BY <2>3, <2>4, <2>6, SeqEqual
  <2> QED
    BY <2>7 DEF x, y
<1> QED
  BY <1>2, <1>8, <1>9

(* The SELECT of a CREATE VIEW, where it has one. *)
LEMMA SelectWordIs ==
  ASSUME NEW t \in Seq(Text)
  PROVE  LET i == SelectWord(t)
         IN  /\ Len(t) \in Nat /\ i \in 0..Len(t)
             /\ i # 0 => t[i] = <<"SELECT">>
<1> DEFINE I == {i \in 1..Len(t) : Is(t[i], "SELECT")}
<1>1. Len(t) \in Nat /\ SelectWord(t) = IF I # {} THEN Min(I) ELSE 0
  BY LenProperties DEF SelectWord, SelectInSeq
<1>2. I \in SUBSET Nat /\ \A i \in I : i \in 1..Len(t) /\ t[i] = <<"SELECT">>
  BY DEF Is
<1>3. CASE I = {}
  BY <1>1, <1>3
<1>4. CASE I # {}
  <2>1. Min(I) \in I
    <3> HIDE DEF I
    <3> QED
      BY <1>2, <1>4, MinOfSet
  <2> HIDE DEF I
  <2> QED
    BY <1>1, <1>2, <1>4, <2>1
<1> QED
  BY <1>3, <1>4

(* Where the first SELECT of a line is, and what is before it.               *)
SelectKey(s) == SelectInSeq(s, LAMBDA k : k = "SELECT")
Lead(s) == SubSeq(s, 1, SelectKey(s) - 1)
(* The first SELECT of a line. *)
LEMMA SelectKeyIs ==
  ASSUME NEW s \in Text, NEW p \in 1..Len(s), s[p] = "SELECT"
  PROVE  LET at == SelectKey(s)
         IN  /\ at \in 1..p /\ Len(s) \in Nat /\ s[at] = "SELECT"
             /\ \A i \in 1..(at - 1) : s[i] # "SELECT"
<1> DEFINE I == {i \in 1..Len(s) : s[i] = "SELECT"}
           at == Min(I)
<1>1. Len(s) \in Nat /\ SelectKey(s) = IF I # {} THEN Min(I) ELSE 0
  BY TextIs DEF SelectKey, SelectInSeq
<1>2. I \in SUBSET Nat /\ p \in I /\ I # {} /\ \A i \in 1..Len(s) : s[i] = "SELECT" => i \in I
  OBVIOUS
<1>3. at \in I /\ \A x \in I : at <= x
  <2> HIDE DEF I
  <2> QED
    BY <1>2, MinOfSet
<1>4. at \in 1..Len(s) /\ s[at] = "SELECT"
  <2> HIDE DEF at
  <2> QED
    BY <1>3
<1> HIDE DEF I
<1>5. SelectKey(s) = at
  BY <1>1, <1>2
<1> HIDE DEF at
<1>6. at <= p /\ \A i \in 1..(at - 1) : s[i] # "SELECT"
  <2>1. \A i \in 1..(at - 1) : i \in 1..Len(s) /\ ~(at <= i)
    BY <1>1, <1>4
  <2> QED
    BY <1>2, <1>3, <2>1
<1> QED
  BY <1>1, <1>4, <1>5, <1>6

(* That is where the word SELECT is found. *)
LEMMA SelectPlace ==
  ASSUME NEW s \in Text, NEW q \in 1..Len(s), s[q] = "SELECT"
  PROVE  LET w == <<"SELECT">>
         IN  /\ Place(s, w) + 1 = SelectKey(s) /\ Place(s, w) \in 0..Len(s) /\ Place(s, w) <= q - 1
             /\ SelectKey(s) \in 1..Len(s) /\ Lead(s) = SubSeq(s, 1, Place(s, w))
<1> DEFINE at == SelectKey(s)
           n == Len(s)
           w == <<"SELECT">>
           p == at - 1
           x == Place(s, w)
<1>1. Len(w) = 1
  OBVIOUS
<1>2. at \in 1..q /\ n \in Nat /\ s[at] = "SELECT" /\ \A i \in 1..(at - 1) : s[i] # "SELECT"
  BY SelectKeyIs
<1> HIDE DEF at, n
<1>3. p \in 0..Len(s) /\ p + 1 = at /\ at \in 1..Len(s)
  BY <1>2 DEF n
<1>4. SubSeq(s, p + 1, p + Len(w)) = w
  <2>1. SubSeq(s, at, at) = <<s[at]>>
    BY <1>3, OneKey
  <2> QED
    BY <1>1, <1>2, <1>3, <2>1
<1> HIDE DEF p
<1>5. x \in 0..p /\ SubSeq(s, x + 1, x + Len(w)) = w
  BY <1>3, <1>4, PlaceIs
<1> HIDE DEF x
<1>6. x + 1 \in 1..Len(s)
  BY <1>2, <1>3, <1>5 DEF n
<1>7. SubSeq(s, x + 1, x + 1) = <<s[x + 1]>>
  BY <1>6, OneKey
<1>8. s[x + 1] = "SELECT"
  <2>1. <<s[x + 1]>> = <<"SELECT">>
    BY <1>1, <1>5, <1>7
  <2> QED
    BY <2>1
<1>9. ~(x + 1 \in 1..(at - 1))
  BY <1>2, <1>8
<1>10. x + 1 = at /\ x \in 0..Len(s) /\ x <= q - 1 /\ at - 1 = x
  BY <1>2, <1>3, <1>5, <1>9 DEF n
<1>11. Lead(s) = SubSeq(s, 1, x)
  BY <1>10 DEF Lead, at
<1> QED
  BY <1>3, <1>10, <1>11 DEF at, x

(* The word that CREATE VIEW looks for is in the line. *)
LEMMA WordFound ==
  ASSUME NEW s \in Text, Len(Tokenize(s)) >= 2
  PROVE  LET t == Tokenize(s)
             i == IF SelectWord(t) = 0 THEN Len(t) ELSE SelectWord(t)
         IN  \E p \in 0..Len(s) : SubSeq(s, p + 1, p + Len(t[i])) = t[i]
<1> DEFINE t == Tokenize(s)
           n == Len(t)
           at == SelectWord(t)
           i == IF at = 0 THEN n ELSE at
<1>1. /\ s # <<>> /\ t[n] = CursorWord(s) /\ t \in Seq(Text) /\ CursorWord(s) \in Text /\ t = Splits(s)
      /\ Len(s) \in Nat /\ n >= 2
  <2>1. s # <<>>
    <3>1. Len(<<>>) = 0
      OBVIOUS
    <3> QED
      BY <3>1, TokenizeIs
  <2> QED
    BY <2>1, TokenizeIs, CursorIs, TextIs
<1> HIDE DEF t
<1>4. n \in Nat /\ at \in 0..n /\ (at # 0 => t[at] = <<"SELECT">>) /\ i \in 1..n
  BY <1>1, SelectWordIs
<1> HIDE DEF n, at, i
<1>7. \E p \in 0..Len(s) : SubSeq(s, p + 1, p + Len(t[i])) = t[i]
  <2>1. CASE at = 0
    BY <1>1, <2>1, CursorEnds DEF i
  <2>2. CASE at # 0
    <3>1. t[i] = <<"SELECT">> /\ Len(t[i]) = 1 /\ t[i][1] = "SELECT"
      <4>1. Len(<<"SELECT">>) = 1 /\ <<"SELECT">>[1] = "SELECT"
        OBVIOUS
      <4>2. t[i] = <<"SELECT">>
        BY <1>4, <2>2 DEF i
      <4> QED
        BY <4>1, <4>2
    <3>2. PICK q \in 1..Len(s) : s[q] = "SELECT"
      <4>1. i \in 1..Len(t) /\ 1 \in 1..Len(t[i]) /\ Kept(t, s)
        BY <1>1, <1>4, <3>1, WordsAreTyped DEF n
      <4>2. \E q \in 1..Len(s) : s[q] = t[i][1]
        BY <4>1 DEF Kept
      <4> QED
        BY <3>1, <4>2
    <3>3. q - 1 \in 0..Len(s) /\ (q - 1) + 1 = q /\ (q - 1) + 1 = q /\ SubSeq(s, q, q) = <<s[q]>>
      BY <1>1, OneKey
    <3> QED
      BY <3>1, <3>2, <3>3
  <2> QED
    BY <2>1, <2>2
<1> QED
  BY <1>7 DEF i, at, n, t

(* The cursor is moved by a number of bytes. *)
LEMMA IndexOfWord ==
  ASSUME NEW s \in Text, Len(Tokenize(s)) >= 2
  PROVE  LET t == Tokenize(s)
             i == IF SelectWord(t) = 0 THEN Len(t) ELSE SelectWord(t)
         IN  Place(s, t[i]) \in 0..Len(s) /\ Index(s, t[i]) \in Nat
<1> DEFINE t == Tokenize(s)
           i == IF SelectWord(t) = 0 THEN Len(t) ELSE SelectWord(t)
           w == t[i]
<1>1. PICK p \in 0..Len(s) : SubSeq(s, p + 1, p + Len(w)) = w
  BY WordFound
<1> HIDE DEF w
<1>2. Place(s, w) \in 0..p /\ Len(s) \in Nat
  BY <1>1, PlaceIs
<1>3. Place(s, w) \in 0..Len(s)
  BY <1>2
<1>4. Index(s, w) \in Nat
  BY <1>3, IndexIs
<1> QED
  BY <1>3, <1>4 DEF w

(* What CREATE VIEW offers fits, or its SELECT is not the end of the line,   *)
(* or the cursor is moved by too much.                                       *)
LEMMA CreateOfferIs ==
  ASSUME NEW s \in Text, NEW d, Len(Tokenize(s)) >= 2, Is(Tokenize(s)[1], "CREATE")
  PROVE  LET o == CreateCompleter(d, s)
             t == Tokenize(s)
         IN  /\ Worded(d) => Offers(o)
             /\ \/ Fits(o, s)
                \/ SelectWord(t) # 0 /\ ~IsSuffix(Joined(SubSeq(t, SelectWord(t), Len(t))), s)
                \/ HasWide(Lead(s))
<1> DEFINE t == Tokenize(s)
           n == Len(t)
           at == SelectWord(t)
           i == IF at = 0 THEN n ELSE at
           text == Joined(SubSeq(t, i, n))
           place == Place(s, t[i])
           from == Index(s, t[i])
           pos == Chars(s) - from
           out == Chars(s) \notin from..(from + Chars(text))
           o == CreateCompleter(d, s)
<1>1. /\ s # <<>> /\ t[n] = CursorWord(s) /\ t \in Seq(Text) /\ CursorWord(s) \in Text /\ t = Splits(s)
      /\ Len(s) \in Nat
  <2>1. s # <<>>
    <3>1. Len(<<>>) = 0
      OBVIOUS
    <3> QED
      BY <3>1, TokenizeIs
  <2> QED
    BY <2>1, TokenizeIs, CursorIs, TextIs
<1>2. o = IF i = 1 THEN NoOffer ELSE IF out THEN Lost ELSE SelectCompleter(d, Before(text, pos))
  BY Zenon DEF CreateCompleter, SelectWord
<1>3. n >= 2 /\ t[1] = <<"CREATE">>
  BY DEF Is
<1> HIDE DEF t, o, text, pos, place, from, out
<1>4. n \in Nat /\ at \in 0..n /\ (at # 0 => t[at] = <<"SELECT">>) /\ i \in 1..n
  BY <1>1, <1>3, SelectWordIs
<1> HIDE DEF n, at, i
<1>5. SubSeq(t, i, n) \in Seq(Text) /\ Len(SubSeq(t, i, n)) = n - i + 1 /\ SubSeq(t, i, n)[1] = t[i]
  <2>1. i \in 1..(n + 1) /\ n \in 0..n /\ i <= n + 1 /\ 1 \in 1..(n - i + 1) /\ i + 1 - 1 = i
    BY <1>4
  <2>2. /\ SubSeq(t, i, n) \in Seq(Text) /\ Len(SubSeq(t, i, n)) = n - i + 1
        /\ \A j \in 1..(n - i + 1) : SubSeq(t, i, n)[j] = t[i + j - 1]
    BY <1>1, <2>1, SliceIs DEF n
  <2> QED
    BY <2>1, <2>2
<1>6. text \in Text /\ Len(text) \in Nat /\ Chars(text) \in Nat
  BY <1>5, JoinedIs, TextIs, CharsIs DEF text
<1>7. PICK p \in 0..Len(s) : SubSeq(s, p + 1, p + Len(t[i])) = t[i]
  BY <1>3, WordFound DEF t, n, at, i
<1> DEFINE pre == SubSeq(s, 1, place)
           rest == SubSeq(s, place + 1, Len(s))
<1>8. /\ place \in 0..p /\ place \in 0..Len(s) /\ pre \in Text /\ rest \in Text
      /\ Chars(s) = Chars(pre) + Chars(rest) /\ Chars(s) \in Nat /\ Chars(pre) \in Nat /\ Chars(rest) \in Nat
      /\ from \in Nat /\ from >= Chars(pre) /\ (~HasWide(pre) => from = Chars(pre))
  <2>1. place \in 0..p
    BY <1>7, PlaceIs DEF place
  <2>2. place \in 0..Len(s)
    BY <1>1, <2>1
  <2> QED
    BY <2>1, <2>2, IndexIs DEF place, from, pre, rest
<1> HIDE DEF pre, rest
<1>9. CASE i = 1 \/ out
  <2>1. o = NoOffer \/ o = Lost
    BY <1>2, <1>9
  <2> QED
    BY <2>1, NoOfferIs DEF Fits, o
<1>10. CASE i # 1 /\ ~out
  <2> DEFINE u == Before(text, pos)
  <2>1. o = SelectCompleter(d, u)
    BY <1>2, <1>10
  <2>2. pos \in Nat /\ pos <= Chars(text) /\ u \in Text
    <3>1. pos \in Nat /\ pos <= Chars(text)
      BY <1>6, <1>8, <1>10 DEF pos, out
    <3> QED
      BY <1>6, <3>1, CutIs
  <2> HIDE DEF u
  <2>3. /\ Worded(d) => Offers(o)
        /\ Len(Tokenize(u)) < 2 => o.names = {}
        /\ Len(Tokenize(u)) >= 2 /\ Is(Tokenize(u)[1], "SELECT") => Fits(o, u)
    BY <2>1, <2>2, SelectIs
  <2>4. CASE i = n
    <3>1. text = t[n]
      <4> DEFINE x == SubSeq(t, i, n)
                 e == <<>>
      <4>1. e \in Seq(Text) /\ t[n] \in Text
        BY <1>1, EmptySeq
      <4>2. x = Append(e, t[n])
        <5>1. Len(x) = 1 /\ x[1] = t[n] /\ x \in Seq(Text)
          BY <1>4, <1>5, <2>4
        <5> HIDE DEF x
        <5>2. Append(e, t[n]) \in Seq(Text) /\ Len(Append(e, t[n])) = 1 /\ Append(e, t[n])[1] = t[n]
          BY <4>1
        <5> HIDE DEF e
        <5>3. \A j \in 1..1 : j = 1
          OBVIOUS
        <5> QED
          BY <5>1, <5>2, <5>3, SeqEqual
      <4>3. Joined(Append(e, t[n])) = t[n]
        BY <4>1, JoinedGrows
      <4> HIDE DEF x, e
      <4> QED
        BY <4>2, <4>3 DEF text, x
    <3>2. Stops(text) = {}
      BY <1>1, <3>1, CursorEnds
    <3>3. Len(Tokenize(u)) < 2
      BY <1>6, <2>2, <3>2, PrefixStops DEF u
    <3> QED
      BY <2>3, <3>3 DEF Fits, o
  <2>5. CASE i # n /\ IsSuffix(text, s) /\ ~HasWide(Lead(s))
    <3>1. i < n /\ at # 0 /\ t[i] = <<"SELECT">>
      BY <1>4, <2>5 DEF i
    <3>2. Len(t[i]) = 1 /\ t[i][1] = "SELECT"
      BY <3>1
    <3> DEFINE x == SubSeq(t, i, n)
    <3>3. Len(x) >= 2 /\ x # <<>> /\ x \in Seq(Text) /\ x[1] = t[i] /\ text = Joined(x)
      <4>1. Len(<<>>) = 0
        OBVIOUS
      <4>2. Len(x) = n - i + 1 /\ x \in Seq(Text) /\ x[1] = t[i] /\ text = Joined(x)
        BY <1>5 DEF text
      <4>3. n - i + 1 >= 2
        BY <1>4, <3>1
      <4> HIDE DEF x
      <4> QED
        BY <4>1, <4>2, <4>3
    <3> HIDE DEF x
    <3>4. Len(text) >= 2 /\ text[1] = "SELECT" /\ text[2] = Blank
      <4>1. /\ Len(x[1]) + 1 <= Len(text) /\ text[Len(x[1]) + 1] = Blank
            /\ \A j \in 1..Len(x[1]) : text[j] = x[1][j]
        BY <3>3, JoinedIs
      <4>2. 1 \in 1..1 /\ 1 + 1 = 2 /\ Len(x[1]) = 1
        BY <3>2, <3>3
      <4> QED
        BY <1>6, <3>2, <3>3, <4>1, <4>2
    <3> DEFINE k == Len(s) - Len(text)
    <3>5. k \in 0..Len(s) /\ s[k + 1] = "SELECT" /\ k + 1 \in 1..Len(s)
      <4>1. Len(text) <= Len(s) /\ \A j \in 1..Len(text) : s[Len(s) - Len(text) + j] = text[j]
        BY <1>6, <2>5, SuffixIs
      <4>2. 1 \in 1..Len(text)
        BY <1>6, <3>4
      <4> QED
        BY <1>1, <1>6, <3>4, <4>1, <4>2
    <3>6. Lead(s) = pre /\ place <= k
      <4> HIDE DEF k
      <4>1. /\ Lead(s) = SubSeq(s, 1, Place(s, <<"SELECT">>))
            /\ Place(s, <<"SELECT">>) <= (k + 1) - 1
        BY <3>5, SelectPlace
      <4>2. (k + 1) - 1 = k
        BY <3>5
      <4> QED
        BY <3>1, <4>1, <4>2 DEF place, pre
    <3>7. Chars(s) = Chars(SubSeq(s, 1, k)) + Chars(text) /\ Chars(pre) <= Chars(SubSeq(s, 1, k))
      <4>1. SubSeq(s, k + 1, Len(s)) = text
        BY <1>6, <2>5, SuffixPart
      <4> DEFINE y == SubSeq(s, 1, k)
      <4>2. y \in Text /\ s = y \o text
        <5> HIDE DEF k
        <5> QED
          BY <3>5, <4>1, PartsOfText
      <4>3. Chars(pre) <= Chars(y)
        <5> HIDE DEF k
        <5>1. CASE place = k
          <6>1. Chars(y) = Chars(pre)
            BY <5>1 DEF pre
          <6> HIDE DEF y
          <6> QED
            BY <1>8, <6>1
        <5>2. CASE place < k
          <6>1. Chars(pre) < Chars(y) /\ Chars(y) \in Nat
            BY <1>8, <3>5, <4>2, <5>2, StartChars, CharsIs DEF pre
          <6> HIDE DEF y
          <6> QED
            BY <1>8, <6>1
        <5> QED
          BY <1>8, <3>5, <3>6, <5>1, <5>2
      <4> HIDE DEF y
      <4>4. Chars(s) = Chars(y) + Chars(text)
        BY <1>6, <4>2, CharsIs
      <4> QED
        BY <4>3, <4>4 DEF y
    <3>8. pos = Chars(text)
      <4> DEFINE y == SubSeq(s, 1, k)
      <4>1. from = Chars(pre)
        BY <1>8, <2>5, <3>6
      <4>2. Chars(y) \in Nat
        <5>1. y \in Text
          <6> HIDE DEF k
          <6> QED
            BY <3>5, PartsOfText
        <5> QED
          BY <5>1, CharsIs
      <4>3. Chars(s) = Chars(y) + Chars(text) /\ Chars(pre) <= Chars(y)
        BY <3>7
      <4> HIDE DEF y
      <4>4. pos = Chars(s) - Chars(pre)
        BY <4>1 DEF pos
      <4> QED
        BY <1>6, <1>8, <2>2, <4>2, <4>3, <4>4
    <3>9. u = text
      <4>1. Len(text) \in 0..Len(text) /\ text \in Seq(Keys)
        BY <1>6 DEF Text
      <4>2. SubSeq(text, 1, Len(text)) = text
        <5> HIDE DEF Keys
        <5> QED
          BY <4>1
      <4>3. u = SubSeq(text, 1, Len(text))
        BY <1>6, <2>2, <3>8, <4>1, <4>2, CutIs DEF u
      <4> QED
        BY <4>2, <4>3
    <3>10. Len(Tokenize(u)) >= 2 /\ Is(Tokenize(u)[1], "SELECT")
      <4>1. "SELECT" \notin {Blank, "("}
        BY Zenon DEF Blank
      <4>2. Opens(text) /\ text # <<>>
        <5>1. Len(<<>>) = 0
          OBVIOUS
        <5> QED
          BY <3>4, <4>1, <5>1 DEF Opens
      <4> QED
        BY <1>6, <3>4, <3>9, <4>2, FirstWord, TokenizeIs DEF Is
    <3>11. CursorWord(u) = CursorWord(s)
      BY <1>6, <2>5, <3>4, <3>9, SameCursor
    <3> QED
      BY <2>3, <3>10, <3>11 DEF Fits, o
  <2>6. CASE HasWide(Lead(s))
    BY <2>3, <2>6 DEF o
  <2>7. CASE i # n /\ ~IsSuffix(text, s)
    <3>1. at # 0 /\ i = at
      BY <2>7 DEF i
    <3> QED
      BY <2>3, <2>7, <3>1 DEF text, at, n, t, o
  <2> QED
    BY <2>4, <2>5, <2>6, <2>7
<1> QED
  BY <1>6, <1>8, <1>9, <1>10

(* What the completer offers for a text, and where it looks at another word. *)
Elsewhere(s) ==
  LET t == Tokenize(s)
  IN  \/ Is(Verb(s), "SHOW") /\ SubSeq(t, 2, Len(t) - 1) \notin ShowWords
      \/ /\ Is(Verb(s), "CREATE")
         /\ \/ HasWide(Lead(s))
            \/ SelectWord(t) # 0 /\ ~IsSuffix(Joined(SubSeq(t, SelectWord(t), Len(t))), s)
(* What any statement offers fits, but for the places named. *)
LEMMA DoIs ==
  ASSUME NEW s \in Text, NEW d
  PROVE  (Worded(d) => Offers(Do(d, s))) /\ (Fits(Do(d, s), s) \/ Elsewhere(s))
<1> DEFINE t == Tokenize(s)
           o == Do(d, s)
<1>1. Len(t) \in Nat
  <2>1. t \in Seq(Text)
    BY TokenizeIs
  <2> QED
    BY <2>1, LenProperties
<1>2. CASE o = NoOffer
  BY <1>2, NoOfferIs DEF Fits
<1>3. CASE s # <<>> /\ Len(t) >= 2 /\ Is(t[1], "CREATE")
  <2>1. o = CreateCompleter(d, s)
    BY <1>1, <1>3 DEF Do, Is
  <2>2. Is(Verb(s), "CREATE")
    BY <1>3, VerbIs DEF Is
  <2> QED
    BY <1>3, <2>1, <2>2, CreateOfferIs DEF Elsewhere
<1>4. CASE s # <<>> /\ Len(t) >= 2 /\ Is(t[1], "DESC")
  <2>1. o = DescribeCompleter(d, s)
    BY <1>1, <1>4 DEF Do, Is
  <2> QED
    BY <1>4, <2>1, DescribeIs
<1>5. CASE s # <<>> /\ Len(t) >= 2 /\ Is(t[1], "SELECT")
  <2>1. o = SelectCompleter(d, s)
    BY <1>1, <1>5 DEF Do, Is
  <2> QED
    BY <1>5, <2>1, SelectIs
<1>6. CASE s # <<>> /\ Len(t) >= 2 /\ Is(t[1], "SHOW")
  <2>1. o = ShowCompleter(d, s)
    BY <1>1, <1>6 DEF Do, Is
  <2>2. Is(Verb(s), "SHOW")
    BY <1>6, VerbIs DEF Is
  <2> QED
    BY <1>6, <2>1, <2>2, ShowIs DEF Elsewhere
<1>7. ASSUME \/ s = <<>> \/ ~(Len(t) >= 2)
             \/ ~(Is(t[1], "CREATE") \/ Is(t[1], "DESC") \/ Is(t[1], "SELECT") \/ Is(t[1], "SHOW"))
      PROVE  o = NoOffer
  <2>1. CASE s = <<>> \/ ~(Len(t) >= 2)
    <3>1. ~(Len(t) >= 2)
      <4>1. s = <<>> => Len(t) = 0
        <5>1. Len(<<>>) = 0
          OBVIOUS
        <5> QED
          BY <5>1, TokenizeIs
      <4> QED
        BY <2>1, <4>1
    <3>2. s = <<>> \/ Len(t) < 2
      BY <1>1, <3>1
    <3> QED
      BY <3>1, <3>2, Zenon DEF Do
  <2>2. CASE s # <<>> /\ Len(t) >= 2
    <3>1. ~(s = <<>> \/ Len(t) < 2)
      BY <1>1, <2>2
    <3>2. ~(Len(t) >= 2 /\ Is(t[1], "CREATE")) /\ ~(Len(t) >= 2 /\ Is(t[1], "DESC"))
          /\ ~(Len(t) >= 2 /\ Is(t[1], "SELECT")) /\ ~(Len(t) >= 2 /\ Is(t[1], "SHOW"))
      BY <1>7, <2>2
    <3> QED
      BY <3>1, <3>2, Zenon DEF Do
  <2> QED
    BY <2>1, <2>2
<1> QED
  BY <1>2, <1>3, <1>4, <1>5, <1>6, <1>7

(* The line is a text, and the completer's views are loaded ones.            *)
PromptInv ==
  /\ TermInv
  /\ line \in Text
  /\ comp # NoDb => Views(comp.vw) /\ comp.indexed = comp.vw

(* The prompt is empty at first. *)
LEMMA InitPrompt == Init => PromptInv
<1> SUFFICES ASSUME Init PROVE PromptInv
  OBVIOUS
<1>1. <<>> \in Text
  BY EmptySeq DEF Text
<1> QED
  BY <1>1, InitTerm DEF Init, PromptInv

(* Typing leaves a text. *)
LEMMA TypedText ==
  ASSUME PromptInv, Typing
  PROVE  line' \in Text
<1>1. PICK s \in Scripts : Len(line) < Len(s) /\ line' = Append(line, s[Len(line) + 1])
  BY DEF Typing, Type
<1>2. s \in Seq(STRING) /\ Len(line) \in Nat /\ Len(s) \in Nat
  BY ScriptAssumption, LenProperties, TextIs DEF PromptInv
<1>3. s[Len(line) + 1] \in STRING
  BY <1>1, <1>2, ElementOfSeq
<1>4. STRING \subseteq Keys
  BY DEF Keys
<1> HIDE DEF Keys
<1>5. s[Len(line) + 1] \in Keys
  BY <1>3, <1>4
<1> QED
  BY <1>1, <1>5, TextGrows DEF PromptInv

(* So does Tab: what is behind the word is a text. *)
LEMMA TabbedText ==
  ASSUME PromptInv, Tab
  PROVE  line' \in Text
<1> DEFINE o == Do(comp, line)
<1>1. Offers(o) /\ line \in Text
  BY DbWords, DoIs DEF PromptInv, Tab
<1>2. line' = line \/ \E n \in o.names : line' = line \o Behind(n, Bytes(o.word))
  BY DEF Tab
<1> HIDE DEF o
<1>3. ASSUME NEW n \in o.names PROVE line \o Behind(n, Bytes(o.word)) \in Text
  <2>1. n \in Text /\ Bytes(o.word) \in Nat
    BY <1>1, <1>3, CharsIs DEF Offers
  <2>2. Behind(n, Bytes(o.word)) \in Text
    BY <2>1, CutIs
  <2> QED
    BY <1>1, <2>2, TextJoins
<1> QED
  BY <1>1, <1>2, <1>3

(* No step breaks the prompt. *)
LEMMA StepPrompt == PromptInv /\ [Next]_vars => PromptInv'
<1> SUFFICES ASSUME PromptInv, [Next]_vars PROVE PromptInv'
  OBVIOUS
<1>1. TermInv'
  BY StepTerm DEF PromptInv
<1>2. line' \in Text
  <2>1. <<>> \in Text
    BY EmptySeq DEF Text
  <2>2. line' = <<>> \/ line' = line \/ Typing \/ Tab
    BY DEF Next, vars, Scan, EnterBlank, EnterMore, EnterEnd, Interrupt
  <2> QED
    BY <2>1, <2>2, TypedText, TabbedText DEF PromptInv
<1>3. comp' # NoDb => Views(comp'.vw) /\ comp'.indexed = comp'.vw
  <2>1. UNCHANGED comp \/ \E rehash \in BOOLEAN : Scan(rehash)
    BY Touches
  <2>2. CASE UNCHANGED comp
    BY <2>2 DEF PromptInv
  <2>3. CASE \E rehash \in BOOLEAN : Scan(rehash)
    <3>1. comp' = NoDb \/ (Loadable(file) /\ comp' = Load(file))
      BY <2>3 DEF Scan
    <3>2. Views(file)
      BY DEF PromptInv, TermInv
    <3> QED
      BY <3>1, <3>2, LoadOpens DEF Opened
  <2> QED
    BY <2>1, <2>2, <2>3
<1> QED
  BY <1>1, <1>2, <1>3 DEF PromptInv

(* At a prompt like that the offer fits. *)
LEMMA PromptFits == PromptInv => OfferFitsTheWord
<1> SUFFICES ASSUME PromptInv PROVE OfferFitsTheWord
  OBVIOUS
<1>1. WordAtCursor = CursorWord(line)
  BY DEF WordAtCursor, CursorWord, Stops
<1>2. /\ Offers(Offered) /\ line \in Text
      /\ Offered.names = {} \/ Fits(Offered, line) \/ Elsewhere(line)
  <2>1. CASE Offered = NoOffer
    BY <2>1, NoOfferIs DEF PromptInv
  <2>2. CASE Offered # NoOffer
    <3>1. Offered = Do(comp, line) /\ comp # NoDb
      BY <2>2 DEF Offered
    <3> QED
      BY <3>1, DbWords, DoIs DEF PromptInv
  <2> QED
    BY <2>1, <2>2
<1>3. BeforeSelect = Lead(line)
  BY DEF BeforeSelect, Lead, SelectKey
<1>4. ASSUME Offered.word = CursorWord(line), ~HasWide(CursorWord(line)), NEW n \in Offered.names
      PROVE  WordAtCursor \o Behind(n, Bytes(Offered.word)) = n
  <2>1. n \in Text /\ Offered.word \in Text /\ IsPrefix(Offered.word, n)
    BY <1>2 DEF Offers
  <2>2. Bytes(Offered.word) = Chars(Offered.word)
    BY <1>4, <2>1, CharsIs
  <2>3. Offered.word \o Behind(n, Chars(Offered.word)) = n
    BY <2>1, PrefixChars
  <2> QED
    BY <1>1, <1>4, <2>2, <2>3
<1>5. ASSUME Elsewhere(line) PROVE OfferFitsTheWord
  BY <1>3, <1>5 DEF OfferFitsTheWord, Elsewhere
<1>6. ASSUME Fits(Offered, line) \/ Offered.names = {} PROVE OfferFitsTheWord
  <2>1. \/ \A n \in Offered.names : WordAtCursor \o Behind(n, Bytes(Offered.word)) = n
        \/ HasWide(WordAtCursor)
        \/ Len(WordAtCursor) = 1 /\ Keyword(WordAtCursor, <<"BY">>) # "none"
    BY <1>1, <1>4, <1>6 DEF Fits, Touching
  <2> QED
    BY <2>1, Zenon DEF OfferFitsTheWord
<1> QED
  BY <1>2, <1>5, <1>6

(* A name that Tab offers begins with the word under the cursor, but in the  *)
(* places named, whatever reports, views and lines there are.                *)
THEOREM OfferFitsTheWordHolds == Spec => []OfferFitsTheWord
BY InitPrompt, StepPrompt, PromptFits, PTL DEF Spec

----------------------------------------------------------------------------
(* What the completer knows of the file, for as long as it runs. *)

(* Views have columns, each under a label. *)
Filled(vs) ==
  \A i \in DOMAIN vs : 1 \in DOMAIN vs[i].cols /\ \A j \in DOMAIN vs[i].cols : vs[i].cols[j].label # <<>>
(* A column that is read again by its head. *)
Again(vs, v, j) == FieldOf(TableOf([vw |-> vs], v.src), v.cols[j].head).head
Plain(vs) == \A i \in DOMAIN vs : ~Relabels(vs[i])

(* Views that are the same as views with columns have columns. *)
LEMMA FilledToo ==
  ASSUME NEW vs, NEW ws, IsSeq(vs), IsSeq(ws), Same(vs, ws), Filled(ws)
  PROVE  Filled(vs)
<1>1. DOMAIN vs = 1..Len(vs) /\ DOMAIN ws = 1..Len(vs) /\ \A i \in 1..Len(vs) : Like(vs[i], ws[i])
  BY SeqIs DEF Same
<1>2. ASSUME NEW i \in 1..Len(vs)
      PROVE  1 \in DOMAIN vs[i].cols /\ \A j \in DOMAIN vs[i].cols : vs[i].cols[j].label # <<>>
  <2>1. DOMAIN vs[i].cols = DOMAIN ws[i].cols /\ \A j \in DOMAIN ws[i].cols : vs[i].cols[j].label = ws[i].cols[j].label
    BY <1>1, LikeIs
  <2> QED
    BY <1>1, <2>1 DEF Filled
<1> QED
  BY <1>1, <1>2 DEF Filled

(* A head is found as itself, unless a column before it has it as its label. *)
LEMMA HeadFound ==
  ASSUME NEW t, IsSeq(t.cols), ~Relabels(t) \/ ~IsView(t), NEW k \in DOMAIN t.cols, NEW n, t.cols[k].head = n
  PROVE  FieldAt(t, n) # 0 /\ FieldOf(t, n).head = n
<1>1. Named(t, t.cols[k], n)
  BY DEF Named
<1>2. FieldAt(t, n) # 0 /\ FieldAt(t, n) \in DOMAIN t.cols /\ Named(t, FieldOf(t, n), n)
  BY <1>1, FieldAtIs
<1>3. FieldOf(t, n) = t.cols[FieldAt(t, n)]
  BY DEF FieldOf
<1> QED
  BY <1>2, <1>3 DEF Named, Relabels

(* Two lists of views have the same tables under a name.                     *)
Sourced(vs, ws, m, n) ==
  /\ Views(vs) /\ Views(ws) /\ m \in Nat /\ m <= Len(vs) /\ m <= Len(ws)
  /\ \A l \in 1..m : ws[l].name = vs[l].name
  /\ n \in ReportNames \cup {vs[l].name : l \in 1..m}
(* The same report, or the views of one position. *)
Twins(t, u, vs, ws, m) ==
  \/ \E l \in DOMAIN Reports : t = Reports[l] /\ u = Reports[l]
  \/ \E l \in 1..m : t = ws[l] /\ u = vs[l]
(* Their tables under a name that both have are twins. *)
LEMMA SourceIs ==
  ASSUME NEW vs, NEW ws, NEW m, NEW n, Sourced(vs, ws, m, n)
  PROVE  /\ TableAt([vw |-> ws], n) # 0
         /\ Twins(TableOf([vw |-> ws], n), TableOf([vw |-> vs], n), vs, ws, m)
<1> DEFINE d == [vw |-> ws]
           e == [vw |-> vs]
<1>1. d.vw = ws /\ e.vw = vs /\ IsDb(d) /\ IsDb(e)
  BY DEF IsDb, Views, Sourced
<1> HIDE DEF d, e
<1>2. ASSUME NEW l \in DOMAIN Reports, n = Reports[l].name
      PROVE  TableAt(d, n) # 0 /\ TableOf(d, n) = Reports[l] /\ TableOf(e, n) = Reports[l]
  <2>1. l # 0
    BY ReportsAre, SeqIs
  <2> QED
    BY <1>1, <1>2, <2>1, ReportFound
<1>3. ASSUME NEW l \in 1..m, n = vs[l].name
      PROVE  TableAt(d, n) # 0 /\ TableOf(d, n) = ws[l] /\ TableOf(e, n) = vs[l]
  <2>1. l \in DOMAIN vs /\ l \in DOMAIN ws
    BY <1>3, ViewsAre DEF Sourced
  <2>2. Views(d.vw) /\ Views(e.vw) /\ ws[l].name = n /\ vs[l].name = n
    BY <1>1, <1>3 DEF Sourced
  <2> QED
    BY <1>1, <2>1, <2>2, ViewFound
<1> QED
  BY <1>2, <1>3 DEF ReportNames, d, e, Sourced, Twins

(* The columns of the views ws are those that are read again of vs, in the   *)
(* sources that ws has.                                                      *)
Rereads(ws, vs) ==
  \A i \in 1..Len(ws) : \A j \in DOMAIN ws[i].cols :
    /\ FieldAt(TableOf([vw |-> ws], vs[i].src), vs[i].cols[j].head) # 0
    /\ ws[i].cols[j].head = Again(ws, vs[i], j)

(* One view more is read again. *)
LEMMA RereadStep ==
  ASSUME NEW vs, Views(vs), NEW a, Loading(a, vs), NEW k \in Nat, k + 1 <= Len(vs),
         LoadedTo(a, vs, k), Len(a[k]) = k => Rereads(a[k], vs), Len(a[k + 1]) = k + 1
  PROVE  Rereads(a[k + 1], vs)
<1> DEFINE v == vs[k + 1]
           u == Rebuilt(a[k], v)
           ws == a[k]
           xs == a[k + 1]
<1>1. /\ Len(vs) \in Nat /\ DOMAIN vs = 1..Len(vs) /\ k + 1 \in 1..Len(vs) /\ k + 1 - 1 = k /\ k <= Len(vs)
      /\ Len(ws) \in Nat /\ Len(ws) <= k /\ IsSeq(ws)
  BY ViewsAre, SeqIs DEF LoadedTo
<1>2. xs = IF Founded(ws, v) THEN Append(ws, u) ELSE ws
  <2>1. a[k + 1] = LoadOne(a[k + 1 - 1], vs[k + 1])
    BY <1>1 DEF Loading
  <2> QED
    BY <1>1, <2>1 DEF LoadOne
<1> HIDE DEF xs, u, v
<1>3. Founded(ws, v) /\ Len(ws) = k /\ xs = Append(ws, u)
  <2>1. Len(Append(ws, u)) = Len(ws) + 1
    BY <1>1, AppendIs
  <2>2. Len(xs) = k + 1
    BY DEF xs
  <2> QED
    BY <1>1, <1>2, <2>1, <2>2
<1>4. Views(ws) /\ (\A i \in 1..k : Like(ws[i], vs[i])) /\ Rereads(ws, vs)
  BY <1>3 DEF LoadedTo
<1>5. Views(xs)
  BY <1>1, LoadedStep DEF LoadedTo, xs
<1>6. Len(xs) = k + 1 /\ (\A i \in 1..k : xs[i] = ws[i]) /\ xs[k + 1] = u
  BY <1>1, <1>3, AppendIs
<1>7. ASSUME NEW n, n \in ReportNames \cup {vs[l].name : l \in 1..k}
      PROVE  TableOf([vw |-> xs], n) = TableOf([vw |-> ws], n)
  <2>1. n \in ReportNames \cup {ws[l].name : l \in 1..k}
    BY <1>4, <1>7, LikeIs
  <2>2. k <= Len(ws) /\ k <= Len(xs) /\ \A l \in 1..k : xs[l].name = ws[l].name
    BY <1>3, <1>6
  <2> HIDE DEF ws
  <2>3. Sourced(ws, xs, k, n)
    BY <1>4, <1>5, <2>1, <2>2 DEF Sourced
  <2>4. Twins(TableOf([vw |-> xs], n), TableOf([vw |-> ws], n), ws, xs, k)
    BY <2>3, SourceIs
  <2> QED
    BY <1>6, <2>4 DEF Twins
<1>8. ASSUME NEW i \in 1..k PROVE vs[i].src \in ReportNames \cup {vs[l].name : l \in 1..k}
  <2>1. vs[i].src \in ReportNames \cup {vs[l].name : l \in 1..(i - 1)}
    BY <1>1, <1>8 DEF Views
  <2>2. \A l \in 1..(i - 1) : l \in 1..k
    BY <1>8
  <2> QED
    BY <2>1, <2>2
<1>9. ASSUME NEW i \in 1..k, NEW j \in DOMAIN xs[i].cols
      PROVE  /\ FieldAt(TableOf([vw |-> xs], vs[i].src), vs[i].cols[j].head) # 0
             /\ xs[i].cols[j].head = Again(xs, vs[i], j)
  <2>1. TableOf([vw |-> xs], vs[i].src) = TableOf([vw |-> ws], vs[i].src)
    BY <1>7, <1>8, <1>9
  <2>2. i \in 1..Len(ws) /\ xs[i] = ws[i]
    BY <1>3, <1>6, <1>9
  <2> HIDE DEF ws
  <2>3. /\ FieldAt(TableOf([vw |-> ws], vs[i].src), vs[i].cols[j].head) # 0
        /\ ws[i].cols[j].head = Again(ws, vs[i], j)
    BY <1>4, <1>9, <2>2 DEF Rereads
  <2> QED
    BY <2>1, <2>2, <2>3 DEF Again
<1>10. ASSUME NEW j \in DOMAIN u.cols
       PROVE  /\ FieldAt(TableOf([vw |-> xs], v.src), v.cols[j].head) # 0
              /\ u.cols[j].head = Again(xs, v, j)
  <2>1. v.src \in ReportNames \cup {vs[l].name : l \in 1..(k + 1 - 1)}
    BY <1>1 DEF Views, v
  <2>2. TableOf([vw |-> xs], v.src) = TableOf([vw |-> ws], v.src)
    BY <1>1, <1>7, <2>1
  <2> HIDE DEF ws
  <2>3. DOMAIN u.cols = DOMAIN v.cols /\ u.cols[j].head = FieldOf(TableOf([vw |-> ws], v.src), v.cols[j].head).head
    <3> DEFINE src == TableOf([vw |-> ws], v.src)
               One(c) == [head |-> FieldOf(src, c.head).head, label |-> c.label,
                          segment |-> FieldOf(src, c.head).segment, unique |-> FieldOf(src, c.head).unique]
    <3>1. u.cols = [i \in DOMAIN v.cols |-> One(v.cols[i])]
      BY DEF Rebuilt, u, ws
    <3>2. \A c : One(c).head = FieldOf(src, c.head).head
      OBVIOUS
    <3> HIDE DEF One
    <3> QED
      BY <1>10, <3>1, <3>2
  <2>4. FieldsIn(TableOf([vw |-> ws], v.src), Heads(v))
    BY <1>3 DEF Founded
  <2>5. FieldAt(TableOf([vw |-> ws], v.src), v.cols[j].head) # 0
    BY <1>10, <2>3, <2>4, FieldsAre
  <2> QED
    BY <2>2, <2>3, <2>5 DEF Again
<1>11. ASSUME NEW i \in 1..Len(xs), NEW j \in DOMAIN xs[i].cols
       PROVE  /\ FieldAt(TableOf([vw |-> xs], vs[i].src), vs[i].cols[j].head) # 0
              /\ xs[i].cols[j].head = Again(xs, vs[i], j)
  <2>1. CASE i \in 1..k
    BY <1>9, <1>11, <2>1
  <2>2. CASE i = k + 1
    BY <1>6, <1>10, <1>11, <2>2 DEF v
  <2> QED
    BY <1>6, <2>1, <2>2
<1> QED
  BY <1>11 DEF Rereads, xs

(* loadViews reads every view of the file again, in the source it loaded. *)
LEMMA LoadReads ==
  ASSUME NEW vs, Views(vs), Loadable(vs)
  PROVE  Rereads(LoadViews(vs), vs)
<1> DEFINE n == Len(vs)
<1>1. n \in Nat
  BY ViewsAre
<1>2. PICK a : Loading(a, vs)
  <2>1. PICK R : vs \in Seq(R)
    BY DEF Views, IsSeq
  <2> QED
    BY <2>1, LoadsOneByOne
<1> DEFINE P == {k \in Nat : k <= n => LoadedTo(a, vs, k) /\ (Len(a[k]) = k => Rereads(a[k], vs))}
<1>3. 0 \in P
  <2>1. LoadedTo(a, vs, 0) /\ Len(a[0]) = 0
    BY <1>2, LoadedStart
  <2>2. Rereads(a[0], vs)
    BY <2>1 DEF Rereads
  <2> QED
    BY <2>1, <2>2
<1>4. ASSUME NEW k \in P PROVE k + 1 \in P
  <2>1. CASE k + 1 <= n
    <3>1. k \in Nat /\ LoadedTo(a, vs, k) /\ (Len(a[k]) = k => Rereads(a[k], vs))
      <4> HIDE DEF n
      <4> QED
        BY <1>1, <1>4, <2>1
    <3>2. LoadedTo(a, vs, k + 1) /\ (Len(a[k + 1]) = k + 1 => Rereads(a[k + 1], vs))
      BY <1>2, <2>1, <3>1, LoadedStep, RereadStep
    <3> QED
      BY <3>1, <3>2
  <2>2. CASE ~(k + 1 <= n)
    <3> HIDE DEF n
    <3> QED
      BY <1>4, <2>2
  <2> QED
    BY <2>1, <2>2
<1>5. Len(a[n]) = n => Rereads(a[n], vs)
  <2>1. P \in SUBSET Nat
    OBVIOUS
  <2>2. P = Nat
    <3> HIDE DEF P
    <3> QED
      BY <1>3, <1>4, <2>1, NatSets
  <2> HIDE DEF n
  <2> QED
    BY <1>1, <2>2
<1> QED
  BY <1>2, <1>5 DEF Loading, Loadable

(* The completer's views cs and those of the file vs: the same but for the   *)
(* columns of a view of a view; those are the same when they are read again, *)
(* as long as no view gives a column the name of another.                    *)
HeadsIn(cs) ==
  \A i \in 1..Len(cs) : \A j \in DOMAIN cs[i].cols :
    LET t == TableOf([vw |-> cs], cs[i].src) IN \E k \in DOMAIN t.cols : t.cols[k].head = cs[i].cols[j].head
Knows(cs, vs) ==
  /\ Views(cs) /\ Len(cs) <= Len(vs) /\ \A i \in 1..Len(cs) : Like(vs[i], cs[i])
  /\ HeadsIn(cs)
  /\ Plain(cs) => Rereads(cs, vs)

(* What the completer loads knows the file. *)
LEMMA LoadKnows ==
  ASSUME NEW vs, Views(vs), Loadable(vs)
  PROVE  Knows(LoadViews(vs), vs)
<1> DEFINE ws == LoadViews(vs)
<1>1. Views(ws) /\ Same(ws, vs) /\ Rereads(ws, vs)
  BY LoadIs, LoadReads
<1> HIDE DEF ws
<1>2. Len(ws) = Len(vs) /\ Len(ws) \in Nat /\ Len(ws) <= Len(vs) /\ \A i \in 1..Len(ws) : Like(ws[i], vs[i])
  BY <1>1, ViewsAre DEF Same
<1>3. \A i \in 1..Len(ws) : Like(vs[i], ws[i]) /\ vs[i].src = ws[i].src /\ DOMAIN vs[i].cols = DOMAIN ws[i].cols
  BY <1>2, LikeIs
<1>4. ASSUME NEW i \in 1..Len(ws), NEW j \in DOMAIN ws[i].cols
      PROVE  LET t == TableOf([vw |-> ws], ws[i].src) IN \E k \in DOMAIN t.cols : t.cols[k].head = ws[i].cols[j].head
  <2> DEFINE d == [vw |-> ws]
             t == TableOf(d, ws[i].src)
             n == vs[i].cols[j].head
  <2>1. FieldAt(t, n) # 0 /\ ws[i].cols[j].head = FieldOf(t, n).head
    BY <1>1, <1>3, <1>4 DEF Rereads, Again
  <2>2. IsSeq(t.cols)
    <3>1. d.vw = ws
      OBVIOUS
    <3> HIDE DEF d
    <3>2. TableAt(d, ws[i].src) # 0
      <4>1. ws[i].src \in ReportNames \cup NamesIn(ws) /\ DOMAIN ws = 1..Len(ws)
        BY <1>1, ViewsAre
      <4>2. IsDb(d)
        BY <1>1, <3>1 DEF IsDb, Views
      <4>3. ASSUME NEW l \in DOMAIN Reports PROVE TableAt(d, Reports[l].name) # 0
        <5>1. l # 0
          BY ReportsAre, SeqIs
        <5> QED
          BY <4>2, <5>1, ReportFound
      <4>4. \A l \in DOMAIN ws : TableAt(d, ws[l].name) # 0
        BY <1>1, <3>1, ViewFound
      <4> QED
        BY <4>1, <4>3, <4>4 DEF ReportNames, NamesIn
    <3> QED
      BY <1>1, <3>1, <3>2, TableIs
  <2> HIDE DEF t, n
  <2>3. FieldAt(t, n) \in DOMAIN t.cols
    BY <2>1, <2>2, FieldAtIs
  <2> QED
    BY <2>1, <2>3 DEF FieldOf, t
<1> QED
  BY <1>1, <1>2, <1>3, <1>4 DEF Knows, HeadsIn, ws

(* The views as they are loaded have the heads that the completer has. *)
LEMMA LoadsTheHeads ==
  ASSUME NEW vs, Views(vs), Loadable(vs), NEW cs, Knows(cs, vs), Plain(cs)
  PROVE  \A i \in 1..Len(cs) : HeadsAre(LoadViews(vs)[i], cs[i])
<1> DEFINE ws == LoadViews(vs)
           n == Len(cs)
<1>1. Views(ws) /\ Same(ws, vs) /\ Rereads(ws, vs)
  BY LoadIs, LoadReads
<1> HIDE DEF ws
<1>2. /\ Views(cs) /\ n \in Nat /\ n <= Len(ws) /\ n <= Len(vs) /\ Rereads(cs, vs)
      /\ Len(ws) \in Nat /\ Len(vs) \in Nat /\ DOMAIN vs = 1..Len(vs) /\ DOMAIN ws = 1..Len(ws) /\ DOMAIN cs = 1..n
      /\ \A i \in 1..n : Like(ws[i], vs[i]) /\ Like(vs[i], cs[i])
  BY <1>1, ViewsAre DEF Knows, Same
<1> HIDE DEF n
<1>3. ASSUME NEW i \in 1..n
      PROVE  /\ ws[i].name = cs[i].name /\ vs[i].name = cs[i].name /\ vs[i].src = cs[i].src
             /\ DOMAIN ws[i].cols = DOMAIN cs[i].cols /\ DOMAIN vs[i].cols = DOMAIN cs[i].cols
             /\ \A j \in DOMAIN cs[i].cols : ws[i].cols[j].label = cs[i].cols[j].label
             /\ i \in 1..Len(ws) /\ i \in 1..Len(vs) /\ i \in 1..Len(cs)
             /\ IsView(ws[i]) /\ IsView(cs[i]) /\ IsSeq(ws[i].cols) /\ IsSeq(cs[i].cols)
  <2>1. i \in 1..Len(ws) /\ i \in 1..Len(vs) /\ i \in 1..Len(cs)
    BY <1>2 DEF n
  <2>2. AView(ws[i]) /\ AView(cs[i])
    BY <1>1, <1>2, <2>1 DEF Views
  <2>3. Like(ws[i], cs[i]) /\ Like(vs[i], cs[i])
    BY <1>2, LikeToo
  <2> QED
    BY <2>1, <2>2, <2>3, LikeIs DEF AView, IsView
<1> DEFINE P == {k \in Nat : \A i \in 1..n : i <= k => HeadsAre(ws[i], cs[i])}
<1>4. 0 \in P
  <2>1. \A i \in 1..n : ~(i <= 0)
    BY <1>2
  <2> QED
    BY <2>1
<1>5. ASSUME NEW k \in P PROVE k + 1 \in P
  <2>1. k \in Nat /\ \A i \in 1..n : i <= k => HeadsAre(ws[i], cs[i])
    OBVIOUS
  <2>2. ASSUME NEW i \in 1..n, i = k + 1 PROVE HeadsAre(ws[i], cs[i])
    <3>1. i \in 1..Len(ws) /\ i \in 1..Len(vs) /\ i \in 1..Len(cs)
      BY <1>3
    <3>2. vs[i].src \in ReportNames \cup {cs[l].name : l \in 1..k}
      <4>1. vs[i].src \in ReportNames \cup {vs[l].name : l \in 1..(i - 1)}
        BY <1>2, <3>1 DEF Views
      <4>2. i - 1 = k /\ \A l \in 1..k : l \in 1..n
        BY <1>2, <2>1, <2>2
      <4> QED
        BY <1>3, <4>1, <4>2
    <3>3. /\ k <= Len(cs) /\ k <= Len(ws) /\ \A l \in 1..k : l \in 1..n /\ ws[l].name = cs[l].name
      <4>1. k <= n /\ k <= Len(ws) /\ \A l \in 1..k : l \in 1..n
        BY <1>2, <2>1, <2>2
      <4> QED
        BY <1>3, <4>1 DEF n
    <3>4. Twins(TableOf([vw |-> ws], vs[i].src), TableOf([vw |-> cs], vs[i].src), cs, ws, k)
      <4>1. Sourced(cs, ws, k, vs[i].src)
        BY <1>1, <1>2, <2>1, <3>2, <3>3 DEF Sourced
      <4> QED
        BY <4>1, SourceIs
    <3>5. ASSUME NEW j \in DOMAIN cs[i].cols PROVE ws[i].cols[j].head = cs[i].cols[j].head
      <4> DEFINE t == TableOf([vw |-> ws], vs[i].src)
                 u == TableOf([vw |-> cs], vs[i].src)
                 h == vs[i].cols[j].head
      <4>1. ws[i].cols[j].head = FieldOf(t, h).head /\ cs[i].cols[j].head = FieldOf(u, h).head /\ FieldAt(u, h) # 0
        <5>1. j \in DOMAIN ws[i].cols
          BY <1>3, <3>5
        <5> QED
          BY <1>1, <1>2, <3>1, <3>5, <5>1 DEF Rereads, Again
      <4>2. t = u \/ \E l \in 1..k : t = ws[l] /\ u = cs[l]
        BY <3>4 DEF Twins
      <4> HIDE DEF t, u, h
      <4>3. ASSUME NEW l \in 1..k, t = ws[l], u = cs[l] PROVE FieldOf(t, h).head = FieldOf(u, h).head
        <5>1. l \in 1..n /\ HeadsAre(ws[l], cs[l])
          BY <2>1, <3>3
        <5>2. /\ IsView(t) /\ IsView(u) /\ IsSeq(t.cols) /\ IsSeq(u.cols) /\ DOMAIN t.cols = DOMAIN u.cols
              /\ \A m \in DOMAIN u.cols : t.cols[m].label = u.cols[m].label
          BY <1>3, <4>3, <5>1
        <5>3. HeadsAre(t, u)
          BY <4>3, <5>1
        <5> QED
          BY <4>1, <5>2, <5>3, SameFields
      <4> QED
        BY <4>1, <4>2, <4>3
    <3> QED
      BY <3>5 DEF HeadsAre
  <2>3. \A i \in 1..n : i <= k + 1 => i <= k \/ i = k + 1
    BY <1>2, <2>1
  <2>4. k + 1 \in Nat
    BY <2>1
  <2> QED
    BY <2>1, <2>2, <2>3, <2>4
<1>6. n \in P
  <2>1. P \in SUBSET Nat
    OBVIOUS
  <2>2. P = Nat
    <3> HIDE DEF P
    <3> QED
      BY <1>4, <1>5, <2>1, NatSets
  <2> QED
    BY <1>2, <2>2
<1> QED
  <2>1. \A i \in 1..n : i <= n
    BY <1>2
  <2> QED
    BY <1>6, <2>1 DEF n, ws

(* What the completer knows for as long as the tool runs.  Its views were read *)
(* when the prompt was started (ui/scan.go), and are the first ones of the     *)
(* file: a statement only adds to those.  A connection that is opened reads    *)
(* the file again, and finds the columns of a view in its source (db.go), by   *)
(* the same heads as long as no view gives a column the name of another.       *)
KnowInv ==
  /\ PromptInv
  /\ Filled(file)
  /\ comp # NoDb =>
       /\ Knows(comp.vw, file)
       /\ conn # NoDb =>
            /\ Len(comp.vw) <= Len(conn.indexed)
            /\ Plain(comp.vw) => \A i \in 1..Len(comp.vw) : HeadsAre(conn.vw[i], comp.vw[i])

(* The database of the next statement has the heads of the completer. *)
LEMMA DatabaseKnows ==
  ASSUME KnowInv, CanConnect, comp # NoDb
  PROVE  /\ Len(comp.vw) <= Len(Database.indexed)
         /\ Plain(comp.vw) => \A i \in 1..Len(comp.vw) : HeadsAre(Database.vw[i], comp.vw[i])
<1>1. Views(file) /\ Knows(comp.vw, file)
  BY DEF KnowInv, PromptInv, TermInv
<1>2. CASE conn = NoDb
  <2>1. Loadable(file) /\ Database = Load(file)
    BY <1>2 DEF CanConnect, Database
  <2>2. Load(file).vw = LoadViews(file) /\ Load(file).indexed = LoadViews(file)
    BY DEF Load
  <2>3. Len(LoadViews(file)) = Len(file)
    BY <2>1 DEF Loadable
  <2> QED
    BY <1>1, <2>1, <2>2, <2>3, LoadsTheHeads DEF Knows
<1>3. CASE conn # NoDb
  BY <1>3 DEF KnowInv, Database
<1> QED
  BY <1>2, <1>3

(* CREATE VIEW makes a view with columns and labels. *)
LEMMA NewViewFilled ==
  ASSUME NEW d, NEW s, Statement(s)
  PROVE  LET v == NewView(d, s) IN 1 \in DOMAIN v.cols /\ \A j \in DOMAIN v.cols : v.cols[j].label # <<>>
<1> DEFINE v == NewView(d, s)
           Label(i) == IF i \in DOMAIN s.labels THEN s.labels[i] ELSE s.fields[i]
           Col(i) == [head |-> s.fields[i], label |-> Label(i),
                      segment |-> FieldOf(TableOf(d, s.src), s.fields[i]).segment, unique |-> s.unique /\ i = 1]
<1>1. v.cols = [i \in DOMAIN s.fields |-> Col(i)]
  BY DEF NewView
<1>2. \A i : Col(i).label = Label(i)
  OBVIOUS
<1>3. \A i \in DOMAIN s.fields : Label(i) # <<>>
  BY DEF Statement
<1> HIDE DEF v, Col, Label
<1> QED
  BY <1>1, <1>2, <1>3 DEF Statement, v

(* A view more in the file. *)
LEMMA CreateKnows ==
  ASSUME NEW d, NEW vs, Views(vs), Opened(d, vs), Filled(vs), NEW s, Statement(s), Creates(d, s),
         NEW ws, ws = AddView(d, NewView(d, s))
  PROVE  /\ Filled(ws)
         /\ \A cs : Knows(cs, vs) /\ (Plain(cs) => \A i \in 1..Len(cs) : HeadsAre(d.vw[i], cs[i])) =>
              /\ Knows(cs, ws)
              /\ Plain(cs) => \A i \in 1..Len(cs) : HeadsAre(ws[i], cs[i])
<1> DEFINE v == NewView(d, s)
<1>1. 1 \in DOMAIN v.cols /\ \A j \in DOMAIN v.cols : v.cols[j].label # <<>>
  BY NewViewFilled
<1> HIDE DEF v
<1>2. /\ IsSeq(d.vw) /\ Views(d.vw) /\ Same(d.vw, vs) /\ Filled(d.vw)
      /\ Len(d.vw) \in Nat /\ DOMAIN d.vw = 1..Len(d.vw) /\ Len(vs) = Len(d.vw)
  <2>1. Views(d.vw) /\ Same(d.vw, vs) /\ IsSeq(d.vw) /\ IsSeq(vs)
    BY DEF Opened, Views
  <2> QED
    BY <2>1, FilledToo, SeqIs DEF Same
<1>3. Views(ws)
  BY CreateStep
<1>4. ws = d.vw \/ ws = Append(d.vw, v)
  BY DEF AddView, v
<1>5. /\ Len(d.vw) <= Len(ws) /\ \A i \in 1..Len(d.vw) : ws[i] = d.vw[i]
      /\ \A i \in DOMAIN ws : i \in 1..Len(d.vw) \/ ws[i] = v
  <2>1. CASE ws = d.vw
    BY <1>2, <2>1
  <2>2. CASE ws = Append(d.vw, v)
    <3>1. /\ Len(ws) = Len(d.vw) + 1 /\ DOMAIN ws = 1..(Len(d.vw) + 1)
          /\ (\A i \in 1..Len(d.vw) : ws[i] = d.vw[i]) /\ ws[Len(d.vw) + 1] = v
      BY <1>2, <2>2, AppendIs
    <3>2. \A i \in 1..(Len(d.vw) + 1) : i \in 1..Len(d.vw) \/ i = Len(d.vw) + 1
      BY <1>2
    <3> QED
      BY <1>2, <3>1, <3>2
  <2> QED
    BY <1>4, <2>1, <2>2
<1>6. Filled(ws)
  BY <1>1, <1>2, <1>5 DEF Filled
<1>7. ASSUME NEW cs, Knows(cs, vs), Plain(cs) => \A i \in 1..Len(cs) : HeadsAre(d.vw[i], cs[i])
      PROVE  Knows(cs, ws) /\ (Plain(cs) => \A i \in 1..Len(cs) : HeadsAre(ws[i], cs[i]))
  <2>1. Views(cs) /\ Len(cs) <= Len(vs) /\ (\A i \in 1..Len(cs) : Like(vs[i], cs[i])) /\ HeadsIn(cs)
    BY <1>7 DEF Knows
  <2>2. Len(cs) \in Nat /\ DOMAIN cs = 1..Len(cs) /\ Len(ws) \in Nat
    BY <1>3, <2>1, ViewsAre
  <2>3. /\ Len(cs) <= Len(ws)
        /\ \A i \in 1..Len(cs) : i \in 1..Len(d.vw) /\ i \in 1..Len(vs) /\ ws[i] = d.vw[i]
    BY <1>2, <1>5, <2>1, <2>2
  <2>4. \A i \in 1..Len(cs) : Like(ws[i], cs[i])
    <3>1. \A i \in 1..Len(cs) : Like(d.vw[i], vs[i]) /\ Like(vs[i], cs[i])
      BY <1>2, <2>1, <2>3 DEF Same
    <3> QED
      BY <2>3, <3>1, LikeToo
  <2>5. ASSUME Plain(cs) PROVE \A i \in 1..Len(cs) : HeadsAre(ws[i], cs[i])
    BY <1>7, <2>3, <2>5
  <2>6. ASSUME Plain(cs), NEW i \in 1..Len(cs), NEW j \in DOMAIN cs[i].cols
        PROVE  /\ FieldAt(TableOf([vw |-> cs], ws[i].src), ws[i].cols[j].head) # 0
               /\ cs[i].cols[j].head = Again(cs, ws[i], j)
    <3> DEFINE t == TableOf([vw |-> cs], cs[i].src)
               n == cs[i].cols[j].head
    <3>1. ws[i].src = cs[i].src /\ ws[i].cols[j].head = n
      BY <2>4, <2>5, <2>6, LikeIs DEF HeadsAre
    <3>2. PICK k \in DOMAIN t.cols : t.cols[k].head = n
      BY <2>1, <2>6 DEF HeadsIn
    <3>3. IsSeq(t.cols) /\ (~Relabels(t) \/ ~IsView(t))
      <4>1. cs[i].src \in ReportNames \cup {cs[l].name : l \in 1..Len(cs)}
        <5>1. cs[i].src \in ReportNames \cup NamesIn(cs)
          BY <2>1, <2>6, ViewsAre
        <5> QED
          BY <2>2, <5>1 DEF NamesIn
      <4>2. Sourced(cs, cs, Len(cs), cs[i].src)
        BY <2>1, <2>2, <4>1 DEF Sourced
      <4>3. Twins(t, t, cs, cs, Len(cs))
        BY <4>2, SourceIs
      <4> HIDE DEF t
      <4>4. CASE \E l \in DOMAIN Reports : t = Reports[l]
        BY <4>4, ReportsAre DEF IsView
      <4>5. CASE \E l \in 1..Len(cs) : t = cs[l]
        BY <2>1, <2>2, <2>6, <4>5 DEF Views, AView, Plain
      <4> QED
        BY <4>3, <4>4, <4>5 DEF Twins
    <3> HIDE DEF t, n
    <3>4. FieldAt(t, n) # 0 /\ FieldOf(t, n).head = n
      BY <3>2, <3>3, HeadFound
    <3> QED
      BY <3>1, <3>4 DEF Again, t, n
  <2>7. Plain(cs) => Rereads(cs, ws)
    BY <2>6 DEF Rereads
  <2>8. Knows(cs, ws)
    BY <2>1, <2>3, <2>4, <2>7 DEF Knows
  <2> QED
    BY <2>5, <2>8
<1> QED
  BY <1>6, <1>7

(* A statement leaves what the completer knows true. *)
LEMMA RunKnows ==
  ASSUME KnowInv, CanConnect, NEW s, s.verb = "create" => Statement(s), Run(s), UNCHANGED comp
  PROVE  /\ Filled(file)'
         /\ comp' # NoDb =>
              /\ Knows(comp.vw, file)'
              /\ conn' # NoDb =>
                   /\ Len(comp'.vw) <= Len(conn'.indexed)
                   /\ Plain(comp.vw)' => \A i \in 1..Len(comp'.vw) : HeadsAre(conn'.vw[i], comp'.vw[i])
<1> DEFINE d == Database
<1>1. Opened(d, file) /\ Views(file) /\ Filled(file)
  BY DatabaseIs DEF KnowInv, PromptInv, TermInv
<1>2. comp # NoDb => /\ Knows(comp.vw, file) /\ Len(comp.vw) <= Len(d.indexed)
                     /\ Plain(comp.vw) => \A i \in 1..Len(comp.vw) : HeadsAre(d.vw[i], comp.vw[i])
  BY DatabaseKnows DEF KnowInv
<1>3. CASE s.verb = "create" /\ Creates(d, s)
  <2> DEFINE ws == AddView(d, NewView(d, s))
             e == [vw |-> ws, indexed |-> d.indexed]
  <2>1. file' = ws /\ conn' = e /\ e.vw = ws /\ e.indexed = d.indexed
    BY <1>3 DEF Run
  <2>2. Statement(s) /\ Creates(d, s)
    BY <1>3
  <2> HIDE DEF d, e
  <2>3. /\ Filled(ws)
        /\ \A cs : Knows(cs, file) /\ (Plain(cs) => \A i \in 1..Len(cs) : HeadsAre(d.vw[i], cs[i])) =>
             /\ Knows(cs, ws)
             /\ Plain(cs) => \A i \in 1..Len(cs) : HeadsAre(ws[i], cs[i])
    <3> HIDE DEF ws
    <3> QED
      BY <1>1, <2>2, CreateKnows DEF ws
  <2> HIDE DEF ws
  <2>4. comp # NoDb => /\ Knows(comp.vw, ws)
                       /\ Plain(comp.vw) => \A i \in 1..Len(comp.vw) : HeadsAre(ws[i], comp.vw[i])
    BY <1>2, <2>3
  <2> QED
    BY <1>2, <2>1, <2>3, <2>4
<1>4. CASE ~(s.verb = "create" /\ Creates(d, s))
  <2>1. file' = file /\ conn' \in {d, NoDb}
    BY <1>4 DEF Run
  <2> HIDE DEF d
  <2> QED
    BY <1>1, <1>2, <2>1
<1> QED
  BY <1>3, <1>4

(* Before it has started, the completer knows nothing. *)
LEMMA InitKnow == Init => KnowInv
<1> SUFFICES ASSUME Init PROVE KnowInv
  OBVIOUS
<1>1. PromptInv
  BY InitPrompt
<1>2. file = <<>> /\ comp = NoDb /\ DOMAIN <<>> = {}
  BY DEF Init
<1> QED
  BY <1>1, <1>2 DEF KnowInv, Filled

(* No step makes it wrong. *)
LEMMA StepKnow == KnowInv /\ [Next]_vars => KnowInv'
<1> SUFFICES ASSUME KnowInv, [Next]_vars PROVE KnowInv'
  OBVIOUS
<1>1. PromptInv'
  BY StepPrompt DEF KnowInv
<1>2. CASE UNCHANGED <<conn, file, comp>>
  BY <1>1, <1>2 DEF KnowInv
<1>3. CASE \E rehash \in BOOLEAN : Scan(rehash)
  <2>1. file' = file /\ conn' = NoDb /\ (comp' # NoDb => comp' = Load(file) /\ Loadable(file))
    BY <1>3 DEF Scan
  <2>2. comp' # NoDb => Knows(comp'.vw, file)
    <3>1. Load(file).vw = LoadViews(file)
      BY DEF Load
    <3>2. Views(file)
      BY DEF KnowInv, PromptInv, TermInv
    <3> QED
      BY <2>1, <3>1, <3>2, LoadKnows
  <2> QED
    BY <1>1, <2>1, <2>2 DEF KnowInv
<1>4. CASE CanConnect /\ (\E s : (s.verb = "create" => Statement(s)) /\ Run(s)) /\ UNCHANGED comp
  <2>1. PICK s : (s.verb = "create" => Statement(s)) /\ Run(s)
    BY <1>4
  <2> QED
    BY <1>1, <1>4, <2>1, RunKnows DEF KnowInv
<1> QED
  BY <1>2, <1>3, <1>4, Touches

(* The views that the completer read when the prompt was started stay the first *)
(* of the file and of the connection, whatever is stated and however often the  *)
(* connection is dropped and opened: with the same names, sources and labels,   *)
(* and with the same heads as long as no view gives a column another's name.    *)
THEOREM CompleterKnowsTheFile == Spec => []KnowInv
BY InitKnow, StepKnow, PTL DEF Spec

----------------------------------------------------------------------------
(* What the completer offers is in the database. *)

(* A table that is found is a report or a view. *)
LEMMA TableWhich ==
  ASSUME NEW d, Views(d.vw), NEW n, TableAt(d, n) # 0
  PROVE  \/ \E l \in DOMAIN Reports : n = Reports[l].name /\ TableOf(d, n) = Reports[l]
         \/ \E l \in DOMAIN d.vw : n = d.vw[l].name /\ TableOf(d, n) = d.vw[l]
<1> DEFINE k == TableAt(d, n)
           r == Len(Reports)
           m == Len(d.vw)
<1>1. IsDb(d)
  BY DEF Views, IsDb
<1>2. /\ r \in Nat /\ m \in Nat /\ DOMAIN Reports = 1..r /\ DOMAIN d.vw = 1..m
      /\ DOMAIN Tables(d) = 1..(r + m)
      /\ \A i \in 1..(r + m) : Tables(d)[i] = IF i <= r THEN Reports[i] ELSE d.vw[i - r]
  BY <1>1, TablesAre
<1>3. k \in DOMAIN Tables(d) /\ TableOf(d, n) = Tables(d)[k] /\ TableOf(d, n).name = n
  BY <1>1, TableAtIs DEF TableOf
<1> HIDE DEF k, r, m
<1>4. CASE k <= r
  <2>1. k \in DOMAIN Reports /\ TableOf(d, n) = Reports[k]
    BY <1>2, <1>3, <1>4
  <2> QED
    BY <1>3, <2>1
<1>5. CASE ~(k <= r)
  <2>1. k - r \in DOMAIN d.vw /\ TableOf(d, n) = d.vw[k - r]
    BY <1>2, <1>3, <1>5
  <2> QED
    BY <1>3, <2>1
<1>6. k \in Int
  BY <1>2, <1>3
<1> QED
  BY <1>4, <1>5

(* A view of the completer is in the database of the next statement. *)
LEMMA ViewKnown ==
  ASSUME KnowInv, CanConnect, comp # NoDb, NEW l \in DOMAIN comp.vw
  PROVE  LET v == Database.vw[l]
             w == comp.vw[l]
         IN  /\ l \in DOMAIN Database.vw /\ l \in 1..Len(comp.vw) /\ l \in 1..Len(Database.indexed)
             /\ Like(v, w) /\ 1 \in DOMAIN v.cols /\ AView(v) /\ AView(w)
             /\ \A j \in DOMAIN w.cols : w.cols[j].label # <<>>
             /\ ~Plain(comp.vw) \/ HeadsAre(v, w)
<1> DEFINE d == Database
           cs == comp.vw
<1>1. Opened(d, file) /\ Views(d.vw) /\ Same(d.vw, file) /\ Filled(file) /\ Views(file)
  BY DatabaseIs DEF KnowInv, PromptInv, TermInv, Opened
<1>2. /\ Len(cs) <= Len(d.indexed) /\ Knows(cs, file)
      /\ Plain(cs) => \A i \in 1..Len(cs) : HeadsAre(d.vw[i], cs[i])
  BY DatabaseKnows DEF KnowInv
<1>3. Views(cs) /\ Len(cs) <= Len(file) /\ \A i \in 1..Len(cs) : Like(file[i], cs[i])
  BY <1>2 DEF Knows
<1>4. Filled(d.vw)
  <2>1. IsSeq(d.vw) /\ IsSeq(file)
    BY <1>1 DEF Views
  <2> HIDE DEF d
  <2> QED
    BY <1>1, <2>1, FilledToo
<1>5. /\ l \in 1..Len(cs) /\ Len(cs) \in Nat /\ Len(file) \in Nat /\ DOMAIN file = 1..Len(file)
      /\ Len(d.vw) = Len(file) /\ DOMAIN d.vw = 1..Len(file) /\ Len(d.indexed) \in Nat
  BY <1>1, <1>3, ViewsAre, SeqIs DEF Same, Opened
<1> HIDE DEF d, cs
<1>6. l \in DOMAIN d.vw /\ l \in 1..Len(cs) /\ l \in 1..Len(d.indexed) /\ l \in DOMAIN file /\ l \in DOMAIN cs
  BY <1>2, <1>3, <1>5 DEF cs
<1>7. Like(d.vw[l], cs[l]) /\ Like(file[l], cs[l])
  <2>1. Like(d.vw[l], file[l]) /\ Like(file[l], cs[l])
    BY <1>1, <1>3, <1>5, <1>6 DEF Same
  <2> QED
    BY <2>1, LikeToo
<1>8. AView(d.vw[l]) /\ AView(cs[l])
  BY <1>1, <1>3, <1>6 DEF Views
<1>9. 1 \in DOMAIN d.vw[l].cols /\ \A j \in DOMAIN d.vw[l].cols : d.vw[l].cols[j].label # <<>>
  BY <1>4, <1>6 DEF Filled
<1>10. \A j \in DOMAIN cs[l].cols : cs[l].cols[j].label # <<>>
  BY <1>7, <1>9, LikeIs
<1> QED
  BY <1>2, <1>6, <1>7, <1>8, <1>9, <1>10 DEF d, cs

(* A table that is offered has columns; a head of one that is offered is     *)
(* found in it, but for a view of a view.                                    *)
LEMMA TableKnown ==
  ASSUME KnowInv, CanConnect, comp # NoDb, NEW n, TableAt(comp, n) # 0
  PROVE  LET t == TableOf(Database, n)
             u == TableOf(comp, n)
         IN  /\ TableAt(Database, n) # 0 /\ IsSeq(t.cols) /\ 1 \in DOMAIN t.cols
             /\ \A c \in ColumnHeads(u) :
                  \/ FieldAt(t, c) # 0
                  \/ IsView(u) /\ IsView(TableOf(comp, u.src)) /\ ~Plain(comp.vw)
<1> DEFINE d == Database
           t == TableOf(d, n)
           u == TableOf(comp, n)
<1>1. Views(d.vw) /\ IsDb(d)
  BY DatabaseIs DEF KnowInv, PromptInv, Opened, Views, IsDb
<1>2. Views(comp.vw) /\ IsDb(comp)
  BY DEF KnowInv, PromptInv, Views, IsDb
<1>3. CASE \E l \in DOMAIN Reports : n = Reports[l].name /\ u = Reports[l]
  <2>1. PICK l \in DOMAIN Reports : n = Reports[l].name /\ u = Reports[l]
    BY <1>3
  <2> HIDE DEF u, d
  <2>2. TableAt(d, n) # 0 /\ TableOf(d, n) = Reports[l]
    BY <1>1, <2>1, ReportFound, ReportsAre, SeqIs
  <2>3. IsSeq(t.cols) /\ t.cols # <<>> /\ ~IsView(t) /\ t = u
    BY <2>1, <2>2, ReportsAre DEF IsView
  <2> HIDE DEF t
  <2>4. 1 \in DOMAIN t.cols
    <3>1. PICK S : t.cols \in Seq(S)
      BY <2>3 DEF IsSeq
    <3>2. Len(t.cols) \in Nat \ {0} /\ DOMAIN t.cols = 1..Len(t.cols)
      BY <2>3, <3>1, EmptySeq, LenProperties
    <3> QED
      BY <3>2
  <2>5. ASSUME NEW c \in ColumnHeads(u) PROVE FieldAt(t, c) # 0
    <3>1. PICK k \in DOMAIN t.cols : t.cols[k].head = c
      BY <2>3, <2>5 DEF ColumnHeads
    <3> QED
      BY <2>3, <3>1, HeadFound
  <2> QED
    BY <2>2, <2>3, <2>4, <2>5 DEF t, u, d
<1>4. CASE \E l \in DOMAIN comp.vw : n = comp.vw[l].name /\ u = comp.vw[l]
  <2>1. PICK l \in DOMAIN comp.vw : n = comp.vw[l].name /\ u = comp.vw[l]
    BY <1>4
  <2>2. /\ l \in DOMAIN d.vw /\ Like(d.vw[l], u) /\ 1 \in DOMAIN d.vw[l].cols /\ AView(d.vw[l]) /\ AView(u)
        /\ ~Plain(comp.vw) \/ HeadsAre(d.vw[l], u)
    BY <2>1, ViewKnown
  <2> HIDE DEF u, d
  <2>3. d.vw[l].name = n /\ d.vw[l].src = u.src /\ DOMAIN d.vw[l].cols = DOMAIN u.cols /\ (u.src \in ReportNames => HeadsAre(d.vw[l], u))
    BY <2>1, <2>2, LikeIs
  <2>4. TableAt(d, n) # 0 /\ t = d.vw[l]
    BY <1>1, <2>2, <2>3, ViewFound
  <2> HIDE DEF t
  <2>5. IsSeq(t.cols) /\ 1 \in DOMAIN t.cols /\ IsView(u)
    BY <2>2, <2>4 DEF AView, IsView
  <2>6. ASSUME NEW c \in ColumnHeads(u)
        PROVE  FieldAt(t, c) # 0 \/ (IsView(u) /\ IsView(TableOf(comp, u.src)) /\ ~Plain(comp.vw))
    <3>1. PICK k \in DOMAIN u.cols : u.cols[k].head = c
      BY <2>6 DEF ColumnHeads
    <3>2. ASSUME t.cols[k].head = c PROVE FieldAt(t, c) # 0
      <4>1. k \in DOMAIN t.cols /\ Named(t, t.cols[k], c)
        BY <2>3, <2>4, <3>2 DEF Named
      <4> QED
        BY <2>5, <4>1, FieldAtIs
    <3>3. CASE u.src \in ReportNames
      BY <2>3, <2>4, <3>1, <3>2, <3>3 DEF HeadsAre
    <3>4. CASE u.src \notin ReportNames /\ ~Plain(comp.vw)
      <4>1. PICK m \in DOMAIN comp.vw : u.src = comp.vw[m].name
        <5>1. DOMAIN comp.vw = 1..Len(comp.vw) /\ comp.vw[l].src \in ReportNames \cup NamesIn(comp.vw)
          BY <1>2, <2>1, ViewsAre
        <5> QED
          BY <2>1, <3>4, <5>1 DEF NamesIn
      <4>2. TableOf(comp, u.src) = comp.vw[m]
        BY <1>2, <4>1, ViewFound
      <4>3. AView(comp.vw[m])
        BY <1>2 DEF Views
      <4> QED
        BY <2>5, <3>4, <4>2, <4>3 DEF IsView, AView
    <3>5. CASE HeadsAre(d.vw[l], u)
      BY <2>4, <3>1, <3>2, <3>5 DEF HeadsAre
    <3> QED
      BY <2>2, <3>3, <3>4, <3>5
  <2> QED
    BY <2>4, <2>5, <2>6 DEF t, u, d
<1> QED
  BY <1>2, <1>3, <1>4, TableWhich

(* DESC answers for a table with columns, and for a column it has. *)
LEMMA DescAnswers ==
  ASSUME NEW d, NEW s, NEW t, t = TableOf(d, s.table), TableAt(d, s.table) # 0, IsSeq(t.cols), 1 \in DOMAIN t.cols,
         s.cols = <<>> \/ FieldAt(t, s.cols[1]) # 0
  PROVE  Describe(d, s) \notin {Refused, Rows(<<>>)}
<1>1. PICK cs : IsSeq(cs) /\ 1 \in DOMAIN cs /\ Describe(d, s) = Described(t, cs)
  <2>1. CASE s.cols = <<>>
    BY <2>1 DEF Describe
  <2>2. CASE s.cols # <<>>
    <3> DEFINE f == FieldOf(t, s.cols[1])
    <3>1. IsSeq(<<f>>) /\ 1 \in DOMAIN <<f>>
      <4> HIDE DEF f
      <4>1. <<f>> \in Seq({f}) /\ Len(<<f>>) = 1
        OBVIOUS
      <4>2. IsSeq(<<f>>)
        BY <4>1, Zenon DEF IsSeq
      <4> QED
        BY <4>1, <4>2, SeqIs
    <3>2. Describe(d, s) = Described(t, <<f>>)
      BY <2>2 DEF Describe
    <3> QED
      BY <3>1, <3>2
  <2> QED
    BY <2>1, <2>2
<1> DEFINE One(i) == [field |-> cs[i].head, key |-> FormatKey(t, cs[i])]
           rs == [i \in DOMAIN cs |-> One(i)]
<1>2. Described(t, cs) = [ok |-> TRUE, rows |-> rs]
  BY DEF Described, Rows
<1>3. DOMAIN rs = DOMAIN cs /\ DOMAIN <<>> = {}
  OBVIOUS
<1> HIDE DEF rs
<1>4. rs # <<>>
  BY <1>1, <1>3
<1> QED
  BY <1>1, <1>2, <1>4 DEF Refused, Rows

(* A list that is not empty leaves something. *)
LEMMA FlattenSome ==
  ASSUME NEW S, NEW seqs \in Seq(Seq(S)), NEW i \in 1..Len(seqs), seqs[i] # <<>>
  PROVE  FlattenSeq(seqs) # <<>>
<1> DEFINE G == {u \in Seq(Seq(S)) : (\E j \in 1..Len(u) : u[j] # <<>>) => FlattenSeq(u) # <<>>}
<1>1. <<>> \in G
  BY EmptySeq
<1>2. ASSUME NEW u \in G, NEW x \in Seq(S) PROVE Append(u, x) \in G
  <2> DEFINE r == Append(u, x)
  <2>1. u \in Seq(Seq(S)) /\ ((\E j \in 1..Len(u) : u[j] # <<>>) => FlattenSeq(u) # <<>>)
    OBVIOUS
  <2>2. /\ r \in Seq(Seq(S)) /\ Len(u) \in Nat /\ Len(r) = Len(u) + 1 /\ r[Len(u) + 1] = x
        /\ \A j \in 1..Len(u) : r[j] = u[j]
    BY <2>1, AppendProperties, LenProperties
  <2>3. FlattenSeq(r) = IF u = <<>> THEN x ELSE FlattenSeq(u) \o x
    BY <2>1, FlattenGrows
  <2>4. FlattenSeq(u) \in Seq(S)
    BY <2>1, FlattenIs
  <2> HIDE DEF r
  <2>5. ASSUME NEW j \in 1..Len(r), r[j] # <<>> PROVE FlattenSeq(r) # <<>>
    <3>1. CASE u = <<>>
      <4>1. j = Len(u) + 1
        <5>1. Len(u) = 0
          BY <3>1
        <5> QED
          BY <2>2, <2>5, <5>1
      <4> QED
        BY <2>2, <2>3, <2>5, <3>1, <4>1
    <3>2. CASE u # <<>>
      <4>1. FlattenSeq(u) # <<>> \/ x # <<>>
        <5>1. j \in 1..Len(u) \/ j = Len(u) + 1
          BY <2>2, <2>5
        <5> QED
          BY <2>1, <2>2, <2>5, <5>1
      <4>2. /\ Len(FlattenSeq(u)) \in Nat /\ Len(x) \in Nat /\ Len(FlattenSeq(u) \o x) = Len(FlattenSeq(u)) + Len(x)
            /\ (FlattenSeq(u) # <<>> => Len(FlattenSeq(u)) # 0) /\ (x # <<>> => Len(x) # 0)
        BY <2>4, ConcatProperties, EmptySeq, LenProperties
      <4>3. Len(FlattenSeq(r)) # 0
        BY <2>3, <3>2, <4>1, <4>2
      <4>4. Len(<<>>) = 0
        BY EmptySeq
      <4> QED
        BY <4>3, <4>4
    <3> QED
      BY <3>1, <3>2
  <2> QED
    BY <2>2, <2>5 DEF r
<1> HIDE DEF G
<1>3. G = Seq(Seq(S))
  <2>1. G \in SUBSET Seq(Seq(S))
    BY DEF G
  <2> QED
    BY <1>1, <1>2, <2>1, SeqSets
<1> QED
  BY <1>3 DEF G

(* A table that is indexed under a column is listed under it. *)
LEMMA IndexedListed ==
  ASSUME NEW d, IsSeq(Indexed(d)), \A i \in DOMAIN Indexed(d) : IsSeq(Indexed(d)[i].cols),
         NEW k \in DOMAIN Indexed(d), NEW n, HasColumn(Indexed(d)[k], n)
  PROVE  1 \in DOMAIN TablesWithColumn(d, n)
<1> DEFINE ts == Indexed(d)
           S == {ts[i] : i \in DOMAIN ts}
           At(u) == {j \in DOMAIN u.cols : IndexName(u, u.cols[j]) = n}
           Part(u) == [j \in 1..Cardinality(At(u)) |-> u]
           parts == [i \in DOMAIN ts |-> Part(ts[i])]
<1>1. TablesWithColumn(d, n) = FlattenSeq(parts)
  BY DEF TablesWithColumn
<1>2. IsSeq(ts) /\ Len(ts) \in Nat /\ DOMAIN ts = 1..Len(ts) /\ \A i \in DOMAIN ts : IsSeq(ts[i].cols)
  BY SeqIs
<1> HIDE DEF ts
<1>3. ASSUME NEW i \in DOMAIN ts
      PROVE  IsFiniteSet(At(ts[i])) /\ Cardinality(At(ts[i])) \in Nat /\ Part(ts[i]) \in Seq(S)
  <2> DEFINE u == ts[i]
  <2>1. IsFiniteSet(At(u)) /\ Cardinality(At(u)) \in Nat
    <3>1. Len(u.cols) \in Nat /\ DOMAIN u.cols = 1..Len(u.cols)
      BY <1>2, <1>3, SeqIs
    <3>2. IsFiniteSet(1..Len(u.cols))
      <4>1. 1 \in Int /\ Len(u.cols) \in Int
        BY <3>1
      <4> QED
        BY <4>1, FS_Interval
    <3>3. At(u) \subseteq 1..Len(u.cols)
      BY <3>1
    <3> HIDE DEF At
    <3> QED
      BY <3>2, <3>3, FS_Subset, FS_CardinalityType
  <2>2. u \in S
    BY <1>3
  <2> HIDE DEF At, S, u
  <2>3. Part(u) \in [1..Cardinality(At(u)) -> S]
    BY <2>2
  <2>4. Part(u) \in Seq(S)
    BY <2>1, <2>3
  <2> QED
    BY <2>1, <2>4 DEF u
<1>4. parts \in Seq(Seq(S)) /\ Len(parts) = Len(ts) /\ \A i \in DOMAIN ts : parts[i] = Part(ts[i])
  <2> HIDE DEF S, Part
  <2>1. parts \in [1..Len(ts) -> Seq(S)] /\ \A i \in DOMAIN ts : parts[i] = Part(ts[i])
    BY <1>2, <1>3
  <2> HIDE DEF parts
  <2> QED
    BY <1>2, <2>1
<1>5. k \in DOMAIN ts /\ k \in 1..Len(parts)
  BY <1>2, <1>4 DEF ts
<1>6. parts[k] # <<>>
  <2>1. At(ts[k]) # {}
    BY DEF HasColumn, ts
  <2>2. Cardinality(At(ts[k])) # 0
    <3>1. IsFiniteSet(At(ts[k]))
      BY <1>3, <1>5
    <3> HIDE DEF At
    <3> QED
      BY <2>1, <3>1, FS_EmptySet
  <2>3. Cardinality(At(ts[k])) \in Nat \ {0}
    BY <1>3, <1>5, <2>2
  <2> HIDE DEF At
  <2>4. DOMAIN Part(ts[k]) = 1..Cardinality(At(ts[k]))
    OBVIOUS
  <2>5. 1 \in DOMAIN Part(ts[k])
    BY <2>3, <2>4
  <2>6. DOMAIN <<>> = {}
    OBVIOUS
  <2> HIDE DEF Part
  <2> QED
    BY <1>4, <1>5, <2>5, <2>6
<1> HIDE DEF parts, S
<1>7. FlattenSeq(parts) \in Seq(S) /\ FlattenSeq(parts) # <<>>
  BY <1>4, <1>5, <1>6, FlattenSome, FlattenIs
<1>8. Len(FlattenSeq(parts)) \in Nat \ {0} /\ DOMAIN FlattenSeq(parts) = 1..Len(FlattenSeq(parts))
  BY <1>7, EmptySeq, LenProperties
<1> QED
  BY <1>1, <1>8

(* A column that is offered for SHOW TABLES WITH has a table. *)
LEMMA ColumnKnown ==
  ASSUME KnowInv, CanConnect, comp # NoDb, NEW n \in ColumnNames(comp)
  PROVE  1 \in DOMAIN TablesWithColumn(Database, n)
<1> DEFINE d == Database
           r == Len(Reports)
<1>1. Opened(d, file)
  BY DatabaseIs DEF KnowInv, PromptInv
<1>2. /\ IsSeq(d.indexed) /\ \A l \in 1..Len(d.indexed) : d.indexed[l] = d.vw[l]
  BY <1>1 DEF Opened
<1>3. Views(comp.vw) /\ comp.indexed = comp.vw
  BY DEF KnowInv, PromptInv
<1> HIDE DEF d
<1>4. /\ IsSeq(Indexed(d)) /\ r \in Nat /\ Len(d.indexed) \in Nat /\ DOMAIN Reports = 1..r
      /\ DOMAIN Indexed(d) = 1..(r + Len(d.indexed))
      /\ \A i \in 1..(r + Len(d.indexed)) : Indexed(d)[i] = IF i <= r THEN Reports[i] ELSE d.indexed[i - r]
  BY <1>2, ReportsAre, ConcatIs, SeqIs DEF Indexed
<1>5. \A i \in DOMAIN Indexed(d) : IsSeq(Indexed(d)[i].cols)
  BY <1>1, IndexedFound
<1>6. /\ Len(comp.vw) \in Nat /\ DOMAIN comp.vw = 1..Len(comp.vw)
      /\ DOMAIN Indexed(comp) = 1..(r + Len(comp.vw))
      /\ \A i \in 1..(r + Len(comp.vw)) : Indexed(comp)[i] = IF i <= r THEN Reports[i] ELSE comp.vw[i - r]
  BY <1>3, ReportsAre, ConcatIs, SeqIs DEF Indexed, Views
<1> HIDE DEF r
<1>7. PICK i \in 1..(r + Len(comp.vw)) : HasColumn(Indexed(comp)[i], n)
  <2>1. PICK i \in DOMAIN Indexed(comp) : n \in {IndexName(Indexed(comp)[i], Indexed(comp)[i].cols[j]) : j \in DOMAIN Indexed(comp)[i].cols}
    BY DEF ColumnNames
  <2>2. HasColumn(Indexed(comp)[i], n)
    BY <2>1 DEF HasColumn
  <2> QED
    BY <1>6, <2>1, <2>2
<1>8. CASE i <= r
  <2>1. i \in DOMAIN Indexed(d) /\ Indexed(d)[i] = Indexed(comp)[i]
    BY <1>4, <1>6, <1>7, <1>8
  <2> QED
    BY <1>4, <1>5, <1>7, <2>1, IndexedListed DEF d
<1>9. CASE ~(i <= r)
  <2> DEFINE l == i - r
             v == d.vw[l]
             w == comp.vw[l]
  <2>1. l \in 1..Len(comp.vw) /\ l \in DOMAIN comp.vw /\ Indexed(comp)[i] = w
    BY <1>4, <1>6, <1>7, <1>9
  <2>2. /\ l \in 1..Len(d.indexed) /\ Like(v, w) /\ AView(v) /\ AView(w)
        /\ \A j \in DOMAIN w.cols : w.cols[j].label # <<>>
    <3> HIDE DEF l
    <3> QED
      BY <2>1, ViewKnown DEF d
  <2>3. i \in DOMAIN Indexed(d) /\ Indexed(d)[i] = v
    <3>1. i \in 1..(r + Len(d.indexed)) /\ Indexed(d)[i] = d.indexed[l]
      BY <1>4, <1>7, <1>9, <2>2
    <3> HIDE DEF l
    <3> QED
      BY <1>2, <1>4, <2>2, <3>1
  <2> HIDE DEF l, v, w
  <2>4. PICK j \in DOMAIN w.cols : IndexName(w, w.cols[j]) = n
    BY <1>7, <2>1 DEF HasColumn
  <2>5. j \in DOMAIN v.cols /\ v.cols[j].label = w.cols[j].label /\ w.cols[j].label # <<>>
    BY <2>2, <2>4, LikeIs
  <2>6. IsView(v) /\ IsView(w)
    BY <2>2 DEF IsView, AView
  <2>7. HasColumn(v, n)
    BY <2>4, <2>5, <2>6 DEF HasColumn, IndexName
  <2> QED
    BY <1>4, <1>5, <2>3, <2>7, IndexedListed DEF d
<1> QED
  BY <1>8, <1>9

(* SHOW TABLES answers, and with a column that is listed. *)
LEMMA ShowAnswers ==
  ASSUME NEW d, IsDb(d), NEW s, s.clause = "none" \/ (s.clause = "with" /\ 1 \in DOMAIN TablesWithColumn(d, s.arg))
  PROVE  Show(d, s) \notin {Refused, Rows(<<>>)}
<1> DEFINE ts == ShownTables(d, s)
           One(i) == [table |-> ts[i].name, kind |-> IF IsView(ts[i]) THEN "VIEW" ELSE "BASE TABLE"]
           rs == [i \in DOMAIN ts |-> One(i)]
<1>1. \E j : j \in DOMAIN ts
  <2>1. CASE s.clause = "none"
    <3>1. ts = Tables(d)
      BY <2>1 DEF ShownTables
    <3>2. 1 \in DOMAIN Reports
      <4>1. PICK S : Reports \in Seq(S)
        BY ReportsAre DEF IsSeq
      <4>2. Reports # <<>>
        BY ReportAssumption
      <4>3. Len(Reports) \in Nat \ {0} /\ DOMAIN Reports = 1..Len(Reports)
        BY <4>1, <4>2, EmptySeq, LenProperties
      <4> QED
        BY <4>3
    <3>3. 1 \in DOMAIN Tables(d)
      BY <3>2, TablesAre
    <3> QED
      BY <3>1, <3>3
  <2>2. CASE s.clause = "with" /\ 1 \in DOMAIN TablesWithColumn(d, s.arg)
    BY <2>2 DEF ShownTables
  <2> QED
    BY <2>1, <2>2
<1>2. Show(d, s) = [ok |-> TRUE, rows |-> rs]
  BY DEF Show, Rows
<1>3. DOMAIN rs = DOMAIN ts /\ DOMAIN <<>> = {}
  OBVIOUS
<1> HIDE DEF rs, ts
<1>4. rs # <<>>
  BY <1>1, <1>3
<1> QED
  BY <1>2, <1>4 DEF Refused, Rows

----------------------------------------------------------------------------
(* The lexer.  A mark stands alone among the words of a statement, which are *)
(* those of its line when it has none.                                       *)
Seen(k) == IF k \in Marks THEN <<Blank, k, Blank>> ELSE <<k>>

(* A key is a text. *)
LEMMA KeyText ==
  ASSUME NEW k \in Keys
  PROVE  <<k>> \in Text /\ Blank \in Keys /\ Seen(k) \in Text
<1>1. Blank \in Keys
  BY DEF Keys
<1> HIDE DEF Keys
<1> DEFINE b == Blank
<1>2. b \in Keys
  BY <1>1
<1> HIDE DEF b
<1>3. <<k>> \in Seq(Keys) /\ <<b, k, b>> \in Seq(Keys)
  BY <1>2
<1> QED
  BY <1>1, <1>3 DEF Text, Seen, b

(* Nothing, spaced. *)
LEMMA SpacedEmpty == Spaced(<<>>) = <<>>
<1> DEFINE f == [i \in DOMAIN <<>> |-> IF <<>>[i] \in Marks THEN <<Blank, <<>>[i], Blank>> ELSE <<<<>>[i]>>]
<1>1. f = <<>>
  OBVIOUS
<1> HIDE DEF f
<1>2. Spaced(<<>>) = FlattenSeq(f)
  BY DEF Spaced, f
<1>3. Len(<<>>) = 0
  OBVIOUS
<1>4. FlattenSeq(<<>>) = <<>>
  BY <1>3 DEF FlattenSeq
<1> QED
  BY <1>1, <1>2, <1>4

(* One key more, spaced. *)
LEMMA SpacedGrows ==
  ASSUME NEW q \in Text, NEW k \in Keys
  PROVE  Spaced(q) \in Text /\ Spaced(Append(q, k)) = Spaced(q) \o Seen(k)
<1> DEFINE r == Append(q, k)
           n == Len(q)
           Pieces(u) == [i \in DOMAIN u |-> Seen(u[i])]
<1>1. n \in Nat /\ DOMAIN q = 1..n /\ \A i \in 1..n : q[i] \in Keys
  BY TextIs
<1>2. r \in Text /\ Len(r) = n + 1 /\ DOMAIN r = 1..(n + 1) /\ r[n + 1] = k /\ \A i \in 1..n : r[i] = q[i]
  BY TextGrows
<1>3. Spaced(q) = FlattenSeq(Pieces(q)) /\ Spaced(r) = FlattenSeq(Pieces(r))
  BY DEF Spaced, Seen
<1> HIDE DEF r, n
<1>4. Pieces(q) \in Seq(Text) /\ Len(Pieces(q)) = n
  <2>1. \A i \in 1..n : Seen(q[i]) \in Text
    BY <1>1, KeyText
  <2> QED
    BY <1>1, <2>1
<1>5. Seen(k) \in Text
  BY KeyText
<1> DEFINE a == Append(Pieces(q), Seen(k))
<1>6. a = Pieces(r)
  <2>1. a \in Seq(Text) /\ Len(a) = n + 1 /\ a[n + 1] = Seen(k) /\ \A i \in 1..n : a[i] = Pieces(q)[i]
    <3> DEFINE p == Pieces(q)
               x == Seen(k)
    <3>1. p \in Seq(Text) /\ x \in Text /\ Len(p) = n
      BY <1>4, <1>5
    <3> HIDE DEF p, x
    <3>2. Append(p, x) \in Seq(Text) /\ Len(Append(p, x)) = n + 1 /\ Append(p, x)[n + 1] = x /\ \A i \in 1..n : Append(p, x)[i] = p[i]
      BY <3>1, AppendProperties
    <3> QED
      BY <3>2 DEF p, x
  <2> HIDE DEF a
  <2>2. \A i \in 1..(n + 1) : i \in 1..n \/ i = n + 1
    BY <1>1
  <2>3. Pieces(r) \in Seq(Text) /\ Len(Pieces(r)) = n + 1
    <3>1. \A i \in 1..(n + 1) : Seen(r[i]) \in Text
      BY <1>1, <1>2, KeyText, <2>2
    <3>2. n + 1 \in Nat
      BY <1>1
    <3> QED
      BY <1>2, <3>1, <3>2
  <2>4. \A i \in 1..(n + 1) : a[i] = Pieces(r)[i]
    BY <1>1, <1>2, <2>1, <2>2
  <2> HIDE DEF Pieces
  <2> QED
    BY <2>1, <2>3, <2>4, SeqEqual
<1> DEFINE p == Pieces(q)
<1>7. p \in Seq(Text) /\ (p = <<>> => n = 0)
  <2>1. p \in Seq(Text) /\ Len(p) = n
    BY <1>4
  <2> HIDE DEF p
  <2> QED
    BY <2>1, EmptySeq
<1> HIDE DEF p
<1>8. FlattenSeq(p) \in Text
  BY <1>7, FlattenIs DEF Text
<1>9. FlattenSeq(Append(p, Seen(k))) = IF p = <<>> THEN Seen(k) ELSE FlattenSeq(p) \o Seen(k)
  BY <1>5, <1>7, FlattenGrows DEF Text
<1>10. p = <<>> => FlattenSeq(p) = <<>>
  <2>1. Len(<<>>) = 0
    OBVIOUS
  <2> QED
    BY <2>1 DEF FlattenSeq
<1>11. <<>> \o Seen(k) = Seen(k)
  BY <1>5, ConcatEmptySeq DEF Text
<1> QED
  BY <1>3, <1>6, <1>8, <1>9, <1>10, <1>11 DEF p, r

(* One key behind a text. *)
LEMMA OneMore ==
  ASSUME NEW s \in Text, NEW k \in Keys
  PROVE  s \o <<k>> = Append(s, k)
<1> HIDE DEF Keys
<1> QED
  BY AppendIsConcat DEF Text

(* Three keys behind a text. *)
LEMMA ThreeMore ==
  ASSUME NEW s \in Text, NEW a \in Keys, NEW b \in Keys, NEW c \in Keys
  PROVE  s \o <<a, b, c>> = Append(Append(Append(s, a), b), c)
<1> DEFINE n == Len(s)
           t == <<a, b, c>>
           x == Append(s, a)
           y == Append(x, b)
           z == Append(y, c)
           r == s \o t
<1>1. t \in Text /\ Len(t) = 3 /\ t[1] = a /\ t[2] = b /\ t[3] = c
  <2> HIDE DEF Keys
  <2> QED
    BY DEF Text
<1> HIDE DEF t
<1>2. n \in Nat /\ x \in Text /\ Len(x) = n + 1 /\ x[n + 1] = a /\ \A i \in 1..n : x[i] = s[i]
  BY TextGrows, TextIs
<1> HIDE DEF x
<1>3. y \in Text /\ Len(y) = Len(x) + 1 /\ y[Len(x) + 1] = b /\ \A i \in 1..Len(x) : y[i] = x[i]
  BY <1>2, TextGrows
<1> HIDE DEF y
<1>4. z \in Text /\ Len(z) = Len(y) + 1 /\ z[Len(y) + 1] = c /\ \A i \in 1..Len(y) : z[i] = y[i]
  BY <1>3, TextGrows
<1> HIDE DEF z
<1>5. r \in Text /\ Len(r) = n + 3 /\ \A i \in 1..(n + 3) : r[i] = IF i <= n THEN s[i] ELSE t[i - n]
  <2>1. /\ s \o t \in Text /\ Len(s \o t) = Len(s) + Len(t)
        /\ \A i \in 1..(Len(s) + Len(t)) : (s \o t)[i] = IF i <= Len(s) THEN s[i] ELSE t[i - Len(s)]
    BY <1>1, TextJoins
  <2> QED
    BY <1>1, <2>1
<1> HIDE DEF n, r
<1>6. \A i \in 1..n : i \in 1..(n + 1) /\ i \in 1..(n + 2)
  BY <1>2
<1>7. n + 1 \in 1..(n + 1) /\ n + 1 \in 1..(n + 2) /\ n + 2 \in 1..(n + 2)
  BY <1>2
<1>8. Len(x) = n + 1 /\ Len(y) = n + 2 /\ Len(z) = n + 3
  BY <1>2, <1>3, <1>4
<1>9. (\A i \in 1..n : z[i] = s[i]) /\ z[n + 1] = a /\ z[n + 2] = b /\ z[n + 3] = c
  <2>1. (n + 1) + 1 = n + 2 /\ (n + 2) + 1 = n + 3
    BY <1>2
  <2> QED
    BY <1>2, <1>3, <1>4, <1>6, <1>7, <1>8, <2>1
<1>10. \A i \in 1..(n + 3) : i \in 1..n \/ i = n + 1 \/ i = n + 2 \/ i = n + 3
  BY <1>2
<1>11. ASSUME NEW i \in 1..(n + 3) PROVE r[i] = z[i]
  <2>1. CASE i \in 1..n
    BY <1>2, <1>5, <1>9, <2>1
  <2>2. CASE i = n + 1
    BY <1>1, <1>2, <1>5, <1>9, <2>2
  <2>3. CASE i = n + 2
    BY <1>1, <1>2, <1>5, <1>9, <2>3
  <2>4. CASE i = n + 3
    BY <1>1, <1>2, <1>5, <1>9, <2>4
  <2> QED
    BY <1>10, <2>1, <2>2, <2>3, <2>4
<1>12. r = z
  BY <1>4, <1>5, <1>8, <1>11, SeqEqual DEF Text
<1> QED
  BY <1>12 DEF r, t, z, y, x

(* A line with a mark. *)
Marked(s) == \E i \in 1..Len(s) : s[i] \in Marks
(* A line without marks is spaced as it is. *)
LEMMA Unmarked ==
  ASSUME NEW q \in Text, ~Marked(q)
  PROVE  Spaced(q) = q
<1> DEFINE G == {u \in Text : ~Marked(u) => Spaced(u) = u}
<1>1. <<>> \in G
  <2>1. <<>> \in Text
    BY EmptySeq DEF Text
  <2> QED
    BY <2>1, SpacedEmpty
<1>2. ASSUME NEW u \in G, NEW k \in Keys PROVE Append(u, k) \in G
  <2>1. ASSUME ~Marked(Append(u, k)) PROVE Spaced(Append(u, k)) = Append(u, k)
    <3>1. Len(u) \in Nat
      BY TextIs
    <3>2. k \notin Marks /\ ~Marked(u)
      <4>1. Len(u) + 1 \in 1..(Len(u) + 1) /\ \A i \in 1..Len(u) : i \in 1..(Len(u) + 1)
        BY <3>1
      <4> QED
        BY <2>1, <4>1, TextGrows DEF Marked
    <3> QED
      BY <3>2, SpacedGrows, OneMore DEF Seen
  <2> QED
    BY <2>1, TextGrows
<1>3. G \in SUBSET Seq(Keys)
  BY DEF Text
<1> HIDE DEF G
<1>4. G = Seq(Keys)
  BY <1>1, <1>2, <1>3, SeqSets
<1> QED
  BY <1>4 DEF G, Text

(* A mark behind a space and before one is a word. *)
MarkWord(ws) == \E j \in 1..(Len(ws) - 1) : \E k \in Marks : ws[j] = <<k>>
(* It stays one, whatever follows. *)
LEMMA MarkStays ==
  ASSUME NEW ws \in WordLists, NEW k \in Keys, MarkWord(ws)
  PROVE  MarkWord(Split(ws, k))
<1>1. PICK j \in 1..(Len(ws) - 1) : \E x \in Marks : ws[j] = <<x>>
  BY DEF MarkWord
<1> DEFINE r == Split(ws, k)
<1>2. Len(r) \in Nat /\ Len(ws) \in Nat /\ Len(ws) <= Len(r) /\ r[j] = ws[j]
  BY <1>1, SplitKeeps
<1> HIDE DEF r
<1>3. j \in 1..(Len(r) - 1)
  BY <1>2
<1> QED
  BY <1>1, <1>2, <1>3 DEF MarkWord, r

(* It is one when it is typed. *)
LEMMA MarkStands ==
  ASSUME NEW ws \in WordLists, NEW k \in Keys, k \in Marks
  PROVE  MarkWord(Split(Split(Split(ws, Blank), k), Blank))
<1>1. k \in Keys /\ Blank \in Keys /\ k # Blank
  <2>1. k \in {";", "\\g", "\\G", "(", ")", ","}
    BY DEF Marks, StmtEnds
  <2>2. k # " "
    BY <2>1
  <2> QED
    BY <2>2 DEF Keys, Blank
<1> DEFINE a == Split(ws, Blank)
           n == Len(a)
           la == [a EXCEPT ![n] = Append(@, k)]
           b == Split(a, k)
           c == Split(b, Blank)
<1>2. a \in WordLists /\ Last(a) = <<>>
  <2>1. Split(ws, Blank) = IF Last(ws) = <<>> THEN ws ELSE Append(ws, <<>>)
    BY DEF Split
  <2>2. ws \in Seq(Text) /\ <<>> \in Text
    BY EmptySeq DEF WordLists, Text
  <2>3. Last(Append(ws, <<>>)) = <<>>
    BY <2>2, AppendProperties DEF Last
  <2> QED
    BY <1>1, <2>1, <2>3, SplitIs
<1> HIDE DEF a
<1>3. /\ n \in Nat \ {0} /\ Last(a) = a[n] /\ b \in WordLists
      /\ la \in WordLists /\ Len(la) = n /\ la[n] = Append(a[n], k)
  BY <1>1, <1>2, SplitIs
<1>4. la[n] = <<k>>
  <2>1. Append(<<>>, k) = <<k>>
    OBVIOUS
  <2>2. a[n] = <<>>
    BY <1>2, <1>3
  <2> HIDE DEF n, la
  <2> QED
    BY <1>3, <2>1, <2>2
<1> HIDE DEF la
<1>5. \A x \in {<<>>} : /\ Append(la, x) \in WordLists /\ Len(Append(la, x)) = n + 1 /\ Append(la, x)[n] = la[n]
  <2>1. la \in Seq(Text) /\ n \in 1..n /\ <<>> \in Text
    BY <1>3, EmptySeq DEF WordLists, Text
  <2> HIDE DEF n
  <2>2. /\ Append(la, <<>>) \in Seq(Text) /\ Len(Append(la, <<>>)) = Len(la) + 1
        /\ Append(la, <<>>)[n] = la[n]
    BY <1>3, <2>1, AppendProperties
  <2>3. Len(Append(la, <<>>)) # 0
    BY <1>3, <2>2
  <2>4. Len(<<>>) = 0
    OBVIOUS
  <2>5. Append(la, <<>>) # <<>>
    BY <2>3, <2>4
  <2> QED
    BY <1>3, <2>2, <2>5 DEF WordLists
<1>6. MarkWord(Append(la, <<>>))
  <2> DEFINE e == Append(la, <<>>)
  <2>1. Len(e) = n + 1 /\ e[n] = <<k>>
    BY <1>4, <1>5
  <2> HIDE DEF e, n
  <2>2. n \in 1..(Len(e) - 1)
    BY <1>3, <2>1
  <2> QED
    BY <2>1, <2>2 DEF MarkWord, e
<1>7. CASE k = "("
  <2>1. b = Append(la, <<>>)
    BY <1>1, <1>7 DEF Split, la
  <2> HIDE DEF b
  <2> QED
    BY <1>1, <1>3, <1>6, <2>1, MarkStays DEF b, a
<1>8. CASE k # "("
  <2>1. b = la
    BY <1>1, <1>8 DEF Split, la
  <2>2. Last(la) = <<k>> /\ <<k>> # <<>>
    BY <1>3, <1>4 DEF Last
  <2>3. c = Append(la, <<>>)
    BY <2>1, <2>2 DEF Split
  <2> QED
    BY <1>6, <2>3 DEF a
<1> QED
  BY <1>7, <1>8

(* A mark of a line is a word of it. *)
LEMMA MarksAreWords ==
  ASSUME NEW q \in Text, Marked(q)
  PROVE  MarkWord(Splits(Spaced(q)))
<1> DEFINE G == {u \in Text : Marked(u) => MarkWord(Splits(Spaced(u)))}
<1>1. <<>> \in G
  <2>1. <<>> \in Text /\ Len(<<>>) = 0
    BY EmptySeq DEF Text
  <2> QED
    BY <2>1 DEF Marked
<1>2. ASSUME NEW u \in G, NEW k \in Keys PROVE Append(u, k) \in G
  <2> DEFINE v == Spaced(u)
  <2>1. u \in Text /\ Append(u, k) \in Text /\ v \in Text /\ Spaced(Append(u, k)) = v \o Seen(k) /\ Blank \in Keys
    BY TextGrows, SpacedGrows, KeyText
  <2> HIDE DEF v
  <2>2. Splits(v) \in WordLists
    BY <2>1, SplitsAre
  <2>3. CASE k \in Marks
    <3> DEFINE b == Append(v, Blank)
               c == Append(b, k)
    <3>1. b \in Text /\ Splits(b) = Split(Splits(v), Blank)
      BY <2>1, SplitsGrow
    <3>2. c \in Text /\ Splits(c) = Split(Splits(b), k)
      <4> HIDE DEF b
      <4> QED
        BY <3>1, SplitsGrow
    <3>3. Splits(Append(c, Blank)) = Split(Splits(c), Blank)
      <4> HIDE DEF c
      <4> QED
        BY <2>1, <3>2, SplitsGrow
    <3>4. v \o Seen(k) = Append(c, Blank)
      BY <2>1, <2>3, ThreeMore DEF Seen
    <3> HIDE DEF b, c
    <3>5. MarkWord(Splits(Append(c, Blank)))
      BY <2>2, <2>3, <3>1, <3>2, <3>3, MarkStands
    <3> QED
      BY <2>1, <3>4, <3>5
  <2>4. ASSUME k \notin Marks, Marked(Append(u, k)) PROVE MarkWord(Splits(v \o Seen(k)))
    <3>1. Marked(u)
      <4>1. Len(u) \in Nat
        BY <2>1, TextIs
      <4>2. \A i \in 1..(Len(u) + 1) : i \in 1..Len(u) \/ i = Len(u) + 1
        BY <4>1
      <4> QED
        BY <2>1, <2>4, <4>2, TextGrows DEF Marked
    <3>2. MarkWord(Splits(v))
      BY <3>1 DEF v
    <3>3. v \o Seen(k) = Append(v, k)
      BY <2>1, <2>4, OneMore DEF Seen
    <3> QED
      BY <2>1, <2>2, <3>2, <3>3, SplitsGrow, MarkStays
  <2> QED
    BY <2>1, <2>3, <2>4
<1>3. G \in SUBSET Seq(Keys)
  BY DEF Text
<1> HIDE DEF G
<1>4. G = Seq(Keys)
  BY <1>1, <1>2, <1>3, SeqSets
<1> QED
  BY <1>4 DEF G, Text

----------------------------------------------------------------------------
(* The words of a DESC and of a SHOW. *)
Rest(w) == IF Len(w) > 1 /\ Is(w[2], "FULL") THEN Tail(Tail(w)) ELSE Tail(w)
Ahead(w) == IF Len(w) > 1 /\ Is(w[2], "FULL") THEN 2 ELSE 1
(* What is behind DESC or SHOW, and FULL. *)
LEMMA RestIs ==
  ASSUME NEW S, NEW w \in Seq(S), w # <<>>
  PROVE  /\ Rest(w) \in Seq(S) /\ Len(w) \in Nat /\ Len(Rest(w)) = Len(w) - Ahead(w)
         /\ \A i \in 1..Len(Rest(w)) : Rest(w)[i] = w[i + Ahead(w)]
<1> DEFINE n == Len(w)
<1>1. n \in Nat \ {0} /\ Tail(w) \in Seq(S) /\ Len(Tail(w)) = n - 1 /\ \A i \in 1..(n - 1) : Tail(w)[i] = w[i + 1]
  BY HeadTailProperties, EmptySeq, LenProperties
<1> DEFINE u == Tail(w)
<1>2. u \in Seq(S) /\ Len(u) = n - 1 /\ \A i \in 1..(n - 1) : u[i] = w[i + 1]
  BY <1>1
<1> HIDE DEF u, n
<1>3. CASE Ahead(w) = 2
  <2>1. Rest(w) = Tail(u) /\ n > 1
    BY <1>3 DEF Rest, Ahead, u, n
  <2>2. u # <<>>
    <3>1. Len(<<>>) = 0
      OBVIOUS
    <3> QED
      BY <1>1, <1>2, <2>1, <3>1
  <2>3. Tail(u) \in Seq(S) /\ Len(Tail(u)) = (n - 1) - 1 /\ \A i \in 1..Len(Tail(u)) : Tail(u)[i] = u[i + 1]
    BY <1>2, <2>2, HeadTailProperties
  <2>4. (n - 1) - 1 = n - 2
    BY <1>1
  <2>5. ASSUME NEW i \in 1..(n - 2) PROVE u[i + 1] = w[i + 2]
    <3>1. i + 1 \in 1..(n - 1) /\ (i + 1) + 1 = i + 2
      BY <1>1
    <3> QED
      BY <1>2, <3>1
  <2> QED
    BY <1>1, <1>3, <2>1, <2>3, <2>4, <2>5 DEF n
<1>4. CASE Ahead(w) # 2
  <2>1. Rest(w) = u /\ Ahead(w) = 1
    BY <1>4 DEF Rest, Ahead, u
  <2> QED
    BY <1>1, <1>2, <2>1 DEF n
<1> QED
  BY <1>3, <1>4

(* A DESC: a table that is a name, and a column or none. *)
DescStands(w, s) ==
  LET p == Ahead(w)
  IN  /\ Len(w) = p + 1 \/ Len(w) = p + 2
      /\ IsName(w[p + 1]) /\ (Len(w) = p + 2 => IsName(w[p + 2]))
      /\ s.table = w[p + 1]
      /\ IF Len(w) = p + 1 THEN s.cols = <<>> ELSE s.cols[1] = w[p + 2]
(* A DESC is a table, and a column or none. *)
LEMMA DescParsed ==
  ASSUME NEW S, NEW w \in Seq(S), w # <<>>, ParsedDesc(w).verb = "desc"
  PROVE  DescStands(w, ParsedDesc(w))
<1> DEFINE r == Rest(w)
           p == Ahead(w)
           s == ParsedDesc(w)
<1>1. /\ r \in Seq(S) /\ Len(w) \in Nat /\ Len(r) = Len(w) - p
      /\ \A i \in 1..Len(r) : r[i] = w[i + p]
  BY RestIs
<1>2. p \in 1..2
  BY DEF Ahead
<1>3. Len(w) \in Nat /\ Len(r) \in Nat /\ Len(w) = Len(r) + p
  <2>1. Len(w) \in Nat /\ Len(r) = Len(w) - p /\ Len(r) \in Nat
    BY <1>1, LenProperties
  <2> HIDE DEF r, p
  <2> QED
    BY <1>2, <2>1
<1>4. s = IF Len(r) \in 1..2 /\ \A i \in DOMAIN r : IsName(r[i])
          THEN [verb |-> "desc", table |-> r[1], cols |-> Tail(r)] ELSE NoStmt
  BY DEF ParsedDesc, Rest
<1>5. NoStmt.verb # "desc"
  BY DEF NoStmt
<1> HIDE DEF r, p, s
<1>6. Len(r) \in 1..2 /\ (\A i \in DOMAIN r : IsName(r[i])) /\ s.table = r[1] /\ s.cols = Tail(r)
  BY <1>4, <1>5 DEF s
<1>7. DOMAIN r = 1..Len(r) /\ r # <<>>
  <2>1. Len(<<>>) = 0
    OBVIOUS
  <2> QED
    BY <1>1, <1>6, <2>1, LenProperties
<1>8. Tail(r) \in Seq(S) /\ Len(Tail(r)) = Len(r) - 1 /\ \A i \in 1..Len(Tail(r)) : Tail(r)[i] = r[i + 1]
  BY <1>1, <1>7, HeadTailProperties
<1>9. r[1] = w[p + 1] /\ IsName(w[p + 1]) /\ s.table = w[p + 1]
  <2>1. 1 \in 1..Len(r) /\ 1 + p = p + 1
    BY <1>2, <1>6
  <2> QED
    BY <1>1, <1>6, <1>7, <2>1
<1>10. CASE Len(r) = 1
  <2>1. Len(w) = p + 1
    BY <1>3, <1>2, <1>10
  <2>2. Tail(r) = <<>>
    <3>1. Len(Tail(r)) = 0
      BY <1>8, <1>10
    <3> QED
      BY <1>8, <3>1, EmptySeq
  <2>3. Len(w) # p + 2
    BY <1>2, <2>1
  <2> QED
    BY <1>6, <1>9, <2>1, <2>2, <2>3 DEF DescStands, s, p
<1>11. CASE Len(r) = 2
  <2>1. Len(w) = p + 2 /\ Len(w) # p + 1
    BY <1>3, <1>2, <1>11
  <2>2. 2 \in 1..Len(r) /\ 2 + p = p + 2 /\ 1 \in 1..Len(Tail(r)) /\ 1 + 1 = 2
    <3>1. Len(Tail(r)) = 1
      BY <1>8, <1>11
    <3>2. 2 \in 1..2 /\ 1 \in 1..1 /\ 1 + 1 = 2 /\ 2 + p = p + 2
      BY <1>2
    <3> QED
      BY <1>11, <3>1, <3>2, Zenon
  <2>3. Tail(r)[1] = r[2] /\ r[2] = w[p + 2] /\ IsName(w[p + 2])
    BY <1>1, <1>6, <1>7, <1>8, <2>2
  <2> QED
    BY <1>6, <1>9, <2>1, <2>3 DEF DescStands, s, p
<1> QED
  BY <1>6, <1>10, <1>11

(* A SHOW: its second word is TABLES, and a clause follows or none. *)
ShowStands(w, s) ==
  LET p == Ahead(w)
  IN  /\ Is(w[p + 1], "TABLES")
      /\ \/ Len(w) = p + 1 /\ s.clause = "none"
         \/ /\ Len(w) = p + 3 /\ IsName(w[p + 3])
            /\ \/ Is(w[p + 2], "WITH") /\ s.clause = "with" /\ s.arg = w[p + 3]
               \/ Is(w[p + 2], "LIKE")
(* A SHOW is its two words, and a clause or none. *)
LEMMA ShowParsed ==
  ASSUME NEW S, NEW w \in Seq(S), w # <<>>, ParsedShow(w).verb = "show"
  PROVE  ShowStands(w, ParsedShow(w))
<1> DEFINE r == Rest(w)
           p == Ahead(w)
           s == ParsedShow(w)
<1>1. /\ r \in Seq(S) /\ Len(w) \in Nat /\ Len(r) = Len(w) - p
      /\ \A i \in 1..Len(r) : r[i] = w[i + p]
  BY RestIs
<1>2. p \in 1..2
  BY DEF Ahead
<1>3. Len(w) \in Nat /\ Len(r) \in Nat /\ Len(w) = Len(r) + p
  <2>1. Len(w) \in Nat /\ Len(r) = Len(w) - p /\ Len(r) \in Nat
    BY <1>1, LenProperties
  <2> HIDE DEF r, p
  <2> QED
    BY <1>2, <2>1
<1>4. s = IF Len(r) = 1 /\ Is(r[1], "TABLES") THEN [verb |-> "show", clause |-> "none", arg |-> <<>>]
          ELSE IF Len(r) = 3 /\ Is(r[1], "TABLES") /\ Is(r[2], "WITH") /\ IsName(r[3])
            THEN [verb |-> "show", clause |-> "with", arg |-> r[3]]
          ELSE IF Len(r) = 3 /\ Is(r[1], "TABLES") /\ Is(r[2], "LIKE") /\ IsName(r[3]) THEN Pattern(r[3])
          ELSE NoStmt
  BY DEF ParsedShow, Rest
<1>5. NoStmt.verb # "show"
  BY DEF NoStmt
<1> HIDE DEF r, p, s
<1>6. CASE Len(r) = 1 /\ Is(r[1], "TABLES")
  <2>1. Len(w) = p + 1 /\ 1 \in 1..Len(r) /\ 1 + p = p + 1
    BY <1>3, <1>2, <1>6
  <2>2. r[1] = w[p + 1] /\ s.clause = "none"
    BY <1>1, <1>4, <1>6, <2>1
  <2> QED
    BY <1>6, <2>1, <2>2 DEF ShowStands, s, p
<1>7. CASE Len(r) = 3 /\ Is(r[1], "TABLES") /\ (Is(r[2], "WITH") \/ Is(r[2], "LIKE")) /\ IsName(r[3])
  <2>1. /\ Len(w) = p + 3 /\ 1 \in 1..Len(r) /\ 2 \in 1..Len(r) /\ 3 \in 1..Len(r)
        /\ 1 + p = p + 1 /\ 2 + p = p + 2 /\ 3 + p = p + 3
    BY <1>3, <1>2, <1>7
  <2>2. r[1] = w[p + 1] /\ r[2] = w[p + 2] /\ r[3] = w[p + 3]
    BY <1>1, <2>1
  <2>3. Is(r[2], "WITH") => s.clause = "with" /\ s.arg = r[3]
    BY <1>4, <1>7
  <2> QED
    BY <1>7, <2>1, <2>2, <2>3 DEF ShowStands, s, p
<1> QED
  BY <1>4, <1>5, <1>6, <1>7 DEF s

(* A statement that is parsed to one of them has no marks among its words. *)
LEMMA NameIsNoMark ==
  ASSUME NEW x, IsName(x), NEW k \in Marks \cup {"FULL", "LIKE", Blank, "("}
  PROVE  x # <<k>>
<1> SUFFICES ASSUME x = <<k>> PROVE FALSE
  OBVIOUS
<1>1. k \in Keywords \cup Signs
  BY DEF Marks, StmtEnds, Keywords, Signs, Blank
<1> DEFINE S == STRING \ (Keywords \cup Signs \cup DOMAIN Wide)
<1>2. k \notin S
  BY <1>1
<1>3. x \in Seq(S)
  BY DEF IsName, Names
<1> HIDE DEF S
<1>4. x[1] \in S
  BY <1>3
<1> QED
  BY <1>2, <1>4

(* No mark among the words. *)
NoMarks(w) == \A i \in 1..Len(w), k \in Marks : w[i] # <<k>>
(* So neither has a mark. *)
LEMMA NoMarkIn ==
  ASSUME NEW w, Len(w) \in Nat, NEW v \in {"DESC", "SHOW"}, Is(w[1], v), NEW s, DescStands(w, s) \/ ShowStands(w, s)
  PROVE  NoMarks(w)
<1> DEFINE p == Ahead(w)
<1>1. p \in 1..2 /\ (p = 2 => Is(w[2], "FULL"))
  BY DEF Ahead
<1>2. \A k \in Marks : \A x \in {"DESC", "SHOW", "FULL", "TABLES", "WITH", "LIKE"} : <<x>> # <<k>>
  BY DEF Marks, StmtEnds
<1>3. Len(w) \in {p + 1, p + 2, p + 3}
  BY DEF DescStands, ShowStands
<1>4. /\ Is(w[p + 1], "TABLES") \/ IsName(w[p + 1])
      /\ Len(w) \in {p + 2, p + 3} => Is(w[p + 2], "WITH") \/ Is(w[p + 2], "LIKE") \/ IsName(w[p + 2])
      /\ Len(w) = p + 3 => IsName(w[p + 3])
  <2> HIDE DEF p
  <2>1. CASE DescStands(w, s)
    BY <1>1, <2>1 DEF DescStands, p
  <2>2. CASE ShowStands(w, s)
    BY <1>1, <2>2 DEF ShowStands, p
  <2> QED
    BY <2>1, <2>2
<1> HIDE DEF p
<1>5. ASSUME NEW i \in 1..Len(w), NEW k \in Marks PROVE w[i] # <<k>>
  <2>1. i = 1 \/ (i = 2 /\ p = 2) \/ i = p + 1 \/ i = p + 2 \/ i = p + 3
    BY <1>1, <1>3
  <2>2. i = p + 2 => Len(w) \in {p + 2, p + 3}
    BY <1>1, <1>3
  <2>3. i = p + 3 => Len(w) = p + 3
    BY <1>1, <1>3
  <2> QED
    BY <1>1, <1>2, <1>4, <2>1, <2>2, <2>3, NameIsNoMark DEF Is
<1> QED
  BY <1>5 DEF NoMarks

----------------------------------------------------------------------------
(* A line that a name completes. *)
LEMMA AppendJoins ==
  ASSUME NEW s \in Text, NEW u \in Text, NEW k \in Keys
  PROVE  s \o Append(u, k) = Append(s \o u, k) /\ s \o u \in Text
<1>1. <<k>> \in Text /\ s \o u \in Text
  BY KeyText, TextJoins
<1>2. s \o Append(u, k) = s \o (u \o <<k>>) /\ Append(s \o u, k) = (s \o u) \o <<k>>
  BY <1>1, OneMore
<1>3. (s \o u) \o <<k>> = s \o (u \o <<k>>)
  BY <1>1, ConcatAssociative DEF Text
<1> QED
  BY <1>1, <1>2, <1>3

(* The words v are those of ws, the last of them ended by r. *)
Ends(v, ws, r) ==
  /\ v \in WordLists /\ Len(v) = Len(ws) /\ v[Len(ws)] = ws[Len(ws)] \o r
  /\ \A i \in 1..(Len(ws) - 1) : v[i] = ws[i]
(* What has no separator makes the last word longer. *)
LEMMA SplitsEnd ==
  ASSUME NEW s \in Text, NEW r \in Text, Stops(r) = {}
  PROVE  Ends(Splits(s \o r), Splits(s), r)
<1> DEFINE ws == Splits(s)
           n == Len(ws)
           G == {u \in Text : Stops(u) = {} => Ends(Splits(s \o u), ws, u)}
<1>1. ws \in WordLists /\ n \in Nat \ {0} /\ ws[n] \in Text
  BY SplitsAre, SplitIs, KeyText DEF Keys
<1> HIDE DEF ws
<1>2. <<>> \in G
  <2>1. <<>> \in Text
    BY EmptySeq DEF Text
  <2>2. s \o <<>> = s /\ ws[n] \o <<>> = ws[n]
    BY <1>1, ConcatEmptySeq DEF Text
  <2>3. Splits(s \o <<>>) = ws
    BY <2>2 DEF ws
  <2> QED
    BY <1>1, <2>1, <2>2, <2>3 DEF Ends
<1>3. ASSUME NEW u \in G, NEW k \in Keys PROVE Append(u, k) \in G
  <2> DEFINE a == Append(u, k)
  <2>1. u \in Text /\ a \in Text /\ Len(u) \in Nat /\ DOMAIN u = 1..Len(u) /\ DOMAIN a = 1..(Len(u) + 1) /\ a[Len(u) + 1] = k
        /\ \A i \in 1..Len(u) : a[i] = u[i]
    BY TextIs, TextGrows
  <2> HIDE DEF a
  <2>2. ASSUME Stops(a) = {} PROVE Ends(Splits(s \o a), ws, a)
    <3>1. Stops(u) = {} /\ k \notin {Blank, "("}
      <4>1. Len(u) + 1 \in DOMAIN a /\ \A i \in DOMAIN u : i \in DOMAIN a
        BY <2>1
      <4>2. \A i \in DOMAIN a : a[i] \notin {Blank, "("}
        BY <2>2 DEF Stops
      <4>3. \A i \in DOMAIN u : u[i] \notin {Blank, "("}
        BY <2>1, <4>1, <4>2
      <4> QED
        BY <2>1, <4>1, <4>2, <4>3 DEF Stops
    <3> DEFINE v == Splits(s \o u)
               lv == [v EXCEPT ![Len(v)] = Append(@, k)]
    <3>2. Ends(v, ws, u)
      BY <3>1
    <3>3. s \o a = Append(s \o u, k) /\ ws[n] \o a = Append(ws[n] \o u, k) /\ s \o u \in Text
      BY <1>1, <2>1, AppendJoins DEF a
    <3>4. Splits(s \o a) = Split(v, k)
      BY <3>3, SplitsGrow
    <3> HIDE DEF v
    <3>5. Split(v, k) = lv
      BY <3>1 DEF Split
    <3>6. /\ lv \in WordLists /\ Len(lv) = Len(v) /\ lv[Len(v)] = Append(v[Len(v)], k)
          /\ \A i \in 1..(Len(v) - 1) : lv[i] = v[i]
      BY <3>2, SplitIs DEF Ends
    <3> HIDE DEF lv
    <3>7. Len(v) = n /\ v[n] = ws[n] \o u /\ \A i \in 1..(n - 1) : v[i] = ws[i]
      BY <3>2 DEF Ends
    <3> QED
      BY <3>3, <3>4, <3>5, <3>6, <3>7 DEF Ends
  <2> QED
    BY <2>1, <2>2 DEF a
<1>4. G \in SUBSET Seq(Keys)
  BY DEF Text
<1> HIDE DEF G
<1>5. G = Seq(Keys)
  BY <1>2, <1>3, <1>4, SeqSets
<1> QED
  BY <1>5 DEF G, Text, ws

(* The words w are those of t, the last of them ended by r. *)
Completed(w, t, r) ==
  LET l == Len(t)
      e == t[l] \o r
  IN  /\ w \in Seq(Text) /\ (\A i \in 1..(l - 1) : w[i] = t[i])
      /\ IF e = <<>> THEN Len(w) = l - 1 ELSE Len(w) = l /\ w[l] = e
(* The words of a line that a name completes. *)
LEMMA CompletedIs ==
  ASSUME NEW s \in Text, NEW r \in Text, Stops(r) = {}, Len(Tokenize(s)) >= 2
  PROVE  Completed(Words(s \o r), Tokenize(s), r) /\ Len(Tokenize(s)) \in Nat /\ Tokenize(s) \in Seq(Text)
<1> DEFINE t == Tokenize(s)
           l == Len(t)
           e == t[l] \o r
           q == s \o r
           v == Splits(q)
           w == Words(q)
<1>1. s # <<>>
  <2>1. Len(<<>>) = 0
    OBVIOUS
  <2> QED
    BY <2>1, TokenizeIs
<1>2. t = Splits(s) /\ t \in Seq(Text) /\ l \in Nat /\ l >= 2
  BY <1>1, TokenizeIs
<1>3. q \in Text /\ q # <<>>
  <2>1. q \in Text /\ Len(q) = Len(s) + Len(r) /\ Len(s) \in Nat /\ Len(r) \in Nat
    BY TextJoins
  <2>2. Len(s) # 0
    BY <1>1, EmptySeq DEF Text
  <2>3. Len(q) # 0
    BY <2>1, <2>2
  <2> HIDE DEF q
  <2> QED
    BY <2>1, <2>3, EmptySeq
<1>4. Ends(v, t, r)
  BY <1>2, SplitsEnd
<1> HIDE DEF t, q
<1>5. Tokenize(q) = v
  BY <1>3, TokenizeIs
<1> HIDE DEF v
<1>6. v \in Seq(Text) /\ v # <<>> /\ Len(v) = l /\ v[l] = e /\ \A i \in 1..(l - 1) : v[i] = t[i]
  BY <1>4 DEF Ends, WordLists
<1>7. w = IF e = <<>> THEN SubSeq(v, 1, l - 1) ELSE v
  BY <1>5, <1>6 DEF Words, Last, Front
<1> HIDE DEF w, e
<1>8. CASE e = <<>>
  <2> DEFINE b == l - 1
  <2>1. 1 \in 1..(Len(v) + 1) /\ b \in 0..Len(v) /\ 1 <= b + 1
    BY <1>2, <1>6
  <2>2. \A i \in 1..b : 1 + i - 1 = i
    BY <1>2
  <2> HIDE DEF b
  <2>3. SubSeq(v, 1, b) \in Seq(Text) /\ Len(SubSeq(v, 1, b)) = b - 1 + 1 /\ \A i \in 1..(b - 1 + 1) : SubSeq(v, 1, b)[i] = v[1 + i - 1]
    BY <1>6, <2>1, SliceIs
  <2>4. b - 1 + 1 = b
    BY <2>1, <1>6, <1>2
  <2>5. w \in Seq(Text) /\ Len(w) = b /\ \A i \in 1..b : w[i] = t[i]
    BY <1>6, <1>7, <1>8, <2>2, <2>3, <2>4 DEF b
  <2> QED
    BY <1>2, <1>8, <2>5 DEF Completed, b, e, t, q, w
<1>9. CASE e # <<>>
  BY <1>2, <1>6, <1>7, <1>9 DEF Completed, e, t, q, w
<1> QED
  BY <1>8, <1>9

(* A line without its last key. *)
LEMMA FrontIs ==
  ASSUME NEW q, IsSeq(q), NEW k
  PROVE  Front(q \o <<k>>) = q
<1> DEFINE e == <<k>>
           r == q \o e
           n == Len(q)
           u == SubSeq(r, 1, n)
<1>1. IsSeq(e) /\ Len(e) = 1
  <2>1. e \in Seq({k}) /\ Len(e) = 1
    OBVIOUS
  <2>2. IsSeq(e)
    BY <2>1, Zenon DEF IsSeq
  <2> QED
    BY <2>1, <2>2
<1>2. n \in Nat
  BY SeqIs
<1> HIDE DEF e
<1>3. IsSeq(r) /\ Len(r) = n + 1 /\ \A i \in 1..(n + 1) : r[i] = IF i <= n THEN q[i] ELSE e[i - n]
  BY <1>1, ConcatIs
<1> HIDE DEF r, n
<1>4. Front(r) = u
  <2>1. (n + 1) - 1 = n
    BY <1>2
  <2> QED
    BY <1>3, <2>1 DEF Front
<1>5. 1 \in 1..(Len(r) + 1) /\ n \in 0..Len(r) /\ 1 <= n + 1 /\ n - 1 + 1 = n
  BY <1>2, <1>3
<1>6. PICK S : r \in Seq(S)
  BY <1>3 DEF IsSeq
<1>7. u \in Seq(S) /\ Len(u) = n - 1 + 1 /\ \A i \in 1..(n - 1 + 1) : u[i] = r[1 + i - 1]
  BY <1>5, <1>6, SliceIs
<1>8. \A i \in 1..n : 1 + i - 1 = i /\ i <= n /\ i \in 1..(n + 1)
  BY <1>2
<1> HIDE DEF u
<1>9. IsSeq(u) /\ Len(u) = n /\ \A i \in 1..n : u[i] = q[i]
  BY <1>3, <1>5, <1>7, <1>8 DEF IsSeq
<1>10. PICK T : u \in Seq(T) /\ q \in Seq(T)
  BY <1>9, OneSet
<1>11. u = q
  BY <1>9, <1>10, SeqEqual DEF n
<1> QED
  BY <1>4, <1>11 DEF r, e

(* The lexer leaves no mark unseen. *)
LEMMA MarksShow ==
  ASSUME NEW q \in Text
  PROVE  Lexed(q) \in Seq(Text) /\ (Marked(q) => ~NoMarks(Lexed(q)))
<1> DEFINE w == Lexed(q)
<1>1. Spaced(q) \in Text
  BY SpacedGrows, KeyText DEF Keys
<1> DEFINE v == Spaced(q)
           t == Tokenize(v)
           n == Len(t)
<1>2. t \in Seq(Text) /\ n \in Nat
  <2>1. t \in Seq(Text)
    BY <1>1, TokenizeIs
  <2> HIDE DEF t
  <2> QED
    BY <2>1, LenProperties
<1>3. w = t \/ (t # <<>> /\ w = SubSeq(t, 1, n - 1))
  BY DEF Lexed, Words, Front
<1>4. w \in Seq(Text) /\ Len(w) \in Nat /\ (n >= 1 => Len(w) >= n - 1 /\ \A i \in 1..(n - 1) : w[i] = t[i])
  <2> HIDE DEF t, w
  <2>1. CASE w = t
    <3>1. Len(w) = n /\ w \in Seq(Text)
      BY <1>2, <2>1
    <3> HIDE DEF n
    <3> QED
      BY <1>2, <2>1, <3>1
  <2>2. CASE t # <<>> /\ w = SubSeq(t, 1, n - 1)
    <3>1. n # 0 /\ n = Len(t)
      BY <1>2, <2>2, EmptySeq
    <3> HIDE DEF n
    <3> DEFINE b == n - 1
    <3>2. 1 \in 1..(Len(t) + 1) /\ b \in 0..Len(t) /\ 1 <= b + 1 /\ b - 1 + 1 = b /\ b \in Nat
          /\ \A i \in 1..b : 1 + i - 1 = i
      BY <1>2, <3>1
    <3> HIDE DEF b
    <3>3. w \in Seq(Text) /\ Len(w) = b - 1 + 1 /\ \A i \in 1..(b - 1 + 1) : w[i] = t[1 + i - 1]
      BY <1>2, <2>2, <3>2, SliceIs DEF b
    <3>4. w \in Seq(Text) /\ Len(w) = b /\ \A i \in 1..b : w[i] = t[i]
      BY <3>2, <3>3
    <3> QED
      BY <1>2, <3>2, <3>4 DEF b
  <2> QED
    BY <1>3, <2>1, <2>2
<1>5. ASSUME Marked(q) PROVE ~NoMarks(w)
  <2>1. MarkWord(Splits(v))
    BY <1>5, MarksAreWords
  <2>2. Splits(v) = t
    <3>1. v # <<>>
      <4>1. Splits(<<>>) = <<<<>>>> /\ Len(<<<<>>>>) = 1
        BY SplitsEmpty
      <4>2. ~MarkWord(<<<<>>>>)
        <5>1. 1..(1 - 1) = {}
          OBVIOUS
        <5> QED
          BY <4>1, <5>1 DEF MarkWord
      <4> QED
        BY <2>1, <4>1, <4>2
    <3> QED
      BY <1>1, <3>1, TokenizeIs
  <2>3. n = Len(t)
    OBVIOUS
  <2> HIDE DEF t, w, v, n
  <2>4. PICK j \in 1..(n - 1) : \E k \in Marks : t[j] = <<k>>
    BY <2>1, <2>2, <2>3 DEF MarkWord
  <2>5. j \in 1..Len(w) /\ w[j] = t[j]
    <3>1. j \in Nat /\ j >= 1 /\ j <= n - 1
      BY <1>2, <2>4
    <3>2. n >= 1
      BY <1>2, <3>1
    <3> QED
      BY <1>2, <1>4, <3>1, <3>2
  <2> QED
    BY <2>4, <2>5 DEF NoMarks
<1> QED
  BY <1>4, <1>5

(* The words of a DESC or a SHOW, without its end. *)
Parses(w, x) ==
  \/ x.verb = "desc" /\ Is(w[1], "DESC") /\ DescStands(w, x)
  \/ x.verb = "show" /\ Is(w[1], "SHOW") /\ ShowStands(w, x)
(* A line that is parsed to a DESC or a SHOW has the words of it. *)
LEMMA ParsedAs ==
  ASSUME NEW q \in Text, Parsed(q \o <<";">>).verb \in {"desc", "show"}
  PROVE  Parses(Words(q), Parsed(q \o <<";">>))
<1> DEFINE x == Parsed(q \o <<";">>)
           w == Lexed(q)
<1>1. Front(q \o <<";">>) = q
  BY FrontIs DEF Text, IsSeq
<1>2. x = CASE w = <<>>                        -> NoStmt
            [] w # <<>> /\ Is(w[1], "DESC")   -> ParsedDesc(w)
            [] w # <<>> /\ Is(w[1], "SHOW")   -> ParsedShow(w)
            [] w # <<>> /\ Is(w[1], "CREATE") -> ParsedCreate(w)
            [] OTHER -> NoStmt
  BY <1>1 DEF Parsed
<1>3. NoStmt.verb \notin {"desc", "show"} /\ ParsedCreate(w).verb \notin {"desc", "show"} /\ ParsedDesc(w).verb # "show"
      /\ ParsedShow(w).verb # "desc"
  <2>1. NoStmt.verb = "none"
    BY DEF NoStmt
  <2>2. \A p : Pattern(p).verb = "show"
    BY DEF Pattern
  <2> HIDE DEF w
  <2>3. ParsedCreate(w).verb \in {"none", "create"}
    BY <2>1 DEF ParsedCreate
  <2>4. ParsedDesc(w).verb \in {"none", "desc"}
    BY <2>1 DEF ParsedDesc
  <2>5. ParsedShow(w).verb \in {"none", "show"}
    BY <2>1, <2>2 DEF ParsedShow
  <2> QED
    BY <2>1, <2>3, <2>4, <2>5
<1>4. w \in Seq(Text) /\ (Marked(q) => ~NoMarks(w))
  BY MarksShow
<1>5. w # <<>> /\ ((Is(w[1], "DESC") /\ x = ParsedDesc(w) /\ x.verb = "desc") \/ (Is(w[1], "SHOW") /\ x = ParsedShow(w) /\ x.verb = "show"))
  <2> HIDE DEF w, x
  <2>1. x.verb \in {"desc", "show"}
    BY DEF x
  <2>2. w # <<>>
    BY <1>2, <1>3, <2>1
  <2>3. Is(w[1], "DESC") \/ Is(w[1], "SHOW") \/ Is(w[1], "CREATE")
    BY <1>2, <1>3, <2>1
  <2>4. <<"DESC">> # <<"SHOW">> /\ <<"DESC">> # <<"CREATE">> /\ <<"SHOW">> # <<"CREATE">>
    OBVIOUS
  <2>5. /\ ~(Is(w[1], "DESC") /\ Is(w[1], "SHOW")) /\ ~(Is(w[1], "DESC") /\ Is(w[1], "CREATE"))
        /\ ~(Is(w[1], "SHOW") /\ Is(w[1], "CREATE"))
    BY <2>4 DEF Is
  <2>6. Is(w[1], "DESC") => x = ParsedDesc(w)
    BY <1>2, <2>2, <2>5
  <2>7. Is(w[1], "SHOW") => x = ParsedShow(w)
    BY <1>2, <2>2, <2>5
  <2>8. Is(w[1], "CREATE") => x = ParsedCreate(w)
    BY <1>2, <2>2, <2>5
  <2> QED
    BY <1>3, <2>1, <2>2, <2>3, <2>6, <2>7, <2>8
<1> HIDE DEF w, x
<1>6. Parses(w, x) /\ NoMarks(w)
  <2>1. Len(w) \in Nat
    BY <1>4, LenProperties
  <2>2. CASE x.verb = "desc"
    <3>1. Is(w[1], "DESC") /\ DescStands(w, x)
      BY <1>4, <1>5, <2>2, DescParsed
    <3> QED
      BY <2>1, <2>2, <3>1, NoMarkIn DEF Parses
  <2>3. CASE x.verb = "show"
    <3>1. Is(w[1], "SHOW") /\ ShowStands(w, x)
      BY <1>4, <1>5, <2>3, ShowParsed
    <3> QED
      BY <2>1, <2>3, <3>1, NoMarkIn DEF Parses
  <2> QED
    BY <1>5, <2>2, <2>3
<1>7. w = Words(q)
  <2>1. Spaced(q) = q
    BY <1>4, <1>6, Unmarked
  <2> QED
    BY <2>1 DEF w, Lexed
<1> QED
  BY <1>6, <1>7 DEF x

----------------------------------------------------------------------------
(* What Tab completes is answered. *)
(* A name completes the word that it begins with. *)
Completes(n, p, r) == r \in Text /\ Stops(r) = {} /\ p \o r = n
(* The rest of a name completes what it begins with. *)
LEMMA NameCompletes ==
  ASSUME NEW n \in Names, NEW p \in Text, IsPrefix(p, n)
  PROVE  Completes(n, p, Behind(n, Bytes(p)))
<1> DEFINE a == Len(p) + 1
           m == Len(n)
           r == SubSeq(n, a, m)
           S == STRING \ (Keywords \cup Signs \cup DOMAIN Wide)
<1>1. n \in Text /\ n \in Seq(S) /\ p \in Seq(Keys)
  BY NameTexts DEF Names, Text
<1>2. m \in Nat /\ Len(p) \in Nat /\ Len(p) <= m /\ a \in 1..(m + 1) /\ m \in 0..m /\ m - a + 1 = m - Len(p) /\ m - Len(p) \in Nat
  <2>1. m \in Nat /\ Len(p) \in Nat
    BY <1>1, TextIs
  <2>2. Len(p) <= m
    BY DEF IsPrefix
  <2> HIDE DEF m
  <2> QED
    BY <2>1, <2>2
<1>3. Blank \notin S /\ "(" \notin S
  BY DEF Signs
<1> HIDE DEF S, m
<1>4. r \in Seq(S) /\ r \in Text /\ Len(r) = m - Len(p) /\ \A i \in 1..(m - Len(p)) : r[i] = n[a + i - 1]
  <2> HIDE DEF a
  <2>1. r \in Seq(S) /\ Len(r) = m - a + 1 /\ \A i \in 1..(m - a + 1) : r[i] = n[a + i - 1]
    BY <1>1, <1>2, SliceIs DEF m
  <2>2. r \in Text
    BY <1>1, <1>2, SliceIs DEF m, Text
  <2> QED
    BY <1>2, <2>1, <2>2
<1> HIDE DEF r
<1>5. Stops(r) = {}
  <2>1. \A i \in DOMAIN r : r[i] \in S
    BY <1>4
  <2> QED
    BY <1>3, <2>1 DEF Stops
<1>6. \A i \in 1..Len(p) : p[i] = n[i]
  <2> DEFINE u == SubSeq(p, 1, Len(p))
             v == SubSeq(n, 1, Len(p))
  <2>1. u = v
    BY DEF IsPrefix
  <2>2. 1 \in 1..(Len(p) + 1) /\ Len(p) \in 0..Len(p) /\ 1 <= Len(p) + 1 /\ 1 \in 1..(m + 1) /\ Len(p) \in 0..m
        /\ Len(p) - 1 + 1 = Len(p)
    BY <1>2
  <2>3. \A i \in 1..(Len(p) - 1 + 1) : u[i] = p[1 + i - 1]
    BY <1>1, <2>2, SliceIs
  <2>4. \A i \in 1..(Len(p) - 1 + 1) : v[i] = n[1 + i - 1]
    BY <1>1, <2>2, SliceIs DEF m
  <2>5. \A i \in 1..Len(p) : 1 + i - 1 = i
    BY <1>2
  <2> HIDE DEF u, v
  <2> QED
    BY <2>1, <2>2, <2>3, <2>4, <2>5
<1>7. p \o r = n
  <2> DEFINE q == p \o r
  <2>1. q \in Text /\ Len(q) = Len(p) + Len(r) /\ \A i \in 1..(Len(p) + Len(r)) : q[i] = IF i <= Len(p) THEN p[i] ELSE r[i - Len(p)]
    BY <1>4, TextJoins
  <2> HIDE DEF q
  <2>2. Len(q) = m
    BY <1>2, <1>4, <2>1
  <2>3. ASSUME NEW i \in 1..m PROVE q[i] = n[i]
    <3>1. i \in 1..(Len(p) + Len(r))
      BY <1>2, <1>4
    <3>2. CASE i <= Len(p)
      <4>1. i \in 1..Len(p)
        BY <1>2, <3>2
      <4> QED
        BY <1>6, <2>1, <3>1, <3>2, <4>1
    <3>3. CASE ~(i <= Len(p))
      <4>1. i - Len(p) \in 1..(m - Len(p)) /\ a + (i - Len(p)) - 1 = i
        BY <1>2, <3>3
      <4>2. q[i] = r[i - Len(p)]
        BY <2>1, <3>1, <3>3
      <4> HIDE DEF a
      <4> QED
        BY <1>4, <4>1, <4>2
    <3> QED
      BY <3>2, <3>3
  <2>4. q = n
    BY <1>1, <2>1, <2>2, <2>3, SeqEqual DEF Text, m
  <2> QED
    BY <2>4 DEF q
<1>8. Behind(n, Bytes(p)) = r
  <2>1. Bytes(p) = Chars(p)
    BY NarrowName
  <2>2. Behind(n, Chars(p)) = SubSeq(n, Len(p) + 1, Len(n))
    BY <1>1, PrefixChars
  <2> QED
    BY <2>1, <2>2 DEF r, m
<1> QED
  BY <1>4, <1>5, <1>7, <1>8 DEF Completes

(* The statement of a completed DESC. *)
OfTable(d, n, x) == n \in TableNames(d) /\ x.table = n /\ x.cols = <<>>
OfColumn(d, n, x) ==
  /\ TableAt(d, x.table) # 0 /\ n \in ColumnHeads(TableOf(d, x.table))
  /\ x.cols = <<>> \/ x.cols[1] = n
(* A DESC that a name completes is about that table, or that column. *)
LEMMA DescCompleted ==
  ASSUME NEW s \in Text, NEW d, NamesOnly(d), Len(Tokenize(s)) >= 2,
         NEW n \in DescribeCompleter(d, s).names,
         NEW w, NEW x, Is(w[1], "DESC"), DescStands(w, x),
         w = Words(s \o Behind(n, Bytes(DescribeCompleter(d, s).word)))
  PROVE  OfTable(d, n, x) \/ OfColumn(d, n, x)
<1> DEFINE t == Tokenize(s)
           l == Len(t)
           tpos == IF l >= 2 /\ Is(t[2], "FULL") THEN 3 ELSE 2
           o == DescribeCompleter(d, s)
           r == Behind(n, Bytes(o.word))
           p == Ahead(w)
<1>1. o = CASE tpos = l     -> Offer(ListTables(d, t[l]), t[l])
            [] tpos = l - 1 -> IF TableAt(d, t[tpos]) = 0 THEN NoOffer
                               ELSE Offer(ListTableColumns(d, t[tpos], t[l]), t[l])
            [] OTHER        -> NoOffer
  BY DEF DescribeCompleter
<1>2. n \in o.names /\ w = Words(s \o r)
  OBVIOUS
<1>3. l \in Nat /\ l >= 2 /\ t[l] \in Text
  <2>1. s # <<>>
    <3>1. Len(<<>>) = 0
      OBVIOUS
    <3> QED
      BY <3>1, TokenizeIs
  <2> QED
    BY <2>1, TokenizeIs, CursorIs
<1> HIDE DEF o, t, l
<1>4. /\ o.word = t[l]
      /\ \/ tpos = l /\ n \in ListTables(d, t[l])
         \/ tpos = l - 1 /\ TableAt(d, t[tpos]) # 0 /\ n \in ListTableColumns(d, t[tpos], t[l])
  <2> HIDE DEF tpos
  <2>1. CASE tpos = l
    <3>1. o = Offer(ListTables(d, t[l]), t[l])
      <4>1. tpos # l - 1
        BY <1>3, <2>1
      <4> QED
        BY <1>1, <2>1, <4>1
    <3>2. n \in TableNames(d) /\ IsPrefix(t[l], n) /\ o.word = t[l]
      BY <1>2, <3>1, OfferNames DEF ListTables
    <3> QED
      BY <2>1, <3>2 DEF ListTables, PrefixedBy
  <2>2. CASE tpos # l /\ tpos = l - 1
    <3>1. o = IF TableAt(d, t[tpos]) = 0 THEN NoOffer ELSE Offer(ListTableColumns(d, t[tpos], t[l]), t[l])
      BY <1>1, <2>2
    <3>2. o # NoOffer
      BY <1>2, NoOfferIs
    <3>3. TableAt(d, t[tpos]) # 0 /\ o = Offer(ListTableColumns(d, t[tpos], t[l]), t[l])
      BY <3>1, <3>2
    <3>4. n \in ColumnHeads(TableOf(d, t[tpos])) /\ IsPrefix(t[l], n) /\ o.word = t[l]
      BY <1>2, <3>3, OfferNames DEF ListTableColumns
    <3> QED
      BY <2>2, <3>3, <3>4 DEF ListTableColumns, PrefixedBy
  <2>3. CASE tpos # l /\ tpos # l - 1
    BY <1>1, <1>2, <2>3, NoOfferIs
  <2> QED
    BY <2>1, <2>2, <2>3
<1>5. n \in Names /\ IsPrefix(t[l], n)
  BY <1>4 DEF NamesOnly, ListTables, ListTableColumns, PrefixedBy
<1>6. Completes(n, t[l], r)
  BY <1>3, <1>4, <1>5, NameCompletes
<1>7. Completed(w, t, r)
  BY <1>2, <1>6, CompletedIs DEF Completes, t
<1>8. /\ \A i \in 1..(l - 1) : w[i] = t[i]
      /\ IF n = <<>> THEN Len(w) = l - 1 ELSE Len(w) = l /\ w[l] = n
  BY <1>6, <1>7 DEF Completed, Completes, l
<1> HIDE DEF r
<1>9. ~Is(n, "FULL")
  <2>1. n # <<>> => IsName(n)
    BY <1>5 DEF IsName
  <2>2. n = <<>> => ~Is(n, "FULL")
    BY DEF Is
  <2> QED
    BY <2>1, <2>2, NameIsNoMark DEF Is
<1>10. p = tpos - 1 /\ p \in 1..2
  <2>1. CASE l >= 3
    <3>1. w[2] = t[2] /\ Len(w) > 1
      <4>1. 2 \in 1..(l - 1)
        BY <1>3, <2>1
      <4>2. Len(w) = l - 1 \/ Len(w) = l
        BY <1>8
      <4> QED
        BY <1>3, <1>8, <2>1, <4>1, <4>2
    <3> QED
      BY <1>3, <3>1 DEF Ahead
  <2>2. CASE l = 2
    <3>1. tpos = 2
      BY <1>3, <1>4, <2>2
    <3>2. ~(Len(w) > 1 /\ Is(w[2], "FULL"))
      BY <1>8, <1>9, <2>2
    <3>3. p = 1
      BY <3>2 DEF Ahead
    <3> HIDE DEF p, tpos
    <3> QED
      BY <3>1, <3>3
  <2> QED
    BY <1>3, <2>1, <2>2
<1> HIDE DEF p, tpos
<1>11. /\ Len(w) = p + 1 \/ Len(w) = p + 2
       /\ x.table = w[p + 1]
       /\ IF Len(w) = p + 1 THEN x.cols = <<>> ELSE x.cols[1] = w[p + 2]
  BY DEF DescStands, p
<1>12. CASE tpos = l /\ n \in ListTables(d, t[l])
  <2>1. Len(w) = l /\ w[l] = n /\ l = p + 1
    BY <1>3, <1>8, <1>10, <1>11, <1>12
  <2>2. n \in TableNames(d)
    BY <1>12 DEF ListTables, PrefixedBy
  <2> QED
    BY <1>11, <2>1, <2>2 DEF OfTable
<1>13. CASE tpos = l - 1 /\ TableAt(d, t[tpos]) # 0 /\ n \in ListTableColumns(d, t[tpos], t[l])
  <2>1. l = p + 2 /\ tpos = p + 1 /\ p + 1 \in 1..(l - 1)
    <3>1. tpos = l - 1 /\ l \in Nat
      BY <1>3, <1>13
    <3> QED
      BY <1>10, <3>1
  <2>2. w[p + 1] = t[p + 1]
    BY <1>8, <2>1
  <2>3. n \in ColumnHeads(TableOf(d, x.table)) /\ TableAt(d, x.table) # 0
    BY <1>11, <1>13, <2>1, <2>2 DEF ListTableColumns, PrefixedBy
  <2>4. x.cols = <<>> \/ x.cols[1] = n
    <3>1. CASE Len(w) = p + 1
      BY <1>11, <3>1
    <3>2. CASE Len(w) # p + 1
      <4>1. Len(w) = l /\ w[l] = n
        BY <1>3, <1>8, <1>10, <2>1, <3>2
      <4> QED
        BY <1>11, <2>1, <3>2, <4>1
    <3> QED
      BY <3>1, <3>2
  <2> QED
    BY <2>3, <2>4 DEF OfColumn
<1> QED
  BY <1>4, <1>12, <1>13

(* The statement of a completed SHOW. *)
LEMMA ShowCompleted ==
  ASSUME NEW s \in Text, NEW d, NamesOnly(d), Len(Tokenize(s)) >= 2,
         NEW n \in ShowCompleter(d, s).names,
         NEW w, NEW x, Is(w[1], "SHOW"), ShowStands(w, x),
         w = Words(s \o Behind(n, Bytes(ShowCompleter(d, s).word)))
  PROVE  n \in ColumnNames(d) /\ (x.clause = "none" \/ (x.clause = "with" /\ x.arg = n))
<1> DEFINE t == Tokenize(s)
           l == Len(t)
           Skip(at, k) == IF at <= l /\ Is(t[at], k) THEN at + 1 ELSE at
           a == Skip(2, "FULL")
           b == Skip(a, "TABLES")
           cpos == Skip(b, "WITH")
           o == ShowCompleter(d, s)
           r == Behind(n, Bytes(o.word))
           p == Ahead(w)
<1>1. o = IF l < 4 \/ cpos > l THEN NoOffer ELSE Offer(PrefixedBy(ColumnNames(d), t[cpos]), t[cpos])
  BY DEF ShowCompleter
<1>2. n \in o.names /\ w = Words(s \o r)
  OBVIOUS
<1>3. l \in Nat /\ l >= 2 /\ t \in Seq(Text) /\ \A i \in 1..l : t[i] \in Text
  <2>1. t \in Seq(Text)
    BY TokenizeIs
  <2> HIDE DEF t
  <2> QED
    BY <2>1, LenProperties, ElementOfSeq DEF t
<1> HIDE DEF o, t, l
<1>4. cpos \in 2..5
  BY <1>3
<1> HIDE DEF cpos
<1>5. l >= 4 /\ cpos <= l /\ o.word = t[cpos] /\ n \in ColumnNames(d) /\ IsPrefix(t[cpos], n)
  <2>1. ~(l < 4 \/ cpos > l)
    BY <1>1, <1>2, NoOfferIs
  <2>2. l >= 4 /\ cpos <= l
    BY <1>3, <1>4, <2>1
  <2>3. o.word = t[cpos] /\ n \in ColumnNames(d) /\ IsPrefix(t[cpos], n)
    BY <1>1, <1>2, <2>1, OfferNames
  <2> QED
    BY <2>2, <2>3
<1>6. n \in Names /\ t[cpos] \in Text
  BY <1>3, <1>4, <1>5 DEF NamesOnly
<1>7. Completes(n, t[cpos], r)
  BY <1>5, <1>6, NameCompletes
<1>8. Completed(w, t, r)
  BY <1>2, <1>7, CompletedIs DEF Completes, t
<1> DEFINE e == t[l] \o r
<1>9. /\ \A i \in 1..(l - 1) : w[i] = t[i]
      /\ IF e = <<>> THEN Len(w) = l - 1 ELSE Len(w) = l /\ w[l] = e
  BY <1>8 DEF Completed, l
<1>10. r \in Text /\ t[cpos] \o r = n
  BY <1>7 DEF Completes
<1> HIDE DEF r, e
<1>11. Len(w) \in {l - 1, l} /\ Len(w) >= 3 /\ w[2] = t[2] /\ w[3] = t[3]
  <2>1. 2 \in 1..(l - 1) /\ 3 \in 1..(l - 1)
    BY <1>3, <1>5
  <2>2. Len(w) = l - 1 \/ Len(w) = l
    BY <1>9
  <2> QED
    BY <1>3, <1>5, <1>9, <2>1, <2>2
<1>12. p \in 1..2 /\ a = p + 1
  <2>1. 2 <= l /\ Len(w) > 1
    BY <1>3, <1>11
  <2> QED
    BY <1>11, <2>1 DEF Ahead
<1> HIDE DEF p, a
<1>13. Is(w[p + 1], "TABLES") /\ w[p + 1] = t[p + 1] /\ b = p + 2
  <2>1. Is(w[p + 1], "TABLES")
    BY DEF ShowStands, p
  <2>2. p + 1 \in 1..(l - 1) /\ p + 1 <= l /\ (p + 1) + 1 = p + 2
    BY <1>3, <1>5, <1>12
  <2>3. w[p + 1] = t[p + 1]
    BY <1>9, <2>2
  <2> QED
    BY <1>12, <2>1, <2>2, <2>3
<1> HIDE DEF b
<1>14. CASE Len(w) = p + 1 /\ x.clause = "none"
  BY <1>5, <1>14
<1>15. CASE Len(w) = p + 3 /\ IsName(w[p + 3])
              /\ \/ Is(w[p + 2], "WITH") /\ x.clause = "with" /\ x.arg = w[p + 3]
                 \/ Is(w[p + 2], "LIKE")
  <2>1. p + 2 \in 1..(l - 1) /\ p + 2 <= l /\ (p + 2) + 1 = p + 3 /\ (l = p + 3 \/ l = p + 4)
    BY <1>3, <1>11, <1>12, <1>15
  <2>2. w[p + 2] = t[p + 2]
    BY <1>9, <2>1
  <2>3. CASE Is(w[p + 2], "WITH") /\ x.clause = "with" /\ x.arg = w[p + 3]
    <3>1. cpos = p + 3
      BY <1>13, <2>1, <2>2, <2>3 DEF cpos
    <3>2. w[p + 3] = n
      <4>1. CASE Len(w) = l
        <5>1. l = p + 3 /\ e # <<>>
          BY <1>3, <1>9, <1>15, <4>1
        <5> QED
          BY <1>9, <1>10, <3>1, <5>1 DEF e
      <4>2. CASE Len(w) # l
        <5>1. l = p + 4 /\ e = <<>> /\ p + 3 \in 1..(l - 1)
          BY <1>3, <1>9, <1>12, <1>15, <2>1, <4>2
        <5>2. r = <<>>
          <6>1. Len(e) = Len(t[l]) + Len(r) /\ Len(t[l]) \in Nat /\ Len(r) \in Nat
            <7>1. t[l] \in Text
              BY <1>3
            <7> QED
              BY <1>10, <7>1, TextJoins DEF e
          <6>2. Len(<<>>) = 0
            OBVIOUS
          <6>3. Len(r) = 0
            BY <5>1, <6>1, <6>2
          <6> QED
            BY <1>10, <6>3, EmptySeq DEF Text
        <5>3. t[cpos] \o <<>> = t[cpos]
          BY <1>6, ConcatEmptySeq DEF Text
        <5>4. w[p + 3] = t[p + 3]
          BY <1>9, <5>1
        <5> QED
          BY <1>10, <3>1, <5>2, <5>3, <5>4
      <4> QED
        BY <4>1, <4>2
    <3> QED
      BY <1>5, <2>3, <3>2
  <2>4. CASE Is(w[p + 2], "LIKE")
    <3>1. cpos = p + 2
      <4>1. ~Is(t[p + 2], "WITH")
        BY <2>2, <2>4 DEF Is
      <4> QED
        BY <1>13, <4>1 DEF cpos
    <3>2. t[cpos] = <<"LIKE">>
      BY <2>2, <2>4, <3>1 DEF Is
    <3>3. FALSE
      <4> DEFINE S == STRING \ (Keywords \cup Signs \cup DOMAIN Wide)
      <4>1. n \in Seq(S)
        BY <1>6 DEF Names
      <4>2. "LIKE" \notin S
        BY DEF Keywords
      <4>3. Len(<<"LIKE">>) = 1 /\ <<"LIKE">>[1] = "LIKE"
        OBVIOUS
      <4> HIDE DEF S
      <4>4. Len(n) \in Nat /\ Len(n) >= 1 /\ n[1] = "LIKE"
        <5> DEFINE u == <<"LIKE">>
        <5>1. Len(u) = 1 /\ u[1] = "LIKE" /\ u \in Text /\ u \o r = n /\ r \in Text
          BY <1>6, <1>10, <3>2, <4>3
        <5> HIDE DEF u
        <5> DEFINE v == u \o r
        <5>2. Len(v) = Len(u) + Len(r) /\ Len(r) \in Nat /\ \A i \in 1..(Len(u) + Len(r)) : v[i] = IF i <= Len(u) THEN u[i] ELSE r[i - Len(u)]
          BY <5>1, TextJoins
        <5>3. v = n
          BY <5>1
        <5> HIDE DEF v
        <5>4. 1 \in 1..(Len(u) + Len(r)) /\ 1 <= Len(u)
          BY <5>1, <5>2
        <5> QED
          BY <5>1, <5>2, <5>4, <5>3
      <4>5. n[1] \in S
        BY <4>1, <4>4, ElementOfSeq
      <4> QED
        BY <4>2, <4>4, <4>5
    <3> QED
      BY <3>3
  <2> QED
    BY <1>15, <2>3, <2>4
<1> QED
  BY <1>14, <1>15 DEF ShowStands, p

(* The words of a line before its last one, however it goes on. *)
GoesOn(v, ws) ==
  v \in WordLists /\ Len(v) \in Nat /\ Len(ws) <= Len(v) /\ \A i \in 1..(Len(ws) - 1) : v[i] = ws[i]
(* All words but the last stay as they are. *)
LEMMA SplitsGoOn ==
  ASSUME NEW s \in Text, NEW r \in Text
  PROVE  GoesOn(Splits(s \o r), Splits(s))
<1> DEFINE ws == Splits(s)
           n == Len(ws)
           G == {u \in Text : GoesOn(Splits(s \o u), ws)}
<1>1. ws \in WordLists
  BY SplitsAre
<1>2. n \in Nat \ {0}
  BY <1>1, SplitIs, KeyText DEF Keys
<1> HIDE DEF ws
<1>3. <<>> \in G
  <2>1. <<>> \in Text /\ s \o <<>> = s
    BY EmptySeq, ConcatEmptySeq DEF Text
  <2> QED
    BY <1>1, <1>2, <2>1 DEF GoesOn, ws
<1>4. ASSUME NEW u \in G, NEW k \in Keys PROVE Append(u, k) \in G
  <2> DEFINE v == Splits(s \o u)
             r1 == Split(v, k)
  <2>1. u \in Text /\ GoesOn(v, ws)
    OBVIOUS
  <2>2. Append(u, k) \in Text /\ s \o u \in Text /\ s \o Append(u, k) = Append(s \o u, k)
    BY <2>1, TextGrows, AppendJoins
  <2>3. Splits(s \o Append(u, k)) = r1
    BY <2>2, SplitsGrow
  <2> HIDE DEF v
  <2>4. v \in WordLists /\ Len(v) \in Nat /\ n <= Len(v) /\ \A i \in 1..(n - 1) : v[i] = ws[i]
    BY <2>1 DEF GoesOn
  <2>5. r1 \in WordLists /\ Len(r1) \in Nat /\ Len(v) <= Len(r1) /\ \A i \in 1..(Len(v) - 1) : r1[i] = v[i]
    BY <2>4, SplitIs, SplitKeeps
  <2> HIDE DEF r1, n
  <2>6. n <= Len(r1) /\ \A i \in 1..(n - 1) : i \in 1..(Len(v) - 1)
    BY <1>2, <2>4, <2>5
  <2>7. GoesOn(r1, ws)
    BY <2>4, <2>5, <2>6 DEF GoesOn, n
  <2> QED
    BY <2>2, <2>3, <2>7
<1>5. G \in SUBSET Seq(Keys)
  BY DEF Text
<1> HIDE DEF G
<1>6. G = Seq(Keys)
  BY <1>3, <1>4, <1>5, SeqSets
<1> QED
  BY <1>6 DEF G, Text, ws

(* The verb stays. *)
LEMMA VerbStays ==
  ASSUME NEW s \in Text, NEW r \in Text, s # <<>>, Len(Tokenize(s)) >= 2
  PROVE  Words(s \o r)[1] = Tokenize(s)[1]
<1> DEFINE q == s \o r
           t == Tokenize(s)
           v == Tokenize(q)
<1>1. q \in Text /\ q # <<>>
  <2>1. q \in Text /\ Len(q) = Len(s) + Len(r) /\ Len(s) \in Nat /\ Len(r) \in Nat
    BY TextJoins
  <2>2. Len(s) # 0
    BY EmptySeq DEF Text
  <2>3. Len(q) # 0
    BY <2>1, <2>2
  <2> HIDE DEF q
  <2> QED
    BY <2>1, <2>3, EmptySeq
<1>2. t = Splits(s) /\ v = Splits(q) /\ Len(t) \in Nat /\ Len(t) >= 2
  BY <1>1, TokenizeIs
<1>3. GoesOn(v, t)
  BY <1>2, SplitsGoOn
<1> HIDE DEF t, q
<1>4. Words(q) = v \/ Words(q) = SubSeq(v, 1, Len(v) - 1)
  BY DEF Words, Front
<1> HIDE DEF v
<1>5. v \in Seq(Text) /\ Len(v) \in Nat /\ Len(v) >= 2 /\ v[1] = t[1]
  <2>1. 1 \in 1..(Len(t) - 1)
    BY <1>2
  <2> QED
    BY <1>2, <1>3, <2>1 DEF GoesOn, WordLists
<1> DEFINE b == Len(v) - 1
<1>6. 1 \in 1..(Len(v) + 1) /\ b \in 0..Len(v) /\ 1 <= b + 1 /\ 1 \in 1..(b - 1 + 1) /\ 1 + 1 - 1 = 1
  BY <1>5
<1> HIDE DEF b
<1>7. SubSeq(v, 1, b)[1] = v[1]
  <2>1. \A i \in 1..(b - 1 + 1) : SubSeq(v, 1, b)[i] = v[1 + i - 1]
    BY <1>5, <1>6, SliceIs
  <2> QED
    BY <1>6, <2>1
<1> QED
  BY <1>4, <1>5, <1>7 DEF b, t, q

(* A statement is answered, or is the exception. *)
Fine(x) ==
  \/ Answer(Database, x) \notin {Refused, Rows(<<>>)}
  \/ OfViewOfView(comp, x) /\ \E i \in DOMAIN comp.vw : Relabels(comp.vw[i])
(* DESC of a table that is offered is answered. *)
LEMMA TableAnswered ==
  ASSUME KnowInv, CanConnect, comp # NoDb, NEW n, NEW x, x.verb = "desc", OfTable(comp, n, x)
  PROVE  Fine(x)
<1> DEFINE d == Database
           t == TableOf(d, x.table)
<1>1. TableAt(comp, x.table) # 0
  <2>1. n \in TableNames(comp) /\ x.table = n
    BY DEF OfTable
  <2>2. PICK i \in DOMAIN Tables(comp) : Tables(comp)[i].name = n
    BY <2>1 DEF TableNames
  <2>3. IsDb(comp)
    BY DEF KnowInv, PromptInv, Views, IsDb
  <2> QED
    BY <2>1, <2>2, <2>3, TableAtIs
<1>2. TableAt(d, x.table) # 0 /\ IsSeq(t.cols) /\ 1 \in DOMAIN t.cols
  BY <1>1, TableKnown
<1> HIDE DEF d
<1>3. Describe(d, x) \notin {Refused, Rows(<<>>)}
  BY <1>2, DescAnswers DEF OfTable
<1>4. Answer(d, x) = Describe(d, x)
  BY DEF Answer
<1> QED
  BY <1>3, <1>4 DEF Fine, d

(* DESC of a column that is offered is answered, or the exception. *)
LEMMA ColumnAnswered ==
  ASSUME KnowInv, CanConnect, comp # NoDb, NEW n, NEW x, x.verb = "desc", OfColumn(comp, n, x)
  PROVE  Fine(x)
<1> DEFINE d == Database
           t == TableOf(d, x.table)
           u == TableOf(comp, x.table)
<1>1. TableAt(comp, x.table) # 0 /\ n \in ColumnHeads(u) /\ (x.cols = <<>> \/ x.cols[1] = n)
  BY DEF OfColumn
<1>2. /\ TableAt(d, x.table) # 0 /\ IsSeq(t.cols) /\ 1 \in DOMAIN t.cols
      /\ \/ FieldAt(t, n) # 0
         \/ IsView(u) /\ IsView(TableOf(comp, u.src)) /\ ~Plain(comp.vw)
  BY <1>1, TableKnown
<1>3. Answer(d, x) = Describe(d, x)
  BY DEF Answer
<1> HIDE DEF d, t, u
<1>4. CASE x.cols = <<>> \/ FieldAt(t, n) # 0
  <2>1. Describe(d, x) \notin {Refused, Rows(<<>>)}
    BY <1>1, <1>2, <1>4, DescAnswers DEF t
  <2> QED
    BY <1>3, <2>1 DEF Fine, d
<1>5. CASE x.cols # <<>> /\ FieldAt(t, n) = 0
  <2>1. IsView(u) /\ IsView(TableOf(comp, u.src)) /\ ~Plain(comp.vw)
    BY <1>2, <1>5
  <2>2. OfViewOfView(comp, x)
    BY <1>5, <2>1 DEF OfViewOfView, u
  <2>3. \E i \in DOMAIN comp.vw : Relabels(comp.vw[i])
    BY <2>1 DEF Plain, Relabels
  <2> QED
    BY <2>2, <2>3 DEF Fine
<1> QED
  BY <1>4, <1>5

(* SHOW TABLES of a column that is offered is answered. *)
LEMMA ShowAnswered ==
  ASSUME KnowInv, CanConnect, comp # NoDb, NEW n \in ColumnNames(comp), NEW x, x.verb = "show",
         x.clause = "none" \/ (x.clause = "with" /\ x.arg = n)
  PROVE  Fine(x)
<1> DEFINE d == Database
<1>1. 1 \in DOMAIN TablesWithColumn(d, n)
  BY ColumnKnown
<1>2. IsDb(d)
  BY DatabaseIs DEF KnowInv, PromptInv, Opened, Views, IsDb
<1>3. Answer(d, x) = Show(d, x)
  BY DEF Answer
<1> HIDE DEF d
<1>4. Show(d, x) \notin {Refused, Rows(<<>>)}
  BY <1>1, <1>2, ShowAnswers
<1> QED
  BY <1>3, <1>4 DEF Fine, d

(* Whatever is offered is answered. *)
LEMMA CompletedAnswered ==
  ASSUME KnowInv, CanConnect, comp # NoDb, NEW n \in Do(comp, line).names, NEW w, NEW x, Parses(w, x),
         w = Words(line \o Behind(n, Bytes(Do(comp, line).word)))
  PROVE  Fine(x)
<1> DEFINE o == Do(comp, line)
           r == Behind(n, Bytes(o.word))
           t == Tokenize(line)
<1>1. n \in o.names /\ w = Words(line \o r)
  OBVIOUS
<1>2. line \in Text /\ NamesOnly(comp)
  BY DbNames DEF KnowInv, PromptInv
<1>3. Len(t) \in Nat
  <2>1. t \in Seq(Text)
    BY <1>2, TokenizeIs
  <2> HIDE DEF t
  <2> QED
    BY <2>1, LenProperties
<1>4. line # <<>> /\ Len(t) >= 2
  <2>1. o # NoOffer
    BY <1>1, NoOfferIs
  <2>2. ASSUME line = <<>> \/ Len(t) < 2 PROVE o = NoOffer
    <3>1. ~(Len(t) >= 2)
      <4>1. line = <<>> => Len(t) = 0
        <5>1. Len(<<>>) = 0
          OBVIOUS
        <5> QED
          BY <1>2, <5>1, TokenizeIs
      <4> QED
        BY <1>3, <2>2, <4>1
    <3> QED
      BY <2>2, <3>1, Zenon DEF Do
  <2>3. ~(line = <<>> \/ Len(t) < 2)
    BY <2>1, <2>2
  <2> QED
    BY <1>3, <2>3
<1>5. r \in Text
  <2>1. Offers(o)
    BY <1>2, DbWords, DoIs DEF KnowInv, PromptInv
  <2>2. n \in Text /\ Bytes(o.word) \in Nat
    BY <1>1, <2>1, CharsIs DEF Offers
  <2> HIDE DEF o
  <2> QED
    BY <2>2, CutIs
<1>6. w[1] = t[1]
  <2> HIDE DEF o, r, t
  <2> QED
    BY <1>1, <1>2, <1>4, <1>5, VerbStays DEF t
<1>7. CASE x.verb = "desc" /\ Is(w[1], "DESC") /\ DescStands(w, x)
  <2>1. o = DescribeCompleter(comp, line)
    <3>1. Is(t[1], "DESC")
      BY <1>6, <1>7
    <3> HIDE DEF t
    <3> QED
      BY <1>3, <1>4, <3>1 DEF Do, Is, t
  <2> HIDE DEF o, t
  <2>2. n \in DescribeCompleter(comp, line).names
        /\ w = Words(line \o Behind(n, Bytes(DescribeCompleter(comp, line).word)))
    BY <1>1, <2>1 DEF o
  <2>3. OfTable(comp, n, x) \/ OfColumn(comp, n, x)
    BY <1>2, <1>4, <1>7, <2>2, DescCompleted DEF t
  <2> QED
    BY <1>7, <2>3, TableAnswered, ColumnAnswered
<1>8. CASE x.verb = "show" /\ Is(w[1], "SHOW") /\ ShowStands(w, x)
  <2>1. o = ShowCompleter(comp, line)
    <3>1. Is(t[1], "SHOW")
      BY <1>6, <1>8
    <3> HIDE DEF t
    <3> QED
      BY <1>3, <1>4, <3>1 DEF Do, Is, t
  <2> HIDE DEF o, t
  <2>2. n \in ShowCompleter(comp, line).names
        /\ w = Words(line \o Behind(n, Bytes(ShowCompleter(comp, line).word)))
    BY <1>1, <2>1 DEF o
  <2>3. n \in ColumnNames(comp) /\ (x.clause = "none" \/ (x.clause = "with" /\ x.arg = n))
    BY <1>2, <1>4, <1>8, <2>2, ShowCompleted DEF t
  <2> QED
    BY <1>8, <2>3, ShowAnswered
<1> QED
  BY <1>7, <1>8 DEF Parses

(* The answer, from what the completer knows. *)
LEMMA OfferAnswered == KnowInv => OfferIsAnswered
<1> SUFFICES ASSUME KnowInv PROVE OfferIsAnswered
  OBVIOUS
<1> DEFINE o == Offered
           q(n) == line \o Behind(n, Bytes(o.word))
           x(n) == Parsed(q(n) \o <<";">>)
<1>1. ASSUME NEW n \in o.names, x(n).verb \in {"desc", "show"}, CanConnect PROVE Fine(x(n))
  <2>1. comp # NoDb /\ o = Do(comp, line)
    BY <1>1, NoOfferIs DEF Offered
  <2>2. q(n) \in Text
    <3>1. Offers(o) /\ line \in Text
      BY <2>1, DbWords, DoIs DEF KnowInv, PromptInv
    <3> HIDE DEF o
    <3>2. n \in Text /\ Bytes(o.word) \in Nat
      BY <1>1, <3>1, CharsIs DEF Offers
    <3>3. Behind(n, Bytes(o.word)) \in Text
      BY <3>2, CutIs
    <3> QED
      BY <3>1, <3>3, TextJoins
  <2> HIDE DEF o, q
  <2>3. Parses(Words(q(n)), x(n))
    BY <1>1, <2>2, ParsedAs
  <2> HIDE DEF x
  <2>4. n \in Do(comp, line).names
        /\ Words(q(n)) = Words(line \o Behind(n, Bytes(Do(comp, line).word)))
    BY <1>1, <2>1 DEF q
  <2> QED
    BY <1>1, <2>1, <2>3, <2>4, CompletedAnswered
<1> QED
  BY <1>1 DEF OfferIsAnswered, Fine

(* What Tab completes, DESC and SHOW answer: for all reports, views, lines and  *)
(* histories, but for a column of a view of a view once a view gives a column   *)
(* the name of another.                                                         *)
THEOREM OfferIsAnsweredHolds == Spec => []OfferIsAnswered
BY OfferAnswered, CompleterKnowsTheFile, PTL DEF Spec

----------------------------------------------------------------------------
(* The cursor of a CREATE VIEW: its words from SELECT on are those of the     *)
(* line from there on, and joined again they are no shorter than it.         *)

(* The words behind a separator are split as on a line of their own. *)
LEMMA JoinLists ==
  ASSUME NEW f \in Seq(Text), NEW ws \in WordLists
  PROVE  /\ f \o ws \in WordLists /\ Len(f) \in Nat /\ Len(ws) \in Nat \ {0} /\ Len(f \o ws) = Len(f) + Len(ws)
         /\ \A i \in 1..(Len(f) + Len(ws)) : (f \o ws)[i] = IF i <= Len(f) THEN f[i] ELSE ws[i - Len(f)]
<1>1. ws \in Seq(Text) /\ Len(ws) \in Nat \ {0} /\ Len(f) \in Nat
  BY EmptySeq, LenProperties DEF WordLists
<1> DEFINE r == f \o ws
<1>2. /\ r \in Seq(Text) /\ Len(r) = Len(f) + Len(ws)
      /\ \A i \in 1..(Len(f) + Len(ws)) : r[i] = IF i <= Len(f) THEN f[i] ELSE ws[i - Len(f)]
  BY <1>1, ConcatProperties
<1> HIDE DEF r
<1>3. r # <<>>
  <2>1. Len(<<>>) = 0
    OBVIOUS
  <2>2. Len(f) + Len(ws) # 0
    BY <1>1
  <2> QED
    BY <1>2, <2>1, <2>2
<1>4. r \in WordLists
  BY <1>2, <1>3 DEF WordLists
<1> QED
  BY <1>1, <1>2, <1>4 DEF r

(* A key behind some words. *)
LEMMA SplitBehind ==
  ASSUME NEW f \in Seq(Text), NEW ws \in WordLists, NEW k \in Keys
  PROVE  Split(f \o ws, k) = f \o Split(ws, k)
<1> DEFINE m == Len(f)
           n == Len(ws)
           r == f \o ws
           lr == [r EXCEPT ![Len(r)] = Append(@, k)]
           lw == [ws EXCEPT ![n] = Append(@, k)]
<1>1. /\ r \in WordLists /\ m \in Nat /\ n \in Nat \ {0} /\ Len(r) = m + n
      /\ \A i \in 1..(m + n) : r[i] = IF i <= m THEN f[i] ELSE ws[i - m]
  BY JoinLists
<1>2. /\ lr \in WordLists /\ Len(lr) = Len(r) /\ lr[Len(r)] = Append(r[Len(r)], k)
      /\ (\A i \in 1..(Len(r) - 1) : lr[i] = r[i]) /\ Last(r) = r[Len(r)]
  <2> HIDE DEF r
  <2> QED
    BY <1>1, SplitIs
<1>3. /\ lw \in WordLists /\ Len(lw) = n /\ lw[n] = Append(ws[n], k)
      /\ (\A i \in 1..(n - 1) : lw[i] = ws[i]) /\ Last(ws) = ws[n]
  BY SplitIs
<1>4. r[Len(r)] = ws[n] /\ Last(r) = Last(ws)
  <2>1. Len(r) \in 1..(m + n) /\ ~(Len(r) <= m) /\ Len(r) - m = n
    BY <1>1
  <2> QED
    BY <1>1, <1>2, <1>3, <2>1
<1> DEFINE lj == f \o lw
<1>5. /\ lj \in WordLists /\ Len(lj) = m + n
      /\ \A i \in 1..(m + n) : lj[i] = IF i <= m THEN f[i] ELSE lw[i - m]
  <2> HIDE DEF lw
  <2> QED
    BY <1>3, JoinLists
<1> HIDE DEF r, lr, lw, lj, m, n
<1>6. lr = lj
  <2>1. ASSUME NEW i \in 1..(m + n) PROVE lr[i] = lj[i]
    <3>1. CASE i = m + n
      <4>1. ~(i <= m) /\ i - m = n /\ i = Len(r)
        BY <1>1, <3>1
      <4>2. lj[i] = lw[n] /\ lr[i] = Append(ws[n], k)
        BY <1>2, <1>4, <1>5, <4>1
      <4> QED
        BY <1>3, <4>2, Zenon
    <3>2. CASE i # m + n /\ i <= m
      <4>1. i \in 1..(Len(r) - 1)
        BY <1>1, <3>2
      <4>2. lr[i] = r[i] /\ r[i] = f[i] /\ lj[i] = f[i]
        BY <1>1, <1>2, <1>5, <3>2, <4>1
      <4> QED
        BY <4>2
    <3>3. CASE i # m + n /\ ~(i <= m)
      <4>1. i - m \in 1..(n - 1) /\ i \in 1..(Len(r) - 1)
        BY <1>1, <3>3
      <4> QED
        BY <1>1, <1>2, <1>3, <1>5, <3>3, <4>1
    <3> QED
      BY <3>1, <3>2, <3>3
  <2>2. Len(lr) = Len(lj) /\ \A i \in 1..Len(lr) : lr[i] = lj[i]
    BY <1>1, <1>2, <1>5, <2>1
  <2> QED
    BY <1>2, <1>5, <2>2, SeqEqual DEF WordLists
<1>7. ASSUME NEW vs \in WordLists PROVE Append(f \o vs, <<>>) = f \o Append(vs, <<>>)
  <2> DEFINE e == <<>>
             x == Append(f \o vs, e)
             v == Append(vs, e)
             y == f \o v
             c == f \o vs
  <2>1. e \in Text
    BY EmptySeq DEF Text
  <2> HIDE DEF e
  <2>2. /\ c \in Seq(Text) /\ m \in Nat /\ Len(vs) \in Nat /\ Len(c) = m + Len(vs)
        /\ \A i \in 1..(m + Len(vs)) : c[i] = IF i <= m THEN f[i] ELSE vs[i - m]
    BY JoinLists DEF m, WordLists
  <2> HIDE DEF c
  <2>3. /\ v \in WordLists /\ Len(v) = Len(vs) + 1 /\ v[Len(vs) + 1] = e /\ \A i \in 1..Len(vs) : v[i] = vs[i]
    BY <2>1, AppendProperties DEF WordLists
  <2>4. /\ x \in Seq(Text) /\ Len(x) = Len(c) + 1 /\ x[Len(c) + 1] = e /\ \A i \in 1..Len(c) : x[i] = c[i]
    BY <2>1, <2>2, AppendProperties DEF c
  <2> HIDE DEF v, x
  <2>5. /\ y \in Seq(Text) /\ Len(y) = m + Len(v)
        /\ \A i \in 1..(m + Len(v)) : y[i] = IF i <= m THEN f[i] ELSE v[i - m]
    BY <2>3, JoinLists DEF m, WordLists
  <2> HIDE DEF y
  <2>6. Len(x) = Len(y)
    BY <2>2, <2>3, <2>4, <2>5
  <2>7. ASSUME NEW i \in 1..Len(x) PROVE x[i] = y[i]
    <3>1. CASE i <= m
      BY <2>2, <2>3, <2>4, <2>5, <3>1
    <3>2. CASE i > m /\ i <= m + Len(vs)
      <4>1. i \in 1..Len(c) /\ i \in 1..(m + Len(v)) /\ i - m \in 1..Len(vs) /\ ~(i <= m) /\ i \in 1..(m + Len(vs))
        BY <2>2, <2>3, <2>4, <3>2
      <4> QED
        BY <2>2, <2>3, <2>4, <2>5, <4>1
    <3>3. CASE i > m + Len(vs)
      <4>1. i = Len(c) + 1 /\ i \in 1..(m + Len(v)) /\ i - m = Len(vs) + 1 /\ ~(i <= m)
        BY <2>2, <2>3, <2>4, <3>3
      <4> QED
        BY <2>3, <2>4, <2>5, <4>1
    <3> QED
      BY <2>2, <3>1, <3>2, <3>3
  <2>8. x = y
    BY <2>4, <2>5, <2>6, <2>7, SeqEqual
  <2> QED
    BY <2>8 DEF x, y, v, e, c
<1>8. Append(r, <<>>) = f \o Append(ws, <<>>) /\ Append(lr, <<>>) = f \o Append(lw, <<>>)
  BY <1>3, <1>6, <1>7 DEF r, lj
<1>9. Split(r, k) = IF k = Blank THEN (IF Last(r) = <<>> THEN r ELSE Append(r, <<>>))
                    ELSE IF k = "(" THEN Append(lr, <<>>) ELSE lr
  BY DEF Split, lr
<1>10. Split(ws, k) = IF k = Blank THEN (IF Last(ws) = <<>> THEN ws ELSE Append(ws, <<>>))
                      ELSE IF k = "(" THEN Append(lw, <<>>) ELSE lw
  BY DEF Split, lw, n
<1>11. r = f \o ws /\ lr = f \o lw
  BY <1>6 DEF r, lj
<1>12. Split(r, k) = f \o Split(ws, k)
  BY <1>4, <1>8, <1>9, <1>10, <1>11, Zenon
<1> QED
  BY <1>12 DEF r

(* A text behind some words. *)
LEMMA SplitsBehind ==
  ASSUME NEW s \in Text, NEW f \in Seq(Text), Splits(s) = f \o <<<<>>>>, NEW v \in Text
  PROVE  Splits(s \o v) = f \o Splits(v)
<1> DEFINE G == {u \in Text : Splits(s \o u) = f \o Splits(u)}
<1>1. <<>> \in G
  <2>1. <<>> \in Text /\ s \o <<>> = s
    <3>1. s \in Seq(Keys)
      BY DEF Text
    <3> QED
      BY <3>1, EmptySeq, ConcatEmptySeq DEF Text
  <2> QED
    BY <2>1, SplitsEmpty
<1>2. ASSUME NEW u \in G, NEW k \in Keys PROVE Append(u, k) \in G
  <2>1. u \in Text /\ Splits(s \o u) = f \o Splits(u) /\ Splits(u) \in WordLists /\ s \o u \in Text
    BY TextJoins, SplitsAre
  <2>2. s \o Append(u, k) = Append(s \o u, k)
    <3>1. s \in Seq(Keys) /\ u \in Seq(Keys)
      BY <2>1 DEF Text
    <3> HIDE DEF Keys
    <3> QED
      BY <3>1, ConcatProperties, AppendProperties
  <2>3. Splits(Append(s \o u, k)) = Split(Splits(s \o u), k) /\ Splits(Append(u, k)) = Split(Splits(u), k)
        /\ Append(u, k) \in Text
    BY <2>1, SplitsGrow
  <2>4. Split(f \o Splits(u), k) = f \o Split(Splits(u), k)
    BY <2>1, SplitBehind
  <2> QED
    BY <2>1, <2>2, <2>3, <2>4
<1>3. G \in SUBSET Seq(Keys)
  BY DEF Text
<1> HIDE DEF G
<1>4. G = Seq(Keys)
  BY <1>1, <1>2, <1>3, SeqSets
<1> QED
  BY <1>4 DEF G, Text

(* The joined words are at least as long as the text they were split from,   *)
(* when no space of it is behind a space, or at its start.                   *)
Single(v) == \A i \in 1..Len(v) : v[i] = Blank => i > 1 /\ v[i - 1] # Blank
EmptyLast(v) == v = <<>> \/ v[Len(v)] \in {Blank, "("}
(* The last word is empty behind a separator. *)
LEMMA LastIsEmpty ==
  ASSUME NEW v \in Text
  PROVE  Last(Splits(v)) = <<>> <=> EmptyLast(v)
<1> DEFINE n == Len(v)
<1>1. n \in Nat /\ DOMAIN v = 1..n /\ v \in Seq(Keys) /\ (v = <<>> <=> n = 0)
  BY TextIs, EmptySeq DEF Text
<1>2. PICK from \in 1..(n + 1) :
        /\ CursorWord(v) = SubSeq(v, from, n)
        /\ from = 1 \/ from - 1 \in Stops(v)
        /\ \A i \in from..n : i \notin Stops(v)
  BY CursorIs
<1> HIDE DEF n, Keys
<1>3. Last(Splits(v)) = SubSeq(v, from, n)
  BY <1>2, LastIsAtCursor
<1>4. /\ SubSeq(v, from, n) \in Seq(Keys) /\ Len(SubSeq(v, from, n)) = n - from + 1
  <2>1. n \in 0..n /\ from <= n + 1
    BY <1>1
  <2> QED
    BY <1>1, <2>1, SliceIs DEF n
<1>5. Last(Splits(v)) = <<>> <=> from = n + 1
  <2>1. SubSeq(v, from, n) = <<>> <=> Len(SubSeq(v, from, n)) = 0
    BY <1>4, EmptySeq
  <2> QED
    BY <1>1, <1>3, <1>4, <2>1
<1>6. from = n + 1 <=> n = 0 \/ n \in Stops(v)
  <2>1. CASE from = n + 1
    BY <1>1, <1>2, <2>1
  <2>2. CASE from # n + 1
    <3>1. n \in from..n /\ n # 0
      BY <1>1, <2>2
    <3> QED
      BY <1>2, <2>2, <3>1
  <2> QED
    BY <2>1, <2>2
<1>7. n # 0 => (n \in Stops(v) <=> v[n] \in {Blank, "("})
  BY <1>1 DEF Stops
<1> QED
  BY <1>1, <1>5, <1>6, <1>7 DEF EmptyLast, n

JoinedChars(ws) == Chars(Joined(ws))
(* Joined words are longer by the characters and spaces they get. *)
LEMMA JoinedLonger ==
  ASSUME NEW ws \in WordLists, NEW k \in Keys
  PROVE  LET longer == [ws EXCEPT ![Len(ws)] = Append(@, k)]
         IN  /\ longer \in WordLists
             /\ JoinedChars(ws) \in Nat /\ More(Letters, k) \in Nat
             /\ JoinedChars(longer) = JoinedChars(ws) + 1 + More(Letters, k)
             /\ JoinedChars(Append(ws, <<>>)) = JoinedChars(ws) + 1
             /\ JoinedChars(Append(longer, <<>>)) = JoinedChars(ws) + 2 + More(Letters, k)
<1> DEFINE n == Len(ws)
           longer == [ws EXCEPT ![n] = Append(@, k)]
           f == SubSeq(ws, 1, n - 1)
           w == ws[n]
           x == Append(w, k)
<1>1. /\ n \in Nat \ {0} /\ w \in Text /\ longer \in WordLists /\ Len(longer) = n
      /\ longer[n] = x /\ (\A i \in 1..(n - 1) : longer[i] = ws[i]) /\ x \in Text
  BY SplitIs
<1>2. ws \in Seq(Text) /\ longer \in Seq(Text)
  BY <1>1 DEF WordLists
<1> HIDE DEF longer, x, n, w
<1>3. f \in Seq(Text) /\ Len(f) = n - 1 /\ \A i \in 1..(n - 1) : f[i] = ws[i]
  <2> DEFINE m == n - 1
  <2>1. 1 \in 1..(n + 1) /\ m \in 0..n /\ 1 <= m + 1 /\ m - 1 + 1 = m
    BY <1>1
  <2> HIDE DEF m
  <2>2. /\ SubSeq(ws, 1, m) \in Seq(Text) /\ Len(SubSeq(ws, 1, m)) = m
        /\ \A i \in 1..m : SubSeq(ws, 1, m)[i] = ws[1 + i - 1]
    BY <1>2, <2>1, SliceIs DEF n
  <2>3. \A i \in 1..m : 1 + i - 1 = i
    OBVIOUS
  <2>4. /\ SubSeq(ws, 1, m) \in Seq(Text) /\ Len(SubSeq(ws, 1, m)) = m
        /\ \A i \in 1..m : SubSeq(ws, 1, m)[i] = ws[i]
    BY <2>2, <2>3
  <2> QED
    BY <2>4 DEF m
<1> HIDE DEF f
<1>4. ASSUME NEW r \in Seq(Text), Len(r) = n, \A i \in 1..(n - 1) : r[i] = ws[i], r[n] \in Text
      PROVE  r = Append(f, r[n])
  <2> DEFINE a == Append(f, r[n])
  <2>1. a \in Seq(Text) /\ Len(a) = Len(f) + 1 /\ a[Len(f) + 1] = r[n] /\ \A i \in 1..Len(f) : a[i] = f[i]
    BY <1>3, <1>4, AppendProperties
  <2> HIDE DEF a
  <2>2. Len(a) = n /\ a[n] = r[n] /\ \A i \in 1..(n - 1) : a[i] = r[i]
    BY <1>1, <1>3, <1>4, <2>1
  <2>3. \A i \in 1..n : i = n \/ i \in 1..(n - 1)
    BY <1>1
  <2>4. \A i \in 1..Len(r) : r[i] = a[i]
    BY <1>4, <2>2, <2>3
  <2>5. r = a
    BY <1>4, <2>1, <2>2, <2>4, SeqEqual
  <2> QED
    BY <2>5 DEF a
<1>5. ws = Append(f, w) /\ longer = Append(f, x)
  <2>1. Len(ws) = n /\ ws[n] = w /\ \A i \in 1..(n - 1) : ws[i] = ws[i]
    BY DEF n, w
  <2> QED
    BY <1>1, <1>2, <1>4, <2>1
<1>6. Chars(w) \in Nat /\ Chars(x) = Chars(w) + 1 + More(Letters, k) /\ More(Letters, k) \in Nat
  BY <1>1, CharsIs, CharsGrow DEF x
<1>7. /\ Joined(ws) = IF f = <<>> THEN w ELSE Joined(f) \o (<<Blank>> \o w)
      /\ Joined(longer) = IF f = <<>> THEN x ELSE Joined(f) \o (<<Blank>> \o x)
  BY <1>1, <1>3, <1>5, JoinedGrows
<1>8. <<Blank>> \in Text /\ Chars(<<Blank>>) = 1 /\ <<>> \in Text /\ Chars(<<>>) = 0
  <2> DEFINE e == <<>>
  <2>1. Blank \in Keys
    BY DEF Keys
  <2> HIDE DEF Keys
  <2>2. <<Blank>> \in Seq(Keys) /\ e \in Seq(Keys) /\ <<Blank>> = Append(e, Blank)
    BY <2>1, EmptySeq
  <2>3. Chars(e) = 0 /\ Blank \in {Blank, "("}
    BY CharsIs
  <2> HIDE DEF e
  <2>4. Chars(Append(e, Blank)) = Chars(e) + 1 + More(Letters, Blank) /\ More(Letters, Blank) = 0
    BY <2>1, <2>2, <2>3, CharsGrow DEF Text
  <2>5. Chars(Append(e, Blank)) = 1
    BY <2>3, <2>4
  <2> QED
    BY <2>2, <2>3, <2>5 DEF Text, e
<1>9. ASSUME NEW u \in Text, NEW e \in Text
      PROVE  Chars(u \o (<<Blank>> \o e)) = Chars(u) + 1 + Chars(e) /\ Chars(u) \in Nat /\ Chars(e) \in Nat
  <2> DEFINE b == <<Blank>>
  <2> HIDE DEF b
  <2>1. b \o e \in Text /\ Chars(b \o e) = 1 + Chars(e) /\ Chars(e) \in Nat
    BY <1>8, TextJoins, CharsIs DEF b
  <2>2. Chars(u \o (b \o e)) = Chars(u) + Chars(b \o e) /\ Chars(u) \in Nat
    BY <2>1, CharsIs
  <2> QED
    BY <2>1, <2>2 DEF b
<1>10. Joined(f) \in Text /\ Joined(ws) \in Text /\ Joined(longer) \in Text
  BY <1>2, <1>3, JoinedIs
<1>11. JoinedChars(ws) \in Nat /\ JoinedChars(longer) = JoinedChars(ws) + 1 + More(Letters, k)
  <2>1. CASE f = <<>>
    BY <1>6, <1>7, <2>1 DEF JoinedChars
  <2>2. CASE f # <<>>
    <3>1. /\ JoinedChars(ws) = Chars(Joined(f)) + 1 + Chars(w)
          /\ JoinedChars(longer) = Chars(Joined(f)) + 1 + Chars(x) /\ Chars(Joined(f)) \in Nat
      BY <1>1, <1>7, <1>9, <1>10, <2>2 DEF JoinedChars
    <3> QED
      BY <1>6, <3>1
  <2> QED
    BY <2>1, <2>2
<1>12. ASSUME NEW r \in Seq(Text), r # <<>>, Chars(Joined(r)) \in Nat
       PROVE  JoinedChars(Append(r, <<>>)) = JoinedChars(r) + 1
  <2> DEFINE e == <<>>
  <2>1. e \in Text /\ Chars(e) = 0
    BY <1>8
  <2> HIDE DEF e
  <2>2. Joined(Append(r, e)) = Joined(r) \o (<<Blank>> \o e) /\ Joined(r) \in Text
    BY <1>12, <2>1, JoinedGrows, JoinedIs
  <2>3. Chars(Joined(Append(r, e))) = Chars(Joined(r)) + 1 + 0
    BY <1>9, <2>1, <2>2
  <2>4. Chars(Joined(Append(r, e))) = Chars(Joined(r)) + 1
    BY <1>12, <2>3
  <2> QED
    BY <2>4 DEF JoinedChars, e
<1>13. ws # <<>> /\ longer # <<>>
  BY <1>1 DEF WordLists
<1>14. JoinedChars(Append(ws, <<>>)) = JoinedChars(ws) + 1 /\ JoinedChars(Append(longer, <<>>)) = JoinedChars(longer) + 1
  <2>1. Chars(Joined(ws)) \in Nat /\ Chars(Joined(longer)) \in Nat
    BY <1>6, <1>11 DEF JoinedChars
  <2> QED
    BY <1>2, <1>12, <1>13, <2>1
<1>15. JoinedChars(Append(longer, <<>>)) = JoinedChars(ws) + 2 + More(Letters, k)
  BY <1>6, <1>11, <1>14
<1> QED
  BY <1>1, <1>6, <1>11, <1>14, <1>15 DEF longer, n

Opening(v) == IF v # <<>> /\ v[Len(v)] = "(" THEN 1 ELSE 0
(* Words with single separators, joined, are as long as their text. *)
LEMMA JoinedCovers ==
  ASSUME NEW v \in Text, Single(v)
  PROVE  JoinedChars(Splits(v)) \in Nat /\ JoinedChars(Splits(v)) >= Chars(v)
<1> DEFINE Covered(u) == JoinedChars(Splits(u)) \in Nat /\ JoinedChars(Splits(u)) >= Chars(u) + Opening(u)
           G == {u \in Text : Single(u) => Covered(u)}
<1>1. <<>> \in G
  <2>1. <<>> \in Text /\ Chars(<<>>) = 0
    BY EmptySeq, CharsIs DEF Text
  <2> DEFINE e == <<>>
  <2>2. e \in Text /\ e \in Seq(Text) /\ <<e>> = Append(e, e)
    BY <2>1, EmptySeq
  <2>3. Joined(<<e>>) = e
    <3> HIDE DEF e
    <3>1. Joined(Append(e, e)) = IF e = <<>> THEN e ELSE Joined(e) \o (<<Blank>> \o e)
      BY <2>2, JoinedGrows
    <3> QED
      BY <2>2, <3>1 DEF e
  <2>4. JoinedChars(Splits(<<>>)) = 0
    BY <2>1, <2>3, SplitsEmpty DEF JoinedChars
  <2>5. Opening(<<>>) = 0
    BY DEF Opening
  <2> QED
    BY <2>1, <2>4, <2>5
<1>2. ASSUME NEW u \in G, NEW k \in Keys PROVE Append(u, k) \in G
  <2> DEFINE r == Append(u, k)
             ws == Splits(u)
             n == Len(ws)
             longer == [ws EXCEPT ![n] = Append(@, k)]
             m == Len(u)
             c == Chars(u)
             x == More(Letters, k)
  <2>1. u \in Text /\ r \in Text /\ Splits(r) = Split(ws, k) /\ ws \in WordLists
    BY SplitsGrow, SplitsAre
  <2>2. /\ m \in Nat /\ Len(r) = m + 1 /\ r[m + 1] = k /\ (u = <<>> <=> m = 0)
        /\ \A i \in 1..m : r[i] = u[i]
    <3>1. u \in Seq(Keys)
      BY <2>1 DEF Text
    <3>2. u = <<>> <=> m = 0
      BY <3>1, EmptySeq
    <3> QED
      BY <2>1, <3>2, TextIs, TextGrows
  <2>3. /\ JoinedChars(ws) \in Nat /\ JoinedChars(longer) = JoinedChars(ws) + 1 + x
        /\ JoinedChars(Append(ws, <<>>)) = JoinedChars(ws) + 1
        /\ JoinedChars(Append(longer, <<>>)) = JoinedChars(ws) + 2 + x
    BY <2>1, JoinedLonger
  <2>15. c \in Nat /\ x \in Nat /\ Chars(r) = c + 1 + x /\ (k \in {Blank, "("} => x = 0)
    BY <2>1, CharsIs, CharsGrow
  <2>4. Last(ws) = <<>> <=> EmptyLast(u)
    BY <2>1, LastIsEmpty
  <2>5. Splits(r) = IF k = Blank THEN (IF Last(ws) = <<>> THEN ws ELSE Append(ws, <<>>))
                    ELSE IF k = "(" THEN Append(longer, <<>>) ELSE longer
    BY <2>1, Zenon DEF Split
  <2>6. Blank # "("
    BY Zenon DEF Blank
  <2> SUFFICES ASSUME Single(r) PROVE Covered(r)
    BY <2>1
  <2> HIDE DEF r, ws, longer, n, c, x
  <2>7. Single(u)
    <3> SUFFICES ASSUME NEW i \in 1..m, u[i] = Blank PROVE i > 1 /\ u[i - 1] # Blank
      BY DEF Single
    <3>1. r[i] = Blank /\ i \in 1..Len(r)
      BY <2>2
    <3>2. i > 1 /\ r[i - 1] # Blank
      BY <3>1 DEF Single
    <3>3. i - 1 \in 1..m
      BY <2>2, <3>2
    <3> QED
      BY <2>2, <3>2, <3>3
  <2>8. JoinedChars(ws) \in Nat /\ JoinedChars(ws) >= c + Opening(u)
    BY <1>2, <2>7 DEF ws, c
  <2>9. k = Blank => m # 0 /\ u[m] # Blank
    <3> SUFFICES ASSUME k = Blank PROVE m # 0 /\ u[m] # Blank
      OBVIOUS
    <3>1. m + 1 \in 1..Len(r) /\ r[m + 1] = Blank
      BY <2>2
    <3>2. m + 1 > 1 /\ r[(m + 1) - 1] # Blank
      BY <3>1 DEF Single
    <3>3. (m + 1) - 1 = m /\ m \in 1..m
      BY <2>2, <3>2
    <3> QED
      BY <2>2, <3>2, <3>3
  <2>10. Opening(r) = IF k = "(" THEN 1 ELSE 0
    <3>1. r # <<>>
      <4>1. Len(<<>>) = 0
        OBVIOUS
      <4> QED
        BY <2>2, <4>1
    <3> QED
      BY <2>2, <3>1 DEF Opening
  <2>11. CASE k = Blank /\ Last(ws) = <<>>
    <3>1. u # <<>> /\ u[m] = "("
      BY <2>2, <2>4, <2>9, <2>11 DEF EmptyLast
    <3>2. Opening(u) = 1
      BY <3>1 DEF Opening
    <3>3. Splits(r) = ws /\ Opening(r) = 0
      BY <2>5, <2>6, <2>10, <2>11
    <3> QED
      BY <2>8, <2>11, <2>15, <3>2, <3>3
  <2>12. CASE k = Blank /\ Last(ws) # <<>>
    <3>1. Splits(r) = Append(ws, <<>>) /\ Opening(r) = 0
      BY <2>5, <2>6, <2>10, <2>12
    <3>2. Opening(u) \in 0..1
      BY DEF Opening
    <3> QED
      BY <2>3, <2>8, <2>12, <2>15, <3>1, <3>2
  <2>13. CASE k = "("
    <3>1. Splits(r) = Append(longer, <<>>) /\ Opening(r) = 1
      BY <2>5, <2>6, <2>10, <2>13
    <3>2. Opening(u) \in 0..1
      BY DEF Opening
    <3> QED
      BY <2>3, <2>8, <2>13, <2>15, <3>1, <3>2
  <2>14. CASE k # Blank /\ k # "("
    <3>1. Splits(r) = longer /\ Opening(r) = 0
      BY <2>5, <2>10, <2>14
    <3>2. Opening(u) \in 0..1
      BY DEF Opening
    <3> QED
      BY <2>3, <2>8, <2>14, <2>15, <3>1, <3>2
  <2> QED
    BY <2>11, <2>12, <2>13, <2>14
<1>3. G \in SUBSET Seq(Keys)
  BY DEF Text
<1> HIDE DEF G
<1>4. G = Seq(Keys)
  BY <1>1, <1>2, <1>3, SeqSets
<1>5. Covered(v)
  BY <1>4 DEF G, Text
<1> QED
  <2>1. Opening(v) \in 0..1 /\ Chars(v) \in Nat
    BY CharsIs DEF Opening
  <2> QED
    BY <1>5, <2>1

(* Joined words have the keys of a text that has theirs, and spaces. *)
LEMMA JoinedKeys ==
  ASSUME NEW s \in Text, NEW ws \in Seq(Text), Kept(ws, s),
         NEW p \in 1..Len(Joined(ws)), Joined(ws)[p] # Blank
  PROVE  \E q \in 1..Len(s) : s[q] = Joined(ws)[p]
<1> DEFINE In(k) == k = Blank \/ \E q \in 1..Len(s) : s[q] = k
           G == {u \in Seq(Text) : Kept(u, s) => \A j \in 1..Len(Joined(u)) : In(Joined(u)[j])}
<1>1. <<>> \in G
  <2> DEFINE e == <<>>
  <2>1. e \in Seq(Text) /\ Joined(e) = e /\ Len(e) = 0
    BY JoinedEmpty, EmptySeq
  <2> HIDE DEF e, In
  <2> QED
    BY <2>1 DEF e
<1>2. ASSUME NEW u \in G, NEW w \in Text PROVE Append(u, w) \in G
  <2> DEFINE r == Append(u, w)
             j == Joined(u)
             b == <<Blank>>
             e == b \o w
  <2>1. /\ u \in Seq(Text) /\ Len(u) \in Nat /\ j \in Text
        /\ r \in Seq(Text) /\ Len(r) = Len(u) + 1 /\ r[Len(u) + 1] = w /\ \A i \in 1..Len(u) : r[i] = u[i]
    BY LenProperties, AppendProperties, JoinedIs
  <2>2. Joined(r) = IF u = <<>> THEN w ELSE j \o e
    BY <2>1, JoinedGrows
  <2>3. b \in Text /\ Len(b) = 1 /\ b[1] = Blank
    <3>1. Blank \in Keys
      BY DEF Keys
    <3> HIDE DEF Keys
    <3>2. b \in Seq(Keys)
      BY <3>1
    <3> QED
      BY <3>2 DEF Text
  <2> HIDE DEF r, j, b
  <2>4. /\ e \in Text /\ Len(e) = 1 + Len(w) /\ Len(w) \in Nat
        /\ \A i \in 1..(1 + Len(w)) : e[i] = IF i <= 1 THEN b[i] ELSE w[i - 1]
    <3>1. /\ e \in Text /\ Len(e) = Len(b) + Len(w) /\ Len(w) \in Nat
          /\ \A i \in 1..(Len(b) + Len(w)) : e[i] = IF i <= Len(b) THEN b[i] ELSE w[i - Len(b)]
      BY <2>3, TextJoins
    <3> HIDE DEF e
    <3> QED
      BY <2>3, <3>1
  <2> HIDE DEF e
  <2>5. /\ Len(j \o e) = Len(j) + Len(e) /\ Len(j) \in Nat /\ Len(e) \in Nat
        /\ \A i \in 1..(Len(j) + Len(e)) : (j \o e)[i] = IF i <= Len(j) THEN j[i] ELSE e[i - Len(j)]
    BY <2>1, <2>4, TextJoins
  <2> SUFFICES ASSUME Kept(r, s) PROVE \A i \in 1..Len(Joined(r)) : In(Joined(r)[i])
    BY <2>1 DEF r
  <2>6. Kept(u, s)
    <3> SUFFICES ASSUME NEW i \in 1..Len(u), NEW l \in 1..Len(u[i]) PROVE \E q \in 1..Len(s) : s[q] = u[i][l]
      BY DEF Kept
    <3>1. i \in 1..Len(r) /\ r[i] = u[i]
      BY <2>1
    <3>2. l \in 1..Len(r[i]) /\ r[i][l] = u[i][l]
      BY <3>1
    <3>3. \E q \in 1..Len(s) : s[q] = r[i][l]
      BY <3>1, <3>2 DEF Kept
    <3> QED
      BY <3>2, <3>3
  <2>7. \A i \in 1..Len(w) : In(w[i])
    <3>1. Len(u) + 1 \in 1..Len(r)
      BY <2>1
    <3> QED
      BY <2>1, <3>1 DEF Kept
  <2>8. \A i \in 1..Len(j) : In(j[i])
    BY <1>2, <2>6 DEF j
  <2>9. In(Blank)
    OBVIOUS
  <2> HIDE DEF In
  <2>10. CASE u = <<>>
    BY <2>2, <2>7, <2>10
  <2>11. CASE u # <<>>
    <3> SUFFICES ASSUME NEW i \in 1..(Len(j) + Len(e)) PROVE In((j \o e)[i])
      BY <2>2, <2>5, <2>11
    <3>1. CASE i <= Len(j)
      BY <2>5, <2>8, <3>1
    <3>2. CASE ~(i <= Len(j)) /\ i - Len(j) <= 1
      <4>1. i - Len(j) = 1 /\ 1 \in 1..(1 + Len(w))
        BY <2>4, <2>5, <3>2
      <4>2. e[1] = b[1]
        BY <2>4, <4>1
      <4> QED
        BY <2>3, <2>5, <2>9, <3>2, <4>1, <4>2
    <3>3. CASE ~(i <= Len(j)) /\ ~(i - Len(j) <= 1)
      <4> DEFINE q == i - Len(j)
      <4>1. q \in 1..(1 + Len(w)) /\ ~(q <= 1) /\ q - 1 \in 1..Len(w)
        BY <2>4, <2>5, <3>3
      <4>2. (j \o e)[i] = e[q]
        BY <2>5, <3>3
      <4> HIDE DEF q
      <4> QED
        BY <2>4, <2>7, <4>1, <4>2
    <3> QED
      BY <3>1, <3>2, <3>3
  <2> QED
    BY <2>10, <2>11
<1>3. G \in SUBSET Seq(Text)
  OBVIOUS
<1> HIDE DEF G
<1>4. G = Seq(Text)
  BY <1>1, <1>2, <1>3, SeqSets
<1> QED
  BY <1>4 DEF G

(* So do joined words that are cut, but for a stump. *)
LEMMA CutKeys ==
  ASSUME NEW s \in Text, NEW ws \in Seq(Text), Kept(ws, s), NEW n \in Nat,
         NEW p \in 1..Len(Before(Joined(ws), n)), Before(Joined(ws), n)[p] \notin {Blank, Stump}
  PROVE  \E q \in 1..Len(s) : s[q] = Before(Joined(ws), n)[p]
<1> DEFINE j == Joined(ws)
           b == Before(j, n)
<1>1. j \in Text /\ Len(j) \in Nat
  BY JoinedIs, TextIs
<1>2. PICK m \in 0..Len(j) : b \in {SubSeq(j, 1, m), Append(SubSeq(j, 1, m), Stump)}
  <2> HIDE DEF j
  <2> QED
    BY <1>1, CutIs
<1> DEFINE c == SubSeq(j, 1, m)
<1>3. c \in Text /\ Len(c) = m /\ \A i \in 1..m : c[i] = j[i]
  <2> HIDE DEF j, Keys
  <2>1. 1 \in 1..(Len(j) + 1) /\ 1 <= m + 1 /\ m - 1 + 1 = m /\ \A i \in 1..m : 1 + i - 1 = i
    BY <1>1
  <2>2. c \in Seq(Keys) /\ Len(c) = m /\ \A i \in 1..m : c[i] = j[1 + i - 1]
    BY <1>1, <2>1, SliceIs DEF Text
  <2>3. \A i \in 1..m : c[i] = j[i]
    BY <2>1, <2>2
  <2> QED
    BY <2>2, <2>3 DEF Text
<1> HIDE DEF j, b, c, Keys
<1>4. p \in 1..Len(b) /\ b[p] \notin {Blank, Stump}
  BY DEF b, j
<1>5. p \in 1..m /\ b[p] = c[p]
  <2>1. CASE b = c
    BY <1>3, <1>4, <2>1
  <2>2. CASE b = Append(c, Stump)
    <3>1. Stump \in Keys /\ c \in Seq(Keys)
      BY <1>3 DEF Keys, Text
    <3>2. Len(b) = m + 1 /\ b[m + 1] = Stump /\ \A i \in 1..m : b[i] = c[i]
      BY <1>3, <2>2, <3>1, AppendProperties
    <3>3. p # m + 1
      BY <1>4, <3>2
    <3>4. p \in 1..m
      BY <1>2, <1>4, <3>2, <3>3
    <3> QED
      BY <3>2, <3>4
  <2> QED
    BY <1>2, <2>1, <2>2 DEF c
<1>6. p \in 1..Len(j) /\ j[p] = b[p] /\ j[p] # Blank
  BY <1>1, <1>3, <1>4, <1>5
<1>7. \E q \in 1..Len(s) : s[q] = j[p]
  BY <1>6, JoinedKeys DEF j
<1> QED
  BY <1>6, <1>7 DEF b, j

(* The completer loses the cursor, or cuts outside a name, only in a CREATE  *)
(* VIEW or in a SELECT.                                                      *)
LEMMA DoLoses ==
  ASSUME NEW s \in Text, NEW d, NamesOnly(d), Do(d, s).lost
  PROVE  /\ Len(Tokenize(s)) >= 2
         /\ \/ Is(Verb(s), "CREATE") /\ Is(Tokenize(s)[1], "CREATE") /\ CreateCompleter(d, s).lost
            \/ Is(Verb(s), "SELECT") /\ SelectCompleter(d, s).lost
<1> DEFINE t == Tokenize(s)
           o == Do(d, s)
<1>1. Len(t) \in Nat
  <2>1. t \in Seq(Text)
    BY TokenizeIs
  <2> QED
    BY <2>1, LenProperties
<1>2. /\ s # <<>> => Len(t) >= 2 \/ Len(t) < 2
      /\ s = <<>> => Len(t) = 0
  <2>1. Len(<<>>) = 0
    OBVIOUS
  <2> QED
    BY <1>1, <2>1, TokenizeIs
<1>3. ~NoOffer.lost
  BY NoOfferIs
<1>4. Len(t) >= 2 /\ s # <<>>
  <2>1. Len(t) < 2 \/ s = <<>> => ~(Len(t) >= 2)
    BY <1>1, <1>2
  <2>2. ~(Len(t) >= 2) => Len(t) < 2
    BY <1>1
  <2>3. ~(Len(t) >= 2) => o = NoOffer
    BY <2>2, Zenon DEF Do
  <2> QED
    BY <1>3, <2>1, <2>3
<1>5. CASE Is(t[1], "CREATE")
  <2>1. o = CreateCompleter(d, s)
    BY <1>1, <1>4, <1>5 DEF Do, Is
  <2>2. Is(Verb(s), "CREATE")
    BY <1>4, <1>5, VerbIs DEF Is
  <2> QED
    BY <1>4, <1>5, <2>1, <2>2
<1>6. CASE Is(t[1], "DESC")
  <2>1. o = DescribeCompleter(d, s)
    BY <1>1, <1>4, <1>6 DEF Do, Is
  <2> QED
    BY <1>4, <2>1, DescribeIs
<1>7. CASE Is(t[1], "SELECT")
  <2>1. o = SelectCompleter(d, s)
    BY <1>1, <1>4, <1>7 DEF Do, Is
  <2>2. Is(Verb(s), "SELECT")
    BY <1>4, <1>7, VerbIs DEF Is
  <2> QED
    BY <1>4, <2>1, <2>2
<1>8. CASE Is(t[1], "SHOW")
  <2>1. o = ShowCompleter(d, s)
    BY <1>1, <1>4, <1>8 DEF Do, Is
  <2> QED
    BY <1>4, <2>1, ShowIs
<1>9. CASE ~(Is(t[1], "CREATE") \/ Is(t[1], "DESC") \/ Is(t[1], "SELECT") \/ Is(t[1], "SHOW"))
  <2>1. ~(s = <<>> \/ Len(t) < 2)
    BY <1>1, <1>4
  <2>2. o = NoOffer
    BY <1>9, <2>1, Zenon DEF Do
  <2> QED
    BY <1>3, <2>2
<1> QED
  BY <1>5, <1>6, <1>7, <1>8, <1>9

(* The first SELECT of the words. *)
LEMMA SelectWordAt ==
  ASSUME NEW t \in Seq(Text), NEW i \in 1..Len(t), t[i] = <<"SELECT">>, \A j \in 1..(i - 1) : t[j] # <<"SELECT">>
  PROVE  SelectWord(t) = i
<1> DEFINE I == {j \in 1..Len(t) : Is(t[j], "SELECT")}
<1>1. Len(t) \in Nat /\ SelectWord(t) = IF I # {} THEN Min(I) ELSE 0
  BY LenProperties DEF SelectWord, SelectInSeq
<1>2. I \in SUBSET Nat /\ i \in I /\ I # {} /\ \A j \in I : j \in 1..Len(t) /\ t[j] = <<"SELECT">>
  BY DEF Is
<1> DEFINE m == Min(I)
<1>3. m \in I /\ \A x \in I : m <= x
  <2> HIDE DEF I
  <2> QED
    BY <1>2, MinOfSet
<1> HIDE DEF I
<1>4. SelectWord(t) = m
  BY <1>1, <1>2
<1> HIDE DEF m
<1>5. m = i
  <2>1. m <= i /\ m \in 1..Len(t) /\ t[m] = <<"SELECT">>
    BY <1>2, <1>3
  <2>2. m \notin 1..(i - 1)
    BY <2>1
  <2> QED
    BY <1>1, <2>1, <2>2
<1> QED
  BY <1>4, <1>5

(* One word, joined. *)
LEMMA JoinedOne ==
  ASSUME NEW t \in Seq(Text), NEW n \in 1..Len(t)
  PROVE  Joined(SubSeq(t, n, n)) = t[n]
<1> DEFINE x == SubSeq(t, n, n)
           e == <<>>
<1>1. Len(t) \in Nat /\ t[n] \in Text /\ e \in Seq(Text)
  BY LenProperties, ElementOfSeq, EmptySeq
<1>2. n \in 1..(Len(t) + 1) /\ n \in 0..Len(t) /\ n <= n + 1 /\ n - n + 1 = 1 /\ n + 1 - 1 = n /\ 1 \in 1..1
  BY <1>1
<1>3. x \in Seq(Text) /\ Len(x) = n - n + 1 /\ \A i \in 1..(n - n + 1) : x[i] = t[n + i - 1]
  BY <1>1, <1>2, SliceIs
<1> HIDE DEF x
<1>4. Len(x) = 1 /\ x[1] = t[n]
  BY <1>2, <1>3
<1>5. Append(e, t[n]) \in Seq(Text) /\ Len(Append(e, t[n])) = 1 /\ Append(e, t[n])[1] = t[n]
  BY <1>1
<1> HIDE DEF e
<1>6. \A j \in 1..1 : j = 1
  OBVIOUS
<1>7. x = Append(e, t[n])
  BY <1>3, <1>4, <1>5, <1>6, SeqEqual
<1>8. Joined(Append(e, t[n])) = t[n]
  BY <1>1, JoinedGrows DEF e
<1> QED
  BY <1>7, <1>8 DEF x

(* A line cut in front of a key, behind a separator. *)
LEMMA CutBehind ==
  ASSUME NEW s \in Text, NEW at \in 2..Len(s), s[at - 1] \in {Blank, "("}
  PROVE  LET pre == SubSeq(s, 1, at - 1)
             typed == SubSeq(s, at, Len(s))
         IN  \E f \in Seq(Text) : /\ Splits(s) = f \o Splits(typed)
                                  /\ \A j \in 1..Len(f) : j \in 1..Len(Splits(pre)) /\ f[j] = Splits(pre)[j]
<1> DEFINE n == Len(s)
           pre == SubSeq(s, 1, at - 1)
           typed == SubSeq(s, at, n)
           ws == Splits(pre)
           l == Len(ws)
           f == SubSeq(ws, 1, l - 1)
<1>1. n \in Nat /\ s \in Seq(Keys) /\ at \in Nat /\ at >= 2 /\ at <= n
  BY TextIs DEF Text
<1>2. s = pre \o typed
  <2>1. 1 \in 1..(n + 1) /\ at - 1 \in 1..n /\ at - 1 + 1 = at /\ n \in 1..n
    BY <1>1
  <2> HIDE DEF Keys
  <2>2. SubSeq(s, 1, n) = s
    BY <1>1, SubSeqFull
  <2>3. SubSeq(s, 1, at - 1) \o SubSeq(s, (at - 1) + 1, n) = SubSeq(s, 1, n)
    <3>1. 1 \in 1..(n + 1) /\ at - 1 \in (1 - 1)..n /\ n \in (at - 1)..n
      BY <1>1
    <3> QED
      BY <1>1, <3>1, ConcatAdjacentSubSeq
  <2> QED
    BY <2>1, <2>2, <2>3
<1>3. pre \in Text /\ Len(pre) = at - 1 /\ pre[at - 1] = s[at - 1] /\ typed \in Text
  <2> HIDE DEF Keys
  <2> DEFINE m == at - 1
  <2>1. 1 \in 1..(n + 1) /\ m \in 0..n /\ 1 <= m + 1 /\ m - 1 + 1 = m /\ m \in 1..m /\ 1 + m - 1 = m
        /\ at \in 1..(n + 1) /\ n \in 0..n /\ at <= n + 1
    BY <1>1
  <2> HIDE DEF m
  <2>2. /\ SubSeq(s, 1, m) \in Seq(Keys) /\ Len(SubSeq(s, 1, m)) = m
        /\ \A i \in 1..m : SubSeq(s, 1, m)[i] = s[1 + i - 1]
    BY <1>1, <2>1, SliceIs
  <2>3. SubSeq(s, 1, m)[m] = s[m]
    BY <2>1, <2>2
  <2>4. typed \in Seq(Keys)
    BY <1>1, <2>1, SliceIs
  <2> QED
    BY <2>2, <2>3, <2>4 DEF m, Text
<1> HIDE DEF pre, typed
<1>4. ws \in WordLists /\ Last(ws) = <<>>
  <2>1. EmptyLast(pre)
    BY <1>3 DEF EmptyLast
  <2> QED
    BY <1>3, <2>1, SplitsAre, LastIsEmpty
<1> HIDE DEF ws
<1>5. ws \in Seq(Text) /\ l \in Nat \ {0} /\ ws[l] = <<>>
  BY <1>4, EmptySeq, LenProperties DEF WordLists, Last
<1> HIDE DEF l
<1>6. f \in Seq(Text) /\ Len(f) = l - 1 /\ \A j \in 1..(l - 1) : f[j] = ws[j]
  <2> DEFINE m == l - 1
  <2>1. 1 \in 1..(l + 1) /\ m \in 0..l /\ 1 <= m + 1 /\ m - 1 + 1 = m /\ \A i \in 1..m : 1 + i - 1 = i
    BY <1>5
  <2> HIDE DEF m
  <2>2. /\ SubSeq(ws, 1, m) \in Seq(Text) /\ Len(SubSeq(ws, 1, m)) = m
        /\ \A i \in 1..m : SubSeq(ws, 1, m)[i] = ws[1 + i - 1]
    BY <1>5, <2>1, SliceIs DEF l
  <2>3. \A i \in 1..m : SubSeq(ws, 1, m)[i] = ws[i]
    BY <2>1, <2>2
  <2> QED
    BY <2>2, <2>3 DEF m
<1> HIDE DEF f
<1>7. ws = f \o <<<<>>>>
  <2> DEFINE e == <<>>
             a == Append(f, e)
  <2>1. e \in Text /\ ws[l] = e
    BY <1>5, EmptySeq DEF Text
  <2> HIDE DEF e
  <2>2. a \in Seq(Text) /\ Len(a) = Len(f) + 1 /\ a[Len(f) + 1] = e /\ \A j \in 1..Len(f) : a[j] = f[j]
    BY <1>6, <2>1, AppendProperties
  <2> HIDE DEF a
  <2>3. Len(a) = l /\ a[l] = e /\ \A j \in 1..(l - 1) : a[j] = ws[j]
    BY <1>5, <1>6, <2>2
  <2>4. \A j \in 1..l : j = l \/ j \in 1..(l - 1)
    BY <1>5
  <2>5. \A j \in 1..Len(ws) : ws[j] = a[j]
    BY <2>1, <2>3, <2>4 DEF l
  <2>6. ws = a
    BY <1>5, <2>2, <2>3, <2>5, SeqEqual DEF l
  <2>7. a = f \o <<e>>
    BY <1>6, <2>1, AppendIsConcat DEF a
  <2> QED
    BY <2>6, <2>7 DEF e
<1>8. Splits(s) = f \o Splits(typed)
  BY <1>2, <1>3, <1>6, <1>7, SplitsBehind DEF ws
<1>9. \A j \in 1..Len(f) : j \in 1..Len(ws) /\ f[j] = ws[j]
  BY <1>5, <1>6 DEF l
<1> QED
  BY <1>6, <1>8, <1>9 DEF pre, typed, ws, n

(* A CREATE VIEW whose SELECT stands alone, with no space behind a space     *)
(* from there on, keeps its cursor.                                          *)
Alone(s) ==
  LET at == SelectKey(s)
      typed == SubSeq(s, at, Len(s))
  IN  /\ ~\E i \in 2..Len(typed) : typed[i] = Blank /\ typed[i - 1] = Blank
      /\ s[at - 1] \in {Blank, "("}
      /\ ~(at < Len(s) /\ s[at + 1] # Blank)
(* A SELECT that stands alone reaches the end of the line. *)
LEMMA AloneIsKept ==
  ASSUME NEW s \in Text, Len(Tokenize(s)) >= 2, Is(Tokenize(s)[1], "CREATE"),
         SelectWord(Tokenize(s)) # 0, Alone(s)
  PROVE  LET t == Tokenize(s)
             i == SelectWord(t)
             c == JoinedChars(SubSeq(t, i, Len(t)))
         IN  c >= Chars(SubSeq(s, SelectKey(s), Len(s))) /\ c \in Nat
<1> DEFINE t == Tokenize(s)
           i == SelectWord(t)
           n == Len(s)
           at == SelectKey(s)
           pre == SubSeq(s, 1, at - 1)
           typed == SubSeq(s, at, n)
<1>1. t \in Seq(Text) /\ t = Splits(s) /\ Len(t) \in Nat /\ n \in Nat /\ s \in Seq(Keys)
  <2>1. s # <<>>
    <3>1. Len(<<>>) = 0
      OBVIOUS
    <3> QED
      BY <3>1, TokenizeIs
  <2>2. t \in Seq(Text) /\ t = Splits(s)
    BY <2>1, TokenizeIs
  <2> QED
    BY <2>2, LenProperties, TextIs DEF Text
<1> HIDE DEF t, Keys
<1>2. i \in 1..Len(t) /\ t[i] = <<"SELECT">> /\ t[1] = <<"CREATE">> /\ Len(t) >= 2
  BY <1>1, SelectWordIs DEF t, Is
<1>3. Len(<<"SELECT">>) = 1 /\ <<"SELECT">>[1] = "SELECT" /\ <<"CREATE">> # <<"SELECT">>
  OBVIOUS
<1> HIDE DEF i, n, at, typed, pre
<1>4. /\ at \in 1..n /\ s[at] = "SELECT" /\ \A j \in 1..(at - 1) : s[j] # "SELECT"
  <2>1. PICK p \in 1..Len(s) : s[p] = "SELECT"
    <3>1. 1 \in 1..Len(t[i]) /\ Kept(t, s) /\ t[i][1] = "SELECT"
      BY <1>1, <1>2, <1>3, WordsAreTyped
    <3>2. \E p \in 1..Len(s) : s[p] = t[i][1]
      BY <1>2, <3>1 DEF Kept
    <3> QED
      BY <3>1, <3>2
  <2>2. /\ at \in 1..p /\ s[at] = "SELECT" /\ \A j \in 1..(at - 1) : s[j] # "SELECT"
    BY <2>1, SelectKeyIs DEF at
  <2> QED
    BY <1>1, <2>1, <2>2 DEF n
<1>5. /\ typed \in Text /\ Len(typed) = n - at + 1 /\ typed[1] = "SELECT"
      /\ (\A j \in 1..(n - at + 1) : typed[j] = s[at + j - 1])
  <2>1. at \in 1..(n + 1) /\ n \in 0..n /\ at <= n + 1 /\ 1 \in 1..(n - at + 1) /\ at + 1 - 1 = at
    BY <1>1, <1>4
  <2>2. /\ typed \in Seq(Keys) /\ Len(typed) = n - at + 1
        /\ \A j \in 1..(n - at + 1) : typed[j] = s[at + j - 1]
    BY <1>1, <2>1, SliceIs DEF n, typed
  <2> QED
    BY <1>4, <2>1, <2>2 DEF Text
<1>6. "SELECT" \notin {Blank, "("}
  BY Zenon DEF Blank
<1>7. /\ ~\E j \in 2..Len(typed) : typed[j] = Blank /\ typed[j - 1] = Blank
      /\ s[at - 1] \in {Blank, "("}
      /\ ~(at < n /\ s[at + 1] # Blank)
  BY DEF Alone, at, typed, n
<1>8. Single(typed)
  <2> SUFFICES ASSUME NEW j \in 1..Len(typed), typed[j] = Blank PROVE j > 1 /\ typed[j - 1] # Blank
    BY DEF Single
  <2>1. j # 1
    BY <1>5, <1>6
  <2>2. j \in 2..Len(typed)
    BY <1>1, <1>4, <1>5, <2>1
  <2> QED
    BY <1>7, <2>2
<1>9. /\ Splits(typed) \in WordLists /\ Splits(typed) \in Seq(Text)
      /\ Len(Splits(typed)) \in Nat \ {0} /\ Splits(typed)[1] = <<"SELECT">>
  <2>1. Splits(typed) \in WordLists
    BY <1>5, SplitsAre
  <2>2. Splits(typed) \in Seq(Text) /\ Len(Splits(typed)) \in Nat \ {0}
    BY <2>1, EmptySeq, LenProperties DEF WordLists
  <2>3. CASE at = n
    <3>1. Len(typed) = 1
      BY <1>1, <1>5, <2>3
    <3>2. DOMAIN typed = 1..1
      BY <1>5, <3>1, TextIs
    <3>3. Stops(typed) = {}
      <4>1. \A j \in 1..1 : j = 1
        OBVIOUS
      <4> QED
        BY <1>5, <1>6, <3>2, <4>1 DEF Stops
    <3>4. Splits(typed) = <<typed>>
      BY <1>5, <3>3, OneWord
    <3>5. typed = <<"SELECT">>
      <4>1. "SELECT" \in Keys
        <5>1. typed[1] \in Keys
          BY <1>5, <3>1, TextIs
        <5> QED
          BY <1>5, <5>1
      <4>2. <<"SELECT">> \in Seq(Keys)
        BY <4>1
      <4>3. \A j \in 1..1 : typed[j] = <<"SELECT">>[j]
        BY <1>3, <1>5
      <4>4. typed \in Seq(Keys)
        BY <1>5 DEF Text
      <4> QED
        BY <1>3, <3>1, <4>2, <4>3, <4>4, SeqEqual
    <3>6. Splits(typed)[1] = typed
      BY <3>4
    <3> QED
      BY <2>1, <2>2, <3>5, <3>6
  <2>4. CASE at # n
    <3>1. at < n /\ s[at + 1] = Blank /\ 2 \in 1..(n - at + 1) /\ at + 2 - 1 = at + 1
      BY <1>1, <1>4, <1>7, <2>4
    <3>2. typed[2] = Blank /\ Len(typed) >= 2
      BY <1>1, <1>5, <3>1
    <3>3. Opens(typed)
      BY <1>5, <1>6, <3>2 DEF Opens
    <3> QED
      BY <1>5, <2>1, <2>2, <3>3, FirstWord
  <2> QED
    BY <2>3, <2>4
<1>10. at # 1
  <2> SUFFICES ASSUME at = 1 PROVE FALSE
    OBVIOUS
  <2>1. typed = s
    BY <1>1, SubSeqFull DEF typed, n
  <2> QED
    BY <1>1, <1>2, <1>3, <1>9, <2>1
<1>11. PICK f \in Seq(Text) :
         /\ t = f \o Splits(typed)
         /\ \A j \in 1..Len(f) : j \in 1..Len(Splits(pre)) /\ f[j] = Splits(pre)[j]
  <2>1. at \in 2..Len(s)
    BY <1>1, <1>4, <1>10 DEF n
  <2> QED
    BY <1>1, <1>7, <2>1, CutBehind DEF pre, typed, n
<1> DEFINE m == Len(f)
           l == Len(Splits(typed))
<1>12. /\ m \in Nat /\ l \in Nat \ {0} /\ Len(t) = m + l
       /\ \A j \in 1..(m + l) : t[j] = IF j <= m THEN f[j] ELSE Splits(typed)[j - m]
  BY <1>9, <1>11, JoinLists
<1> HIDE DEF m, l
<1>13. ASSUME NEW j \in 1..m PROVE t[j] # <<"SELECT">>
  <2> SUFFICES ASSUME t[j] = <<"SELECT">> PROVE FALSE
    OBVIOUS
  <2>1. pre \in Text /\ Len(pre) = at - 1 /\ \A p \in 1..(at - 1) : pre[p] = s[p]
    <3> DEFINE k == at - 1
    <3>1. 1 \in 1..(n + 1) /\ k \in 0..n /\ 1 <= k + 1 /\ k - 1 + 1 = k /\ \A p \in 1..k : 1 + p - 1 = p
      BY <1>1, <1>4
    <3> HIDE DEF k
    <3>2. /\ SubSeq(s, 1, k) \in Seq(Keys) /\ Len(SubSeq(s, 1, k)) = k
          /\ \A p \in 1..k : SubSeq(s, 1, k)[p] = s[1 + p - 1]
      BY <1>1, <3>1, SliceIs DEF n
    <3>3. \A p \in 1..k : SubSeq(s, 1, k)[p] = s[p]
      BY <3>1, <3>2
    <3> QED
      BY <3>2, <3>3 DEF k, pre, Text
  <2>2. j \in 1..Len(Splits(pre)) /\ Splits(pre)[j] = <<"SELECT">>
    <3>1. j \in 1..(m + l) /\ j <= m
      BY <1>12, <1>13
    <3>2. f[j] = <<"SELECT">>
      BY <1>12, <2>1, <3>1
    <3> QED
      BY <1>11, <1>13, <3>2 DEF m
  <2>3. 1 \in 1..Len(Splits(pre)[j]) /\ Splits(pre)[j][1] = "SELECT"
    BY <1>3, <2>2
  <2>4. \E p \in 1..Len(pre) : pre[p] = Splits(pre)[j][1]
    BY <2>1, <2>2, <2>3, WordsAreTyped DEF Kept
  <2>5. PICK p \in 1..(at - 1) : pre[p] = "SELECT"
    BY <2>1, <2>3, <2>4
  <2> QED
    BY <1>4, <2>1, <2>5
<1>14. i = m + 1
  <2>1. m + 1 \in 1..Len(t) /\ (m + 1) - 1 = m /\ m + 1 \in 1..(m + l) /\ ~(m + 1 <= m) /\ (m + 1) - m = 1
    BY <1>12
  <2>2. t[m + 1] = <<"SELECT">>
    BY <1>9, <1>12, <2>1
  <2> QED
    BY <1>1, <1>13, <2>1, <2>2, SelectWordAt DEF i
<1>15. SubSeq(t, i, Len(t)) = Splits(typed)
  <2>1. i \in 1..(Len(t) + 1) /\ Len(t) \in 0..Len(t) /\ i <= Len(t) + 1 /\ Len(t) - i + 1 = l
    BY <1>2, <1>12, <1>14
  <2> DEFINE x == SubSeq(t, i, Len(t))
  <2>2. x \in Seq(Text) /\ Len(x) = Len(t) - i + 1 /\ \A j \in 1..(Len(t) - i + 1) : x[j] = t[i + j - 1]
    BY <1>1, <2>1, SliceIs
  <2> HIDE DEF x
  <2>3. ASSUME NEW j \in 1..l PROVE t[i + j - 1] = Splits(typed)[j]
    <3>1. i + j - 1 \in 1..(m + l) /\ ~(i + j - 1 <= m) /\ (i + j - 1) - m = j
      BY <1>12, <1>14
    <3> QED
      BY <1>12, <3>1
  <2>4. Len(x) = l /\ \A j \in 1..Len(x) : x[j] = Splits(typed)[j]
    BY <2>1, <2>2, <2>3
  <2>5. x = Splits(typed)
    BY <1>9, <2>2, <2>4, SeqEqual DEF l
  <2> QED
    BY <2>5 DEF x
<1>16. JoinedChars(Splits(typed)) \in Nat /\ JoinedChars(Splits(typed)) >= Chars(typed)
  BY <1>5, <1>8, JoinedCovers
<1> QED
  BY <1>15, <1>16 DEF i, n, t, at, typed

(* A lost cursor is where TabPanicIsExplained says. *)
GroupsByWide(s) == Contains(s, "BY") /\ HasWide(s) /\ Verb(s) \in {<<"CREATE">>, <<"SELECT">>}
Misplaced(s) ==
  LET w == CursorWord(s)
  IN  IF SelectWord(Tokenize(s)) = 0
        THEN Last(s) \in {Blank, "("} \/ Place(s, w) + Len(w) < Len(s) \/ HasWide(SubSeq(s, 1, Place(s, w)))
        ELSE ~Alone(s) \/ HasWide(Lead(s))
Explained(s) == GroupsByWide(s) \/ (Is(Verb(s), "CREATE") /\ Misplaced(s))

(* A CREATE VIEW that is lost behind the words looked at. *)
LEMMA OutsideIsExplained ==
  ASSUME NEW s \in Text, Len(Tokenize(s)) >= 2, Is(Tokenize(s)[1], "CREATE"),
         NEW i, i = (IF SelectWord(Tokenize(s)) = 0 THEN Len(Tokenize(s)) ELSE SelectWord(Tokenize(s))),
         NEW text, text = Joined(SubSeq(Tokenize(s), i, Len(Tokenize(s)))),
         LET from == Index(s, Tokenize(s)[i]) IN Chars(s) \notin from..(from + Chars(text))
  PROVE  Misplaced(s)
<1> DEFINE t == Tokenize(s)
           n == Len(t)
           at == SelectWord(t)
           w == t[i]
           pl == Place(s, w)
           from == Index(s, w)
           pre == SubSeq(s, 1, pl)
           rest == SubSeq(s, pl + 1, Len(s))
<1>1. /\ t[n] = CursorWord(s) /\ t \in Seq(Text) /\ CursorWord(s) \in Text /\ t = Splits(s)
      /\ Len(s) \in Nat /\ n \in Nat /\ n >= 2
  <2>1. s # <<>>
    <3>1. Len(<<>>) = 0
      OBVIOUS
    <3> QED
      BY <3>1, TokenizeIs
  <2>2. t \in Seq(Text) /\ n \in Nat
    BY TokenizeIs, LenProperties
  <2> QED
    BY <2>1, <2>2, TokenizeIs, CursorIs, TextIs
<1>2. /\ at \in 0..n /\ (at # 0 => t[at] = <<"SELECT">>) /\ i \in 1..n /\ i = IF at = 0 THEN n ELSE at
  BY <1>1, SelectWordIs
<1>3. text = Joined(SubSeq(t, i, n)) /\ Chars(s) \notin from..(from + Chars(text))
  OBVIOUS
<1>4. Misplaced(s) <=>
        IF at = 0 THEN \/ Last(s) \in {Blank, "("} \/ Place(s, CursorWord(s)) + Len(CursorWord(s)) < Len(s)
                       \/ HasWide(SubSeq(s, 1, Place(s, CursorWord(s))))
        ELSE ~Alone(s) \/ HasWide(Lead(s))
  BY DEF Misplaced
<1> HIDE DEF t, n, at, w, pl, from, pre, rest
<1>5. text \in Text /\ Chars(text) \in Nat
  <2>1. i \in 1..(n + 1) /\ n \in 0..n /\ i <= n + 1
    BY <1>1, <1>2
  <2>2. SubSeq(t, i, n) \in Seq(Text)
    BY <1>1, <2>1, SliceIs DEF n
  <2> QED
    BY <1>3, <2>2, JoinedIs, CharsIs
<1>6. ASSUME pl \in 0..Len(s), ~HasWide(pre)
      PROVE  Chars(rest) > Chars(text) /\ Chars(rest) \in Nat
  <2>1. /\ Chars(s) = Chars(pre) + Chars(rest) /\ Chars(pre) \in Nat /\ Chars(rest) \in Nat
        /\ from = Chars(pre)
    BY <1>6, IndexIs DEF pl, pre, rest, from
  <2> QED
    BY <1>3, <1>5, <2>1
<1>7. CASE at = 0
  <2>1. i = n /\ w = CursorWord(s)
    BY <1>1, <1>2, <1>7 DEF w
  <2>2. text = w
    BY <1>1, <1>2, <1>3, <2>1, JoinedOne DEF w, n
  <2>3. PICK p \in 0..Len(s) : p + Len(w) = Len(s) /\ SubSeq(s, p + 1, p + Len(w)) = w
    BY <2>1, CursorEnds
  <2>4. pl \in 0..p /\ SubSeq(s, pl + 1, pl + Len(w)) = w
    BY <2>3, PlaceIs DEF pl
  <2>5. Len(w) \in Nat /\ pl \in 0..Len(s)
    BY <1>1, <2>1, <2>3, <2>4, TextIs
  <2>6. ASSUME ~(pl + Len(w) < Len(s)), ~HasWide(pre) PROVE FALSE
    <3>1. pl + Len(w) = Len(s)
      <4> DEFINE l == Len(w)
                 z == Len(s)
      <4>1. p + l = z /\ p \in 0..z /\ pl \in 0..p /\ z \in Nat /\ l \in Nat /\ ~(pl + l < z)
        BY <1>1, <2>3, <2>4, <2>5, <2>6
      <4> HIDE DEF l, z
      <4>2. pl + l = z
        BY <4>1
      <4> QED
        BY <4>2 DEF l, z
    <3>2. rest = w
      BY <2>4, <3>1 DEF rest
    <3> QED
      BY <1>5, <1>6, <2>2, <2>5, <2>6, <3>2
  <2>7. pl + Len(w) < Len(s) \/ HasWide(pre)
    BY <2>6
  <2> QED
    BY <1>4, <1>7, <2>1, <2>7 DEF pl, pre
<1>8. CASE at # 0
  <2> SUFFICES ASSUME Alone(s), ~HasWide(Lead(s)) PROVE FALSE
    BY <1>4, <1>8
  <2>1. i = at /\ w = <<"SELECT">>
    BY <1>2, <1>8 DEF w
  <2>2. PICK q \in 1..Len(s) : s[q] = "SELECT"
    <3>1. Len(<<"SELECT">>) = 1 /\ <<"SELECT">>[1] = "SELECT" /\ 1 \in 1..1
      OBVIOUS
    <3>2. i \in 1..Len(t) /\ 1 \in 1..Len(t[i]) /\ t[i][1] = "SELECT" /\ Kept(t, s)
      BY <1>1, <1>2, <2>1, <3>1, WordsAreTyped DEF n, w
    <3>3. \E q \in 1..Len(s) : s[q] = t[i][1]
      BY <3>2 DEF Kept
    <3> QED
      BY <3>2, <3>3
  <2>3. pl + 1 = SelectKey(s) /\ pl \in 0..Len(s) /\ Lead(s) = pre
    BY <2>1, <2>2, SelectPlace DEF pl, pre
  <2>4. rest = SubSeq(s, SelectKey(s), Len(s))
    BY <2>3 DEF rest
  <2>5. Chars(rest) > Chars(text) /\ Chars(rest) \in Nat
    BY <1>6, <2>3
  <2>6. JoinedChars(SubSeq(t, i, n)) >= Chars(rest)
    BY <1>8, <2>1, <2>4, AloneIsKept DEF t, n, at
  <2>7. Chars(text) >= Chars(rest)
    BY <1>3, <2>6 DEF JoinedChars
  <2> QED
    BY <1>5, <2>5, <2>7
<1> QED
  BY <1>7, <1>8

(* The cursor is lost only where TabPanicIsExplained says. *)
LEMMA LostIsExplained ==
  ASSUME NEW s \in Text, NEW d, NamesOnly(d), Do(d, s).lost
  PROVE  Explained(s)
<1> DEFINE t == Tokenize(s)
           n == Len(t)
           i == IF SelectWord(t) = 0 THEN n ELSE SelectWord(t)
           text == Joined(SubSeq(t, i, n))
           from == Index(s, t[i])
           m == Chars(s) - from
           o == CreateCompleter(d, s)
<1>1. /\ Len(Tokenize(s)) >= 2
      /\ \/ Is(Verb(s), "CREATE") /\ Is(t[1], "CREATE") /\ o.lost
         \/ Is(Verb(s), "SELECT") /\ SelectCompleter(d, s).lost
  BY DoLoses
<1>2. CASE Is(Verb(s), "SELECT") /\ SelectCompleter(d, s).lost
  <2>1. HasWide(s) /\ \E p \in 1..Len(s) : s[p] = "BY"
    BY <1>2, SelectIs
  <2> QED
    BY <1>2, <2>1 DEF Explained, GroupsByWide, Contains, Is
<1>3. CASE Is(Verb(s), "CREATE") /\ Is(t[1], "CREATE") /\ o.lost
  <2>1. o = IF i = 1 THEN NoOffer
            ELSE IF Chars(s) \notin from..(from + Chars(text)) THEN Lost ELSE SelectCompleter(d, Before(text, m))
    BY Zenon DEF CreateCompleter, SelectWord
  <2>2. CASE Chars(s) \notin from..(from + Chars(text))
    <3>1. Misplaced(s)
      <4>1. Len(Tokenize(s)) >= 2 /\ Is(Tokenize(s)[1], "CREATE")
        BY <1>1, <1>3
      <4> QED
        BY <2>2, <4>1, OutsideIsExplained
    <3> QED
      BY <1>3, <3>1 DEF Explained
  <2>3. CASE Chars(s) \in from..(from + Chars(text))
    <3> DEFINE ws == SubSeq(t, i, n)
               b == Before(text, m)
    <3>1. o = NoOffer \/ o = SelectCompleter(d, b)
      BY <2>1, <2>3
    <3> HIDE DEF o, b
    <3>2. SelectCompleter(d, b).lost
      BY <1>3, <3>1, NoOfferIs
    <3>3. t \in Seq(Text) /\ n \in Nat /\ n >= 2 /\ Kept(t, s)
      <4>1. s # <<>>
        <5>1. Len(<<>>) = 0
          OBVIOUS
        <5> QED
          BY <1>1, <5>1, TokenizeIs
      <4>2. t \in Seq(Text) /\ Kept(t, s)
        BY <4>1, TokenizeIs, WordsAreTyped
      <4> QED
        BY <1>1, <4>2, LenProperties
    <3>4. i \in 1..n
      BY <3>3, SelectWordIs
    <3> HIDE DEF t, i
    <3>5. ws \in Seq(Text) /\ Kept(ws, s)
      <4>1. i \in 1..(n + 1) /\ n \in 0..n /\ i <= n + 1 /\ \A j \in 1..(n - i + 1) : i + j - 1 \in 1..n
        BY <3>3, <3>4
      <4>2. /\ ws \in Seq(Text) /\ Len(ws) = n - i + 1
            /\ \A j \in 1..(n - i + 1) : ws[j] = t[i + j - 1]
        BY <3>3, <4>1, SliceIs
      <4> HIDE DEF ws, n
      <4>3. ASSUME NEW j \in 1..Len(ws), NEW l \in 1..Len(ws[j]) PROVE \E q \in 1..Len(s) : s[q] = ws[j][l]
        <5>1. j \in 1..(n - i + 1)
          BY <4>2
        <5>2. i + j - 1 \in 1..n /\ ws[j] = t[i + j - 1]
          BY <4>1, <4>2, <5>1
        <5> QED
          BY <3>3, <4>3, <5>2 DEF Kept, n
      <4> QED
        BY <4>2, <4>3 DEF Kept
    <3>6. text = Joined(ws)
      OBVIOUS
    <3>7. text \in Text /\ m \in Nat
      <4>1. text \in Text /\ Chars(text) \in Nat /\ Chars(s) \in Nat
        BY <3>5, <3>6, JoinedIs, CharsIs
      <4>2. from \in Int
        BY <1>1, IndexOfWord DEF t, i, n
      <4> HIDE DEF from, text
      <4> QED
        BY <2>3, <4>1, <4>2
    <3> HIDE DEF ws, m, from
    <3>8. b \in Text
      BY <3>7, CutIs DEF b
    <3>9. HasWide(b) /\ \E p \in 1..Len(b) : b[p] = "BY"
      BY <3>2, <3>8, SelectIs
    <3>10. ASSUME NEW p \in 1..Len(b), b[p] \notin {Blank, Stump} PROVE \E q \in 1..Len(s) : s[q] = b[p]
      <4>1. b = Before(Joined(ws), m)
        BY <3>6 DEF b
      <4> HIDE DEF text
      <4>2. p \in 1..Len(Before(Joined(ws), m)) /\ Before(Joined(ws), m)[p] \notin {Blank, Stump}
        BY <3>10, <4>1
      <4>3. \E q \in 1..Len(s) : s[q] = Before(Joined(ws), m)[p]
        BY <3>5, <3>7, <4>2, CutKeys
      <4> QED
        BY <4>1, <4>3
    <3>11. Contains(s, "BY")
      <4>1. "BY" \notin {Blank, Stump}
        BY DEF Blank, Stump
      <4> QED
        BY <3>9, <3>10, <4>1 DEF Contains
    <3>12. HasWide(s)
      <4>1. DOMAIN b = 1..Len(b) /\ DOMAIN s = 1..Len(s)
        BY <3>8, TextIs
      <4>2. PICK p \in 1..Len(b) : b[p] \in DOMAIN Wide
        BY <3>9, <4>1 DEF HasWide
      <4>3. b[p] \notin {Blank, Stump}
        BY <4>2, KeyAssumption DEF Signs
      <4>4. \E q \in 1..Len(s) : s[q] = b[p]
        BY <3>10, <4>3
      <4> QED
        BY <4>1, <4>2, <4>4 DEF HasWide
    <3> QED
      BY <1>3, <3>11, <3>12 DEF Explained, GroupsByWide, Is
  <2> QED
    BY <2>2, <2>3
<1> QED
  BY <1>1, <1>2, <1>3

(* A tool that panicked did so in such a line. *)
PanicInv == pc = "panic" => Explained(line)
(* A tool that has stopped so far stopped there. *)
LEMMA PanicIs == PanicInv => TabPanicIsExplained
<1> SUFFICES ASSUME PanicInv PROVE TabPanicIsExplained
  OBVIOUS
<1>1. WordAtCursor = CursorWord(line)
  BY DEF WordAtCursor, CursorWord, Stops
<1>2. SelectKey(line) = SelectInSeq(line, LAMBDA k : k = "SELECT")
  BY DEF SelectKey
<1> QED
  BY <1>1, <1>2 DEF TabPanicIsExplained, PanicInv, Explained, GroupsByWide, Misplaced, Alone, Lead, BeforeSelect

(* No step stops it elsewhere. *)
LEMMA StepPanic == PromptInv /\ PanicInv /\ [Next]_vars => PanicInv'
<1> SUFFICES ASSUME PromptInv, PanicInv, [Next]_vars PROVE PanicInv'
  OBVIOUS
<1>1. CASE \E rehash \in BOOLEAN : Scan(rehash)
  BY <1>1 DEF Scan, PanicInv
<1>2. CASE Typing \/ EnterBlank \/ EnterMore \/ Interrupt
  BY <1>2 DEF Typing, Type, EnterBlank, EnterMore, Interrupt, PanicInv
<1>3. CASE Tab
  <2> SUFFICES ASSUME pc' = "panic" PROVE Explained(line)'
    BY DEF PanicInv
  <2> DEFINE o == Do(comp, line)
  <2>1. pc = "read" /\ o.lost /\ UNCHANGED line
    BY <1>3 DEF Tab
  <2>2. NamesOnly(comp)
    BY <1>3, DbNames DEF Tab, PromptInv
  <2>3. Explained(line)
    BY <2>1, <2>2, LostIsExplained DEF PromptInv
  <2> QED
    BY <2>1, <2>3
<1>4. CASE EnterEnd
  <2>1. pc' # "panic"
    <3> DEFINE q == Joined(Append(lines, Trimmed(line)))
    <3>1. pc = "read" /\ (pc' \in {"bye", pc} \/ Seek(q))
      BY <1>4 DEF EnterEnd
    <3> HIDE DEF q
    <3>2. Seek(q) => pc' = pc \/ pc' = "broken"
      BY DEF Seek
    <3> QED
      BY <3>1, <3>2
  <2> QED
    BY <2>1 DEF PanicInv
<1>5. CASE UNCHANGED vars
  BY <1>5 DEF vars, PanicInv, Explained
<1> QED
  BY <1>1, <1>2, <1>3, <1>4, <1>5 DEF Next

(* Tab breaks the tool only in a CREATE VIEW, in the lines named, whatever   *)
(* reports, views and lines there are.                                       *)
THEOREM TabPanicIsExplainedHolds == Spec => []TabPanicIsExplained
<1>1. Init => PanicInv
  BY DEF Init, PanicInv
<1> QED
  BY <1>1, InitPrompt, StepPrompt, StepPanic, PanicIs, PTL DEF Spec
=============================================================================
