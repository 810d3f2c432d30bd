------------------------------ MODULE Catalog ------------------------------
(* The database of a connection, or of the completer: the reports of the API *)
(* version, the views of views.yml and the index of the columns; and what    *)
(* DESC and SHOW answer from it.  A name is a sequence of characters.        *)
EXTENDS Naturals, SequencesExt

CONSTANTS
  Reports,  \* the tables of the API version, as reports.yml lists them
  Letters,  \* how many characters beyond the first a keyword, or a mark of two, has
  Wide      \* how many bytes beyond the first a character outside ASCII has

(* A keyword and a sign are one key each; a name has one for each character, *)
(* hence none of them, and it is ASCII (scanner.go:312).  A stump is what is *)
(* left of a keyword that is cut between two of its letters.                 *)
Keywords ==
  {"AND", "AS", "BY", "CREATE", "DESC", "DISTINCT", "DURING", "FROM", "FULL", "GROUP", "LIKE", "LIMIT", "OR",
   "ORDER", "REPLACE", "SELECT", "SHOW", "TABLES", "VIEW", "WHERE", "WITH"}
Blank == " "
Stump == "stump"
Signs == {Blank, Stump, "(", ")", ",", "=", ";", "\\g", "\\G", "\\c", "\\h", "\\q"}
Names == Seq(STRING \ (Keywords \cup Signs \cup DOMAIN Wide))
ASSUME KeyAssumption ==
  /\ DOMAIN Letters \subseteq (Keywords \cup Signs) \ {Blank, "("}
  /\ DOMAIN Wide \cap (Keywords \cup Signs) = {}
  /\ \A k \in DOMAIN Letters : Letters[k] \in Nat
  /\ \A k \in DOMAIN Wide : Wide[k] \in Nat

(* A table has a name, columns in order, a primary key pk and, when it is a  *)
(* view, the name src of its source.  A column is read by its head, may have *)
(* a label, and may be a segment; only a view's may be DISTINCT.             *)
ASSUME ReportAssumption ==
  /\ Reports # <<>>
  /\ Reports \in Seq([name : Names, src : {<<>>}, pk : Names,
                     cols : Seq([head : Names, label : Names, segment : BOOLEAN, unique : {FALSE}]) \ {<<>>}])
  /\ \A i, j \in DOMAIN Reports : Reports[i].name = Reports[j].name => i = j
IsView(t) == t.src # <<>>

(* Field: the first column of that name; in a view the label is one too.     *)
Named(t, c, n) == c.head = n \/ (IsView(t) /\ c.label = n)
FieldAt(t, n) == SelectInSeq(t.cols, LAMBDA c : Named(t, c, n))
FieldOf(t, n) == t.cols[FieldAt(t, n)]
FieldsIn(t, ns) == \A i \in DOMAIN ns : FieldAt(t, ns[i]) # 0
Heads(t) == [i \in DOMAIN t.cols |-> t.cols[i].head]

(* A database has the views vw, and the ones that are in its column index.   *)
Tables(d) == Reports \o d.vw
TableAt(d, n) == SelectInSeq(Tables(d), LAMBDA t : t.name = n)
TableOf(d, n) == Tables(d)[TableAt(d, n)]

(* The index: reports under the heads of their columns, views under their    *)
(* labels; a table is there once for each of its columns.                    *)
IndexName(t, c) == IF IsView(t) /\ c.label # <<>> THEN c.label ELSE c.head
Indexed(d) == Reports \o d.indexed
TablesWithColumn(d, n) ==
  LET ts == Indexed(d)
      Times(t) == Cardinality({i \in DOMAIN t.cols : IndexName(t, t.cols[i]) = n})
  IN  FlattenSeq([i \in DOMAIN ts |-> [j \in 1..Times(ts[i]) |-> ts[i]]])
ColumnNames(d) ==
  LET ts == Indexed(d)
  IN  UNION {{IndexName(ts[i], ts[i].cols[j]) : j \in DOMAIN ts[i].cols} : i \in DOMAIN ts}

(* Mutant of Rebuilt: the columns lose their labels.                         *)
Rebuilt_noLabel(vs, v) ==
  LET src == TableOf([vw |-> vs], v.src)
  IN  [v EXCEPT !.cols = [i \in DOMAIN v.cols |-> FieldOf(src, v.cols[i].head)]]
(* loadViews takes the columns of a view from its source again, by the head  *)
(* that was saved, and keeps the label: what SELECT did with it is lost.     *)
Rebuilt(vs, v) ==
  LET src == TableOf([vw |-> vs], v.src)
      Again(c) == LET f == FieldOf(src, c.head)
                  IN  [head |-> f.head, label |-> c.label, segment |-> f.segment, unique |-> f.unique]
  IN  [name |-> v.name, src |-> v.src, pk |-> v.pk, cols |-> [i \in DOMAIN v.cols |-> Again(v.cols[i])]]
(* A view is left out whose columns are not all in its source: in the code   *)
(* the list has nil entries from there on, and the walk for the index panics *)
(* on them (db.go:358).  Such a file cannot be loaded.                       *)
Founded(vs, v) ==
  LET d == [vw |-> vs]
  IN  TableAt(d, v.src) # 0 /\ FieldsIn(TableOf(d, v.src), Heads(v))
LoadViews(file) ==
  FoldLeft(LAMBDA done, v : IF Founded(done, v) THEN Append(done, Rebuilt(done, v)) ELSE done, <<>>, file)
Loadable(file) == Len(LoadViews(file)) = Len(file)
(* Mutant of Load: the views stay out of the database.                       *)
Load_noViews(file) == [vw |-> <<>>, indexed |-> <<>>]
Load(file) == LET vs == LoadViews(file) IN [vw |-> vs, indexed |-> vs]

(* newView: the view a statement makes, or why there is none.                *)
Creates(d, s) ==
  /\ TableAt(d, s.name) = 0 \/ (s.replace /\ IsView(TableOf(d, s.name)))
  /\ TableAt(d, s.src) # 0
  /\ FieldsIn(TableOf(d, s.src), s.fields)
NewView(d, s) ==
  LET src == TableOf(d, s.src)
      Col(i) == [head    |-> s.fields[i],
                 label   |-> IF i \in DOMAIN s.labels THEN s.labels[i] ELSE s.fields[i],
                 segment |-> FieldOf(src, s.fields[i]).segment,
                 unique  |-> s.unique /\ i = 1]
  IN  [name |-> s.name, src |-> src.name, pk |-> src.pk, cols |-> [i \in DOMAIN s.fields |-> Col(i)]]

(* AddView: the list written and kept is copied before a view is replaced in *)
(* it, so that a replaced view stays as it was.                              *)
(* Mutant of AddView: the view is replaced in the list that is kept.         *)
AddView_replaces(d, v) ==
  LET at == SelectInSeq(d.vw, LAMBDA w : w.name = v.name)
  IN  IF at = 0 THEN Append(d.vw, v) ELSE [d.vw EXCEPT ![at] = v]
AddView(d, v) ==
  IF \E i \in DOMAIN d.vw : d.vw[i].name = v.name THEN d.vw ELSE Append(d.vw, v)

(* What a statement answers: an error, or rows.                              *)
Refused == [ok |-> FALSE, rows |-> <<>>]
Rows(rs) == [ok |-> TRUE, rows |-> rs]

(* DESC: every column, or the one asked for, with its key.                   *)
FormatKey(t, c) == IF c.segment THEN "MUL" ELSE IF c.head = t.pk THEN "PRI" ELSE ""
Described(t, cs) == Rows([i \in DOMAIN cs |-> [field |-> cs[i].head, key |-> FormatKey(t, cs[i])]])
Describe(d, s) ==
  LET t == TableOf(d, s.table)
  IN  IF TableAt(d, s.table) = 0 THEN Refused
      ELSE IF s.cols = <<>> THEN Described(t, t.cols)
      ELSE IF FieldAt(t, s.cols[1]) = 0 THEN Refused
      ELSE Described(t, <<FieldOf(t, s.cols[1])>>)

(* SHOW: the tables of a clause, with their kind.                            *)
Within(p, n) == \E i \in 0..(Len(n) - Len(p)) : SubSeq(n, i + 1, i + Len(p)) = p
TablesLike(d, s) ==
  SelectSeq(Tables(d), LAMBDA t :
    \/ s.clause = "contains" /\ Within(s.arg, t.name)
    \/ s.clause = "prefix" /\ IsPrefix(s.arg, t.name)
    \/ s.clause = "suffix" /\ IsSuffix(s.arg, t.name))
ShownTables(d, s) ==
  CASE s.clause \in {"contains", "prefix", "suffix"} -> TablesLike(d, s)
    [] s.clause = "equal" -> IF TableAt(d, s.arg) = 0 THEN <<>> ELSE <<TableOf(d, s.arg)>>
    [] s.clause = "with"  -> TablesWithColumn(d, s.arg)
    [] s.clause = "none"  -> Tables(d)
Show(d, s) ==
  LET ts == ShownTables(d, s)
  IN  Rows([i \in DOMAIN ts |-> [table |-> ts[i].name, kind |-> IF IsView(ts[i]) THEN "VIEW" ELSE "BASE TABLE"]])
=============================================================================
