------------------------------- MODULE Select -------------------------------
(* A SELECT statement after it was parsed: it is merged with the view it     *)
(* reads, its report is fetched and aggregated row by row, and the groups    *)
(* are sorted, limited and handed out one at a time.                         *)
(*                                                                           *)
(* The report itself comes from ReportCache; DURING is merged in DateRange   *)
(* and is only a reason to refuse here.  A cell is a number, whatever it     *)
(* stands for, or Null, which Google writes " --".                           *)
EXTENDS Integers, Sequences, FiniteSets

CONSTANTS
  Names,       \* columns of the table
  Kind,        \* Names -> "number", "text" or "date"
  Pk,          \* the column COUNT( * ) counts
  Cells,       \* bound: what a cell may be, Null apart
  Queries,     \* bound: pairs of a statement and the view it reads, NoView for a table
  MaxRows,     \* bound: rows of a report of a table
  MaxViewRows, \* bound: rows of a report of a view
  MaxInt,      \* bound: the largest int
  Scale,       \* averages are kept in this fraction of one
  Null, NoView

Functions == {"none", "AVG", "COUNT", "MAX", "MIN", "SUM"}   \* "none": the column itself
Fields == [name : Names \cup {"*"}, fn : Functions, distinct : BOOLEAN]
Groups == [name : Names \cup {"*"}, pos : Nat \ {0}]
Orders == [name : Names \cup {"*"}, pos : Nat \ {0}, desc : BOOLEAN]
Stmts == [fields : Seq(Fields), group : Seq(Groups), order : Seq(Orders),
          where : Seq(Names), during : BOOLEAN,
          offset : 0..MaxInt, count : 0..MaxInt, limited : BOOLEAN]

(* What the parser lets through: a column of GROUP BY and ORDER BY is one of  *)
(* the fields, of which there is at least one.                               *)
Parsed(s) ==
  /\ s.fields # <<>>
  /\ \A k \in DOMAIN s.group :
       s.group[k].pos <= Len(s.fields) /\ s.fields[s.group[k].pos].name = s.group[k].name
  /\ \A k \in DOMAIN s.order :
       s.order[k].pos <= Len(s.fields) /\ s.fields[s.order[k].pos].name = s.order[k].name

ASSUME NameAssumption == Pk \in Names /\ "*" \notin Names /\ IsFiniteSet(Names)
ASSUME KindAssumption == Kind \in [Names -> {"number", "text", "date"}]
ASSUME CellAssumption == Cells \subseteq Nat /\ Null \notin Nat
ASSUME StmtAssumption == \A q \in Queries : q[1] \in Stmts /\ Parsed(q[1])
ASSUME ViewAssumption ==
  /\ NoView \notin Stmts
  /\ \A q \in Queries : q[2] # NoView =>
       q[2] \in Stmts /\ Parsed(q[2]) /\ \A i \in DOMAIN q[2].fields : q[2].fields[i].name \in Names
ASSUME BoundAssumption == /\ MaxInt \in Nat \ {0} /\ Scale \in Nat \ {0}
                          /\ MaxRows \in 0..MaxInt /\ MaxViewRows \in 0..MaxInt

VARIABLES
  pc,      \* "parsed", "fetch", "rows", "sort", "limit", "read",
           \* "done", "refused", "error", "panic"
  asked,   \* the statement as it was parsed (history)
  stmt,    \* the statement
  view,    \* the view it reads, or NoView
  records, \* the report: rows of cells, one cell per column
  n,       \* records aggregated so far
  data,    \* groups: key -> row
  out,     \* the result set: keys of data
  size,    \* Rows.size
  pos,     \* Rows.pos
  shown    \* keys of the rows handed out

vars == <<pc, asked, stmt, view, records, n, data, out, size, pos, shown>>

----------------------------------------------------------------------------
(* Merging with the view. *)

(* The positions of a set, in their order. *)
Enumerated(S) ==
  [k \in 1..Cardinality(S) |->
     CHOOSE i \in S : Cardinality({j \in S : j <= i}) = k]

(* What is left of a sequence, in its order, when only those are kept.       *)
Picked(s, S) == [k \in 1..Cardinality(S) |-> s[Enumerated(S)[k]]]

NamesOf(fs) == {fs[i].name : i \in DOMAIN fs}

(* embellishField: COUNT( * ) counts the column the table is aggregated by. *)
Resolved(f) == IF f.fn = "COUNT" /\ f.name = "*" THEN [f EXCEPT !.name = Pk] ELSE f

(* embellishFields: "ignores all redundant columns", those of a same name.  *)
FieldsKept(fs) ==
  LET rs   == [i \in DOMAIN fs |-> Resolved(fs[i])]
      kept == {i \in DOMAIN fs : \A j \in 1..(i - 1) : rs[j].name # rs[i].name}
  IN  Picked(rs, kept)

UnknownField(fs, known) == \E i \in DOMAIN fs : Resolved(fs[i]).name \notin known

(* The view's limit has a row count only when it is positive. *)
PageSize(v) == v.count > 0

(* Mutant of Limited: the view's row count is not taken over. *)
Limited_own(s, v) == [s EXCEPT !.offset = IF v.offset > s.offset THEN v.offset ELSE @]

(* LimitClause: the smaller of two row counts is replaced too. *)
Limited(s, v) ==
  [s EXCEPT !.offset  = IF v.offset > s.offset THEN v.offset ELSE @,
            !.count   = IF PageSize(v) THEN v.count ELSE @,
            !.limited = @ \/ PageSize(v)]

(* A condition of the view on a column that has one already: the statement's *)
(* own, or one that the loop has just appended.                              *)
WhereOutRange(s, v) ==
  \E i \in DOMAIN v.where :
    \/ \E k \in DOMAIN s.where : s.where[k] = v.where[i]
    \/ \E j \in 1..(i - 1) : v.where[j] = v.where[i]

IsAll(s) == Len(s.fields) = 1 /\ s.fields[1].name = "*"
InSelect(x, fs) == \E i \in DOMAIN fs : fs[i].name = x.name
Selected(xs, fs) == Picked(xs, {k \in DOMAIN xs : InSelect(xs[k], fs)})

(* Mutant of Merged: the view's own columns are made unique too. *)
Merged_unique(s, v) ==
  LET fs == FieldsKept(IF IsAll(s) THEN v.fields ELSE s.fields)
  IN  [Limited(s, v) EXCEPT
         !.fields = fs,
         !.where  = @ \o v.where,
         !.during = @ \/ v.during,
         !.group  = IF @ = <<>> THEN Selected(v.group, fs) ELSE @,
         !.order  = IF @ = <<>> THEN Selected(v.order, fs) ELSE @]

(* embellishView, when nothing is refused. *)
Merged(s, v) ==
  LET fs == IF IsAll(s) THEN v.fields ELSE FieldsKept(s.fields)
  IN  [Limited(s, v) EXCEPT
         !.fields = fs,
         !.where  = @ \o v.where,
         !.during = @ \/ v.during,
         !.group  = IF @ = <<>> THEN Selected(v.group, fs) ELSE @,
         !.order  = IF @ = <<>> THEN Selected(v.order, fs) ELSE @]

----------------------------------------------------------------------------
(* Aggregating. *)

(* The cells of record r the group of its row is named by. *)
UseAggregate == \E i \in DOMAIN stmt.fields : stmt.fields[i].distinct \/ stmt.fields[i].fn # "none"
DistinctList == Enumerated({i \in DOMAIN stmt.fields : stmt.fields[i].distinct})

Key(j) ==
  IF stmt.group # <<>> THEN [k \in DOMAIN stmt.group |-> records[j][stmt.group[k].pos]]
  ELSE IF UseAggregate
    THEN [k \in DOMAIN DistinctList |-> records[j][DistinctList[k]]]
  ELSE <<j>>

(* cast and aggregate: a date that is not set is the oldest of all, a number *)
(* is skipped.                                                               *)
Valid(i, c) == c # Null \/ Kind[stmt.fields[i].name] = "date"
Number(i, c) == IF c # Null THEN c
                ELSE IF Kind[stmt.fields[i].name] = "date" THEN -1 ELSE 0

None == [v |-> 0, valid |-> FALSE]

(* Mutant of Aggregate: MAX and MIN start from zero. *)
Aggregate_zero(i, a, c) ==
  LET x == Number(i, c) IN
  CASE stmt.fields[i].fn = "COUNT" -> [v |-> a.v + 1, valid |-> TRUE]
    [] stmt.fields[i].fn = "MAX"   -> [v |-> IF a.v < x THEN x ELSE a.v, valid |-> TRUE]
    [] stmt.fields[i].fn = "MIN"   -> [v |-> IF a.v > x THEN x ELSE a.v, valid |-> TRUE]
    [] OTHER                       -> [v |-> a.v + x, valid |-> TRUE]

(* One more cell c for the aggregate a of field i.  The average is weighted  *)
(* by the number of the column, counted from zero.                           *)
Aggregate(i, a, c) ==
  LET x == Number(i, c) IN
  CASE stmt.fields[i].fn = "COUNT" -> [v |-> a.v + 1, valid |-> TRUE]
    [] stmt.fields[i].fn # "COUNT" /\ ~Valid(i, c) -> a
    [] stmt.fields[i].fn = "AVG" /\ Valid(i, c) ->
         [v |-> (a.v * (i - 1) + x * Scale) \div i, valid |-> TRUE]
    [] stmt.fields[i].fn = "MAX" /\ Valid(i, c) ->
         [v |-> IF ~a.valid \/ a.v < x THEN x ELSE a.v, valid |-> TRUE]
    [] stmt.fields[i].fn = "MIN" /\ Valid(i, c) ->
         [v |-> IF ~a.valid \/ a.v > x THEN x ELSE a.v, valid |-> TRUE]
    [] stmt.fields[i].fn = "SUM" /\ Valid(i, c) ->
         [v |-> a.v + x, valid |-> TRUE]

(* Mutant of RowAfter: what the group had is forgotten. *)
RowAfter_fresh(j) ==
  [i \in DOMAIN stmt.fields |->
     IF stmt.fields[i].fn = "none" THEN [v |-> Number(i, records[j][i]), valid |-> records[j][i] # Null]
     ELSE Aggregate(i, None, records[j][i])]

(* The row of a group after record j: what is not aggregated is replaced. *)
RowAfter(j) ==
  [i \in DOMAIN stmt.fields |->
     IF stmt.fields[i].fn = "none" THEN [v |-> Number(i, records[j][i]), valid |-> records[j][i] # Null]
     ELSE Aggregate(i, IF Key(j) \in DOMAIN data THEN data[Key(j)][i] ELSE None, records[j][i])]

(* A text cannot be aggregated, but it is counted. *)
BadQuery(r) == \E i \in DOMAIN r :
  stmt.fields[i].fn \notin {"none", "COUNT"} /\ Kind[stmt.fields[i].name] = "text"

(* A cell that record r lacks names its group, or is to be converted. *)
GroupOutOfRange(r) ==
  IF stmt.group # <<>> THEN \E k \in DOMAIN stmt.group : stmt.group[k].pos > Len(r)
  ELSE \E i \in DOMAIN stmt.fields : stmt.fields[i].distinct /\ i > Len(r)
CellOutOfRange(r) == \E i \in DOMAIN stmt.fields : stmt.fields[i].fn # "COUNT" /\ i > Len(r)

----------------------------------------------------------------------------
(* Sorting. *)

IsTime(i) == Kind[stmt.fields[i].name] = "date" /\ stmt.fields[i].fn = "none"

(* Mutant of LessAt: every order is ascending. *)
LessAt_asc(k, p, q) ==
  LET i == stmt.order[k].pos IN data[p][i].v < data[q][i].v

(* One less function, for groups p and q: the closures share the variable of *)
(* the loop that made them, so that all have the direction of the last one;  *)
(* two equal dates are each before the other.                                *)
LessAt(k, p, q) ==
  LET i == stmt.order[k].pos
      x == data[p][i].v
      y == data[q][i].v
  IN  IF stmt.order[Len(stmt.order)].desc
        THEN x > y \/ (IsTime(i) /\ x = y)
        ELSE x < y

Ties(k, p, q) == ~LessAt(k, p, q) /\ ~LessAt(k, q, p)
Less(p, q) ==
  \E k \in DOMAIN stmt.order : LessAt(k, p, q) /\ \A j \in 1..(k - 1) : Ties(j, p, q)

(* sort.Sort compares two rows whose order depends on a column they lack. *)
OrderOutOfRange ==
  \E k \in DOMAIN stmt.order :
    /\ stmt.order[k].pos > Len(stmt.fields)
    /\ \A j \in 1..(k - 1) : stmt.order[j].pos <= Len(stmt.fields)
    /\ \E i, j \in DOMAIN out : i # j /\ \A m \in 1..(k - 1) : Ties(m, out[i], out[j])

Permuted(s, t) ==
  \E f \in [DOMAIN s -> DOMAIN s] :
    /\ \A i, j \in DOMAIN s : f[i] = f[j] => i = j
    /\ t = [i \in DOMAIN s |-> s[f[i]]]

(* sort.Sort is not stable. *)
SortedBy(s, t) ==
  Permuted(s, t) /\ \A i, j \in DOMAIN t : i < j /\ Less(t[j], t[i]) => Less(t[i], t[j])

Wrap(x) == IF x > MaxInt THEN x - 2 * (MaxInt + 1) ELSE x

----------------------------------------------------------------------------
Init ==
  /\ pc = "parsed"
  /\ \E q \in Queries : asked = q[1] /\ view = q[2]
  /\ stmt = asked
  /\ records = <<>> /\ n = 0 /\ data = [k \in {} |-> <<>>]
  /\ out = <<>> /\ size = 0 /\ pos = 0 /\ shown = <<>>

(* embellish, of a report. *)
EmbellishTable ==
  /\ pc = "parsed" /\ view = NoView
  /\ IF UnknownField(stmt.fields, Names)
       THEN pc' = "refused" /\ UNCHANGED stmt
       ELSE pc' = "fetch" /\ stmt' = [stmt EXCEPT !.fields = FieldsKept(@)]
  /\ UNCHANGED <<asked, view, records, n, data, out, size, pos, shown>>

(* embellish, of a view: unknown columns, two conditions on one column, and  *)
(* dates out of the view's are refused.                                      *)
EmbellishView ==
  /\ pc = "parsed" /\ view # NoView
  /\ \/ /\ ~IsAll(stmt) /\ UnknownField(stmt.fields, NamesOf(view.fields))
        /\ pc' = "refused" /\ UNCHANGED stmt
     \/ /\ IsAll(stmt) \/ ~UnknownField(stmt.fields, NamesOf(view.fields))
        /\ WhereOutRange(stmt, view) \/ (stmt.during /\ view.during)
        /\ pc' = "refused" /\ UNCHANGED stmt
     \/ /\ IsAll(stmt) \/ ~UnknownField(stmt.fields, NamesOf(view.fields))
        /\ ~WhereOutRange(stmt, view)
        /\ pc' = "fetch" /\ stmt' = Merged(stmt, view)
  /\ UNCHANGED <<asked, view, records, n, data, out, size, pos, shown>>

(* The report, from the cache or from the API, which ignores redundant       *)
(* columns too.                                                              *)
Fetch ==
  /\ pc = "fetch"
  /\ \/ \E m \in 0..(IF view = NoView THEN MaxRows ELSE MaxViewRows) :
          /\ records' \in [1..m -> [DOMAIN FieldsKept(stmt.fields) -> Cells \cup {Null}]]
          /\ pc' = "rows"
     \/ pc' = "error" /\ UNCHANGED records
  /\ UNCHANGED <<asked, stmt, view, n, data, out, size, pos, shown>>

(* One turn of the loop of aggregateData. *)
AddRow ==
  /\ pc = "rows" /\ n < Len(records)
  /\ LET r == records[n + 1] IN
       \/ /\ GroupOutOfRange(r) \/ (~BadQuery(r) /\ CellOutOfRange(r))
          /\ pc' = "panic" /\ UNCHANGED <<n, data>>
       \/ /\ ~GroupOutOfRange(r) /\ BadQuery(r)
          /\ pc' = "error" /\ UNCHANGED <<n, data>>
       \/ /\ ~GroupOutOfRange(r) /\ ~BadQuery(r) /\ ~CellOutOfRange(r)
          /\ n' = n + 1
          /\ data' = [k \in DOMAIN data \cup {Key(n + 1)} |->
                        IF k = Key(n + 1) THEN RowAfter(n + 1) ELSE data[k]]
          /\ UNCHANGED pc
  /\ UNCHANGED <<asked, stmt, view, records, out, size, pos, shown>>

(* "Builds the result set", in whatever order the map is walked. *)
Collect ==
  /\ pc = "rows" /\ n = Len(records)
  /\ out' \in {t \in [1..Cardinality(DOMAIN data) -> DOMAIN data] :
                 \A i, j \in DOMAIN t : t[i] = t[j] => i = j}
  /\ size' = Len(out')
  /\ pc' = IF DOMAIN data = {} THEN "done" ELSE "sort"
  /\ UNCHANGED <<asked, stmt, view, records, n, data, pos, shown>>

Sort ==
  /\ pc = "sort"
  /\ IF stmt.order = <<>>
       THEN pc' = "limit" /\ UNCHANGED out
       ELSE IF OrderOutOfRange THEN pc' = "panic" /\ UNCHANGED out
       ELSE pc' = "limit" /\ out' \in {t \in [DOMAIN out -> DOMAIN data] : SortedBy(out, t)}
  /\ UNCHANGED <<asked, stmt, view, records, n, data, size, pos, shown>>

(* Mutant of Limit: the window ends after the row count, not after both. *)
Limit_noOffset ==
  /\ pc = "limit"
  /\ pos' = stmt.offset
  /\ size' = IF stmt.limited /\ stmt.count < size THEN stmt.count ELSE size
  /\ pc' = "read"
  /\ UNCHANGED <<asked, stmt, view, records, n, data, out, shown>>

(* Mutant of Limit: the window may end behind the result. *)
Limit_noClamp ==
  /\ pc = "limit"
  /\ IF stmt.limited
       THEN pos' = stmt.offset /\ size' = Wrap(stmt.count + stmt.offset)
       ELSE UNCHANGED <<pos, size>>
  /\ pc' = "read"
  /\ UNCHANGED <<asked, stmt, view, records, n, data, out, shown>>

Limit ==
  /\ pc = "limit"
  /\ IF stmt.limited
       THEN /\ pos' = stmt.offset
            /\ LET rc == Wrap(stmt.count + stmt.offset)
               IN  size' = IF rc > size THEN size ELSE rc
       ELSE UNCHANGED <<pos, size>>
  /\ pc' = "read"
  /\ UNCHANGED <<asked, stmt, view, records, n, data, out, shown>>

(* Rows.Next, until it tells the end. *)
NextRow ==
  /\ pc = "read" /\ size # 0
  /\ IF pos = size THEN pc' = "done" /\ UNCHANGED <<pos, shown>>
     ELSE IF pos >= Len(out) THEN pc' = "panic" /\ UNCHANGED <<pos, shown>>
     ELSE /\ shown' = Append(shown, out[pos + 1])
          /\ pos' = pos + 1
          /\ UNCHANGED pc
  /\ UNCHANGED <<asked, stmt, view, records, n, data, out, size>>

(* Without rows there are no columns, and Seek does not ask for one. *)
NoColumns ==
  /\ pc = "read" /\ size = 0
  /\ pc' = "done"
  /\ UNCHANGED <<asked, stmt, view, records, n, data, out, size, pos, shown>>

Next ==
  EmbellishTable \/ EmbellishView \/ Fetch \/ AddRow \/ Collect \/ Sort
  \/ Limit \/ NextRow \/ NoColumns

Spec == Init /\ [][Next]_vars

----------------------------------------------------------------------------
(* Promises.                                                                 *)

(* The map of the groups, after any number of records: one group per key     *)
(* seen, its COUNT the records of that key, its MAX and MIN among their      *)
(* values and over all of them, and its other columns those of the last one. *)
Members(k) == {j \in 1..n : Key(j) = k}
Given(k, i) == {j \in Members(k) : Valid(i, records[j][i])}
CellIsRight(k, i) ==
  LET a  == data[k][i]
      fn == stmt.fields[i].fn
  IN  /\ fn = "COUNT" => a.v = Cardinality(Members(k))
      /\ fn \in {"MAX", "MIN"} => a.valid = (Given(k, i) # {})
      /\ fn = "MAX" /\ a.valid =>
           /\ \E j \in Given(k, i) : a.v = Number(i, records[j][i])
           /\ \A j \in Given(k, i) : a.v >= Number(i, records[j][i])
      /\ fn = "MIN" /\ a.valid =>
           /\ \E j \in Given(k, i) : a.v = Number(i, records[j][i])
           /\ \A j \in Given(k, i) : a.v <= Number(i, records[j][i])
      /\ fn = "none" => \E j \in Members(k) :
           /\ \A m \in Members(k) : m <= j
           /\ a.v = Number(i, records[j][i])
GroupsAreRight ==
  pc \in {"rows", "sort", "limit", "read", "done"} =>
    /\ DOMAIN data = {Key(j) : j \in 1..n}
    /\ \A k \in DOMAIN data, i \in DOMAIN stmt.fields : CellIsRight(k, i)

(* The sums are those of the groups. *)
Total(i) ==
  LET Sum[S \in SUBSET (1..Len(records))] ==
        IF S = {} THEN 0
        ELSE LET j == CHOOSE j \in S : TRUE IN Number(i, records[j][i]) + Sum[S \ {j}]
  IN  Sum
SumsAreRight ==
  pc \in {"rows", "sort", "limit", "read", "done"} =>
    \A k \in DOMAIN data, i \in DOMAIN stmt.fields :
      stmt.fields[i].fn = "SUM" => data[k][i].v = Total(i)[Given(k, i)]

(* What is handed out are the groups, each at most once: from the offset of   *)
(* the statement on, or of its view where that is larger, and as many as the *)
(* smaller of their row counts says, all when there is none.  One exception: *)
(* a row count that is smaller than the view's is replaced by the view's     *)
(* (statement.go:470).                                                       *)
Smaller(a, b) == IF a < b THEN a ELSE b
ViewPaged == view # NoView /\ PageSize(view)
FewerThanTheView == ViewPaged /\ asked.limited /\ asked.count < view.count
OffsetAsked == IF view # NoView /\ view.offset > asked.offset THEN view.offset ELSE asked.offset
CountAsked ==
  IF ViewPaged /\ asked.limited THEN Smaller(asked.count, view.count)
  ELSE IF ViewPaged THEN view.count ELSE asked.count
Window(offset, count) == SubSeq(out, offset + 1, Smaller(offset + count, Len(out)))
WindowIsShown ==
  pc = "done" /\ out # <<>> =>
    /\ {out[i] : i \in DOMAIN out} = DOMAIN data /\ Len(out) = Cardinality(DOMAIN data)
    /\ ~asked.limited /\ ~ViewPaged => shown = out
    /\ (asked.limited \/ ViewPaged) /\ ~FewerThanTheView => shown = Window(OffsetAsked, CountAsked)
    /\ FewerThanTheView => shown = Window(OffsetAsked, view.count)

(* A statement on a view keeps within it: all conditions of the view are     *)
(* there, none of them on a column that has another, and never more rows     *)
(* than its row count.  It is refused only for a column the view lacks, for  *)
(* dates on both sides, or for a second condition on a column, which may be  *)
(* one of the view's own (statement.go:408).                                 *)
Occurs(x, s) == Cardinality({i \in DOMAIN s : s[i] = x})
ViewHolds ==
  view # NoView =>
    /\ pc \notin {"parsed", "refused"} =>
         \A i \in DOMAIN view.where : Occurs(view.where[i], stmt.where) = 1
    /\ PageSize(view) => Len(shown) <= view.count
    /\ pc = "refused" =>
         \/ ~IsAll(asked) /\ UnknownField(asked.fields, NamesOf(view.fields))
         \/ asked.during /\ view.during
         \/ \E i \in DOMAIN view.where : Occurs(view.where[i], asked.where \o view.where) > 1

(* SELECT * of a view has the view's columns, each where GROUP BY and ORDER  *)
(* BY of the view look for it, and its order.                                *)
Designates(x) == x.pos <= Len(stmt.fields) /\ x.name \in {"*", stmt.fields[x.pos].name}
PositionsDesignate ==
  /\ \A k \in DOMAIN stmt.group : Designates(stmt.group[k])
  /\ \A k \in DOMAIN stmt.order : Designates(stmt.order[k])
AllIsTheView ==
  view # NoView /\ IsAll(asked) /\ pc \notin {"parsed", "refused"} =>
    /\ PositionsDesignate
    /\ asked.order = <<>> => stmt.order = view.order
    /\ asked.group = <<>> => stmt.group = view.group

(* ORDER BY as it was asked for: by the statement, or else by its view for    *)
(* the columns selected.  The name of a column is that of the field at its   *)
(* position where it was written; its place is where the statement has that  *)
(* name now.  SELECT * has the view's fields as they are, two of which may   *)
(* have one name, so that places are positions.                              *)
OwnOrder == asked.order # <<>> \/ view = NoView
OrderAsked == IF OwnOrder THEN asked.order ELSE Selected(view.order, stmt.fields)
NameAsked(x) == IF OwnOrder THEN Resolved(asked.fields[x.pos]).name ELSE view.fields[x.pos].name
Place(x) ==
  IF view # NoView /\ IsAll(asked) THEN x.pos
  ELSE CHOOSE i \in DOMAIN stmt.fields : stmt.fields[i].name = NameAsked(x)

(* Rows come in that order: by the first column, then by the second ... when *)
(* all have one direction, no date is descending, and every column is still  *)
(* where its position says.  It is elsewhere for two reasons only: a field   *)
(* up to it was redundant and dropped, or the order is the view's and the    *)
(* statement selects columns of its own.                                     *)
Precedes(x, p, q) ==
  LET a == data[p][Place(x)].v
      b == data[q][Place(x)].v
  IN  IF x.desc THEN a > b ELSE a < b
InOrder ==
  \A i, j \in DOMAIN shown : i < j =>
    ~\E k \in DOMAIN OrderAsked :
       /\ Precedes(OrderAsked[k], shown[j], shown[i])
       /\ \A m \in 1..(k - 1) : ~Precedes(OrderAsked[m], shown[i], shown[j])
OneDirection ==
  \A k, m \in DOMAIN OrderAsked :
    /\ OrderAsked[k].desc = OrderAsked[m].desc
    /\ OrderAsked[k].desc => ~IsTime(Place(OrderAsked[k]))
Displaced(x) == x.pos # Place(x)
RedundantUpTo(i) ==
  \E j \in 1..i : \E h \in 1..(j - 1) : Resolved(asked.fields[h]).name = Resolved(asked.fields[j]).name
ShownInOrder ==
  pc \in {"read", "done"} =>
    /\ OneDirection /\ (\A k \in DOMAIN OrderAsked : ~Displaced(OrderAsked[k])) => InOrder
    /\ \A k \in DOMAIN OrderAsked : Displaced(OrderAsked[k]) =>
         IF OwnOrder THEN RedundantUpTo(OrderAsked[k].pos) ELSE ~IsAll(asked)

(* Reading and sorting rows panics for one of these reasons only: the offset  *)
(* is behind the result, the end of the window does not fit an int, or a     *)
(* position or a column is missing because redundant columns were dropped or *)
(* the view has others.                                                      *)
PanicIsExplained ==
  pc = "panic" =>
    \/ stmt.limited /\ out # <<>>
       /\ (stmt.offset > Len(out) \/ stmt.offset + stmt.count > MaxInt)
    \/ \E k \in DOMAIN stmt.group : stmt.group[k].pos > Len(FieldsKept(stmt.fields))
    \/ \E k \in DOMAIN stmt.order : stmt.order[k].pos > Len(stmt.fields)
    \/ view # NoView /\ Len(stmt.fields) > Len(FieldsKept(stmt.fields))

(* What comments of the source say, and the code does not do.                *)

(* "(((previous average x number of elements seen) + current value) /        *)
(* current number of elements)"                                              *)
AverageIsMean ==
  \A k \in DOMAIN data, i \in DOMAIN stmt.fields :
    stmt.fields[i].fn = "AVG" /\ data[k][i].valid =>
      data[k][i].v * Cardinality(Given(k, i)) = Total(i)[Given(k, i)] * Scale
=============================================================================
