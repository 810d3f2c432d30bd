----------------------------- MODULE Completer -----------------------------
(* What Tab offers for the line before the cursor.  A line is a sequence of  *)
(* keys: a keyword, a space, a mark, or one character of a name.  Keywords   *)
(* are compared without case, hence one key each.  The cursor and the length *)
(* of a line are counted in characters, len and strings.Index in bytes.      *)
EXTENDS Catalog

(* Fields of the line, "(" being followed by a space; the word after a space *)
(* at the end is there too, empty.                                           *)
Split(words, k) ==
  LET longer == [words EXCEPT ![Len(words)] = Append(@, k)]
  IN  IF k = Blank THEN (IF Last(words) = <<>> THEN words ELSE Append(words, <<>>))
      ELSE IF k = "(" THEN Append(longer, <<>>) ELSE longer
(* Mutant of Tokenize: the empty word behind the last space is left out.     *)
Tokenize_fields(s) ==
  LET t == FoldLeft(Split, <<<<>>>>, s) IN IF Last(t) = <<>> THEN Front(t) ELSE t
Tokenize(s) == IF s = <<>> THEN <<>> ELSE FoldLeft(Split, <<<<>>>>, s)

Is(w, k) == w = <<k>>
Joined(ws) == \* strings.Join(ws, " ")
  FlattenSeq([i \in DOMAIN ws |-> IF i = 1 THEN ws[i] ELSE <<Blank>> \o ws[i]])
Beyond(more, s) == FoldLeft(LAMBDA n, k : n + (IF k \in DOMAIN more THEN more[k] ELSE 0), 0, s)
Chars(s) == Len(s) + Beyond(Letters, s)
Bytes(s) == Chars(s) + Beyond(Wide, s)
(* A slice of the characters: s[:n] and s[n:].                               *)
KeysIn(s, n) == Max({i \in 0..Len(s) : Chars(SubSeq(s, 1, i)) <= n})
Whole(s, n) == Chars(SubSeq(s, 1, KeysIn(s, n))) = n
Before(s, n) == SubSeq(s, 1, KeysIn(s, n)) \o (IF Whole(s, n) THEN <<>> ELSE <<Stump>>)
Behind(s, n) == IF Whole(s, n) THEN SubSeq(s, KeysIn(s, n) + 1, Len(s))
                ELSE <<Stump>> \o SubSeq(s, KeysIn(s, n) + 2, Len(s))

Place(s, w) == \* of the first w in s, in keys from 0; 0 for the empty word
  (CHOOSE i \in 0..Len(s) : /\ SubSeq(s, i + 1, i + Len(w)) = w
                            /\ \A j \in 0..(i - 1) : SubSeq(s, j + 1, j + Len(w)) # w)
(* Mutant of Index: the cursor is not moved.                                 *)
Index_none(s, w) == 0
Index(s, w) == Bytes(SubSeq(s, 1, Place(s, w)))
Parts(s, mark) == \* strings.Split
  FoldLeft(LAMBDA ps, k : IF k = mark THEN Append(ps, <<>>) ELSE Append(Front(ps), Append(Last(ps), k)),
           <<<<>>>>, s)
After(s, sep) == \* what is behind the last separator
  LET at == {i \in 0..(Len(s) - Len(sep)) : SubSeq(s, i + 1, i + Len(sep)) = sep}
  IN  IF at = {} THEN s
      ELSE LET i == CHOOSE i \in at : \A j \in at : j <= i IN SubSeq(s, i + Len(sep) + 1, Len(s))

(* An offer: whole names, and the word after whose bytes their characters    *)
(* are cut.  lost says that the cursor was outside of the line that was      *)
(* looked at, or that the word has more bytes than a name has characters.    *)
NoOffer == [names |-> {}, word |-> <<>>, lost |-> FALSE]
Lost == [NoOffer EXCEPT !.lost = TRUE]
Offer(names, word) ==
  IF \E n \in names : Bytes(word) > Chars(n) THEN Lost ELSE [names |-> names, word |-> word, lost |-> FALSE]
PrefixedBy(names, p) == {n \in names : IsPrefix(p, n)}

TableNames(d) == {Tables(d)[i].name : i \in DOMAIN Tables(d)}
ColumnHeads(t) == {t.cols[i].head : i \in DOMAIN t.cols}
(* Mutant of ListTableColumns: those of any table.                           *)
ListTableColumns_any(d, t, p) == PrefixedBy(ColumnNames(d), p)
ListTables(d, p) == PrefixedBy(TableNames(d), p)
ListTableColumns(d, t, p) == PrefixedBy(ColumnHeads(TableOf(d, t)), p)

DescribeCompleter(d, line) ==
  LET t    == Tokenize(line)
      l    == Len(t)
      tpos == IF l >= 2 /\ Is(t[2], "FULL") THEN 3 ELSE 2
  IN  CASE tpos = l     -> Offer(ListTables(d, t[l]), t[l])
        [] tpos = l - 1 -> IF TableAt(d, t[tpos]) = 0 THEN NoOffer
                           ELSE Offer(ListTableColumns(d, t[tpos], t[l]), t[l])
        [] OTHER        -> NoOffer

ShowCompleter(d, line) ==
  LET t == Tokenize(line)
      Skip(at, k) == IF at <= Len(t) /\ Is(t[at], k) THEN at + 1 ELSE at
      cpos == Skip(Skip(Skip(2, "FULL"), "TABLES"), "WITH")
  IN  IF Len(t) < 4 \/ cpos > Len(t) THEN NoOffer
      ELSE Offer(PrefixedBy(ColumnNames(d), t[cpos]), t[cpos])

(* The kind of names that follow a keyword.                                  *)
CONSTANT DuringList  \* the literals of DURING
ASSUME DuringAssumption == DuringList \subseteq Names
Keyword(c, p) ==
  CASE Is(c, "FROM")   -> "table"
    [] Is(c, "WHERE")  -> "column"
    [] Is(c, "DURING") -> "during"
    [] Is(c, "BY") /\ Is(p, "GROUP") -> "group"
    [] Is(c, "BY") /\ Is(p, "ORDER") -> "order"
    [] Is(c, "GROUP") \/ Is(c, "ORDER") \/ Is(c, "LIMIT") -> "void"
    [] OTHER -> "none"

(* The selected columns, and whether the last one may still be completed.    *)
SelectedIn(part) ==
  LET p == SelectInSeq(part, LAMBDA k : k = "(") IN Tokenize(SubSeq(part, p + 1, Len(part)))
IsColumnName(w) == ~Is(w, "AS") /\ \E i \in DOMAIN w : w[i] \notin {"(", ")", ",", "*", "="} \cup DOMAIN Wide
Selected(s) ==
  {Last(SelectedIn(p)) : p \in {q \in ToSet(Parts(s, ",")) :
                                  SelectedIn(q) # <<>> /\ IsColumnName(Last(SelectedIn(q)))}}
Incomplete(s) == Len(SelectedIn(Last(Parts(s, ",")))) < 2
WithCompletion(s, sep) == Len(Tokenize(After(s, sep))) < 2

(* The words behind SELECT, one by one: the kind of name expected, the last  *)
(* word that is no keyword, the table, and the text of each clause.          *)
Start == [kind |-> "all", word |-> <<>>, table |-> <<>>,
          text |-> [c \in {"all", "column", "group", "order"} |-> <<>>]]
Read(t, a, i) ==
  LET k == Keyword(t[i], t[i - 1])
      b == [a EXCEPT !.word = t[i]]
  IN  CASE k # "none" -> [a EXCEPT !.kind = IF i < Len(t) THEN k ELSE @]
        [] k = "none" /\ a.kind \in DOMAIN a.text -> [b EXCEPT !.text[a.kind] = @ \o <<Blank>> \o t[i]]
        [] k = "none" /\ a.kind = "table" ->
             IF a.table = <<>> THEN [b EXCEPT !.table = t[i]] ELSE [b EXCEPT !.kind = "void"]
        [] k = "none" /\ a.kind = "during" -> [b EXCEPT !.kind = IF Contains(t[i], ",") THEN "void" ELSE @]
        [] k = "none" /\ a.kind = "void" -> b

SelectCompleter(d, line) ==
  LET t == Tokenize(line)
      a == FoldLeftDomain(LAMBDA b, i : IF i = 1 THEN b ELSE Read(t, b, i), Start, t)
      s == a.word
      names ==
        CASE a.kind = "table"  -> ListTables(d, s)
          [] a.kind = "all"    -> IF Incomplete(a.text["all"]) THEN PrefixedBy(ColumnNames(d), s) ELSE {}
          [] a.kind = "column" -> IF ~WithCompletion(a.text["column"], <<Blank, "AND", Blank>>) THEN {}
                                  ELSE IF TableAt(d, a.table) = 0 THEN PrefixedBy(ColumnNames(d), s)
                                  ELSE ListTableColumns(d, a.table, s)
          [] a.kind \in {"group", "order"} ->
               IF WithCompletion(a.text[a.kind], <<",">>) THEN PrefixedBy(Selected(a.text["all"]), s) ELSE {}
          [] a.kind = "during" -> PrefixedBy(DuringList, s)
          [] a.kind = "void"   -> {}
  IN  IF Len(t) < 2 THEN NoOffer ELSE Offer(names, s)

(* The words from SELECT on are joined by one space each, and the cursor,    *)
(* which counts characters, is moved by the bytes before them: it may be     *)
(* anywhere in the joined line, past its end, where the runtime left zeros   *)
(* or nothing, or before its start.                                          *)
CreateCompleter(d, line) ==
  LET t    == Tokenize(line)
      i    == LET at == SelectInSeq(t, LAMBDA w : Is(w, "SELECT")) IN IF at = 0 THEN Len(t) ELSE at
      text == Joined(SubSeq(t, i, Len(t)))
      from == Index(line, t[i])
  IN  IF i = 1 THEN NoOffer
      ELSE IF Chars(line) \notin from..(from + Chars(text)) THEN Lost
      ELSE SelectCompleter(d, Before(text, Chars(line) - from))

(* The first word chooses, once a space is behind it.                        *)
Do(d, line) ==
  LET t == Tokenize(line)
  IN  CASE line = <<>> \/ Len(t) < 2          -> NoOffer
        [] Len(t) >= 2 /\ Is(t[1], "CREATE") -> CreateCompleter(d, line)
        [] Len(t) >= 2 /\ Is(t[1], "DESC")   -> DescribeCompleter(d, line)
        [] Len(t) >= 2 /\ Is(t[1], "SELECT") -> SelectCompleter(d, line)
        [] Len(t) >= 2 /\ Is(t[1], "SHOW")   -> ShowCompleter(d, line)
        [] OTHER -> NoOffer
=============================================================================
