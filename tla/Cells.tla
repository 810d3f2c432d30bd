------------------------------- MODULE Cells -------------------------------
(* The texts of a report's cells, what aggregateData makes of a column of    *)
(* them, and the texts and the width it is shown with.  Numbers are counted  *)
(* in thousandths, dates in days.                                            *)
EXTENDS Integers, SequencesExt

CONSTANTS
  NameLen,    \* the length of the words that are no number and no date
  West        \* the days that begin, in UTC, before they begin here
ASSUME WestAssumption == West \subseteq Nat
ASSUME NameAssumption ==
  /\ "none" \notin DOMAIN NameLen
  /\ \A w \in DOMAIN NameLen : NameLen[w] \in Nat

(* A text is a word, or a number num with dec decimals behind a prefix pre,  *)
(* with or without "%"; a date is a word with the number of its day.  "_"    *)
(* stands for a blank, "none" for the word or the prefix that is not there.  *)
Number(pre, n, dec, pct) == [word |-> "none", pre |-> pre, num |-> n, dec |-> dec, pct |-> pct]
Spelled(w, n) == [word |-> w, pre |-> "none", num |-> n, dec |-> 0, pct |-> FALSE]
Word(w) == Spelled(w, 0)
Date(day) == Spelled("2006-01-02", day)
Dash == Word("_--")
Excluded == Word("Excluded")
AutoText == Word("auto")

WordLen == [w \in DOMAIN NameLen \cup {"_--", "auto", "Excluded", "2006-01-02", "1483228800", "-62135596800"} |->
  CASE w = "_--" -> 3 [] w = "auto" -> 4 [] w = "Excluded" -> 8 [] w \in {"2006-01-02", "1483228800"} -> 10
    [] w = "-62135596800" -> 12 [] OTHER -> NameLen[w]]
PreLen == [p \in {"none", "<_", ">_", "auto", "auto:", "auto:_"} |->
  CASE p = "none" -> 0 [] p \in {"<_", ">_"} -> 2 [] p = "auto" -> 4 [] p = "auto:" -> 5 [] p = "auto:_" -> 6]
Digits[n \in Nat] == IF n < 10 THEN 1 ELSE 1 + Digits[n \div 10]
Decimals(d) == IF d = 0 THEN 0 ELSE d + 1
TextLen(t) == \* utf8.RuneCountInString
  IF t.word # "none" THEN WordLen[t.word]
  ELSE PreLen[t.pre] + Digits[t.num \div 1000] + Decimals(t.dec) + (IF t.pct THEN 1 ELSE 0)

(* The texts of a report: a word alone, a date, or a number with all of its  *)
(* decimals.                                                                 *)
Unit == [dec \in 0..3 |-> CASE dec = 0 -> 1000 [] dec = 1 -> 100 [] dec = 2 -> 10 [] dec = 3 -> 1]
Texts == {t \in [word : DOMAIN WordLen \cup {"none"}, pre : DOMAIN PreLen, num : Nat, dec : 0..3, pct : BOOLEAN] :
            \/ t.word = "none" /\ t.num % Unit[t.dec] = 0
            \/ t.word = "2006-01-02" /\ t = Date(t.num) /\ t.num # 0
            \/ t.word \notin {"none", "2006-01-02"} /\ t = Word(t.word)}

(* The values of the driver: a long, double, string, time or aggregate.      *)
Null == [type |-> "none", valid |-> FALSE, num |-> 0, auto |-> FALSE, excluded |-> FALSE, almost |-> FALSE,
         pct |-> FALSE, prec |-> 0, layout |-> FALSE, seconds |-> FALSE, text |-> Dash]
Wrong == [Null EXCEPT !.type = "error"]
Known(type, n) == [Null EXCEPT !.type = type, !.valid = TRUE, !.num = n]

(* cast: the prefix "auto:_", or else "auto", is taken away; what is left    *)
(* must be an integer.                                                       *)
ParseLong(t) ==
  LET null == [Null EXCEPT !.type = "long"]
  IN  CASE t = Dash      -> null
        [] t = Excluded  -> [null EXCEPT !.excluded = TRUE]
        [] t = AutoText  -> [null EXCEPT !.auto = TRUE]
        [] t.word = "none" /\ t.pre \in {"none", "auto:_", "auto"} /\ t.dec = 0 /\ ~t.pct ->
             [Known("long", t.num) EXCEPT !.auto = t.pre # "none"]
        [] OTHER -> Wrong
ParseDouble(t) ==
  LET Almost(n) == [Known("double", n) EXCEPT !.almost = TRUE, !.pct = t.pct]
  IN  CASE t = Dash -> [Null EXCEPT !.type = "double"]
        [] t = Number("<_", 10000, 0, t.pct) -> Almost(9999)
        [] t = Number(">_", 90000, 0, t.pct) -> Almost(90001)
        [] t.word = "none" /\ t.pre = "none" -> [Known("double", t.num) EXCEPT !.pct = t.pct]
        [] OTHER -> Wrong
ParseTime(t) ==
  CASE t = Dash -> [Null EXCEPT !.type = "time"]
    [] t.word = "2006-01-02" -> [Known("time", t.num) EXCEPT !.layout = TRUE]
    [] OTHER -> Wrong
ParseString(t) == IF t = Dash THEN [Null EXCEPT !.type = "string"] ELSE [Known("string", 0) EXCEPT !.text = t]
Cast(kind, t) ==
  CASE kind = "LONG"   -> ParseLong(t)
    [] kind = "DOUBLE" -> ParseDouble(t)
    [] kind = "DATE"   -> ParseTime(t)
    [] kind = "STRING" -> ParseString(t)

(* aggregate: a number that may be null, with a layout when it is a date; a  *)
(* date that was not set is a valid one, of the year 1, without a layout.    *)
Aggregate(kind, t) ==
  LET v == Cast(kind, t)
  IN  CASE v.type \in {"error", "string"} -> Wrong
        [] v.type \in {"long", "double"}  -> [Null EXCEPT !.type = "aggr", !.valid = v.valid, !.num = v.num]
        [] v.type = "time" -> [Known("aggr", v.num) EXCEPT !.layout = v.layout, !.seconds = TRUE]

(* Value: the text that is handed out.  Seconds without a layout are a       *)
(* number of twelve characters in the year 1, of ten today; with one they    *)
(* are a date of the local zone, although they were read as one of UTC.      *)
LocalDay(day) == IF day \in West THEN day - 1 ELSE day
Rounded(n) == ((n + 5) \div 10) * 10
ShownLong(v) ==
  CASE v.auto /\ ~v.valid                  -> AutoText
    [] ~(v.auto /\ ~v.valid) /\ v.excluded -> Excluded
    [] ~v.auto /\ ~v.valid /\ ~v.excluded  -> Dash
    [] v.valid /\ ~v.excluded -> Number(IF v.auto THEN "auto:_" ELSE "none", v.num, 0, FALSE)
ShownDouble(v) ==
  CASE ~v.valid -> Dash
    [] v.valid /\ v.almost  -> IF v.num > 90000 THEN Number(">_", 90000, 0, v.pct) ELSE Number("<_", 10000, 0, v.pct)
    [] v.valid /\ ~v.almost -> Number("none", Rounded(v.num), 2, v.pct)
ShownTime(v) == IF v.valid THEN Date(v.num) ELSE Dash
ShownString(v) == IF v.valid THEN v.text ELSE Dash
ShownAggregate(v) ==
  CASE ~v.valid -> Dash
    [] v.valid /\ v.layout -> Date(LocalDay(v.num))
    [] v.valid /\ ~v.layout /\ v.seconds -> Word(IF v.num = 0 THEN "-62135596800" ELSE "1483228800")
    [] v.valid /\ ~v.layout /\ ~v.seconds -> Number("none", IF v.prec = 0 THEN v.num ELSE Rounded(v.num), v.prec, FALSE)
Value(v) ==
  CASE v.type = "long"   -> ShownLong(v)
    [] v.type = "double" -> ShownDouble(v)
    [] v.type = "time"   -> ShownTime(v)
    [] v.type = "string" -> ShownString(v)
    [] v.type = "aggr"   -> ShownAggregate(v)

(* The width of a column: of the texts as they were sent, or the digits of   *)
(* the last aggregate, of which 13 at most are counted.                      *)
Least(a, b) == IF a < b THEN a ELSE b
LenFloat64(v) ==
  CASE v.layout -> WordLen["2006-01-02"]
    [] ~v.layout /\ v.seconds -> IF v.num = 0 THEN 1 ELSE 10
    [] ~v.layout /\ ~v.seconds -> Least(13, Digits[v.num \div 1000]) + Decimals(v.prec)
(* Mutant of MaxLen: the last text alone counts.                             *)
MaxLen_last(t, min) == TextLen(t)
MaxLen(t, min) == IF TextLen(t) < min THEN min ELSE TextLen(t)

(* The new value of an aggregated column after the text t.                   *)
Counted(old) == Known("aggr", old.num + 1000)
(* Mutant of Better: the first one is compared with zero too.                *)
Better_zero(method, old, new) == (method = "MAX" /\ old.num < new.num) \/ (method = "MIN" /\ old.num > new.num)
Better(method, old, new) ==
  \/ ~old.valid
  \/ method = "MAX" /\ old.num < new.num
  \/ method = "MIN" /\ old.num > new.num
Merged(method, kind, old, new) ==
  LET n == CASE method = "SUM" -> old.num + new.num
             [] method # "SUM" /\ Better(method, old, new)  -> new.num
             [] method # "SUM" /\ ~Better(method, old, new) -> old.num
  IN  [Known("aggr", n) EXCEPT !.layout = new.layout, !.seconds = new.seconds,
                               !.prec = IF kind = "DOUBLE" THEN 2 ELSE old.prec]

(* aggregateData, for one column of a kind under a method ("none" without    *)
(* one): the values by group, and the width.                                 *)
Empty == [value |-> <<>>, cs |-> 0, ok |-> TRUE]
Failed == [value |-> <<>>, cs |-> 0, ok |-> FALSE]
Add(kind, method, a, rec) ==
  LET g   == rec.group
      old == IF g \in DOMAIN a.value THEN a.value[g] ELSE [Null EXCEPT !.type = "aggr"]
      Put(v, cs) == [value |-> [h \in DOMAIN a.value \cup {g} |-> IF h = g THEN v ELSE a.value[h]], cs |-> cs, ok |-> TRUE]
      new == IF method = "none" THEN Cast(kind, rec.text) ELSE Aggregate(kind, rec.text)
      m   == Merged(method, kind, old, new)
  IN  CASE ~a.ok -> a
        [] a.ok /\ method = "COUNT" -> Put(Counted(old), LenFloat64(Counted(old)))
        [] a.ok /\ method # "COUNT" /\ new = Wrong -> Failed
        [] a.ok /\ method = "none" /\ new # Wrong -> Put(new, MaxLen(rec.text, a.cs))
        [] a.ok /\ method \notin {"none", "COUNT"} /\ new # Wrong /\ ~new.valid -> Put(old, a.cs)
        [] a.ok /\ method \notin {"none", "COUNT"} /\ new # Wrong /\ new.valid  -> Put(m, LenFloat64(m))
AggregateData(kind, method, records) ==
  FoldLeft(LAMBDA a, rec : Add(kind, method, a, rec), Empty, records)
=============================================================================
