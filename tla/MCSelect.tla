------------------------------ MODULE MCSelect ------------------------------
(* Instances of Select: columns of each kind, statements with every function *)
(* and clause, reports of up to three rows.                                  *)
EXTENDS Select

AllNames == {"id", "day", "cost", "label"}
KindOf == [id |-> "number", day |-> "date", cost |-> "number", label |-> "text"]
TwoValues == {1, 2}

F(c) == [name |-> c, fn |-> "none", distinct |-> FALSE]
D(c) == [name |-> c, fn |-> "none", distinct |-> TRUE]
A(fn, c) == [name |-> c, fn |-> fn, distinct |-> FALSE]

(* SELECT fs GROUP BY g ORDER BY o LIMIT l: g are positions, o positions,    *)
(* negative for DESC, l is <<>> or <<offset, row count>>.                    *)
Abs(x) == IF x < 0 THEN -x ELSE x
Select(fs, g, o, l) ==
  [fields  |-> fs,
   group   |-> [k \in DOMAIN g |-> [name |-> fs[g[k]].name, pos |-> g[k]]],
   order   |-> [k \in DOMAIN o |-> [name |-> fs[Abs(o[k])].name, pos |-> Abs(o[k]), desc |-> o[k] < 0]],
   where   |-> <<>>, during |-> FALSE,
   offset  |-> IF l = <<>> THEN 0 ELSE l[1],
   count   |-> IF l = <<>> THEN 0 ELSE l[2],
   limited |-> l # <<>>]
Where(s, c, d) == [s EXCEPT !.where = c, !.during = d]

Grouped ==
  {Select(fs, g, <<>>, <<>>) :
     fs \in {<<F("label"), A("MAX", "cost")>>, <<A("MIN", "cost"), F("id")>>, <<D("label"), A("SUM", "cost")>>,
             <<A("COUNT", "*"), F("label")>>, <<A("MAX", "day"), F("cost")>>, <<F("id"), A("SUM", "label")>>},
     g  \in {<<>>, <<1>>, <<2>>, <<1, 2>>}}
  \cup {Select(<<A(fn, "cost")>>, <<>>, <<>>, <<>>) : fn \in Functions \ {"AVG"}}
  \cup {Select(<<A("COUNT", "cost"), F("cost"), F("id")>>, <<3>>, <<>>, <<>>), Select(<<F("*")>>, <<>>, <<>>, <<>>)}

Sorted ==
  {Select(<<F(a), F("cost")>>, <<>>, o, l) : a \in {"id", "day"},
     o \in {<<>>, <<1>>, <<-1>>, <<1, 2>>, <<-1, -2>>, <<2, 1>>}, l \in {<<>>, <<0, 2>>}}
  \cup {Select(<<F("id")>>, <<>>, o, l) :
     o \in {<<>>, <<1>>}, l \in {<<0, 0>>, <<1, 1>>, <<1, 7>>, <<3, 1>>}}
  \cup {Select(<<F("id"), F("id"), F("cost")>>, <<>>, <<3>>, <<>>)}
OfTables == Grouped \cup Sorted

OfViews ==
  {Select(<<F("cost"), F("id")>>, <<>>, <<>>, <<1, 1>>), Select(<<F("id"), A("SUM", "cost")>>, <<1>>, <<-1>>, <<>>)}
  \cup {Where(Select(fs, <<>>, o, l), w, w # <<>>) : fs \in {<<F("*")>>, <<F("cost")>>, <<F("cost"), F("id")>>},
          o \in {<<>>, <<1>>}, l \in {<<>>, <<0, 1>>, <<0, 3>>, <<2, 2>>}, w \in {<<>>, <<"id">>}}
SomeViews ==
  {Where(Select(<<F("id"), F("cost")>>, g, o, l), w, TRUE) :
     g \in {<<>>, <<1>>}, o \in {<<>>, <<2>>}, l \in {<<>>, <<0, 2>>, <<1, 1>>}, w \in {<<"cost">>, <<"id">>}}
  \cup {Select(<<F("id"), F("id"), F("cost")>>, <<1>>, <<3>>, <<>>),
        Where(Select(<<F("id"), F("cost")>>, <<>>, <<>>, <<>>), <<"cost", "cost">>, FALSE)}
OfAll == (OfTables \X {NoView}) \cup (OfViews \X SomeViews)

(* A statement for what the code does not do. *)
Mean  == {<<Select(<<A("AVG", "cost")>>, <<>>, <<>>, <<>>), NoView>>}
=============================================================================
