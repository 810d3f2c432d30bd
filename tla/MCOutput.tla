------------------------------ MODULE MCOutput ------------------------------
(* One statement over every text the API is known to send, in up to two      *)
(* records of one or two groups; and two statements, of which the first is   *)
(* simple.                                                                   *)
EXTENDS Output

MCNameLen == "name" :> 4
MCWest == {0, 2}
Plain(n) == Number("none", n, 0, FALSE)
KnownTexts(kind) == CASE kind = "LONG"   -> {Dash, Excluded, AutoText, Plain(7000), Plain(12000), Number("auto:_", 12000, 0, FALSE),
                                       Number("auto", 7000, 0, FALSE), Number("auto:", 7000, 0, FALSE)}
                [] kind = "DOUBLE" -> {Dash, Number("<_", 10000, 0, TRUE), Number(">_", 90000, 0, TRUE), Plain(5000),
                                       Number("none", 12300, 1, FALSE), Number("none", 12340, 2, TRUE), AutoText}
                [] kind = "DATE"   -> {Dash, Date(1), Date(2)}
                [] kind = "STRING" -> {Dash, Word("name")}
MethodsOf(kind) == CASE kind = "LONG"   -> {"none", "COUNT", "SUM", "MAX", "MIN"}
                   [] kind = "DOUBLE" -> {"none", "SUM", "MAX", "MIN"}
                   [] kind = "DATE"   -> {"none", "MAX", "MIN"}
                   [] kind = "STRING" -> {"none", "COUNT"}
Rec(g, t) == [group |-> g, text |-> t]
Records(kind) ==
  {<<Rec(1, t)>> : t \in KnownTexts(kind)} \cup {<<Rec(1, t), Rec(g, u)>> : t, u \in KnownTexts(kind), g \in {1, 2}}
Answer(kind, method, records, offset, style) ==
  [kind |-> kind, method |-> method, records |-> records, offset |-> offset, style |-> style]
Other(kind) == Answer(kind, "none", <<>>, 0, "ascii")
All == UNION {{Answer(k, m, rs, 0, "ascii") : m \in MethodsOf(k), rs \in Records(k)} : k \in {"LONG", "DOUBLE", "DATE", "STRING"}}
Named == <<Rec(1, Word("name")), Rec(2, Dash), Rec(3, Word("name"))>>
Few == {Answer("STRING", "none", Named, o, s) : o \in {0, 2, 3, 4}, s \in {"ascii", "vascii"}}
MCInputs == {<<r>> : r \in All} \cup {<<r, s>> : r \in {Other("error"), Other("exec"), Other("STRING")} \cup Few, s \in Few}
=============================================================================
