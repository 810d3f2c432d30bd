------------------------------- MODULE Output -------------------------------
(* Seek: the results of the statements of an input are written one after the *)
(* other, as CSV, as a table or as a vertical table.  A writer has a buffer  *)
(* of its own, and the writer of the statistics another, on one same stdout, *)
(* which may fail for a while.                                               *)
EXTENDS Cells

CONSTANTS
  Inputs,     \* bound: sequences of results, one per statement
  HeadLen,    \* the length of a column's name
  MaxFaults   \* bound: how often stdout begins to fail

(* A result: an answer of CREATE VIEW ("exec"), an error of the driver, or   *)
(* the records of one column.  Dates are not summed up.                      *)
Results ==
  {r \in [kind : {"error", "exec", "LONG", "DOUBLE", "DATE", "STRING"}, method : {"none", "COUNT", "SUM", "MAX", "MIN"},
          records : Seq([group : Nat, text : Texts]), offset : Nat, style : {"ascii", "vascii"}] :
     r.kind = "DATE" => r.method # "SUM"}
ASSUME InputAssumption ==
  /\ \A i \in Inputs : i \in Seq(Results) /\ i # <<>>
  /\ HeadLen \in Nat /\ MaxFaults \in Nat

VARIABLES
  pc,      \* "seek", "rows", or how the input ended
  batch,   \* -B: CSV
  input,   \* the results, statement by statement
  at,      \* the statement being executed
  col,     \* its column, aggregated
  order,   \* its groups, in the order of the rows
  size,    \* rows given to its writers
  buf,     \* what its writer has not sent yet
  bad,     \* its writer has seen an error of stdout
  screen,  \* what stdout got
  full,    \* stdout fails (the disk is full)
  faults,  \* times it began to
  lost     \* what was meant for the screen is not there (history)

vars == <<pc, batch, input, at, col, order, size, buf, bad, screen, full, faults, lost>>

Result == input[at]
Style == IF batch THEN "csv" ELSE Result.style

Init ==
  /\ pc = "seek" /\ batch \in BOOLEAN /\ input \in Inputs /\ at = 1
  /\ col = Empty /\ order = <<>> /\ size = 0
  /\ buf = <<>> /\ bad = FALSE /\ screen = <<>>
  /\ full = FALSE /\ faults = 0 /\ lost = FALSE

Sep == [kind |-> "sep"]
Title(len) == [kind |-> "head", len |-> len]
Line(n, t) == [kind |-> "row", at |-> at, no |-> n, cell |-> t]
Stats(n) == [kind |-> "stats", at |-> at, rows |-> n]
Message == [kind |-> "message", at |-> at]

(* fmt.Println, or a writer that was given nothing else: all or nothing.     *)
Say(s) ==
  IF full THEN lost' = TRUE /\ UNCHANGED screen
  ELSE screen' = screen \o s /\ UNCHANGED lost

Done(ok) ==
  /\ at' = IF ok THEN at + 1 ELSE at
  /\ pc' = IF ~ok THEN "failed" ELSE IF at = Len(input) THEN "done" ELSE "seek"
  /\ buf' = <<>> /\ bad' = FALSE /\ size' = 0 /\ order' = <<>> /\ col' = Empty
  /\ UNCHANGED <<batch, input, full, faults>>

(* An error of the driver is printed, and the next statement follows; so do  *)
(* the statistics of a view, and of a result that has no columns.            *)
Message_(s) == pc = "seek" /\ Say(s) /\ Done(TRUE)
Refuse ==
  /\ \/ Result.kind = "error"
     \/ Result.kind # "exec" /\ ~AggregateData(Result.kind, Result.method, Result.records).ok
  /\ Message_(<<Message>>)
Exec == Result.kind = "exec" /\ Message_(<<Stats(0)>>)
NoRow ==
  /\ Result.kind \notin {"error", "exec"} /\ Result.records = <<>>
  /\ Message_(IF batch THEN <<>> ELSE <<Stats(0)>>)

(* The head is written, padded to the width of the column; the rows come in  *)
(* any order, and from the offset of LIMIT, which may leave none.            *)
WriteHead ==
  /\ pc = "seek" /\ Result.kind \notin {"error", "exec"} /\ Result.records # <<>>
  /\ LET c == AggregateData(Result.kind, Result.method, Result.records)
         len == IF HeadLen < c.cs THEN c.cs ELSE HeadLen
     IN  /\ c.ok /\ col' = c
         /\ \E f \in SetToSeqs(DOMAIN c.value) :
              order' = SubSeq(f, Result.offset + 1, Len(f))
         /\ buf' = CASE Style = "csv"   -> <<Title(len)>>
                     [] Style = "ascii" -> <<Sep, Title(len), Sep>>
                     [] Style = "vascii" -> <<>>
  /\ pc' = "rows"
  /\ UNCHANGED <<batch, input, at, size, bad, screen, full, faults, lost>>

Beyond == Result.offset > Cardinality(DOMAIN col.value)
(* Behind the last group there is no row to begin with: Next reads beyond    *)
(* the data, and the process ends with what its buffer had.                  *)
Panic ==
  /\ pc = "rows" /\ size = 0 /\ Beyond
  /\ pc' = "panic" /\ buf' = <<>>
  /\ UNCHANGED <<batch, input, at, col, order, size, bad, screen, full, faults, lost>>

(* One row: csv.Writer tells its error at once, Fprintf is not asked.        *)
Write ==
  /\ pc = "rows" /\ size < Len(order)
  /\ IF batch /\ bad THEN lost' = TRUE /\ Done(FALSE) /\ UNCHANGED screen
     ELSE /\ size' = size + 1
          /\ buf' = Append(buf, Line(size + 1, Value(col.value[order[size + 1]])))
          /\ UNCHANGED <<pc, batch, input, at, col, order, bad, screen, full, faults, lost>>

(* bufio: a buffer that is full is sent; after an error nothing is.          *)
Spill ==
  /\ pc = "rows" /\ buf # <<>> /\ ~bad
  /\ IF full THEN bad' = TRUE /\ UNCHANGED <<screen, buf>>
     ELSE \E n \in DOMAIN buf :
            /\ screen' = screen \o SubSeq(buf, 1, n)
            /\ buf' = SubSeq(buf, n + 1, Len(buf))
            /\ UNCHANGED bad
  /\ UNCHANGED <<pc, batch, input, at, col, order, size, full, faults, lost>>

(* Flush: the end of the table, then the statistics, each from its buffer.   *)
(* Only the CSV writer has an error to tell.                                 *)
End == IF Style = "ascii" /\ size > 0 THEN <<Sep>> ELSE <<>>
Statistics == IF batch THEN <<>> ELSE <<Stats(size)>>
(* Mutants of Sent: the statistics first; those of one row more.             *)
Sent_statsFirst(failed) == Statistics \o (IF failed THEN <<>> ELSE buf \o End)
Sent(failed) == (IF failed THEN <<>> ELSE buf \o End) \o Statistics
(* Mutant of Error: none of them is told.                                    *)
Error_none(failed) == FALSE
Error(failed) == batch /\ failed
Flush ==
  /\ pc = "rows" /\ size = Len(order) /\ ~Beyond
  /\ IF full THEN /\ lost' = (lost \/ bad \/ buf \o End \o Statistics # <<>>) /\ UNCHANGED screen
                  /\ Done(~Error(bad \/ buf # <<>>))
     ELSE /\ screen' = screen \o Sent(bad) /\ lost' = (lost \/ bad)
          /\ Done(~Error(bad))

(* stdout fails, or works again.                                             *)
Fill ==
  /\ pc \in {"seek", "rows"} /\ (full \/ faults < MaxFaults)
  /\ full' = ~full /\ faults' = IF full THEN faults ELSE faults + 1
  /\ UNCHANGED <<pc, batch, input, at, col, order, size, buf, bad, screen, lost>>

Next ==
  \/ pc = "seek" /\ (Refuse \/ Exec \/ NoRow)
  \/ WriteHead \/ Panic \/ Write \/ Spill \/ Flush \/ Fill

Spec == Init /\ [][Next]_vars
----------------------------------------------------------------------------
RowsOf(k, s) == {i \in DOMAIN s : s[i].kind = "row" /\ s[i].at = k}
Given(k) == \* the rows a result has to give
  LET r == input[k]
  IN  IF r.kind \in {"error", "exec"} THEN 0
      ELSE LET a == AggregateData(r.kind, r.method, r.records)
           IN  IF a.ok THEN Max({0, Cardinality(DOMAIN a.value) - r.offset}) ELSE 0

(* The statistics of a statement come behind all of its rows, and count      *)
(* them: the rows and the statistics have different buffers.  When stdout    *)
(* failed they may count rows that are not there.                            *)
StatisticsCountTheRows ==
  \A i \in DOMAIN screen :
    screen[i].kind = "stats" /\ ~lost =>
      /\ screen[i].rows = Given(screen[i].at)
      /\ Cardinality(RowsOf(screen[i].at, SubSeq(screen, 1, i))) = screen[i].rows

(* A CSV that was not written as a whole is told: after an error of stdout   *)
(* the input goes on only when every row of the statement is there.  A table *)
(* has no error to tell (write.go:163).                                      *)
CsvIsWhole ==
  batch => \A k \in 1..(at - 1) : Cardinality(RowsOf(k, screen)) = Given(k)

(* A column is as wide as its head says: no row sticks out of the table.     *)
(* But decimals are added behind the measuring, "auto" gets a colon, and the *)
(* width of an aggregate is that of its last record alone, in 13 digits.     *)
CellsOf(r, g) == {r.records[i].text : i \in {j \in DOMAIN r.records : r.records[j].group = g}}
Widens(kind, t) == (kind = "DOUBLE" /\ t.word = "none" /\ t.dec < 2) \/ t.pre = "auto"
Fits(r, c, g) ==
  LET v == c.value[g]
      last == Last(r.records)
  IN  \/ TextLen(Value(v)) <= HeadLen \/ TextLen(Value(v)) <= c.cs
      \/ r.method = "none" /\ \E t \in CellsOf(r, g) : Widens(r.kind, t)
      \/ r.method # "none" /\ (g # last.group \/ ~Cast(r.kind, last.text).valid)
      \/ r.method # "none" /\ Digits[Rounded(v.num) \div 1000] > Least(13, Digits[v.num \div 1000])
TableFits == pc = "rows" => \A g \in ToSet(order) : Fits(Result, col, g)

(* What a plain column or an extreme shows was sent in a record of its       *)
(* group, up to the decimals, and for an extreme up to the signs around the  *)
(* number; but MAX and MIN of dates end with a number when one is not set,   *)
(* and show the day before where the day begins later than in UTC.           *)
Cents(kind, n) == IF kind = "DOUBLE" THEN Rounded(n) ELSE n
Bare(kind, t) ==
  [word |-> t.word, pre |-> IF t.pre = "auto" THEN "auto:_" ELSE t.pre, num |-> Cents(kind, t.num), pct |-> t.pct]
Signless(kind, t) ==
  [word |-> t.word, pre |-> "none", num |-> Cents(kind, IF t.word = "none" THEN Cast(kind, t).num ELSE t.num), pct |-> FALSE]
DayBefore(t) == t.word = "2006-01-02" /\ t.num \in West
WasSent(r, c, g) ==
  LET shown == Bare(r.kind, Value(c.value[g]))
  IN  IF r.method = "none" THEN \E t \in CellsOf(r, g) : shown = Bare(r.kind, t)
      ELSE \/ \E t \in CellsOf(r, g) : ~DayBefore(t) /\ shown = Signless(r.kind, t)
           \/ \E t \in CellsOf(r, g) : DayBefore(t) /\ shown = Bare(r.kind, Date(t.num - 1))
           \/ shown = Bare(r.kind, Dash) /\ \A t \in CellsOf(r, g) : ~Cast(r.kind, t).valid
           \/ r.kind = "DATE" /\ Dash \in CellsOf(r, g)
ShownWasSent ==
  pc = "rows" /\ Result.method \in {"none", "MAX", "MIN"} => \A g \in ToSet(order) : WasSent(Result, col, g)
=============================================================================
