------------------------------ MODULE Terminal ------------------------------
(* The prompt of the tool: the keys of a line, Tab, the lines of an input,   *)
(* its commands, and the DESC, SHOW and CREATE VIEW statements it runs on a  *)
(* connection of its own.  The completer keeps the database it read at the   *)
(* start of the tool.                                                        *)
EXTENDS Completer

CONSTANTS
  Scripts,    \* bound: the lines a user may be typing
  Breaks,     \* bound: the lines Enter may leave unfinished
  MaxInputs,  \* bound: inputs of a run of the tool
  MaxStarts   \* bound: runs of the tool
ASSUME ScriptAssumption == Scripts \subseteq Seq(STRING)

VARIABLES
  pc,       \* "off", "read", or how the tool ended
  line,     \* the keys of the line being typed, the cursor behind them
  lines,    \* the lines of this input before it
  comp,     \* the completer's database
  conn,     \* the database of the idle connection
  file,     \* the views in views.yml
  inputs,   \* inputs read by this run
  starts    \* runs so far

vars == <<pc, line, lines, comp, conn, file, inputs, starts>>

NoDb == [none |-> TRUE]   \* no connection is open, or no completion (-A)
Database == IF conn = NoDb THEN Load(file) ELSE conn

Init ==
  /\ pc = "off" /\ line = <<>> /\ lines = <<>>
  /\ comp = NoDb /\ conn = NoDb
  /\ file = <<>>
  /\ inputs = 0 /\ starts = 0

(* Scan, up to the first prompt: the database of the completer is read, and  *)
(* sql.Open opens no connection yet.  A file that cannot be loaded breaks    *)
(* the tool.                                                                 *)
Scan(rehash) ==
  /\ pc # "read" /\ starts < MaxStarts
  /\ starts' = starts + 1 /\ inputs' = 0
  /\ IF rehash /\ ~Loadable(file) THEN pc' = "broken" /\ comp' = NoDb
     ELSE pc' = "read" /\ comp' = IF rehash THEN Load(file) ELSE NoDb
  /\ conn' = NoDb /\ line' = <<>> /\ lines' = <<>>
  /\ UNCHANGED file

Type(k) ==
  /\ pc = "read" /\ inputs < MaxInputs
  /\ line' = Append(line, k)
  /\ UNCHANGED <<pc, lines, comp, conn, file, inputs, starts>>

(* A name of the offer, cut at the word, is put behind the cursor; when the  *)
(* cursor is lost nothing is offered, or a slice outside the line panics.    *)
Tab ==
  /\ pc = "read" /\ comp # NoDb
  /\ LET o == Do(comp, line)
     IN  \/ /\ \E n \in o.names : line' = line \o Behind(n, Bytes(o.word))
            /\ UNCHANGED pc
         \/ o.lost /\ pc' = "panic" /\ UNCHANGED line
  /\ UNCHANGED <<lines, comp, conn, file, inputs, starts>>

----------------------------------------------------------------------------
(* The end of a line, and of an input.                                       *)
Trimmed(s) ==
  LET at == {i \in DOMAIN s : s[i] # Blank}
  IN  IF at = {} THEN <<>>
      ELSE SubSeq(s, CHOOSE i \in at : \A j \in at : i <= j, CHOOSE i \in at : \A j \in at : j <= i)

Commands == <<[text |-> "clear", short |-> "\\c"], [text |-> "help", short |-> "\\h"],
              [text |-> "exit", short |-> "\\q"], [text |-> "quit", short |-> "\\q"]>>
StmtEnds == {";", "\\g", "\\G"}
WithStmtEnd(q) == Last(q) \in StmtEnds
WithCommandEnd(q) == \E i \in DOMAIN Commands : Last(q) = Commands[i].short
WithLineEnd(q) == WithStmtEnd(q) \/ WithCommandEnd(q)

(* The first command whose word begins the input, when a statement ends it,  *)
(* or else, when its word does not, whose short form ends it; 0 for none.    *)
UseCommand(q) ==
  SelectInSeq(Commands, LAMBDA c : IF q[1] = c.text THEN WithStmtEnd(q) ELSE Last(q) = c.short)

(* The parser (external), for the statements the terminal answers itself.    *)
IsName(w) == w # <<>> /\ w \in Names
Marks == StmtEnds \cup {"(", ")", ","}   \* a word each, wherever they stand
Spaced(q) == FlattenSeq([i \in DOMAIN q |-> IF q[i] \in Marks THEN <<Blank, q[i], Blank>> ELSE <<q[i]>>])
Words(s) == LET t == Tokenize(s) IN IF t # <<>> /\ Last(t) = <<>> THEN Front(t) ELSE t
Lexed(q) == Words(Spaced(q))
Listed(ws) == [i \in 1..((Len(ws) + 1) \div 2) |-> ws[2 * i - 1]]
IsList(ws) == Len(ws) % 2 = 1 /\ \A i \in DOMAIN ws : i % 2 = 0 => Is(ws[i], ",")
NoStmt == [verb |-> "none"]

ParsedDesc(w) ==
  LET r == IF Len(w) > 1 /\ Is(w[2], "FULL") THEN Tail(Tail(w)) ELSE Tail(w)
  IN  IF Len(r) \in 1..2 /\ \A i \in DOMAIN r : IsName(r[i])
      THEN [verb |-> "desc", table |-> r[1], cols |-> Tail(r)] ELSE NoStmt
Pattern(p) ==
  LET left == p[1] = "%"
      right == Last(p) = "%"
      arg == SelectSeq(p, LAMBDA k : k # "%")
  IN  IF arg = <<>> THEN [verb |-> "show", clause |-> "none", arg |-> arg]
      ELSE [verb |-> "show", arg |-> arg,
            clause |-> IF left /\ right THEN "contains" ELSE IF left THEN "suffix"
                       ELSE IF right THEN "prefix" ELSE "equal"]
ParsedShow(w) ==
  LET r == IF Len(w) > 1 /\ Is(w[2], "FULL") THEN Tail(Tail(w)) ELSE Tail(w)
  IN  IF Len(r) = 1 /\ Is(r[1], "TABLES") THEN [verb |-> "show", clause |-> "none", arg |-> <<>>]
      ELSE IF Len(r) = 3 /\ Is(r[1], "TABLES") /\ Is(r[2], "WITH") /\ IsName(r[3])
        THEN [verb |-> "show", clause |-> "with", arg |-> r[3]]
      ELSE IF Len(r) = 3 /\ Is(r[1], "TABLES") /\ Is(r[2], "LIKE") /\ IsName(r[3]) THEN Pattern(r[3])
      ELSE NoStmt
ParsedCreate(w) ==
  LET At(k) == SelectInSeq(w, LAMBDA x : Is(x, k))
      names  == SubSeq(w, At("(") + 1, At(")") - 1)
      unique == At("DISTINCT") = At("SELECT") + 1
      clause == SubSeq(w, At("SELECT") + (IF unique THEN 2 ELSE 1), At("FROM") - 1)
      labels == Listed(names)
      fields == Listed(clause)
  IN  IF 0 \in {At("VIEW"), At("AS"), At("SELECT"), At("FROM")} \/ At("FROM") # Len(w) - 1 THEN NoStmt
      ELSE IF (names # <<>> /\ ~IsList(names)) \/ ~IsList(clause) THEN NoStmt
      ELSE IF \E n \in {w[At("VIEW") + 1], w[Len(w)]} \cup ToSet(labels) \cup ToSet(fields) : ~IsName(n)
        THEN NoStmt
      ELSE IF labels # <<>> /\ Len(labels) # Len(fields) THEN NoStmt
      ELSE [verb |-> "create", replace |-> At("REPLACE") # 0, name |-> w[At("VIEW") + 1],
            labels |-> labels, fields |-> fields, unique |-> unique, src |-> w[Len(w)]]
Parsed(q) ==
  LET w == Lexed(Front(q))
  IN  CASE w = <<>>                        -> NoStmt
        [] w # <<>> /\ Is(w[1], "DESC")   -> ParsedDesc(w)
        [] w # <<>> /\ Is(w[1], "SHOW")   -> ParsedShow(w)
        [] w # <<>> /\ Is(w[1], "CREATE") -> ParsedCreate(w)
        [] OTHER -> NoStmt

----------------------------------------------------------------------------
(* Seek: a statement is run on the idle connection, or on a new one, which   *)
(* reads the views again, and breaks the tool where it cannot.  An answer    *)
(* without columns is not closed, and keeps its connection.                  *)
CanConnect == conn # NoDb \/ Loadable(file)
Answer(d, s) ==
  CASE s.verb = "desc" -> Describe(d, s)
    [] s.verb = "show" -> Show(d, s)
    [] s.verb = "create" -> IF Creates(d, s) THEN Rows(<<>>) ELSE Refused
Run(s) ==
  LET d == Database
  IN  IF s.verb = "create"
        THEN IF Creates(d, s)
               THEN LET vs == AddView(d, NewView(d, s))
                    IN  file' = vs /\ conn' = [vw |-> vs, indexed |-> d.indexed]
               ELSE conn' = d /\ UNCHANGED file
        ELSE /\ conn' = IF Answer(d, s) = Rows(<<>>) THEN NoDb ELSE d
             /\ UNCHANGED file

Seek(q) ==
  LET s == Parsed(q)
  IN  IF s.verb = "none" THEN UNCHANGED <<pc, conn, file>>
      ELSE IF CanConnect THEN Run(s) /\ UNCHANGED pc
      ELSE pc' = "broken" /\ UNCHANGED <<conn, file>>

(* Enter, on a line that is not blank: it goes on, or it ends the input.     *)
EnterBlank ==
  /\ pc = "read" /\ line # <<>> /\ Trimmed(line) = <<>>
  /\ line' = <<>>
  /\ UNCHANGED <<pc, lines, comp, conn, file, inputs, starts>>

EnterMore ==
  /\ pc = "read" /\ Trimmed(line) # <<>> /\ ~WithLineEnd(Trimmed(line))
  /\ lines = <<>> /\ Trimmed(line) \in Breaks
  /\ lines' = Append(lines, Trimmed(line)) /\ line' = <<>>
  /\ UNCHANGED <<pc, comp, conn, file, inputs, starts>>

EnterEnd ==
  /\ pc = "read" /\ Trimmed(line) # <<>> /\ WithLineEnd(Trimmed(line))
  /\ LET q == Joined(Append(lines, Trimmed(line)))
         c == UseCommand(q)
     IN  IF c # 0
           THEN /\ pc' = IF Commands[c].short = "\\q" THEN "bye" ELSE pc
                /\ UNCHANGED <<conn, file>>
           ELSE Seek(q)
  /\ inputs' = inputs + 1 /\ line' = <<>> /\ lines' = <<>>
  /\ UNCHANGED <<comp, starts>>

(* Ctrl-C ends the tool, whatever has been typed; so does the end of input.  *)
Interrupt ==
  /\ pc = "read"
  /\ pc' = "aborted"
  /\ UNCHANGED <<line, lines, comp, conn, file, inputs, starts>>

(* The user types towards one of the scripts.                                *)
Typing == \E s \in Scripts : Len(line) < Len(s) /\ IsPrefix(line, s) /\ Type(s[Len(line) + 1])

Next ==
  \/ \E rehash \in BOOLEAN : Scan(rehash)
  \/ Typing \/ Tab \/ EnterBlank \/ EnterMore \/ EnterEnd \/ Interrupt

Spec == Init /\ [][Next]_vars
----------------------------------------------------------------------------
(* A prompt is being typed, on a database that the completer knows.          *)
Offered == IF pc = "read" /\ comp # NoDb THEN Do(comp, line) ELSE NoOffer
WordAtCursor == \* independently of the completer's own splitting
  LET stops == {i \in DOMAIN line : line[i] \in {Blank, "("}}
  IN  SubSeq(line, IF stops = {} THEN 1 ELSE Max(stops) + 1, Len(line))
Verb(s) == IF Words(s) = <<>> THEN <<>> ELSE Words(s)[1]

SelectWord(t) == SelectInSeq(t, LAMBDA w : Is(w, "SELECT"))
ShowWords == \* what may stand between SHOW and the column of WITH
  {f \o t \o w : f \in {<<>>, << <<"FULL">> >>}, t \in {<<>>, << <<"TABLES">> >>}, w \in {<<>>, << <<"WITH">> >>}}

(* A name of the offer becomes the word under the cursor, of which all that  *)
(* is typed is kept.  But the completer looks at another word when the       *)
(* cursor touches a keyword, in a SHOW behind any other word than those      *)
(* before its column (complete.go:311), and in a CREATE VIEW whose words     *)
(* from SELECT on are not one space apart (complete.go:67) or that has a     *)
(* wide character before them (complete.go:68); and a name is cut at another *)
(* place when the word has one (complete.go:285).                            *)
HasWide(s) == \E i \in DOMAIN s : s[i] \in DOMAIN Wide
BeforeSelect == SubSeq(line, 1, SelectInSeq(line, LAMBDA k : k = "SELECT") - 1)
OfferFitsTheWord ==
  LET t == Tokenize(line)
  IN  \/ \A n \in Offered.names : WordAtCursor \o Behind(n, Bytes(Offered.word)) = n
      \/ HasWide(WordAtCursor)
      \/ Len(WordAtCursor) = 1 /\ Keyword(WordAtCursor, <<"BY">>) # "none"
      \/ Is(Verb(line), "SHOW") /\ SubSeq(t, 2, Len(t) - 1) \notin ShowWords
      \/ /\ Is(Verb(line), "CREATE")
         /\ \/ HasWide(BeforeSelect)
            \/ SelectWord(t) # 0 /\ ~IsSuffix(Joined(SubSeq(t, SelectWord(t), Len(t))), line)

(* What Tab completes is there: a DESC or SHOW TABLES WITH of the name it    *)
(* offers is answered by the connection, though the two read views.yml at    *)
(* different times.  A column of a view of a view is the exception, once a   *)
(* view gives a column the name of another: each reading of the file may     *)
(* find it in its source by another name (db.go:361).                        *)
Relabels(v) ==
  \E i, j \in DOMAIN v.cols : v.cols[i].label = v.cols[j].head /\ v.cols[i].head # v.cols[j].head
OfViewOfView(d, s) ==
  s.verb = "desc" /\ s.cols # <<>>
  /\ LET t == TableOf(d, s.table) IN IsView(t) /\ IsView(TableOf(d, t.src))
OfferIsAnswered ==
  \A n \in Offered.names :
    LET s == Parsed(line \o Behind(n, Bytes(Offered.word)) \o <<";">>)
    IN  s.verb \in {"desc", "show"} /\ lines = <<>> /\ CanConnect =>
          \/ Answer(Database, s) \notin {Refused, Rows(<<>>)}
          \/ OfViewOfView(comp, s) /\ \E i \in DOMAIN comp.vw : Relabels(comp.vw[i])

(* SHOW TABLES WITH a column lists only tables that DESC finds it in: the    *)
(* index is never ahead of the views, nor names a column they lost.          *)
WithAgreesWithDesc ==
  CanConnect =>
    \A n \in ColumnNames(Database) :
      \A t \in ToSet(TablesWithColumn(Database, n)) :
        Describe(Database, [table |-> t.name, cols |-> <<n>>]) # Refused

Labels(v) == [i \in DOMAIN v.cols |-> v.cols[i].label]
(* A restart brings back the views of the connection, in order and with      *)
(* their labels; a view of a report with the very same columns, of which it  *)
(* forgets only that they were DISTINCT (db.go:358), a view of a view with   *)
(* the columns its source has them from (db.go:382).  It brings back nothing *)
(* and breaks only for a view whose source is a view of a view and gave a    *)
(* column its own label: the view has the column by the name that the source *)
(* had it by, until the source was loaded again.                             *)
TakesAnOldName(v, w) ==
  v.src = w.name /\ (\A i \in DOMAIN Reports : w.src # Reports[i].name)
  /\ \E i \in DOMAIN v.cols : \A j \in DOMAIN w.cols : v.cols[i].head # w.cols[j].label
Undistinct(v) == [v EXCEPT !.cols = [i \in DOMAIN v.cols |-> [v.cols[i] EXCEPT !.unique = FALSE]]]
RestartKeepsTheViews ==
  LET again == Load(file).vw
  IN  /\ Loadable(file) \/ \E i, j \in DOMAIN file : TakesAnOldName(file[i], file[j])
      /\ conn # NoDb /\ Loadable(file) =>
           /\ Len(again) = Len(conn.vw)
           /\ \A i \in DOMAIN again :
                LET v == again[i]
                    w == conn.vw[i]
                IN  /\ v.name = w.name /\ v.src = w.src /\ Labels(v) = Labels(w)
                    /\ IsView(TableOf(conn, w.src)) \/ v = Undistinct(w)

(* Tab breaks the tool only in a CREATE VIEW: before SELECT, behind a word   *)
(* that is not the first of its spelling or behind a space; after it when    *)
(* there are two spaces somewhere, or when its spelling is found first in    *)
(* another word, as that of a view may be (complete.go:67); or when a wide   *)
(* character stands before that place (complete.go:68).  And where a column  *)
(* with a wide character is to be grouped or ordered by (complete.go:369).   *)
TabPanicIsExplained ==
  LET at == SelectInSeq(line, LAMBDA k : k = "SELECT")
      typed == SubSeq(line, at, Len(line))
      place == Place(line, WordAtCursor)
  IN  pc = "panic" =>
        \/ Contains(line, "BY") /\ HasWide(line) /\ Verb(line) \in { <<"CREATE">>, <<"SELECT">> }
        \/ /\ Is(Verb(line), "CREATE")
           /\ IF SelectWord(Tokenize(line)) = 0
                THEN \/ Last(line) \in {Blank, "("} \/ place + Len(WordAtCursor) < Len(line)
                     \/ HasWide(SubSeq(line, 1, place))
                ELSE \/ \E i \in 2..Len(typed) : typed[i] = Blank /\ typed[i - 1] = Blank
                     \/ line[at - 1] \notin {Blank, "("}
                     \/ at < Len(line) /\ line[at + 1] # Blank
                     \/ HasWide(BeforeSelect)

(* The names of the prompt are those of Dictionary, step by step: Tab offers *)
(* the tables of the start of the tool, SHOW TABLES WITH looks at those of   *)
(* the start of the connection, and a created view is in neither until then. *)
NamesOf(ts) == {ts[i].name : i \in DOMAIN ts}
Known == NamesOf(Reports \o file)
Prompt == INSTANCE Dictionary WITH
  Given   <- NamesOf(Reports),
  known   <- Known,
  offered <- IF comp = NoDb THEN {} ELSE ListTables(comp, <<>>),
  indexed <- IF conn = NoDb THEN Known ELSE NamesOf(Indexed(conn))
ImplementsDictionary == Prompt!Spec
=============================================================================
