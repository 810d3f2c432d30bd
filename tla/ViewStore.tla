----------------------------- MODULE ViewStore -----------------------------
(* The views of the database (awql-db): a list in the memory of every        *)
(* connection, and the file views.yml they all rewrite as a whole.  Each     *)
(* process has one connection; it loads the file when it opens and writes it *)
(* when a view is created.  A connection that replaces one left in use (see  *)
(* Session) is a restart here.                                               *)
(*                                                                           *)
(* A view is its name, the table it reads, its columns by the one name they  *)
(* have (views that rename columns are those of Terminal), those among them  *)
(* that have a function or DISTINCT, in the view's own list (fns, Table.Cols)*)
(* and in its SELECT (viewFns, View.Cols), and what the YAML form does to    *)
(* its clauses: "plain" ones are read back as they were; GROUP BY and the    *)
(* operator >= make the file unreadable ("refused"); the offset of LIMIT and *)
(* the operators > and != are read back as none ("lost").                    *)
EXTENDS Integers, Sequences, FiniteSets

CONSTANTS
  Procs,        \* awql processes
  Names,        \* view names
  Tables,       \* report tables
  Cols,         \* columns
  Versions,     \* API versions
  VersionOf,    \* Procs -> the version given with -V
  ColsOf,       \* Versions -> Tables -> columns; {} for a table it lacks
  Queries,      \* bound: the sources, columns and clauses of the views created
  WriteFails,   \* may a write of the file fail?
  ReadFails,    \* may a read of it fail?
  Crashes,      \* may a process end while it writes?
  MaxCreates,   \* bound: CREATE VIEW statements, all processes together
  NoFile, NoView

Sources == Names \cup Tables
Clauses == {"plain", "refused", "lost"}
AllViews == [name : Names, src : Sources, cols : SUBSET Cols, fns : SUBSET Cols,
             viewFns : SUBSET Cols, clause : Clauses]

(* The view a CREATE VIEW statement defines: its columns are a copy of those *)
(* of the SELECT.                                                            *)
ViewOf(n, q) == [name |-> n, src |-> q.src, cols |-> q.cols, fns |-> q.fns,
                 viewFns |-> q.fns, clause |-> q.clause]

ASSUME ProcsAssumption == VersionOf \in [Procs -> Versions]
ASSUME ColsAssumption == ColsOf \in [Versions -> [Tables -> SUBSET Cols]]
ASSUME QueryAssumption == \A n \in Names, q \in Queries : ViewOf(n, q) \in AllViews
ASSUME NameAssumption == Names \cap Tables = {}
Endings == {"whole", "cut", "mixed"}
WrittenFiles == [views : Seq(AllViews), end : Endings]
ASSUME AbsentAssumption == NoFile \notin WrittenFiles /\ NoView \notin AllViews
ASSUME BoundAssumption == /\ MaxCreates \in Nat
                          /\ {WriteFails, ReadFails, Crashes} \subseteq BOOLEAN

VARIABLES
  file,      \* views.yml: NoFile, or the views in it and how it ends: whole,
             \* cut, or mixed with what was there before
  pc,        \* per process: "off", "ready", "open", "write", "panic"
  vw,        \* per process: Database.vw
  next,      \* per process: the list AddView writes
  stmt,      \* per process: the view being created
  result,    \* per process: how the last statement or opening ended
  acked,     \* Names -> the last definition a process reported as created
  creates,   \* statements so far
  unsaved,   \* per process: views replaced in memory by a failed statement and
             \* not written since (history)
  faults     \* what has befallen the file (history): "failed" a write, "unread"
             \* it was, "cut", "overlap" of two writes, "shared" by processes

vars == <<file, pc, vw, next, stmt, result, acked, creates, unsaved, faults>>

Faults == {"failed", "unread", "cut", "overlap", "shared"}
TypeOK ==
  /\ file \in WrittenFiles \cup {NoFile}
  /\ pc \in [Procs -> {"off", "ready", "open", "write", "panic"}]
  /\ vw \in [Procs -> Seq(AllViews)]
  /\ next \in [Procs -> Seq(AllViews)]
  /\ stmt \in [Procs -> AllViews \cup {NoView}]
  /\ result \in [Procs -> {"none", "ok", "refused", "failed", "unreadable"}]
  /\ acked \in [Names -> AllViews \cup {NoView}]
  /\ creates \in 0..MaxCreates
  /\ unsaved \in [Procs -> SUBSET Names]
  /\ faults \subseteq Faults
  /\ \A p \in Procs : pc[p] \in {"open", "write"} => stmt[p] \in AllViews /\ next[p] # <<>>
  /\ \A p \in Procs : pc[p] = "write" => file # NoFile

----------------------------------------------------------------------------
NamesOf(s) == {s[i].name : i \in DOMAIN s}
HasTable(v, t) == t \in Tables /\ ColsOf[v][t] # {}

(* Table and Field, with i - 1 views in the list: a report of this version,  *)
(* or the first view of that name.                                           *)
Known(v, s, i, n) == HasTable(v, n) \/ \E k \in 1..(i - 1) : s[k].name = n
HasField(v, s, i, n, c) ==
  IF HasTable(v, n) THEN c \in ColsOf[v][n]
  ELSE \E k \in 1..(i - 1) : /\ s[k].name = n /\ c \in s[k].cols
                             /\ \A j \in 1..(k - 1) : s[j].name # n
Founded(v, s, i, d) ==
  Known(v, s, i, d.src) /\ \A c \in d.cols : HasField(v, s, i, d.src, c)

(* The list loadViews builds: every view must find its source and its        *)
(* columns in the reports and in the views before it.  One that does not     *)
(* leaves a nil entry in the list, and the next walk over the list panics.   *)
Loadable(v, s) == \A i \in DOMAIN s : Founded(v, s, i, s[i])

(* Table.String, and yaml.Unmarshal of what it wrote.                        *)
Readable(s) == \A i \in DOMAIN s : s[i].clause # "refused"

(* Mutant of Reloaded: loadViews forgets the columns of the SELECT too.      *)
Reloaded_bare(d) == [d EXCEPT !.fns = {}, !.viewFns = {}, !.clause = "plain"]

(* loadViews replaces each column of a view by the column of its source, of  *)
(* which it changes the label only.  No column of a report has a function,   *)
(* and the views before it were rebuilt: none is left.                       *)
Reloaded(d) == [d EXCEPT !.fns = {}, !.clause = "plain"]
Reread(s) == [i \in DOMAIN s |-> Reloaded(s[i])]

(* What a file that ends early, or in the remains of another, may be read    *)
(* as: the clauses come last.                                                *)
Prefixes(s) == {SubSeq(s, 1, n) : n \in 0..Len(s)}
Readings(f) ==
  IF f.end = "whole" THEN {f.views}
  ELSE UNION {{s, [i \in DOMAIN s |-> IF i < Len(s) THEN s[i]
                                      ELSE [s[i] EXCEPT !.clause = "plain"]]} :
                s \in Prefixes(f.views)}

----------------------------------------------------------------------------
Init ==
  /\ file = NoFile
  /\ pc = [p \in Procs |-> "off"]
  /\ vw = [p \in Procs |-> <<>>]
  /\ next = [p \in Procs |-> <<>>]
  /\ stmt = [p \in Procs |-> NoView]
  /\ result = [p \in Procs |-> "none"]
  /\ acked = [n \in Names |-> NoView]
  /\ creates = 0
  /\ unsaved = [p \in Procs |-> {}]
  /\ faults = {}

(* Another process has loaded the views and may still write them.             *)
Shared(p) == \E q \in Procs \ {p} : pc[q] \in {"ready", "open", "write"}

Ends(p, l, r) == pc' = [pc EXCEPT ![p] = l] /\ result' = [result EXCEPT ![p] = r]

(* Open and Load.  An error of ReadFile, of whatever kind, gives no views and *)
(* no error.  A file cut short may also be no YAML, or end before the source  *)
(* of its last view, which is an error; the remains of another text behind it *)
(* may be views whose columns are not found.                                  *)
Befalls(T) == faults' = faults \cup T
LoadViews(p) ==
  /\ pc[p] = "off"
  /\ LET shared == IF Shared(p) THEN {"shared"} ELSE {} IN
     \/ /\ file = NoFile
        /\ vw' = [vw EXCEPT ![p] = <<>>]
        /\ Ends(p, "ready", "none") /\ Befalls(shared)
     \/ /\ file # NoFile /\ ReadFails
        /\ vw' = [vw EXCEPT ![p] = <<>>]
        /\ Ends(p, "ready", "none") /\ Befalls(shared \cup {"unread"})
     \/ /\ file # NoFile
        /\ \E s \in Readings(file) :
             /\ Readable(s) /\ Loadable(VersionOf[p], s)
             /\ vw' = [vw EXCEPT ![p] = Reread(s)]
        /\ Ends(p, "ready", "none") /\ Befalls(shared)
     \/ /\ file # NoFile
        /\ file.end # "whole" \/ ~Readable(file.views)
        /\ Ends(p, "off", "unreadable") /\ Befalls(shared)
        /\ UNCHANGED vw
     \/ /\ file # NoFile
        /\ \/ file.end = "mixed"
           \/ \E s \in Readings(file) : Readable(s) /\ ~Loadable(VersionOf[p], s)
        /\ Ends(p, "panic", "none") /\ Befalls(shared)
        /\ UNCHANGED vw
  /\ unsaved' = [unsaved EXCEPT ![p] = {}]
  /\ UNCHANGED <<file, next, stmt, acked, creates>>

(* Mutant of Refused: the source of the view is not looked up. *)
Refused_noSource(p, d, replace) ==
  \/ HasTable(VersionOf[p], d.name)
  \/ d.name \in NamesOf(vw[p]) /\ ~replace

(* newView's checks. *)
Refused(p, d, replace) ==
  \/ HasTable(VersionOf[p], d.name)
  \/ d.name \in NamesOf(vw[p]) /\ ~replace
  \/ ~Founded(VersionOf[p], vw[p], Len(vw[p]) + 1, d)

(* Mutant of CreateView: a view of the same name is added again. *)
CreateView_again(p, d, replace) ==
  /\ pc[p] = "ready" /\ creates < MaxCreates
  /\ ~Refused(p, d, replace)
  /\ creates' = creates + 1
  /\ next' = [next EXCEPT ![p] = Append(vw[p], d)]
  /\ stmt' = [stmt EXCEPT ![p] = d]
  /\ Ends(p, "open", "none")
  /\ UNCHANGED <<file, vw, acked, unsaved, faults>>

(* The first view of that name replaced. *)
Replaced(s, d) ==
  [i \in DOMAIN s |->
     IF s[i].name = d.name /\ \A k \in 1..(i - 1) : s[k].name # d.name
       THEN d ELSE s[i]]

(* AddView up to the write: the list to write is a copy of d.vw, taken       *)
(* before a view of the same name is replaced in d.vw itself.                *)
CreateView(p, d, replace) ==
  /\ pc[p] = "ready" /\ creates < MaxCreates
  /\ creates' = creates + 1
  /\ IF Refused(p, d, replace)
       THEN /\ result' = [result EXCEPT ![p] = "refused"]
            /\ UNCHANGED <<pc, vw, next, stmt>>
       ELSE /\ stmt' = [stmt EXCEPT ![p] = d]
            /\ IF d.name \in NamesOf(vw[p])
                 THEN /\ next' = [next EXCEPT ![p] = vw[p]]
                      /\ vw' = [vw EXCEPT ![p] = Replaced(@, d)]
                 ELSE /\ next' = [next EXCEPT ![p] = Append(vw[p], d)]
                      /\ UNCHANGED vw
            /\ Ends(p, "open", "none")
  /\ UNCHANGED <<file, acked, unsaved, faults>>

(* A statement that fails leaves in memory the view it has replaced there.   *)
Fails(p) ==
  /\ Ends(p, "ready", "failed")
  /\ unsaved' = [unsaved EXCEPT ![p] = @ \cup ({stmt[p].name} \cap NamesOf(vw[p]))]
  /\ UNCHANGED vw

(* ioutil.WriteFile: the file is truncated when it is opened, then written. *)
OpenFile(p) ==
  /\ pc[p] = "open"
  /\ \/ /\ file' = [views |-> <<>>, end |-> "whole"]
        /\ pc' = [pc EXCEPT ![p] = "write"]
        /\ UNCHANGED <<vw, result, unsaved, faults>>
     \/ /\ WriteFails
        /\ Fails(p)
        /\ Befalls({"failed"})
        /\ UNCHANGED file
  /\ UNCHANGED <<next, stmt, acked, creates>>

(* The list is written from the start of the file: what another process has  *)
(* written there since the file was opened remains behind a shorter text.    *)
Written(p) ==
  \/ file' = [views |-> next[p], end |-> "whole"] /\ UNCHANGED faults
  \/ \E k \in DOMAIN file.views :
       /\ file' = [views |-> next[p] \o SubSeq(file.views, k + 1, Len(file.views)),
                   end |-> "mixed"]
       /\ Befalls({"overlap"})

(* Mutant of WriteViews: the list in memory is left as it was. *)
WriteViews_noMemory(p) ==
  /\ pc[p] = "write"
  /\ Written(p)
  /\ acked' = [acked EXCEPT ![stmt[p].name] = stmt[p]]
  /\ unsaved' = [unsaved EXCEPT ![p] = {}]
  /\ Ends(p, "ready", "ok")
  /\ UNCHANGED <<vw, next, stmt, creates>>

(* The end of AddView. *)
WriteViews(p) ==
  /\ pc[p] = "write"
  /\ Written(p)
  /\ vw' = [vw EXCEPT ![p] = next[p]]
  /\ acked' = [acked EXCEPT ![stmt[p].name] = stmt[p]]
  /\ unsaved' = [unsaved EXCEPT ![p] = {}]
  /\ Ends(p, "ready", "ok")
  /\ UNCHANGED <<next, stmt, creates>>

(* The device is full, or the process is killed in the write: a part of the  *)
(* list, before the remains of what another process has written there.       *)
PartWritten(p, T) ==
  \/ /\ file.views = <<>>
     /\ file' = [views |-> next[p], end |-> "cut"]
     /\ Befalls(T \cup {"cut"})
  \/ \E n \in 0..Len(next[p]), k \in DOMAIN file.views :
       /\ file' = [views |-> SubSeq(next[p], 1, n) \o SubSeq(file.views, k + 1, Len(file.views)),
                   end |-> "mixed"]
       /\ Befalls(T \cup {"cut", "overlap"})

WriteCut(p) ==
  /\ pc[p] = "write"
  /\ \/ WriteFails /\ Fails(p) /\ PartWritten(p, {"failed"})
     \/ /\ Crashes /\ PartWritten(p, {})
        /\ Ends(p, "off", "none")
        /\ vw' = [vw EXCEPT ![p] = <<>>]
        /\ unsaved' = [unsaved EXCEPT ![p] = {}]
  /\ UNCHANGED <<next, stmt, acked, creates>>

(* The process ends between two statements, or is killed between two system  *)
(* calls, when the file may be left empty.                                   *)
Exit(p) ==
  /\ \/ pc[p] = "ready" /\ UNCHANGED faults
     \/ pc[p] = "open" /\ Crashes /\ UNCHANGED faults
     \/ pc[p] = "write" /\ Crashes /\ Befalls({"cut"})
  /\ Ends(p, "off", "none")
  /\ vw' = [vw EXCEPT ![p] = <<>>]
  /\ unsaved' = [unsaved EXCEPT ![p] = {}]
  /\ UNCHANGED <<file, next, stmt, acked, creates>>

Next ==
  \E p \in Procs :
    \/ LoadViews(p) \/ OpenFile(p) \/ WriteViews(p) \/ WriteCut(p) \/ Exit(p)
    \/ \E n \in Names, q \in Queries, r \in BOOLEAN :
         CreateView(p, ViewOf(n, q), r)

Spec == Init /\ [][Next]_vars

----------------------------------------------------------------------------
(* Promises.                                                                 *)

(* No end of a process, in a write or elsewhere, makes the next one panic on *)
(* a view whose source or columns it does not find -- as long as no view     *)
(* renames a column (Terminal has those), two writes have not overlapped, no *)
(* write has failed (the view replaced stays in memory, and another may be   *)
(* created on it), and its API version has what those of the others have.    *)
Complete(p) == \A q \in Procs, t \in Tables : ColsOf[VersionOf[q]][t] \subseteq ColsOf[VersionOf[p]][t]
PanicHasAReason ==
  \A p \in Procs : pc[p] = "panic" => faults \cap {"failed", "overlap"} # {} \/ ~Complete(p)

(* A view is never defined twice, in memory or in the file; failed and cut   *)
(* writes, kills and restarts change nothing to that.                        *)
Distinct(s) == \A i, j \in DOMAIN s : s[i].name = s[j].name => i = j
ViewsAreDistinct ==
  "overlap" \notin faults =>
    /\ \A p \in Procs : Distinct(vw[p])
    /\ file # NoFile => Distinct(file.views)

(* A view whose creation was reported is there in every later session, until *)
(* the file was cut or could not be read, or two processes have had it at a  *)
(* time.  Statements that fail before they have opened it change nothing.    *)
Calm == faults \subseteq {"failed"}
CreatedIsFound ==
  Calm => \A p \in Procs, n \in Names :
    pc[p] = "ready" /\ acked[n] # NoView => n \in NamesOf(vw[p])

(* The only process at a time that has the file has its views in memory, in  *)
(* the same order: each is the one written, or, since it was loaded, without *)
(* what loadViews loses, the functions of its columns and the clauses that   *)
(* are not read back; or its replacement has failed, and it is in memory     *)
(* alone.  A new view that was not written is not in memory.                 *)
Kept(s, t, N) ==
  /\ Len(s) = Len(t)
  /\ \A i \in DOMAIN s :
       \/ s[i] = t[i]
       \/ s[i] = [t[i] EXCEPT !.fns = {}, !.clause = "plain"]
       \/ s[i].name = t[i].name /\ s[i].name \in N
MemoryIsFile ==
  Calm => \A p \in Procs :
    pc[p] = "ready" /\ file # NoFile => Kept(vw[p], file.views, unsaved[p])

(* What a comment of the source says, and the code does not do.              *)

(* "View already exists, so replace it!"                                     *)
ReplaceTakesEffect ==
  \A p \in Procs : pc[p] = "ready" /\ result[p] = "ok" =>
    \E i \in DOMAIN vw[p] : vw[p][i] = stmt[p]
=============================================================================
