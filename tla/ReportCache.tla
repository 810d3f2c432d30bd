---------------------------- MODULE ReportCache ----------------------------
(* The path of a SELECT through one or more awql processes: the result cache *)
(* in ~/.awql/cache (csv-cache), the report file in the temporary directory  *)
(* (awql-driver) and the goroutine that fills the cache behind the answer    *)
(* (driver/statement.go).  Everything the processes share is a file, and     *)
(* every system call on a file is a step, so that steps of several processes *)
(* and of the goroutines of one process interleave.                          *)
(*                                                                           *)
(* A report is the answer of the AdWords API to one request.  Its rows are   *)
(* told apart only by the report they come from, so a file is a sequence     *)
(* whose i-th element is the report its i-th row was taken from, or Hole     *)
(* where a write beyond the end of a truncated file left zero bytes.         *)
EXTENDS Integers, Sequences, FiniteSets

CONSTANTS
  Procs,        \* the awql processes that may run
  Accounts,     \* AdWords account identifiers
  Texts,        \* legacy AWQL queries, as LegacyString prints them
  Folds,        \* what is left of a query once Hash has lower-cased it
  Fold,         \* Texts -> Folds
  Sizes,        \* Folds -> the numbers of rows a report for these queries may have
  AccountOf,    \* Procs -> the account given with -i
  WithCache,    \* Procs -> TRUE when the process was started with -c
  LongTtl,      \* validity of a cache file with -c, in ticks
  ShortTtl,     \* validity without -c
  MaxTime,      \* bound: the clock stops there
  MaxQueries,   \* bound: queries asked by one process, over all its lives
  MaxLives,     \* bound: times one process is started
  MaxLive,      \* bound: processes running at the same time
  Hole, NoFile, NoText, NoReport, NoKey, NoAnswer   \* absent values

ASSUME FoldAssumption == Fold \in [Texts -> Folds]
ASSUME ProcAssumption == /\ AccountOf \in [Procs -> Accounts]
                         /\ WithCache \in [Procs -> BOOLEAN]
ASSUME SizesAssumption == Sizes \in [Folds -> SUBSET Nat]
ASSUME BoundAssumption == /\ MaxTime \in Nat /\ MaxQueries \in Nat
                          /\ MaxLives \in Nat /\ MaxLive \in Nat
                          /\ LongTtl \in Nat /\ ShortTtl \in Nat

(* A cache file is named after the hash of the query and the account; the    *)
(* fnv hash is taken as injective on lower-cased texts.                      *)
Keys == Folds \X Accounts

(* by says which process asked for the report, and in which of its lives;    *)
(* size is its number of rows: the same query has another answer tomorrow.   *)
Reports == [acct : Accounts, text : Texts, at : 0..MaxTime,
            by : Procs \X (1..MaxLives), size : Nat]

(* The content of a report or cache file. *)
Rows == Seq(Reports \cup {Hole})
CacheFiles == [rows : Rows, mtime : 0..MaxTime]

(* What Seek has printed for a query. *)
Answers == [text : Texts, rows : Rows, hit : BOOLEAN, at : 0..MaxTime,
            by : Procs \X (1..MaxLives)]

ASSUME AbsentAssumption == /\ Hole \notin Reports /\ NoReport \notin Reports
                           /\ NoText \notin Texts /\ NoKey \notin Keys
                           /\ NoFile \notin Rows \cup CacheFiles
                           /\ NoAnswer \notin Answers

VARIABLES
  now,          \* the clock
  cacheFile,    \* Keys -> NoFile or the rows and modification time of the file
  tmpFile,      \* Folds -> NoFile or rows: /tmp/awql<hash>.csv
  issued,       \* every report the API has answered (history)
  pc, life, asked,   \* per process: program counter, lives and queries so far
  conn,         \* per process: is there a free connection in the pool?
  text,         \* per process: the query being run
  todo, victim, \* per process: files the purge has still to look at, to remove
  resp, pos,    \* per process: the report being downloaded, rows copied so far
  got, hit,     \* per process: the rows to show, and were they in the cache?
  setter,       \* per process and query: the goroutine go s.fc.Set(...)
  cut,          \* keys whose file lost a writer half-way (history)
  woven,        \* per key: what the goroutines on its file have to write (history)
  spared,       \* per process: condemned keys its purges have left (history)
  shown         \* per process: its last answer (history)

files   == <<cacheFile, tmpFile>>
locals  == <<text, todo, victim, resp, pos, got, hit>>
session == <<life, asked, conn>>
traces  == <<cut, woven, spared>>
vars == <<now, files, issued, pc, session, locals, setter, traces, shown>>

(* Where a process is between a query and its answer. *)
Asking  == {"list", "purge", "remove", "connect", "stat", "read", "call",
            "create", "copy", "parse", "show"}
States == Asking \cup {"off", "idle"}

NoSetter == [st |-> "none", key |-> NoKey, val |-> <<>>, pos |-> 0, linked |-> FALSE]
Setters == [st : {"none", "ready", "open"}, key : Keys \cup {NoKey}, val : Rows,
            pos : Nat, linked : BOOLEAN]

Exists(k) == cacheFile[k] # NoFile

FilesOK ==
  /\ now \in 0..MaxTime
  /\ cacheFile \in [Keys -> CacheFiles \cup {NoFile}]
  /\ tmpFile \in [Folds -> Rows \cup {NoFile}]
  /\ issued \subseteq Reports
  /\ cut \subseteq Keys
  /\ woven \in [Keys -> SUBSET Rows]

ProcsOK ==
  /\ pc \in [Procs -> States]
  /\ life \in [Procs -> 0..MaxLives]
  /\ asked \in [Procs -> 0..MaxQueries]
  /\ conn \in [Procs -> BOOLEAN]
  /\ text \in [Procs -> Texts \cup {NoText}]
  /\ todo \in [Procs -> SUBSET Keys]
  /\ victim \in [Procs -> Keys \cup {NoKey}]
  /\ resp \in [Procs -> Reports \cup {NoReport}]
  /\ pos \in [Procs -> Nat]
  /\ got \in [Procs -> Rows]
  /\ hit \in [Procs -> BOOLEAN]
  /\ spared \in [Procs -> SUBSET Keys]
  /\ shown \in [Procs -> Answers \cup {NoAnswer}]

(* What the local variables hold at each place. *)
PlaceOK(p) ==
  /\ pc[p] \in Asking => text[p] \in Texts /\ asked[p] \in 1..MaxQueries
  /\ pc[p] # "off" => life[p] \in 1..MaxLives
  /\ pc[p] = "remove" => victim[p] \in Keys
  /\ pc[p] \in {"create", "copy"} => resp[p] \in Reports
  /\ pc[p] = "copy" => pos[p] <= resp[p].size
  /\ pc[p] \in {"copy", "parse"} => tmpFile[Fold[text[p]]] # NoFile

(* A goroutine: its file exists as long as nobody has removed it. *)
SetterOK(w) ==
  /\ w.st # "none" => w.key \in Keys
  /\ w.linked => w.key \in Keys /\ Exists(w.key)
  /\ w.pos <= Len(w.val)

SettersOK ==
  /\ setter \in [Procs -> [1..MaxQueries -> Setters]]
  /\ \A p \in Procs, i \in 1..MaxQueries : SetterOK(setter[p][i])

TypeOK == FilesOK /\ ProcsOK /\ (\A p \in Procs : PlaceOK(p)) /\ SettersOK

----------------------------------------------------------------------------
Ttl(p) == IF WithCache[p] THEN LongTtl ELSE ShortTtl
(* Mutant of KeyOf: the hash of an empty query names the file. *)
KeyOf_ofNothing(p) == <<CHOOSE f \in Folds : TRUE, AccountOf[p]>>
KeyOf(p) == <<Fold[text[p]], AccountOf[p]>>

(* isExpired: a file that cannot be read counts as expired. *)
Expired(p, k) == ~Exists(k) \/ now > cacheFile[k].mtime + Ttl(p)

(* What a write of row r at offset i leaves of a file whose rows are s. *)
WriteAt(s, i, r) ==
  [j \in 1..(IF i > Len(s) THEN i ELSE Len(s)) |->
     IF j = i THEN r ELSE IF j <= Len(s) THEN s[j] ELSE Hole]

(* The rows of report r, all of them and in order. *)
Whole(r) == [i \in 1..r.size |-> r]

(* A goroutine has file k open; what those that have are writing. *)
Writing(w, k) == w.st = "open" /\ w.linked /\ w.key = k
OpenOn(k) ==
  {setter[j[1]][j[2]].val :
     j \in {j \in Procs \X (1..MaxQueries) : Writing(setter[j[1]][j[2]], k)}}

Live == {p \in Procs : pc[p] # "off"}
Goto(p, l) == pc' = [pc EXCEPT ![p] = l]

(* Opening a file of that name again does not bring an unlinked one back. *)
Unlink(st, k) ==
  [p \in Procs |-> [i \in 1..MaxQueries |->
     IF st[p][i].key = k THEN [st[p][i] EXCEPT !.linked = FALSE] ELSE st[p][i]]]

----------------------------------------------------------------------------
Init ==
  /\ now = 0
  /\ cacheFile = [k \in Keys |-> NoFile]
  /\ tmpFile = [f \in Folds |-> NoFile]
  /\ issued = {}
  /\ pc = [p \in Procs |-> "off"]
  /\ life = [p \in Procs |-> 0]
  /\ asked = [p \in Procs |-> 0]
  /\ conn = [p \in Procs |-> FALSE]
  /\ text = [p \in Procs |-> NoText]
  /\ todo = [p \in Procs |-> {}]
  /\ victim = [p \in Procs |-> NoKey]
  /\ resp = [p \in Procs |-> NoReport]
  /\ pos = [p \in Procs |-> 0]
  /\ got = [p \in Procs |-> <<>>]
  /\ hit = [p \in Procs |-> FALSE]
  /\ setter = [p \in Procs |-> [i \in 1..MaxQueries |-> NoSetter]]
  /\ cut = {}
  /\ woven = [k \in Keys |-> {}]
  /\ spared = [p \in Procs |-> {}]
  /\ shown = [p \in Procs |-> NoAnswer]

(* The tool is started.  sql.Open only records the data source name. *)
Start(p) ==
  /\ pc[p] = "off" /\ life[p] < MaxLives /\ Cardinality(Live) < MaxLive
  /\ Goto(p, "idle")
  /\ life' = [life EXCEPT ![p] = @ + 1]
  /\ shown' = [shown EXCEPT ![p] = NoAnswer]
  /\ spared' = [spared EXCEPT ![p] = {}]
  /\ UNCHANGED <<now, files, issued, asked, conn, locals, setter, cut, woven>>

(* Seek hands the next SELECT to database/sql, which takes the free          *)
(* connection or opens one.                                                  *)
Ask(p, t) ==
  /\ pc[p] = "idle" /\ asked[p] < MaxQueries
  /\ asked' = [asked EXCEPT ![p] = @ + 1]
  /\ text' = [text EXCEPT ![p] = t]
  /\ Goto(p, IF conn[p] THEN "stat" ELSE "list")
  /\ UNCHANGED <<now, files, issued, life, conn, todo, victim, resp, pos, got,
                 hit, setter, traces, shown>>

(* FlushAll and DeleteAll list the directory once, then walk the list.  When *)
(* it cannot be read the list is empty, and the purge has nothing to do.     *)
ListCache(p) ==
  /\ pc[p] = "list"
  /\ LET there == {k \in Keys : Exists(k)}
     IN \/ todo' = [todo EXCEPT ![p] = there] /\ UNCHANGED spared
        \/ /\ todo' = [todo EXCEPT ![p] = {}]
           /\ spared' = [spared EXCEPT ![p] = @ \cup there]
  /\ Goto(p, "purge")
  /\ UNCHANGED <<now, files, issued, session, text, victim, resp, pos, got, hit,
                 setter, cut, woven, shown>>

(* Mutant of Condemned: Open flushes the outdated files, with or without -c. *)
Condemned_expiredOnly(p, k) == Expired(p, k)

(* DeleteAll takes every file, FlushAll those isExpired condemns. *)
Condemned(p, k) == ~WithCache[p] \/ Expired(p, k)

(* Mutant of PurgeNext: a file that is skipped stays on the list. *)
PurgeNext_keeps(p) ==
  /\ pc[p] = "purge"
  /\ \E k \in todo[p] :
       IF Condemned(p, k)
         THEN /\ todo' = [todo EXCEPT ![p] = @ \ {k}]
              /\ victim' = [victim EXCEPT ![p] = k]
              /\ Goto(p, "remove")
         ELSE UNCHANGED <<todo, victim, pc>>
  /\ UNCHANGED <<now, files, issued, session, text, resp, pos, got, hit, setter,
                 traces, shown>>

(* The next file of the list: skipped, or condemned. *)
PurgeNext(p) ==
  /\ pc[p] = "purge"
  /\ \E k \in todo[p] :
       /\ todo' = [todo EXCEPT ![p] = @ \ {k}]
       /\ IF Condemned(p, k)
            THEN victim' = [victim EXCEPT ![p] = k] /\ Goto(p, "remove")
            ELSE UNCHANGED <<victim, pc>>
  /\ UNCHANGED <<now, files, issued, session, text, resp, pos, got, hit, setter,
                 traces, shown>>

(* The file goes; a goroutine that writes it keeps its handle. *)
Unlinked(p) ==
  /\ Exists(victim[p])
  /\ cacheFile' = [cacheFile EXCEPT ![victim[p]] = NoFile]
  /\ setter' = Unlink(setter, victim[p])
  /\ cut' = cut \ {victim[p]}
  /\ woven' = [woven EXCEPT ![victim[p]] = {}]
  /\ Goto(p, "purge")
  /\ UNCHANGED <<todo, spared>>

(* An error: the file has vanished, or os.Remove fails.  The whole purge is  *)
(* given up, and Open does not look at the error.                            *)
GivesUp(p) ==
  /\ todo' = [todo EXCEPT ![p] = {}]
  /\ spared' = [spared EXCEPT ![p] = @ \cup todo[p] \cup {victim[p]}]
  /\ Goto(p, "connect")
  /\ UNCHANGED <<cacheFile, setter, cut, woven>>

RemoveFile(p) ==
  /\ pc[p] = "remove"
  /\ victim' = [victim EXCEPT ![p] = NoKey]
  /\ Unlinked(p) \/ GivesUp(p)
  /\ UNCHANGED <<now, tmpFile, issued, session, text, resp, pos, got, hit, shown>>

PurgeDone(p) ==
  /\ pc[p] = "purge" /\ todo[p] = {}
  /\ Goto(p, "connect")
  /\ UNCHANGED <<now, files, issued, session, locals, setter, traces, shown>>

(* The rest of Open: the Awql driver and the database of table descriptions. *)
Connect(p) ==
  /\ pc[p] = "connect"
  /\ conn' = [conn EXCEPT ![p] = TRUE]
  /\ Goto(p, "stat")
  /\ UNCHANGED <<now, files, issued, life, asked, locals, setter, traces, shown>>

(* An error, printed by Seek: from Open (the views cannot be loaded, a bad   *)
(* data source name), from the statement before it looks for a cached        *)
(* answer, from the API, from the creation or the copy of the report file,   *)
(* from opening or parsing it, or from aggregateData, when the goroutine     *)
(* that saves the rows has already been started.                             *)
Fail(p) ==
  /\ pc[p] \in {"connect", "stat", "call", "create", "copy", "parse", "show"}
  /\ Goto(p, "idle")
  /\ resp' = [resp EXCEPT ![p] = NoReport]
  /\ pos' = [pos EXCEPT ![p] = 0]
  /\ got' = [got EXCEPT ![p] = <<>>]
  /\ UNCHANGED <<now, files, issued, session, text, todo, victim, hit, setter,
                 traces, shown>>

(* Cache.Get, first half: the age of the file. *)
StatCache(p) ==
  /\ pc[p] = "stat"
  /\ Goto(p, IF Expired(p, KeyOf(p)) THEN "call" ELSE "read")
  /\ UNCHANGED <<now, files, issued, session, locals, setter, traces, shown>>

(* Cache.Get, second half: a hit serves whatever the file holds.  A file     *)
(* that has gone, cannot be opened or is refused by the csv reader (read     *)
(* before its last write, it ends in the middle of a row) is a miss.         *)
ReadCache(p) ==
  /\ pc[p] = "read"
  /\ \/ /\ Exists(KeyOf(p))
        /\ got' = [got EXCEPT ![p] = cacheFile[KeyOf(p)].rows]
        /\ hit' = [hit EXCEPT ![p] = TRUE]
        /\ Goto(p, "show")
     \/ Goto(p, "call") /\ UNCHANGED <<got, hit>>
  /\ UNCHANGED <<now, files, issued, session, text, todo, victim, resp, pos,
                 setter, traces, shown>>

(* The API answers the request with the report of the moment. *)
CallApi(p) ==
  /\ pc[p] = "call"
  /\ \E n \in Sizes[Fold[text[p]]] :
       LET r == [acct |-> AccountOf[p], text |-> text[p], at |-> now,
                 by |-> <<p, life[p]>>, size |-> n]
       IN /\ issued' = issued \cup {r}
          /\ resp' = [resp EXCEPT ![p] = r]
  /\ Goto(p, "create")
  /\ UNCHANGED <<now, files, session, text, todo, victim, pos, got, hit, setter,
                 traces, shown>>

(* os.Create(name) truncates the report file, whoever is using it. *)
CreateTmp(p) ==
  /\ pc[p] = "create"
  /\ tmpFile' = [tmpFile EXCEPT ![Fold[text[p]]] = <<>>]
  /\ pos' = [pos EXCEPT ![p] = 0]
  /\ Goto(p, "copy")
  /\ UNCHANGED <<now, cacheFile, issued, session, text, todo, victim, resp, got,
                 hit, setter, traces, shown>>

(* io.Copy writes one more row of the answer, or is done. *)
CopyRow(p) ==
  /\ pc[p] = "copy" /\ pos[p] < resp[p].size
  /\ pos' = [pos EXCEPT ![p] = @ + 1]
  /\ tmpFile' = [tmpFile EXCEPT ![Fold[text[p]]] = WriteAt(@, pos[p] + 1, resp[p])]
  /\ UNCHANGED <<now, cacheFile, issued, pc, session, text, todo, victim, resp,
                 got, hit, setter, traces, shown>>

(* Mutant of CopyDone: the error of io.Copy is dropped. *)
CopyDone_anywhere(p) ==
  /\ pc[p] = "copy"
  /\ Goto(p, "parse")
  /\ resp' = [resp EXCEPT ![p] = NoReport]
  /\ pos' = [pos EXCEPT ![p] = 0]
  /\ UNCHANGED <<now, files, issued, session, text, todo, victim, got, hit,
                 setter, traces, shown>>

CopyDone(p) ==
  /\ pc[p] = "copy" /\ pos[p] = resp[p].size
  /\ Goto(p, "parse")
  /\ resp' = [resp EXCEPT ![p] = NoReport]
  /\ pos' = [pos EXCEPT ![p] = 0]
  /\ UNCHANGED <<now, files, issued, session, text, todo, victim, got, hit,
                 setter, traces, shown>>

(* The report file is opened and read, and a goroutine is started to save    *)
(* what was read.                                                            *)
ParseTmp(p) ==
  /\ pc[p] = "parse"
  /\ LET rows == tmpFile[Fold[text[p]]]
     IN /\ got' = [got EXCEPT ![p] = rows]
        /\ setter' = [setter EXCEPT ![p][asked[p]] =
             [st |-> "ready", key |-> KeyOf(p), val |-> rows, pos |-> 0,
              linked |-> FALSE]]
  /\ hit' = [hit EXCEPT ![p] = FALSE]
  /\ Goto(p, "show")
  /\ UNCHANGED <<now, files, issued, session, text, todo, victim, resp, pos,
                 traces, shown>>

(* Query returns and Seek prints.  Without a row there is no result set      *)
(* ("return nil, nil"), Seek does not close it, and the connection is lost   *)
(* to the pool.                                                              *)
Show(p) ==
  /\ pc[p] = "show"
  /\ shown' = [shown EXCEPT ![p] = [text |-> text[p], rows |-> got[p],
                                    hit |-> hit[p], at |-> now,
                                    by |-> <<p, life[p]>>]]
  /\ conn' = [conn EXCEPT ![p] = got[p] # <<>>]
  /\ got' = [got EXCEPT ![p] = <<>>]
  /\ Goto(p, "idle")
  /\ UNCHANGED <<now, files, issued, life, asked, text, todo, victim, resp, pos,
                 hit, setter, traces>>

(* Cache.write in the goroutine: os.Create, then the rows, then the end. *)
SetCreate(p, i) ==
  /\ setter[p][i].st = "ready"
  /\ LET k == setter[p][i].key
     IN /\ cacheFile' = [cacheFile EXCEPT ![k] = [rows |-> <<>>, mtime |-> now]]
        /\ setter' = [setter EXCEPT ![p][i] = [@ EXCEPT !.st = "open", !.linked = TRUE]]
        /\ cut' = cut \ {k}
        /\ woven' = [woven EXCEPT ![k] = {setter[p][i].val} \cup OpenOn(k)]
  /\ UNCHANGED <<now, tmpFile, issued, pc, session, locals, spared, shown>>

SetWrite(p, i) ==
  LET w == setter[p][i]
  IN /\ w.st = "open" /\ w.pos < Len(w.val)
     /\ setter' = [setter EXCEPT ![p][i] = [w EXCEPT !.pos = w.pos + 1]]
     /\ cacheFile' =
          IF w.linked
            THEN [cacheFile EXCEPT ![w.key] =
                    [rows |-> WriteAt(@.rows, w.pos + 1, w.val[w.pos + 1]),
                     mtime |-> now]]
            ELSE cacheFile
     /\ UNCHANGED <<now, tmpFile, issued, pc, session, locals, traces, shown>>

(* Mutant of SetDone: the writer is closed without a flush. *)
SetDone_noFlush(p, i) ==
  /\ setter[p][i].st = "open"
  /\ setter' = [setter EXCEPT ![p][i] = NoSetter]
  /\ UNCHANGED <<now, files, issued, pc, session, locals, traces, shown>>

(* Mutant of SetDone: a goroutine whose file was removed never returns. *)
SetDone_linked(p, i) ==
  /\ setter[p][i].st = "open" /\ setter[p][i].pos = Len(setter[p][i].val)
  /\ setter[p][i].linked
  /\ setter' = [setter EXCEPT ![p][i] = NoSetter]
  /\ UNCHANGED <<now, files, issued, pc, session, locals, traces, shown>>

SetDone(p, i) ==
  /\ setter[p][i].st = "open" /\ setter[p][i].pos = Len(setter[p][i].val)
  /\ setter' = [setter EXCEPT ![p][i] = NoSetter]
  /\ UNCHANGED <<now, files, issued, pc, session, locals, traces, shown>>

(* os.Create or a write fails: nobody reads the error of go s.fc.Set(...),   *)
(* and what the goroutine has written stays.                                 *)
SetFails(p, i) ==
  /\ setter[p][i].st # "none"
  /\ setter' = [setter EXCEPT ![p][i] = NoSetter]
  /\ cut' = cut \cup {k \in Keys : Writing(setter[p][i], k)}
  /\ UNCHANGED <<now, files, issued, pc, session, locals, woven, spared, shown>>

(* The process ends: main returns, or the user interrupts it.  Its           *)
(* goroutines end with it, wherever they are.                                *)
Exit(p) ==
  /\ pc[p] # "off"
  /\ Goto(p, "off")
  /\ cut' = cut \cup {k \in Keys : \E i \in 1..MaxQueries : Writing(setter[p][i], k)}
  /\ setter' = [setter EXCEPT ![p] = [i \in 1..MaxQueries |-> NoSetter]]
  /\ conn' = [conn EXCEPT ![p] = FALSE]
  /\ text' = [text EXCEPT ![p] = NoText]
  /\ todo' = [todo EXCEPT ![p] = {}]
  /\ victim' = [victim EXCEPT ![p] = NoKey]
  /\ resp' = [resp EXCEPT ![p] = NoReport]
  /\ pos' = [pos EXCEPT ![p] = 0]
  /\ got' = [got EXCEPT ![p] = <<>>]
  /\ hit' = [hit EXCEPT ![p] = FALSE]
  /\ UNCHANGED <<now, files, issued, life, asked, woven, spared, shown>>

Tick ==
  /\ now < MaxTime
  /\ now' = now + 1
  /\ UNCHANGED <<files, issued, pc, session, locals, setter, traces, shown>>

----------------------------------------------------------------------------
(* The steps of one process between a query and its answer. *)
Work(p) ==
  \/ ListCache(p) \/ PurgeNext(p) \/ RemoveFile(p) \/ PurgeDone(p) \/ Connect(p)
  \/ StatCache(p) \/ ReadCache(p) \/ CallApi(p) \/ CreateTmp(p) \/ CopyRow(p)
  \/ CopyDone(p) \/ ParseTmp(p) \/ Show(p)

Save(p, i) == SetCreate(p, i) \/ SetWrite(p, i) \/ SetDone(p, i) \/ SetFails(p, i)

Next ==
  \/ \E p \in Procs :
       \/ Start(p) \/ Work(p) \/ Fail(p) \/ Exit(p)
       \/ \E t \in Texts : Ask(p, t)
       \/ \E i \in 1..MaxQueries : Save(p, i)
  \/ Tick

Spec == Init /\ [][Next]_vars

(* A goroutine that can run is scheduled, and every call it waits for comes  *)
(* back: the http client has a time-out, the files are local.                *)
Fairness ==
  \A p \in Procs :
    /\ WF_vars(Work(p))
    /\ \A i \in 1..MaxQueries : WF_vars(SetCreate(p, i) \/ SetWrite(p, i) \/ SetDone(p, i))

FairSpec == Spec /\ Fairness

----------------------------------------------------------------------------
(* Promises.                                                                 *)
Answered(p) == shown[p] # NoAnswer
AnswerRows(p) == {shown[p].rows[i] : i \in DOMAIN shown[p].rows} \ {Hole}

(* Whatever the interleaving, an answer only holds rows the API has issued   *)
(* for a query equal to the one asked up to letter case: neither the cache   *)
(* nor the shared report file brings in rows of another query.               *)
AnswerMatchesFold ==
  \A p \in Procs : Answered(p) =>
    AnswerRows(p) \subseteq {r \in issued : Fold[r.text] = Fold[shown[p].text]}

(* Why: every row in a file, in a download, in the hands of a goroutine or   *)
(* of Show was issued for a query with the lower-cased text the place is     *)
(* named after.  This is the inductive invariant behind AnswerMatchesFold.   *)
OwnRows(f) == {r \in issued : Fold[r.text] = f} \cup {Hole}
FilesOwn ==
  /\ \A k \in Keys : Exists(k) => cacheFile[k].rows \in Seq(OwnRows(k[1]))
  /\ \A f \in Folds : tmpFile[f] # NoFile => tmpFile[f] \in Seq(OwnRows(f))
ProcsOwn ==
  \A p \in Procs :
    /\ pc[p] \in {"create", "copy"} => resp[p] \in OwnRows(Fold[text[p]])
    /\ pc[p] = "show" => got[p] \in Seq(OwnRows(Fold[text[p]]))
    /\ Answered(p) => shown[p].rows \in Seq(OwnRows(Fold[shown[p].text]))
SettersOwn ==
  \A p \in Procs, i \in 1..MaxQueries :
    setter[p][i].st # "none" => setter[p][i].val \in Seq(OwnRows(setter[p][i].key[1]))
Provenance == FilesOwn /\ ProcsOwn /\ SettersOwn

(* The same, and the order of events around it, as an abstract service.      *)
phase == [p \in Procs |-> IF pc[p] \in {"off", "idle"} THEN pc[p] ELSE "busy"]
Service == INSTANCE ReportService WITH
  phase <- phase, now <- now, issued <- issued, life <- life, asked <- asked,
  text <- text, shown <- shown
ImplementsService == Service!Spec

(* When no two queries of the users differ by letter case only, and they     *)
(* all use one account, an answer is about the query and account asked for.  *)
OneAccount == \A p, q \in Procs : AccountOf[p] = AccountOf[q]
FoldInjective == \A s, t \in Texts : Fold[s] = Fold[t] => s = t
AnswerMatchesQuery ==
  FoldInjective /\ OneAccount =>
    \A p \in Procs : Answered(p) => \A r \in AnswerRows(p) :
      r.text = shown[p].text /\ r.acct = AccountOf[p]

(* A report that was downloaded, not found in the cache, is shown whole and  *)
(* is the very one the API issued for this run of the query (one process at  *)
(* a time: nobody else writes the report file).                              *)
DownloadIsWhole ==
  \A p \in Procs : Answered(p) /\ ~shown[p].hit =>
    \E r \in issued : /\ r.by = shown[p].by /\ r.text = shown[p].text
                      /\ shown[p].rows = Whole(r)

(* Without -c, Open empties the cache: a process that runs alone shows a row *)
(* that an earlier run of the tool has downloaded only when it is a hit on a *)
(* file its purge has left there, because the directory could not be read or *)
(* a file before it, or itself, could not be removed.                        *)
NoRowOfAnEarlierRun ==
  \A p \in Procs : Answered(p) /\ ~WithCache[p] =>
    \/ \A r \in AnswerRows(p) : r.by = shown[p].by
    \/ shown[p].hit /\ <<Fold[shown[p].text], AccountOf[p]>> \in spared[p]

(* A cache file nobody is writing any more, and that neither the end of a    *)
(* process nor a failed write has cut, is woven from the answers of the      *)
(* goroutines that had it open at once: it ends where one of them ends, each *)
(* row is in the place it has in one of them, and a hole can only be behind  *)
(* the end of a shorter one.  So a file with one writer is its answer, whole.*)
Settled(k) ==
  Exists(k) /\ \A p \in Procs, i \in 1..MaxQueries : ~Writing(setter[p][i], k)
RowFrom(W, r, i) ==
  \/ \E v \in W : i <= Len(v) /\ r = v[i]
  \/ r = Hole /\ \E v \in W : Len(v) < i
SettledIsWoven ==
  \A k \in Keys : Settled(k) /\ k \notin cut =>
    LET s == cacheFile[k].rows
    IN /\ \E v \in woven[k] : Len(s) = Len(v)
       /\ \A i \in DOMAIN s : RowFrom(woven[k], s[i], i)

(* A query is answered, or its error printed, whatever the other processes   *)
(* do to the files, unless its process ends.                                 *)
Busy(p) == pc[p] \notin {"off", "idle"}
EveryQueryEnds == \A p \in Procs : Busy(p) ~> ~Busy(p)

(* The goroutine that saves a report ends too: also when another process has *)
(* removed the file under it.                                                *)
EverySaveEnds ==
  \A p \in Procs, i \in 1..MaxQueries :
    setter[p][i].st = "ready" ~> setter[p][i].st = "none"

(* What comments and the README say, and the code does not do.               *)

(* "Get gets the item for the given key."                                    *)
HitIsWhole ==
  \A p \in Procs : Answered(p) /\ shown[p].hit =>
    \E r \in issued : shown[p].rows = Whole(r)
=============================================================================
