# A verification project for awql

awql is a command-line tool that runs AWQL statements (`SELECT`, `CREATE VIEW`,
`SHOW`, `DESCRIBE`) against Google AdWords reports.  This directory holds TLA+
modules of its core, the TLC configurations that check them on small instances,
and proofs, checked by TLAPS, of the properties that matter most.

All paths below are under `src/`.  `V/` stands for `vendor/github.com/rvflash/`,
the libraries of the same author that the tool is made of.

## 1. Inventory

| Part | Source | State | Operations |
|---|---|---|---|
| Report pipeline | `driver/driver.go`, `driver/statement.go`, `V/csv-cache/cache.go`, `V/awql-driver/statement.go` | files of `~/.awql/cache`, `/tmp/awql<hash>.csv`, the goroutine that saves an answer | Open (purge), Get, download, parse, Set |
| Views and their file | `V/awql-db/db.go`, `V/awql-db/table.go` | `Database.vw`, `views.yml` | Load, AddView |
| Session | `ui/scan.go`, `driver/driver.go`, `V/awql-driver/{driver,connection,statement}.go` | pool of `database/sql`, `Auth` of each connection, the timeout of `http.DefaultClient` | Scan, Seek, Open, authenticate, refresh, download |
| Merge of dates | `driver/statement.go:338-446`, `vendor/github.com/jinzhu/now` | the DURING clause, the clock | convert, compare, cut |
| SELECT | `driver/statement.go`, `driver/rows.go`, `V/awql-db/table.go` | the statement, the map of groups, `Rows` | embellish, aggregate, sort, limit, Next |
| DESC and SHOW | `driver/statement.go:99-237`, `:893-994` | none | reads of the database and of its column index |
| Parser and printer | `V/awql-parser` | none between statements | text to tree and back |
| Column index, completer | `V/awql-db/db.go`, `ui/complete.go` | an index of columns in each database, a second database for Tab | build, prefix search, Do |
| Writers and cells | `ui/write.go`, `driver/types.go`, `ui/scan.go:102-177` | buffers, widths, counters | cast, Value, WriteHead, Write, Flush |
| Line reader | `ui/scan.go` | the lines of the input so far | end of a statement, commands |
| Configuration | `conf/*.go`, `main.go`, `V/awql-driver/dsn.go` | flags, `~/.awql`, `~/.awql/cache`, `~/.awql/config` | mkDirHome, ask, Save, Get, data source name |
| Schemas | `V/awql-db/internal` | generated data | |

How they interact.  `main` reads the configuration and gives the terminal to the
line reader, which hands each input to `Seek`.  `Seek` prints and parses each of
its statements again and gives it to `database/sql`, which takes a free
connection or opens one: `AdvancedDriver.Open` purges the cache, loads the
views, and asks for a token.  A SELECT looks its view up in the database, is
merged with it, looks its report up in the cache, downloads it otherwise, starts
a goroutine that saves it, aggregates, sorts and limits the rows.  Several
processes share nothing but files: the cache, the report files, `views.yml`, the
configuration.

What is hard to test:

- **Concurrency.**  A goroutine nobody waits for writes a file in place
  (`driver/statement.go:527`); processes truncate, remove and read the files of
  one another; the report file has one name for all accounts.
- **Crashes and partial failure.**  `ioutil.WriteFile` truncates before it
  writes, views and credentials alike; the purge gives up at the first file it cannot
  remove, or when the directory cannot be read; a view loses what SELECT did with its
  columns at a restart; an error in one statement must leave a sound connection for the next.
- **Time.**  Validity is counted from modification times and arrivals; the clock
  is read twice in one conversion; the calendar counts days of 24 hours and cuts
  hours in UTC; dates are read in UTC and shown in the local zone; one client timeout is
  shared by two uses.
- **Stale copies.**  The completer keeps the database of the start, a connection
  the one of its opening; a view takes its columns from a source that may be replaced.
- **Two buffers on one stdout.**  Rows and statistics are flushed apart, and only
  the CSV writer tells an error.
- **Edges.**  Credentials told apart by their number, offsets behind the result,
  sums that overflow, ranges that end before they begin, positions kept after
  columns were dropped, a cursor counted in one line and used in another, in
  characters here and in bytes there.

`PROJECT.json` lists each hazard at its line with the properties that look at it.

## 2. Modules

| Module | Models | Checked by | Proofs |
|---|---|---|---|
| `ReportCache` | report pipeline, any number of processes | `report_alone`, `report_shared`, `report_hit` | `ReportCacheProofs` |
| `ReportService` | what the pipeline promises, without files | refined by `ReportCache` | refinement in `ReportCacheProofs` |
| `ViewStore` | views and `views.yml`, any number of processes | `view_right`, `view_replace` | `ViewStoreProofs` |
| `Session` | input loop, pool, tokens, timeouts | `session_right` | `SessionProofs` |
| `DateRange` | merge of DURING clauses | `range_merge` | `DateRangeProofs` |
| `Setup` | flags, directories, configuration file, credentials, any number of processes | `setup_right` | `SetupProofs` |
| `Select` | merge with a view, aggregation, sort, limit | `select_rows`, `select_mean` | `SelectProofs` |
| `Catalog` | the database of a connection: DESC, SHOW, CREATE VIEW, the column index | `terminal_right` | `TerminalProofs` |
| `Completer` | what Tab offers for a line | `terminal_right` | `TerminalProofs` |
| `Terminal` | the line reader, its commands, Tab, the statements it answers itself, restarts; extends both | `terminal_right` | `TerminalProofs` |
| `Dictionary` | which names the prompt knows, without databases or files | refined by `Terminal` | refinement in `TerminalProofs` |
| `Cells` | from the text of a cell to the text shown, and the width of its column | `output_right` | `OutputProofs` |
| `Output` | Seek's loop: results through the writers to a stdout that may fail; extends `Cells` | `output_right` | `OutputProofs` |

The `MC*` modules hold the instances.  A definition named `X_something` is a
variant of `X` with a plausible bug; `PROJECT.json` pairs each with the property
that must notice it.

### ReportCache

A file is a sequence; its *i*-th element is the report its *i*-th row came from,
or `Hole` for zero bytes left by a write behind the end of a truncated file.  The
data of a row is left out: what matters is for which query, account, day and
process life it was issued, and in a report of how many rows: two answers to one
query may differ in length (`Sizes`).  Every system call on a file is a step, and
any of them may fail.

| Action | Code |
|---|---|
| `Start`, `Exit` | start of the tool; its end, which kills goroutines (`main.go:44`) |
| `Ask` | `Seek` hands a SELECT to `database/sql` |
| `ListCache`, `PurgeNext`, `RemoveFile`, `PurgeDone`, `Connect` | `AdvancedDriver.Open`: `FlushAll` with `-c`, `DeleteAll` without |
| `StatCache`, `ReadCache` | `Cache.Get`: age, then content |
| `CallApi`, `CreateTmp`, `CopyRow`, `CopyDone`, `ParseTmp` | `Stmt.download` and the csv reader |
| `SetCreate`, `SetWrite`, `SetDone`, `SetFails` | the goroutine: `os.Create`, rows, flush; an error, which nobody reads |
| `Show`, `Fail` | the answer or the error printed by `Seek`, also after the goroutine was started (`driver/statement.go:531`) |

`ListCache` may find the directory unreadable, when there is nothing to purge;
`RemoveFile` removes its file or gives the whole purge up (`GivesUp`), for a file
that has vanished or for any other error, and Open goes on either way.
`issued`, `shown`, `cut`, `woven` (the answers whose goroutines had a file open at
once) and `spared` (what the purges of a process have left) are history.  A partial cache file is read both ways,
as the csv reader accepts it or refuses it depending on where the bytes end.

### ViewStore

A view is its name, source, columns, which of these have a function or DISTINCT
(in the list of the view, `fns`, and in its SELECT, `viewFns`) and what the YAML form
does to its clauses (`plain`, `lost`, `refused`).  `LoadViews` gives back a view as
`loadViews` does (`Reloaded`): its columns are those of the source, without functions.
Any error of the read gives no views and no error; a process has an API version
whose reports may lack a column that another process had.  A file ends `whole`,
`cut`, or `mixed` with the rest of what another process has written there; of the
last two `Readings` gives what may be read.  `AddView` is three steps (`CreateView` up to the
write, `OpenFile` truncates, `WriteViews` or `WriteCut`), so that processes
overlap and a kill may fall between any two.  `faults` is history, what has
befallen the file, and so is `unsaved`, the views whose replacement has failed; the
properties say under which of them they hold.

### Session

One process, sequential, so actions are the calls it makes.  `TokenAnswer`,
`TokenRefused` and `ApiAnswer` are the servers, at any delay below the client's
timeout; `TokenTimeOut` and `ApiTimeOut` are the client's.  The credentials
(`auth`) are chosen at the start and never change.  `ExecLocal` stands for SHOW,
DESCRIBE and a SELECT found in the cache.

### DateRange

Time is counted in half hours of UTC; a zone is how far it is east, and from which
moment on by how much more.  The calendar functions are those of `now.go`, with hours
cut in UTC and days of 24 hours, and those of package `time`, which go by the
calendar (`AddDate`).  Local days are numbered from a Sunday, and a month has
`MonthLength` of them: the dates in the code are strings `20060102`, whose order is the
order of days.  `ReadClock` is `time.Now()` at line 340; the calendar functions read
the clock again in `ConvertStmt` and `ConvertView`, and `Tick` may fall in between.

### Select

A cell is a number, whatever it stands for, or `Null`.  `EmbellishTable` and
`EmbellishView` merge the statement, `Fetch` gives any report up to the bound,
`AddRow` is one turn of the loop of `aggregateData`, `Collect` walks the map in
any order, `Sort` gives any result an unstable sort may give, `Limit` has the
width of an int, `NextRow` is `Rows.Next`.  A panic is a state, `pc = "panic"`.
Indices of rows and positions count from one, where the code's slices count from
zero; the function `"none"` stands for a column without one.  What was asked for is
kept beside what the merge makes of it: `OffsetAsked` and `CountAsked` are of the
parsed statement, or of the view where it has none, and `NameAsked` is the column that
ORDER BY names, wherever its position points to later.

### Catalog, Completer, Terminal, Dictionary

A name is a sequence of characters, a line a sequence of keys: a keyword is one
key, as the code compares keywords without case.  `Letters` says how many characters a
key has more than one, `Wide` how many bytes a character has more than one: the line
editor and slices of runes count the first, `len` and `strings.Index` the second, and
`Before` and `Behind` cut where the code does, within a key if need be (`Stump`).  `Type` adds one key of one of
the lines in `Scripts`, `Tab` puts a name of the offer in the place of the word it
was cut at.  `EnterBlank`, `EnterMore` and `EnterEnd` are what `readLine` does
with a line, `UseCommand` is `useCommand` with its order of cases, and `Seek` runs
the statement.  There are two databases: `comp`, read by `Scan` (the start of the
tool) and never again, and `conn`, read when a connection is opened, dropped with
an answer that is not closed, and changed by CREATE VIEW.  `LoadViews` is
`loadViews`, which takes the columns of a view from its source again (`Rebuilt`) and keeps the label alone:
that a column was DISTINCT is lost;
`Load` has the index of `buildColumnsIndex` with it, kept apart from `vw`, as
`AddView` does not touch it.  Where a view does not find a column in its source,
the code leaves nil entries in the list and the walk for the index panics: such a
file is not `Loadable`, and the tool ends as `"broken"` in `Scan` or at the next
statement.  The parser is external and reduced to three statements (`Parsed`).  `Do` is the completer: each of its four functions is one operator,
and the cursor that `createCompleter` moves is modelled as it is, with the slice
that runs out of range (`lost`).  `Dictionary` is the promise: three sets of names
with three actions, from which every step of the terminal can be read.

### Cells, Output

A text is a word or a number with a prefix, decimals and a percent sign; numbers
are counted in thousandths, so that `9.999`, `90.001` and the rounding of two
decimals are exact.  `Cast`, `Aggregate` and `Value` are `cast`, `aggregate` and
the `Value` methods; `AggregateData` follows one column through all records with
its width.  An aggregated date is a number of seconds that was read in UTC and is shown
in the local zone: `West` are the days that begin later there, and `LocalDay` is the
day shown.  `Output` writes the results of one input: `WriteHead`, `Write` and
`Flush` of the three writers, `Panic` when the offset is beyond the rows, `Spill` when
a buffer is full, `Fill` when stdout fails or works again.  A buffer that has had an error sends nothing more, as
`bufio.Writer` does.

### Setup

The start of any number of processes, up to the session that `Session` models.
A credential is told apart by the user who gave it; `Cut` is the beginning of
one, `Blank` an empty one.  Each system call is a step: `StatHome`, `MkHome`,
`MkCache` (`conf/config.go:193-199`), the lookup in `ChooseAuth`, `SaveConfig`
(`ioutil.WriteFile` truncates), `WriteConfig`, `WriteCut` (the device is full, or
the process was killed), `ReadConfig`.  Any error of `os.Stat` passes for a home
directory that is there, and for a configuration file that is not (`missed`).  `Ask` is
one answer of the user, `InputEnds` the end of the standard input, after which the
question is repeated for ever (`"repeat"`).  `Parts`
and `AuthOf` are the data source name and what `unmarshal` makes of it: they give
the constant `Auths` of `Session`, whose `"none"` comes from nothing but a file
that was cut after the developer token.  `faults`, `known`, `missed` and `end` are history.

## 3. Runs

Nine runs pass and three show where the code does not do what it says.

| Run | Instance | Distinct states | Shows |
|---|---|---|---|
| `report_alone` | two processes one at a time, one with `-c`, two queries each; answers of none or two rows to one query, of one to the other | 2,059,752 | downloads are whole; without `-c` rows of an earlier run come only from what the purge failed to remove; files that overlapping goroutines wrote are woven from their answers |
| `report_shared` | two processes of one account at a time, one with `-c`, one query each out of two; one tick; fair | 293,236 | answers are about their query (`AnswerMatchesFold`); the files implement `ReportService`; every query and save ends |
| `view_right` | two processes of two API versions, two names, three statements, kills, reads that fail, failed and cut writes | 1,453,938 | created views are found; memory is the file but for what loading loses; nothing twice; a start panics for three reasons only |
| `session_right` | two connections, three statements, all credentials; fair | 366,051 | one connection serves; no expired token; short timeout only after a refresh; every statement tried; the prompt comes back |
| `range_merge` | 21 x 21 ranges, 28 moments of a week, five zones, half an hour passing | 557,908 | no other day, no day lost, past weeks whole where clocks are steady |
| `select_rows` | table and view statements, all reports of up to three rows (two on a view) | 1,440,859 | groups, sums, the order and the window asked for, panics explained, view's limits, `SELECT *` |
| `setup_right` | two processes, two starts each, kills, failures of every call, the end of the input; fair | 651,336 | whole credentials, taken for what they are; nothing temporary kept; every start ends, waits or repeats its question |
| `terminal_right` | 22 lines typed key by key with Tab anywhere, three of them with characters of two or four bytes; two reports, a chain of three views, two starts of three inputs | 256,142 | offers fit, and are answered but for one reason; `SHOW WITH` agrees with `DESC`; a restart keeps the views, or breaks for one reason; panics of Tab explained; implements `Dictionary` |
| `output_right` | every text in one or two records, every function and writer; two statements; offsets up to beyond the rows; one fault of stdout | 231,327 | statistics count the rows; CSV whole or told; tables fit; what is shown was sent |
| `report_hit` | one process | violation | a hit on a half-written file |
| `view_replace` | one process | violation | OR REPLACE has no effect |
| `select_mean` | an AVG in the first column | violation | AVG is not the mean |

Bounds, and why they are enough.  Every interference in `ReportCache` is between
two actors, a process or a goroutine and another, over one file.  In `report_alone`
they are the goroutines of one process, and what a former one has left: two queries
in one life give two goroutines on one key, with answers of no row and of two, so that
one may begin, end or be cut before, within and behind the other.  In `report_shared`
they are two processes, of which one asks while the other purges, downloads or saves;
the accounts, the lives and a third process are left to the proofs, which have no
such bounds.  `ViewStore` needs a view on a view and three
statements to have a file replaced, extended and cut, two processes for an
overlap, and an API version that lacks a column for a view that finds its source and
not its column.  `Session` needs a connection that is left and one that replaces it, a
token that ends between two statements (`Life` 6, `Delta` 5, `TokenTimeout` 2
keep the order of the constants of the code, 60 minutes, 10 seconds and 4
seconds), and an input of two statements.  `Conns` is one short of the
connections three unlucky statements could leave: in that case the third is not
opened, and `OpenFails` goes on.  `DateRange` has ranges around today and around
the last weeks, both ways round, from each day of a week, soon after midnight, in both
halves of an hour and just before midnight, in Greenwich, in Paris, in New York
with the clocks put on or back in that week or the week before, and in Calcutta, whose
hours are not those of UTC.  `Select` needs two
groups and a tie: three rows.  `MaxInt` 7 makes overflow reachable.
`Terminal` has a view on a report, a view on that view under another name, a view
on that one and the replacement of the first, each of which may be followed by a
statement that reads them and by a restart: two starts of three inputs each, as a
file that cannot be loaded takes three views created on one connection.  Names are in
lower case, so that no keyword shares a letter with them, but for one: a line names a
view so that its end is spelled like SELECT, and `Index` finds that first.  Another has a
word behind SHOW that no SHOW has, for the completer to look past.  Three have a
character of two or four bytes: within the word looked for, before SELECT, and so often
that the cursor is moved out of the line.  One view gives a column the name of another,
and a LIKE that finds nothing drops the connection: with a view of that view, a restart
and one view more, Tab offers a column that DESC refuses.  `Output` has every kind of text the code
tells apart, alone and in every pair, in one group and in two, under the
functions of its type; two statements, and one failure of stdout that may end: enough for it
to fall before, between and behind both buffers of either statement.  `West` has one of
the two dates, and the year 1; the offsets of `LIMIT` leave all, one, none, or are
beyond the three groups.
`Setup` needs two processes for an overlap and a second start of one for a file it
has cut itself; four answers and one token are all the fields there are.

Deadlock is not checked where the system may stop: a process that has asked all
its queries, a session that has ended, a merged statement, an input that was
written, a process that was started as often as the bound has it.

Fairness.  `ReportCache!FairSpec` assumes weak fairness of each process between
a query and its answer and of each goroutine: the scheduler of the system and of
the Go runtime run what is ready, and all calls modelled there end (the API call
is bounded by the client's timeout).  Nothing is assumed of the user.
`Session!FairSpec` assumes weak fairness of the process (`Works`), whose
timeouts are steps of it, and **none** of the servers: they may be silent for
ever.  `Setup!FairSpec` assumes weak fairness of the steps that a start takes
by itself (`Work`) and **none** of the user: `StartEnds` says that a start comes to a
session, fails for one of the reasons that `Excused` lists, waits for an answer from
some time on, or repeats its question for ever because the input has ended.

## 4. Proofs

All proofs hold for every value of the constants that satisfies the named
assumptions of the modules.  They are checked leaf by leaf with SMT and Zenon.

- `ReportCacheProofs`.  `TypeCorrect`; `ProvenanceHolds`: whatever is in a file,
  a download, a goroutine or an answer was issued for the lower-cased query the
  place is named after.  `AnswerMatchesFold` alone is not inductive, as answers
  come from files and files from goroutines; `Provenance` follows the rows
  through all of them.  From it `AnswersMatchFold`, `AnswersMatchQuery` (where
  no two texts differ by letter case only) and `RefinesService`: each step
  of the processes is a step of `ReportService` or a stutter.
  The second half is under `MaxLive = 1`: one process runs at a time, with any
  number of goroutines, starts, kills and faults.  `DownloadIsWholeHolds` with
  `CopyInv`, which follows the report file from the API to the answer;
  `NoRowOfAnEarlierRunHolds` with `LifeInv`: whatever a former life has left, a
  process without `-c` has removed it, is about to, or has it in `spared`, because it
  could not list the directory or gave its purge up.  For two processes at a time
  `AnswersMatchFold` and `RefinesService` say what is left of these promises.
  `SettledIsWovenHolds` is for any number of processes again, with `JobInv` (a goroutine
  begins with its first row) and `FillInv`: of a file nobody has cut, each row is what
  one of the answers written to it has there, or is still to be written by a goroutine
  that has it open, or is behind the end of a shorter answer; its length is that of one
  of them or is still owed, and no goroutine is further than the file is long.
- `ViewStoreProofs`.  `TypeCorrect`; `DistinctHolds` with the invariant that a
  process about to write holds a list without duplicates (`DistinctInv`);
  `PanicHasAReasonHolds` with `LoadInv` (until a write has failed or overlapped,
  every list in memory, to be written and in the file can be loaded with an API version
  that has what the others have, each view being founded on what is before it), with
  `CompleteLoads` (what can be loaded with some version can be with such a one) and
  `EndInv` (what two writes have mixed was an overlap);
  `MemoryIsFileHolds` and `CreatedIsFoundHolds`, as long as no write but those that
  failed before the file was opened has befallen it (`Calm`), with `SoloInv` (one
  process has the file), `KeptInv` (what is in memory is in the file, but for what
  loading loses and for what is in `unsaved`) and `FoundInv` (what was reported is in
  the file or in the list about to be written to it).
- `SessionProofs`.  `TypeCorrect`; `OneServesHolds` with the invariant that the
  one connection in use is `cn` and none is free meanwhile; `TokenIsLiveHolds`
  from `DeltaAssumption` (the margin of `Valid` is no shorter than the wait for a
  token), with the invariant that `expiry` exceeds `until` by at most that wait;
  `BatchIsTriedHolds` with the invariant that statements typed are those done,
  left and running; `ShortOnlyAfterRefreshHolds`.
- `DateRangeProofs`.  `TypeCorrect`, `NoOtherDayHolds`, `NoDayLostHolds`: the
  four comparisons never cut a common day, whatever the ranges, the zone and what the
  clock does meanwhile; `PastWeeksAreWholeHolds`, for every moment and every zone that
  is whole hours from UTC and whose clocks were not changed within the last sixteen
  days (`Steady`).  There local time runs at an even pace, so that the beginning of a day
  is the moment `now.go` takes for it (`DayIs`, `HourIs`), days of 24 hours are those of
  the calendar (`ConvertedType`), and a week is seven of them (`WeekIs`,
  `WeekBeforeIs`).
- `SetupProofs`.  `TypeCorrect`; `CredentialsAreWholeHolds`, with `FileInv` (the
  file has all answers of one user, or is empty while somebody is about to write
  it) and `AnswerInv` (questions are answered in their order, so that the last
  answer means all of them); `TemporaryIsNotKeptHolds`, for every cut and overlap,
  as only answers are ever written; `AskedOnceHolds` with `KnownInv`: the file is never
  removed, so that a process that started when there was one asks only if `os.Stat`
  failed on it; `FailsForAReasonHolds`, of every start that ended without a session;
  `ConnectsAsGivenHolds`, by the number of values each way of giving credentials
  leaves.
- `SelectProofs`, for every table, statement, view, report and width of an int.
  `Invariance` is the conjunction the rest follows from: `StmtInv` (the statement
  is what merging made of the parsed one), `RecordsInv`, `DataInv` (the map after *n*
  records, by induction over the steps of the loop), `OutInv` (the result set lists
  the groups once each, which needs that an injection of a finite set into one of
  its size is onto), `SortInv` (sorting came back, hence compared no missing
  column, and no pair is the wrong way round) and `WindowInv` (rows shown, position
  and end of the window agree).  From it `GroupsAreRightHolds`, `WindowIsShownHolds`,
  `ShownInOrderHolds`, `PanicIsExplainedHolds`, `ViewHoldsHolds` and
  `AllIsTheViewHolds`.  `ShownInOrder` needs the first column that tells two rows
  apart: if that is out of range, `OrderOutOfRange` holds and the sort has panicked.
  Both properties of the answer are about what was asked for, not about what merging
  has made of it, and three lemmas connect the two.  `WindowOfTheStatement` and
  `WindowAsked`: offset and row count are those asked for, unless fewer rows were
  asked for than the view has.  `KeepsItsPlace` and `OrderIsAsked`: the position that is
  sorted by is the place of the column named, unless a redundant field at or before it was
  dropped or the order is the view's and the statement has columns of its own
  (`Displaced`).
  `SumsAreRightHolds` with `SumInv`: after *n* records each sum is that of the
  records of its group, and adding a record to a set adds its value to the sum of
  the set, whichever element the recursion takes away first.
- `OutputProofs`, for every input, every text the API may send and every moment at
  which stdout fails.  Assumed (`NameAssumption`, `InputAssumption`): texts are
  well-formed, dates are not summed, numbers are not negative and exact (the model
  has no rounding of a float64).  Which days begin later than in UTC is any set of days
  (`WestAssumption`).  `OutputInvariant` is the conjunction of `PlaceInv` (how
  far the input is), `BufferInv` (what is not sent yet is of this result),
  `ScreenInv` (nothing of a later result is shown), `RowsInv` (rows shown and rows
  buffered are those handed out, the columns are those of the result) and two of
  the properties.  From it `StatisticsCountTheRowsHolds`, `CsvIsWholeHolds` and
  `ShownWasSentHolds`: what is shown of a cell is a text the API has sent for it, or
  what the functions of the column make of such texts, through every aggregate; a MAX
  or MIN of dates is a date that was sent, or the day before one that begins later here
  than in UTC, and then never that date itself.
  `TableFitsHolds`: no cell is wider than its column, outside of the exceptions that
  the property names.
- `TerminalProofs`, for every set of reports with names of their own and at least one
  column each, whose names have no keyword and no sign among their characters
  (`ReportAssumption`; in the model a keyword is one key, and a name has a key for each
  character), every script of keys (`ScriptAssumption`), every list of
  date literals that are names (`DuringAssumption`) and any number of inputs and
  starts.  Four arguments:

  The databases.  `TerminalInvariant`: the views of the file have names of their own,
  sources before them, and columns those have (`Views`); an open connection has the same
  views but for the columns of a view of a view (`Same`), and has indexed the first of
  them (`Opened`).  What an open connection has and what the file has differ as soon as
  there is a view of a view, so that neither alone is inductive.  From it
  `RestartKeepsTheViewsHolds`, with `LoadsUnless`: reading the file breaks only on a
  view that has a column by a name its source, a view of a view, has it by no more; all it forgets of a view of a report is
  that a column was DISTINCT;
  `WithAgreesWithDescHolds`; and `ImplementsDictionaryHolds`, each step of the prompt
  being a step of `Dictionary` or a stutter.  What the parser gives is used here only for
  what a CREATE VIEW names (`ParsedIs`).

  The offer.  `OfferFitsTheWordHolds`, with `PromptInv`: the line is made of keys and
  the completer has loaded views, so that all it offers are words.  The words of a line are
  a fold over its keys; the fold is given one key at a time (`SplitsKeyByKey`), which
  shows that the last word is the one at the cursor (`LastIsAtCursor`).  Then each
  function of the completer by itself (`DescribeIs`, `ShowIs`, `SelectIs`,
  `CreateOfferIs`): which word it looks names up with, and that all names it offers
  begin with that word.  `DoIs` joins them.

  The panic.  `TabPanicIsExplainedHolds`, with `PanicInv` on top: a cursor is lost in
  CREATE VIEW alone (`DoLoses`).  The words behind a separator are those of the rest of the
  line alone (`SplitsBehind`), and joining them again gives no less than the text they
  are of if no two spaces meet in it (`JoinedCovers`); so the slice ends
  within the text wherever the property names no reason for it not to
  (`AloneIsKept`, `LostIsExplained`).  Characters and bytes are both folds of a line
  (`Weighing`); where no character before SELECT has more than one byte they agree
  (`JoinedChars`), and otherwise the property says so (`HasWide`).

  The answer.  `OfferIsAnsweredHolds`: what Tab completes, DESC and SHOW answer.  Two
  halves meet in it.  The first is about three readings of `views.yml`, at the start of
  the tool, at the opening of a connection and by each CREATE VIEW:
  `CompleterKnowsTheFile`, with the inductive invariant `KnowInv`.  The views of the
  completer stay the first of the file and of the connection, alike but for the columns
  of a view of a view.  Those are found in its source again at each reading
  (`LoadReads`), which finds the same ones as long as no view gives a column the name of
  another (`Plain`, `LoadsTheHeads`).  Hence a table or column that the completer knows is
  known to the next statement (`TableKnown`, `ColumnKnown`), but for the exception that the
  property names.  The second half compares two ways of splitting a line.  A mark is a
  word of its own wherever the parser finds one (`MarksAreWords`), and no DESC or SHOW has
  one (`NoMarkIn`); a line without marks is split by the parser as by the completer
  (`Unmarked`); a name that Tab puts there ends the last word (`CompletedIs`) and leaves
  the verb (`VerbStays`); so the statement parsed is about the name
  offered (`DescCompleted`, `ShowCompleted`).

  All three properties of the completer were once stated with fewer exceptions, held in
  the run, and could not be proved, as they were false of longer lines or histories than
  the run had: behind SHOW any other word than those before its column is looked past;
  a name that has the spelling of SELECT in it is found in its place; a column of a view
  of a view may change its name between two readings.  The lines that show it are in the
  run now, and the exceptions in the properties.

The prover cannot instantiate the theorems that take an operator as a parameter,
and thus neither the induction theorems of its library nor a theorem on recursive
functions.  Where a definition is a recursive function or a fold (the sum of a set,
the records of a column, the views of a file, the tables listed), the proofs show
that such a function exists, by induction through the set of the naturals that
have a property (`NatSets`), and go on with its equations.

`TypeOK`, `Provenance`, `AnswerMatchesQuery`, `AskedOnce` and `FailsForAReason` are
stated and proved, and no run lists them: the runs check what they are there for.

Only model-checked, and why:

- liveness (`EveryQueryEnds`, `EverySaveEnds`, `EveryInputEnds`, `StartEnds`): the
  prover has no rule for fairness.

Every invariant and every action property of a passing run is stated by a theorem.

## 5. What the code does and does not say

Met while modelling.  The three with a run are in `PROJECT.json` as findings; the
others follow from the definitions of the models, at these lines.

Reports

- a hit may be an empty or half-written file (`driver/statement.go:527`): `report_hit`
- the goroutine is not awaited: a truncated file outlives the process, as valid (`driver/statement.go:527`)
- the key lower-cases the whole query, literals included (`V/awql-driver/statement.go:78`)
- of two goroutines that save answers of different length at once, one leaves a hole in the file or its tail behind the other's (`V/csv-cache/cache.go:201`): the file is served as valid
- the purge gives up at any error, of `os.Remove` or of the directory, and Open drops the error: without `-c`, too, answers of an earlier run are served then (`V/csv-cache/cache.go:76`, `driver/driver.go:64`)
- the error of the goroutine that saves is read by nobody (`driver/statement.go:527`): what it has written stays and is served
- the report file is named after the query, not the account (`V/awql-driver/statement.go:194`)
- without `-c` the cache still serves for ten minutes (`driver/driver.go:54`); with it for 24 hours, not for the day (`driver/driver.go:56`, `README.md:69`)

Views

- OR REPLACE writes the copy taken before the replacement (`V/awql-db/db.go:126`): `view_replace`
- a failed replacement stays in memory (`V/awql-db/db.go:132`), where another view may be created on it: the next start panics if that view uses a column the old one has not
- at a restart a view gets the columns of its source back and keeps their labels only (`V/awql-db/db.go:358`): the function and DISTINCT of a column are lost, and `SELECT *` of a view with `SUM(cost)` adds up nothing any more
- any error of the read of `views.yml` gives no views and no error (`V/awql-db/db.go:330`); the next CREATE VIEW writes the file without them
- a view whose column the API version given with `-V` has not makes the start panic (`V/awql-db/db.go:358`)
- each process writes the list it loaded: views of others are lost (`V/awql-db/db.go:125`)
- a GROUP BY position is written as the character of that code, which YAML refuses (`V/awql-db/table.go:333`); an offset is written `offs` and read `oset` (`V/awql-db/table.go:394`)
- a view on an unknown column leaves nil entries and a later walk panics (`V/awql-db/db.go:358`).
  Three statements on one connection get there: `CREATE VIEW v (x) AS SELECT c FROM
  t; CREATE VIEW w (y) AS SELECT x FROM v; CREATE VIEW u AS SELECT x FROM w`.  `Field`
  finds `x` in `w` by its head; at the next start `w` gets the column of `v` with the head
  `c` (`:361`), and `u` asks for an `x` that `w` has no more.  Neither the completer nor a
  statement survives that until views.yml is edited.  The disjunct
  of `RestartKeepsTheViews` states this case, and the proof that it is the only one
- a view of a view keeps the name of the view as its source but is unfolded one level only when a statement reads it (`V/awql-db/db.go:382`)

Session

- an answer without rows is not closed, its connection stays in use (`ui/scan.go:140`)
- a given access token is counted from the opening of the connection (`V/awql-driver/driver.go:152`)

Dates

- a range that ends before the view's begins is not refused, although "If not, returns zero
  result" (`driver/statement.go:418`): its beginning alone is moved, and the API is asked for a
  range that ends before it begins (`:432`)
- THIS_WEEK_SUN_TODAY begins on the coming Sunday (`driver/statement.go:349`)
- LAST_BUSINESS_WEEK ends on the Saturday, five days after its Monday, in a variable named `friday` (`driver/statement.go:374`)
- midnight between lines 340 and 352 gives a range the wrong way round
- hours are cut in UTC and days have 24 hours (`vendor/github.com/jinzhu/now/now.go:17-34`,
  `:66`).  Where clocks differ from UTC by half an hour, as in Calcutta, a day may begin half
  an hour early: a past week has eight days or is the one before, and THIS_MONTH may begin
  with the last day of the month before.  Soon after the clocks
  were put on, a past week from Sunday begins on the Saturday and has eight days, or
  begins a week early, and one from Monday lasts a day longer when it is asked for on the
  Sunday of the change; soon after they were put back, one from Sunday has eight days.
  `Steady` in `PastWeeksAreWhole` excludes such zones and moments

Configuration

- of two first starts at once the second may fail: its `Mkdir` finds the home directory that its `Stat` did not (`conf/config.go:193`)
- a configuration file that was cut is never asked for again nor repaired: with the developer token alone requests go without authentication, with the client ID too it is taken for an access token, and any other number of values is an error of every statement (`conf/config.go:125`, `V/awql-driver/driver.go:76`)
- a process that finds the file while another is writing it starts without credentials (`conf/config.go:211`)
- the question is repeated for ever at the end of the input, as the error of `ReadString` is not looked at (`conf/credentials.go:79`)
- any error of `os.Stat`, not absence alone, counts as no configuration file: the user is asked again and the file is written over (`conf/config.go:211`)

SELECT

- ORDER BY has the direction of its last column, and of two equal dates each comes before the other when it is descending (`driver/statement.go:861-870`); `OneDirection` in `ShownInOrder` excludes both
- AVG is weighted by the number of the column (`driver/statement.go:806`): `select_mean`
- an offset behind the result, or a sum that overflows, makes `Next` panic (`driver/rows.go:67`, `:99`)
- positions are kept after redundant columns were dropped, or taken over from the view (`driver/statement.go:324`, `:461`): rows are sorted by another column than the one named, or the sort panics; `Displaced` in `ShownInOrder` says when
- a row count smaller than the view's is replaced by it (`:470`): LIMIT 1 on a view with LIMIT 2 shows two rows; an offset replaces the view's (`:466`).  `FewerThanTheView` in `WindowIsShown` is this case
- COUNT(*) of a view is taken for `*` (`:393`); a view with two conditions on one column is always refused (`:409`); redundant columns of a view panic (`:830`)

`PanicIsExplained` shows that these are the only ways the model has to panic on rows.

Cells and writers

- "12.3" is shown as "12.30", "auto5" as "auto: 5", and "auto:5" is an error of the statement (`driver/statement.go:649`, `:666`)
- the width of an aggregated column is that of the last record, not the longest value (`driver/statement.go:827`); decimals added behind the measuring stick out too (`:835`): the exceptions of `TableFits`
- MAX and MIN of dates one of which is not set may show a count of seconds (`driver/statement.go:719`); MAX of "< 10%" shows 10.00
- MAX and MIN of dates are read in UTC and shown in the local zone (`driver/statement.go:681`, `driver/types.go:97`): west of UTC they show the day before, which may be one that nobody sent
- the head of a CSV is padded with spaces to the width of the column (`driver/statement.go:500`, `ui/write.go:66`)
- `Error` of the tables "returns any errors occurred during the job" and returns nil (`ui/write.go:162`): what stdout refused is not told
- an error of a statement is printed and the tool still ends with 0, with `-e` too (`ui/scan.go:133`)

Prompt

- Tab knows the tables of the start: a view created since is not offered, one replaced has its old columns (`ui/scan.go:267`); the same goes for SHOW TABLES WITH until the connection is opened again (`V/awql-db/db.go:175`)
- SHOW TABLES WITH lists a view twice when two of its columns have one label (`V/awql-db/db.go:286`)
- LIKE "%" lists all tables, as no case of the pattern is set (`driver/statement.go:941`)
- an empty answer of SHOW keeps its connection, as an empty report does (`ui/scan.go:140`)
- "clear \c" and "help \h" are not commands, as a command's word keeps the short form from being looked at; "help; select ...;" drops the statement (`ui/scan.go:388`)
- Ctrl-C within an input ends the tool (`ui/scan.go:227`)
- Tab sees the current line only, not the lines of the input before it (`ui/scan.go:322`)
- in CREATE VIEW the cursor is moved by the place of the first text spelled like the word found, and the slice may run out of range (`ui/complete.go:68`): `TabPanicIsExplained` says when
- that place is counted in bytes and the cursor in characters: a character of several bytes before SELECT makes Tab look at an earlier part of the line, or panic on a negative bound (`ui/complete.go:57-68`)
- what is inserted is cut behind the bytes of the word and of the characters of the name (`ui/complete.go:285`, `:369`): with such a character in the word too much is cut, or the slice is out of range
- the same place is looked for with SELECT itself: a view named `preselect` before it is found first, and what is offered is not for the word at the cursor (`ui/complete.go:67`)
- in SHOW a word before the last decides what is offered, whatever it is: behind another than FULL, TABLES or WITH the names do not fit the word at the cursor (`ui/complete.go:311`)
- a column of a view of a view may go by another name each time the file is loaded
  (`V/awql-db/db.go:361`): DESC of a name that Tab offers may be refused.  After
  `CREATE VIEW v (co, x) AS SELECT cl, co FROM t` and `CREATE VIEW w (y) AS SELECT x FROM
  v` the column of `w` goes by `x`; from the next start by `co`, which Tab offers; and if
  any view is created then, the file has `co`, and the next connection (the last one
  was kept by an empty answer) finds by that the column that `v` gives the label `co`, and
  has it by `cl`: DESC refuses what Tab offers.  The exception in `OfferIsAnswered` states this
  case, and its proof that it is the only one

## 6. Not modelled, and why

- AWQL parser and printer (`V/awql-parser`): text to tree and back, without state
  between statements.  What they guarantee is an assumption of the models: `Parsed`
  in `Select` and in `Terminal`, `Ranges` in `DateRange`.  That `Seek` prints each
  statement before it is parsed again (`ui/scan.go:132`) is a hazard no property covers.
- Report schemas (generated data), YAML and readline (third-party code): the reports,
  what YAML refuses and the keys of a line are inputs of `ViewStore`, `Catalog` and
  `Terminal`.  The history file is written by readline.
- Data source names are modelled as the credentials in them and what the driver
  tells from their number; the options are strings put together and split again.
- In `Select` a cell is a number, a text or a date that may be null; percentages,
  `auto`, `Excluded` and precisions are in `Cells`, for one column.  The mean that AVG
  gives is in `Select` alone.
- A zone in `DateRange` changes its clocks once, and a month has one length.
- A cursor that was moved back into the line only cuts it before the completer sees it.
- Types, enumerations and incompatible columns in DESC, wording, times and borders.

## 7. Plan

The modules above are complete as far as their components go.  What is left:

1. `Printer`: what the statement printed by `Seek` loses before it is parsed again,
   as a pair of operators on statements, and `Parsed` derived from it.
2. `Session` and `Terminal` joined: one input loop, with the statements of `Terminal`
   on the pool of `Session`.
3. `Select` with the cells of `Cells`, which would give AVG its precision and the
   exceptions of `TableFits` their groups.
