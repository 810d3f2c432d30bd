----------------------------- MODULE DateRange -----------------------------
(* The DURING clause of a SELECT on a view: the date range of the statement  *)
(* is cut to the one of the view.  A range that is a literal is converted    *)
(* first; the clock is read once for "today" and again by the calendar       *)
(* functions, so that midnight may fall in between.                          *)
(*                                                                           *)
(* Time is counted in half hours of UTC, and the days of the local zone are  *)
(* numbered; day 0 is a Sunday.  A range is <<>>, <<literal>> or             *)
(* <<first day, last day>>, which the parser does not order.                 *)
EXTENDS Integers, Sequences

CONSTANTS
  Moments,      \* the half hours a query may start in
  Zones,        \* where it may be run: east of UTC, and by how much more from a change on
  MonthLength,  \* days of a month
  StmtRanges,   \* bound: DURING of the statements
  ViewRanges,   \* bound: DURING of the views
  MaxTicks,     \* bound: how many half hours may pass during one query
  NoTime

Literals == {"TODAY", "YESTERDAY", "THIS_WEEK_SUN_TODAY", "THIS_WEEK_MON_TODAY",
             "THIS_MONTH", "LAST_WEEK", "LAST_7_DAYS", "LAST_14_DAYS", "LAST_30_DAYS",
             "LAST_BUSINESS_WEEK", "LAST_WEEK_SUN_SAT"}
Dates == Int \X Int
Ranges == {<<>>} \cup {<<l>> : l \in Literals} \cup Dates

ASSUME TimeAssumption ==
  /\ Moments \subseteq Int /\ MonthLength \in Nat \ {0} /\ MaxTicks \in Nat /\ NoTime \notin Int
  /\ Zones \subseteq [east : -28..28, change : Int, more : -4..4]
ASSUME RangeAssumption == StmtRanges \subseteq Ranges /\ ViewRanges \subseteq Ranges

VARIABLES
  zone,    \* of the machine
  clock,   \* the half hour it is
  today,   \* the one duringLiteralToDates has read, or NoTime
  pc,      \* "merge", "stmt", "view", "clip", "done", "error"
  during,  \* DURING of the statement
  vd,      \* DURING of the view
  whole,   \* DURING of the statement before it is cut (history)
  ticks    \* half hours that have passed

vars == <<zone, clock, today, pc, during, vd, whole, ticks>>

----------------------------------------------------------------------------
(* Package time: the local time of u, and the moment of a local time.        *)
Offset(z, u) == z.east + (IF u < z.change THEN 0 ELSE z.more)
Local(z, u) == u + Offset(z, u)
Day(z, u) == Local(z, u) \div 48
Weekday(n) == n % 7
At(z, l) == IF Offset(z, l) = 0 THEN l ELSE l - Offset(z, l - Offset(z, l))
AddDate(z, u, days) == At(z, Local(z, u) + 48 * days)

(* Package now: hours are cut in UTC, and a day back is one of 24 hours.     *)
BeginningOfDay(z, u) == (u - (u % 2)) - 2 * ((Local(z, u) % 48) \div 2)
DaysBack(z, u, first) == (Weekday(Day(z, BeginningOfDay(z, u))) + 7 - first) % 7
BeginningOfWeek(z, u, first) == BeginningOfDay(z, u) - 48 * DaysBack(z, u, first)
EndOfWeek(z, u, first) == AddDate(z, BeginningOfWeek(z, u, first), 7) - 1
Monday(z, u) == BeginningOfWeek(z, u, 1)
Sunday(z, u) == BeginningOfDay(z, u) + 48 * ((7 - Weekday(Day(z, BeginningOfDay(z, u)))) % 7)
BeginningOfMonth(z, u) == BeginningOfDay(z, u) - 48 * (Day(z, BeginningOfDay(z, u)) % MonthLength)

(* The moments a literal stands for: t has been read, c is the clock now.    *)
(* Mutant of LiteralToMoments: a week is counted back from its last day.     *)
LiteralToMoments_end(z, l, t, c) ==
  CASE l = "TODAY"               -> <<t, t>>
    [] l = "YESTERDAY"           -> <<AddDate(z, t, -1), AddDate(z, t, -1)>>
    [] l = "THIS_WEEK_SUN_TODAY" -> <<Sunday(z, c), t>>
    [] l = "THIS_WEEK_MON_TODAY" -> <<Monday(z, c), t>>
    [] l = "THIS_MONTH"          -> <<BeginningOfMonth(z, c), t>>
    [] l = "LAST_WEEK"           -> <<AddDate(z, t, -7), AddDate(z, t, -1)>>
    [] l = "LAST_7_DAYS"         -> <<AddDate(z, t, -7), t>>
    [] l = "LAST_14_DAYS"        -> <<AddDate(z, t, -14), t>>
    [] l = "LAST_30_DAYS"        -> <<AddDate(z, t, -30), t>>
    [] l = "LAST_BUSINESS_WEEK"  -> <<Monday(z, AddDate(z, t, -7)), AddDate(z, Monday(z, AddDate(z, t, -7)), 5)>>
    [] l = "LAST_WEEK_SUN_SAT"   -> <<AddDate(z, t, -7), AddDate(z, t, -1)>>
LiteralToMoments(z, l, t, c) ==
  LET ago == AddDate(z, t, -7)
      monday == BeginningOfWeek(z, ago, 1)
  IN  CASE l = "TODAY"               -> <<t, t>>
        [] l = "YESTERDAY"           -> <<AddDate(z, t, -1), AddDate(z, t, -1)>>
        [] l = "THIS_WEEK_SUN_TODAY" -> <<Sunday(z, c), t>>
        [] l = "THIS_WEEK_MON_TODAY" -> <<Monday(z, c), t>>
        [] l = "THIS_MONTH"          -> <<BeginningOfMonth(z, c), t>>
        [] l = "LAST_WEEK"           -> <<monday, EndOfWeek(z, ago, 1)>>
        [] l = "LAST_7_DAYS"         -> <<ago, t>>
        [] l = "LAST_14_DAYS"        -> <<AddDate(z, t, -14), t>>
        [] l = "LAST_30_DAYS"        -> <<AddDate(z, t, -30), t>>
        [] l = "LAST_BUSINESS_WEEK"  -> <<monday, AddDate(z, monday, 5)>>
        [] l = "LAST_WEEK_SUN_SAT"   -> <<BeginningOfWeek(z, ago, 0), EndOfWeek(z, ago, 0)>>
DuringLiteralToDates(z, l, t, c) ==
  LET m == LiteralToMoments(z, l, t, c) IN <<Day(z, m[1]), Day(z, m[2])>>

(* Mutant of OutRange: what starts before the view is refused. *)
OutRange_early(d, v) ==
  \/ d[1] < v[1]
  \/ d[1] > v[2]
  \/ d[2] > v[2] /\ d[2] < v[1]

(* The refusals: a range that ends before the view's is not one of them. *)
OutRange(d, v) ==
  \/ d[1] < v[1] /\ d[1] > v[2]
  \/ d[1] >= v[1] /\ d[1] > v[2]
  \/ d[2] > v[2] /\ d[2] < v[1]

(* Mutant of Cut: the end is left as it was. *)
Cut_noEnd(d, v) == <<IF d[1] < v[1] THEN v[1] ELSE d[1], d[2]>>

Cut(d, v) == <<IF d[1] < v[1] THEN v[1] ELSE d[1], IF d[2] > v[2] THEN v[2] ELSE d[2]>>

----------------------------------------------------------------------------
TypeOK ==
  /\ zone \in Zones /\ clock \in Int /\ today \in Int \cup {NoTime}
  /\ pc \in {"merge", "stmt", "view", "clip", "done", "error"}
  /\ during \in Ranges /\ vd \in Ranges /\ whole \in Ranges
  /\ ticks \in 0..MaxTicks
  /\ pc = "stmt" => Len(during) = 1
  /\ pc = "view" => Len(vd) = 1
  /\ pc \in {"view", "clip"} => during \in Dates
  /\ pc = "clip" => vd \in Dates

Init ==
  /\ zone \in Zones /\ clock \in Moments /\ today = NoTime /\ ticks = 0
  /\ during \in StmtRanges /\ vd \in ViewRanges /\ whole = during
  /\ pc = "merge"

(* The view has no range, or the statement has none. *)
Keep ==
  /\ pc = "merge"
  /\ \/ vd = <<>> /\ UNCHANGED during
     \/ vd # <<>> /\ during = <<>> /\ during' = vd
  /\ pc' = "done"
  /\ UNCHANGED <<zone, clock, today, vd, whole, ticks>>

AfterStmt == IF Len(vd) = 1 THEN "view" ELSE "clip"
Merge ==
  /\ pc = "merge" /\ vd # <<>> /\ during # <<>>
  /\ pc' = IF Len(during) = 1 THEN "stmt" ELSE AfterStmt
  /\ UNCHANGED <<zone, clock, today, during, vd, whole, ticks>>

(* today := time.Now(), first line of duringLiteralToDates. *)
ReadClock ==
  /\ pc \in {"stmt", "view"} /\ today = NoTime
  /\ today' = clock
  /\ UNCHANGED <<zone, clock, pc, during, vd, whole, ticks>>

ConvertStmt ==
  /\ pc = "stmt" /\ today # NoTime
  /\ during' = DuringLiteralToDates(zone, during[1], today, clock)
  /\ whole' = during' /\ today' = NoTime
  /\ pc' = AfterStmt
  /\ UNCHANGED <<zone, clock, vd, ticks>>

ConvertView ==
  /\ pc = "view" /\ today # NoTime
  /\ vd' = DuringLiteralToDates(zone, vd[1], today, clock)
  /\ pc' = "clip" /\ today' = NoTime
  /\ UNCHANGED <<zone, clock, during, whole, ticks>>

Clip ==
  /\ pc = "clip"
  /\ IF OutRange(during, vd)
       THEN pc' = "error" /\ UNCHANGED during
       ELSE pc' = "done" /\ during' = Cut(during, vd)
  /\ UNCHANGED <<zone, clock, today, vd, whole, ticks>>

Tick ==
  /\ pc \in {"stmt", "view"} /\ ticks < MaxTicks
  /\ clock' = clock + 1 /\ ticks' = ticks + 1
  /\ UNCHANGED <<zone, today, pc, during, vd, whole>>

Next == Keep \/ Merge \/ ReadClock \/ ConvertStmt \/ ConvertView \/ Clip \/ Tick

Spec == Init /\ [][Next]_vars

----------------------------------------------------------------------------
(* Promises.                                                                 *)

(* Days n of the range d. *)
In(n, d) == d[1] <= n /\ n <= d[2]
Merged == pc = "done" /\ whole # <<>> /\ vd # <<>>

(* "prevents to go out of view's scope": what is asked of the API, when both *)
(* have a range, has no day that the statement or the view does not have.    *)
NoOtherDay ==
  Merged => \A n \in during[1]..during[2] : In(n, whole) /\ In(n, vd)

(* No day that both have is lost, and only ranges without one are refused.   *)
NoDayLost ==
  /\ Merged => \A n \in vd[1]..vd[2] : In(n, whole) => In(n, during)
  /\ pc = "error" => \A n \in vd[1]..vd[2] : ~In(n, whole)

(* The past weeks are whole ones: each begins on its first day, has seven    *)
(* days and ends with the day before this week begins.  The business week    *)
(* has the five working days of LAST_WEEK and its Saturday, though the code  *)
(* calls its end friday (statement.go:374), and no day of another week.      *)
(* They may begin a day or a week early, or last a day longer, where clocks  *)
(* differ from UTC by no whole hour, or were changed within the last weeks,  *)
(* because hours are cut in UTC and days have 24 hours (now.go:17).          *)
Steady == zone.east % 2 = 0 /\ zone.more % 2 = 0 /\ zone.change \notin (today - 16 * 48)..(today + 48)
WeekBefore(r, first) ==
  Weekday(r[1]) = first /\ r[1] + 6 < Day(zone, today) /\ Day(zone, today) <= r[1] + 13
PastWeeksAreWhole ==
  pc = "stmt" /\ today # NoTime /\ Steady =>
    LET r == DuringLiteralToDates(zone, during[1], today, clock)
    IN  /\ during[1] = "LAST_WEEK"          => WeekBefore(r, 1) /\ r[2] = r[1] + 6
        /\ during[1] = "LAST_WEEK_SUN_SAT"  => WeekBefore(r, 0) /\ r[2] = r[1] + 6
        /\ during[1] = "LAST_BUSINESS_WEEK" => WeekBefore(r, 1) /\ r[2] = r[1] + 5
=============================================================================
