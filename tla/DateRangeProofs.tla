-------------------------- MODULE DateRangeProofs --------------------------
(* Proofs about DateRange: whatever the ranges, the zone and the moments,    *)
(* the merge neither adds nor loses a day.                                   *)
EXTENDS DateRange, TLAPS

Inv ==
  /\ TypeOK
  /\ pc \in {"merge", "stmt", "view", "clip"} => whole = during
  /\ pc \in {"stmt", "view", "clip"} => vd # <<>>
  /\ pc = "error" => vd \in Dates /\ whole \in Dates
  /\ Merged => during \in Dates /\ vd \in Dates /\ whole \in Dates
  /\ NoOtherDay
  /\ NoDayLost

(* What kind of range one has is told by its length. *)
LEMMA RangeKinds ==
  ASSUME NEW r \in Ranges
  PROVE  /\ r # <<>> /\ Len(r) # 1 => r \in Dates
         /\ Len(r) = 1 => r # <<>> /\ r[1] \in Literals
<1>1. CASE r = <<>>
  BY <1>1
<1>2. CASE \E l \in Literals : r = <<l>>
  BY <1>2
<1>3. CASE r \in Dates
  BY <1>3 DEF Dates
<1> QED
  BY <1>1, <1>2, <1>3 DEF Ranges

(* Moments and days are numbers. *)
LEMMA MomentsAreNumbers ==
  ASSUME NEW z \in Zones, NEW u \in Int
  PROVE  /\ Offset(z, u) \in Int /\ Local(z, u) \in Int /\ Day(z, u) \in Int /\ At(z, u) \in Int
         /\ \A n \in Int : AddDate(z, u, n) \in Int
         /\ BeginningOfDay(z, u) \in Int
         /\ \A first \in {0, 1} : BeginningOfWeek(z, u, first) \in Int /\ EndOfWeek(z, u, first) \in Int
         /\ Monday(z, u) \in Int /\ Sunday(z, u) \in Int /\ BeginningOfMonth(z, u) \in Int
<1>1. \A x \in Int : Offset(z, x) \in Int
  BY TimeAssumption DEF Offset
<1>2. \A x \in Int : Local(z, x) \in Int
  BY <1>1 DEF Local
<1>3. \A x \in Int : Day(z, x) \in Int
  BY <1>2 DEF Day
<1>4. \A x \in Int : At(z, x) \in Int
  <2> TAKE x \in Int
  <2>1. x - Offset(z, x) \in Int
    BY <1>1
  <2>2. Offset(z, x - Offset(z, x)) \in Int
    BY <1>1, <2>1
  <2> QED
    BY <2>2 DEF At
<1>5. \A x, n \in Int : AddDate(z, x, n) \in Int
  BY <1>2, <1>4 DEF AddDate
<1>6. \A x \in Int : BeginningOfDay(z, x) \in Int
  BY <1>2 DEF BeginningOfDay
<1>7. \A first \in {0, 1} : BeginningOfWeek(z, u, first) \in Int
  BY <1>3, <1>6 DEF BeginningOfWeek, DaysBack, Weekday
<1>8. \A first \in {0, 1} : EndOfWeek(z, u, first) \in Int
  <2> TAKE first \in {0, 1}
  <2>1. BeginningOfWeek(z, u, first) \in Int /\ 7 \in Int
    BY <1>7
  <2>2. AddDate(z, BeginningOfWeek(z, u, first), 7) \in Int
    BY <1>5, <2>1
  <2> QED
    BY <2>2 DEF EndOfWeek
<1>9. Monday(z, u) \in Int /\ Sunday(z, u) \in Int
  BY <1>3, <1>6, <1>7 DEF Monday, Sunday, Weekday
<1>10. BeginningOfMonth(z, u) \in Int
  BY <1>3, <1>6, TimeAssumption DEF BeginningOfMonth
<1> QED
  BY <1>1, <1>2, <1>3, <1>4, <1>5, <1>6, <1>7, <1>8, <1>9, <1>10

LEMMA ConvertedType ==
  ASSUME NEW z \in Zones, NEW l \in Literals, NEW t \in Int, NEW c \in Int
  PROVE  DuringLiteralToDates(z, l, t, c) \in Dates
<1> DEFINE m == LiteralToMoments(z, l, t, c)
           ago == AddDate(z, t, -7)
           monday == BeginningOfWeek(z, ago, 1)
<1>1. ago \in Int /\ \A n \in Int : AddDate(z, t, n) \in Int
  BY MomentsAreNumbers
<1>2. monday \in Int /\ EndOfWeek(z, ago, 1) \in Int /\ AddDate(z, monday, 5) \in Int
      /\ BeginningOfWeek(z, ago, 0) \in Int /\ EndOfWeek(z, ago, 0) \in Int
  BY <1>1, MomentsAreNumbers
<1>3. Monday(z, c) \in Int /\ Sunday(z, c) \in Int /\ BeginningOfMonth(z, c) \in Int
  BY MomentsAreNumbers
<1> HIDE DEF ago, monday
<1>4. m \in Int \X Int
  <2>1. CASE l = "LAST_WEEK"
    <3>1. m = <<monday, EndOfWeek(z, ago, 1)>>
      BY <2>1 DEF LiteralToMoments, ago, monday
    <3> QED
      BY <1>2, <3>1
  <2>2. CASE l = "LAST_BUSINESS_WEEK"
    <3>1. m = <<monday, AddDate(z, monday, 5)>>
      BY <2>2 DEF LiteralToMoments, ago, monday
    <3> QED
      BY <1>2, <3>1
  <2>3. CASE l = "LAST_WEEK_SUN_SAT"
    <3>1. m = <<BeginningOfWeek(z, ago, 0), EndOfWeek(z, ago, 0)>>
      BY <2>3 DEF LiteralToMoments, ago, monday
    <3> QED
      BY <1>2, <3>1
  <2>4. CASE l \in {"TODAY", "YESTERDAY", "LAST_7_DAYS", "LAST_14_DAYS", "LAST_30_DAYS"}
    <3>1. m \in {<<t, t>>, <<AddDate(z, t, -1), AddDate(z, t, -1)>>, <<ago, t>>,
                 <<AddDate(z, t, -14), t>>, <<AddDate(z, t, -30), t>>}
      BY <2>4 DEF LiteralToMoments, ago
    <3>2. -1 \in Int /\ -14 \in Int /\ -30 \in Int
      OBVIOUS
    <3>3. AddDate(z, t, -1) \in Int /\ AddDate(z, t, -14) \in Int /\ AddDate(z, t, -30) \in Int
      BY <1>1, <3>2
    <3> QED
      BY <1>1, <3>1, <3>3
  <2>5. CASE l \in {"THIS_WEEK_SUN_TODAY", "THIS_WEEK_MON_TODAY", "THIS_MONTH"}
    <3>1. m \in {<<Sunday(z, c), t>>, <<Monday(z, c), t>>, <<BeginningOfMonth(z, c), t>>}
      BY <2>5 DEF LiteralToMoments
    <3> QED
      BY <1>3, <3>1
  <2> QED
    BY <2>1, <2>2, <2>3, <2>4, <2>5 DEF Literals
<1> HIDE DEF m
<1>5. Day(z, m[1]) \in Int /\ Day(z, m[2]) \in Int
  BY <1>4, MomentsAreNumbers
<1> QED
  BY <1>5 DEF DuringLiteralToDates, Dates, m

(* The arithmetic of the cut. *)
LEMMA CutProperties ==
  ASSUME NEW d \in Dates, NEW v \in Dates
  PROVE  /\ Cut(d, v) \in Dates
         /\ \A n \in Cut(d, v)[1]..Cut(d, v)[2] : In(n, d) /\ In(n, v)
         /\ \A n \in v[1]..v[2] : In(n, d) => In(n, Cut(d, v))
         /\ OutRange(d, v) => \A n \in v[1]..v[2] : ~In(n, d)
<1>1. d[1] \in Int /\ d[2] \in Int /\ v[1] \in Int /\ v[2] \in Int
  BY DEF Dates
<1>2. Cut(d, v) \in Dates
  BY <1>1 DEF Cut, Dates
<1>3. /\ Cut(d, v)[1] = IF d[1] < v[1] THEN v[1] ELSE d[1]
      /\ Cut(d, v)[2] = IF d[2] > v[2] THEN v[2] ELSE d[2]
  BY DEF Cut
<1>4. \A n \in Cut(d, v)[1]..Cut(d, v)[2] : In(n, d) /\ In(n, v)
  BY <1>1, <1>3 DEF In
<1>5. \A n \in v[1]..v[2] : In(n, d) => In(n, Cut(d, v))
  BY <1>1, <1>3 DEF In
<1>6. OutRange(d, v) => \A n \in v[1]..v[2] : ~In(n, d)
  BY <1>1 DEF In, OutRange
<1> QED
  BY <1>2, <1>4, <1>5, <1>6

LEMMA InitInv == Init => Inv
BY TimeAssumption, RangeAssumption DEF Init, Inv, TypeOK, Merged, NoOtherDay, NoDayLost

LEMMA StepInv == Inv /\ [Next]_vars => Inv'
<1> SUFFICES ASSUME Inv, [Next]_vars PROVE Inv'
  OBVIOUS
<1> USE DEF Inv, TypeOK
<1>0. /\ during # <<>> /\ Len(during) # 1 => during \in Dates
      /\ Len(during) = 1 => during # <<>> /\ during[1] \in Literals
      /\ vd # <<>> /\ Len(vd) # 1 => vd \in Dates
      /\ Len(vd) = 1 => vd # <<>> /\ vd[1] \in Literals
  BY RangeKinds
<1>1. CASE Keep
  BY <1>1 DEF Keep, Merged, NoOtherDay, NoDayLost
<1>2. CASE Merge
  BY <1>0, <1>2 DEF Merge, AfterStmt, Merged, NoOtherDay, NoDayLost
<1>3. CASE ReadClock
  BY <1>3 DEF ReadClock, Merged, NoOtherDay, NoDayLost
<1>4. CASE ConvertStmt
  <2>1. during' \in Dates
    BY <1>0, <1>4, ConvertedType DEF ConvertStmt
  <2>2. during' \in Ranges
    BY <2>1 DEF Ranges
  <2>3. vd # <<>>
    BY <1>4 DEF ConvertStmt
  <2> QED
    BY <1>0, <1>4, <2>1, <2>2, <2>3 DEF ConvertStmt, AfterStmt, Merged, NoOtherDay, NoDayLost
<1>5. CASE ConvertView
  <2>1. vd' \in Dates
    BY <1>0, <1>5, ConvertedType DEF ConvertView
  <2>2. vd' \in Ranges
    BY <2>1 DEF Ranges
  <2>3. vd' # <<>>
    BY <2>1 DEF Dates
  <2> QED
    BY <1>5, <2>1, <2>2, <2>3 DEF ConvertView, Merged, NoOtherDay, NoDayLost
<1>6. CASE Clip
  <2>1. during \in Dates /\ vd \in Dates /\ whole = during
    BY <1>6 DEF Clip
  <2>2. CASE OutRange(during, vd) /\ pc' = "error" /\ UNCHANGED during
    BY <1>6, <2>1, <2>2, CutProperties DEF Clip, Merged, NoOtherDay, NoDayLost
  <2>3. CASE pc' = "done" /\ during' = Cut(during, vd)
    <3>1. during' \in Dates /\ during' \in Ranges
      BY <2>1, <2>3, CutProperties DEF Ranges
    <3>2. NoOtherDay' /\ NoDayLost'
      BY <1>6, <2>1, <2>3, CutProperties DEF Clip, NoOtherDay, NoDayLost
    <3> QED
      BY <1>6, <2>1, <2>3, <3>1, <3>2 DEF Clip
  <2> QED
    BY <1>6, <2>2, <2>3 DEF Clip
<1>7. CASE Tick
  BY <1>7, TimeAssumption DEF Tick, Merged, NoOtherDay, NoDayLost
<1>8. CASE UNCHANGED vars
  BY <1>8 DEF vars, Merged, NoOtherDay, NoDayLost
<1> QED
  BY <1>1, <1>2, <1>3, <1>4, <1>5, <1>6, <1>7, <1>8 DEF Next

LEMMA SpecInv == Spec => []Inv
  BY InitInv, StepInv, PTL DEF Spec

(* Every range is one of its kinds, and dates when it is compared. *)
THEOREM TypeCorrect == Spec => []TypeOK
<1>1. Inv => TypeOK
  BY DEF Inv
<1> QED
  BY <1>1, SpecInv, PTL

(* No day is asked of the API that the statement or the view does not have. *)
THEOREM NoOtherDayHolds == Spec => []NoOtherDay
<1>1. Inv => NoOtherDay
  BY DEF Inv
<1> QED
  BY <1>1, SpecInv, PTL

(* No day that both have is lost, and no range that shares a day is refused. *)
THEOREM NoDayLostHolds == Spec => []NoDayLost
<1>1. Inv => NoDayLost
  BY DEF Inv
<1> QED
  BY <1>1, SpecInv, PTL

(* Days of 48 half hours. *)
LEMMA DayIs ==
  /\ \A x \in Int : x \div 48 \in Int /\ x % 48 \in 0..47 /\ x = 48 * (x \div 48) + (x % 48)
  /\ \A k \in Int : \A j \in 0..47 : (48 * k + j) \div 48 = k
<1>1. \A x \in Int : x \div 48 \in Int /\ x % 48 \in 0..47 /\ x = 48 * (x \div 48) + (x % 48)
  OBVIOUS
<1>2. \A k \in Int : \A j \in 0..47 : (48 * k + j) \div 48 = k
  OBVIOUS
<1> QED
  BY <1>1, <1>2

(* Where hours begin with those of UTC, a day begins at midnight. *)
LEMMA HourIs ==
  ASSUME NEW u \in Int, NEW o \in Int, o % 2 = 0
  PROVE  (u - (u % 2)) - 2 * (((u + o) % 48) \div 2) = 48 * ((u + o) \div 48) - o
<1> DEFINE q == (u + o) \div 48
           m == (u + o) % 48
           h == m \div 2
<1>1. q \in Int /\ m \in 0..47 /\ u + o = 48 * q + m
  BY DayIs
<1> HIDE DEF q, m
<1>2. h \in Int /\ m = 2 * h + (m % 2) /\ m % 2 \in 0..1
  BY <1>1
<1> HIDE DEF h
<1>3. PICK p \in Int : o = 2 * p
  <2>1. o = 2 * (o \div 2) + (o % 2) /\ o \div 2 \in Int
    OBVIOUS
  <2> QED
    BY <2>1
<1>4. u = 2 * (24 * q + h - p) + (m % 2)
  BY <1>1, <1>2, <1>3
<1>5. u % 2 = m % 2
  BY <1>1, <1>2, <1>3, <1>4
<1>6. (u - (u % 2)) - 2 * h = 48 * q - o
  BY <1>1, <1>2, <1>5
<1> QED
  BY <1>6 DEF q, m, h

(* The first day of the week of a day. *)
LEMMA WeekIs ==
  ASSUME NEW d \in Int, NEW first \in {0, 1}, NEW w, w = (Weekday(d) + 7 - first) % 7
  PROVE  w \in 0..6 /\ Weekday(d - w) = first
<1>1. PICK v \in 0..6, q \in Int : d = 7 * q + v /\ v = Weekday(d)
  <2>1. d % 7 \in 0..6 /\ d \div 7 \in Int /\ d = (7 * (d \div 7)) + (d % 7)
    OBVIOUS
  <2> QED
    BY <2>1 DEF Weekday
<1>4. d = 7 * q + v
  BY <1>1, Zenon
<1>2. CASE first = 0
  <2>1. w = v
    BY <1>1, <1>2
  <2>2. (7 * q) % 7 = 0 /\ d - w = 7 * q
    BY <1>1, <2>1
  <2> QED
    BY <1>1, <1>2, <2>1, <2>2 DEF Weekday
<1>3. CASE first = 1
  <2>1. CASE v = 0
    <3>1. (v + 7 - first) % 7 = 6
      BY <1>3, <2>1
    <3>4. w = 6
      BY <1>1, <3>1, Zenon
    <3>5. d = 7 * q
      BY <1>4, <2>1
    <3>6. d - 6 = 7 * (q - 1) + 1
      BY <3>5
    <3>3. w = 6 /\ d - w = 7 * (q - 1) + 1
      BY <3>4, <3>6
    <3>2. (7 * (q - 1) + 1) % 7 = 1
      OBVIOUS
    <3> QED
      BY <1>3, <3>2, <3>3 DEF Weekday
  <2>2. CASE v # 0
    <3>1. w = v - 1
      BY <1>1, <1>3, <2>2
    <3>2. d - w = 7 * q + 1 /\ (7 * q + 1) % 7 = 1
      BY <1>1, <3>1
    <3> QED
      BY <1>1, <1>3, <2>2, <3>1, <3>2 DEF Weekday
  <2> QED
    BY <2>1, <2>2
<1> QED
  BY <1>2, <1>3

SteadyAt(z, t) == z.east % 2 = 0 /\ z.more % 2 = 0 /\ z.change \notin (t - 16 * 48)..(t + 48)
(* Where clocks are steady, the week before that of a day has its days. *)
LEMMA WeekBeforeIs ==
  ASSUME NEW z \in Zones, NEW t \in Int, SteadyAt(z, t), NEW first \in {0, 1}
  PROVE  LET v == AddDate(z, t, -7)
             b == BeginningOfWeek(z, v, first)
             d == Day(z, b)
         IN  /\ d \in Int /\ Weekday(d) = first /\ d + 6 < Day(z, t) /\ Day(z, t) <= d + 13
             /\ Day(z, EndOfWeek(z, v, first)) = d + 6
             /\ Day(z, AddDate(z, b, 5)) = d + 5
<1> DEFINE o == Offset(z, t)
           Near(u) == u \in Int /\ u >= t - 768 /\ u <= t + 48
<1>1. o \in -32..32 /\ o % 2 = 0 /\ \A u : Near(u) => Offset(z, u) = o
  <2>1. z.east \in -28..28 /\ z.more \in -4..4 /\ z.change \in Int
    BY TimeAssumption
  <2>2. z.change < t - 768 \/ z.change > t + 48
    BY <2>1 DEF SteadyAt
  <2>3. \A u : Near(u) => (u < z.change <=> t < z.change)
    BY <2>1, <2>2
  <2>4. (z.east + z.more) % 2 = 0 /\ z.east % 2 = 0
    BY <2>1 DEF SteadyAt
  <2> QED
    BY <2>1, <2>3, <2>4 DEF Offset
<1> HIDE DEF o
<1>2. \A u : Near(u) => Local(z, u) = u + o /\ Day(z, u) = (u + o) \div 48
  BY <1>1 DEF Local, Day
<1>3. ASSUME NEW u \in Int, NEW n \in -7..7, u >= t - 720, u <= t, u + 48 * n >= t - 720, u + 48 * n <= t
      PROVE  AddDate(z, u, n) = u + 48 * n
  <2>1. Near(u) /\ Near(u + o + 48 * n) /\ Near(u + 48 * n)
    BY <1>1, <1>3
  <2>2. Local(z, u) + 48 * n = u + o + 48 * n /\ (u + o + 48 * n) - o = u + 48 * n
    BY <1>1, <1>2, <1>3, <2>1
  <2>3. Offset(z, u + o + 48 * n) = o /\ Offset(z, u + 48 * n) = o
    BY <1>1, <2>1
  <2>4. At(z, u + o + 48 * n) = u + 48 * n
    BY <1>1, <1>3, <2>2, <2>3 DEF At
  <2> QED
    BY <2>2, <2>4 DEF AddDate
<1>4. PICK q \in Int, m \in 0..47 : t + o = 48 * q + m /\ Day(z, t) = q
  <2>1. Near(t)
    OBVIOUS
  <2>2. Day(z, t) = (t + o) \div 48 /\ t + o \in Int
    BY <1>1, <1>2, <2>1
  <2> QED
    BY <2>2, DayIs
<1> DEFINE v == AddDate(z, t, -7)
           a == BeginningOfDay(z, v)
           w == DaysBack(z, v, first)
           b == BeginningOfWeek(z, v, first)
           e == EndOfWeek(z, v, first)
<1>5. v = t - 336
  BY <1>3
<1> HIDE DEF v
<1>6. a = 48 * (q - 7) - o /\ Day(z, a) = q - 7
  <2>1. v \in Int /\ Near(v)
    BY <1>5
  <2>2. Local(z, v) = v + o /\ v + o = 48 * (q - 7) + m
    BY <1>1, <1>2, <1>4, <1>5, <2>1
  <2>3. (v + o) \div 48 = q - 7
    BY <2>2, DayIs
  <2>4. a = 48 * ((v + o) \div 48) - o
    <3>1. a = (v - (v % 2)) - 2 * (((v + o) % 48) \div 2)
      BY <2>2 DEF BeginningOfDay
    <3>2. o \in Int /\ o % 2 = 0
      BY <1>1
    <3>3. (v - (v % 2)) - 2 * (((v + o) % 48) \div 2) = 48 * ((v + o) \div 48) - o
      BY <2>1, <3>2, HourIs
    <3> QED
      BY <3>1, <3>3
  <2>5. a = 48 * (q - 7) - o
    BY <2>3, <2>4
  <2> HIDE DEF a
  <2>6. Near(a)
    BY <1>1, <1>4, <2>5
  <2>7. a + o = 48 * (q - 7) + 0
    BY <1>1, <2>5
  <2>8. (a + o) \div 48 = q - 7
    BY <2>7, DayIs
  <2> QED
    BY <1>2, <2>5, <2>6, <2>8
<1> HIDE DEF a
<1>7. w \in 0..6 /\ Weekday(q - 7 - w) = first
  <2>1. w = (Weekday(q - 7) + 7 - first) % 7
    BY <1>6 DEF DaysBack, a
  <2> HIDE DEF w
  <2> QED
    BY <2>1, WeekIs
<1>8. b = a - 48 * w
  BY DEF BeginningOfWeek, a, w
<1> HIDE DEF b, w
<1>9. b = 48 * (q - 7 - w) - o /\ b \in Int
  BY <1>1, <1>6, <1>7, <1>8
<1>10. Day(z, b) = q - 7 - w
  <2>1. Near(b) /\ b + o = 48 * (q - 7 - w) + 0 /\ q - 7 - w \in Int
    BY <1>1, <1>4, <1>7, <1>9
  <2>2. (b + o) \div 48 = q - 7 - w
    BY <2>1, DayIs
  <2> QED
    BY <1>2, <2>1, <2>2
<1>11. ASSUME NEW n \in {5, 7} PROVE AddDate(z, b, n) = 48 * (q - 7 - w + n) - o
  <2>1. /\ b >= t - 720 /\ b <= t /\ b + 48 * n >= t - 720 /\ b + 48 * n <= t /\ n \in -7..7
        /\ b + 48 * n = 48 * (q - 7 - w + n) - o
    BY <1>1, <1>4, <1>7, <1>9
  <2> QED
    BY <1>3, <1>9, <2>1
<1>12. e = 48 * (q - w) - o - 1
  <2>1. e = AddDate(z, b, 7) - 1
    BY DEF EndOfWeek, e, b
  <2> QED
    BY <1>1, <1>7, <1>11, <2>1
<1> HIDE DEF e
<1>13. Day(z, e) = q - w - 1
  <2>1. Near(e) /\ e + o = 48 * (q - w - 1) + 47 /\ q - w - 1 \in Int
    BY <1>1, <1>4, <1>7, <1>12
  <2>2. (e + o) \div 48 = q - w - 1
    BY <2>1, DayIs
  <2> QED
    BY <1>2, <2>1, <2>2
<1>14. Day(z, AddDate(z, b, 5)) = q - 2 - w
  <2> DEFINE f == AddDate(z, b, 5)
  <2>1. f = 48 * (q - 7 - w + 5) - o
    BY <1>11
  <2> HIDE DEF f
  <2>2. Near(f) /\ f + o = 48 * (q - 2 - w) + 0 /\ q - 2 - w \in Int
    BY <1>1, <1>4, <1>7, <2>1
  <2>3. (f + o) \div 48 = q - 2 - w
    BY <2>2, DayIs
  <2>4. Day(z, f) = q - 2 - w
    BY <1>2, <2>2, <2>3
  <2> QED
    BY <2>4 DEF f
<1>15. /\ q - 7 - w \in Int /\ q - 7 - w + 6 < q /\ q <= q - 7 - w + 13
       /\ q - w - 1 = q - 7 - w + 6 /\ q - 2 - w = q - 7 - w + 5
  BY <1>4, <1>7
<1> QED
  BY <1>4, <1>7, <1>10, <1>13, <1>14, <1>15 DEF b, e, v

(* A past week has all its days, none of this week, and the business week    *)
(* its five working days and a Saturday, on whatever day and whenever        *)
(* midnight falls, where clocks are whole hours from UTC and unchanged.      *)
THEOREM PastWeeksAreWholeHolds == Spec => []PastWeeksAreWhole
<1>1. Inv => PastWeeksAreWhole
  <2> SUFFICES ASSUME Inv, pc = "stmt", today # NoTime, Steady PROVE PastWeeksAreWhole
    BY DEF PastWeeksAreWhole
  <2> DEFINE r == DuringLiteralToDates(zone, during[1], today, clock)
             ago == AddDate(zone, today, -7)
             b == BeginningOfWeek(zone, ago, 1)
             c == BeginningOfWeek(zone, ago, 0)
  <2>1. today \in Int /\ zone \in Zones /\ SteadyAt(zone, today)
    BY DEF Inv, TypeOK, Steady, SteadyAt
  <2>2. /\ WeekBefore(<<Day(zone, b)>>, 1) /\ Day(zone, EndOfWeek(zone, ago, 1)) = Day(zone, b) + 6
        /\ Day(zone, AddDate(zone, b, 5)) = Day(zone, b) + 5
        /\ WeekBefore(<<Day(zone, c)>>, 0) /\ Day(zone, EndOfWeek(zone, ago, 0)) = Day(zone, c) + 6
    BY <2>1, WeekBeforeIs DEF WeekBefore
  <2>3. during[1] = "LAST_WEEK" => r = <<Day(zone, b), Day(zone, EndOfWeek(zone, ago, 1))>>
    BY DEF DuringLiteralToDates, LiteralToMoments
  <2>4. during[1] = "LAST_WEEK_SUN_SAT" => r = <<Day(zone, c), Day(zone, EndOfWeek(zone, ago, 0))>>
    BY DEF DuringLiteralToDates, LiteralToMoments
  <2>5. during[1] = "LAST_BUSINESS_WEEK" => r = <<Day(zone, b), Day(zone, AddDate(zone, b, 5))>>
    BY DEF DuringLiteralToDates, LiteralToMoments
  <2> HIDE DEF r, b, c, ago
  <2>6. during[1] = "LAST_WEEK" => WeekBefore(r, 1) /\ r[2] = r[1] + 6
    BY <2>2, <2>3 DEF WeekBefore
  <2>7. during[1] = "LAST_WEEK_SUN_SAT" => WeekBefore(r, 0) /\ r[2] = r[1] + 6
    BY <2>2, <2>4 DEF WeekBefore
  <2>8. during[1] = "LAST_BUSINESS_WEEK" => WeekBefore(r, 1) /\ r[2] = r[1] + 5
    BY <2>2, <2>5 DEF WeekBefore
  <2> QED
    BY <2>6, <2>7, <2>8 DEF PastWeeksAreWhole, r
<1>2. QED
  BY SpecInv, <1>1, PTL
=============================================================================
