------------------------------ MODULE QueryCalendar ------------------------------
(****************************************************************************)
(* The time of a question.  query_understanding.py turns the time the model *)
(* read out of a question into a half-open window of days; after the SQL    *)
(* ran, result_time.py reads the days back out of its WHERE clause and      *)
(* names the period of every row.  Both halves are pure; the module asks,   *)
(* writes a WHERE clause and reads it back, and checks that nothing shifts. *)
(* A day is its proleptic Gregorian ordinal (date.toordinal), a month the   *)
(* number 12 * year + (month - 1) that _shift_month uses.                   *)
(****************************************************************************)
EXTENDS Integers, Sequences, FiniteSetsExt

CONSTANTS MinYear, MaxYear,   \* the years datetime.date supports: 1 and 9999 in Python
          Todays,             \* the local dates a question is asked on
          TimeExpressions,    \* the time expressions asked
          Clauses             \* the WHERE clauses read back: sequences of predicates

ASSUME YearAssumption == MinYear \in Nat /\ MaxYear \in Nat /\ 1 <= MinYear /\ MinYear < MaxYear

VARIABLES asked,     \* the expression and the day it was asked on, or NoQuestion
          window,    \* what _validate_time made of it
          clause,    \* the predicates of the SQL's WHERE clause
          period     \* what actual_date_range read out of them

calVars == <<asked, window, clause, period>>

------------------------------------------------------------------------------
(* datetime.date *)

Leap(y) == y % 4 = 0 /\ (y % 100 # 0 \/ y % 400 = 0)

\* The length of month m of a year.
DaysIn(y, m) == IF m = 2 THEN (IF Leap(y) THEN 29 ELSE 28)
                ELSE IF m \in {4, 6, 9, 11} THEN 30 ELSE 31

Months == MinYear * 12 .. MaxYear * 12 + 11

\* The ordinal of the first day of a month, the one after the last included.
FirstDay[k \in MinYear * 12 .. MaxYear * 12 + 12] ==
  IF k = MinYear * 12
  THEN (MinYear - 1) * 365 + (MinYear - 1) \div 4 - (MinYear - 1) \div 100
         + (MinYear - 1) \div 400 + 1
  ELSE FirstDay[k - 1] + DaysIn((k - 1) \div 12, ((k - 1) % 12) + 1)

Days == FirstDay[MinYear * 12] .. FirstDay[MaxYear * 12 + 12] - 1

\* The month a day is in, its calendar year, month and quarter.
MonthOf == [d \in Days |-> CHOOSE k \in Months : FirstDay[k] <= d /\ d < FirstDay[k + 1]]
Year(d) == MonthOf[d] \div 12
Month(d) == (MonthOf[d] % 12) + 1
Quarter(d) == (Month(d) - 1) \div 3 + 1
Weekday(d) == (d + 6) % 7

\* date(y, m, d): the ordinal, or Raised outside the calendar.
Raised == -1
Date(y, m, d) == IF y \in MinYear .. MaxYear /\ m \in 1 .. 12 /\ d \in 1 .. DaysIn(y, m)
                 THEN FirstDay[y * 12 + m - 1] + d - 1 ELSE Raised

\* date + timedelta(days=n)
Plus(d, n) == IF d # Raised /\ d + n \in Days THEN d + n ELSE Raised

------------------------------------------------------------------------------
(* query_understanding.py *)

CannotAnswer == [is |-> "CANNOT_ANSWER"]
Unhandled == [is |-> "ERROR"]   \* ValueError or OverflowError left uncaught
Window(g, s, e) == [is |-> "ok", grain |-> g, start |-> s, end |-> e]

\* A window whose arithmetic is inside the handler's try, and one whose is not.
Guarded(g, s, e) == IF Raised \in {s, e} THEN CannotAnswer ELSE Window(g, s, e)
Unguarded(g, s, e) == IF Raised \in {s, e} THEN Unhandled ELSE Window(g, s, e)

QuarterStart(k) == (k \div 3) * 3

\* _shift_month on a month number: the first day of the month k.
ShiftMonth(k) == Date(k \div 12, (k % 12) + 1, 1)

\* A numeral is [n |-> n] in Arabic digits, or [han |-> s] with s over 1..9 and 10 (ten),
\* 100 (hundred), the characters RECENT_MONTHS_PATTERN lets through.
ParsePositiveNumber(v) ==
  IF "n" \in DOMAIN v THEN v.n
  ELSE LET s == v.han
           n == Len(s)
       IN CASE s = <<10>> -> 10
            [] s # <<10>> /\ Head(s) = 10 ->
                 IF n = 2 /\ s[2] \in 1 .. 9 THEN 10 + s[2] ELSE 0
            [] Head(s) # 10 /\ s[n] = 10 ->
                 IF n = 2 /\ s[1] \in 1 .. 9 THEN s[1] * 10 ELSE 0
            [] OTHER ->
                 IF n = 3 /\ s[2] = 10 /\ s[1] \in 1 .. 9 /\ s[3] \in 1 .. 9
                 THEN s[1] * 10 + s[3]
                 ELSE IF n = 1 /\ s[1] \in 1 .. 9 THEN s[1] ELSE 0

RelativeWindow(form, today) ==
  LET k == MonthOf[today]
      q == QuarterStart(k)
      y == Year(today)
      monday == today - Weekday(today)
  IN CASE form = "today" -> Unguarded("day", today, Plus(today, 1))
       [] form = "yesterday" -> Unguarded("day", Plus(today, -1), today)
       [] form = "day_before" -> Unguarded("day", Plus(today, -2), Plus(today, -1))
       [] form = "this_week" -> Unguarded("week", Plus(monday, 0), Plus(monday, 7))
       [] form = "last_week" -> Unguarded("week", Plus(monday, -7), Plus(monday, 0))
       [] form = "this_month" -> Unguarded("month", FirstDay[k], ShiftMonth(k + 1))
       [] form = "last_month" -> Unguarded("month", ShiftMonth(k - 1), FirstDay[k])
       [] form = "this_quarter" -> Unguarded("quarter", FirstDay[q], ShiftMonth(q + 3))
       [] form = "last_quarter" -> Unguarded("quarter", ShiftMonth(q - 3), FirstDay[q])
       [] form = "this_year" -> Unguarded("year", Date(y, 1, 1), Date(y + 1, 1, 1))
       [] form = "last_year" -> Unguarded("year", Date(y - 1, 1, 1), Date(y, 1, 1))

\* 最近N天: the days up to and including today; today + 1 is outside the try.
RecentDays(n, today) ==
  IF Plus(today, 1 - n) = Raised THEN CannotAnswer
  ELSE Unguarded("day", Plus(today, 1 - n), Plus(today, 1))

RecentMonths(n, today) ==
  LET k == MonthOf[today]
  IN IF n < 1 THEN CannotAnswer
     ELSE Guarded("month", ShiftMonth(k - (n - 1)), ShiftMonth(k + 1))

\* Both ends are dates written out, the second one included in the range.
DateRange(from, to) ==
  LET start == Date(from[1], from[2], from[3])
      last == Date(to[1], to[2], to[3])
  IN CASE Raised \in {start, last} -> CannotAnswer
       [] Raised \notin {start, last} /\ Plus(last, 1) = Raised -> Unhandled
       [] OTHER -> IF start > last THEN CannotAnswer ELSE Window("day", start, Plus(last, 1))

AbsoluteWindow(form, a) ==
  CASE form = "day" ->
         IF Date(a[1], a[2], a[3]) = Raised THEN CannotAnswer
         ELSE Unguarded("day", Date(a[1], a[2], a[3]), Plus(Date(a[1], a[2], a[3]), 1))
    [] form = "month" ->
         Guarded("month", Date(a[1], a[2], 1), ShiftMonth(a[1] * 12 + a[2]))
    [] form = "quarter" ->
         Guarded("quarter", Date(a[1], (a[2] - 1) * 3 + 1, 1),
                 ShiftMonth(a[1] * 12 + (a[2] - 1) * 3 + 3))
    [] form = "year" ->
         IF Date(a[1], 1, 1) = Raised THEN CannotAnswer
         ELSE Unguarded("year", Date(a[1], 1, 1), Date(a[1] + 1, 1, 1))

Relative == {"today", "yesterday", "day_before", "this_week", "last_week", "this_month",
             "last_month", "this_quarter", "last_quarter", "this_year", "last_year"}

ResolveDates(x, today) ==
  CASE x.form \in Relative -> RelativeWindow(x.form, today)
    [] x.form = "recent_days" -> RecentDays(x.at, today)
    [] x.form = "recent_months" -> RecentMonths(ParsePositiveNumber(x.at), today)
    [] x.form = "range" -> DateRange(x.at[1], x.at[2])
    [] x.form \in {"day", "month", "quarter", "year"} -> AbsoluteWindow(x.form, x.at)
    [] OTHER -> CannotAnswer

\* The granularity the model stated must be the one the expression has.
ValidateTime(x, today) ==
  LET w == ResolveDates(x, today)
  IN IF w.is = "ok" /\ w.grain # x.grain THEN CannotAnswer ELSE w

------------------------------------------------------------------------------
(* result_time.py.  A predicate is [col, op, at, to]: at is an ordinal for        *)
(* full_date, a number for year, month and quarter, Raised when the literal does   *)
(* not parse; to is the second literal of a BETWEEN.                                                         *)

NoPeriod == [is |-> "none"]
Parts == {"year", "month", "quarter"}

\* The window one predicate on full_date states; Open is an open end, or a part that is not named.
Open == -2
\* Mutant: a bound that includes its day is read as one that does not.
BoundsExclusive(p) ==
  CASE p.op \in {"between", "="} -> <<p.at, Plus(p.at, 1)>>
    [] p.op \in {">=", ">"} -> <<p.at, Open>>
    [] p.op \in {"<", "<="} -> <<Open, p.at>>

Bounds(p) ==
  CASE p.op = "between" -> <<p.at, Plus(p.to, 1)>>
    [] p.op = "=" -> <<p.at, Plus(p.at, 1)>>
    [] p.op = ">=" -> <<p.at, Open>>
    [] p.op = ">" -> <<Plus(p.at, 1), Open>>
    [] p.op = "<" -> <<Open, p.at>>
    [] p.op = "<=" -> <<Open, Plus(p.at, 1)>>

\* The window the equalities on year, month and quarter state together.
PartBounds(v) ==
  LET y == v["year"]
      m == v["month"]
      q == v["quarter"]
  IN CASE y = Open -> <<Raised, Raised>>
       [] y # Open /\ m # Open ->
            IF q # Open /\ (m - 1) \div 3 + 1 # q THEN <<Raised, Raised>>
            ELSE <<Date(y, m, 1), Date(IF m = 12 THEN y + 1 ELSE y, (m % 12) + 1, 1)>>
       [] y # Open /\ m = Open /\ q # Open ->
            IF q \notin 1 .. 4 THEN <<Raised, Raised>>
            ELSE <<Date(y, (q - 1) * 3 + 1, 1),
                   Date(IF q = 4 THEN y + 1 ELSE y, IF q < 4 THEN q * 3 + 1 ELSE 1, 1)>>
       [] OTHER -> <<Date(y, 1, 1), Date(y + 1, 1, 1)>>

\* Which predicates were understood: an equality on a part, a bound on the date.
ByPart(p) == p.col \in Parts /\ p.op = "="
Reads(p) == IF p.col = "full_date" THEN Raised \notin {Bounds(p)[1], Bounds(p)[2]}
             ELSE ByPart(p) /\ p.at # Raised

ActualDateRange(ps, role) ==
  LET consumed == {i \in DOMAIN ps : Reads(ps[i])}
      parts == {i \in consumed : ps[i].col \in Parts}
      twice == \E i \in parts, j \in DOMAIN ps : i < j /\ ByPart(ps[j]) /\ ps[j].col = ps[i].col
      v == [c \in Parts |-> IF \E i \in parts : ps[i].col = c
                            THEN ps[CHOOSE i \in parts : ps[i].col = c].at ELSE Open]
      stated == {Bounds(ps[i]) : i \in consumed \ parts}
                  \cup (IF parts = {} THEN {} ELSE {PartBounds(v)})
      lows == {b[1] : b \in stated} \ {Open}
      highs == {b[2] : b \in stated} \ {Open}
  IN IF ~role \/ twice \/ <<Raised, Raised>> \in stated \/ Raised \in lows \cup highs
          \/ lows = {} \/ highs = {}
     THEN NoPeriod
     ELSE IF Max(lows) >= Min(highs) THEN NoPeriod
     ELSE [is |-> "ok", start |-> Max(lows), end |-> Min(highs), consumed |-> consumed]

\* calendar_part: what a SELECT expression says of a day; a row shows that of its days.
Shown(part, d) == CASE part = "year" -> Year(d) [] part = "month" -> Month(d)
                    [] part = "quarter" -> Quarter(d)
                    [] part = "period:day" -> d
                    [] part = "period:month" -> FirstDay[MonthOf[d]]
                    [] part = "period:quarter" -> FirstDay[QuarterStart(MonthOf[d])]
                    [] part = "period:year" -> Date(Year(d), 1, 1)

\* The parts that encode a whole period, and the grain each one names.
Encoded == [p \in {"period:day", "period:month", "period:quarter", "period:year"} |->
             CASE p = "period:day" -> "day" [] p = "period:month" -> "month"
               [] p = "period:quarter" -> "quarter" [] p = "period:year" -> "year"]

\* The grain time_keys reports for the time parts a result selects.
Grain(parts) == IF parts \cap DOMAIN Encoded # {}
                THEN Encoded[CHOOSE p \in parts : p \in DOMAIN Encoded]
                ELSE IF "month" \in parts THEN "month"
                ELSE IF "quarter" \in parts THEN "quarter" ELSE "year"

\* The year a period stays within stands in for a year the result does not select.
FixedYear(r) == IF r.is = "ok" /\ Year(r.start) = Year(r.end - 1) THEN Year(r.start) ELSE Raised

\* The key of a row that aggregates the day d, Raised when the whole result gets none.
TimeKey(parts, d, r) ==
  LET encoded == parts \cap DOMAIN Encoded
      y == IF "year" \in parts THEN Year(d) ELSE FixedYear(r)
      m == IF "month" \in parts THEN Month(d)
           ELSE IF "quarter" \in parts THEN (Quarter(d) - 1) * 3 + 1 ELSE 1
      key == IF encoded # {} THEN Shown(CHOOSE p \in encoded : TRUE, d) ELSE Date(y, m, 1)
  IN IF Cardinality(encoded) > 1 \/ (r.is = "ok" /\ ~(r.start <= key /\ key < r.end))
     THEN Raised ELSE key

------------------------------------------------------------------------------
NoQuestion == [form |-> "none"]

CalInit == asked = NoQuestion /\ window = CannotAnswer /\ clause = << >> /\ period = NoPeriod

\* A question is understood: its time becomes a window.
AskTime(x, today) ==
  /\ asked = NoQuestion
  /\ asked' = [form |-> x.form, expression |-> x, today |-> today]
  /\ window' = ValidateTime(x, today)
  /\ UNCHANGED <<clause, period>>

\* The result of a SQL with these date predicates is certified.
ReadClause(ps, role) ==
  /\ asked = NoQuestion
  /\ asked' = [form |-> "sql", role |-> role]
  /\ clause' = ps
  /\ period' = ActualDateRange(ps, role)
  /\ UNCHANGED window

CalNext == \/ \E x \in TimeExpressions, today \in Todays : AskTime(x, today)
           \/ \E ps \in Clauses, role \in BOOLEAN : ReadClause(ps, role)

------------------------------------------------------------------------------
(* Properties *)

\* A numeral's value: tens and ones.
NumeralValue(v) ==
  IF "n" \in DOMAIN v THEN v.n
  ELSE CASE Len(v.han) = 1 -> v.han[1]
         [] Len(v.han) = 2 -> IF v.han[1] = 10 THEN 10 + v.han[2] ELSE v.han[1] * 10
         [] OTHER -> v.han[1] * 10 + v.han[3]

\* What a window of each grain must be, written without the code's arithmetic: the day
\* before it and its last day, and its first day and the day after it, are in different
\* periods, and all its days are in one.
SamePeriod(g, a, b) ==
  CASE g = "day" -> a = b
    [] g = "week" -> (a - Weekday(a)) = (b - Weekday(b))
    [] g = "month" -> Month(a) = Month(b) /\ Year(a) = Year(b)
    [] g = "quarter" -> Quarter(a) = Quarter(b) /\ Year(a) = Year(b)
    [] g = "year" -> Year(a) = Year(b)

\* Every accepted window is a whole number of periods of its granularity and is not
\* empty; "this" holds the day it is asked on and "last" ends the day "this" begins,
\* and the recent windows end with today's period (query_understanding.py:373-485).
WindowsWhole ==
  (window.is = "ok") =>
    LET s == window.start
        e == window.end
        x == asked.expression
        t == asked.today
    IN /\ s < e
       /\ (s - 1 \in Days) => ~SamePeriod(window.grain, s - 1, s)
       /\ (e \in Days) => ~SamePeriod(window.grain, e - 1, e)
       /\ x.form \in Relative \cup {"month", "quarter", "year", "day"} =>
            SamePeriod(window.grain, s, e - 1)
       /\ x.form \in {"today", "this_week", "this_month", "this_quarter", "this_year",
                     "recent_days", "recent_months"} => (s <= t /\ SamePeriod(window.grain, t, e - 1))
       /\ x.form \in {"yesterday", "last_week", "last_month", "last_quarter", "last_year"} =>
            (e <= t /\ SamePeriod(window.grain, e, t))
       /\ x.form = "recent_days" => e - s = x.at
       /\ x.form = "recent_months" =>
            Cardinality({MonthOf[d] : d \in s .. e - 1}) = NumeralValue(x.at)

\* The days a predicate of the WHERE clause keeps.
Keeps(p, d) ==
  LET v == IF p.col = "full_date" THEN d ELSE Shown(p.col, d)
  IN CASE p.op = "between" -> p.at <= v /\ v <= p.to
       [] p.op = "=" -> v = p.at
       [] p.op = ">=" -> v >= p.at
       [] p.op = ">" -> v > p.at
       [] p.op = "<" -> v < p.at
       [] p.op = "<=" -> v <= p.at

\* The period reported with a result is exactly the days the predicates it replaces
\* keep: no day of the answer lies outside it, none inside it was filtered away
\* (result_time.py:81-173).
PeriodExact ==
  (period.is = "ok") =>
    (period.start .. period.end - 1)
      = {d \in Days : \A i \in period.consumed : Keeps(clause[i], d)}

\* The forms a SQL may state a window in.
Stated(w) ==
  LET s == w.start
      e == w.end
      test(c, o, v) == [col |-> c, op |-> o, at |-> v, to |-> e - 1]
  IN {<<test("full_date", ">=", s), test("full_date", "<", e)>>, <<test("full_date", "between", s)>>}
     \cup (IF ~SamePeriod(w.grain, s, e - 1) THEN {}
           ELSE CASE w.grain = "month" -> {<<test("year", "=", Year(s)), test("month", "=", Month(s))>>}
                  [] w.grain = "quarter" -> {<<test("quarter", "=", Quarter(s)), test("year", "=", Year(s))>>}
                  [] w.grain = "year" -> {<<test("year", "=", Year(s))>>}
                  [] OTHER -> {})

\* A window survives the trip through SQL: in every form it may be stated, the period
\* certified with the result is the window the question meant, so the exact comparison
\* of semantic_state.py:395-405 can succeed (query_understanding.py:373-485 with
\* result_time.py:81-173).
WindowReadsBack ==
  (window.is = "ok") =>
    \A ps \in Stated(window) :
      LET r == ActualDateRange(ps, TRUE)
      IN r.is = "ok" /\ r.start = window.start /\ r.end = window.end

\* The key of every row is the first day of the period its days lie in, whatever parts
\* the result selects, so rows of different periods never share a key and the series
\* never drifts from its labels (result_time.py:176-218).
KeysNamePeriods ==
  \A parts \in SUBSET Parts \cup {{p} : p \in DOMAIN Encoded} :
    (period.is = "ok" /\ parts # {}) =>
      \A d \in {period.start, period.end - 1, (period.start + period.end) \div 2} :
        LET key == TimeKey(parts, d, period)
        IN key # Raised => SamePeriod(Grain(parts), key, d) /\ key <= d
==================================================================================
