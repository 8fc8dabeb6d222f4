---------------------------- MODULE TimeCalendar ----------------------------
(***************************************************************************)
(* The time calendar of engine/time_calendar.py and the period functions of *)
(* engine/evaluator.py.  A date is its ordinal (day 1 is 0001-01-01, as     *)
(* Python's toordinal); a period code is <<form, year, number>>.  The state *)
(* is a fiscal calendar and a day that moves on.                            *)
(***************************************************************************)
EXTENDS Integers, Sequences, SequencesExt, FiniteSetsExt

CONSTANTS Calendars,   \* fiscal calendars: [month, weekday, weeks, retail]
          Days         \* the days looked at

VARIABLES cal,  \* the fiscal calendar in use
          day   \* the day periods are looked up for

timeVars == <<cal, day>>

----------------------------------------------------------------------------
(* Python's proleptic calendar. *)
Leap(y) == y % 4 = 0 /\ (y % 100 # 0 \/ y % 400 = 0)
_days_in_month(y, m) == CASE m = 2 -> (IF Leap(y) THEN 29 ELSE 28) [] m \in {4, 6, 9, 11} -> 30 [] OTHER -> 31
DaysBeforeMonth(y, m) ==
  <<0, 31, 59, 90, 120, 151, 181, 212, 243, 273, 304, 334>>[m] + (IF m > 2 /\ Leap(y) THEN 1 ELSE 0)
DaysBeforeYear(y) == 365 * (y - 1) + ((y - 1) \div 4) - ((y - 1) \div 100) + ((y - 1) \div 400)
Date(y, m, d) == DaysBeforeYear(y) + DaysBeforeMonth(y, m) + d
_month_start(y, m) == Date(y, m, 1)
_month_end(y, m) == Date(y, m, _days_in_month(y, m))
Weekday(d) == (d + 6) % 7
(* The mean year has 365.2425 days: the estimate is at most one too large. *)
YearOf(d) == LET y == ((d * 400) \div 146097) + 1 IN IF d <= DaysBeforeYear(y) THEN y - 1 ELSE IF d > DaysBeforeYear(y + 1) THEN y + 1 ELSE y
MonthOf(d) ==
  LET y == YearOf(d)  n == d - DaysBeforeYear(y)
  IN  CHOOSE m \in 1..12: DaysBeforeMonth(y, m) < n /\ (m = 12 \/ n <= DaysBeforeMonth(y, m + 1))
Monday(d) == d - Weekday(d)
IsoWeekOne(y) == Monday(Date(y, 1, 4))
IsoYear(d) == YearOf(Monday(d) + 3)
IsoWeek(d) == 1 + ((Monday(d) - IsoWeekOne(IsoYear(d))) \div 7)

----------------------------------------------------------------------------
(* generate_time_periods.  A fiscal year starting after January is named   *)
(* after the year it ends in.                                              *)
_fiscal_year_label(y) == IF cal.month = 1 THEN y ELSE y + 1
(* The i-th month (from 0) of the fiscal year starting in calendar year y. *)
_fiscal_month_sequence(y, i) == <<y + ((cal.month - 1 + i) \div 12), 1 + ((cal.month - 1 + i) % 12)>>
MonthsFrom(y, i) == LET m == _fiscal_month_sequence(y, i) IN _month_start(m[1], m[2])
MonthsTo(y, i) == LET m == _fiscal_month_sequence(y, i) IN _month_end(m[1], m[2])
Period(type, code, start, end, parent) == [type |-> type, code |-> code, start |-> start, end |-> end, parent |-> parent]
NoParent == <<"none", 0, 0>>
(* The n-th stretch of so many months of a fiscal year, from 1.            *)
Stretch(type, y, n, months, parent) ==
  Period(type, <<type, _fiscal_year_label(y), n>>, MonthsFrom(y, (n - 1) * months), MonthsTo(y, n * months - 1), parent)
YearPeriods(y) == <<Stretch("year", y, 1, 12, NoParent)>>
HalfPeriods(y) == [n \in 1..2 |-> Stretch("half_year", y, n, 6, <<"year", _fiscal_year_label(y), 1>>)]
QuarterPeriods(y) == [n \in 1..4 |-> Stretch("quarter", y, n, 3, <<"half_year", _fiscal_year_label(y), (n + 1) \div 2>>)]
MonthCode(m) == <<"month", m[1], m[2]>>
MonthPeriods(y) ==
  [n \in 1..12 |-> Period("month", MonthCode(_fiscal_month_sequence(y, n - 1)), MonthsFrom(y, n - 1), MonthsTo(y, n - 1),
                          <<"quarter", _fiscal_year_label(y), (n + 2) \div 3>>)]
(* Weeks of the ISO pattern: from the Monday on or before the year's start *)
(* to its end; the parent is the month of the first day inside the year.   *)
_iso_weeks_in_fiscal_year(y) ==
  LET first == Monday(MonthsFrom(y, 0))
      hint(start) == IF start < MonthsFrom(y, 0) THEN MonthsFrom(y, 0) ELSE start
  IN  [n \in 1..(1 + ((MonthsTo(y, 11) - first) \div 7)) |->
        LET start == first + 7 * (n - 1)
        IN  Period("week", <<"week", IsoYear(start), IsoWeek(start)>>, start, start + 6, MonthCode(<<YearOf(hint(start)), MonthOf(hint(start))>>))]
(* Weeks of the custom pattern: each month is cut at the week start day,   *)
(* its first and last week may be shorter.                                 *)
_weeks_in_month(m) ==
  LET first == _month_start(m[1], m[2])  last == _month_end(m[1], m[2])
      cut == first + ((cal.weekday - Weekday(first)) % 7)
      starts == (IF cut > first THEN <<first>> ELSE <<>>) \o [n \in 1..(1 + ((last - cut) \div 7)) |-> cut + 7 * (n - 1)]
  IN  [n \in DOMAIN starts |-> Period("week", <<"week", YearOf(starts[n]), IsoWeek(starts[n])>>, starts[n],
                                      IF n < Len(starts) THEN starts[n + 1] - 1 ELSE last, MonthCode(m))]
Codes(ps) == {ps[i].code: i \in DOMAIN ps}
(* _add: a code seen before is not added again (of the ISO weeks shared by  *)
(* two years the first year's stays); a custom week whose code is taken is  *)
(* named after its month instead.                                          *)
_add(ps, more) == LET known == Codes(ps) IN ps \o SelectSeq(more, LAMBDA p: p.code \notin known)
NameTaken(known, weeks, n) == weeks[n].code \in known \cup {weeks[i].code: i \in 1..(n - 1)}
AddMonthWeeks(ps, m) ==
  LET weeks == _weeks_in_month(m)
      known == Codes(ps)
      named(n) == IF NameTaken(known, weeks, n) THEN [weeks[n] EXCEPT !.code = <<"month week", 100 * m[1] + m[2], n>>] ELSE weeks[n]
  IN  _add(ps, [n \in DOMAIN weeks |-> named(n)])
WeekPeriods(ps, y) ==
  IF cal.weeks = "iso" THEN _add(ps, _iso_weeks_in_fiscal_year(y))
  ELSE LET upTo[i \in 0..12] == IF i = 0 THEN ps ELSE AddMonthWeeks(upTo[i - 1], _fiscal_month_sequence(y, i - 1)) IN upTo[12]
Coarser == <<"year", "half_year", "quarter", "month", "week">>
Includes(granularity, type) ==
  \E i \in DOMAIN Coarser: Coarser[i] = granularity /\ \E j \in 1..i: Coarser[j] = type
StandardYear(ps, y, granularity) ==
  LET coarse == SelectSeq(YearPeriods(y) \o HalfPeriods(y) \o QuarterPeriods(y) \o MonthPeriods(y), LAMBDA p: Includes(granularity, p.type))
      known == _add(ps, coarse)
  IN  IF granularity = "week" THEN WeekPeriods(known, y) ELSE known

(* Retail years: twelve months of whole weeks from the fiscal year's first *)
(* day, 364 days in all.                                                   *)
_retail_month_week_pattern(n) ==
  LET long == CASE cal.retail = "4-4-5" -> 0 [] cal.retail = "4-5-4" -> 2 [] cal.retail = "5-4-4" -> 1 IN IF n % 3 = long THEN 5 ELSE 4
WeeksBefore(n) == FoldLeft(+, 0, [i \in 1..(n - 1) |-> _retail_month_week_pattern(i)])
RetailStretch(type, form, y, n, months, parent) ==
  LET start == Date(y, cal.month, 1) + 7 * WeeksBefore((n - 1) * months + 1)
  IN  Period(type, <<form, _fiscal_year_label(y), n>>, start, Date(y, cal.month, 1) + 7 * WeeksBefore(n * months + 1) - 1, parent)
RetailWeek(y, w) ==
  LET start == Date(y, cal.month, 1) + 7 * (w - 1)
      month == CHOOSE n \in 1..12: WeeksBefore(n) < w /\ w <= WeeksBefore(n + 1)
  IN  Period("week", <<"retail week", _fiscal_year_label(y), w>>, start, start + 6, <<"retail month", _fiscal_year_label(y), month>>)
RetailYear(y) ==
  LET fy == _fiscal_year_label(y)
  IN  <<RetailStretch("year", "year", y, 1, 12, NoParent)>>
      \o [n \in 1..2 |-> RetailStretch("half_year", "half_year", y, n, 6, <<"year", fy, 1>>)]
      \o [n \in 1..4 |-> RetailStretch("quarter", "quarter", y, n, 3, <<"half_year", fy, (n + 1) \div 2>>)]
      \o [n \in 1..12 |-> RetailStretch("month", "retail month", y, n, 1, <<"quarter", fy, (n + 2) \div 3>>)]
      \o [w \in 1..52 |-> RetailWeek(y, w)]
generate_time_periods(first, last, granularity) ==
  LET years == [i \in 1..(last - first + 1) |-> first + i - 1]
  IN  IF cal.retail = "standard" THEN FoldLeft(LAMBDA ps, y: StandardYear(ps, y, granularity), <<>>, years)
      ELSE SelectSeq(FoldLeft(LAMBDA ps, y: _add(ps, RetailYear(y)), <<>>, years), LAMBDA p: Includes(granularity, p.type))
(* The periods of a type that hold a day, searched a year back and forward. *)
Holding(d, granularity) ==
  SelectSeq(generate_time_periods(YearOf(d) - 1, YearOf(d) + 1, granularity), LAMBDA p: p.type = granularity /\ p.start <= d /\ d <= p.end)
NoPeriod == Period("none", NoParent, 0, 0, NoParent)
get_period_for_date(d, granularity) == LET ps == Holding(d, granularity) IN IF ps = <<>> THEN NoPeriod ELSE ps[1]

----------------------------------------------------------------------------
(* The period functions of the evaluator.  periods is the TIME_PERIODS of  *)
(* the context, <<>> when there is none; bounds that cannot be found are   *)
(* a FormulaError.                                                         *)
NoBounds == [ok |-> FALSE, start |-> 0, end |-> 0]
Bounds(start, end) == [ok |-> TRUE, start |-> start, end |-> end]
WeeksIn(y) == (IsoWeekOne(y + 1) - IsoWeekOne(y)) \div 7
IsoMonday(code) == IsoWeekOne(code[2]) + 7 * (code[3] - 1)
MonthStretch(y, from, months) == Bounds(_month_start(y, from), _month_end(y, from + months - 1))
_period_bounds_from_context(code, periods) ==
  LET found == SelectSeq(periods, LAMBDA p: p.code = code)
  IN  IF found = <<>> THEN NoBounds ELSE Bounds(found[1].start, found[1].end)
(* A text is tried as a date first, and the Python the tests run under      *)
(* reads "2024-W01" as the Monday of that week; a fiscal year or quarter   *)
(* that the context does not know is taken for the calendar one.           *)
_coerce_date(code) ==
  CASE code[1] = "date" -> code[2]
    [] code[1] = "week" /\ code[3] \in 1..WeeksIn(code[2]) -> IsoMonday(code)
    [] OTHER -> 0
ComputedBounds(code) ==
  CASE code[1] = "year" -> MonthStretch(code[2], 1, 12)
    [] code[1] = "half_year" -> MonthStretch(code[2], 6 * code[3] - 5, 6)
    [] code[1] = "quarter" -> MonthStretch(code[2], 3 * code[3] - 2, 3)
    [] code[1] = "month" -> MonthStretch(code[2], code[3], 1)
    [] code[1] = "month week" ->
         LET y == code[2] \div 100  m == code[2] % 100
             start == _month_start(y, m) + 7 * (code[3] - 1)  last == _month_end(y, m)
         IN  IF start > last THEN NoBounds ELSE Bounds(start, IF start + 6 < last THEN start + 6 ELSE last)
    [] OTHER -> NoBounds
_period_bounds(code, periods) ==
  IF _coerce_date(code) # 0 THEN Bounds(_coerce_date(code), _coerce_date(code))
  ELSE IF _period_bounds_from_context(code, periods).ok THEN _period_bounds_from_context(code, periods)
  ELSE ComputedBounds(code)
(* A period given otherwise than by its code: a member with both dates or   *)
(* else its code, a date, or the number of a year.                          *)
GivenBounds(form, value, periods) ==
  CASE form = "dates" -> IF value.start > value.end THEN NoBounds ELSE Bounds(value.start, value.end)
    [] form = "code" -> _period_bounds(value.code, periods)
    [] form = "date" -> Bounds(value, value)
    [] form = "number" -> IF value < 1 THEN NoBounds ELSE MonthStretch(value, 1, 12)
_period_component(code, unit, periods) ==
  LET start == _period_bounds(code, periods).start
  IN  CASE unit = "year" -> YearOf(start)
        [] unit = "half_year" -> (MonthOf(start) + 5) \div 6
        [] unit = "quarter" -> (MonthOf(start) + 2) \div 3
        [] unit = "month" -> MonthOf(start)
        [] unit = "week" -> IsoWeek(start)
(* PERIODOFFSET: within the context's list, else by ordinal arithmetic.    *)
NoOffset == <<"FormulaError", 0, 0>>
Shifted_FromZero(code, k, perYear) ==
  LET ordinal == code[2] * perYear + code[3] + k
  IN  IF ordinal < 0 THEN NoOffset ELSE <<code[1], ordinal \div perYear, 1 + (ordinal % perYear)>>
Shifted(code, k, perYear) ==
  LET ordinal == code[2] * perYear + code[3] - 1 + k
  IN  IF ordinal < 0 THEN NoOffset ELSE <<code[1], ordinal \div perYear, 1 + (ordinal % perYear)>>
PerYear == [year |-> 1, half_year |-> 2, quarter |-> 4, month |-> 12]
_period_offset(code, k, periods) ==
  LET at == {i \in DOMAIN periods: periods[i].code = code}
  IN  CASE periods # <<>> -> IF at = {} \/ Min(at) + k \notin DOMAIN periods THEN NoOffset ELSE periods[Min(at) + k].code
        [] periods = <<>> /\ code[1] \in DOMAIN PerYear -> Shifted(code, k, PerYear[code[1]])
        [] periods = <<>> /\ code[1] = "retail month" -> Shifted(code, k, 12)
        [] periods = <<>> /\ code[1] = "retail week" -> Shifted(code, k, 53)
        [] periods = <<>> /\ code[1] = "week" ->
             IF code[3] \notin 1..WeeksIn(code[2]) THEN NoOffset
             ELSE LET start == IsoMonday(code) + 7 * k IN <<"week", IsoYear(start), IsoWeek(start)>>
        [] OTHER -> NoOffset
(* TIMESUM, TIMEAVERAGE and TIMECOUNT over pairs of a period and an amount  *)
(* (an average as its sum and count), open at an end that is not given, and  *)
(* the *VALUE functions.                                                    *)
SumOf(pairs) == FoldLeft(LAMBDA n, pair: n + pair[2], 0, pairs)
_filter_time_pairs_by_range(pairs, from, to, periods) ==
  LET b(pair) == _period_bounds(pair[1], periods)
  IN  IF from = NoParent /\ to = NoParent THEN pairs
      ELSE SelectSeq(pairs, LAMBDA pair:
             /\ b(pair).ok
             /\ from # NoParent => b(pair).end >= _period_bounds(from, periods).start
             /\ to # NoParent => b(pair).start <= _period_bounds(to, periods).end)
TimeCalled(name, pairs, from, to, periods) ==
  LET chosen == _filter_time_pairs_by_range(pairs, from, to, periods)
  IN  CASE name = "TIMESUM" -> SumOf(chosen)
        [] name = "TIMECOUNT" -> Len(chosen)
        [] name = "TIMEAVERAGE" -> IF chosen = <<>> THEN NoOffset ELSE <<SumOf(chosen), Len(chosen)>>
TimeSum(pairs, from, to, periods) == TimeCalled("TIMESUM", pairs, from, to, periods)
(* The functions of one period, given or the context's CURRENT_PERIOD; the  *)
(* two that count to date take today when there is neither.                 *)
PeriodCalled(name, given, current, periods) ==
  LET today == IF name \in {"YEARTODATE", "MONTHTODATE"} THEN <<"date", day>> ELSE NoParent
      code == CASE given # NoParent -> given [] given = NoParent /\ current # NoParent -> current [] OTHER -> today
      b == _period_bounds(code, periods)
  IN  IF code = NoParent \/ ~b.ok THEN NoOffset
      ELSE CASE name = "YEARTODATE" -> <<"YTD", YearOf(b.start)>>
             [] name = "MONTHTODATE" -> <<"MTD", YearOf(b.start), MonthOf(b.start)>>
             [] name \in {"CURRENTPERIODSTART", "PERIODSTART"} -> <<"date", b.start>>
             [] name \in {"CURRENTPERIODEND", "PERIODEND"} -> <<"date", b.end>>
             [] name = "DATEVALUE" -> IF _coerce_date(code) = 0 THEN NoOffset ELSE <<"date", _coerce_date(code)>>
(* A total over periods, each share a numerator over one denominator; the   *)
(* last period takes the rest.                                              *)
spread_value(total, periods, method) ==
  LET days == [i \in DOMAIN periods |-> periods[i].end - periods[i].start + 1]
      parts == IF method = "even" THEN [i \in DOMAIN periods |-> 1] ELSE days
      den == FoldLeft(+, 0, parts)
      others == FoldLeft(LAMBDA n, part: n + total * part, 0, Front(parts))
  IN  IF periods = <<>> THEN [den |-> 1, nums |-> <<>>]
      ELSE [den |-> den, nums |-> [i \in DOMAIN parts |-> IF i = Len(parts) THEN total * den - others ELSE total * parts[i]]]
DateCalled(y, m, d) == IF m \in 1..12 /\ d \in 1.._days_in_month(y, m) THEN <<"date", Date(y, m, d)>> ELSE NoOffset
_fn_period_value(pairs, unit, target, periods) ==
  SumOf(SelectSeq(pairs, LAMBDA pair: _period_bounds(pair[1], periods).ok
                                      /\ _period_component(pair[1], unit, periods) = _period_component(target, unit, periods)))
InPeriod(d, code, periods) == _period_bounds(code, periods).ok /\ _period_bounds(code, periods).start <= d /\ d <= _period_bounds(code, periods).end

----------------------------------------------------------------------------
TimeInit == cal \in Calendars /\ day = Min(Days)
NextDay == LET later == {d \in Days: d > day} IN later # {} /\ day' = Min(later) /\ UNCHANGED cal

Granularities == ToSet(Coarser)
(* Every day falls into one period of each granularity, the one looked up, *)
(* its code is not used twice, and its parent is the next coarser period   *)
(* that holds the day (a week across a month's end belongs to one of the   *)
(* two months).  A retail year has 364 days: only the one or two days      *)
(* before the next year's first have no period.                            *)
DayHasItsPeriod(generated) ==
  LET orphanDays == {Date(YearOf(day) + k, cal.month, 1) - j: k \in 0..1, j \in 1..2}
  IN  /\ Cardinality(Codes(generated)) = Len(generated)
      /\ \A g \in Granularities:
           LET here == SelectSeq(generated, LAMBDA p: p.type = g /\ p.start <= day /\ day <= p.end)
               parents == SelectSeq(generated, LAMBDA p: p.code = here[1].parent)
           IN  IF here = <<>> THEN cal.retail # "standard" /\ day \in orphanDays
               ELSE /\ Len(here) = 1 /\ (g \in {"month", "week"} => get_period_for_date(day, g) = here[1])
                    /\ g # "year" => parents # <<>> /\ parents[1].start <= here[1].end /\ here[1].start <= parents[1].end
                    /\ g \notin {"year", "week"} => parents[1].start <= here[1].start /\ here[1].end <= parents[1].end
EveryDayHasItsPeriod == DayHasItsPeriod(generate_time_periods(YearOf(day) - 1, YearOf(day) + 1, "week"))
(* The codes of the periods that hold the day, as formulas write them.     *)
CodesHere ==
  {<<"year", YearOf(day), 1>>, <<"half_year", YearOf(day), (MonthOf(day) + 5) \div 6>>,
   <<"quarter", YearOf(day), (MonthOf(day) + 2) \div 3>>, <<"month", YearOf(day), MonthOf(day)>>}
WeekHere == <<"week", IsoYear(day), IsoWeek(day)>>
(* PERIODOFFSET walks time without gap or overlap: the next period starts   *)
(* the day after this one ends, going back returns, and steps add up; with *)
(* generated periods as TIME_PERIODS the same holds for their codes, except *)
(* for the one or two days between two retail years.  A generated member's  *)
(* dates are what its code is read as, a year's number what its code is.    *)
StepsThroughTime(code, periods) ==
  LET next == _period_offset(code, 1, periods)
      slack == IF cal.retail = "standard" THEN 1..1 ELSE 1..3
  IN  next # NoOffset =>
        /\ _period_offset(next, -1, periods) = code
        /\ _period_bounds(next, periods).start - _period_bounds(code, periods).end \in slack
        /\ \A k \in {-2, 3}: _period_offset(next, k, periods) = _period_offset(code, 1 + k, periods)
OffsetsStepThroughTime ==
  /\ \A code \in CodesHere: StepsThroughTime(code, <<>>) /\ InPeriod(day, code, <<>>)
  /\ \A k \in {-60, -1, 1, 60}:
       /\ _period_offset(_period_offset(WeekHere, k, <<>>), -k, <<>>) = WeekHere
       /\ _period_bounds(_period_offset(WeekHere, k, <<>>), <<>>).start = _period_bounds(WeekHere, <<>>).start + 7 * k
  /\ \A g \in {"quarter", "month"}:
       LET periods == SelectSeq(generate_time_periods(YearOf(day) - 1, YearOf(day) + 1, g), LAMBDA p: p.type = g)
       IN  \A i \in DOMAIN periods: periods[i].start <= day /\ day <= periods[i].end =>
             /\ StepsThroughTime(periods[i].code, periods)
             /\ GivenBounds("dates", periods[i], periods) = GivenBounds("code", periods[i], periods)
  /\ GivenBounds("number", YearOf(day), <<>>) = _period_bounds(<<"year", YearOf(day), 1>>, <<>>)
  /\ GivenBounds("date", day, <<>>) = _period_bounds(<<"date", day>>, <<>>)
(* Amounts by month add up to those of the quarter, half and year they lie *)
(* in, whether selected by a component or by a range; what an open end      *)
(* leaves out is what the other side takes, an average is the sum over the  *)
(* count, and bounds written as dates select what their period selects.  A   *)
(* total spread by days gives every period the share of its days.           *)
Amounts == [m \in 1..12 |-> <<<<"month", YearOf(day), m>>, m * m>>]
AmountsAddUp ==
  \A unit \in {"quarter", "half_year", "year"}:
    LET code == CHOOSE c \in CodesHere: c[1] = unit
        b == _period_bounds(code, <<>>)
        months == {m \in 1..12: b.start <= _month_start(YearOf(day), m) /\ _month_end(YearOf(day), m) <= b.end}
        total == FoldLeft(+, 0, [i \in 1..12 |-> IF i \in months THEN i * i ELSE 0])
        within(name, from, to) == TimeCalled(name, Amounts, from, to, <<>>)
        first == PeriodCalled("PERIODSTART", code, NoParent, <<>>)
        last == PeriodCalled("CURRENTPERIODEND", NoParent, code, <<>>)
        before == <<"date", b.start - 1>>
        stretches == [m \in 1..12 |-> _period_bounds(<<"month", YearOf(day), m>>, <<>>)]
        shares == spread_value(7, stretches, "proportional_to_days")
    IN  /\ _fn_period_value(Amounts, unit, code, <<>>) = total
        /\ TimeSum(Amounts, code, code, <<>>) = total
        /\ within("TIMESUM", first, last) = total
        /\ within("TIMEAVERAGE", code, code) = <<total, within("TIMECOUNT", code, code)>>
        /\ within("TIMESUM", NoParent, before) + within("TIMESUM", code, NoParent) = within("TIMESUM", NoParent, NoParent)
        /\ PeriodCalled("YEARTODATE", code, NoParent, <<>>) = PeriodCalled("YEARTODATE", NoParent, NoParent, <<>>)
        /\ PeriodCalled("MONTHTODATE", first, NoParent, <<>>) = <<"MTD", YearOf(day), Min(months)>>
        /\ FoldLeft(+, 0, [i \in 1..12 |-> IF i \in months THEN shares.nums[i] ELSE 0]) = 7 * (b.end - b.start + 1)
        /\ FoldLeft(+, 0, spread_value(7, stretches, "even").nums) = 7 * 12
        /\ \E d \in 1..31: DateCalled(YearOf(day), MonthOf(day), d) = PeriodCalled("DATEVALUE", <<"date", day>>, NoParent, <<>>)
(* test_formula_engine.py: the period of an ISO week ends on its Sunday.   *)
WeeksEndOnSunday == _period_bounds(WeekHere, <<>>).end = Monday(day) + 6
=============================================================================
