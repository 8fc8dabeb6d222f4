---------------------------- MODULE FormulaSeries ----------------------------
(***************************************************************************)
(* The aggregates and time-series functions of engine/evaluator.py, checked *)
(* against one another on every series a planner can enter up to a length:  *)
(* numbers, blanks and texts, some of which read as numbers.                *)
(***************************************************************************)
EXTENDS FormulaFunctions

CONSTANTS Values,     \* what a cell of the series may hold
          MaxLength,  \* of the series
          Thresholds     \* the numbers criteria compare with

VARIABLE series

SeriesInit == series = <<>>
EnterValue == Len(series) < MaxLength /\ \E v \in Values: series' = Append(series, v)

\* A criterion as planners write it.
Written(op, n) == Str(<<800 + CHOOSE i \in DOMAIN Signs: Signs[i] = op>> \o Text(Whole(n)))
Added(a, b) == LET f(qs) == Num(Plus(qs[1], qs[2])) IN OnNumbers(<<a, b>>, f)
Multiplied(a, b) == LET f(qs) == Num(Mul(qs[1], qs[2])) IN OnNumbers(<<a, b>>, f)
AllNumbers == \A i \in DOMAIN series: Numeric(series[i])
Column == Rationals(series)
LastIndex == Len(series) - 1

(* The laws are about a way of calling functions by name, at an index or -1; *)
(* which one the evaluator has for them is said at the end.                  *)
(*                                                                         *)
(* Windows: CUMULATE up to an index is the moving sum of any window before  *)
(* it plus CUMULATE up to the window, the average times the window is the   *)
(* sum, and looking back k periods is looking ahead -k.                     *)
WindowsAgree(Call(_, _, _)) ==
  \A i \in 0..LastIndex:
    LET Shift(name, at, args) == Call(name, <<List(series)>> \o args, at)
        sum(w) == Shift("MOVINGSUM", i, <<Whole(w)>>)
    IN  /\ \A w \in 1..i: /\ Shift("CUMULATE", i, <<>>) = Added(sum(w), Shift("CUMULATE", i - w, <<>>))
                          /\ sum(w) = Multiplied(Shift("MOVINGAVERAGE", i, <<Whole(w)>>), Whole(w))
        /\ Shift("CUMULATE", i, <<>>) = sum(Len(series))
        /\ \A k \in -2..2: /\ Shift("LAG", i, <<Whole(k), None>>) = Shift("OFFSET", i, <<Whole(-k), None>>)
                           /\ i - k \in 0..LastIndex => Shift("LEAD", i - k, <<Whole(k)>>) = series[i + 1]
        /\ Shift("PREVIOUS", i, <<>>) = IF i = 0 THEN Whole(0) ELSE Shift("LAG", i - 1, <<Whole(0)>>)
        /\ Shift("NEXT", i, <<None>>) = IF i = LastIndex THEN None ELSE Shift("LAG", i + 1, <<Whole(0)>>)
        /\ _resolve_current_index(series, i) = i /\ _resolve_current_index(series, -1) = LastIndex
(* Criteria: a condition and its opposite split the series, also one of     *)
(* written numbers and texts; the sums and averages split with it.          *)
CriteriaSplit(Call(_, _, _)) ==
  \A n \in Thresholds, pair \in {<<">", "<=">>, <<"<", ">=">>, <<"=", "<>">>}:
    LET Of(name, args) == Call(name, <<List(series)>> \o args, -1)
        c == <<Written(pair[1], n)>>  d == <<Written(pair[2], n)>>
    IN  /\ Added(Of("COUNTIF", c), Of("COUNTIF", d)) = Count(<<List(series)>>)
        /\ Of("COUNTIF", <<Whole(n)>>) = Of("COUNTIF", <<Written("=", n)>>)
        /\ AllNumbers => Added(Of("SUMIF", c), Of("SUMIF", d)) = Sum(<<List(series)>>)
        /\ ~Failed(Of("AVERAGEIF", c)) => Multiplied(Of("AVERAGEIF", c), Of("COUNTIF", c)) = Of("SUMIF", c)
(* Orders: the value of rank r is the r-th largest, the k-th smallest the   *)
(* k-th largest from the other end, RANKLIST lists the largest values in     *)
(* order, percentiles start at the minimum, pass the median and end at the   *)
(* maximum without ever falling.                                            *)
OrdersAgree(Call(_, _, _)) ==
  AllNumbers /\ series # <<>> =>
    LET Of(name, args) == Call(name, <<List(series)>> \o args, -1)
        nth(name, k) == Of(name, <<Whole(k)>>)
        part(q) == Of("PERCENTILE", <<Num(q)>>)
    IN  /\ \A i \in DOMAIN Column:
             LET rank == Call("RANK", <<List(series), None>>, i - 1)
             IN  /\ Of("LARGE", <<rank>>) = Num(Column[i])
                 /\ rank = Call("RANK", <<series[i], List(series)>>, -1)
        /\ \A k \in DOMAIN Column:
             /\ nth("SMALL", k) = nth("LARGE", Len(Column) + 1 - k)
             /\ \A j \in 1..k: _num(Of("RANKLIST", <<None, Whole(k)>>)[2][j]) = nth("LARGE", j)
             /\ Of("RANKLIST", <<None, Whole(k)>>) # Call("RANKLIST", <<None, List(series), Whole(k)>>, -1) =>
                  \E i \in DOMAIN series: ~Is("num", series[i])
        /\ part(<<0, 1>>) = nth("SMALL", 1)
        /\ part(<<1, 2>>) = Of("MEDIAN", <<>>)
        /\ part(<<50, 1>>) = Of("MEDIAN", <<>>)
        /\ part(<<1, 1>>) = MinMax("MAX", series)
        /\ \A j \in 0..5: ~Less(part(<<j + 1, 6>>)[2], part(<<j, 6>>)[2])
(* Statistics: the variance is the mean square beyond the squared mean, the *)
(* fitted line of GROWTH leaves no total error.                             *)
StatisticsAgree(Call(_, _, _)) ==
  AllNumbers /\ Len(series) > 1 =>
    LET Of(name, args) == Call(name, <<List(series)>> \o args, -1)
        n == <<Len(Column), 1>>
        places == List([i \in DOMAIN Column |-> Whole(i)])
        fit == Of("GROWTH", <<places, places>>)
    IN  /\ Mul(Of("VARIANCE", <<>>)[2], Sub(n, <<1, 1>>)) = Sub(Total([i \in DOMAIN Column |-> Mul(Column[i], Column[i])]), Mul(n, Mul(Mean(Column), Mean(Column))))
        /\ Of("STDEV", <<>>) = Inexact \/ Multiplied(Of("STDEV", <<>>), Of("STDEV", <<>>)) = Of("VARIANCE", <<>>)
        /\ Sum(<<fit>>) = Sum(<<List(series)>>)
        /\ Of("GROWTH", <<places, Whole(1)>>) = fit[2][1]
(* Roundings: CEILING and FLOOR enclose, ROUND is nearest, MOD and SIGN     *)
(* rebuild the number.                                                      *)
RoundingsAgree ==
  AllNumbers =>
    \A i \in DOMAIN Column, d \in {-1, 0}:
      LET q == Over(Column[i], <<4, 1>>)  off == Sub(Binary("ROUND", q, <<d, 1>>)[2], q)
      IN  /\ ~Less(<<IF d = 0 THEN 1 ELSE 10, 2>>, Unary("ABS", off)[2])
          /\ Unary("FLOOR", q) = Num(Sub(q, Binary("MOD", q, <<1, 1>>)[2]))
          /\ Unary("CEILING", q) \in {Unary("FLOOR", q), Added(Unary("FLOOR", q), Whole(1))}
          /\ Multiplied(Unary("SIGN", q), Unary("ABS", q)) = Num(q)
(* Texts: the characters of the series (its texts joined): LEFT and RIGHT   *)
(* cut it in two, MID returns what FIND found, SUBSTITUTE leaves none.      *)
Letters == FlattenSeq([i \in DOMAIN series |-> Text(series[i])])
TextsAgree(Call(_, _)) ==
  \A n \in 0..Len(Letters):
    LET s == Str(Letters)
        cut(name, text, k) == Call(name, <<text, Whole(k)>>)
        rest == cut("RIGHT", s, Len(Letters) - n)
        part == cut("LEFT", cut("RIGHT", s, n), 2)
    IN  /\ cut("LEFT", s, n)[2] \o rest[2] = Letters
        /\ Call("LEN", <<rest>>) = Whole(Len(Letters) - n)
        /\ Call("MID", <<s, Call("FIND", <<part, s>>), Call("LEN", <<part>>)>>) = part
        /\ Call("SUBSTITUTE", <<s, part, part>>) = s
        /\ part # Str(<<>>) => Call("FIND", <<part, Call("SUBSTITUTE", <<s, part, Str(<<0>>)>>)>>) = Whole(0)
        /\ \A i \in DOMAIN series: Numeric(series[i]) => Call("VALUE", <<Str(Text(_num(series[i])))>>) = _num(series[i])
FunctionsAgree ==
  /\ WindowsAgree(SeriesCalled) /\ CriteriaSplit(RangeCalled) /\ OrdersAgree(RangeCalled) /\ StatisticsAgree(RangeCalled)
  /\ RoundingsAgree /\ TextsAgree(TextCalled)
=============================================================================
