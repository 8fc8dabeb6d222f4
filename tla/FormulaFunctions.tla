-------------------------- MODULE FormulaFunctions --------------------------
(***************************************************************************)
(* The values of formulas and the built-in functions of engine/evaluator.py *)
(* on numbers, texts and series.  A number is an exact rational <<p, q>>    *)
(* (the code's floats up to rounding), a text a sequence of character       *)
(* codes.  An outcome that is no value is a failure: the FormulaError the   *)
(* evaluator documents, any other Python exception (Escaped), or a result   *)
(* that is not rational (Inexact).                                          *)
(***************************************************************************)
EXTENDS Integers, Sequences, SequencesExt, FiniteSetsExt

Num(q) == <<"num", q>>
Whole(n) == Num(<<n, 1>>)
Str(s) == <<"str", s>>
Bool(b) == <<"bool", b>>
List(s) == <<"list", s>>
None == <<"none", 0>>
FormulaError == <<"failed", "FormulaError">>
Escaped == <<"failed", "ValueError">>
Inexact == <<"failed", "inexact">>

Is(kind, v) == v[1] = kind
Failed(v) == Is("failed", v)
(* The first failure of a sequence of outcomes, else the value: arguments  *)
(* are evaluated, and operands converted, from the left.                    *)
After(vs, v) == IF \E i \in DOMAIN vs: Failed(vs[i]) THEN SelectSeq(vs, Failed)[1] ELSE v

----------------------------------------------------------------------------
(* Exact arithmetic. *)
RECURSIVE GCD(_, _)
GCD(a, b) == IF b = 0 THEN a ELSE GCD(b, a % b)
Magnitude(n) == IF n < 0 THEN -n ELSE n
Q(p, q) == LET g == GCD(Magnitude(p), Magnitude(q)) * (IF q < 0 THEN -1 ELSE 1) IN <<p \div g, q \div g>>
Plus(a, b) == Q(a[1] * b[2] + b[1] * a[2], a[2] * b[2])
Sub(a, b) == Q(a[1] * b[2] - b[1] * a[2], a[2] * b[2])
Mul(a, b) == Q(a[1] * b[1], a[2] * b[2])
Over(a, b) == Q(a[1] * b[2], a[2] * b[1])
Less(a, b) == a[1] * b[2] < b[1] * a[2]
Floor(q) == q[1] \div q[2]
Ceiling(q) == -((-q[1]) \div q[2])
(* int(): truncation towards zero. *)
Truncated(q) == IF q[1] < 0 THEN Ceiling(q) ELSE Floor(q)
Total(qs) == FoldLeft(Plus, <<0, 1>>, qs)
Mean(qs) == Over(Total(qs), <<Len(qs), 1>>)
Ascending(qs) == SortSeq(qs, Less)
(* round(): to the nearest multiple of 10 ** -d, a tie to the even one. *)
Rounded(q, d) ==
  LET unit == IF d < 0 THEN <<10 ^ (-d), 1>> ELSE <<1, 10 ^ d>>
      steps == Over(q, unit)
      low == Floor(steps)
      rest == Sub(steps, <<low, 1>>)
      up == Less(<<1, 2>>, rest) \/ (rest = <<1, 2>> /\ low % 2 = 1)
  IN  Mul(<<IF up THEN low + 1 ELSE low, 1>>, unit)
(* math.pow: a ValueError for 0 to a negative power. *)
Power(a, b) ==
  IF b[2] # 1 THEN Inexact
  ELSE IF b[1] = 0 THEN Num(<<1, 1>>)
  ELSE IF b[1] > 0 THEN Num(Q(a[1] ^ b[1], a[2] ^ b[1]))
  ELSE IF a[1] = 0 THEN Escaped
  ELSE Num(Q(a[2] ^ (-b[1]), a[1] ^ (-b[1])))
Root(q) ==
  LET exact(n) == {r \in 0..n: r * r = n}
  IN  IF exact(q[1]) = {} \/ exact(q[2]) = {} THEN Inexact
      ELSE Num(<<CHOOSE r \in exact(q[1]): TRUE, CHOOSE r \in exact(q[2]): TRUE>>)
(* math.log(x, base): base 1 divides by zero, no base <= 0 has a logarithm. *)
Logarithm(x, base) ==
  IF Less(<<0, 1>>, base) /\ base # <<1, 1>>
  THEN LET k == {n \in -4..4: Power(base, <<n, 1>>) = Num(x)}
       IN  IF k = {} THEN Inexact ELSE Whole(CHOOSE n \in k: TRUE)
  ELSE Escaped

----------------------------------------------------------------------------
(* Conversions. *)
Numeric(v) == v[1] \in {"num", "bool"}
_num(v) ==
  CASE Is("num", v) -> v
    [] Is("bool", v) -> Whole(IF v[2] THEN 1 ELSE 0)
    [] Failed(v) -> v
    [] OTHER -> FormulaError
_to_bool(v) ==
  CASE Is("bool", v) -> v[2]
    [] Is("num", v) -> v[2] # <<0, 1>>
    [] v[1] \in {"str", "list"} -> v[2] # <<>>
    [] OTHER -> FALSE
(* A written number is one code: the text's only use is to tell numbers     *)
(* apart and to be read back.                                              *)
Numeral(q) == 1000 + 100 * q[1] + q[2]
Text(v) ==
  CASE Is("num", v) -> <<Numeral(v[2])>>
    [] Is("bool", v) -> <<IF v[2] THEN 900 ELSE 901>>
    [] Is("str", v) -> v[2]
    [] OTHER -> <<>>
Readable == [c \in {Numeral(<<n, 1>>): n \in -5..9} |-> <<(c - 1001) \div 100, 1>>]
_try_num(v) ==
  IF Numeric(v) THEN _num(v)
  ELSE IF Is("str", v) /\ Len(v[2]) = 1 /\ v[2][1] \in DOMAIN Readable THEN Num(Readable[v[2][1]]) ELSE None
_range_values(v) == IF Is("list", v) THEN v[2] ELSE <<v>>
Nums(vs) == [i \in DOMAIN vs |-> _num(vs[i])]
Rationals(vs) == [i \in DOMAIN vs |-> _num(vs[i])[2]]
(* Apply a function of rationals once every value is a number. *)
OnNumbers(vs, F(_)) == LET ns == Nums(vs) IN After(ns, F(Rationals(SelectSeq(vs, LAMBDA v: ~Failed(_num(v))))))
RECURSIVE LessCodes(_, _)
LessCodes(a, b) ==
  IF b = <<>> THEN FALSE ELSE IF a = <<>> THEN TRUE
  ELSE IF a[1] = b[1] THEN LessCodes(Tail(a), Tail(b)) ELSE a[1] < b[1]
Same(a, b) == IF Numeric(a) /\ Numeric(b) THEN _num(a) = _num(b) ELSE a = b
(* Python's order: numbers with numbers, texts with texts, nothing else.   *)
_cmp_values(a, b) ==
  IF Numeric(a) /\ Numeric(b) THEN (IF Same(a, b) THEN 0 ELSE IF Less(_num(a)[2], _num(b)[2]) THEN -1 ELSE 1)
  ELSE IF a = b THEN 0 ELSE IF LessCodes(a[2], b[2]) THEN -1 ELSE 1
Comparable(a, b) == (Numeric(a) /\ Numeric(b)) \/ (Is("str", a) /\ Is("str", b))
Relates(op, c) ==
  CASE op = "=" -> c = 0 [] op = "<>" -> c # 0 [] op = "<" -> c < 0
    [] op = ">" -> c > 0 [] op = "<=" -> c <= 0 [] op = ">=" -> c >= 0
(* A criterion is read once into an operator and an operand: numbers, also *)
(* written ones, compare as numbers, everything else as text.              *)
_criteria_matches(v, c) ==
  LET l == _try_num(v)  r == _try_num(c.operand)
  IN  Relates(c.op, IF l # None /\ r # None THEN _cmp_values(l, r) ELSE _cmp_values(Str(Text(v)), Str(Text(c.operand))))
Matching(v, c) == SelectSeq(_range_values(v), LAMBDA x: _criteria_matches(x, c))
----------------------------------------------------------------------------
(* Functions of numbers. *)
_flatten_numbers(args) == FlattenSeq([i \in DOMAIN args |-> _range_values(args[i])])
Greater(a, b) == Less(b, a)
Best(qs, Better(_, _)) == CHOOSE q \in ToSet(qs): \A r \in ToSet(qs): ~Better(r, q)
MinMax(name, args) ==
  LET pick(qs) == IF qs = <<>> THEN Escaped ELSE Num(IF name = "MAX" THEN Best(qs, Greater) ELSE Best(qs, Less))
  IN  IF args = <<>> THEN FormulaError ELSE OnNumbers(_flatten_numbers(args), pick)
Sum(args) == LET total(qs) == Num(Total(qs)) IN IF args = <<>> THEN FormulaError ELSE OnNumbers(_flatten_numbers(args), total)
MeanOf(qs) == IF qs = <<>> THEN FormulaError ELSE Num(Mean(qs))
Count(args) == IF args = <<>> THEN FormulaError ELSE Whole(Len(_flatten_numbers(args)))
Modulo(a, b) == IF b = <<0, 1>> THEN FormulaError ELSE Num(Sub(a, Mul(b, <<Floor(Over(a, b)), 1>>)))
Sign(q) == IF q[1] > 0 THEN 1 ELSE IF q[1] < 0 THEN -1 ELSE 0
Unary(name, q) ==
  CASE name = "ABS" -> Num(<<Magnitude(q[1]), q[2]>>)
    [] name = "CEILING" -> Whole(Ceiling(q))
    [] name = "FLOOR" -> Whole(Floor(q))
    [] name = "SIGN" -> Whole(Sign(q))
    [] name = "SQRT" -> IF q[1] < 0 THEN FormulaError ELSE Root(q)
    [] name = "LOG" -> IF q[1] <= 0 THEN FormulaError ELSE Logarithm(q, <<10, 1>>)
Binary(name, a, b) ==
  CASE name = "ROUND" -> Num(Rounded(a, Truncated(b)))
    [] name = "POWER" -> Power(a, b)
    [] name = "LOG" -> IF a[1] <= 0 THEN FormulaError ELSE Logarithm(a, b)
    [] name = "MOD" -> Modulo(a, b)

----------------------------------------------------------------------------
(* Aggregates of a range, its values already rationals. *)
Median(qs) ==
  LET s == Ascending(qs)  mid == Len(s) \div 2
  IN  IF s = <<>> THEN FormulaError
      ELSE IF Len(s) % 2 = 1 THEN Num(s[mid + 1]) ELSE Num(Over(Plus(s[mid], s[mid + 1]), <<2, 1>>))
Squares(qs) == [i \in DOMAIN qs |-> Mul(Sub(qs[i], Mean(qs)), Sub(qs[i], Mean(qs)))]
_sample_variance(qs) == IF Len(qs) < 2 THEN FormulaError ELSE Num(Over(Total(Squares(qs)), <<Len(qs) - 1, 1>>))
StDev(qs) == LET v == _sample_variance(qs) IN IF Failed(v) THEN v ELSE Root(v[2])
(* k above 1 is read as a percentage. *)
_percentile(qs, k0) ==
  LET k == IF Less(<<1, 1>>, k0) /\ ~Less(<<100, 1>>, k0) THEN Over(k0, <<100, 1>>) ELSE k0
      s == Ascending(qs)
      rank == Mul(k, <<Len(s) - 1, 1>>)
      low == s[Floor(rank) + 1]  high == s[Ceiling(rank) + 1]
  IN  IF s = <<>> \/ k[1] < 0 \/ Less(<<1, 1>>, k) THEN FormulaError
      ELSE Num(Plus(low, Mul(Sub(high, low), Sub(rank, <<Floor(rank), 1>>))))
Large(qs, k) == IF k <= 0 \/ k > Len(qs) THEN FormulaError ELSE Num(Reverse(Ascending(qs))[k])
Small(qs, k) == IF k <= 0 \/ k > Len(qs) THEN FormulaError ELSE Num(Ascending(qs)[k])
SumIf(v, c) == LET total(qs) == Num(Total(qs)) IN OnNumbers(Matching(v, c), total)
CountIf(v, c) == Whole(Len(Matching(v, c)))
AverageIf(v, c) == OnNumbers(Matching(v, c), MeanOf)
(* The least-squares line through the known pairs, at the new positions.   *)
Growth(ys, xs, new) ==
  LET dx == [i \in DOMAIN xs |-> Sub(xs[i], Mean(xs))]
      spread == Total([i \in DOMAIN xs |-> Mul(dx[i], dx[i])])
      slope == Over(Total([i \in DOMAIN xs |-> Mul(dx[i], Sub(ys[i], Mean(ys)))]), spread)
  IN  IF Len(ys) # Len(xs) \/ Len(ys) < 2 \/ spread = <<0, 1>> THEN FormulaError
      ELSE List([i \in DOMAIN new |-> Num(Plus(Mean(ys), Mul(slope, Sub(new[i], Mean(xs)))))])
_fn_rank(qs, target) == Whole(1 + Len(SelectSeq(qs, LAMBDA q: Less(target, q))))
(* The positions of the n best scores, equal scores in their order.        *)
_fn_ranklist(qs, n) ==
  LET before(i, j) == Less(qs[j], qs[i]) \/ (qs[i] = qs[j] /\ i < j)
      order == SortSeq([i \in DOMAIN qs |-> i], before)
  IN  SubSeq(order, 1, IF n < Len(order) THEN n ELSE Len(order))

----------------------------------------------------------------------------
(* Functions of texts: Python slices, where a negative bound counts from   *)
(* the end.                                                                *)
UpTo(s, n) == SubSeq(s, 1, IF n >= 0 THEN (IF n < Len(s) THEN n ELSE Len(s)) ELSE Len(s) + n)
From(s, n) == SubSeq(s, n + 1, Len(s))
Left(s, n) == UpTo(s, n)
Right(s, n) == IF n <= 0 THEN <<>> ELSE IF n >= Len(s) THEN s ELSE From(s, Len(s) - n)
Mid(s, start, length) == IF length <= 0 THEN <<>> ELSE UpTo(From(s, IF start > 1 THEN start - 1 ELSE 0), length)
At(s, i, part) == i + Len(part) - 1 <= Len(s) /\ SubSeq(s, i, i + Len(part) - 1) = part
Find(part, s) == LET at == {i \in 1..Len(s): At(s, i, part)} IN IF part = <<>> THEN 1 ELSE IF at = {} THEN 0 ELSE Min(at)
(* str.replace: from the left, without overlap; an empty old text goes     *)
(* before every character and at the end.                                  *)
RECURSIVE Substitute(_, _, _)
Substitute(s, old, new) ==
  IF old = <<>> THEN FlattenSeq([i \in DOMAIN s |-> new \o <<s[i]>>]) \o new
  ELSE LET i == Find(old, s)
       IN  IF i = 0 THEN s ELSE SubSeq(s, 1, i - 1) \o new \o Substitute(From(s, i + Len(old) - 1), old, new)
_fn_value(v) == IF Numeric(v) THEN _num(v) ELSE IF ~Is("str", v) \/ _try_num(v) = None THEN FormulaError ELSE _try_num(v)

----------------------------------------------------------------------------
(* Functions of a time series: the values and the current index, 0-based;  *)
(* no index (-1) means the last.                                           *)
_resolve_current_index(s, index) == IF index = -1 THEN Len(s) - 1 ELSE IF index < Len(s) THEN index ELSE Len(s) - 1
_shift_series_value(s, index, delta, default) == IF index + delta \in 0..(Len(s) - 1) THEN s[index + delta + 1] ELSE default
Lag(s, index, k, default) == _shift_series_value(s, index, -k, default)
Lead(s, index, k, default) == _shift_series_value(s, index, k, default)
WindowStart_OneEarly(index, window) == IF index - window > 0 THEN index - window ELSE 0
WindowStart(index, window) == IF index - window + 1 > 0 THEN index - window + 1 ELSE 0
Window(s, index, window) == SubSeq(s, WindowStart(index, window) + 1, index + 1)
MovingSum(s, index, window) ==
  LET total(qs) == Num(Total(qs)) IN IF window <= 0 THEN FormulaError ELSE OnNumbers(Window(s, index, window), total)
MovingAverage(s, index, window) == IF window <= 0 THEN FormulaError ELSE OnNumbers(Window(s, index, window), MeanOf)
Cumulate(s, index) == LET total(qs) == Num(Total(qs)) IN OnNumbers(SubSeq(s, 1, index + 1), total)
----------------------------------------------------------------------------
(* Calls on evaluated arguments: their number is checked before they are    *)
(* converted, from the left.  index is the context's CURRENT_INDEX.         *)
TextFunctions == {"LEFT", "RIGHT", "LEN", "MID", "FIND", "SUBSTITUTE", "VALUE"}
RangeFunctions ==
  {"SUMIF", "COUNTIF", "AVERAGEIF", "MEDIAN", "STDEV", "VARIANCE", "PERCENTILE", "LARGE", "SMALL", "GROWTH", "RANK", "RANKLIST"}
SeriesFunctions == {"LAG", "LEAD", "OFFSET", "MOVINGSUM", "MOVINGAVERAGE", "CUMULATE", "PREVIOUS", "NEXT"}
_check_arity(name, args) ==
  Len(args) \in
    CASE name \in {"MIN", "MAX", "SUM", "AVERAGE", "COUNT"} -> Nat \ {0}
      [] name \in {"AND", "OR"} -> Nat
      [] name \in {"ABS", "SQRT", "CEILING", "FLOOR", "SIGN", "NOT", "ISBLANK", "LEN", "VALUE", "MEDIAN", "STDEV", "VARIANCE", "CUMULATE"} -> {1}
      [] name \in {"MID", "SUBSTITUTE", "GROWTH", "RANKLIST"} -> {3}
      [] name \in {"LOG", "PREVIOUS", "NEXT"} -> 1..2
      [] name \in {"LAG", "LEAD", "OFFSET"} -> 2..3
      [] OTHER -> {2}
_str(v) == IF Is("str", v) \/ Failed(v) THEN v ELSE FormulaError
TextCalled(name, args) ==
  LET texts == CASE name \in {"FIND", "SUBSTITUTE"} -> DOMAIN args [] name = "VALUE" -> {} [] OTHER -> {1}
      as == [i \in DOMAIN args |-> IF i \in texts THEN _str(args[i]) ELSE IF name = "VALUE" THEN _fn_value(args[i]) ELSE _num(args[i])]
      whole(i) == Truncated(as[i][2])
  IN  After(as,
        CASE name = "LEFT" -> Str(Left(as[1][2], whole(2)))
          [] name = "RIGHT" -> Str(Right(as[1][2], whole(2)))
          [] name = "LEN" -> Whole(Len(as[1][2]))
          [] name = "MID" -> Str(Mid(as[1][2], whole(2), whole(3)))
          [] name = "FIND" -> Whole(Find(as[1][2], as[2][2]))
          [] name = "SUBSTITUTE" -> Str(Substitute(as[1][2], as[2][2], as[3][2]))
          [] name = "VALUE" -> as[1])
(* A criterion in a text begins with its operator, a character here, or     *)
(* asks for equality; its operand reads as a truth value or number first.   *)
Signs == <<">=", "<=", "<>", ">", "<", "=">>
_coerce_criteria_operand(s) ==
  CASE s = Text(Bool(TRUE)) -> Bool(TRUE)
    [] s = Text(Bool(FALSE)) -> Bool(FALSE)
    [] OTHER -> IF _try_num(Str(s)) # None THEN _try_num(Str(s)) ELSE Str(s)
Criterion(v) ==
  CASE ~Is("str", v) -> [op |-> "=", operand |-> v]
    [] Is("str", v) /\ \E i \in DOMAIN Signs: IsPrefix(<<800 + i>>, v[2]) ->
         [op |-> Signs[v[2][1] - 800], operand |-> _coerce_criteria_operand(Tail(v[2]))]
    [] OTHER -> [op |-> "=", operand |-> _coerce_criteria_operand(v[2])]
(* The values to rank among and, last, the one whose rank is asked.         *)
_rank_series_and_target(expr, dimension, index) ==
  CASE Is("list", expr) /\ expr[2] # <<>> -> Append(expr[2], expr[2][_resolve_current_index(expr[2], index) + 1])
    [] ~Is("list", expr) /\ Is("list", dimension) /\ dimension[2] # <<>> -> Append(dimension[2], expr)
    [] ~Is("list", expr) /\ ~Is("list", dimension) -> <<expr, expr>>
    [] OTHER -> <<>>
RankListed(expr, dimension, n) ==
  LET labels == IF Is("list", dimension) /\ Len(dimension[2]) = Len(expr[2]) THEN dimension[2] ELSE expr[2]
      named(qs) == LET best == _fn_ranklist(qs, n) IN List([i \in DOMAIN best |-> labels[best[i]]])
      scores(qs) == List([i \in DOMAIN _fn_ranklist(qs, n) |-> Num(Reverse(Ascending(qs))[i])])
  IN  CASE n < 0 -> FormulaError
        [] n = 0 -> List(<<>>)
        [] n > 0 /\ Is("list", expr) -> OnNumbers(expr[2], named)
        [] n > 0 /\ ~Is("list", expr) -> IF Is("list", dimension) THEN OnNumbers(dimension[2], scores) ELSE List(<<expr>>)
_growth_known_pairs(known_y, known_x) ==
  LET ys == _range_values(known_y)  xs == _range_values(known_x) IN IF Len(ys) # Len(xs) THEN <<>> ELSE ys \o xs
Grown(args) ==
  LET known == _growth_known_pairs(args[1], args[2])
      n == Len(known) \div 2
      line(qs) == Growth(SubSeq(qs, 1, n), SubSeq(qs, n + 1, 2 * n), SubSeq(qs, 2 * n + 1, Len(qs)))
      end == OnNumbers(known \o _range_values(args[3]), line)
  IN  IF known = <<>> THEN FormulaError ELSE IF Failed(end) \/ Is("list", args[3]) THEN end ELSE end[2][1]
RangeCalled(name, args, index) ==
  LET vs == _range_values(args[1])
      selected(qs) ==
        CASE name = "PERCENTILE" -> _percentile(Front(qs), Last(qs))
          [] name = "LARGE" -> Large(Front(qs), Truncated(Last(qs)))
          [] name = "SMALL" -> Small(Front(qs), Truncated(Last(qs)))
          [] name = "RANK" -> _fn_rank(Front(qs), Last(qs))
      ranked == _rank_series_and_target(args[1], args[2], index)
      limit == _num(args[3])
  IN  CASE name = "SUMIF" -> SumIf(args[1], Criterion(args[2]))
        [] name = "COUNTIF" -> CountIf(args[1], Criterion(args[2]))
        [] name = "AVERAGEIF" -> AverageIf(args[1], Criterion(args[2]))
        [] name = "MEDIAN" -> OnNumbers(vs, Median)
        [] name = "STDEV" -> OnNumbers(vs, StDev)
        [] name = "VARIANCE" -> OnNumbers(vs, _sample_variance)
        [] name \in {"PERCENTILE", "LARGE", "SMALL"} -> OnNumbers(Append(vs, args[2]), selected)
        [] name = "GROWTH" -> Grown(args)
        [] name = "RANK" -> IF ranked = <<>> THEN FormulaError ELSE OnNumbers(ranked, selected)
        [] name = "RANKLIST" -> IF Failed(limit) THEN limit ELSE RankListed(args[1], args[2], Truncated(limit[2]))
(* A value that is no list is a series of one.                              *)
SeriesCalled(name, args, index) ==
  LET s == _range_values(args[1])
      at == IF Is("list", args[1]) /\ s # <<>> THEN _resolve_current_index(s, index) ELSE 0
      n == Truncated(_num(args[2])[2])
      default(i) == IF Len(args) = i THEN args[i] ELSE Whole(0)
  IN  CASE name = "PREVIOUS" -> Lag(s, at, 1, default(2))
        [] name = "NEXT" -> Lead(s, at, 1, default(2))
        [] name = "LAG" -> After(<<_num(args[2])>>, Lag(s, at, n, default(3)))
        [] name \in {"LEAD", "OFFSET"} -> After(<<_num(args[2])>>, Lead(s, at, n, default(3)))
        [] name = "CUMULATE" -> Cumulate(s, at)
        [] name = "MOVINGSUM" -> After(<<_num(args[2])>>, IF n > 0 /\ s = <<>> THEN Whole(0) ELSE MovingSum(s, at, n))
        [] name = "MOVINGAVERAGE" -> After(<<_num(args[2])>>, IF s = <<>> THEN FormulaError ELSE MovingAverage(s, at, n))
=============================================================================
