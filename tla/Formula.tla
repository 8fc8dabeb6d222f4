------------------------------- MODULE Formula -------------------------------
(***************************************************************************)
(* The formula language of engine/parser.py, engine/formula.py and the core *)
(* of engine/evaluator.py: a recursive-descent parser of token sequences, a *)
(* walk that collects references, and an evaluator.  A user types a formula *)
(* token by token; every state is a formula so far.                         *)
(*                                                                         *)
(* A token is <<type, value>>; a tree is a tuple headed by its node class.  *)
(***************************************************************************)
EXTENDS FormulaFunctions

CONSTANTS Beginnings,    \* the formulas typing starts from
          Tokens,        \* the tokens a user types
          MaxTyped,      \* how many of them
          Bindings       \* the contexts formulas are evaluated in: functions from names to values

VARIABLES tokens, typed

formulaVars == <<tokens, typed>>

----------------------------------------------------------------------------
(* Parsing: a result is a tree and the tokens left, or a ParseError.       *)
NoTree == <<"syntax error">>
Result(tree, rest) == [ok |-> TRUE, tree |-> tree, rest |-> rest]
SyntaxError == [ok |-> FALSE, tree |-> NoTree, rest |-> <<>>]
_peek(s, type, values) == s # <<>> /\ s[1][1] = type /\ s[1][2] \in values
\* The node class head with the tree of r, or the error of r.
Wrapped(head, r) == IF r.ok THEN Result(Append(head, r.tree), r.rest) ELSE r
Joined_Swapped(op, left, r) == IF r.ok THEN Result(<<"binary", op, r.tree, left.tree>>, r.rest) ELSE r
Joined(op, left, r) == Wrapped(<<"binary", op, left.tree>>, r)
Closed(r) == IF _peek(r.rest, "RPAREN", {")"}) THEN Result(r.tree, Tail(r.rest)) ELSE SyntaxError

RECURSIVE _parse_or(_), _parse_not(_), _parse_unary(_), _parse_arg_list(_)
RECURSIVE OrFrom(_), AndFrom(_), AddFrom(_), MulFrom(_), ArgsFrom(_)

(* primary ::= literal | name [ '(' arguments ')' ] | '(' expr ')'         *)
_parse_primary(s) ==
  CASE s = <<>> -> SyntaxError
    [] s[1][1] \in {"NUMBER", "STRING", "BOOLEAN"} -> Result(<<"literal", s[1][2]>>, Tail(s))
    [] s[1][1] \in {"IDENTIFIER", "LOGICAL"} /\ _peek(Tail(s), "LPAREN", {"("}) ->
         Wrapped(<<"call", s[1][2]>>, Closed(_parse_arg_list(Tail(Tail(s)))))
    [] s[1][1] = "IDENTIFIER" /\ ~_peek(Tail(s), "LPAREN", {"("}) -> Result(<<"name", s[1][2]>>, Tail(s))
    [] _peek(s, "LPAREN", {"("}) -> Closed(_parse_or(Tail(s)))
    [] OTHER -> SyntaxError
(* arg_list ::= empty | expr (',' expr)*; the tree is the list.            *)
ArgsFrom(args) ==
  IF _peek(args.rest, "COMMA", {","})
  THEN ArgsFrom(Wrapped(args.tree, _parse_or(Tail(args.rest)))) ELSE args
_parse_arg_list(s) == IF _peek(s, "RPAREN", {")"}) THEN Result(<<>>, s) ELSE ArgsFrom(Wrapped(<<>>, _parse_or(s)))
_parse_unary(s) ==
  IF _peek(s, "OPERATOR", {"-"}) THEN Wrapped(<<"unary", "-">>, _parse_unary(Tail(s))) ELSE _parse_primary(s)
(* One exponent at most: pow ::= unary ('^' unary)?                        *)
PowFrom(base) ==
  IF _peek(base.rest, "OPERATOR", {"^"}) THEN Joined("^", base, _parse_unary(Tail(base.rest))) ELSE base
_parse_pow(s) == PowFrom(_parse_unary(s))
(* The loops fold further operands into the tree on the left; an error has *)
(* no tokens left and ends them.                                           *)
MulFrom(left) ==
  IF _peek(left.rest, "OPERATOR", {"*", "/"})
  THEN MulFrom(Joined(left.rest[1][2], left, _parse_pow(Tail(left.rest)))) ELSE left
_parse_mul(s) == MulFrom(_parse_pow(s))
AddFrom(left) ==
  IF _peek(left.rest, "OPERATOR", {"+", "-"})
  THEN AddFrom(Joined(left.rest[1][2], left, _parse_mul(Tail(left.rest)))) ELSE left
_parse_add(s) == AddFrom(_parse_mul(s))
Comparisons == {"=", "<>", "<", ">", "<=", ">="}
ComparisonFrom(left) ==
  IF _peek(left.rest, "COMPARISON", Comparisons)
  THEN Wrapped(<<"comparison", left.rest[1][2], left.tree>>, _parse_add(Tail(left.rest))) ELSE left
_parse_comparison(s) == ComparisonFrom(_parse_add(s))
_parse_not(s) ==
  IF _peek(s, "LOGICAL", {"NOT"}) THEN Wrapped(<<"unary", "NOT">>, _parse_not(Tail(s))) ELSE _parse_comparison(s)
AndFrom(left) ==
  IF _peek(left.rest, "LOGICAL", {"AND"})
  THEN AndFrom(Joined("AND", left, _parse_not(Tail(left.rest)))) ELSE left
_parse_and(s) == AndFrom(_parse_not(s))
OrFrom(left) ==
  IF _peek(left.rest, "LOGICAL", {"OR"})
  THEN OrFrom(Joined("OR", left, _parse_and(Tail(left.rest)))) ELSE left
_parse_or(s) == OrFrom(_parse_and(s))
Complete(r) == IF r.ok /\ r.rest = <<>> THEN r.tree ELSE NoTree
parse(s) == Complete(_parse_or(s))

----------------------------------------------------------------------------
(* References and evaluation. *)
RECURSIVE _collect_refs_FirstBranch(_)
_collect_refs_FirstBranch(t) ==
  CASE t[1] = "name" -> {t[2]}
    [] t[1] = "unary" -> _collect_refs_FirstBranch(t[3])
    [] t[1] \in {"binary", "comparison"} -> _collect_refs_FirstBranch(t[3]) \cup _collect_refs_FirstBranch(t[4])
    [] t[1] = "call" -> UNION {_collect_refs_FirstBranch(t[3][i]): i \in DOMAIN t[3] \ {2}}
    [] OTHER -> {}
RECURSIVE _collect_refs(_)
_collect_refs(t) ==
  CASE t[1] = "name" -> {t[2]}
    [] t[1] = "unary" -> _collect_refs(t[3])
    [] t[1] \in {"binary", "comparison"} -> _collect_refs(t[3]) \cup _collect_refs(t[4])
    [] t[1] = "call" -> UNION {_collect_refs(t[3][i]): i \in DOMAIN t[3]}
    [] OTHER -> {}
get_references(s) == _collect_refs(parse(s))

_eval_comparison(op, l, r) ==
  After(<<l, r>>,
    IF op \in {"=", "<>"} THEN Bool((op = "=") <=> Same(l, r))
    ELSE IF Comparable(l, r) THEN Bool(Relates(op, _cmp_values(l, r))) ELSE FormulaError)
Arithmetic(op, a, b) ==
  CASE op = "+" -> Num(Plus(a, b))
    [] op = "-" -> Num(Sub(a, b))
    [] op = "*" -> Num(Mul(a, b))
    [] op = "/" -> IF b = <<0, 1>> THEN FormulaError ELSE Num(Over(a, b))
    [] op = "^" -> Power(a, b)
(* + joins texts when either side is one; the operands of / are converted  *)
(* divisor first, which no outcome shows.                                  *)
Operated(op, l, r) ==
  After(<<l, r>>,
    IF op = "+" /\ (Is("str", l) \/ Is("str", r)) THEN Str(Text(l) \o Text(r))
    ELSE After(<<_num(l), _num(r)>>, Arithmetic(op, _num(l)[2], _num(r)[2])))
(* The operators AND and OR leave the right side alone when the left decides. *)
Connected(op, l, r) ==
  After(<<l>>, IF _to_bool(l) = (op = "OR") THEN Bool(op = "OR") ELSE After(<<r>>, Bool(_to_bool(r))))
_eval_unary(op, v) ==
  After(<<v>>,
    CASE op = "NOT" -> Bool(~_to_bool(v))
      [] op = "-" -> IF Numeric(v) THEN Num(Sub(<<0, 1>>, _num(v)[2])) ELSE FormulaError)
LogicalFunctions == {"NOT", "AND", "OR", "ISBLANK"}
LogicalCalled(name, args) ==
  CASE name = "NOT" -> ~_to_bool(args[1])
    [] name = "AND" -> \A i \in DOMAIN args: _to_bool(args[i])
    [] name = "OR" -> \E i \in DOMAIN args: _to_bool(args[i])
    [] name = "ISBLANK" -> args[1] \in {None, Str(<<>>)} \/ Same(args[1], Whole(0))
(* Functions of evaluated arguments; the contexts here set no CURRENT_INDEX. *)
Called(name, args) ==
  LET numbers(qs) == IF Len(qs) = 1 THEN Unary(name, qs[1]) ELSE Binary(name, qs[1], qs[2])
  IN  CASE ~_check_arity(name, args) -> FormulaError
        [] _check_arity(name, args) ->
             CASE name \in {"MIN", "MAX"} -> MinMax(name, args)
               [] name = "SUM" -> Sum(args)
               [] name = "AVERAGE" -> OnNumbers(_flatten_numbers(args), MeanOf)
               [] name = "COUNT" -> Count(args)
               [] name \in {"ABS", "CEILING", "FLOOR", "SIGN", "SQRT", "LOG", "ROUND", "POWER", "MOD"} -> OnNumbers(args, numbers)
               [] name \in LogicalFunctions -> Bool(LogicalCalled(name, args))
               [] name \in TextFunctions -> TextCalled(name, args)
               [] name \in RangeFunctions -> RangeCalled(name, args, -1)
               [] name \in SeriesFunctions -> SeriesCalled(name, args, -1)
               [] OTHER -> FormulaError
RECURSIVE evaluate(_, _)
(* IF evaluates its condition and the branch it takes. *)
_fn_if(ts, ctx) ==
  IF Len(ts) # 3 THEN FormulaError
  ELSE LET c == evaluate(ts[1], ctx) IN After(<<c>>, evaluate(ts[IF _to_bool(c) THEN 2 ELSE 3], ctx))
evaluate(t, ctx) ==
  CASE t[1] = "literal" -> t[2]
    [] t[1] = "name" -> IF t[2] \in DOMAIN ctx THEN ctx[t[2]] ELSE FormulaError
    [] t[1] = "unary" -> _eval_unary(t[2], evaluate(t[3], ctx))
    [] t[1] = "binary" /\ t[2] \in {"AND", "OR"} -> Connected(t[2], evaluate(t[3], ctx), evaluate(t[4], ctx))
    [] t[1] = "binary" /\ t[2] \notin {"AND", "OR"} -> Operated(t[2], evaluate(t[3], ctx), evaluate(t[4], ctx))
    [] t[1] = "comparison" -> _eval_comparison(t[2], evaluate(t[3], ctx), evaluate(t[4], ctx))
    [] t[1] = "call" /\ t[2] = "IF" -> _fn_if(t[3], ctx)
    [] t[1] = "call" /\ t[2] # "IF" ->
         LET args == [i \in DOMAIN t[3] |-> evaluate(t[3][i], ctx)] IN After(args, Called(t[2], args))

FormulaInit == tokens \in Beginnings /\ typed = 0
Type ==
  /\ typed < MaxTyped
  /\ \E t \in Tokens: tokens' = Append(tokens, t)
  /\ typed' = typed + 1

----------------------------------------------------------------------------
(* The grammar in the header of parser.py, read as what it derives: the set *)
(* of trees of a token sequence at a level, but for one '^' at most in a    *)
(* pow, where the header allows a chain of them.                            *)
Upto(s, i) == SubSeq(s, 1, i - 1)
Beyond(s, i) == SubSeq(s, i + 1, Len(s))
Where(s, type, values) == {i \in DOMAIN s: s[i][1] = type /\ s[i][2] \in values}
RECURSIVE Derives(_, _), DerivesList(_)
Splits(s, left, right, at, class) ==
  UNION {{class \o <<s[i][2], l, r>>: l \in Derives(left, Upto(s, i)), r \in Derives(right, Beyond(s, i))}: i \in at}
DerivesList(s) ==
  {<<t>>: t \in Derives("or", s)} \cup
  UNION {{<<t>> \o ts: t \in Derives("or", Upto(s, i)), ts \in DerivesList(Beyond(s, i))}: i \in Where(s, "COMMA", {","})}
Derives(level, s) ==
  CASE s = <<>> -> {}
    [] level = "or" /\ s # <<>> ->
         Derives("and", s) \cup Splits(s, "or", "and", Where(s, "LOGICAL", {"OR"}), <<"binary">>)
    [] level = "and" /\ s # <<>> ->
         Derives("not", s) \cup Splits(s, "and", "not", Where(s, "LOGICAL", {"AND"}), <<"binary">>)
    [] level = "not" /\ s # <<>> ->
         IF s[1] = <<"LOGICAL", "NOT">> THEN {<<"unary", "NOT", t>>: t \in Derives("not", Tail(s))}
         ELSE Derives("comparison", s)
    [] level = "comparison" /\ s # <<>> ->
         Derives("add", s) \cup Splits(s, "add", "add", Where(s, "COMPARISON", Comparisons), <<"comparison">>)
    [] level = "add" /\ s # <<>> ->
         Derives("mul", s) \cup Splits(s, "add", "mul", Where(s, "OPERATOR", {"+", "-"}), <<"binary">>)
    [] level = "mul" /\ s # <<>> ->
         Derives("pow", s) \cup Splits(s, "mul", "pow", Where(s, "OPERATOR", {"*", "/"}), <<"binary">>)
    [] level = "pow" /\ s # <<>> ->
         Derives("unary", s)
         \cup Splits(s, "unary", "unary", Where(s, "OPERATOR", {"^"}), <<"binary">>)
    [] level = "unary" /\ s # <<>> ->
         IF s[1] = <<"OPERATOR", "-">> THEN {<<"unary", "-", t>>: t \in Derives("unary", Tail(s))}
         ELSE Derives("primary", s)
    [] level = "primary" /\ s # <<>> ->
         LET inner == SubSeq(s, 2, Len(s) - 1)
             body == SubSeq(s, 3, Len(s) - 1)
             ends == Len(s) > 1 /\ s[Len(s)] = <<"RPAREN", ")">>
         IN  CASE Len(s) = 1 /\ s[1][1] \in {"NUMBER", "STRING", "BOOLEAN"} -> {<<"literal", s[1][2]>>}
               [] Len(s) = 1 /\ s[1][1] = "IDENTIFIER" -> {<<"name", s[1][2]>>}
               [] ends /\ s[1] = <<"LPAREN", "(">> -> Derives("or", inner)
               [] ends /\ Len(s) > 2 /\ s[2] = <<"LPAREN", "(">> /\ s[1][1] \in {"IDENTIFIER", "LOGICAL"} ->
                    {<<"call", s[1][2], args>>: args \in IF body = <<>> THEN {<<>>} ELSE DerivesList(body)}
               [] OTHER -> {}

(* The parser is the grammar: whatever a user has typed so far, it returns *)
(* the one tree the grammar derives, operators of one level grouped from    *)
(* the left, and reports a syntax error exactly when there is none.         *)
ParserIsTheGrammar ==
  Derives("or", tokens) = {parse(tokens)} \ {NoTree}
DependsOnly(tree, names) ==
  LET value == [b \in Bindings |-> evaluate(tree, b)]
  IN  tree # NoTree => \A b, c \in Bindings: (\A n \in names: b[n] = c[n]) => value[b] = value[c]
(* What the dependency graph is built from is enough: a formula's value     *)
(* depends on no name that get_references leaves out.                       *)
ReferencesSuffice == DependsOnly(parse(tokens), get_references(tokens))
=============================================================================
