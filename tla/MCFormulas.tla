----------------------------- MODULE MCFormulas -----------------------------
(***************************************************************************)
(* The formula engine on small inputs.  Its five parts share no state: a    *)
(* behaviour is about one of them, sheet says which.                        *)
(***************************************************************************)
EXTENDS Formula, FormulaSeries, FormulaMembers, TimeCalendar, DependencyGraph, TLC

VARIABLE sheet

allVars == <<formulaVars, series, memberVars, timeVars, vars, sheet>>

Lit(n) == <<"NUMBER", Whole(n)>>
Name(n) == <<"IDENTIFIER", n>>
Op(o) == <<"OPERATOR", o>>
LP == <<"LPAREN", "(">>
RP == <<"RPAREN", ")">>
Comma == <<"COMMA", ",">>
SmallTokens ==
  {Lit(2), Name("x"), Name("y"), Op("-"), Op("*"), Op("^"), LP, RP, Comma,
   <<"LOGICAL", "NOT">>, <<"LOGICAL", "AND">>, <<"COMPARISON", "=">>, <<"LOGICAL", "OR">>}
SmallBeginnings ==
  {<<>>, <<Name("x"), Op("-"), Name("y")>>, <<Name("x"), Op("^")>>, <<Name("IF"), LP, Name("x"), Comma, Name("y"), Comma>>,
   <<Name("MIN"), LP, Name("x")>>, <<Name("x"), <<"COMPARISON", "=">> >>, <<Name("LEFT"), LP, Name("x"), Comma>>,
   <<Name("COUNTIF"), LP, Name("x"), Comma>>, <<Name("LAG"), LP, Name("x"), Comma, Lit(2), Comma>>}
SmallBindings == [{"x", "y"} -> {Whole(0), Whole(2), Str(<<1>>)}]
SmallValues == {Whole(-3), Whole(0), Whole(2), Whole(6), Str(<<1, 1>>), Str(<<Numeral(<<2, 1>>)>>), Bool(TRUE)}
SmallThresholds == {0, 2}
Calendar(month, weekday, weeks, retail) == [month |-> month, weekday |-> weekday, weeks |-> weeks, retail |-> retail]
SmallCalendars ==
  {Calendar(1, 0, "iso", "standard"), Calendar(7, 0, "iso", "standard"), Calendar(1, 6, "custom", "standard"),
   Calendar(7, 2, "custom", "standard"), Calendar(2, 0, "iso", "4-4-5"), Calendar(1, 0, "iso", "5-4-4")}
SmallDays ==
  {Date(y, m, d): y \in 2023..2024, m \in {1, 2, 7, 12}, d \in {1, 26, 28, 30}} \cup {Date(y, 12, 31): y \in 2023..2024}
SmallIds == <<"i1", "i2", "i3", "i4">>

AllEdges == Nodes \X Nodes
\* Two items at once, each with a formula that references nothing or everything.
ExtremePairs == UNION {[T -> {{}, Nodes}]: T \in {S \in SUBSET Nodes: Cardinality(S) = 2}}
NodeSymmetry == Permutations(Nodes)

SheetInit ==
  /\ sheet \in {"formula", "series", "members", "calendar", "graph"}
  /\ IF sheet = "formula" THEN FormulaInit ELSE tokens = <<>> /\ typed = 0
  /\ SeriesInit /\ MembersInit
  /\ IF sheet = "calendar" THEN TimeInit ELSE cal = Calendar(1, 0, "iso", "standard") /\ day = Min(Days)
  /\ Init
SheetNext ==
  /\ UNCHANGED sheet
  /\ \/ sheet = "formula" /\ Type /\ UNCHANGED <<series, memberVars, timeVars, vars>>
     \/ sheet = "series" /\ EnterValue /\ UNCHANGED <<formulaVars, memberVars, timeVars, vars>>
     \/ sheet = "members" /\ (AddMember \/ MoveMember) /\ UNCHANGED <<formulaVars, series, timeVars, vars>>
     \/ sheet = "calendar" /\ NextDay /\ UNCHANGED <<formulaVars, series, memberVars, vars>>
     \/ sheet = "graph" /\ Next /\ UNCHANGED <<formulaVars, series, memberVars, timeVars>>
SheetSpec == SheetInit /\ [][SheetNext]_allVars

(* What the engine computes is what its grammar and its references say: the *)
(* parser returns the one tree the grammar derives, and the value depends   *)
(* on nothing that get_references leaves out (parser.py, formula.py).       *)
FormulasMeetGrammar == sheet = "formula" => ParserIsTheGrammar /\ ReferencesSuffice
(* The functions agree with one another and with the hierarchy they walk:   *)
(* windows, criteria, orders and statistics of a series; ancestors and      *)
(* mapped sums of members (evaluator.py).                                   *)
FunctionsMeetDefinitions ==
  /\ sheet = "series" => FunctionsAgree
  /\ sheet = "members" => HierarchyAgrees /\ MappedSumsSplit
(* Calendar and period functions agree: every day has its one period, and   *)
(* offsets, counts and sums step through the periods (time_calendar.py,     *)
(* evaluator.py).                                                           *)
CalendarAgrees ==
  sheet = "calendar" => EveryDayHasItsPeriod /\ OffsetsStepThroughTime /\ AmountsAddUp
=============================================================================
