------------------------------ MODULE MCPlanning ------------------------------
(* Small instances of the components a planner works with, each explored by  *)
(* itself: focus says which.                                                 *)
EXTENDS Versions, Planning, Dimensions, TimeRanges, TLC

VARIABLE focus

MCAssumptionKeys == {{Per(1)}, {V("f"), Per(1)}, {Per(2)}}
MCWriteMembers == {{<<"m", "x">>}}
MCParentOf == ("r" :> "no") @@ ("x" :> "r") @@ ("y" :> "r") @@ ("u" :> "y") @@ ("v" :> "y")
MCOrder == <<"r", "y", "x", "u", "v">>
MCSpread(p, x, m, w) == [parent |-> p, target |-> x, method |-> m, weights |-> w]
MCBulks ==
  {<<MCSpread("r", 8, "proportional", <<>>), MCSpread("y", 8, "weighted", <<1, 3>>)>>,
   <<MCSpread("y", 4, "even", <<>>), MCSpread("y", 8, "proportional", <<>>)>>,
   <<MCSpread("y", 4, "weighted", <<1, -1>>), MCSpread("r", 0, "manual", <<>>)>>,
   <<MCSpread("x", 4, "even", <<>>)>>, <<MCSpread("y", 4, "weighted", <<1>>)>>}
MCTypeOf == ("n" :> "numbered") @@ ("s" :> "standard") @@ ("t" :> "standard") @@ ("c" :> "composite")
MCSources == "c" :> {"n", "s", "t"}
MCFiles ==
  {<<[name |-> "A", parent |-> ""], [name |-> "B", parent |-> "A"]>>,
   <<[name |-> "A", parent |-> ""], [name |-> "A", parent |-> "B"]>>}

(* The forecast is rolled into version a; two assumptions at most. *)
FewVersions ==
  /\ versions["f"].switchover <= 1 /\ versions["a"].switchover = 0 /\ versions["b"].switchover = 0 /\ scenario.base = "f"
  /\ (config.exists => config.actuals = "a")
  /\ \A i \in DOMAIN scenario.assumptions : scenario.assumptions[i].value = i
  /\ LET made == [i \in DOMAIN scenario.assumptions |-> scenario.assumptions[i].key]
     IN Len(made) <= 1 \/ made = <<{V("f"), Per(1)}, {Per(1)}>>
  /\ \A key \in DOMAIN cells : cells[key].value = 1
FewCells == \A i \in Items : cellOf[i] = IF i = "u" THEN 4 ELSE 0
\* Ids say nothing, so that one order of the first items is enough.
OneOrder == [i \in DOMAIN items |-> items[i].dim] \in {<<>>, <<"n", "s", "t">>}

PlanningInit ==
  /\ focus \in {"versions", "planning", "dimensions", "ranges"}
  /\ VersionsInit /\ FewVersions /\ PlanInit /\ FewCells /\ DimInit /\ OneOrder /\ RangeInit
  /\ focus # "versions" => ~config.exists /\ scenario.assumptions = <<>> /\ cells = [k \in {} |-> 0] /\ versions["f"].switchover = 0
  /\ focus # "planning" => summary = "none"
  /\ focus # "dimensions" => nextId = 0
PlanningNext ==
  /\ UNCHANGED focus
  /\ \/ focus = "versions" /\ VersionsNext /\ UNCHANGED <<planVars, dimVars, rangeVars>>
     \/ focus = "planning" /\ PlanNext /\ UNCHANGED <<vsVars, dimVars, rangeVars>>
     \/ focus = "dimensions" /\ DimNext /\ UNCHANGED <<vsVars, planVars, rangeVars>>
     \/ focus = "ranges" /\ RangeNext /\ UNCHANGED <<vsVars, planVars, dimVars>>
PlanningSpec == PlanningInit /\ [][PlanningNext]_<<focus, vsVars, planVars, dimVars, rangeVars>>
=============================================================================
