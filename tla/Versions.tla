------------------------------- MODULE Versions -------------------------------
(***************************************************************************)
(* The versions of one model and the cells of one of its line items:        *)
(* services/version.py, cell_versioning.py, rolling_forecast.py, whatif.py    *)
(* and scenario_compare.py.                                                 *)
(*                                                                         *)
(* A dimension key is the set of its parts (every writer sorts them): a part  *)
(* names a member, a version or a period YYYY-MM.  Periods are numbered and   *)
(* 0 stands for none.  write_cell's keys hold ids only, so that keys with      *)
(* periods come from the assumptions of a scenario.  A roll of the forecast   *)
(* reads in one step and commits in another; the other requests are atomic.   *)
(***************************************************************************)
EXTENDS Integers, Sequences, SequencesExt, FiniteSets, FiniteSetsExt

CONSTANTS VersionIds,     \* ids of versions
          AssumptionKeys, \* keys a scenario may make assumptions about
          WriteMembers,   \* sets of members a cell may be written at
          VsValues,       \* numbers stored in cells
          LastPeriod,     \* bound on the periods
          CurrentPeriod,  \* the month of the clock
          MaxVsEdits      \* bound on the requests besides rolls

NoVersion == "none"

ASSUME VersionsAssumption ==
  /\ LastPeriod \in Nat /\ CurrentPeriod \in 1..LastPeriod
  /\ IsFiniteSet(VersionIds) /\ NoVersion \notin VersionIds /\ VsValues \subseteq Int

NoConfig == [exists |-> FALSE]
NoRoll == [stage |-> "idle"]

VARIABLES versions,  \* id -> [exists, default, switchover]
          cells,     \* key -> [version, value]: the stored rows
          config,    \* the model's forecast configuration
          scenario,  \* [active, base, assumptions] of a scenario
          roll,      \* what the roll under way has read
          vsEdits    \* requests so far

vsVars == <<versions, cells, config, scenario, roll, vsEdits>>

V(v) == <<"v", v>>
Per(t) == <<"p", t>>
Existing == {v \in VersionIds : versions[v].exists}
Edited == vsEdits < MaxVsEdits /\ vsEdits' = vsEdits + 1

(* Keys. *)
_parse_period_from_dimension_key(key) ==
  IF \E t \in 1..LastPeriod : Per(t) \in key THEN Min({t \in 1..LastPeriod : Per(t) \in key}) ELSE 0
_period_is_before_Inclusive(a, b) == a <= b   \* mutant: the switchover itself is actuals
_period_is_before(a, b) == a < b
remove_versions_from_dimension_key(key, vs) == key \ {V(v) : v \in vs}
ensure_dimension_members_include_version(members, v) ==
  IF v = NoVersion THEN members ELSE members \cup {V(v)}
_advance_period(t, months) == IF t = 0 THEN CurrentPeriod + months ELSE t + months
_periods_between(a, b) == b - a

resolve_cell_version_context(members, explicit) ==
  LET inMembers == {v \in Existing : V(v) \in members}
      resolved == IF explicit # NoVersion THEN explicit
                  ELSE IF Cardinality(inMembers) = 1 THEN CHOOSE v \in inMembers : TRUE ELSE NoVersion
  IN [ok |-> IF explicit # NoVersion THEN explicit \in Existing /\ inMembers \subseteq {explicit}
             ELSE Cardinality(inMembers) <= 1,
      version |-> resolved,
      key |-> ensure_dimension_members_include_version(members \ {V(v) : v \in Existing}, resolved)]

(* Rows without a version get the one version their key names. *)
migrate_legacy_cell_versions(rows) ==
  [key \in DOMAIN rows |->
     LET matched == {v \in Existing : V(v) \in key}
     IN IF rows[key].version = NoVersion /\ Cardinality(matched) = 1
        THEN [rows[key] EXCEPT !.version = CHOOSE v \in matched : TRUE] ELSE rows[key]]

RowsOf(rows, v) == {key \in DOMAIN rows : rows[key].version = v}

(* The values a reader gets: actuals before the switchover, forecast from it  *)
(* on.  A key without a period may have one of each.                         *)
get_cells_with_switchover(stored, a, f, switchover) ==
  LET rows == migrate_legacy_cell_versions(stored)
      Used(key) ==
        LET t == _parse_period_from_dimension_key(key)
            before == _period_is_before(t, switchover)
        IN \/ rows[key].version = a /\ (t = 0 \/ before)
           \/ rows[key].version = f /\ (t = 0 \/ ~before)
  IN {[base |-> remove_versions_from_dimension_key(key, {a, f}), value |-> rows[key].value] :
        key \in {k \in DOMAIN rows : Used(k)}}

(* Comparing versions. *)
BaseMap(rows, v) ==
  LET own == {[base |-> remove_versions_from_dimension_key(key, {v}), value |-> rows[key].value] : key \in RowsOf(rows, v)}
      shared == {[base |-> key, value |-> rows[key].value] : key \in RowsOf(rows, NoVersion)}
  IN own \cup {s \in shared : \A o \in own : o.base # s.base}

Lookup(pairs, base) == {p.value : p \in {q \in pairs : q.base = base}}
Diff(valuesA, valuesB) == {y - x : x \in valuesA, y \in valuesB}

compare_versions(a, b) ==
  LET rows == migrate_legacy_cell_versions(cells)
      mapA == BaseMap(rows, a)
      mapB == BaseMap(rows, b)
  IN {[base |-> base, values |-> <<Lookup(mapA, base), Lookup(mapB, base)>>,
       variance |-> Diff(Lookup(mapA, base), Lookup(mapB, base))] : base \in {p.base : p \in mapA \cup mapB}}

(* scenario_compare.py: any number of versions, all line items, filters. *)
_fetch_cells_for_line_items(rows, filters) ==
  {key \in DOMAIN rows : \A allowed \in filters : key \cap allowed # {}}

CellVersion(rows, key, vs) ==
  IF rows[key].version \in vs THEN rows[key].version
  ELSE IF \E v \in vs : V(v) \in key THEN CHOOSE v \in vs : V(v) \in key ELSE NoVersion

sc_compare_versions(vs, filters) ==
  LET rows == migrate_legacy_cell_versions(cells)
      fetched == _fetch_cells_for_line_items(rows, filters)
      Slot(key) == CellVersion(rows, key, vs)
      Base(key) == remove_versions_from_dimension_key(key, {Slot(key)} \ {NoVersion})
      Own(base, v) == {rows[key].value : key \in {k \in fetched : Slot(k) = v /\ Base(k) = base}}
      Shared(base) == {rows[key].value : key \in {k \in fetched : Slot(k) = NoVersion /\ k = base}}
  IN [base \in {Base(key) : key \in fetched} |->
        [v \in vs |-> IF Own(base, v) # {} THEN Own(base, v) ELSE Shared(base)]]

get_comparison_matrix(vs) == sc_compare_versions(vs, {})

get_variance_summary(a, b) ==
  LET rows == sc_compare_versions({a, b}, {})
      Missing(base) == {v \in {a, b} : rows[base][v] = {}}
      Gap(base) ==
        LET Val(v) == IF rows[base][v] = {} THEN 0 ELSE CHOOSE x \in rows[base][v] : TRUE
            Pos(x) == IF x < 0 THEN -x ELSE x
        IN IF Missing(base) = {} THEN Pos(Val(b) - Val(a)) ELSE Pos(Val(a)) + Pos(Val(b))
      changed == {base \in DOMAIN rows : Cardinality(Missing(base)) = 1 \/ (Missing(base) = {} /\ Gap(base) # 0)}
  IN [changed |-> Cardinality(changed), total |-> Cardinality(DOMAIN rows),
      unchanged |-> Cardinality(DOMAIN rows \ changed),
      totalAbs |-> FoldSet(LAMBDA base, sum : sum + Gap(base), 0, DOMAIN rows)]

(* services/cell.py: the cells of the line item, of one version or of any.   *)
read_cells_for_line_item(v, filters) ==
  {key \in _fetch_cells_for_line_items(cells, filters) : v = NoVersion \/ cells[key].version = v \/ V(v) \in key}

(* What-if scenarios. *)
evaluate_scenario ==
  LET rows == migrate_legacy_cell_versions(cells)
      assumed == {scenario.assumptions[i].key : i \in DOMAIN scenario.assumptions}
      kept == IF scenario.base = NoVersion THEN {} ELSE RowsOf(rows, scenario.base) \ assumed
  IN {[key |-> key, value |-> rows[key].value, modified |-> FALSE] : key \in kept}
     \cup {[key |-> x.key, value |-> x.value, modified |-> TRUE] : x \in Range(scenario.assumptions)}

PromotedKey(key, target) ==
  ensure_dimension_members_include_version(
    IF scenario.base # NoVersion /\ V(scenario.base) \in key THEN key \ {V(scenario.base)} ELSE key, target)
-----------------------------------------------------------------------------
(* Versions. *)
create_version(v, default, switchover) ==
  /\ Edited /\ ~versions[v].exists
  /\ versions' = [w \in VersionIds |->
       IF w = v THEN [exists |-> TRUE, default |-> default, switchover |-> switchover]
       ELSE IF default THEN [versions[w] EXCEPT !.default = FALSE] ELSE versions[w]]
  /\ UNCHANGED <<cells, config, scenario, roll>>

(* The fields that are given; no other default is unset. *)
update_version(v, given) ==
  /\ Edited /\ versions[v].exists
  /\ versions' = [versions EXCEPT ![v] = [f \in DOMAIN @ |-> IF f \in DOMAIN given THEN given[f] ELSE @[f]]]
  /\ UNCHANGED <<cells, config, scenario, roll>>

set_default_version(v) ==
  /\ Edited /\ versions[v].exists
  /\ versions' = [w \in VersionIds |-> [versions[w] EXCEPT !.default = (w = v)]]
  /\ UNCHANGED <<cells, config, scenario, roll>>

(* The foreign keys of cells, configurations and scenarios become NULL. *)
Unref(v, ref) == IF ref = v THEN NoVersion ELSE ref
delete_version(v) ==
  /\ Edited /\ versions[v].exists
  /\ versions' = [versions EXCEPT ![v] = [exists |-> FALSE, default |-> FALSE, switchover |-> 0]]
  /\ cells' = [key \in DOMAIN cells |-> [cells[key] EXCEPT !.version = Unref(v, @)]]
  /\ config' = IF config.exists THEN [config EXCEPT !.actuals = Unref(v, @), !.forecast = Unref(v, @)] ELSE config
  /\ scenario' = [scenario EXCEPT !.base = Unref(v, @)]
  /\ UNCHANGED roll

Upsert(rows, key, version, value) ==
  [k \in DOMAIN rows \cup {key} |-> IF k = key THEN [version |-> version, value |-> value] ELSE rows[k]]

write_cell(members, explicit, value) ==
  LET context == resolve_cell_version_context(members, explicit)
  IN /\ Edited /\ context.ok
     /\ cells' = Upsert(cells, context.key, context.version, value)
     /\ UNCHANGED <<versions, config, scenario, roll>>
-----------------------------------------------------------------------------
(* Rolling forecast. *)
create_forecast_config(archive, a, f) ==
  /\ Edited /\ ~config.exists /\ {a, f} \subseteq Existing \cup {NoVersion}
  /\ config' = [exists |-> TRUE, auto_archive |-> archive, actuals |-> a, forecast |-> f]
  /\ UNCHANGED <<versions, cells, scenario, roll>>

(* The endpoint passes both ids whether or not the client sent them. *)
update_forecast_config(archive, a, f) ==
  /\ Edited /\ config.exists /\ {a, f} \subseteq Existing \cup {NoVersion}
  /\ config' = [config EXCEPT !.auto_archive = archive, !.actuals = a, !.forecast = f]
  /\ UNCHANGED <<versions, cells, scenario, roll>>

ArchiveKey(key, f, a) == (key \ {V(f)}) \cup {V(a)}

(* The rows of the forecast in the rolled periods, under the actuals' keys. *)
Archive(n, switchover) ==
  LET a == config.actuals
      f == config.forecast
      rows == migrate_legacy_cell_versions(cells)
      rolled == {key \in RowsOf(rows, f) : switchover = 0 \/ \E i \in 0..(n - 1) : Per(switchover + i) \in key}
      onto == {ArchiveKey(key, f, a) : key \in rolled}
  IN IF config.auto_archive /\ a \in Existing
     THEN [new \in onto |-> rows[CHOOSE key \in rolled : ArchiveKey(key, f, a) = new].value]
     ELSE [new \in {} |-> 0]

(* A roll that archives has migrated the rows it read, in its session: the    *)
(* rows whose version that set are migrated.                                *)
RollRead(n) ==
  LET f == config.forecast
      archives == config.auto_archive /\ config.actuals \in Existing
      rows == migrate_legacy_cell_versions(cells)
  IN /\ roll = NoRoll /\ config.exists /\ f \in Existing
     /\ _advance_period(versions[f].switchover, n) <= LastPeriod
     /\ roll' = [stage |-> "read", n |-> n, switchover |-> versions[f].switchover, forecast |-> f,
                 actuals |-> config.actuals, archives |-> archives,
                 archived |-> Archive(n, versions[f].switchover), rows |-> rows,
                 migrated |-> IF archives THEN {key \in DOMAIN cells : rows[key] # cells[key]} ELSE {}]
     /\ UNCHANGED <<versions, cells, config, scenario, vsEdits>>

roll_forecast(n) == RollRead(n)

(* What clients are told of a forecast of so many months.                    *)
get_forecast_status(horizon) ==
  LET known == config.exists /\ config.forecast \in Existing /\ versions[config.forecast].switchover # 0
      elapsed == IF known THEN Max({0, _periods_between(versions[config.forecast].switchover, CurrentPeriod)}) ELSE 0
  IN [elapsed |-> elapsed, remaining |-> Max({0, horizon - elapsed}),
      next |-> IF known THEN _advance_period(versions[config.forecast].switchover, 1) ELSE 0]

auto_roll_if_due ==
  /\ config.exists /\ config.auto_archive /\ config.forecast \in Existing
  /\ LET s == versions[config.forecast].switchover
         elapsed == _periods_between(s, CurrentPeriod)
     IN s # 0 /\ elapsed > 0 /\ RollRead(elapsed)

(* A row that was read without a version is given the actuals.  A roll fails  *)
(* when a version it refers to is gone, and when a row it inserts was stored  *)
(* by another request.                                                      *)
Adopts(key) == key \notin DOMAIN roll.rows \/ roll.rows[key].version = NoVersion
RollFails ==
  \/ ~versions[roll.forecast].exists
  \/ \E key \in roll.migrated : ~versions[roll.rows[key].version].exists
  \/ \E key \in DOMAIN roll.archived : Adopts(key) /\ ~versions[roll.actuals].exists
  \/ \E key \in DOMAIN roll.archived \cup roll.migrated : (key \in DOMAIN roll.rows) # (key \in DOMAIN cells)

(* Of the rows that were there only the columns that differ from what was    *)
(* read are written, whatever became of the others since.                   *)
Migrated == [key \in DOMAIN cells |-> IF key \in roll.migrated THEN [cells[key] EXCEPT !.version = roll.rows[key].version] ELSE cells[key]]
Archived(key) ==
  LET new == roll.archived[key]
  IN [version |-> IF Adopts(key) THEN roll.actuals ELSE Migrated[key].version,
      value |-> IF key \in DOMAIN roll.rows /\ roll.rows[key].value = new THEN Migrated[key].value ELSE new]

RollCommit ==
  /\ roll.stage = "read" /\ roll' = NoRoll
  /\ IF RollFails THEN UNCHANGED <<versions, cells>>
     ELSE /\ versions' = [versions EXCEPT ![roll.forecast].switchover = _advance_period(roll.switchover, roll.n)]
          /\ cells' = [key \in DOMAIN cells \cup DOMAIN roll.archived |->
                         IF key \in DOMAIN roll.archived THEN Archived(key) ELSE Migrated[key]]
  /\ UNCHANGED <<config, scenario, vsEdits>>
-----------------------------------------------------------------------------
(* Scenarios. *)
delete_scenario ==
  /\ Edited /\ scenario' = [scenario EXCEPT !.active = FALSE]
  /\ UNCHANGED <<versions, cells, config, roll>>

add_assumption(key, value) ==
  LET found == {i \in DOMAIN scenario.assumptions : scenario.assumptions[i].key = key}
      row == [key |-> key, value |-> value]
  IN /\ Edited
     /\ scenario' = [scenario EXCEPT !.assumptions =
          IF found = {} THEN Append(@, row) ELSE [@ EXCEPT ![CHOOSE i \in found : TRUE] = row]]
     /\ UNCHANGED <<versions, cells, config, roll>>

remove_assumption(i) ==
  /\ Edited /\ i \in DOMAIN scenario.assumptions
  /\ scenario' = [scenario EXCEPT !.assumptions = RemoveAt(@, i)]
  /\ UNCHANGED <<versions, cells, config, roll>>

(* In the order they were made, also of a scenario that was deleted. *)
Promoted(target) ==
  LET made == scenario.assumptions
      After[n \in 0..Len(made)] ==
        IF n = 0 THEN cells ELSE Upsert(After[n - 1], PromotedKey(made[n].key, target), target, made[n].value)
  IN After[Len(made)]
promote_scenario(target) ==
  /\ Edited /\ versions[target].exists
  /\ cells' = Promoted(target)
  /\ UNCHANGED <<versions, config, scenario, roll>>
-----------------------------------------------------------------------------
(* Assumptions made and legacy rows found before. *)
VersionsInit ==
  /\ \E switchover \in 0..(LastPeriod - 1), f \in VersionIds, a \in VersionIds :
       /\ versions = [v \in VersionIds |->
            [exists |-> TRUE, default |-> FALSE, switchover |-> IF v = f THEN switchover ELSE 0]]
       /\ config \in {NoConfig, [exists |-> TRUE, auto_archive |-> TRUE, actuals |-> a, forecast |-> f]}
       /\ \E made \in SeqOf(AssumptionKeys, 2) :
            /\ \A i, j \in DOMAIN made : i # j => made[i] # made[j]
            /\ \E value \in [DOMAIN made -> VsValues] :
                 scenario = [active |-> TRUE, base |-> f, assumptions |-> [i \in DOMAIN made |-> [key |-> made[i], value |-> value[i]]]]
       /\ \E legacy \in SUBSET {{V(f), Per(1)}}, value \in VsValues :
            cells = [key \in legacy |-> [version |-> NoVersion, value |-> value]]
  /\ roll = NoRoll /\ vsEdits = 0

VersionsNext ==
  \/ \E v \in VersionIds, switchover \in 0..LastPeriod, default \in BOOLEAN :
       create_version(v, default, switchover)
  \/ \E v \in VersionIds, switchover \in 0..LastPeriod : update_version(v, [switchover |-> switchover])
  \/ \E v \in VersionIds, default \in BOOLEAN : update_version(v, [default |-> default])
  \/ \E v \in VersionIds : set_default_version(v) \/ delete_version(v) \/ promote_scenario(v)
  \/ \E members \in WriteMembers, v \in VersionIds \cup {NoVersion}, x \in VsValues : write_cell(members, v, x)
  \/ \E archive \in BOOLEAN, a, f \in VersionIds \cup {NoVersion} :
       create_forecast_config(archive, a, f) \/ update_forecast_config(archive, a, f)
  \/ \E n \in 1..LastPeriod : roll_forecast(n)
  \/ auto_roll_if_due
  \/ RollCommit
  \/ delete_scenario
  \/ \E key \in AssumptionKeys, x \in VsValues : add_assumption(key, x)
  \/ \E i \in DOMAIN scenario.assumptions : remove_assumption(i)
-----------------------------------------------------------------------------
(* No key of a row names two of the versions vs, or two of the periods.       *)
NameOneVersion(vs) == \A key \in DOMAIN cells : \A v, w \in vs : {V(v), V(w)} \subseteq key => v = w
NameOnePeriod == \A key \in DOMAIN cells : \A t, u \in 1..LastPeriod : {Per(t), Per(u)} \subseteq key => t = u

(* A roll that nothing overlapped takes no value away from a reader of       *)
(* actuals and forecast: what the moved switchover hides was archived.  For   *)
(* versions that differ, a switchover that was set and archiving switched on, *)
(* and keys of one version and one period: of two keys that differ in another *)
(* version or period, one may be archived over the other                     *)
(* (roll_forecast, get_cells_with_switchover).                              *)
RollKeepsEffective ==
  (/\ ~RollFails /\ NameOneVersion(VersionIds) /\ NameOnePeriod
   /\ roll.archives /\ roll.actuals # roll.forecast
   /\ roll.rows = migrate_legacy_cell_versions(cells) /\ versions[roll.actuals].exists
   /\ roll.switchover # 0 /\ versions[roll.forecast].switchover = roll.switchover)
  => LET Read(stored, s) == get_cells_with_switchover(stored, roll.actuals, roll.forecast, s)
     IN Read(cells, roll.switchover) \subseteq Read(cells', _advance_period(roll.switchover, roll.n))

(* Promoting a scenario makes the target version hold, cell for cell, what    *)
(* evaluating the scenario showed as modified; of two assumptions that name   *)
(* one cell of the target, with and without the base version, the later wins  *)
(* (promote_scenario, evaluate_scenario).                                     *)
PromotionShows(target) ==
  \A i \in DOMAIN scenario.assumptions :
    LET x == scenario.assumptions[i]
        Place(key) == remove_versions_from_dimension_key(key, {scenario.base, target})
        later == \E j \in (i + 1)..Len(scenario.assumptions) : Place(scenario.assumptions[j].key) = Place(x.key)
    IN /\ [key |-> x.key, value |-> x.value, modified |-> TRUE] \in evaluate_scenario
       /\ later \/ \E key \in RowsOf(cells', target) :
                     Place(key) = Place(x.key) /\ cells'[key].value = x.value

(* The two comparisons of versions give the same answer, and the summary      *)
(* counts what they show, as long as no third version has cells and no key    *)
(* names two of the versions, which the two assign to versions differently    *)
(* (services/version.py and services/scenario_compare.py).                   *)
ComparisonsAgree ==
  \A a, b \in Existing :
    LET rows == migrate_legacy_cell_versions(cells)
        matrix == get_comparison_matrix({a, b})
        compared == compare_versions(a, b)
        summary == get_variance_summary(a, b)
    IN (a # b /\ NameOneVersion(Existing) /\ \A key \in DOMAIN rows : rows[key].version \in {a, b, NoVersion}) =>
         /\ {row.base : row \in compared} = DOMAIN matrix
         /\ \A row \in compared : row.values = <<matrix[row.base][a], matrix[row.base][b]>>
         /\ summary.unchanged = Cardinality({row \in compared : row.variance = {0}})
         /\ \A key \in DOMAIN rows :
              LET parts == {part \in key : part[1] # "v"}
              IN sc_compare_versions({a, b}, {{part} : part \in parts})
                   = [base \in {x \in DOMAIN matrix : parts \subseteq x} |-> matrix[base]]

(* Reading the cells of a version, which goes by the keys too, finds exactly    *)
(* those that comparisons and switchovers, which migrate rows first, count as   *)
(* its own, as long as no key names two versions                              *)
(* (read_cells_for_line_item, migrate_legacy_cell_versions).                   *)
ReadsAgree ==
  NameOneVersion(VersionIds) =>
    \A v \in Existing : read_cells_for_line_item(v, {}) = RowsOf(migrate_legacy_cell_versions(cells), v)

(* A roll of the configured forecast by one period goes where the status       *)
(* suggested, and each period rolled is one less elapsed and one more           *)
(* remaining, until the switchover has caught up with the clock                *)
(* (get_forecast_status, auto_roll_if_due, roll_forecast).                    *)
StatusFollowsRolls ==
  (/\ ~RollFails /\ config.exists /\ config.forecast = roll.forecast
   /\ roll.switchover # 0 /\ versions[roll.forecast].switchover = roll.switchover)
  => \A horizon \in 0..LastPeriod :
       LET before == get_forecast_status(horizon)
           after == get_forecast_status(horizon)'
           caught == Min({roll.n, before.elapsed})
       IN /\ after.elapsed = before.elapsed - caught
          /\ after.remaining >= before.remaining /\ after.remaining <= before.remaining + caught
          /\ after.next = before.next + roll.n
          /\ roll.n = 1 => versions'[roll.forecast].switchover = before.next

(* Readers of versions see what was asked for: rolls, promotions and          *)
(* comparisons tell one story.                                                *)
VersionsAgree ==
  [][/\ ComparisonsAgree /\ ReadsAgree
     /\ RollCommit => RollKeepsEffective /\ StatusFollowsRolls
     /\ \A target \in VersionIds : promote_scenario(target) => PromotionShows(target)]_vsVars

VersionsSpec == VersionsInit /\ [][VersionsNext]_vsVars
=============================================================================
