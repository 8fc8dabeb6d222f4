------------------------------ MODULE TimeRanges ------------------------------
(***************************************************************************)
(* Time ranges of one model and their assignment to its modules:              *)
(* services/time_range.py.  A period is a pair <<granularity, number>>.        *)
(* Creating and updating a range reads the ranges first and commits later, so   *)
(* that requests interleave in between; SQLAlchemy sends the columns whose      *)
(* values differ from those that were read.                                  *)
(***************************************************************************)
EXTENDS Integers, FiniteSets

CONSTANTS RangeIds, RangeModules, Granularities,
          LastNumber,   \* periods of a granularity: 1..LastNumber
          RangeClients,
          MaxRangeOps   \* bound on requests

\* The table of ranges has finitely many rows.
ASSUME RangeAssumption == IsFiniteSet(RangeIds)

NoRange == "none"
NoRequest == [kind |-> "none"]
Absent == [exists |-> FALSE]
PeriodsOf(g) == {<<g, n>> : n \in 1..LastNumber}
Periods == UNION {PeriodsOf(g) : g \in Granularities}

VARIABLES ranges,        \* id -> Absent or [exists, start, end, granularity, is_model_default]
          assigned,      \* module -> id or NoRange
          rangeRequests, \* client -> what it has read and means to write
          rangeOps

rangeVars == <<ranges, assigned, rangeRequests, rangeOps>>

RangeCounted == rangeOps < MaxRangeOps /\ rangeOps' = rangeOps + 1
Stored(rows) == {r \in RangeIds : rows[r].exists}
DefaultsOf(rows) == {r \in Stored(rows) : rows[r].is_model_default}

validate_period_format(period, g) == period \in PeriodsOf(g)
_period_sort_key(period) == period[2]
validate_period_order(from, to) == _period_sort_key(from) <= _period_sort_key(to)
RangeValid(row) ==
  /\ validate_period_format(row.start, row.granularity) /\ validate_period_format(row.end, row.granularity)
  /\ validate_period_order(row.start, row.end)

RangeInit ==
  /\ ranges = [r \in RangeIds |-> Absent] /\ assigned = [m \in RangeModules |-> NoRange]
  /\ rangeRequests = [c \in RangeClients |-> NoRequest] /\ rangeOps = 0

Begin(c, kind, r, row, unset) ==
  /\ RangeCounted /\ rangeRequests[c] = NoRequest
  /\ rangeRequests' = [rangeRequests EXCEPT ![c] =
       [kind |-> kind, range |-> r, row |-> row, unset |-> unset, seen |-> ranges]]
  /\ UNCHANGED <<ranges, assigned>>

Row(start, end, g, default) ==
  [exists |-> TRUE, start |-> start, end |-> end, granularity |-> g, is_model_default |-> default]

_unset_model_default_Forgotten == {}   \* mutant
_unset_model_default == DefaultsOf(ranges)

create_time_range(c, r, row) ==
  /\ ~ranges[r].exists /\ RangeValid(row)
  /\ Begin(c, "create", r, row, IF row.is_model_default THEN _unset_model_default ELSE {})

(* The fields that are given replace those that were read, and both are        *)
(* validated together when a period or the granularity is among them.         *)
update_time_range(c, r, given) ==
  /\ ranges[r].exists
  /\ LET old == ranges[r]
         row == [f \in DOMAIN old |-> IF f \in DOMAIN given THEN given[f] ELSE old[f]]
     IN /\ DOMAIN given \cap {"start", "end", "granularity"} # {} => RangeValid(row)
        /\ Begin(c, "update", r, row, IF row.is_model_default /\ ~old.is_model_default THEN _unset_model_default ELSE {})

WriteFails(req) ==
  \/ req.kind = "create" /\ ranges[req.range].exists
  \/ \E r \in req.unset \cup (IF req.kind = "update" THEN {req.range} ELSE {}) : ~ranges[r].exists

Sent(req, f) == req.kind = "create" \/ req.row[f] # req.seen[req.range][f]
CommitRange(c) ==
  LET req == rangeRequests[c]
  IN /\ req # NoRequest
     /\ IF WriteFails(req) THEN UNCHANGED ranges
        ELSE ranges' = [r \in RangeIds |->
               IF r = req.range
               THEN [f \in DOMAIN req.row |-> IF Sent(req, f) THEN req.row[f] ELSE ranges[r][f]]
               ELSE IF r \in req.unset THEN [ranges[r] EXCEPT !.is_model_default = FALSE] ELSE ranges[r]]
     /\ rangeRequests' = [rangeRequests EXCEPT ![c] = NoRequest]
     /\ UNCHANGED <<assigned, rangeOps>>

(* The assignments of a range go with it. *)
delete_time_range(r) ==
  /\ RangeCounted /\ ranges[r].exists
  /\ ranges' = [ranges EXCEPT ![r] = Absent]
  /\ assigned' = [m \in RangeModules |-> IF assigned[m] = r THEN NoRange ELSE assigned[m]]
  /\ UNCHANGED rangeRequests

assign_time_range_to_module(m, r) ==
  /\ RangeCounted /\ ranges[r].exists
  /\ assigned' = [assigned EXCEPT ![m] = r]
  /\ UNCHANGED <<ranges, rangeRequests>>

unassign_time_range_from_module(m) ==
  /\ RangeCounted /\ assigned[m] # NoRange
  /\ assigned' = [assigned EXCEPT ![m] = NoRange]
  /\ UNCHANGED <<ranges, rangeRequests>>

(* The ranges the query finds: it raises when there are several. *)
get_effective_time_range(m) == IF assigned[m] # NoRange THEN {assigned[m]} ELSE DefaultsOf(ranges)

RangeNext ==
  \/ \E c \in RangeClients, r \in RangeIds :
       \/ \E from, to \in Periods, g \in Granularities, default \in BOOLEAN :
            create_time_range(c, r, Row(from, to, g, default))
       \/ \E p \in Periods : update_time_range(c, r, [start |-> p]) \/ update_time_range(c, r, [end |-> p])
       \/ \E default \in BOOLEAN : update_time_range(c, r, [is_model_default |-> default])
       \/ \E g \in Granularities, from, to \in Periods : update_time_range(c, r, [start |-> from, end |-> to, granularity |-> g])
  \/ \E c \in RangeClients : CommitRange(c)
  \/ \E r \in RangeIds : delete_time_range(r) \/ \E m \in RangeModules : assign_time_range_to_module(m, r)
  \/ \E m \in RangeModules : unassign_time_range_from_module(m)
RangeSpec == RangeInit /\ [][RangeNext]_rangeVars
-----------------------------------------------------------------------------
(* A write that no other write of a range overlapped leaves every range with   *)
(* periods of its granularity in order and one default at most, if they were;  *)
(* and a module finds at most one effective range, which exists                *)
(* (update_time_range, get_effective_time_range).                            *)
RangesStayOrdered ==
  [][\A c \in RangeClients :
       (rangeRequests[c] # NoRequest /\ CommitRange(c) /\ rangeRequests[c].seen = ranges) =>
         LET Good(rows) == (\A r \in Stored(rows) : RangeValid(rows[r])) /\ Cardinality(DefaultsOf(rows)) <= 1
         IN /\ Good(ranges) => Good(ranges')
            /\ \A m \in RangeModules : get_effective_time_range(m)' \subseteq Stored(ranges')
            /\ Good(ranges) => \A m \in RangeModules : Cardinality(get_effective_time_range(m)') <= 1]_rangeVars
=============================================================================
