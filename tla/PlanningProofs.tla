---------------------------- MODULE PlanningProofs ----------------------------
(***************************************************************************)
(* Theorems about TimeRanges, for every finite set of ranges, every set of   *)
(* clients and every calendar the constants describe, about Dimensions, for  *)
(* every set of lists and clients and whatever is imported, about Planning,  *)
(* for every hierarchy of items and every request, and about Versions, for   *)
(* every set of versions and keys and any number of requests.                *)
(***************************************************************************)
EXTENDS TimeRanges, Dimensions, Planning, Versions, FiniteSetTheorems, WellFoundedInduction, TLAPS

RangeRow ==
  [exists : {TRUE}, start : Periods, end : Periods, granularity : Granularities, is_model_default : BOOLEAN]
Fields == {"exists", "start", "end", "granularity", "is_model_default"}
RangeRows == [RangeIds -> {Absent} \cup RangeRow]
RangeRequest ==
  [kind : {"create", "update"}, range : RangeIds, row : RangeRow, unset : SUBSET RangeIds, seen : RangeRows]
\* A request means to write a valid row, or the periods it has read, and to unset the
\* defaults it has read if it makes another range the default.
Intends(req) ==
  LET r == req.range  row == req.row  old == req.seen[r]
  IN  /\ req.kind = "create" => ~old.exists /\ RangeValid(row)
      /\ req.kind = "update" =>
           /\ old.exists
           /\ RangeValid(row) \/ (row.start = old.start /\ row.end = old.end /\ row.granularity = old.granularity)
      /\ req.unset = IF row.is_model_default /\ (req.kind = "create" \/ ~old.is_model_default) THEN DefaultsOf(req.seen) ELSE {}
RangeInv ==
  /\ ranges \in RangeRows
  /\ assigned = [m \in RangeModules |-> assigned[m]]
  /\ \A m \in RangeModules : assigned[m] # NoRange => assigned[m] \in Stored(ranges)
  /\ rangeRequests = [c \in RangeClients |-> rangeRequests[c]]
  /\ \A c \in RangeClients : rangeRequests[c] = NoRequest \/ (rangeRequests[c] \in RangeRequest /\ Intends(rangeRequests[c]))

LEMMA RowFields == \A row \in RangeRow : DOMAIN row = Fields
BY DEF RangeRow, Fields

LEMMA RowIsThere == \A rows \in RangeRows, r \in RangeIds : rows[r].exists => rows[r] \in RangeRow
<1> SUFFICES ASSUME NEW rows \in RangeRows, NEW r \in RangeIds, rows[r].exists PROVE rows[r] \in RangeRow
  OBVIOUS
<1>1. Absent.exists = FALSE
  BY DEF Absent
<1>2. rows[r] \in {Absent} \cup RangeRow
  BY DEF RangeRows
<1> QED
  BY <1>1, <1>2

LEMMA InitRanges == RangeInit => RangeInv
<1> SUFFICES ASSUME RangeInit PROVE RangeInv
  OBVIOUS
<1>1. ranges \in RangeRows
  BY DEF RangeInit, RangeRows
<1> QED
  BY <1>1 DEF RangeInit, RangeInv

\* A request that begins with what there is.
LEMMA BeginStands ==
  ASSUME RangeInv, NEW c \in RangeClients, NEW kind \in {"create", "update"}, NEW r \in RangeIds, NEW row \in RangeRow,
         NEW unset, Begin(c, kind, r, row, unset),
         kind = "create" => ~ranges[r].exists /\ RangeValid(row),
         kind = "update" =>
           /\ ranges[r].exists
           /\ RangeValid(row) \/ (row.start = ranges[r].start /\ row.end = ranges[r].end /\ row.granularity = ranges[r].granularity),
         unset = IF row.is_model_default /\ (kind = "create" \/ ~ranges[r].is_model_default) THEN DefaultsOf(ranges) ELSE {}
  PROVE  RangeInv'
<1>1. PICK req : req = [kind |-> kind, range |-> r, row |-> row, unset |-> unset, seen |-> ranges]
  OBVIOUS
<1>2. rangeRequests' = [rangeRequests EXCEPT ![c] = req] /\ UNCHANGED <<ranges, assigned>>
  BY <1>1 DEF Begin
<1>3. unset \in SUBSET RangeIds
  BY DEF DefaultsOf, Stored
<1>4. req \in RangeRequest
  BY <1>1, <1>3 DEF RangeRequest, RangeInv
<1>5. Intends(req)
  BY <1>1 DEF Intends
<1> QED
  BY <1>2, <1>4, <1>5 DEF RangeInv

LEMMA CreateStands ==
  ASSUME RangeInv, NEW c \in RangeClients, NEW r \in RangeIds, NEW row \in RangeRow, create_time_range(c, r, row)
  PROVE  RangeInv'
<1>1. PICK unset : unset = (IF row.is_model_default THEN _unset_model_default ELSE {})
  OBVIOUS
<1>2. Begin(c, "create", r, row, unset) /\ ~ranges[r].exists /\ RangeValid(row)
  BY <1>1 DEF create_time_range
<1> QED
  BY <1>1, <1>2, BeginStands DEF _unset_model_default

\* What may be given to an update.
Given ==
  [start : Periods] \cup [end : Periods] \cup [is_model_default : BOOLEAN]
  \cup [start : Periods, end : Periods, granularity : Granularities]
LEMMA GivenFields ==
  ASSUME NEW given \in Given
  PROVE  /\ "exists" \notin DOMAIN given
         /\ "start" \in DOMAIN given => given["start"] \in Periods
         /\ "end" \in DOMAIN given => given["end"] \in Periods
         /\ "granularity" \in DOMAIN given => given["granularity"] \in Granularities
         /\ "is_model_default" \in DOMAIN given => given["is_model_default"] \in BOOLEAN
BY DEF Given

LEMMA UpdateStands ==
  ASSUME RangeInv, NEW c \in RangeClients, NEW r \in RangeIds, NEW given \in Given, update_time_range(c, r, given)
  PROVE  RangeInv'
<1>1. PICK old : old = ranges[r]
  OBVIOUS
<1>2. PICK row : row = [f \in DOMAIN old |-> IF f \in DOMAIN given THEN given[f] ELSE old[f]]
  OBVIOUS
<1>3. old \in RangeRow /\ ranges[r].exists
  BY <1>1, RowIsThere DEF update_time_range, RangeInv
<1>4. row = [f \in Fields |-> IF f \in DOMAIN given THEN given[f] ELSE old[f]]
  BY <1>2, <1>3, RowFields
<1>5. row = [exists |-> row["exists"], start |-> row["start"], end |-> row["end"], granularity |-> row["granularity"],
             is_model_default |-> row["is_model_default"]]
  BY <1>4 DEF Fields
<1>6. /\ row["exists"] = TRUE /\ row["start"] \in Periods /\ row["end"] \in Periods
      /\ row["granularity"] \in Granularities /\ row["is_model_default"] \in BOOLEAN
  BY <1>3, <1>4, GivenFields DEF RangeRow, Fields
<1>7. row \in RangeRow
  BY <1>5, <1>6 DEF RangeRow
<1>8. PICK unset : unset = (IF row.is_model_default /\ ~old.is_model_default THEN _unset_model_default ELSE {})
  OBVIOUS
<1>9. /\ DOMAIN given \cap {"start", "end", "granularity"} # {} => RangeValid(row)
      /\ Begin(c, "update", r, row, unset)
  BY <1>1, <1>2, <1>8 DEF update_time_range
<1>10. RangeValid(row) \/ (row.start = old.start /\ row.end = old.end /\ row.granularity = old.granularity)
  BY <1>4, <1>9 DEF Fields
<1> QED
  BY <1>1, <1>3, <1>7, <1>8, <1>9, <1>10, BeginStands DEF _unset_model_default

LEMMA RequestEnds ==
  ASSUME RangeInv, NEW c \in RangeClients, rangeRequests' = [rangeRequests EXCEPT ![c] = NoRequest], UNCHANGED assigned,
         ranges' \in RangeRows, Stored(ranges) \subseteq Stored(ranges')
  PROVE  RangeInv'
BY DEF RangeInv

\* What a commit that does not fail leaves of each range.
LEMMA CommitIs ==
  ASSUME RangeInv, NEW c \in RangeClients, CommitRange(c), ~WriteFails(rangeRequests[c])
  PROVE  LET req == rangeRequests[c]
             old == ranges[req.range]
             new == ranges'[req.range]
         IN  /\ req \in RangeRequest /\ Intends(req)
             /\ ranges' \in RangeRows
             /\ new \in RangeRow /\ (req.kind = "create" \/ (old = req.seen[req.range]) => new = req.row)
             /\ \A r \in RangeIds \ {req.range} :
                  ranges'[r] = IF r \in req.unset THEN [ranges[r] EXCEPT !.is_model_default = FALSE] ELSE ranges[r]
             /\ \A r \in req.unset : ranges[r].exists
             /\ Stored(ranges) \subseteq Stored(ranges')
<1>1. PICK req : req = rangeRequests[c]
  OBVIOUS
<1>2. req \in RangeRequest /\ Intends(req)
  BY <1>1 DEF RangeInv, CommitRange
<1>3. PICK r \in RangeIds : r = req.range
  BY <1>2 DEF RangeRequest
<1>4. PICK row \in RangeRow : row = req.row
  BY <1>2 DEF RangeRequest
<1>5. PICK seen \in RangeRows : seen = req.seen
  BY <1>2 DEF RangeRequest
<1>6. PICK unset \in SUBSET RangeIds : unset = req.unset
  BY <1>2 DEF RangeRequest
<1>7. PICK create \in BOOLEAN : create = (req.kind = "create")
  OBVIOUS
<1>8. /\ ~create => ranges[r].exists
      /\ \A x \in unset : ranges[x].exists
  BY <1>1, <1>2, <1>3, <1>6, <1>7 DEF WriteFails, RangeRequest
<1>9. PICK new : new = [f \in Fields |-> IF create \/ row[f] # seen[r][f] THEN row[f] ELSE ranges[r][f]]
  OBVIOUS
<1>10. ranges' = [x \in RangeIds |-> IF x = r THEN new
                    ELSE IF x \in unset THEN [ranges[x] EXCEPT !.is_model_default = FALSE] ELSE ranges[x]]
  <2>1. ranges' = [x \in RangeIds |->
               IF x = r
               THEN [f \in DOMAIN row |-> IF create \/ row[f] # seen[r][f] THEN row[f] ELSE ranges[x][f]]
               ELSE IF x \in unset THEN [ranges[x] EXCEPT !.is_model_default = FALSE] ELSE ranges[x]]
    BY <1>1, <1>3, <1>4, <1>5, <1>6, <1>7 DEF CommitRange, Sent
  <2>2. DOMAIN row = Fields
    BY RowFields
  <2> QED
    BY <1>9, <2>1, <2>2
<1>11. new = [exists |-> new["exists"], start |-> new["start"], end |-> new["end"], granularity |-> new["granularity"],
              is_model_default |-> new["is_model_default"]]
  BY <1>9 DEF Fields
<1>12. new \in RangeRow
  <2>1. CASE create
    BY <1>9, <1>11, <2>1 DEF Fields, RangeRow
  <2>2. CASE ~create
    <3>1. ranges[r] \in RangeRow
      BY <1>8, <2>2, RowIsThere DEF RangeInv
    <3> QED
      BY <1>9, <1>11, <3>1 DEF Fields, RangeRow
  <2> QED
    BY <2>1, <2>2
<1>13. create \/ ranges[r] = seen[r] => new = row
  <2>1. row = [f \in Fields |-> row[f]]
    BY DEF RangeRow, Fields
  <2> QED
    BY <1>9, <2>1
<1>14. \A x \in unset : ranges[x] \in RangeRow
  BY <1>8, RowIsThere DEF RangeInv
<1>15. \A x \in unset : [ranges[x] EXCEPT !.is_model_default = FALSE] \in RangeRow
  BY <1>14 DEF RangeRow
<1>16. ranges' \in RangeRows
  BY <1>10, <1>12, <1>15 DEF RangeRows, RangeInv
<1>17. ranges'[r].exists /\ \A x \in unset : [ranges[x] EXCEPT !.is_model_default = FALSE].exists
  BY <1>10, <1>12, <1>15 DEF RangeRow
<1>18. Stored(ranges) \subseteq Stored(ranges')
  BY <1>10, <1>17 DEF Stored
<1> QED
  BY <1>1, <1>2, <1>3, <1>4, <1>5, <1>6, <1>7, <1>8, <1>10, <1>12, <1>13, <1>16, <1>18

LEMMA CommitStands ==
  ASSUME RangeInv, NEW c \in RangeClients, CommitRange(c)
  PROVE  RangeInv'
<1>1. CASE WriteFails(rangeRequests[c])
  <2>1. ranges' = ranges
    BY <1>1 DEF CommitRange
  <2> QED
    BY <2>1, RequestEnds DEF CommitRange, RangeInv
<1>2. CASE ~WriteFails(rangeRequests[c])
  BY <1>2, CommitIs, RequestEnds DEF CommitRange
<1> QED
  BY <1>1, <1>2

LEMMA OthersStand ==
  ASSUME RangeInv,
         \/ \E r \in RangeIds : delete_time_range(r) \/ \E m \in RangeModules : assign_time_range_to_module(m, r)
         \/ \E m \in RangeModules : unassign_time_range_from_module(m)
  PROVE  RangeInv'
<1>1. ASSUME NEW r \in RangeIds, delete_time_range(r) PROVE RangeInv'
  <2>1. ranges' = [ranges EXCEPT ![r] = Absent] /\ UNCHANGED rangeRequests
        /\ assigned' = [m \in RangeModules |-> IF assigned[m] = r THEN NoRange ELSE assigned[m]]
    BY <1>1 DEF delete_time_range
  <2>2. ranges' \in RangeRows /\ Stored(ranges) \ {r} \subseteq Stored(ranges')
    BY <2>1 DEF RangeInv, RangeRows, Stored
  <2> QED
    BY <2>1, <2>2 DEF RangeInv
<1>2. ASSUME NEW m \in RangeModules, NEW r \in RangeIds, assign_time_range_to_module(m, r) PROVE RangeInv'
  BY <1>2 DEF assign_time_range_to_module, RangeInv, Stored
<1>3. ASSUME NEW m \in RangeModules, unassign_time_range_from_module(m) PROVE RangeInv'
  BY <1>3 DEF unassign_time_range_from_module, RangeInv, Stored
<1> QED
  BY <1>1, <1>2, <1>3

LEMMA NextRanges == RangeInv /\ [RangeNext]_rangeVars => RangeInv'
<1> SUFFICES ASSUME RangeInv, [RangeNext]_rangeVars PROVE RangeInv'
  OBVIOUS
<1>1. CASE UNCHANGED rangeVars
  BY <1>1 DEF rangeVars, RangeInv
<1>2. ASSUME NEW c \in RangeClients, NEW r \in RangeIds, NEW from \in Periods, NEW to \in Periods, NEW g \in Granularities,
             NEW default \in BOOLEAN, create_time_range(c, r, Row(from, to, g, default))
      PROVE  RangeInv'
  <2>1. Row(from, to, g, default) \in RangeRow
    BY DEF Row, RangeRow
  <2> QED
    BY <1>2, <2>1, CreateStands
<1>3. ASSUME NEW c \in RangeClients, NEW r \in RangeIds,
             \/ \E p \in Periods : update_time_range(c, r, [start |-> p]) \/ update_time_range(c, r, [end |-> p])
             \/ \E default \in BOOLEAN : update_time_range(c, r, [is_model_default |-> default])
             \/ \E g \in Granularities, from, to \in Periods :
                  update_time_range(c, r, [start |-> from, end |-> to, granularity |-> g])
      PROVE  RangeInv'
  <2>1. /\ \A p \in Periods : [start |-> p] \in Given /\ [end |-> p] \in Given
        /\ \A d \in BOOLEAN : [is_model_default |-> d] \in Given
        /\ \A g \in Granularities, p, q \in Periods : [start |-> p, end |-> q, granularity |-> g] \in Given
    BY DEF Given
  <2> QED
    BY <1>3, <2>1, UpdateStands
<1> QED
  BY <1>1, <1>2, <1>3, CommitStands, OthersStand DEF RangeNext

-----------------------------------------------------------------------------
Good(rows) == (\A r \in Stored(rows) : RangeValid(rows[r])) /\ Cardinality(DefaultsOf(rows)) <= 1

\* A request that nothing overlapped does not fail.
LEMMA AloneSucceeds ==
  ASSUME RangeInv, NEW c \in RangeClients, rangeRequests[c] # NoRequest, rangeRequests[c].seen = ranges
  PROVE  ~WriteFails(rangeRequests[c])
<1>1. PICK req : req = rangeRequests[c]
  OBVIOUS
<1>2. req \in RangeRequest /\ Intends(req) /\ req.seen = ranges
  BY <1>1 DEF RangeInv
<1>3. \A r \in DefaultsOf(ranges) : ranges[r].exists
  BY DEF DefaultsOf, Stored
<1>4. \A r \in req.unset : ranges[r].exists
  BY <1>2, <1>3 DEF Intends
<1>5. req.kind = "create" => ~ranges[req.range].exists
  BY <1>2 DEF Intends
<1>6. req.kind = "update" => ranges[req.range].exists
  BY <1>2 DEF Intends
<1> QED
  BY <1>1, <1>4, <1>5, <1>6 DEF WriteFails

\* What a commit that nothing overlapped makes of the defaults.
LEMMA DefaultsAfter ==
  ASSUME RangeInv, NEW c \in RangeClients, CommitRange(c), rangeRequests[c].seen = ranges
  PROVE  DefaultsOf(ranges') \subseteq DefaultsOf(ranges) \/ DefaultsOf(ranges') = {rangeRequests[c].range}
<1>1. PICK req : req = rangeRequests[c]
  OBVIOUS
<1>2. ~WriteFails(req) /\ req # NoRequest
  BY <1>1, AloneSucceeds DEF CommitRange
<1>3. PICK r \in RangeIds : r = req.range
  BY <1>1, <1>2 DEF RangeInv, RangeRequest
<1>4. PICK D : D = DefaultsOf(ranges)
  OBVIOUS
<1>5. /\ ranges'[r] = req.row /\ req.row \in RangeRow
      /\ \A x \in RangeIds \ {r} : ranges'[x] = IF x \in req.unset THEN [ranges[x] EXCEPT !.is_model_default = FALSE] ELSE ranges[x]
      /\ \A x \in req.unset : ranges[x].exists
  BY <1>1, <1>2, <1>3, CommitIs DEF RangeRequest
<1>6. /\ req.kind = "create" => ~ranges[r].exists
      /\ req.kind \in {"create", "update"} /\ (req.kind = "update" => ranges[r].exists)
      /\ req.unset = IF req.row.is_model_default /\ (req.kind = "create" \/ ~ranges[r].is_model_default) THEN D ELSE {}
  <2>1. req \in RangeRequest /\ Intends(req) /\ req.seen = ranges
    BY <1>1, <1>2 DEF RangeInv
  <2> QED
    BY <1>3, <1>4, <2>1 DEF Intends, RangeRequest
<1>7. \A x \in RangeIds : x \in D <=> ranges[x].exists /\ ranges[x].is_model_default
  BY <1>4 DEF DefaultsOf, Stored
<1>8. \A x \in req.unset : ~[ranges[x] EXCEPT !.is_model_default = FALSE].is_model_default
  <2>1. \A x \in req.unset : x \in RangeIds /\ ranges[x] \in RangeRow
    BY <1>5, <1>6, <1>4, RowIsThere DEF RangeInv, DefaultsOf, Stored
  <2> QED
    BY <2>1 DEF RangeRow
<1>9. \A x \in DefaultsOf(ranges') : x \in RangeIds /\ ranges'[x].exists /\ ranges'[x].is_model_default
  BY DEF DefaultsOf, Stored
<1>10. \A x \in DefaultsOf(ranges') \ {r} : x \in D /\ x \notin req.unset
  BY <1>5, <1>7, <1>8, <1>9
<1>11. CASE r \notin DefaultsOf(ranges')
  BY <1>4, <1>10, <1>11
<1>12. CASE r \in DefaultsOf(ranges')
  <2>1. req.row.is_model_default
    BY <1>5, <1>9, <1>12
  <2>2. CASE req.kind = "create" \/ ~ranges[r].is_model_default
    <3>1. req.unset = D
      BY <1>6, <2>1, <2>2
    <3> QED
      BY <1>3, <1>1, <1>10, <1>12, <3>1
  <2>3. CASE req.kind = "update" /\ ranges[r].is_model_default
    <3>1. r \in D
      BY <1>6, <1>7, <2>3
    <3> QED
      BY <1>4, <1>10, <3>1
  <2> QED
    BY <1>6, <2>2, <2>3
<1> QED
  BY <1>11, <1>12

LEMMA OneIsFew ==
  ASSUME NEW E, NEW r, E = {r}
  PROVE  Cardinality(E) <= 1
<1>1. Cardinality(E) = 1
  BY FS_Singleton, Zenon
<1> QED
  BY <1>1

LEMMA FewDefaults ==
  ASSUME NEW D \in SUBSET RangeIds, Cardinality(D) <= 1, NEW E, NEW r, E \subseteq D \/ E = {r}
  PROVE  Cardinality(E) <= 1
<1>1. CASE E \subseteq D
  <2>1. IsFiniteSet(D)
    BY RangeAssumption, FS_Subset
  <2>2. Cardinality(E) <= Cardinality(D) /\ Cardinality(E) \in Nat /\ Cardinality(D) \in Nat
    BY <1>1, <2>1, FS_Subset, FS_CardinalityType
  <2> QED
    BY <2>2
<1>2. CASE E = {r}
  BY <1>2, OneIsFew
<1> QED
  BY <1>1, <1>2

LEMMA CommitKeepsOrder ==
  ASSUME RangeInv, NEW c \in RangeClients, CommitRange(c), rangeRequests[c].seen = ranges, Good(ranges)
  PROVE  Good(ranges')
<1>1. PICK req : req = rangeRequests[c]
  OBVIOUS
<1>2. ~WriteFails(req) /\ req # NoRequest
  BY <1>1, AloneSucceeds DEF CommitRange
<1>3. req \in RangeRequest /\ Intends(req) /\ req.seen = ranges
  BY <1>1, <1>2 DEF RangeInv
<1>4. /\ ranges'[req.range] = req.row
      /\ \A x \in RangeIds \ {req.range} : ranges'[x] = IF x \in req.unset THEN [ranges[x] EXCEPT !.is_model_default = FALSE] ELSE ranges[x]
      /\ \A x \in req.unset : ranges[x].exists
  BY <1>1, <1>2, <1>3, CommitIs
<1>5. RangeValid(req.row)
  <2>1. CASE req.kind = "create"
    BY <1>3, <2>1 DEF Intends
  <2>2. CASE req.kind = "update"
    <3>1. req.range \in Stored(ranges)
      BY <1>3, <2>2 DEF Intends, Stored, RangeRequest
    <3>2. RangeValid(ranges[req.range])
      BY <3>1 DEF Good
    <3> QED
      BY <1>3, <2>2, <3>2 DEF Intends, RangeValid
  <2> QED
    BY <1>3, <2>1, <2>2 DEF RangeRequest
<1>6. ASSUME NEW x \in Stored(ranges'), x # req.range PROVE RangeValid(ranges'[x])
  <2>1. CASE x \in req.unset
    <3>1. x \in Stored(ranges) /\ ranges[x] \in RangeRow
      BY <1>4, <1>6, <2>1, RowIsThere DEF Stored, RangeInv
    <3>2. PICK row : row = [ranges[x] EXCEPT !.is_model_default = FALSE]
      OBVIOUS
    <3>3. row.start = ranges[x].start /\ row.end = ranges[x].end /\ row.granularity = ranges[x].granularity
      BY <3>1, <3>2 DEF RangeRow
    <3>4. ranges'[x] = row
      BY <1>4, <1>6, <2>1, <3>2 DEF Stored
    <3> QED
      BY <3>1, <3>3, <3>4 DEF Good, RangeValid
  <2>2. CASE x \notin req.unset
    <3>1. ranges'[x] = ranges[x] /\ x \in Stored(ranges)
      BY <1>4, <1>6, <2>2 DEF Stored
    <3> QED
      BY <3>1 DEF Good
  <2> QED
    BY <2>1, <2>2
<1>7. Cardinality(DefaultsOf(ranges')) <= 1
  BY DefaultsAfter, FewDefaults DEF Good, DefaultsOf, Stored
<1> QED
  BY <1>4, <1>5, <1>6, <1>7 DEF Good

\* However requests overlap, a write of a range that no other write overlapped keeps the
\* ranges valid and one default at most, and a module then finds one effective range at
\* most, which exists (update_time_range, get_effective_time_range).
THEOREM RangesStayOrderedAlways == RangeSpec => RangesStayOrdered
<1> DEFINE Alone(c) == rangeRequests[c] # NoRequest /\ CommitRange(c) /\ rangeRequests[c].seen = ranges
           Kept == \A c \in RangeClients : Alone(c) =>
             LET Fine(rows) == (\A r \in Stored(rows) : RangeValid(rows[r])) /\ Cardinality(DefaultsOf(rows)) <= 1
             IN /\ Fine(ranges) => Fine(ranges')
                /\ \A m \in RangeModules : get_effective_time_range(m)' \subseteq Stored(ranges')
                /\ Fine(ranges) => \A m \in RangeModules : Cardinality(get_effective_time_range(m)') <= 1
<1>1. RangeInv /\ RangeInv' => Kept
  <2> SUFFICES ASSUME RangeInv, RangeInv', NEW c \in RangeClients, Alone(c)
               PROVE  /\ Good(ranges) => Good(ranges')
                      /\ \A m \in RangeModules : get_effective_time_range(m)' \subseteq Stored(ranges')
                      /\ Good(ranges) => \A m \in RangeModules : Cardinality(get_effective_time_range(m)') <= 1
    BY DEF Good
  <2>1. Good(ranges) => Good(ranges')
    BY CommitKeepsOrder
  <2>2. \A m \in RangeModules : get_effective_time_range(m)' = IF assigned'[m] # NoRange THEN {assigned'[m]} ELSE DefaultsOf(ranges')
    BY DEF get_effective_time_range
  <2>3. \A m \in RangeModules : assigned'[m] # NoRange => assigned'[m] \in Stored(ranges')
    BY DEF RangeInv
  <2>4. DefaultsOf(ranges') \subseteq Stored(ranges')
    BY DEF DefaultsOf
  <2>5. ASSUME Good(ranges), NEW m \in RangeModules PROVE Cardinality(get_effective_time_range(m)') <= 1
    <3>1. CASE assigned'[m] # NoRange
      <4>1. get_effective_time_range(m)' = {assigned'[m]}
        BY <2>2, <3>1
      <4> QED
        BY <4>1, OneIsFew
    <3>2. CASE assigned'[m] = NoRange
      BY <2>1, <2>2, <2>5, <3>2 DEF Good
    <3> QED
      BY <3>1, <3>2
  <2> QED
    BY <2>1, <2>2, <2>3, <2>4, <2>5
<1>2. RangeInit => RangeInv
  BY InitRanges
<1>3. RangeInv /\ [RangeNext]_rangeVars => RangeInv'
  BY NextRanges
<1> QED
  BY <1>1, <1>2, <1>3, PTL DEF RangeSpec, RangesStayOrdered
-----------------------------------------------------------------------------
(* Dimensions: what items, intersections and requests always are.            *)
ItemFields == {"dim", "name", "code", "parent"}
ListFields == {"exists", "type", "max_items", "sources"}
\* A row about to be stored under id i, whose parent may have been deleted since.
ItemFits(row, i) ==
  /\ DOMAIN row = ItemFields /\ row.dim \in Dims /\ row.code \in Nat /\ row.parent \in Nat
  /\ row.code <= i
  /\ row.parent \in DOMAIN items => items[row.parent].dim = row.dim
ItemsInv ==
  /\ nextId \in Nat /\ items = [i \in DOMAIN items |-> items[i]] /\ DOMAIN items \subseteq 1..nextId
  /\ \A i \in DOMAIN items : ItemFits(items[i], i) /\ items[i].parent \in DOMAIN items \cup {NoParent}
ListsInv ==
  /\ dims = [d \in Dims |-> dims[d]]
  /\ \A d \in Dims : DOMAIN dims[d] = ListFields /\ dims[d].max_items \in Nat /\ d \notin dims[d].sources
StandInv == \A i \in DOMAIN items : dims[items[i].dim].exists

\* The key of an intersection: one member of each source, unless some of them are gone.
IsKey(d, key) ==
  /\ d \in Dims /\ TypeOf[d] = "composite" /\ key \subseteq 1..nextId
  /\ key \subseteq DOMAIN items => FitsSources(d, key)
IsMember(m) ==
  m = [dim |-> m.dim, key |-> m.key, item |-> m.item] /\ IsKey(m.dim, m.key) /\ m.item \in ItemsOf(m.dim)
MembersInv ==
  /\ \A m \in members : IsMember(m)
  /\ \A m, n \in members : (m.dim = n.dim /\ m.key = n.key) \/ m.item = n.item => m = n

\* The codes of the rows a request means to insert go on where those it saw end.
Continues(r) ==
  r.numbered =>
    /\ (r.limit # NoLimit /\ r.rows # <<>>) => Cardinality(ItemsIn(r.seen, r.dim)) + Len(r.rows) <= r.limit
    /\ \A k \in DOMAIN r.rows :
         /\ \A i \in ItemsIn(r.seen, r.dim) : r.seen[i].code < r.rows[k].code
         /\ \A j \in DOMAIN r.rows : r.rows[j].code = r.rows[k].code => j = k
Inserts(r) ==
  /\ r.dim \in Dims /\ r.rows \in Seq(Range(r.rows)) /\ r.limit \in Nat
  /\ \A k \in DOMAIN r.rows : r.rows[k].dim = r.dim /\ ItemFits(r.rows[k], nextId + k) /\ r.rows[k].parent <= nextId
DimRequestFits(r) ==
  /\ r.kind \in {"free", "ensure", "create", "import"}
  /\ r.kind = "ensure" => IsKey(r.dim, r.key)
  /\ r.kind \in {"create", "import"} => Inserts(r) /\ Continues(r)
DimRequestsInv ==
  /\ dimRequests = [c \in DimClients |-> dimRequests[c]]
  /\ \A c \in DimClients : DimRequestFits(dimRequests[c])
DimInv == ItemsInv /\ ListsInv /\ StandInv /\ MembersInv /\ DimRequestsInv
-----------------------------------------------------------------------------
(* Numbers, and functions defined by recursion on them.                      *)
LEMMA Smallest ==
  ASSUME NEW T, T \subseteq Nat, T # {}
  PROVE  \E x \in T : \A y \in T : x <= y
<1> DEFINE R == {ss \in Nat \X Nat : ss[1] < ss[2]}
<1>0. IsWellFoundedOn(R, Nat)
  BY NatLessThanWellFounded DEF OpToRel
<1>1. PICK x \in T : \A y \in T : <<y, x>> \notin R
  <2> HIDE DEF R
  <2> QED
    BY <1>0, WFMin
<1>2. ASSUME NEW y \in T PROVE x <= y
  <2>1. <<y, x>> \in Nat \X Nat /\ <<y, x>>[1] = y /\ <<y, x>>[2] = x
    OBVIOUS
  <2>2. ~(y < x)
    BY <1>1, <2>1
  <2> QED
    BY <2>2
<1> QED
  BY <1>2

(* The operator Max of FiniteSetsExt, on numbers below a bound. *)
LEMMA Largest ==
  ASSUME NEW S, NEW b \in Nat, S \subseteq 0..b, S # {}
  PROVE  Max(S) \in S /\ \A y \in S : y <= Max(S)
<1> DEFINE T == {b - y : y \in S}
<1>1. T \subseteq Nat /\ T # {}
  <2>1. \A y \in S : b - y \in Nat
    OBVIOUS
  <2>2. PICK y \in S : TRUE
    OBVIOUS
  <2> QED
    BY <2>1, <2>2
<1>2. PICK t \in T : \A u \in T : t <= u
  <2> HIDE DEF T
  <2> QED
    BY <1>1, Smallest
<1>3. PICK x \in S : t = b - x
  OBVIOUS
<1>4. ASSUME NEW y \in S PROVE x >= y
  <2>1. b - x <= b - y
    BY <1>2, <1>3
  <2> QED
    BY <2>1
<1>5. \E z \in S : \A y \in S : z >= y
  BY <1>4
<1>6. Max(S) \in S /\ \A y \in S : Max(S) >= y
  BY <1>5 DEF Max
<1> QED
  BY <1>6

LEMMA CountingUp ==
  ASSUME NEW n \in Nat, NEW T, T \subseteq 0..n, 0 \in T, \A k \in 1..n : k - 1 \in T => k \in T
  PROVE  \A k \in 0..n : k \in T
<1> DEFINE U == (0..n) \ T
<1>1. SUFFICES ASSUME U # {} PROVE FALSE
  OBVIOUS
<1>2. PICK x \in U : \A y \in U : x <= y
  <2>1. U \subseteq Nat
    OBVIOUS
  <2> HIDE DEF U
  <2> QED
    BY <1>1, <2>1, Smallest
<1>3. x \in 1..n /\ x - 1 \in 0..n /\ x - 1 \notin U
  <2>1. x \in 0..n /\ x # 0
    OBVIOUS
  <2> HIDE DEF U
  <2> QED
    BY <1>2, <2>1
<1> QED
  BY <1>3

Runs(f, n, base, step) == f[0] = base /\ \A k \in 1..n : f[k] = step[k][f[k - 1]]
LEMMA RecursionExists ==
  ASSUME NEW n \in Nat, NEW S, NEW base \in S, NEW step \in [1..n -> [S -> S]]
  PROVE  \E f \in [0..n -> S] : Runs(f, n, base, step)
<1> DEFINE Solves(f, m) == f[0] = base /\ \A k \in 1..m : f[k] = step[k][f[k - 1]]
           T == {m \in 0..n : ~\E f \in [0..m -> S] : Solves(f, m)}
<1>1. T = {}
  <2> SUFFICES ASSUME T # {} PROVE FALSE
    OBVIOUS
  <2>1. PICK m \in T : \A y \in T : m <= y
    <3>1. T \subseteq Nat
      OBVIOUS
    <3> HIDE DEF T
    <3> QED
      BY <3>1, Smallest
  <2>2. CASE m = 0
    <3>1. [k \in 0..0 |-> base] \in [0..0 -> S] /\ Solves([k \in 0..0 |-> base], 0)
      OBVIOUS
    <3> QED
      BY <2>2, <3>1
  <2>3. CASE m # 0
    <3>1. m - 1 \in 0..n /\ m - 1 \notin T
      <4>1. m \in 0..n
        OBVIOUS
      <4> HIDE DEF T
      <4> QED
        BY <2>1, <2>3, <4>1
    <3>2. PICK f \in [0..(m - 1) -> S] : Solves(f, m - 1)
      BY <3>1
    <3> DEFINE g == [k \in 0..m |-> IF k = m THEN step[m][f[m - 1]] ELSE f[k]]
    <3>3. step[m][f[m - 1]] \in S
      BY <2>3
    <3>4. g \in [0..m -> S]
      BY <3>3
    <3>5. Solves(g, m)
      <4>1. g[0] = base
        BY <2>3, <3>2
      <4>2. ASSUME NEW k \in 1..m PROVE g[k] = step[k][g[k - 1]]
        <5>1. CASE k = m
          BY <5>1, <2>3
        <5>2. CASE k # m
          BY <5>2, <3>2
        <5> QED
          BY <5>1, <5>2
      <4> QED
        BY <4>1, <4>2
    <3> QED
      BY <3>4, <3>5
  <2> QED
    BY <2>2, <2>3
<1> QED
  BY <1>1 DEF Runs
-----------------------------------------------------------------------------
(* The tree of a list, level by level, and the ancestors of its items.       *)
LEMMA LevelsAre ==
  ASSUME NEW d
  PROVE  /\ DOMAIN TreeLevels(d) = 0..MaxItems
         /\ TreeLevels(d)[0] = {i \in ItemsOf(d) : items[i].parent = NoParent}
         /\ \A n \in 1..MaxItems :
              TreeLevels(d)[n] = {i \in ItemsOf(d) : items[i].parent \in TreeLevels(d)[n - 1]}
<1> DEFINE roots == {i \in ItemsOf(d) : items[i].parent = NoParent}
           below(X) == {i \in ItemsOf(d) : items[i].parent \in X}
           Solves(f) == f = [n \in 0..MaxItems |-> IF n = 0 THEN roots ELSE below(f[n - 1])]
           step == [n \in 1..MaxItems |-> [X \in SUBSET ItemsOf(d) |-> below(X)]]
<1>1. \E f : Solves(f)
  <2>1. step \in [1..MaxItems -> [SUBSET ItemsOf(d) -> SUBSET ItemsOf(d)]] /\ roots \in SUBSET ItemsOf(d)
    OBVIOUS
  <2>2. MaxItems \in Nat
    BY DimensionsAssumption DEF DimensionsAssumption
  <2>3. PICK f \in [0..MaxItems -> SUBSET ItemsOf(d)] :
               f[0] = roots /\ \A n \in 1..MaxItems : f[n] = step[n][f[n - 1]]
    <3> HIDE DEF step, roots
    <3>1. PICK n, S, b, st : n = MaxItems /\ S = SUBSET ItemsOf(d) /\ b = roots /\ st = step
      OBVIOUS
    <3>2. n \in Nat /\ b \in S /\ st \in [1..n -> [S -> S]]
      BY <2>1, <2>2, <3>1
    <3>3. \E f \in [0..n -> S] : Runs(f, n, b, st)
      BY <3>2, RecursionExists
    <3> QED
      BY <3>1, <3>3 DEF Runs
  <2>4. ASSUME NEW n \in 0..MaxItems PROVE f[n] = IF n = 0 THEN roots ELSE below(f[n - 1])
    <3>1. CASE n = 0
      BY <2>3, <3>1
    <3>2. CASE n # 0
      <4>1. n \in 1..MaxItems /\ f[n - 1] \in SUBSET ItemsOf(d)
        BY <2>2, <3>2
      <4>2. step[n][f[n - 1]] = below(f[n - 1])
        BY <4>1
      <4>3. f[n] = step[n][f[n - 1]]
        <5> HIDE DEF step, roots
        <5> QED
          BY <2>3, <3>2
      <4> QED
        BY <4>2, <4>3, <3>2
    <3> QED
      BY <3>1, <3>2
  <2>5. Solves(f)
    <3> HIDE DEF below, roots
    <3> QED
      BY <2>3, <2>4
  <2> QED
    BY <2>5
<1>2. Solves(TreeLevels(d))
  <2>1. TreeLevels(d) = CHOOSE f : Solves(f)
    BY DEF TreeLevels
  <2> HIDE DEF Solves
  <2> QED
    BY <1>1, <2>1
<1>3. MaxItems \in Nat
  BY DimensionsAssumption DEF DimensionsAssumption
<1> QED
  BY <1>2, <1>3

LEMMA AncestorsAre ==
  ASSUME ItemsInv
  PROVE  \A i \in DOMAIN items :
           /\ Ancestors[0][i] = i
           /\ \A n \in 1..MaxItems :
                Ancestors[n][i] = IF items[i].parent = NoParent THEN i ELSE Ancestors[n - 1][items[i].parent]
<1> DEFINE D == DOMAIN items
           self == [i \in D |-> i]
           above(g) == [i \in D |-> IF items[i].parent = NoParent THEN i ELSE g[items[i].parent]]
           Solves(f) == f = [n \in 0..MaxItems |-> IF n = 0 THEN self ELSE above(f[n - 1])]
           step == [n \in 1..MaxItems |-> [g \in [D -> D] |-> above(g)]]
<1>0. MaxItems \in Nat
  BY DimensionsAssumption DEF DimensionsAssumption
<1>1. \E f : Solves(f)
  <2>1. self \in [D -> D]
    OBVIOUS
  <2>2. ASSUME NEW g \in [D -> D] PROVE above(g) \in [D -> D]
    BY DEF ItemsInv
  <2>3. step \in [1..MaxItems -> [[D -> D] -> [D -> D]]]
    <3> HIDE DEF above
    <3> QED
      BY <2>2
  <2>4. PICK f \in [0..MaxItems -> [D -> D]] :
               f[0] = self /\ \A n \in 1..MaxItems : f[n] = step[n][f[n - 1]]
    <3> HIDE DEF step, self, D
    <3>1. PICK n, S, b, st : n = MaxItems /\ S = [D -> D] /\ b = self /\ st = step
      OBVIOUS
    <3>2. n \in Nat /\ b \in S /\ st \in [1..n -> [S -> S]]
      BY <1>0, <2>1, <2>3, <3>1
    <3>3. \E f \in [0..n -> S] : Runs(f, n, b, st)
      BY <3>2, RecursionExists
    <3> QED
      BY <3>1, <3>3 DEF Runs
  <2>5. ASSUME NEW n \in 0..MaxItems PROVE f[n] = IF n = 0 THEN self ELSE above(f[n - 1])
    <3> HIDE DEF self, D, above
    <3>1. CASE n = 0
      BY <2>4, <3>1
    <3>2. CASE n # 0
      <4>1. n \in 1..MaxItems /\ f[n - 1] \in [D -> D]
        BY <1>0, <3>2
      <4>2. step[n][f[n - 1]] = above(f[n - 1])
        BY <4>1
      <4>3. f[n] = step[n][f[n - 1]]
        <5> HIDE DEF step
        <5> QED
          BY <2>4, <3>2
      <4> QED
        BY <4>2, <4>3, <3>2
    <3> QED
      BY <3>1, <3>2
  <2>6. Solves(f)
    <3> HIDE DEF above, self, D
    <3> QED
      BY <2>4, <2>5
  <2> QED
    BY <2>6
<1>2. Solves(Ancestors)
  <2>1. Ancestors = CHOOSE f : Solves(f)
    BY DEF Ancestors
  <2> HIDE DEF Solves
  <2> QED
    BY <1>1, <2>1
<1>3. Ancestors = [n \in 0..MaxItems |-> IF n = 0 THEN self ELSE above(Ancestors[n - 1])]
  BY <1>2
<1>4. Ancestors[0] = self /\ \A n \in 1..MaxItems : Ancestors[n] = above(Ancestors[n - 1])
  <2> HIDE DEF self, above
  <2> QED
    BY <1>0, <1>3
<1> SUFFICES ASSUME NEW i \in DOMAIN items
             PROVE  /\ Ancestors[0][i] = i
                    /\ \A n \in 1..MaxItems :
                         Ancestors[n][i] = IF items[i].parent = NoParent THEN i ELSE Ancestors[n - 1][items[i].parent]
  OBVIOUS
<1>5. Ancestors[0][i] = i
  BY <1>4
<1>6. ASSUME NEW n \in 1..MaxItems
      PROVE  Ancestors[n][i] = IF items[i].parent = NoParent THEN i ELSE Ancestors[n - 1][items[i].parent]
  <2>1. Ancestors[n] = above(Ancestors[n - 1])
    <3> HIDE DEF self, above
    <3> QED
      BY <1>4
  <2> QED
    BY <2>1
<1> QED
  BY <1>5, <1>6

-----------------------------------------------------------------------------
(* Steps that keep the dimension of the ids given out, and what they keep.   *)
ItemsMove ==
  /\ nextId' \in Nat /\ nextId' >= nextId
  /\ \A i \in DOMAIN items' : i <= nextId => i \in DOMAIN items /\ items'[i].dim = items[i].dim

\* The sources of a composite change only where a key names a member that is gone.
SourcesStay(d, key) == key \subseteq DOMAIN items' => dims'[d].sources = dims[d].sources
SourcesMove ==
  /\ \A m \in members : SourcesStay(m.dim, m.key)
  /\ \A c \in DimClients : dimRequests[c].kind = "ensure" => SourcesStay(dimRequests[c].dim, dimRequests[c].key)

LEMMA ListsUnmoved ==
  ASSUME UNCHANGED dims
  PROVE  SourcesMove /\ \A d, key : SourcesStay(d, key)
BY DEF SourcesMove, SourcesStay

LEMMA KeyKept ==
  ASSUME ItemsInv, ItemsMove, NEW d, NEW key, IsKey(d, key), SourcesStay(d, key)
  PROVE  IsKey(d, key)'
<1>1. key \subseteq 1..nextId'
  BY DEF IsKey, ItemsInv, ItemsMove
<1>2. ASSUME key \subseteq DOMAIN items' PROVE FitsSources(d, key)'
  <2>1. \A i \in key : i \in DOMAIN items /\ items'[i].dim = items[i].dim
    BY <1>2 DEF IsKey, ItemsInv, ItemsMove
  <2>2. FitsSources(d, key) /\ dims'[d].sources = dims[d].sources
    BY <1>2, <2>1 DEF IsKey, SourcesStay
  <2>3. {items'[i].dim : i \in key} = {items[i].dim : i \in key}
    BY <2>1
  <2> QED
    BY <1>2, <2>2, <2>3 DEF FitsSources
<1> QED
  BY <1>1, <1>2 DEF IsKey

LEMMA FitKept ==
  ASSUME ItemsInv, ItemsMove, NEW row, NEW i \in Nat, NEW j \in Nat, i <= j, ItemFits(row, i), row.parent <= nextId
  PROVE  ItemFits(row, j)'
BY DEF ItemFits, ItemsInv, ItemsMove

LEMMA RequestKept ==
  ASSUME ItemsInv, ItemsMove, NEW r, DimRequestFits(r), r.kind = "ensure" => SourcesStay(r.dim, r.key)
  PROVE  DimRequestFits(r)'
<1>1. r.kind = "ensure" => IsKey(r.dim, r.key)'
  BY KeyKept DEF DimRequestFits
<1>2. ASSUME r.kind \in {"create", "import"} PROVE Inserts(r)'
  <2>1. Inserts(r)
    BY <1>2 DEF DimRequestFits
  <2>2. ASSUME NEW k \in DOMAIN r.rows PROVE ItemFits(r.rows[k], nextId + k)' /\ r.rows[k].parent <= nextId'
    <3>1. k \in Nat /\ nextId + k \in Nat /\ nextId' + k \in Nat /\ nextId + k <= nextId' + k
      BY <2>1 DEF Inserts, ItemsInv, ItemsMove
    <3>2. PICK row, i, j : row = r.rows[k] /\ i = nextId + k /\ j = nextId' + k
      OBVIOUS
    <3>3. ItemFits(row, i) /\ row.parent <= nextId
      BY <2>1, <3>2 DEF Inserts
    <3>4. ItemFits(row, j)'
      BY <3>1, <3>2, <3>3, FitKept
    <3> QED
      BY <3>2, <3>3, <3>4 DEF ItemFits, ItemsInv, ItemsMove
  <2> QED
    BY <2>1, <2>2 DEF Inserts
<1> QED
  BY <1>1, <1>2 DEF DimRequestFits, Continues

LEMMA RequestsKept ==
  ASSUME ItemsInv, ItemsMove, SourcesMove, DimRequestsInv, UNCHANGED dimRequests
  PROVE  DimRequestsInv'
<1>1. ASSUME NEW c \in DimClients PROVE DimRequestFits(dimRequests[c])'
  <2>1. PICK r : r = dimRequests[c]
    OBVIOUS
  <2>2. DimRequestFits(r)'
    BY <2>1, RequestKept DEF DimRequestsInv, SourcesMove
  <2> QED
    BY <2>1, <2>2
<1> QED
  BY <1>1 DEF DimRequestsInv

LEMMA RequestMade ==
  ASSUME ItemsInv, ItemsMove, SourcesMove, DimRequestsInv, NEW c \in DimClients, NEW r, DimRequestFits(r)',
         dimRequests' = [dimRequests EXCEPT ![c] = r]
  PROVE  DimRequestsInv'
<1>1. ASSUME NEW e \in DimClients PROVE DimRequestFits(dimRequests[e])'
  <2>1. PICK q : q = dimRequests[e]
    OBVIOUS
  <2>2. DimRequestFits(q)'
    BY <2>1, RequestKept DEF DimRequestsInv, SourcesMove
  <2>3. dimRequests'[e] = IF e = c THEN r ELSE q
    BY <2>1 DEF DimRequestsInv
  <2> QED
    BY <2>2, <2>3
<1>2. dimRequests' = [e \in DimClients |-> dimRequests'[e]]
  BY DEF DimRequestsInv
<1> QED
  BY <1>1, <1>2 DEF DimRequestsInv

LEMMA MembersKept ==
  ASSUME ItemsInv, ItemsMove, SourcesMove, MembersInv, members' \subseteq members,
         \A m \in members' : m.item \in DOMAIN items'
  PROVE  MembersInv'
<1>1. ASSUME NEW m \in members' PROVE IsMember(m)'
  <2>1. IsMember(m)
    BY DEF MembersInv
  <2>2. IsKey(m.dim, m.key)'
    BY <2>1, KeyKept DEF IsMember, SourcesMove
  <2>3. m.item \in ItemsOf(m.dim)'
    BY <2>1 DEF IsMember, ItemsOf, ItemsIn, ItemsInv, ItemsMove
  <2> QED
    BY <2>1, <2>2, <2>3 DEF IsMember
<1> QED
  BY <1>1 DEF MembersInv

-----------------------------------------------------------------------------
(* Deletions, moves and insertions.                                          *)
LEMMA WithoutKeeps ==
  ASSUME ItemsInv, MembersInv, NEW gone, Without(gone), UNCHANGED nextId
  PROVE  ItemsInv' /\ ItemsMove /\ DOMAIN items' = DOMAIN items \ gone /\ (SourcesMove => MembersInv')
<1>1. /\ DOMAIN items' = DOMAIN items \ gone
      /\ \A i \in DOMAIN items' : items'[i] = IF items[i].parent \in gone THEN [items[i] EXCEPT !.parent = NoParent] ELSE items[i]
  BY DEF Without
<1>2. ASSUME NEW i \in DOMAIN items'
      PROVE  /\ DOMAIN items'[i] = ItemFields /\ items'[i].dim = items[i].dim /\ items'[i].code = items[i].code
             /\ items'[i].parent = IF items[i].parent \in gone THEN NoParent ELSE items[i].parent
  <2>1. i \in DOMAIN items /\ DOMAIN items[i] = ItemFields
    BY <1>1 DEF ItemsInv, ItemFits
  <2>2. CASE items[i].parent \in gone
    <3>1. items'[i] = [items[i] EXCEPT !.parent = NoParent]
      BY <1>1, <2>2
    <3> QED
      BY <2>1, <2>2, <3>1 DEF ItemFields
  <2>3. CASE items[i].parent \notin gone
    BY <1>1, <2>1, <2>3
  <2> QED
    BY <2>2, <2>3
<1>3. ItemsMove
  BY <1>1, <1>2 DEF ItemsMove, ItemsInv
<1>4. ASSUME NEW i \in DOMAIN items'
      PROVE  ItemFits(items[i], i) /\ items[i].parent \in DOMAIN items \cup {NoParent} /\ i \in 1..nextId /\ NoParent \notin DOMAIN items
  BY <1>1 DEF ItemsInv, NoParent
<1>5. ASSUME NEW i \in DOMAIN items'
      PROVE  ItemFits(items[i], i)' /\ items'[i].parent \in DOMAIN items' \cup {NoParent}
  BY <1>1, <1>2, <1>4 DEF ItemFits, NoParent
<1>6. ItemsInv'
  BY <1>1, <1>5 DEF ItemsInv, Without
<1>7. SourcesMove => MembersInv'
  BY <1>1, <1>3, MembersKept DEF Without, MembersInv, IsMember, ItemsOf, ItemsIn
<1> QED
  BY <1>1, <1>3, <1>6, <1>7

LEMMA MoveKeeps ==
  ASSUME ItemsInv, MembersInv, NEW i \in DOMAIN items, NEW parent, ParentAllowed(i, parent),
         items' = [items EXCEPT ![i].parent = parent], UNCHANGED <<dims, nextId, members>>
  PROVE  ItemsInv' /\ ItemsMove /\ MembersInv'
<1>1. DOMAIN items' = DOMAIN items /\ items' = [j \in DOMAIN items |-> items'[j]]
  OBVIOUS
<1>2. ASSUME NEW j \in DOMAIN items
      PROVE  /\ DOMAIN items'[j] = ItemFields /\ items'[j].dim = items[j].dim /\ items'[j].code = items[j].code
             /\ items'[j].parent = IF i = j THEN parent ELSE items[j].parent
  BY DEF ItemsInv, ItemFits, ItemFields
<1>3. ItemsMove
  BY <1>1, <1>2 DEF ItemsMove, ItemsInv
<1>4. ASSUME NEW j \in DOMAIN items
      PROVE  ItemFits(items[j], j) /\ items[j].parent \in DOMAIN items \cup {NoParent} /\ j \in 1..nextId /\ NoParent \notin DOMAIN items
  BY DEF ItemsInv, NoParent
<1>5. parent \in Nat /\ parent \in DOMAIN items \cup {NoParent} /\ (parent \in DOMAIN items => items[parent].dim = items[i].dim)
  BY <1>4 DEF ParentAllowed, ItemsOf, ItemsIn, ItemsInv, NoParent
<1>6. ASSUME NEW j \in DOMAIN items
      PROVE  ItemFits(items[j], j)' /\ items'[j].parent \in DOMAIN items' \cup {NoParent}
  BY <1>1, <1>2, <1>4, <1>5 DEF ItemFits
<1>7. ItemsInv'
  BY <1>1, <1>6 DEF ItemsInv
<1>8. MembersInv'
  BY <1>1, <1>3, ListsUnmoved, MembersKept DEF MembersInv, IsMember, ItemsOf, ItemsIn
<1> QED
  BY <1>3, <1>7, <1>8

LEMMA InsertKeeps ==
  ASSUME ItemsInv, NEW rows, rows \in Seq(Range(rows)), InsertAll(rows),
         \A k \in DOMAIN rows : ItemFits(rows[k], nextId + k) /\ rows[k].parent \in DOMAIN items \cup {NoParent}
  PROVE  /\ ItemsInv' /\ ItemsMove
         /\ DOMAIN items' = DOMAIN items \cup (nextId + 1)..(nextId + Len(rows))
         /\ \A i \in DOMAIN items : items'[i] = items[i]
         /\ \A k \in DOMAIN rows : nextId + k \in DOMAIN items' /\ items'[nextId + k] = rows[k]
<1>0. Len(rows) \in Nat /\ DOMAIN rows = 1..Len(rows) /\ nextId \in Nat
  BY DEF ItemsInv
<1>1. DOMAIN items' = DOMAIN items \cup (nextId + 1)..(nextId + Len(rows))
  BY DEF InsertAll
<1>2. ASSUME NEW i \in DOMAIN items PROVE items'[i] = items[i] /\ i \in Nat /\ i <= nextId /\ i > 0
  BY <1>1 DEF InsertAll, ItemsInv
<1>3. ASSUME NEW k \in DOMAIN rows PROVE nextId + k \in DOMAIN items' /\ items'[nextId + k] = rows[k]
  BY <1>0 DEF InsertAll
<1>4. ItemsMove
  BY <1>0, <1>1, <1>2 DEF ItemsMove, InsertAll
<1>5. ASSUME NEW i \in DOMAIN items'
      PROVE  ItemFits(items[i], i)' /\ items'[i].parent \in DOMAIN items' \cup {NoParent}
  <2>1. CASE i \in DOMAIN items
    <3>1. ItemFits(items[i], i) /\ items[i].parent \in DOMAIN items \cup {NoParent} /\ NoParent \notin DOMAIN items'
      BY <2>1, <1>0, <1>1, <1>2 DEF ItemsInv, NoParent
    <3> QED
      BY <3>1, <2>1, <1>1, <1>2 DEF ItemFits
  <2>2. CASE i \notin DOMAIN items
    <3>1. PICK k \in DOMAIN rows : i = nextId + k
      <4>1. i - nextId \in DOMAIN rows /\ i = nextId + (i - nextId)
        BY <2>2, <1>0, <1>1
      <4> QED
        BY <4>1
    <3>2. ItemFits(rows[k], i) /\ rows[k].parent \in DOMAIN items \cup {NoParent} /\ NoParent \notin DOMAIN items'
      BY <3>1, <1>0, <1>1, <1>2 DEF NoParent
    <3> QED
      BY <3>1, <3>2, <1>1, <1>2, <1>3 DEF ItemFits
  <2> QED
    BY <2>1, <2>2
<1>6. ItemsInv'
  <2>1. items' = [i \in DOMAIN items' |-> items'[i]]
    BY DEF InsertAll
  <2>2. nextId' \in Nat /\ DOMAIN items' \subseteq 1..nextId'
    BY <1>0, <1>1, <1>2 DEF InsertAll
  <2> QED
    BY <2>1, <2>2, <1>5 DEF ItemsInv
<1> QED
  BY <1>1, <1>2, <1>3, <1>4, <1>6

LEMMA NextCode ==
  ASSUME ItemsInv, NEW d
  PROVE  /\ _next_numbered_item_code(d) \in 1..(nextId + 1)
         /\ \A i \in ItemsOf(d) : items[i].code < _next_numbered_item_code(d)
<1> DEFINE S == CodesIn(items, d) \cup {0}
<1>1. S \subseteq 0..nextId /\ S # {}
  <2>1. \A i \in DOMAIN items : items[i].code \in Nat /\ items[i].code <= i /\ i \in Nat /\ i <= nextId
    BY DEF ItemsInv, ItemFits
  <2> QED
    BY <2>1 DEF CodesIn, ItemsIn, ItemsInv
<1>2. Max(S) \in S /\ \A x \in S : x <= Max(S)
  <2>1. PICK s, b : s = S /\ b = nextId
    OBVIOUS
  <2>2. b \in Nat /\ s \subseteq 0..b /\ s # {}
    BY <1>1, <2>1 DEF ItemsInv
  <2>3. Max(s) \in s /\ \A x \in s : x <= Max(s)
    BY <2>2, Largest
  <2> QED
    BY <2>1, <2>3
<1>3. \A i \in ItemsOf(d) : items[i].code \in S
  BY DEF CodesIn, ItemsOf
<1> QED
  <2>1. _next_numbered_item_code(d) = Max(S) + 1
    BY DEF _next_numbered_item_code
  <2> HIDE DEF S
  <2> QED
    BY <1>1, <1>2, <1>3, <2>1 DEF ItemsInv

-----------------------------------------------------------------------------
(* What requests read and make: one item, or the rows of a file.             *)
LEMMA ItemsFinite ==
  ASSUME ItemsInv, NEW d
  PROVE  IsFiniteSet(ItemsOf(d)) /\ Cardinality(ItemsOf(d)) \in Nat
<1>1. nextId \in Nat /\ ItemsOf(d) \subseteq 1..nextId
  BY DEF ItemsInv, ItemsOf, ItemsIn
<1>2. IsFiniteSet(1..nextId)
  BY <1>1, FS_Interval
<1>3. IsFiniteSet(ItemsOf(d))
  BY <1>1, <1>2, FS_Subset
<1> QED
  BY <1>3, FS_CardinalityType

LEMMA KnownFits ==
  ASSUME ItemsInv, NEW made, NEW name, NEW d
  PROVE  Known(made, name, d).id \in ItemsOf(d) \cup {NoParent}
<1> DEFINE inFile == {k \in DOMAIN made : made[k].name = name}
           stored == {i \in ItemsOf(d) : items[i].name = name}
<1>1. Known(made, name, d).id = IF inFile # {} \/ stored = {} THEN NoParent ELSE Max(stored)
  BY DEF Known
<1>2. stored # {} => Max(stored) \in stored
  <2>1. PICK s, b : s = stored /\ b = nextId
    OBVIOUS
  <2>2. b \in Nat /\ s \subseteq 0..b
    BY <2>1 DEF ItemsInv, ItemsOf, ItemsIn
  <2> HIDE DEF stored
  <2> QED
    BY <2>1, <2>2, Largest
<1> QED
  BY <1>1, <1>2

LEMMA RowsFit ==
  ASSUME ItemsInv, ListsInv, NEW d \in Dims, NEW r,
         r.kind \in {"create", "import"}, r.dim = d, r.seen = items, r.numbered = IsNumbered(d), r.limit = dims[d].max_items,
         r.rows \in Seq(Range(r.rows)),
         \A k \in DOMAIN r.rows :
           /\ DOMAIN r.rows[k] = ItemFields /\ r.rows[k].dim = d /\ r.rows[k].parent \in ItemsOf(d) \cup {NoParent}
           /\ r.rows[k].code = IF IsNumbered(d) THEN _next_numbered_item_code(d) + k - 1 ELSE 0,
         (IsNumbered(d) /\ r.limit # NoLimit /\ r.rows # <<>>) => Cardinality(ItemsOf(d)) + Len(r.rows) <= r.limit
  PROVE  DimRequestFits(r)
<1>0. nextId \in Nat /\ DOMAIN r.rows = 1..Len(r.rows) /\ Len(r.rows) \in Nat
  BY DEF ItemsInv
<1>1. PICK first : first = _next_numbered_item_code(d)
  OBVIOUS
<1>2. first \in 1..(nextId + 1) /\ \A i \in ItemsOf(d) : items[i].code < first /\ items[i].code \in Nat /\ items[i].dim = d
  BY <1>1, NextCode DEF ItemsInv, ItemsOf, ItemsIn, ItemFits
<1>3. ASSUME NEW k \in DOMAIN r.rows
      PROVE  r.rows[k].dim = r.dim /\ ItemFits(r.rows[k], nextId + k) /\ r.rows[k].parent <= nextId
  <2>1. r.rows[k].code \in Nat /\ r.rows[k].code <= nextId + k
    BY <1>0, <1>1, <1>2
  <2>2. r.rows[k].parent \in Nat /\ r.rows[k].parent <= nextId
    BY <1>0 DEF ItemsInv, ItemsOf, ItemsIn, NoParent
  <2>3. r.rows[k].parent \in DOMAIN items => items[r.rows[k].parent].dim = d
    BY DEF ItemsInv, ItemsOf, ItemsIn, NoParent
  <2> QED
    BY <2>1, <2>2, <2>3 DEF ItemFits
<1>4. Inserts(r)
  BY <1>3 DEF Inserts, ListsInv
<1>5. Continues(r)
  <2>1. ASSUME IsNumbered(d), NEW k \in DOMAIN r.rows, NEW i \in ItemsOf(d) PROVE items[i].code < r.rows[k].code
    BY <2>1, <1>0, <1>1, <1>2
  <2>2. ASSUME IsNumbered(d), NEW k \in DOMAIN r.rows, NEW j \in DOMAIN r.rows, r.rows[j].code = r.rows[k].code PROVE j = k
    BY <2>2, <1>0, <1>1, <1>2
  <2> QED
    BY <2>1, <2>2 DEF Continues, ItemsOf
<1> QED
  BY <1>4, <1>5 DEF DimRequestFits

LEMMA ImportedFits ==
  ASSUME ItemsInv, ListsInv, NEW d \in Dims, NEW file \in Files, NEW rows, rows = Imported(d, file)
  PROVE  /\ rows \in Seq(Range(rows))
         /\ \A k \in DOMAIN rows :
              /\ DOMAIN rows[k] = ItemFields /\ rows[k].dim = d /\ rows[k].parent \in ItemsOf(d) \cup {NoParent}
              /\ rows[k].code = IF IsNumbered(d) THEN _next_numbered_item_code(d) + k - 1 ELSE 0
         /\ (IsNumbered(d) /\ dims[d].max_items # NoLimit /\ rows # <<>>) =>
               Cardinality(ItemsOf(d)) + Len(rows) <= dims[d].max_items
<1> DEFINE firstCode == _next_numbered_item_code(d)
           numbered == IsNumbered(d)
           Take(made, row) ==
             IF numbered THEN ~Full(d, Cardinality(ItemsOf(d)) + Len(made)) ELSE ~Known(made, row.name, d).found
           RowFor(made, row) == Item(d, row.name, IF numbered THEN firstCode + Len(made) ELSE 0,
                                  IF row.parent = "" THEN NoParent ELSE Known(made, row.parent, d).id)
           Step(made, row) == IF Take(made, row) THEN Append(made, RowFor(made, row)) ELSE made
           Solves(f) == f = [k \in 0..Len(file) |-> IF k = 0 THEN <<>> ELSE Step(f[k - 1], file[k])]
           R == {Item(d, file[k].name, code, parent) : k \in DOMAIN file, code \in Nat, parent \in ItemsOf(d) \cup {NoParent}}
           Fine(made) ==
             /\ \A k \in DOMAIN made : made[k].code = IF numbered THEN firstCode + k - 1 ELSE 0
             /\ (numbered /\ dims[d].max_items # NoLimit /\ made # <<>>) => Cardinality(ItemsOf(d)) + Len(made) <= dims[d].max_items
           S == {made \in Seq(R) : Fine(made)}
           step == [k \in 1..Len(file) |-> [made \in S |-> Step(made, file[k])]]
<1> HIDE DEF firstCode, numbered, Take, RowFor, Step, Solves, R, Fine, S, step
<1>0. Len(file) \in Nat /\ DOMAIN file = 1..Len(file)
  BY DimensionsAssumption DEF DimensionsAssumption
<1>1. <<>> \in S
  BY DEF S, Fine
<1>2. ASSUME NEW k \in 1..Len(file), NEW made \in S PROVE Step(made, file[k]) \in S
  <2>1. CASE ~Take(made, file[k])
    BY <2>1 DEF Step
  <2>2. CASE Take(made, file[k])
    <3>1. PICK new : new = RowFor(made, file[k])
      OBVIOUS
    <3>2. firstCode \in Nat /\ Cardinality(ItemsOf(d)) \in Nat /\ dims[d].max_items \in Nat
      BY NextCode, ItemsFinite DEF ListsInv, ItemsInv, firstCode
    <3>3. made \in Seq(R) /\ Fine(made) /\ Len(made) \in Nat
      BY DEF S
    <3>4. new \in R /\ new.code = IF numbered THEN firstCode + Len(made) ELSE 0
      <4>1. PICK code, parent : /\ code = (IF numbered THEN firstCode + Len(made) ELSE 0)
                                /\ parent = (IF file[k].parent = "" THEN NoParent ELSE Known(made, file[k].parent, d).id)
        OBVIOUS
      <4>2. code \in Nat
        <5>1. code = firstCode + Len(made) \/ code = 0
          BY <4>1
        <5> QED
          BY <3>2, <3>3, <5>1
      <4>3. parent \in ItemsOf(d) \cup {NoParent}
        BY <4>1, KnownFits
      <4>4. new = Item(d, file[k].name, code, parent)
        BY <3>1, <4>1 DEF RowFor
      <4>5. new.code = code
        BY <4>4 DEF Item
      <4>6. k \in DOMAIN file
        BY <1>0
      <4>7. new \in R
        BY <4>2, <4>3, <4>4, <4>6 DEF R
      <4> QED
        BY <4>1, <4>5, <4>7
    <3>5. PICK more : more = Append(made, new)
      OBVIOUS
    <3>6. /\ more \in Seq(R) /\ Len(more) = Len(made) + 1
          /\ \A j \in DOMAIN more : more[j] = IF j = Len(more) THEN new ELSE made[j]
          /\ \A j \in DOMAIN more : j \in 1..Len(more) /\ (j # Len(more) => j \in DOMAIN made)
      BY <3>3, <3>4, <3>5
    <3>7. (numbered /\ dims[d].max_items # NoLimit) => Cardinality(ItemsOf(d)) + Len(more) <= dims[d].max_items
      BY <2>2, <3>2, <3>3, <3>6 DEF Full, Take
    <3>8. ASSUME NEW j \in DOMAIN more PROVE more[j].code = IF numbered THEN firstCode + j - 1 ELSE 0
      BY <3>2, <3>3, <3>4, <3>6 DEF Fine
    <3>9. Fine(more)
      BY <3>7, <3>8 DEF Fine
    <3> QED
      BY <2>2, <3>1, <3>5, <3>6, <3>9 DEF S, Step
  <2> QED
    BY <2>1, <2>2
<1>3. step \in [1..Len(file) -> [S -> S]]
  BY <1>2 DEF step
<1>4. PICK f \in [0..Len(file) -> S] : f[0] = <<>> /\ \A k \in 1..Len(file) : f[k] = step[k][f[k - 1]]
  <2>1. PICK n, s, b, st : n = Len(file) /\ s = S /\ b = <<>> /\ st = step
    OBVIOUS
  <2>2. n \in Nat /\ b \in s /\ st \in [1..n -> [s -> s]]
    BY <1>0, <1>1, <1>3, <2>1
  <2>3. \E g \in [0..n -> s] : Runs(g, n, b, st)
    BY <2>2, RecursionExists
  <2> QED
    BY <2>1, <2>3 DEF Runs
<1>5. Solves(f)
  <2>1. ASSUME NEW k \in 0..Len(file) PROVE f[k] = IF k = 0 THEN <<>> ELSE Step(f[k - 1], file[k])
    <3>1. CASE k = 0
      BY <1>4, <3>1
    <3>2. CASE k # 0
      <4>1. k \in 1..Len(file) /\ f[k - 1] \in S
        BY <1>0, <3>2
      <4>2. step[k][f[k - 1]] = Step(f[k - 1], file[k])
        BY <4>1 DEF step
      <4> QED
        BY <1>4, <4>1, <4>2, <3>2
    <3> QED
      BY <3>1, <3>2
  <2> QED
    BY <1>4, <2>1 DEF Solves
<1>6. PICK g : g = CHOOSE h : Solves(h)
  OBVIOUS
<1>7. Solves(g)
  BY <1>5, <1>6
<1>8. rows = g[Len(file)]
  BY <1>6 DEF Imported, Solves, Step, Take, RowFor, numbered, firstCode
<1>9. g[Len(file)] \in S
  <2> DEFINE T == {k \in 0..Len(file) : g[k] \in S}
  <2>1. 0 \in T
    BY <1>0, <1>1, <1>7 DEF Solves
  <2>2. ASSUME NEW k \in 1..Len(file), k - 1 \in T PROVE k \in T
    BY <2>2, <1>0, <1>2, <1>7 DEF Solves
  <2>3. PICK t, n : t = T /\ n = Len(file)
    OBVIOUS
  <2> HIDE DEF T
  <2>4. t \subseteq 0..n /\ 0 \in t /\ n \in Nat /\ \A k \in 1..n : k - 1 \in t => k \in t
    BY <2>1, <2>2, <2>3, <1>0 DEF T
  <2>5. \A k \in 0..n : k \in t
    BY <2>4, CountingUp
  <2> QED
    BY <2>3, <2>4, <2>5 DEF T
<1>10. rows \in Seq(R) /\ Fine(rows)
  BY <1>8, <1>9 DEF S
<1>11. ASSUME NEW k \in DOMAIN rows
       PROVE DOMAIN rows[k] = ItemFields /\ rows[k].dim = d /\ rows[k].parent \in ItemsOf(d) \cup {NoParent}
  <2>1. rows[k] \in R
    BY <1>10
  <2> QED
    BY <2>1 DEF Item, ItemFields, R
<1>12. rows \in Seq(Range(rows))
  BY <1>10 DEF Range
<1> QED
  BY <1>10, <1>11, <1>12 DEF Fine, numbered, firstCode

-----------------------------------------------------------------------------
(* Every action keeps the invariant.                                         *)
LEMMA NothingMoves ==
  ASSUME ItemsInv, UNCHANGED <<items, nextId>>
  PROVE  /\ ItemsInv' /\ ItemsMove
         /\ MembersInv /\ SourcesMove /\ UNCHANGED members => MembersInv'
         /\ UNCHANGED dims => SourcesMove /\ (StandInv => StandInv') /\ \A d, key : SourcesStay(d, key)
<1>1. ItemsInv'
  BY DEF ItemsInv, ItemFits
<1>2. ItemsMove
  BY DEF ItemsMove, ItemsInv
<1>3. MembersInv /\ SourcesMove /\ UNCHANGED members => MembersInv'
  BY <1>2, MembersKept DEF MembersInv, IsMember, ItemsOf, ItemsIn
<1>4. UNCHANGED dims => SourcesMove /\ (StandInv => StandInv') /\ \A d, key : SourcesStay(d, key)
  BY ListsUnmoved DEF StandInv
<1> QED
  BY <1>1, <1>2, <1>3, <1>4

LEMMA ReadNumberedKeeps ==
  ASSUME DimInv, NEW c \in DimClients, NEW d \in Dims, NEW name, NEW p, ReadNumbered(c, d, name, p)
  PROVE  DimInv'
<1>1. ItemsInv' /\ ItemsMove /\ SourcesMove /\ MembersInv' /\ StandInv' /\ \A e, key : SourcesStay(e, key)
  BY NothingMoves DEF DimInv, ReadNumbered
<1>2. PICK code, row, r :
        /\ code = (IF IsNumbered(d) THEN _next_numbered_item_code(d) ELSE 0)
        /\ row = Item(d, name, code, p)
        /\ r = [kind |-> "create", dim |-> d, rows |-> <<row>>, seen |-> items, numbered |-> IsNumbered(d), limit |-> dims[d].max_items]
  OBVIOUS
<1>3. dimRequests' = [dimRequests EXCEPT ![c] = r]
  BY <1>2 DEF ReadNumbered
<1>4. DimRequestFits(r)
  <2>1. /\ r.kind \in {"create", "import"} /\ r.dim = d /\ r.seen = items /\ r.numbered = IsNumbered(d) /\ r.limit = dims[d].max_items
        /\ r.rows = <<row>> /\ r.rows \in Seq(Range(r.rows)) /\ Len(r.rows) = 1
    <3>1. r.rows = <<row>>
      BY <1>2
    <3>2. <<row>> \in Seq(Range(<<row>>))
      BY DEF Range
    <3> QED
      BY <1>2, <3>1, <3>2
  <2>2. ASSUME NEW k \in DOMAIN r.rows
        PROVE  /\ DOMAIN r.rows[k] = ItemFields /\ r.rows[k].dim = d /\ r.rows[k].parent \in ItemsOf(d) \cup {NoParent}
               /\ r.rows[k].code = IF IsNumbered(d) THEN _next_numbered_item_code(d) + k - 1 ELSE 0
    <3>1. k = 1 /\ r.rows[k] = row
      BY <2>1
    <3>2. DOMAIN row = ItemFields /\ row.dim = d /\ row.parent = p /\ row.code = code
      BY <1>2 DEF Item, ItemFields
    <3>3. code = IF IsNumbered(d) THEN _next_numbered_item_code(d) + k - 1 ELSE 0
      BY <1>2, <3>1, NextCode DEF DimInv, ItemsInv
    <3> QED
      BY <3>1, <3>2, <3>3 DEF ReadNumbered
  <2>3. (IsNumbered(d) /\ r.limit # NoLimit /\ r.rows # <<>>) => Cardinality(ItemsOf(d)) + Len(r.rows) <= r.limit
    <3>1. Cardinality(ItemsOf(d)) \in Nat /\ dims[d].max_items \in Nat
      BY ItemsFinite DEF DimInv, ListsInv
    <3>2. IsNumbered(d) => ~Full(d, Cardinality(ItemsOf(d)))
      BY DEF ReadNumbered
    <3> QED
      BY <2>1, <3>1, <3>2 DEF Full
  <2>4. ItemsInv /\ ListsInv /\ r.kind \in {"create", "import"} /\ r.dim = d /\ r.seen = items /\ r.numbered = IsNumbered(d) /\ r.limit = dims[d].max_items
    BY <2>1 DEF DimInv
  <2>5. r.rows \in Seq(Range(r.rows))
    BY <2>1
  <2> QED
    BY <2>2, <2>3, <2>4, <2>5, RowsFit
<1>5. DimRequestsInv'
  BY <1>1, <1>3, <1>4, RequestKept, RequestMade DEF DimInv
<1> QED
  BY <1>1, <1>5 DEF DimInv, ListsInv, ReadNumbered

LEMMA ImportKeeps ==
  ASSUME DimInv, NEW c \in DimClients, NEW d \in Dims, NEW file \in Files, import_to_dimension(c, d, file)
  PROVE  DimInv'
<1>1. ItemsInv' /\ ItemsMove /\ SourcesMove /\ MembersInv' /\ StandInv' /\ \A e, key : SourcesStay(e, key)
  BY NothingMoves DEF DimInv, import_to_dimension
<1>2. PICK rows, r :
        /\ rows = Imported(d, file)
        /\ r = [kind |-> "import", dim |-> d, rows |-> rows, seen |-> items, numbered |-> IsNumbered(d), limit |-> dims[d].max_items]
  OBVIOUS
<1>3. dimRequests' = [dimRequests EXCEPT ![c] = r]
  BY <1>2 DEF import_to_dimension
<1>4. DimRequestFits(r)
  <2>1. /\ r.kind \in {"create", "import"} /\ r.dim = d /\ r.seen = items /\ r.numbered = IsNumbered(d) /\ r.limit = dims[d].max_items
        /\ r.rows = rows
    BY <1>2
  <2> QED
    BY <1>2, <2>1, ImportedFits, RowsFit DEF DimInv
<1>5. DimRequestsInv'
  BY <1>1, <1>3, <1>4, RequestKept, RequestMade DEF DimInv
<1> QED
  BY <1>1, <1>5 DEF DimInv, ListsInv, import_to_dimension

LEMMA FreeFits == DimRequestFits(Free)'
BY DEF DimRequestFits, Free

LEMMA CommitItemsKeeps ==
  ASSUME DimInv, NEW c \in DimClients, CommitItems(c)
  PROVE  DimInv'
<1>1. PICK r : r = dimRequests[c]
  OBVIOUS
<1>2. Inserts(r)
  BY <1>1 DEF DimInv, DimRequestsInv, DimRequestFits, CommitItems
<1>3. CASE ~InsertAllowed(r.dim, r.rows)
  <2>1. ItemsInv' /\ ItemsMove /\ SourcesMove /\ MembersInv' /\ StandInv'
    BY <1>1, <1>3, NothingMoves DEF DimInv, CommitItems
  <2> QED
    BY <2>1, FreeFits, RequestMade DEF DimInv, ListsInv, CommitItems
<1>4. CASE InsertAllowed(r.dim, r.rows)
  <2>1. PICK rows : rows = r.rows
    OBVIOUS
  <2>2. rows \in Seq(Range(rows)) /\ InsertAll(rows)
    BY <1>1, <1>2, <1>4, <2>1 DEF Inserts, CommitItems
  <2>3. \A k \in DOMAIN rows : ItemFits(rows[k], nextId + k) /\ rows[k].parent \in DOMAIN items \cup {NoParent}
    BY <1>2, <1>4, <2>1 DEF Inserts, InsertAllowed, ParentsExist
  <2>4. /\ ItemsInv' /\ ItemsMove
        /\ DOMAIN items' = DOMAIN items \cup (nextId + 1)..(nextId + Len(rows))
        /\ \A i \in DOMAIN items : items'[i] = items[i]
        /\ \A k \in DOMAIN rows : items'[nextId + k] = rows[k]
    BY <2>2, <2>3, InsertKeeps DEF DimInv
  <2>5. SourcesMove
    BY ListsUnmoved DEF CommitItems
  <2>6. StandInv'
    <3>1. ASSUME NEW i \in (nextId + 1)..(nextId + Len(rows)) PROVE items'[i].dim = r.dim
      <4>1. i - nextId \in DOMAIN rows /\ i = nextId + (i - nextId)
        BY <2>2 DEF DimInv, ItemsInv
      <4> QED
        BY <1>2, <2>1, <2>4, <4>1 DEF Inserts
    <3> QED
      BY <1>4, <2>4, <3>1 DEF DimInv, StandInv, InsertAllowed, CommitItems
  <2>7. MembersInv'
    BY <2>4, <2>5, MembersKept DEF DimInv, CommitItems, MembersInv, IsMember, ItemsOf, ItemsIn
  <2> QED
    BY <2>4, <2>5, <2>6, <2>7, FreeFits, RequestMade DEF DimInv, ListsInv, CommitItems
<1> QED
  BY <1>3, <1>4

LEMMA EnsureKeeps ==
  ASSUME DimInv, NEW c \in DimClients, NEW d \in Dims, NEW ids, ensure_composite_intersection_member(c, d, ids)
  PROVE  DimInv'
<1>1. ItemsInv' /\ ItemsMove /\ SourcesMove /\ MembersInv' /\ StandInv' /\ \A e, key : SourcesStay(e, key)
  BY NothingMoves DEF DimInv, ensure_composite_intersection_member
<1>2. PICK r : r = [kind |-> "ensure", dim |-> d, key |-> ids]
  OBVIOUS
<1>3. IsKey(d, ids)
  BY DEF DimInv, ItemsInv, IsKey, FitsSources, ensure_composite_intersection_member
<1>4. DimRequestFits(r)
  BY <1>2, <1>3 DEF DimRequestFits
<1>5. dimRequests' = [dimRequests EXCEPT ![c] = r]
  BY <1>2 DEF ensure_composite_intersection_member
<1>6. DimRequestsInv'
  BY <1>1, <1>4, <1>5, RequestKept, RequestMade DEF DimInv
<1> QED
  BY <1>1, <1>6 DEF DimInv, ListsInv, ensure_composite_intersection_member

LEMMA CommitIntersectionKeeps ==
  ASSUME DimInv, NEW c \in DimClients, CommitIntersection(c)
  PROVE  DimInv'
<1>1. PICK r, d, key : r = dimRequests[c] /\ d = r.dim /\ key = r.key
  OBVIOUS
<1>2. IsKey(d, key)
  BY <1>1 DEF DimInv, DimRequestsInv, DimRequestFits, CommitIntersection
<1>0. SourcesMove /\ \A e, k : SourcesStay(e, k)
  BY ListsUnmoved DEF CommitIntersection
<1>3. CASE ~dims[d].exists \/ Conflicts(d, key)
  <2>1. ItemsInv' /\ ItemsMove /\ MembersInv' /\ StandInv'
    BY <1>1, <1>3, NothingMoves DEF DimInv, CommitIntersection
  <2> QED
    BY <1>0, <2>1, FreeFits, RequestMade DEF DimInv, ListsInv, CommitIntersection
<1>4. CASE dims[d].exists /\ ~Conflicts(d, key)
  <2>1. PICK row, rows, new :
          row = Item(d, "intersection", 0, NoParent) /\ rows = <<row>> /\ new = [dim |-> d, key |-> key, item |-> nextId + 1]
    OBVIOUS
  <2>2. InsertAll(rows) /\ members' = members \cup {new}
    BY <1>1, <1>4, <2>1 DEF CommitIntersection
  <2>3. rows \in Seq(Range(rows)) /\ DOMAIN rows = {1} /\ rows[1] = row
    BY <2>1 DEF Range
  <2>4. \A k \in DOMAIN rows : ItemFits(rows[k], nextId + k) /\ rows[k].parent \in DOMAIN items \cup {NoParent}
    <3>1. DOMAIN row = ItemFields /\ row.dim = d /\ row.code = 0 /\ row.parent = 0
      BY <2>1 DEF Item, ItemFields, NoParent
    <3>2. 0 \notin DOMAIN items /\ nextId \in Nat /\ d \in Dims
      BY <1>2 DEF DimInv, ItemsInv, IsKey
    <3> QED
      BY <2>3, <3>1, <3>2 DEF ItemFits, NoParent
  <2>5. /\ ItemsInv' /\ ItemsMove
        /\ \A i \in DOMAIN items : i \in DOMAIN items' /\ items'[i] = items[i]
        /\ nextId + 1 \in DOMAIN items' /\ items'[nextId + 1] = row
    <3>1. /\ ItemsInv' /\ ItemsMove
          /\ DOMAIN items' = DOMAIN items \cup (nextId + 1)..(nextId + Len(rows))
          /\ \A i \in DOMAIN items : items'[i] = items[i]
          /\ \A k \in DOMAIN rows : nextId + k \in DOMAIN items' /\ items'[nextId + k] = rows[k]
      BY <2>2, <2>3, <2>4, InsertKeeps DEF DimInv
    <3> QED
      BY <2>3, <3>1
  <2>6. ASSUME NEW m \in members' PROVE IsMember(m)'
    <3>1. CASE m \in members
      <4>1. IsMember(m)
        BY <3>1 DEF DimInv, MembersInv
      <4>2. IsKey(m.dim, m.key)'
        BY <4>1, <2>5, <1>0, KeyKept DEF IsMember, DimInv
      <4> QED
        BY <4>1, <4>2, <2>5 DEF IsMember, ItemsOf, ItemsIn
    <3>2. CASE m = new
      <4>1. IsKey(d, key)'
        BY <1>2, <2>5, <1>0, KeyKept DEF DimInv
      <4>2. m.dim = d /\ m.key = key /\ m.item = nextId + 1
        BY <2>1, <3>2
      <4>3. row.dim = d
        BY <2>1 DEF Item
      <4> QED
        BY <2>1, <2>5, <3>2, <4>1, <4>2, <4>3 DEF IsMember, ItemsOf, ItemsIn
    <3> QED
      BY <2>2, <3>1, <3>2
  <2>7. ASSUME NEW m \in members', NEW n \in members', (m.dim = n.dim /\ m.key = n.key) \/ m.item = n.item PROVE m = n
    <3>1. new.dim = d /\ new.key = key /\ new.item = nextId + 1
      BY <2>1
    <3>2. \A q \in members : q.item # nextId + 1 /\ ~(q.dim = d /\ q.key = key)
      BY <1>4 DEF DimInv, ItemsInv, MembersInv, IsMember, ItemsOf, ItemsIn, Conflicts
    <3> QED
      BY <2>2, <2>7, <3>1, <3>2 DEF DimInv, MembersInv
  <2>8. MembersInv'
    BY <2>6, <2>7 DEF MembersInv
  <2>9. StandInv'
    <3>1. DOMAIN items' = DOMAIN items \cup {nextId + 1} /\ row.dim = d
      BY <2>1, <2>2, <2>3 DEF DimInv, ItemsInv, InsertAll, Item
    <3> QED
      BY <1>1, <1>4, <2>5, <3>1 DEF DimInv, StandInv, CommitIntersection
  <2> QED
    BY <1>0, <2>5, <2>8, <2>9, FreeFits, RequestMade DEF DimInv, ListsInv, CommitIntersection
<1> QED
  BY <1>3, <1>4

\* Nothing is kept in a dimension that is gone, so that its name is free.
LEMMA NewListStays ==
  ASSUME DimInv, NEW d \in Dims, Unnamed(d), UNCHANGED items, \A e \in Dims \ {d} : dims'[e] = dims[e]
  PROVE  SourcesMove
<1>1. ASSUME NEW m \in members PROVE SourcesStay(m.dim, m.key)
  BY DEF DimInv, MembersInv, IsMember, IsKey, ItemsOf, ItemsIn, StandInv, Unnamed, SourcesStay
<1>2. ASSUME NEW c \in DimClients, dimRequests[c].kind = "ensure" PROVE SourcesStay(dimRequests[c].dim, dimRequests[c].key)
  BY <1>2 DEF DimInv, DimRequestsInv, DimRequestFits, IsKey, Unnamed, Free, SourcesStay
<1> QED
  BY <1>1, <1>2 DEF SourcesMove

\* A key that is still whole names no member of a deleted source.
LEMMA DeletedListStays ==
  ASSUME DimInv, NEW d \in Dims, delete_dimension(d)
  PROVE  SourcesMove
<1>1. DOMAIN items' = DOMAIN items \ ItemsOf(d)
  BY DEF delete_dimension, Without
<1>2. ASSUME NEW c, NEW key, IsKey(c, key) PROVE SourcesStay(c, key)
  <2>1. SUFFICES ASSUME key \subseteq DOMAIN items' PROVE dims'[c].sources = dims[c].sources
    BY DEF SourcesStay
  <2>2. c \in Dims /\ {items[i].dim : i \in key} = dims[c].sources
    BY <1>1, <1>2, <2>1 DEF IsKey, FitsSources
  <2>3. d \notin dims[c].sources
    BY <1>1, <2>1, <2>2 DEF ItemsOf, ItemsIn
  <2>4. DOMAIN dims[c] = ListFields
    BY <2>2 DEF DimInv, ListsInv
  <2> QED
    BY <2>2, <2>3, <2>4 DEF delete_dimension, ListFields
<1> QED
  BY <1>2 DEF SourcesMove, DimInv, MembersInv, IsMember, DimRequestsInv, DimRequestFits

LEMMA ListsKeep ==
  ASSUME DimInv, NEW d \in Dims, NEW x, NEW type,
         \/ x \in Limits /\ (create_dimension(d, x) \/ update_dimension(d, type, x))
         \/ delete_dimension(d) \/ create_composite_dimension(d)
  PROVE  DimInv'
<1>0. /\ dims = [e \in Dims |-> dims[e]] /\ (x \in Limits => x \in Nat) /\ NoLimit \in Nat
      /\ \A e \in Dims : DOMAIN dims[e] = ListFields /\ dims[e].max_items \in Nat /\ e \notin dims[e].sources
      /\ TypeOf[d] = "composite" => d \notin SourcesOf[d]
  BY DimensionsAssumption DEF DimInv, ListsInv, DimensionsAssumption, NoLimit
<1>1. CASE (x \in Limits /\ create_dimension(d, x)) \/ create_composite_dimension(d)
  <2>1. PICK limit, sources : dims' = [dims EXCEPT ![d] = Created(d, limit, sources)] /\ limit \in Nat /\ d \notin sources
    <3>1. CASE x \in Limits /\ create_dimension(d, x)
      BY <1>0, <3>1 DEF create_dimension
    <3>2. CASE create_composite_dimension(d)
      BY <1>0, <3>2 DEF create_composite_dimension
    <3> QED
      BY <1>1, <3>1, <3>2
  <2>2. UNCHANGED <<items, nextId, members, dimRequests>> /\ Unnamed(d)
    BY <1>1 DEF create_dimension, create_composite_dimension
  <2>3. SourcesMove
    BY <1>0, <2>1, <2>2, NewListStays
  <2>4. ListsInv'
    BY <1>0, <2>1, <2>2 DEF ListsInv, ListFields, Created
  <2>5. StandInv'
    <3>1. ASSUME NEW e \in Dims, dims[e].exists PROVE dims'[e].exists
      BY <1>0, <2>1, <3>1 DEF Created
    <3>2. \A i \in DOMAIN items : items[i].dim \in Dims
      BY DEF DimInv, ItemsInv, ItemFits
    <3> QED
      BY <2>2, <3>1, <3>2 DEF DimInv, StandInv
  <2> QED
    BY <2>5, <2>2, <2>3, <2>4, NothingMoves, RequestsKept DEF DimInv
<1>2. CASE x \in Limits /\ update_dimension(d, type, x)
  <2>1. /\ UNCHANGED <<items, nextId, members, dimRequests>>
        /\ dims' = [dims EXCEPT ![d].type = type, ![d].max_items = x]
    BY <1>2 DEF update_dimension
  <2>2. \A e \in Dims : DOMAIN dims'[e] = ListFields /\ dims'[e].sources = dims[e].sources /\ dims'[e].exists = dims[e].exists
    BY <1>0, <2>1 DEF ListFields
  <2>3. SourcesMove
    BY <2>2 DEF SourcesMove, SourcesStay, DimInv, MembersInv, IsMember, IsKey, DimRequestsInv, DimRequestFits
  <2>4. ListsInv'
    <3>1. \A e \in Dims : dims'[e].max_items = IF e = d THEN x ELSE dims[e].max_items
      BY <1>0, <2>1 DEF ListFields
    <3>2. dims' = [e \in Dims |-> dims'[e]]
      BY <1>0, <2>1
    <3> QED
      BY <1>0, <1>2, <2>2, <3>1, <3>2 DEF ListsInv
  <2>5. StandInv'
    <3>1. \A i \in DOMAIN items : items[i].dim \in Dims /\ dims[items[i].dim].exists
      BY DEF DimInv, StandInv, ItemsInv, ItemFits
    <3> QED
      BY <2>1, <2>2, <3>1 DEF StandInv
  <2> QED
    BY <2>1, <2>3, <2>4, <2>5, NothingMoves, RequestsKept DEF DimInv
<1>3. CASE delete_dimension(d)
  <2>1. /\ UNCHANGED <<nextId, dimRequests>> /\ Without(ItemsOf(d))
        /\ dims' = [e \in Dims |-> IF e = d THEN [dims[e] EXCEPT !.exists = FALSE] ELSE [dims[e] EXCEPT !.sources = @ \ {d}]]
    BY <1>3 DEF delete_dimension
  <2>2. ItemsInv' /\ ItemsMove /\ DOMAIN items' = DOMAIN items \ ItemsOf(d) /\ MembersInv'
    BY <1>3, <2>1, DeletedListStays, WithoutKeeps DEF DimInv
  <2>3. ASSUME NEW e \in Dims
        PROVE  /\ DOMAIN dims'[e] = ListFields /\ dims'[e].max_items = dims[e].max_items
               /\ dims'[e].sources \subseteq dims[e].sources /\ (e # d => dims'[e].exists = dims[e].exists)
    BY <1>0, <2>1 DEF ListFields
  <2>4. ListsInv'
    BY <1>0, <2>1, <2>3 DEF ListsInv
  <2>5. StandInv'
    <3>1. ASSUME NEW i \in DOMAIN items' PROVE dims'[items'[i].dim].exists
      <4>1. i \in DOMAIN items /\ items'[i].dim = items[i].dim /\ items[i].dim # d /\ items[i].dim \in Dims
        BY <2>2 DEF DimInv, ItemsInv, ItemFits, ItemsMove, ItemsOf, ItemsIn
      <4> QED
        BY <2>3, <4>1 DEF DimInv, StandInv
    <3> QED
      BY <3>1 DEF StandInv
  <2> QED
    BY <1>3, <2>1, <2>2, <2>4, <2>5, DeletedListStays, RequestsKept DEF DimInv
<1> QED
  BY <1>1, <1>2, <1>3

LEMMA ItemActionsKeep ==
  ASSUME DimInv, NEW i \in DOMAIN items, NEW p, delete_dimension_item(i) \/ update_dimension_item(i, p)
  PROVE  DimInv'
<1>1. UNCHANGED <<dims, nextId, dimRequests>> /\ SourcesMove
  BY ListsUnmoved DEF delete_dimension_item, update_dimension_item
<1>2. ItemsInv' /\ ItemsMove /\ MembersInv'
  <2>1. CASE delete_dimension_item(i)
    BY <1>1, <2>1, WithoutKeeps DEF DimInv, delete_dimension_item
  <2>2. CASE update_dimension_item(i, p)
    BY <1>1, <2>2, MoveKeeps DEF DimInv, update_dimension_item
  <2> QED
    BY <2>1, <2>2
<1>3. StandInv'
  BY <1>1, <1>2 DEF DimInv, StandInv, ItemsInv, ItemsMove
<1> QED
  BY <1>1, <1>2, <1>3, RequestsKept DEF DimInv, ListsInv
-----------------------------------------------------------------------------
LEMMA InitDims == DimInit => DimInv
<1> SUFFICES ASSUME DimInit PROVE DimInv
  OBVIOUS
<1>1. PICK filled \in {{}} \cup {SourcesAtFirst(c) : c \in Dims} : \E order \in SetToSeqs(filled) :
        /\ nextId = Len(order)
        /\ items = [i \in DOMAIN order |->
                      [dim |-> order[i], name |-> CHOOSE x \in Names : TRUE,
                       code |-> IF TypeOf[order[i]] = "numbered" THEN 1 ELSE 0, parent |-> NoParent]]
  BY DEF DimInit
<1>2. PICK order \in SetToSeqs(filled) :
        /\ nextId = Len(order)
        /\ items = [i \in DOMAIN order |->
                      [dim |-> order[i], name |-> CHOOSE x \in Names : TRUE,
                       code |-> IF TypeOf[order[i]] = "numbered" THEN 1 ELSE 0, parent |-> NoParent]]
  BY <1>1
<1>3. filled \subseteq Dims /\ IsFiniteSet(filled)
  <2>1. CASE filled = {}
    BY <2>1, FS_EmptySet
  <2>2. CASE filled # {}
    <3>1. PICK c \in Dims : filled = SourcesAtFirst(c)
      BY <2>2, <1>1
    <3>2. TypeOf[c] = "composite" /\ filled = SourcesOf[c]
      BY <2>2, <3>1 DEF SourcesAtFirst
    <3> QED
      BY <3>2, DimensionsAssumption DEF DimensionsAssumption
  <2> QED
    BY <2>1, <2>2
<1>4. Len(order) \in Nat /\ DOMAIN order = 1..Len(order) /\ \A i \in DOMAIN order : order[i] \in Dims
  <2>1. Cardinality(filled) \in Nat
    BY <1>3, FS_CardinalityType
  <2>2. order \in [1..Cardinality(filled) -> filled]
    BY DEF SetToSeqs
  <2>3. order \in Seq(filled) /\ Len(order) = Cardinality(filled)
    BY <2>1, <2>2
  <2> QED
    BY <1>3, <2>1, <2>2, <2>3
<1>5. ASSUME NEW i \in DOMAIN items PROVE ItemFits(items[i], i) /\ items[i].parent = NoParent
  <2>1. i \in DOMAIN order /\ i \in Nat /\ i >= 1
    BY <1>2, <1>4
  <2>2. DOMAIN items[i] = ItemFields /\ items[i].dim = order[i] /\ items[i].code \in {0, 1} /\ items[i].parent = 0
    BY <1>2, <2>1 DEF ItemFields, NoParent
  <2>3. 0 \notin DOMAIN items
    BY <1>2, <1>4
  <2> QED
    BY <1>4, <2>1, <2>2, <2>3 DEF ItemFits, NoParent
<1>6. ItemsInv
  BY <1>2, <1>4, <1>5 DEF ItemsInv
<1>7. ListsInv
  BY DimensionsAssumption DEF DimensionsAssumption, DimInit, ListsInv, ListFields, Created, SourcesAtFirst, NoLimit
<1>8. StandInv
  BY <1>5 DEF DimInit, StandInv, Created, ItemFits
<1>9. MembersInv /\ DimRequestsInv
  BY DEF DimInit, MembersInv, DimRequestsInv, DimRequestFits, Free
<1> QED
  BY <1>6, <1>7, <1>8, <1>9 DEF DimInv

LEMMA NextDims == DimInv /\ [DimNext]_dimVars => DimInv'
<1> SUFFICES ASSUME DimInv, [DimNext]_dimVars PROVE DimInv'
  OBVIOUS
<1>1. ASSUME NEW d \in Dims, NEW x \in Limits, create_dimension(d, x) \/ \E type \in {"standard", "numbered"} : update_dimension(d, type, x)
      PROVE  DimInv'
  BY <1>1, ListsKeep
<1>2. ASSUME NEW d \in Dims, delete_dimension(d) \/ create_composite_dimension(d) PROVE DimInv'
  <2>1. \A x, type : DimInv'
    BY <1>2, ListsKeep
  <2> QED
    BY <2>1
<1>3. ASSUME NEW i \in DOMAIN items, delete_dimension_item(i) \/ \E p \in DOMAIN items \cup {NoParent} : update_dimension_item(i, p)
      PROVE  DimInv'
  BY <1>3, ItemActionsKeep
<1>4. ASSUME NEW c \in DimClients, NEW d \in Dims, NEW name \in Names, NEW p \in ItemsOf(d) \cup {NoParent}, ReadNumbered(c, d, name, p)
      PROVE  DimInv'
  BY <1>4, ReadNumberedKeeps
<1>5. ASSUME NEW c \in DimClients, NEW d \in Dims, NEW file \in Files, import_to_dimension(c, d, file) PROVE DimInv'
  BY <1>5, ImportKeeps
<1>6. ASSUME NEW c \in DimClients, NEW d \in Dims, NEW ids \in SUBSET DOMAIN items,
             ensure_composite_intersection_member(c, d, ids)
      PROVE  DimInv'
  BY <1>6, EnsureKeeps
<1>7. ASSUME NEW c \in DimClients, CommitItems(c) \/ CommitIntersection(c) PROVE DimInv'
  BY <1>7, CommitItemsKeeps, CommitIntersectionKeeps
<1>8. CASE UNCHANGED dimVars
  <2>1. ItemsInv' /\ ItemsMove /\ SourcesMove /\ MembersInv' /\ StandInv'
    BY <1>8, NothingMoves DEF DimInv, dimVars
  <2> QED
    BY <2>1, <1>8, RequestsKept DEF DimInv, ListsInv, dimVars
<1> QED
  BY <1>1, <1>2, <1>3, <1>4, <1>5, <1>6, <1>7, <1>8 DEF DimNext
-----------------------------------------------------------------------------
(* What the invariant says of the tree of a list.                            *)
LEMMA TreeFromAncestors == ItemsInv => TreeMissesOnlyCycles
<1> SUFFICES ASSUME ItemsInv PROVE TreeMissesOnlyCycles
  OBVIOUS
<1>0. MaxItems \in Nat
  BY DimensionsAssumption DEF DimensionsAssumption
<1> DEFINE Level(d, n) == TreeLevels(d)[n]
           Rooted(i, n) == items[Ancestors[n][i]].parent = NoParent
           Within(i, n) == \E k \in 0..n : i \in Level(items[i].dim, k)
           T == {n \in 0..MaxItems : \A i \in DOMAIN items : Within(i, n) <=> Rooted(i, n)}
<1> HIDE DEF Level, Rooted, Within, T
<1>1. ASSUME NEW i \in DOMAIN items
      PROVE  /\ items[i].parent \in DOMAIN items \cup {NoParent} /\ NoParent \notin DOMAIN items
             /\ items[i].parent # NoParent => items[items[i].parent].dim = items[i].dim
             /\ i \in ItemsOf(items[i].dim)
  BY DEF ItemsInv, ItemFits, NoParent, ItemsOf, ItemsIn
<1>2. ASSUME NEW i \in DOMAIN items
      PROVE  /\ i \in Level(items[i].dim, 0) <=> items[i].parent = NoParent
             /\ \A n \in 1..MaxItems : i \in Level(items[i].dim, n) <=> items[i].parent \in Level(items[i].dim, n - 1)
  BY <1>1, LevelsAre DEF Level
<1>3. ASSUME NEW i \in DOMAIN items
      PROVE  /\ Rooted(i, 0) <=> items[i].parent = NoParent
             /\ \A n \in 1..MaxItems : Rooted(i, n) <=> (items[i].parent = NoParent \/ Rooted(items[i].parent, n - 1))
  <2>1. /\ Ancestors[0][i] = i
        /\ \A n \in 1..MaxItems : Ancestors[n][i] = IF items[i].parent = NoParent THEN i ELSE Ancestors[n - 1][items[i].parent]
    BY AncestorsAre
  <2>2. Rooted(i, 0) <=> items[i].parent = NoParent
    BY <2>1 DEF Rooted
  <2>3. ASSUME NEW n \in 1..MaxItems PROVE Rooted(i, n) <=> (items[i].parent = NoParent \/ Rooted(items[i].parent, n - 1))
    <3>1. CASE items[i].parent = NoParent
      BY <2>1, <3>1 DEF Rooted
    <3>2. CASE items[i].parent # NoParent
      BY <2>1, <3>2 DEF Rooted
    <3> QED
      BY <3>1, <3>2
  <2> QED
    BY <2>2, <2>3
<1>4. 0 \in T
  <2>1. ASSUME NEW i \in DOMAIN items PROVE Within(i, 0) <=> Rooted(i, 0)
    BY <1>2, <1>3 DEF Within
  <2> QED
    BY <1>0, <2>1 DEF T
<1>5. ASSUME NEW n \in 1..MaxItems, n - 1 \in T PROVE n \in T
  <2>1. ASSUME NEW i \in DOMAIN items PROVE Within(i, n) <=> Rooted(i, n)
    <3>1. CASE items[i].parent = NoParent
      <4>1. i \in Level(items[i].dim, 0) /\ 0 \in 0..n
        BY <1>0, <1>2, <3>1
      <4> QED
        BY <4>1, <1>3, <3>1 DEF Within
    <3>2. CASE items[i].parent # NoParent
      <4>1. PICK p : p = items[i].parent
        OBVIOUS
      <4>2. p \in DOMAIN items /\ items[p].dim = items[i].dim
        BY <1>1, <3>2, <4>1
      <4>3. Within(p, n - 1) <=> Rooted(p, n - 1)
        BY <1>5, <4>2 DEF T
      <4>4. Within(i, n) <=> Within(p, n - 1)
        <5>1. ASSUME NEW k \in 0..n, i \in Level(items[i].dim, k) PROVE Within(p, n - 1)
          <6>1. k # 0
            BY <1>2, <3>2, <5>1
          <6>2. k \in 1..MaxItems /\ k - 1 \in 0..(n - 1)
            BY <1>0, <6>1
          <6>3. p \in Level(items[p].dim, k - 1)
            BY <1>2, <4>1, <4>2, <5>1, <6>2
          <6> QED
            BY <6>2, <6>3 DEF Within
        <5>2. ASSUME NEW k \in 0..(n - 1), p \in Level(items[p].dim, k) PROVE Within(i, n)
          <6>1. PICK m : m = k + 1
            OBVIOUS
          <6>2. m \in 1..MaxItems /\ m \in 0..n /\ m - 1 = k
            BY <1>0, <6>1
          <6>3. i \in Level(items[i].dim, m)
            BY <1>2, <4>1, <4>2, <5>2, <6>2
          <6> QED
            BY <6>2, <6>3 DEF Within
        <5> QED
          BY <5>1, <5>2 DEF Within
      <4>5. Rooted(i, n) <=> Rooted(p, n - 1)
        BY <1>3, <3>2, <4>1
      <4> QED
        BY <4>3, <4>4, <4>5
    <3> QED
      BY <3>1, <3>2
  <2> QED
    BY <1>0, <2>1 DEF T
<1>6. MaxItems \in T
  <2>1. T \subseteq 0..MaxItems
    BY DEF T
  <2>2. PICK t, n : t = T /\ n = MaxItems
    OBVIOUS
  <2>3. n \in Nat /\ t \subseteq 0..n /\ 0 \in t /\ \A k \in 1..n : k - 1 \in t => k \in t
    BY <1>0, <1>4, <1>5, <2>1, <2>2
  <2>4. \A k \in 0..n : k \in t
    BY <2>3, CountingUp
  <2> QED
    BY <2>2, <2>3, <2>4
<1>7. ASSUME NEW i \in DOMAIN items PROVE i \in _build_tree(items[i].dim) <=> Within(i, MaxItems)
  BY LevelsAre DEF _build_tree, Range, Within, Level
<1> QED
  BY <1>6, <1>7 DEF T, Rooted, TreeMissesOnlyCycles
-----------------------------------------------------------------------------
(* ... of the intersections ...                                              *)
LEMMA ManyDistinct ==
  ASSUME NEW n \in Nat, NEW f, \A j, k \in 1..n : f[j] = f[k] => j = k, NEW T, T = {f[k] : k \in 1..n}
  PROVE  IsFiniteSet(T) /\ Cardinality(T) = n
<1> DEFINE g == [k \in 1..n |-> f[k]]
<1>1. g \in Bijection(1..n, T)
  BY DEF Bijection, Injection, IsInjective, Surjection
<1>2. ExistsBijection(1..n, T)
  BY <1>1 DEF ExistsBijection
<1>3. IsFiniteSet(1..n) /\ Cardinality(1..n) = n
  BY FS_Interval
<1> QED
  BY <1>2, <1>3, FS_Bijection

LEMMA NormalizedSame ==
  ASSUME ItemsInv, ListsInv, MembersInv, NEW m \in members, m.key \subseteq DOMAIN items
  PROVE  /\ _normalize_dimension_members_for_composites(m.dim, m.key) = {m.item}
         /\ _normalize_dimension_members_for_composites(m.dim, {m.item}) = {m.item}
<1>1. PICK d, key : d = m.dim /\ key = m.key
  OBVIOUS
<1>2. d \in Dims /\ FitsSources(d, key) /\ m.item \in DOMAIN items /\ items[m.item].dim = d
  BY <1>1 DEF MembersInv, IsMember, IsKey, ItemsOf, ItemsIn
<1>3. {i \in key : i \in DOMAIN items /\ items[i].dim = d} = {}
  BY <1>2 DEF ListsInv, FitsSources
<1>4. PICK existing : existing = {q \in members : q.dim = d /\ q.key = key}
  OBVIOUS
<1>5. existing = {m}
  BY <1>1, <1>4 DEF MembersInv
<1>6. _normalize_dimension_members_for_composites(d, key) = {q.item : q \in existing}
  BY <1>2, <1>3, <1>4, <1>5 DEF _normalize_dimension_members_for_composites
<1>7. _normalize_dimension_members_for_composites(d, {m.item}) = {m.item}
  <2>1. m.item \in {i \in {m.item} : i \in DOMAIN items /\ items[i].dim = d}
    BY <1>2
  <2> QED
    BY <2>1 DEF _normalize_dimension_members_for_composites
<1> QED
  BY <1>1, <1>5, <1>6, <1>7

LEMMA IntersectionsFromInv == ItemsInv /\ ListsInv /\ MembersInv => IntersectionsUnique
<1> SUFFICES ASSUME ItemsInv, ListsInv, MembersInv PROVE IntersectionsUnique
  OBVIOUS
<1>1. ASSUME NEW m \in members, m.key \subseteq DOMAIN items
      PROVE  _normalize_dimension_members_for_composites(m.dim, m.key)
               = _normalize_dimension_members_for_composites(m.dim, {m.item})
  BY <1>1, NormalizedSame
<1> QED
  BY <1>1 DEF IntersectionsUnique, MembersInv, IsMember
-----------------------------------------------------------------------------
(* ... and of a request that commits.                                        *)
LEMMA InsertedCount ==
  ASSUME ItemsInv, NEW r, Inserts(r), Continues(r), InsertAllowed(r.dim, r.rows), InsertAll(r.rows)
  PROVE  NumberedKeepsLimit(r)
<1> SUFFICES ASSUME nextId' > nextId, r.numbered, r.seen = items
             PROVE  /\ r.limit # NoLimit => Cardinality(ItemsIn(items', r.dim)) <= r.limit
                    /\ Cardinality(CodesIn(items', r.dim)) = Cardinality(CodesIn(items, r.dim)) + Len(r.rows)
  BY DEF NumberedKeepsLimit
<1>1. PICK rows, d, n, f : rows = r.rows /\ d = r.dim /\ n = Len(rows) /\ f = [k \in 1..n |-> rows[k].code]
  OBVIOUS
<1>2. rows \in Seq(Range(rows)) /\ n \in Nat /\ DOMAIN rows = 1..n /\ nextId \in Nat /\ rows # <<>>
  <2>1. rows \in Seq(Range(rows)) /\ nextId \in Nat
    BY <1>1 DEF Inserts, ItemsInv
  <2>2. nextId' = nextId + n
    BY <1>1 DEF InsertAll
  <2> QED
    BY <1>1, <2>1, <2>2
<1>3. \A k \in DOMAIN rows : ItemFits(rows[k], nextId + k) /\ rows[k].parent \in DOMAIN items \cup {NoParent} /\ rows[k].dim = d
  BY <1>1 DEF Inserts, InsertAllowed, ParentsExist
<1>4. /\ DOMAIN items' = DOMAIN items \cup (nextId + 1)..(nextId + n)
      /\ \A i \in DOMAIN items : items'[i] = items[i]
      /\ \A k \in DOMAIN rows : nextId + k \in DOMAIN items' /\ items'[nextId + k] = rows[k]
  <2>1. InsertAll(rows)
    BY <1>1
  <2> QED
    BY <1>1, <1>2, <1>3, <2>1, InsertKeeps
<1> DEFINE new == (nextId + 1)..(nextId + n)
<1>5. \A i \in new : i - nextId \in DOMAIN rows /\ items'[i] = rows[i - nextId]
  <2>1. ASSUME NEW i \in new PROVE i - nextId \in DOMAIN rows /\ i = nextId + (i - nextId)
    BY <1>2
  <2> QED
    BY <1>4, <2>1
<1>6. ItemsIn(items', d) = ItemsOf(d) \cup new
  BY <1>3, <1>4, <1>5 DEF ItemsIn, ItemsOf
<1>7. CodesIn(items', d) = CodesIn(items, d) \cup {f[k] : k \in 1..n}
  <2>1. ASSUME NEW x \in CodesIn(items', d) PROVE x \in CodesIn(items, d) \cup {f[k] : k \in 1..n}
    <3>1. PICK i \in ItemsIn(items', d) : x = items'[i].code
      BY DEF CodesIn
    <3>2. CASE i \in ItemsOf(d)
      <4>1. x = items[i].code
        BY <1>4, <3>1, <3>2 DEF ItemsOf, ItemsIn
      <4> QED
        BY <3>2, <4>1 DEF CodesIn, ItemsOf
    <3>3. CASE i \in new
      <4>1. i - nextId \in 1..n /\ x = f[i - nextId]
        BY <1>1, <1>2, <1>5, <3>1, <3>3
      <4> QED
        BY <4>1
    <3> QED
      BY <1>6, <3>1, <3>2, <3>3
  <2>2. ASSUME NEW i \in ItemsIn(items, d) PROVE items[i].code \in CodesIn(items', d)
    <3>1. i \in ItemsIn(items', d) /\ items'[i].code = items[i].code
      BY <1>4, <1>6 DEF ItemsOf, ItemsIn
    <3> QED
      BY <3>1 DEF CodesIn
  <2>3. ASSUME NEW k \in 1..n PROVE f[k] \in CodesIn(items', d)
    <3>1. nextId + k \in DOMAIN items' /\ items'[nextId + k] = rows[k] /\ rows[k].dim = d
      BY <1>2, <1>3, <1>4
    <3>2. nextId + k \in ItemsIn(items', d) /\ items'[nextId + k].code = f[k]
      BY <1>1, <3>1 DEF ItemsIn
    <3> QED
      BY <3>2 DEF CodesIn
  <2> QED
    BY <2>1, <2>2, <2>3 DEF CodesIn
<1>8. IsFiniteSet(ItemsOf(d)) /\ Cardinality(ItemsOf(d)) \in Nat
  BY ItemsFinite
<1>9. IsFiniteSet(new) /\ Cardinality(new) = n
  <2>1. nextId + 1 \in Int /\ nextId + n \in Int
    BY <1>2
  <2>2. IsFiniteSet(new) /\ Cardinality(new) = IF nextId + 1 > nextId + n THEN 0 ELSE (nextId + n) - (nextId + 1) + 1
    BY <2>1, FS_Interval
  <2> QED
    BY <1>2, <2>2
<1>10. Cardinality(ItemsIn(items', d)) = Cardinality(ItemsOf(d)) + n
  <2>1. ItemsOf(d) \cap new = {}
    BY <1>2 DEF ItemsInv, ItemsOf, ItemsIn
  <2>2. PICK A, B : A = ItemsOf(d) /\ B = new
    OBVIOUS
  <2>3. Cardinality(A \cup B) = Cardinality(A) + Cardinality(B) - Cardinality(A \cap B)
    BY <1>8, <1>9, <2>2, FS_Union
  <2>4. Cardinality(A \cap B) = 0
    BY <2>1, <2>2, FS_EmptySet
  <2> QED
    BY <1>2, <1>6, <1>8, <1>9, <2>2, <2>3, <2>4
<1>11. r.limit # NoLimit => Cardinality(ItemsIn(items', r.dim)) <= r.limit
  BY <1>1, <1>2, <1>10 DEF Continues, ItemsOf
<1>12. Cardinality({f[k] : k \in 1..n}) = n /\ IsFiniteSet({f[k] : k \in 1..n})
  <2>1. \A j, k \in 1..n : f[j] = f[k] => j = k
    BY <1>1, <1>2 DEF Continues
  <2>2. PICK T : T = {f[k] : k \in 1..n}
    OBVIOUS
  <2>3. IsFiniteSet(T) /\ Cardinality(T) = n
    <3>1. n \in Nat
      BY <1>2
    <3> QED
      BY <2>1, <2>2, <3>1, ManyDistinct
  <2> QED
    BY <2>2, <2>3
<1>13. IsFiniteSet(CodesIn(items, d)) /\ Cardinality(CodesIn(items, d)) \in Nat
  <2>1. CodesIn(items, d) \subseteq 0..nextId
    <3>1. \A i \in DOMAIN items : items[i].code \in Nat /\ items[i].code <= i /\ i \in Nat /\ i <= nextId
      BY DEF ItemsInv, ItemFits
    <3> QED
      BY <1>2, <3>1 DEF CodesIn, ItemsIn
  <2>2. IsFiniteSet(0..nextId)
    BY <1>2, FS_Interval
  <2>3. IsFiniteSet(CodesIn(items, d))
    BY <2>1, <2>2, FS_Subset
  <2> QED
    BY <2>3, FS_CardinalityType
<1>14. CodesIn(items, d) \cap {f[k] : k \in 1..n} = {}
  <2>1. ASSUME NEW i \in ItemsIn(items, d), NEW k \in 1..n PROVE items[i].code # f[k]
    <3>1. items[i].code < rows[k].code /\ items[i].code \in Nat /\ rows[k].code \in Nat
      BY <1>1, <1>2, <1>3 DEF Continues, ItemsInv, ItemFits, ItemsIn
    <3> QED
      BY <1>1, <3>1
  <2> QED
    BY <2>1 DEF CodesIn
<1>15. Cardinality(CodesIn(items', d)) = Cardinality(CodesIn(items, d)) + n
  <2>1. PICK A, B : A = CodesIn(items, d) /\ B = {f[k] : k \in 1..n}
    OBVIOUS
  <2>2. Cardinality(A \cup B) = Cardinality(A) + Cardinality(B) - Cardinality(A \cap B)
    BY <1>12, <1>13, <2>1, FS_Union
  <2>3. Cardinality(A \cap B) = 0
    BY <1>14, <2>1, FS_EmptySet
  <2> QED
    BY <1>2, <1>7, <1>12, <1>13, <2>1, <2>2, <2>3
<1> QED
  BY <1>1, <1>11, <1>15

LEMMA CommitKeepsLimit ==
  ASSUME DimInv, NEW c \in DimClients, CommitItems(c)
  PROVE  NumberedKeepsLimit(dimRequests[c])
<1>1. PICK r : r = dimRequests[c]
  OBVIOUS
<1>2. r.kind \in {"create", "import"} /\ Inserts(r) /\ Continues(r)
  BY <1>1 DEF DimInv, DimRequestsInv, DimRequestFits, CommitItems
<1>3. CASE ~InsertAllowed(r.dim, r.rows)
  <2>1. nextId' = nextId /\ nextId \in Nat
    BY <1>1, <1>3 DEF CommitItems, DimInv, ItemsInv
  <2> QED
    BY <2>1 DEF NumberedKeepsLimit
<1>4. CASE InsertAllowed(r.dim, r.rows)
  <2>1. InsertAll(r.rows)
    BY <1>1, <1>4 DEF CommitItems
  <2>2. NumberedKeepsLimit(r)
    BY <1>2, <1>4, <2>1, InsertedCount DEF DimInv
  <2> QED
    BY <1>1, <2>2
<1> QED
  BY <1>3, <1>4

(* Lists keep their items apart, within their limits and in sight: a combination of      *)
(* source members has one intersection, whoever asks for it at the same time, an insertion *)
(* into a numbered list that no other overlapped keeps its limit and its codes distinct,  *)
(* and the tree misses only what is on or below a cycle of parents (services/dimension.py, *)
(* composite_dimension.py, the import of items).                                         *)
THEOREM DimensionsAgreeAlways == DimSpec => DimensionsAgree
<1>1. DimInv /\ DimInv' /\ [DimNext]_dimVars =>
        [/\ IntersectionsUnique' /\ TreeMissesOnlyCycles'
         /\ \A c \in DimClients : CommitItems(c) => NumberedKeepsLimit(dimRequests[c])]_dimVars
  <2> SUFFICES ASSUME DimInv, DimInv'
               PROVE  /\ IntersectionsUnique' /\ TreeMissesOnlyCycles'
                      /\ \A c \in DimClients : CommitItems(c) => NumberedKeepsLimit(dimRequests[c])
    OBVIOUS
  <2>1. IntersectionsUnique'
    <3>1. ItemsInv' /\ ListsInv' /\ MembersInv' => IntersectionsUnique'
      BY IntersectionsFromInv, PTL
    <3> QED
      BY <3>1 DEF DimInv
  <2>2. TreeMissesOnlyCycles'
    <3>1. ItemsInv' => TreeMissesOnlyCycles'
      BY TreeFromAncestors, PTL
    <3> QED
      BY <3>1 DEF DimInv
  <2> QED
    BY <2>1, <2>2, CommitKeepsLimit
<1> QED
  BY <1>1, InitDims, NextDims, PTL DEF DimSpec, DimensionsAgree

-----------------------------------------------------------------------------
(* Planning.  A spread holds what it has still to write, and says of the     *)
(* cells as they will then be that the children of every parent it is done   *)
(* with add up; an aggregation holds the parents it has still to write, none *)
(* of them below one it is done with.  Nothing is said of a request that      *)
(* another one's write has disturbed.                                        *)
CellsInv == cellOf \in [Items -> Int] /\ summary \in Summaries

\* What the cells v will hold when the writes a spread has left are done.
Planned(left, v) ==
  [item \in Items |->
     IF \E k \in DOMAIN left : left[k].item = item
     THEN left[CHOOSE k \in DOMAIN left : left[k].item = item].value ELSE v[item]]
Under(parent, v) == [i \in DOMAIN _get_children(parent) |-> v[_get_children(parent)[i]]]
Remade(made, i) == \E j \in (i + 1)..Len(made) : made[j].parent = made[i].parent
SpreadFollows(made, v) ==
  \A i \in DOMAIN made :
    Remade(made, i) \/ made[i].method = "manual" \/ SumOf(Under(made[i].parent, v)) = made[i].target
IsSpreads(spreads) == spreads \in Seq(Range(spreads)) /\ \A i \in DOMAIN spreads : IsSpread(spreads[i])
IsLeft(left) ==
  /\ left \in Seq(Range(left))
  /\ \A k \in DOMAIN left : left[k].item \in Items /\ left[k].value \in Int
  /\ \A j, k \in DOMAIN left : left[j].item = left[k].item => j = k
SpreadFits(r, v) ==
  /\ DOMAIN r = {"kind", "todo", "left", "made", "disturbed"} /\ r.kind = "spread"
  /\ IsSpreads(r.todo) /\ IsSpreads(r.made) /\ IsLeft(r.left)
  /\ ~r.disturbed => SpreadFollows(r.made, Planned(r.left, v))

\* x is what an aggregation by some order of the children gives.
Edges == {"first", "last", "opening_balance", "closing_balance"}
Aggregates(x, parent, ordered, v, key) ==
  LET value == aggregate_values(Under(parent, v), key)
  IN IF ordered \/ key \notin Edges THEN x * value.den = value.num ELSE x \in Range(Under(parent, v))
Below(parents, item) == \A other \in parents : _get_depth[other] <= _get_depth[item]
AggregateFollows(r, v, key) ==
  /\ \A p \in r.all \ r.parents : Aggregates(v[p], p, r.ordered, v, key) /\ (r.ordered \/ Below(r.parents, p))
  /\ r.of # NoItem => Aggregates(r.value, r.of, r.ordered, v, key) /\ (r.ordered \/ Below(r.parents, r.of))
AggregateFits(r, v, key) ==
  /\ DOMAIN r = {"kind", "parents", "of", "value", "all", "ordered", "disturbed"} /\ r.kind = "aggregate"
  /\ r.all \subseteq Items /\ r.parents \subseteq r.all /\ r.of \in r.parents \cup {NoItem} /\ r.value \in Int
  /\ r.ordered \in BOOLEAN /\ IF r.ordered THEN \A p, q \in r.all : p = q ELSE Acyclic /\ r.all \subseteq Parents
  /\ ~r.disturbed => AggregateFollows(r, v, key)
PlanRequestFits(r, v, key) == r = PlanIdle \/ SpreadFits(r, v) \/ AggregateFits(r, v, key)
PlanRequestsInv ==
  /\ planRequests = [c \in Clients |-> planRequests[c]]
  /\ \A c \in Clients : PlanRequestFits(planRequests[c], cellOf, SummaryKey)
PlanInv == CellsInv /\ PlanRequestsInv

-----------------------------------------------------------------------------
(* Sums.                                                                     *)
LEMMA SumExists ==
  ASSUME NEW n \in Nat, NEW f, \A k \in 1..n : f[k] \in Int
  PROVE  \E s \in [0..n -> Int] : s[0] = 0 /\ (\A k \in 1..n : s[k] = s[k - 1] + f[k]) /\ SumFirst(f, n) = s[n]
<1> DEFINE Solves(s) == s = [k \in 0..n |-> IF k = 0 THEN 0 ELSE s[k - 1] + f[k]]
           step == [k \in 1..n |-> [x \in Int |-> x + f[k]]]
<1> HIDE DEF step, Solves
<1>1. step \in [1..n -> [Int -> Int]]
  BY DEF step
<1>2. PICK t \in [0..n -> Int] : t[0] = 0 /\ \A k \in 1..n : t[k] = step[k][t[k - 1]]
  <2>1. PICK s, b, st : s = Int /\ b = 0 /\ st = step
    OBVIOUS
  <2>2. b \in s /\ st \in [1..n -> [s -> s]]
    BY <1>1, <2>1
  <2>3. \E g \in [0..n -> s] : Runs(g, n, b, st)
    BY <2>2, RecursionExists
  <2> QED
    BY <2>1, <2>3 DEF Runs
<1>3. Solves(t)
  <2>1. ASSUME NEW k \in 1..n PROVE t[k] = t[k - 1] + f[k]
    <3>1. k - 1 \in 0..n /\ t[k - 1] \in Int
      BY <1>2
    <3>2. step[k] = [x \in Int |-> x + f[k]]
      BY DEF step
    <3>3. PICK x : x = t[k - 1]
      OBVIOUS
    <3>4. step[k][x] = x + f[k]
      BY <3>1, <3>2, <3>3
    <3>5. t[k] = step[k][t[k - 1]]
      BY <1>2
    <3> QED
      BY <3>3, <3>4, <3>5
  <2> QED
    BY <1>2, <2>1 DEF Solves
<1>4. PICK s : s = CHOOSE u : Solves(u)
  OBVIOUS
<1>5. Solves(s)
  BY <1>3, <1>4
<1>6. SumFirst(f, n) = s[n]
  BY <1>4 DEF SumFirst, Solves
<1>7. s[0] = 0 /\ \A k \in 1..n : s[k] = s[k - 1] + f[k]
  BY <1>5 DEF Solves
<1>8. \A k \in 0..n : s[k] \in Int
  <2> DEFINE T == {k \in 0..n : s[k] \in Int}
  <2>0. 0 \in T
    BY <1>7
  <2>1. ASSUME NEW k \in 1..n, k - 1 \in T PROVE k \in T
    <3>1. s[k] = s[k - 1] + f[k] /\ s[k - 1] \in Int /\ f[k] \in Int
      BY <1>7, <2>1
    <3>2. s[k] \in Int
      BY <3>1
    <3> QED
      BY <3>2
  <2>2. T \subseteq 0..n
    OBVIOUS
  <2> HIDE DEF T
  <2>3. \A k \in 0..n : k \in T
    BY <2>0, <2>1, <2>2, CountingUp
  <2> QED
    BY <2>3 DEF T
<1>9. s \in [0..n -> Int]
  BY <1>5, <1>8 DEF Solves
<1> QED
  BY <1>6, <1>7, <1>9

LEMMA SumSteps ==
  ASSUME NEW n \in Nat, NEW f, \A k \in 1..n : f[k] \in Int
  PROVE  /\ SumFirst(f, 0) = 0
         /\ \A k \in 0..n : SumFirst(f, k) \in Int
         /\ \A k \in 1..n : SumFirst(f, k) = SumFirst(f, k - 1) + f[k]
<1>1. PICK s \in [0..n -> Int] : s[0] = 0 /\ \A k \in 1..n : s[k] = s[k - 1] + f[k]
  BY SumExists
<1>2. ASSUME NEW m \in 0..n PROVE SumFirst(f, m) = s[m]
  <2>1. m \in Nat /\ \A k \in 1..m : f[k] \in Int
    OBVIOUS
  <2>2. PICK t \in [0..m -> Int] : t[0] = 0 /\ (\A k \in 1..m : t[k] = t[k - 1] + f[k]) /\ SumFirst(f, m) = t[m]
    BY <2>1, SumExists
  <2> DEFINE T == {k \in 0..m : t[k] = s[k]}
  <2>3. 0 \in T /\ (\A k \in 1..m : k - 1 \in T => k \in T) /\ T \subseteq 0..m
    BY <1>1, <2>2
  <2> HIDE DEF T
  <2>4. \A k \in 0..m : k \in T
    BY <2>1, <2>3, CountingUp
  <2> QED
    BY <2>1, <2>2, <2>4 DEF T
<1> QED
  BY <1>1, <1>2

LEMMA SumIsInt ==
  ASSUME NEW n \in Nat, NEW f, \A k \in 1..n : f[k] \in Int
  PROVE  SumFirst(f, n) \in Int
BY SumSteps

LEMMA SumScaled ==
  ASSUME NEW n \in Nat, NEW a, NEW b, NEW d \in Int,
         \A k \in 1..n : a[k] \in Int /\ b[k] \in Int /\ a[k] * d = b[k]
  PROVE  SumFirst(a, n) * d = SumFirst(b, n)
<1> DEFINE T == {k \in 0..n : SumFirst(a, k) * d = SumFirst(b, k)}
<1>1. 0 \in T
  BY SumSteps
<1>2. ASSUME NEW k \in 1..n, k - 1 \in T PROVE k \in T
  <2>1. SumFirst(a, k) = SumFirst(a, k - 1) + a[k] /\ SumFirst(b, k) = SumFirst(b, k - 1) + b[k]
    BY SumSteps
  <2>2. SumFirst(a, k - 1) \in Int /\ SumFirst(b, k - 1) \in Int
    BY SumSteps
  <2>3. SumFirst(a, k - 1) * d = SumFirst(b, k - 1) /\ a[k] * d = b[k] /\ a[k] \in Int /\ b[k] \in Int
    BY <1>2
  <2>4. SumFirst(a, k) * d = SumFirst(b, k)
    BY <2>1, <2>2, <2>3
  <2> QED
    BY <2>4
<1>3. T \subseteq 0..n
  OBVIOUS
<1> HIDE DEF T
<1>4. \A k \in 0..n : k \in T
  BY <1>1, <1>2, <1>3, CountingUp
<1> QED
  BY <1>4 DEF T

LEMMA SumSame ==
  ASSUME NEW n \in Nat, NEW a, NEW b, \A k \in 1..n : a[k] \in Int /\ a[k] = b[k]
  PROVE  SumFirst(a, n) = SumFirst(b, n)
<1>1. \A k \in 1..n : a[k] \in Int /\ b[k] \in Int /\ a[k] * 1 = b[k]
  OBVIOUS
<1>2. SumFirst(a, n) * 1 = SumFirst(b, n)
  BY <1>1, SumScaled
<1>3. SumFirst(a, n) \in Int
  BY <1>1, SumSteps
<1> QED
  BY <1>2, <1>3

LEMMA SumConstant ==
  ASSUME NEW n \in Nat, NEW f, NEW x \in Int, \A k \in 1..n : f[k] = x
  PROVE  SumFirst(f, n) = x * n
<1> DEFINE T == {k \in 0..n : SumFirst(f, k) = x * k}
<1>1. 0 \in T
  BY SumSteps
<1>2. ASSUME NEW k \in 1..n, k - 1 \in T PROVE k \in T
  <2>1. SumFirst(f, k) = SumFirst(f, k - 1) + x
    BY SumSteps
  <2>2. SumFirst(f, k - 1) = x * (k - 1)
    BY <1>2
  <2>3. x * (k - 1) + x = x * k
    OBVIOUS
  <2> QED
    BY <2>1, <2>2, <2>3
<1>3. T \subseteq 0..n
  OBVIOUS
<1> HIDE DEF T
<1>4. \A k \in 0..n : k \in T
  BY <1>1, <1>2, <1>3, CountingUp
<1> QED
  BY <1>4 DEF T

LEMMA SumWithout ==
  ASSUME NEW n \in Nat, n > 0, NEW f, NEW g, NEW j \in 1..n, \A k \in 1..n : f[k] \in Int,
         \A k \in 1..(n - 1) : g[k] = IF k < j THEN f[k] ELSE f[k + 1]
  PROVE  SumFirst(f, n) = SumFirst(g, n - 1) + f[j]
<1> DEFINE T == {k \in 0..n : IF k < j THEN SumFirst(f, k) = SumFirst(g, k) ELSE SumFirst(f, k) = SumFirst(g, k - 1) + f[j]}
<1>0. n - 1 \in Nat /\ \A k \in 1..(n - 1) : g[k] \in Int
  OBVIOUS
<1>1. /\ SumFirst(f, 0) = 0 /\ \A k \in 0..n : SumFirst(f, k) \in Int
      /\ \A k \in 1..n : SumFirst(f, k) = SumFirst(f, k - 1) + f[k]
  BY SumSteps
<1>2. /\ SumFirst(g, 0) = 0 /\ \A k \in 0..(n - 1) : SumFirst(g, k) \in Int
      /\ \A k \in 1..(n - 1) : SumFirst(g, k) = SumFirst(g, k - 1) + g[k]
  BY <1>0, SumSteps
<1>3. 0 \in T
  BY <1>1, <1>2
<1>4. ASSUME NEW k \in 1..n, k - 1 \in T PROVE k \in T
  <2>0. SumFirst(f, k) = SumFirst(f, k - 1) + f[k]
    BY <1>1
  <2>1. CASE k < j
    <3>1. k \in 1..(n - 1) /\ g[k] = f[k] /\ SumFirst(f, k - 1) = SumFirst(g, k - 1)
      BY <1>4, <2>1
    <3> QED
      BY <1>2, <2>0, <2>1, <3>1
  <2>2. CASE k = j
    <3>1. SumFirst(f, k - 1) = SumFirst(g, k - 1)
      BY <1>4, <2>2
    <3> QED
      BY <2>0, <2>2, <3>1
  <2>3. CASE k > j
    <3>1. k - 1 \in 1..(n - 1) /\ g[k - 1] = f[k] /\ SumFirst(f, k - 1) = SumFirst(g, k - 1 - 1) + f[j]
      BY <1>4, <2>3
    <3>2. SumFirst(g, k - 1) = SumFirst(g, k - 1 - 1) + g[k - 1] /\ SumFirst(g, k - 1 - 1) \in Int
      BY <1>2, <3>1
    <3>3. SumFirst(f, k) = SumFirst(g, k - 1) + f[j]
      BY <2>0, <3>1, <3>2
    <3> QED
      BY <2>3, <3>3
  <2> QED
    BY <2>1, <2>2, <2>3
<1>5. T \subseteq 0..n
  OBVIOUS
<1> HIDE DEF T
<1>6. \A k \in 0..n : k \in T
  BY <1>3, <1>4, <1>5, CountingUp
<1> QED
  BY <1>6 DEF T

(* The same items in two orders have the same sum. *)
InOrder(p, n, S) == p \in [1..n -> S] /\ \A i, j \in 1..n : p[i] = p[j] => i = j
Reached(p, n) == {p[k] : k \in 1..n}
Along(v, p, n) == [k \in 1..n |-> v[p[k]]]
Dropping(w, p, n, j) == j \in 1..n /\ w = [k \in 1..(n - 1) |-> IF k < j THEN p[k] ELSE p[k + 1]]

LEMMA OrderDropping ==
  ASSUME NEW n \in Nat, n > 0, NEW S, NEW p, InOrder(p, n, S), NEW at, NEW w, Dropping(w, p, n, at)
  PROVE  InOrder(w, n - 1, S) /\ Reached(w, n - 1) = Reached(p, n) \ {p[at]}
<1>1. PICK j \in 1..n : j = at
  BY DEF Dropping
<1>2. w = [k \in 1..(n - 1) |-> IF k < j THEN p[k] ELSE p[k + 1]]
  BY <1>1 DEF Dropping
<1>3. ASSUME NEW k \in 1..(n - 1) PROVE w[k] = (IF k < j THEN p[k] ELSE p[k + 1]) /\ w[k] \in S
  BY <1>2 DEF InOrder
<1>4. w \in [1..(n - 1) -> S]
  BY <1>2, <1>3
<1>5. ASSUME NEW i \in 1..(n - 1), NEW k \in 1..(n - 1), w[i] = w[k] PROVE i = k
  <2>1. PICK a \in 1..n : w[i] = p[a] /\ a = IF i < j THEN i ELSE i + 1
    BY <1>3
  <2>2. PICK b \in 1..n : w[k] = p[b] /\ b = IF k < j THEN k ELSE k + 1
    BY <1>3
  <2>3. a = b
    BY <1>5, <2>1, <2>2 DEF InOrder
  <2> QED
    BY <2>1, <2>2, <2>3
<1>6. InOrder(w, n - 1, S)
  BY <1>4, <1>5 DEF InOrder
<1>7. ASSUME NEW k \in 1..(n - 1) PROVE w[k] \in {p[i] : i \in 1..n} \ {p[j]}
  <2>1. PICK a \in 1..n : w[k] = p[a] /\ a = IF k < j THEN k ELSE k + 1
    BY <1>3
  <2>2. a # j
    BY <2>1
  <2>3. p[a] # p[j]
    BY <2>2 DEF InOrder
  <2> QED
    BY <2>1, <2>3
<1>8. ASSUME NEW i \in 1..n, p[i] # p[j] PROVE \E k \in 1..(n - 1) : w[k] = p[i]
  <2>1. i # j
    BY <1>8
  <2>2. CASE i < j
    <3>1. i \in 1..(n - 1) /\ w[i] = p[i]
      BY <1>3, <2>2
    <3> QED
      BY <3>1
  <2>3. CASE i > j
    <3>1. i - 1 \in 1..(n - 1) /\ ~(i - 1 < j)
      BY <2>3
    <3>2. w[i - 1] = p[i - 1 + 1] /\ i - 1 + 1 = i
      BY <1>3, <3>1
    <3> QED
      BY <3>1, <3>2
  <2> QED
    BY <2>1, <2>2, <2>3
<1>9. Reached(w, n - 1) = Reached(p, n) \ {p[j]}
  BY <1>7, <1>8 DEF Reached
<1> QED
  BY <1>1, <1>6, <1>9

LEMMA Permuted ==
  ASSUME NEW n \in Nat, NEW S, NEW v, \A x \in S : v[x] \in Int,
         NEW p, NEW q, InOrder(p, n, S), InOrder(q, n, S), Reached(p, n) = Reached(q, n)
  PROVE  SumFirst(Along(v, p, n), n) = SumFirst(Along(v, q, n), n)
<1> DEFINE Same(a, b, m) == Reached(a, m) = Reached(b, m)
           T == {m \in 0..n : \A a, b : (InOrder(a, m, S) /\ InOrder(b, m, S) /\ Same(a, b, m))
                                => SumFirst(Along(v, a, m), m) = SumFirst(Along(v, b, m), m)}
<1>0. ASSUME NEW m \in Nat, NEW a, InOrder(a, m, S)
      PROVE  \A k \in 1..m : Along(v, a, m)[k] = v[a[k]] /\ v[a[k]] \in Int
  BY <1>0 DEF InOrder, Along
<1>1. 0 \in T
  <2>1. ASSUME NEW a PROVE SumFirst(Along(v, a, 0), 0) = 0
    <3>1. PICK f : f = Along(v, a, 0)
      OBVIOUS
    <3>2. 0 \in Nat /\ \A k \in 1..0 : f[k] \in Int
      OBVIOUS
    <3>3. SumFirst(f, 0) = 0
      BY <3>2, SumSteps
    <3> QED
      BY <3>1, <3>3
  <2> QED
    BY <2>1
<1>2. ASSUME NEW m \in 1..n, m - 1 \in T PROVE m \in T
  <2>1. ASSUME NEW a, NEW b, InOrder(a, m, S), InOrder(b, m, S), Same(a, b, m)
        PROVE  SumFirst(Along(v, a, m), m) = SumFirst(Along(v, b, m), m)
    <3>0. m \in Nat /\ m > 0 /\ m \in 1..m /\ m - 1 \in Nat
      OBVIOUS
    <3>1. PICK j \in 1..m : b[j] = a[m]
      BY <2>1, <3>0 DEF Reached
    <3>2. PICK f : f = Along(v, a, m)
      OBVIOUS
    <3>3. PICK g : g = Along(v, b, m)
      OBVIOUS
    <3>4. PICK c : Dropping(c, a, m, m)
      BY <3>0 DEF Dropping
    <3>5. PICK d : Dropping(d, b, m, j)
      BY <3>1 DEF Dropping
    <3>6. InOrder(c, m - 1, S) /\ Reached(c, m - 1) = Reached(a, m) \ {a[m]}
      <4>1. InOrder(a, m, S)
        BY <2>1
      <4> QED
        BY <3>0, <3>4, <4>1, OrderDropping
    <3>7. InOrder(d, m - 1, S) /\ Reached(d, m - 1) = Reached(b, m) \ {b[j]}
      <4>1. InOrder(b, m, S)
        BY <2>1
      <4> QED
        BY <3>0, <3>5, <4>1, OrderDropping
    <3>8. Same(c, d, m - 1)
      BY <2>1, <3>1, <3>6, <3>7
    <3>9. PICK fc : fc = Along(v, c, m - 1)
      OBVIOUS
    <3>10. PICK gd : gd = Along(v, d, m - 1)
      OBVIOUS
    <3>11. SumFirst(fc, m - 1) = SumFirst(gd, m - 1)
      <4> HIDE DEF Same
      <4> QED
        BY <1>2, <3>6, <3>7, <3>8, <3>9, <3>10
    <3>12. \A k \in 1..m : f[k] = v[a[k]] /\ f[k] \in Int
      BY <1>0, <2>1, <3>0, <3>2
    <3>13. \A k \in 1..m : g[k] = v[b[k]] /\ g[k] \in Int
      BY <1>0, <2>1, <3>0, <3>3
    <3>14. \A k \in 1..(m - 1) : fc[k] = IF k < m THEN f[k] ELSE f[k + 1]
      <4>1. \A k \in 1..(m - 1) : fc[k] = v[c[k]]
        BY <1>0, <3>0, <3>6, <3>9
      <4>2. \A k \in 1..(m - 1) : c[k] = IF k < m THEN a[k] ELSE a[k + 1]
        BY <3>4 DEF Dropping
      <4> QED
        BY <3>12, <4>1, <4>2
    <3>15. \A k \in 1..(m - 1) : gd[k] = IF k < j THEN g[k] ELSE g[k + 1]
      <4>1. \A k \in 1..(m - 1) : gd[k] = v[d[k]]
        BY <1>0, <3>0, <3>7, <3>10
      <4>2. \A k \in 1..(m - 1) : d[k] = IF k < j THEN b[k] ELSE b[k + 1]
        BY <3>5 DEF Dropping
      <4> QED
        BY <3>13, <4>1, <4>2
    <3>16. \A k \in 1..m : f[k] \in Int
      BY <3>12
    <3>17. \A k \in 1..m : g[k] \in Int
      BY <3>13
    <3>18. SumFirst(f, m) = SumFirst(fc, m - 1) + f[m]
      BY <3>0, <3>14, <3>16, SumWithout
    <3>19. SumFirst(g, m) = SumFirst(gd, m - 1) + g[j]
      BY <3>0, <3>15, <3>17, SumWithout
    <3>20. f[m] = g[j]
      BY <3>0, <3>1, <3>12, <3>13
    <3> QED
      BY <3>2, <3>3, <3>11, <3>18, <3>19, <3>20
  <2> HIDE DEF Same
  <2> QED
    BY <2>1
<1>3. T \subseteq 0..n
  OBVIOUS
<1>4. n \in 0..n
  OBVIOUS
<1>5. Same(p, q, n)
  OBVIOUS
<1> HIDE DEF T, Same
<1>6. \A k \in 0..n : k \in T
  BY <1>1, <1>2, <1>3, CountingUp
<1> QED
  BY <1>4, <1>5, <1>6 DEF T

-----------------------------------------------------------------------------
(* Children.                                                                 *)
Children(parent) == {item \in Items : ParentOf[item] = parent}
\* s has the items of T, each once.
Lists(s, T) ==
  s \in Seq(Items) /\ (\A i, j \in 1..Len(s) : s[i] = s[j] => i = j) /\ \A x : (x \in T <=> \E k \in 1..Len(s) : s[k] = x)

LEMMA ListsMore ==
  ASSUME NEW s, NEW T, Lists(s, T), NEW x \in Items, x \notin T
  PROVE  Lists(Append(s, x), T \cup {x})
<1>1. PICK more : more = Append(s, x)
  OBVIOUS
<1>2. s \in Seq(Items)
  BY DEF Lists
<1>3. PICK n \in Nat : n = Len(s)
  BY <1>2
<1>4. more \in Seq(Items) /\ Len(more) = n + 1 /\ more[n + 1] = x /\ \A k \in 1..n : more[k] = s[k]
  BY <1>1, <1>2, <1>3
<1>5. \A k \in 1..n : s[k] \in T
  BY <1>3 DEF Lists
<1>6. ASSUME NEW i \in 1..(n + 1), NEW j \in 1..(n + 1), more[i] = more[j] PROVE i = j
  <2>1. CASE i = n + 1 /\ j = n + 1
    BY <2>1
  <2>2. CASE i = n + 1 /\ j # n + 1
    <3>1. j \in 1..n
      BY <2>2
    <3> QED
      BY <1>4, <1>5, <1>6, <2>2, <3>1
  <2>3. CASE i # n + 1 /\ j = n + 1
    <3>1. i \in 1..n
      BY <2>3
    <3> QED
      BY <1>4, <1>5, <1>6, <2>3, <3>1
  <2>4. CASE i # n + 1 /\ j # n + 1
    <3>1. i \in 1..n /\ j \in 1..n
      BY <2>4
    <3>2. s[i] = s[j]
      BY <1>4, <1>6, <3>1
    <3> QED
      BY <1>3, <3>1, <3>2 DEF Lists
  <2> QED
    BY <2>1, <2>2, <2>3, <2>4
<1>7. ASSUME NEW y, y \in T \cup {x} PROVE \E k \in 1..(n + 1) : more[k] = y
  <2>1. CASE y = x
    <3>1. n + 1 \in 1..(n + 1)
      OBVIOUS
    <3> QED
      BY <1>4, <2>1, <3>1
  <2>2. CASE y \in T
    <3>1. PICK k \in 1..n : s[k] = y
      BY <1>3, <2>2 DEF Lists
    <3>2. k \in 1..(n + 1) /\ more[k] = y
      BY <1>4, <3>1
    <3> QED
      BY <3>2
  <2> QED
    BY <1>7, <2>1, <2>2
<1>8. ASSUME NEW k \in 1..(n + 1) PROVE more[k] \in T \cup {x}
  <2>1. CASE k = n + 1
    BY <1>4, <2>1
  <2>2. CASE k # n + 1
    <3>1. k \in 1..n
      BY <2>2
    <3> QED
      BY <1>4, <1>5, <3>1
  <2> QED
    BY <2>1, <2>2
<1>9. Lists(more, T \cup {x})
  <2>1. \A y : (y \in T \cup {x} <=> \E k \in 1..Len(more) : more[k] = y)
    BY <1>4, <1>7, <1>8
  <2>2. \A i, j \in 1..Len(more) : more[i] = more[j] => i = j
    BY <1>4, <1>6
  <2> QED
    BY <1>4, <2>1, <2>2 DEF Lists
<1> QED
  BY <1>1, <1>9

\* t holds the children among the first 0, 1, .. l items.
Collects(t, l, parent) ==
  /\ t \in [0..l -> Seq(Items)] /\ t[0] = <<>>
  /\ \A k \in 1..l : t[k] = IF ParentOf[SortOrder[k]] = parent THEN Append(t[k - 1], SortOrder[k]) ELSE t[k - 1]

LEMMA ChildrenExist ==
  ASSUME NEW parent
  PROVE  \E t : Collects(t, Len(SortOrder), parent) /\ _get_children(parent) = t[Len(SortOrder)]
<1>1. PICK n \in Nat : n = Len(SortOrder)
  BY PlanAssumption
<1>2. \A k \in 1..n : SortOrder[k] \in Items
  BY <1>1, PlanAssumption
<1> DEFINE Next(x, k) == IF ParentOf[SortOrder[k]] = parent THEN Append(x, SortOrder[k]) ELSE x
           Solves(s) == s = [k \in 0..n |-> IF k = 0 THEN <<>> ELSE Next(s[k - 1], k)]
           step == [k \in 1..n |-> [x \in Seq(Items) |-> IF ParentOf[SortOrder[k]] = parent THEN Append(x, SortOrder[k]) ELSE x]]
<1> HIDE DEF step, Solves, Next
<1>3. step \in [1..n -> [Seq(Items) -> Seq(Items)]]
  <2>1. ASSUME NEW k \in 1..n
        PROVE  [x \in Seq(Items) |-> IF ParentOf[SortOrder[k]] = parent THEN Append(x, SortOrder[k]) ELSE x] \in [Seq(Items) -> Seq(Items)]
    <3>1. PICK y : y = SortOrder[k]
      OBVIOUS
    <3>2. y \in Items
      BY <1>2, <3>1
    <3>3. ASSUME NEW x \in Seq(Items) PROVE Append(x, y) \in Seq(Items)
      BY <3>2
    <3>4. [x \in Seq(Items) |-> IF ParentOf[y] = parent THEN Append(x, y) ELSE x] \in [Seq(Items) -> Seq(Items)]
      BY <3>3, Zenon
    <3> QED
      BY <3>1, <3>4, Zenon
  <2> QED
    BY <2>1, Zenon DEF step
<1>4. PICK t \in [0..n -> Seq(Items)] : t[0] = <<>> /\ \A k \in 1..n : t[k] = step[k][t[k - 1]]
  <2>1. PICK s, b, st : s = Seq(Items) /\ b = <<>> /\ st = step
    OBVIOUS
  <2>2. b \in s
    BY <2>1
  <2>3. st \in [1..n -> [s -> s]]
    BY <1>3, <2>1
  <2>4. \E g \in [0..n -> s] : Runs(g, n, b, st)
    BY <2>2, <2>3, RecursionExists
  <2> QED
    BY <2>1, <2>4 DEF Runs
<1>5. ASSUME NEW k \in 1..n
      PROVE  t[k] = IF ParentOf[SortOrder[k]] = parent THEN Append(t[k - 1], SortOrder[k]) ELSE t[k - 1]
  <2>1. k - 1 \in 0..n /\ t[k - 1] \in Seq(Items)
    BY <1>4
  <2>2. step[k] = [x \in Seq(Items) |-> IF ParentOf[SortOrder[k]] = parent THEN Append(x, SortOrder[k]) ELSE x]
    BY DEF step
  <2>3. PICK x : x = t[k - 1]
    OBVIOUS
  <2>4. step[k][x] = IF ParentOf[SortOrder[k]] = parent THEN Append(x, SortOrder[k]) ELSE x
    BY <2>1, <2>2, <2>3
  <2>5. t[k] = step[k][t[k - 1]]
    BY <1>4
  <2> QED
    BY <2>3, <2>4, <2>5
<1>6. Solves(t)
  <2>1. \A k \in 1..n : t[k] = Next(t[k - 1], k)
    BY <1>5 DEF Next
  <2> QED
    BY <1>4, <2>1 DEF Solves
<1>7. PICK s : s = CHOOSE u : Solves(u)
  OBVIOUS
<1>8. Solves(s)
  BY <1>6, <1>7
<1>9. _get_children(parent) = s[n]
  BY <1>1, <1>7 DEF _get_children, Solves, Next
<1>10. s[0] = <<>> /\ \A k \in 1..n : s[k] = Next(s[k - 1], k)
  BY <1>8 DEF Solves
<1>11. t[0] = <<>> /\ \A k \in 1..n : t[k] = Next(t[k - 1], k)
  BY <1>4, <1>5 DEF Next
<1>12. \A k \in 0..n : s[k] = t[k]
  <2> DEFINE T == {k \in 0..n : s[k] = t[k]}
  <2>0. 0 \in T
    BY <1>10, <1>11
  <2>1. ASSUME NEW k \in 1..n, k - 1 \in T PROVE k \in T
    <3>1. s[k - 1] = t[k - 1]
      BY <2>1
    <3>2. s[k] = t[k]
      BY <1>10, <1>11, <3>1, Zenon
    <3> QED
      BY <3>2
  <2>2. T \subseteq 0..n
    OBVIOUS
  <2> HIDE DEF T
  <2>3. \A k \in 0..n : k \in T
    BY <2>0, <2>1, <2>2, CountingUp
  <2> QED
    BY <2>3 DEF T
<1>13. _get_children(parent) = t[n]
  BY <1>9, <1>12
<1>14. Collects(t, n, parent)
  BY <1>4, <1>5 DEF Collects
<1> QED
  BY <1>1, <1>13, <1>14

LEMMA ChildrenAre ==
  ASSUME NEW parent
  PROVE  Lists(_get_children(parent), Children(parent))
<1>1. PICK n \in Nat : n = Len(SortOrder) /\ DOMAIN SortOrder = 1..n
  BY PlanAssumption
<1>2. PICK t \in [0..n -> Seq(Items)] :
        /\ t[0] = <<>> /\ _get_children(parent) = t[n]
        /\ \A k \in 1..n : t[k] = IF ParentOf[SortOrder[k]] = parent THEN Append(t[k - 1], SortOrder[k]) ELSE t[k - 1]
  <2>1. PICK t : Collects(t, Len(SortOrder), parent) /\ _get_children(parent) = t[Len(SortOrder)]
    BY ChildrenExist
  <2>2. Collects(t, n, parent) /\ _get_children(parent) = t[n]
    BY <1>1, <2>1
  <2> QED
    BY <2>2 DEF Collects
<1>3. \A k \in 1..n : SortOrder[k] \in Items
  BY <1>1, PlanAssumption
<1>4. \A j, k \in 1..n : SortOrder[j] = SortOrder[k] => j = k
  BY <1>1, PlanAssumption
<1>5. \A x \in Items : \E k \in 1..n : SortOrder[k] = x
  BY <1>1, PlanAssumption
<1> DEFINE Upto(m) == {x \in Children(parent) : \E k \in 1..m : SortOrder[k] = x}
           T == {m \in 0..n : Lists(t[m], Upto(m))}
<1>6. 0 \in T
  <2>1. Upto(0) = {}
    OBVIOUS
  <2>2. Lists(<<>>, {})
    BY DEF Lists
  <2>3. t[0] = <<>>
    BY <1>2
  <2>4. PICK U : U = Upto(0)
    OBVIOUS
  <2>5. Lists(t[0], U)
    BY <2>1, <2>2, <2>3, <2>4
  <2> HIDE DEF Upto
  <2> QED
    BY <2>4, <2>5
<1>7. ASSUME NEW m \in 1..n, m - 1 \in T PROVE m \in T
  <2>1. PICK x \in Items : x = SortOrder[m]
    BY <1>3
  <2>2. PICK s : s = t[m - 1]
    OBVIOUS
  <2>3. Lists(s, Upto(m - 1))
    BY <1>7, <2>2
  <2>4. t[m] = IF ParentOf[x] = parent THEN Append(s, x) ELSE s
    BY <1>2, <2>1, <2>2
  <2>5. CASE ParentOf[x] = parent
    <3>1. x \notin Upto(m - 1)
      <4>1. ASSUME NEW k \in 1..(m - 1) PROVE SortOrder[k] # x
        <5>1. k \in 1..n /\ k # m
          OBVIOUS
        <5> QED
          BY <1>4, <2>1, <5>1
      <4> QED
        BY <4>1
    <3>2. Upto(m) = Upto(m - 1) \cup {x}
      <4>1. x \in Children(parent)
        BY <2>5 DEF Children
      <4>2. ASSUME NEW k \in 1..m PROVE k = m \/ k \in 1..(m - 1)
        OBVIOUS
      <4>3. \A k \in 1..(m - 1) : k \in 1..m
        OBVIOUS
      <4>4. m \in 1..m
        OBVIOUS
      <4> QED
        BY <2>1, <4>1, <4>2, <4>3, <4>4
    <3>3. PICK U : U = Upto(m - 1)
      OBVIOUS
    <3>4. Lists(Append(s, x), U \cup {x})
      BY <2>3, <3>1, <3>3, ListsMore
    <3>5. Lists(t[m], Upto(m))
      BY <2>4, <2>5, <3>2, <3>3, <3>4, Zenon
    <3> QED
      BY <3>5
  <2>6. CASE ParentOf[x] # parent
    <3>1. Upto(m) = Upto(m - 1)
      <4>1. x \notin Children(parent)
        BY <2>6 DEF Children
      <4>2. ASSUME NEW k \in 1..m PROVE k = m \/ k \in 1..(m - 1)
        OBVIOUS
      <4>3. \A k \in 1..(m - 1) : k \in 1..m
        OBVIOUS
      <4> QED
        BY <2>1, <4>1, <4>2, <4>3
    <3>2. Lists(t[m], Upto(m))
      BY <2>3, <2>4, <2>6, <3>1, Zenon
    <3> QED
      BY <3>2
  <2> QED
    BY <2>5, <2>6
<1>8. T \subseteq 0..n
  OBVIOUS
<1>9. Upto(n) = Children(parent)
  BY <1>5 DEF Children
<1> HIDE DEF T, Upto
<1>10. \A m \in 0..n : m \in T
  BY <1>6, <1>7, <1>8, CountingUp
<1>11. Lists(t[n], Upto(n))
  BY <1>10 DEF T
<1> QED
  BY <1>2, <1>9, <1>11

LEMMA ListIsLong ==
  ASSUME NEW s, NEW T, Lists(s, T)
  PROVE  IsFiniteSet(T) /\ Len(s) = Cardinality(T)
<1>1. PICK n \in Nat : n = Len(s)
  BY DEF Lists
<1>2. PICK U : U = {s[k] : k \in 1..n}
  OBVIOUS
<1>3. \A j, k \in 1..n : s[j] = s[k] => j = k
  BY <1>1 DEF Lists
<1>4. IsFiniteSet(U) /\ Cardinality(U) = n
  BY <1>2, <1>3, ManyDistinct
<1>5. U = T
  BY <1>1, <1>2 DEF Lists
<1> QED
  BY <1>1, <1>4, <1>5

LEMMA AnyOrder ==
  ASSUME NEW parent, NEW s \in SetToSeqs(Children(parent))
  PROVE  Lists(s, Children(parent))
<1>1. PICK T : T = Children(parent)
  OBVIOUS
<1>2. IsFiniteSet(T)
  BY <1>1, ChildrenAre, ListIsLong
<1>3. PICK n \in Nat : n = Cardinality(T)
  BY <1>2, FS_CardinalityType
<1>4. s \in [1..n -> T] /\ \A i, j \in 1..n : i # j => s[i] # s[j]
  BY <1>1, <1>3 DEF SetToSeqs
<1>5. T \subseteq Items
  BY <1>1 DEF Children
<1>6. s \in Seq(Items) /\ Len(s) = n
  <2>1. s \in [1..n -> Items]
    BY <1>4, <1>5
  <2> QED
    BY <2>1
<1>7. PICK U : U = {s[k] : k \in 1..n}
  OBVIOUS
<1>8. Cardinality(U) = n
  <2>1. \A j, k \in 1..n : s[j] = s[k] => j = k
    BY <1>4
  <2> QED
    BY <1>7, <2>1, ManyDistinct
<1>9. U = T
  <2>1. U \in SUBSET T
    BY <1>4, <1>7
  <2> QED
    BY <1>2, <1>3, <1>8, <2>1, FS_Subset
<1>10. \A x : (x \in T <=> \E k \in 1..Len(s) : s[k] = x)
  BY <1>6, <1>7, <1>9
<1>11. \A i, j \in 1..Len(s) : s[i] = s[j] => i = j
  BY <1>4, <1>6
<1>12. Lists(s, T)
  BY <1>6, <1>10, <1>11 DEF Lists
<1> QED
  BY <1>1, <1>12

LEMMA SameSum ==
  ASSUME NEW T, NEW v, \A x \in T : v[x] \in Int, NEW s, NEW u, Lists(s, T), Lists(u, T), NEW n \in Nat, n = Len(s)
  PROVE  Len(u) = n /\ SumFirst(Along(v, s, n), n) = SumFirst(Along(v, u, n), n)
<1>1. Len(u) = n
  BY ListIsLong
<1>2. s \in Seq(Items) /\ u \in Seq(Items)
  BY DEF Lists
<1>3. InOrder(s, n, T)
  <2>1. \A k \in 1..n : s[k] \in T
    BY DEF Lists
  <2>2. s \in [1..n -> T]
    BY <1>2, <2>1
  <2> QED
    BY <2>2 DEF Lists, InOrder
<1>4. InOrder(u, n, T)
  <2>1. \A k \in 1..n : u[k] \in T
    BY <1>1 DEF Lists
  <2>2. u \in [1..n -> T]
    BY <1>1, <1>2, <2>1
  <2> QED
    BY <1>1, <2>2 DEF Lists, InOrder
<1>5. Reached(s, n) = T
  BY DEF Lists, Reached
<1>6. Reached(u, n) = T
  BY <1>1 DEF Lists, Reached
<1>7. Reached(s, n) = Reached(u, n)
  BY <1>5, <1>6
<1>8. SumFirst(Along(v, s, n), n) = SumFirst(Along(v, u, n), n)
  BY <1>3, <1>4, <1>7, Permuted
<1> QED
  BY <1>1, <1>8

LEMMA DepthsAre ==
  ASSUME Acyclic
  PROVE  /\ \A item \in Items : _get_depth[item] \in Nat
         /\ \A item \in Items : ParentOf[item] # NoItem => _get_depth[item] = 1 + _get_depth[ParentOf[item]]
<1>1. PICK n \in Nat : n = Len(SortOrder)
  BY PlanAssumption
<1>2. PICK depth \in [Items -> 0..n] : HasDepths(depth)
  BY <1>1 DEF Acyclic
<1>3. \A item \in Items : ParentOf[item] # NoItem => ParentOf[item] \in Items
  BY PlanAssumption
<1> DEFINE Solves(f) == f = [item \in Items |-> IF ParentOf[item] = NoItem THEN 0 ELSE 1 + f[ParentOf[item]]]
<1> HIDE DEF Solves
<1>4. Solves(depth)
  BY <1>2 DEF Solves, HasDepths
<1>5. PICK s : s = CHOOSE f : Solves(f)
  OBVIOUS
<1>6. Solves(s)
  BY <1>4, <1>5
<1>7. _get_depth = s
  BY <1>5 DEF _get_depth, Solves
<1>8. \A item \in Items : s[item] = IF ParentOf[item] = NoItem THEN 0 ELSE 1 + s[ParentOf[item]]
  BY <1>6 DEF Solves
<1> DEFINE T == {k \in 0..n : \A item \in Items : depth[item] <= k => s[item] = depth[item]}
<1>9. ASSUME NEW item \in Items
      PROVE  depth[item] \in Nat /\ depth[item] = IF ParentOf[item] = NoItem THEN 0 ELSE 1 + depth[ParentOf[item]]
  BY <1>2 DEF HasDepths
<1>10. 0 \in T
  <2>1. ASSUME NEW item \in Items, depth[item] <= 0 PROVE s[item] = depth[item]
    <3>1. ParentOf[item] = NoItem
      <4>1. SUFFICES ASSUME ParentOf[item] # NoItem PROVE FALSE
        OBVIOUS
      <4>2. ParentOf[item] \in Items
        BY <1>3, <4>1
      <4>3. depth[ParentOf[item]] \in Nat /\ depth[item] = 1 + depth[ParentOf[item]]
        BY <1>9, <4>1, <4>2
      <4> QED
        BY <2>1, <4>3
    <3> QED
      BY <1>8, <1>9, <3>1
  <2> QED
    BY <2>1
<1>11. ASSUME NEW k \in 1..n, k - 1 \in T PROVE k \in T
  <2>1. ASSUME NEW item \in Items, depth[item] <= k PROVE s[item] = depth[item]
    <3>1. CASE ParentOf[item] = NoItem
      BY <1>8, <1>9, <3>1
    <3>2. CASE ParentOf[item] # NoItem
      <4>1. PICK above \in Items : above = ParentOf[item]
        BY <1>3, <3>2
      <4>2. depth[above] \in Nat /\ depth[item] = 1 + depth[above]
        BY <1>9, <3>2, <4>1
      <4>3. depth[above] <= k - 1
        BY <2>1, <4>2
      <4>4. s[above] = depth[above]
        BY <1>11, <4>3
      <4>5. s[item] = 1 + s[above]
        BY <1>8, <3>2, <4>1
      <4> QED
        BY <4>2, <4>4, <4>5
    <3> QED
      BY <3>1, <3>2
  <2> QED
    BY <2>1
<1>12. T \subseteq 0..n
  OBVIOUS
<1>13. \A k \in 0..n : k \in T
  <2> HIDE DEF T
  <2> QED
    BY <1>10, <1>11, <1>12, CountingUp
<1>14. ASSUME NEW item \in Items PROVE s[item] = depth[item]
  <2>1. n \in T /\ depth[item] <= n
    BY <1>2, <1>13
  <2> QED
    BY <2>1
<1>15. \A item \in Items : s[item] \in Nat
  BY <1>9, <1>14
<1> QED
  BY <1>7, <1>8, <1>15

-----------------------------------------------------------------------------
(* Shares.                                                                   *)
LEMMA SumNotNegative ==
  ASSUME NEW n \in Nat, NEW f, \A k \in 1..n : f[k] \in Nat
  PROVE  SumFirst(f, n) \in Nat
<1> DEFINE T == {k \in 0..n : SumFirst(f, k) \in Nat}
<1>0. \A k \in 1..n : f[k] \in Int
  OBVIOUS
<1>1. 0 \in T
  BY <1>0, SumSteps
<1>2. ASSUME NEW k \in 1..n, k - 1 \in T PROVE k \in T
  <2>1. SumFirst(f, k) = SumFirst(f, k - 1) + f[k]
    BY <1>0, SumSteps
  <2>2. SumFirst(f, k - 1) \in Nat /\ f[k] \in Nat
    BY <1>2
  <2> QED
    BY <2>1, <2>2
<1>3. T \subseteq 0..n
  OBVIOUS
<1> HIDE DEF T
<1>4. \A k \in 0..n : k \in T
  BY <1>1, <1>2, <1>3, CountingUp
<1> QED
  BY <1>4 DEF T

Shared(shares, n, total) ==
  /\ shares.den \in Nat \ {0} /\ shares.nums \in [1..n -> Int]
  /\ SumFirst(shares.nums, n) = total * shares.den

LEMMA ExactQuotient ==
  ASSUME NEW d \in Nat \ {0}, NEW x \in Int, x % d = 0
  PROVE  x \div d \in Int /\ (x \div d) * d = x
  BY SMTT(60)

LEMMA SharedWhole ==
  ASSUME NEW n \in Nat, NEW total \in Int, NEW shares, Shared(shares, n, total), Whole(shares),
         NEW values, \A k \in 1..n : values[k] = shares.nums[k] \div shares.den
  PROVE  SumFirst(values, n) = total
<1>1. PICK den \in Nat \ {0} : den = shares.den
  BY DEF Shared
<1>2. PICK nums \in [1..n -> Int] : nums = shares.nums
  BY DEF Shared
<1>3. ASSUME NEW k \in 1..n PROVE values[k] \in Int /\ values[k] * den = nums[k]
  <2>1. PICK x \in Int : x = nums[k]
    BY <1>2
  <2>2. x % den = 0
    BY <1>1, <1>2, <2>1 DEF Whole
  <2>3. (x \div den) \in Int /\ (x \div den) * den = x
    BY <2>2, ExactQuotient
  <2>4. values[k] = x \div den
    BY <1>1, <1>2, <2>1
  <2> QED
    BY <2>1, <2>3, <2>4
<1>4. \A k \in 1..n : values[k] \in Int
  BY <1>3
<1>5. \A k \in 1..n : values[k] \in Int /\ nums[k] \in Int /\ values[k] * den = nums[k]
  BY <1>2, <1>3
<1>6. SumFirst(values, n) * den = SumFirst(nums, n)
  BY <1>5, SumScaled
<1>7. PICK sum \in Int : sum = SumFirst(values, n)
  <2>1. SumFirst(values, n) \in Int
    BY <1>4, SumIsInt, Zenon
  <2> QED
    BY <2>1
<1>8. sum * den = total * den
  BY <1>1, <1>2, <1>6, <1>7 DEF Shared
<1>9. sum = total
  BY <1>8
<1> QED
  BY <1>7, <1>9

LEMMA EvenlyShared ==
  ASSUME NEW n \in Nat \ {0}, NEW total \in Int
  PROVE  Shared(Evenly(n, total), n, total)
<1>1. PICK nums : nums = [i \in 1..n |-> total]
  OBVIOUS
<1>2. PICK shares : shares = Evenly(n, total)
  OBVIOUS
<1>3. shares.den = n /\ shares.nums = nums
  BY <1>1, <1>2 DEF Evenly
<1>4. \A k \in 1..n : nums[k] = total
  BY <1>1
<1>5. SumFirst(nums, n) = total * n
  BY <1>4, SumConstant
<1>6. nums \in [1..n -> Int]
  BY <1>1
<1> QED
  BY <1>2, <1>3, <1>5, <1>6 DEF Shared

LEMMA ProportionalShared ==
  ASSUME NEW n \in Nat \ {0}, NEW total \in Int, NEW existing \in Seq(Int), Len(existing) = n,
         NEW p, p = compute_proportions(existing)
  PROVE  Shared([p EXCEPT !.nums = [i \in 1..n |-> total * @[i]]], n, total)
<1>1. PICK sizes : sizes = [i \in DOMAIN existing |-> AbsOf(existing[i])]
  OBVIOUS
<1>2. DOMAIN existing = 1..n /\ \A k \in 1..n : existing[k] \in Int
  OBVIOUS
<1>3. \A k \in 1..n : sizes[k] \in Nat
  BY <1>1, <1>2 DEF AbsOf
<1>4. sizes \in Seq(Nat) /\ Len(sizes) = n
  <2>1. sizes \in [1..n -> Nat]
    BY <1>1, <1>2, <1>3
  <2> QED
    BY <2>1
<1>5. PICK sum \in Nat : sum = SumFirst(sizes, n)
  BY <1>3, SumNotNegative
<1>6. SumOf(sizes) = sum
  BY <1>4, <1>5 DEF SumOf
<1>7. p = IF sum = 0 THEN [den |-> n, nums |-> [i \in DOMAIN existing |-> 1]] ELSE [den |-> sum, nums |-> sizes]
  BY <1>1, <1>6 DEF compute_proportions
<1>8. PICK nums : nums = [i \in 1..n |-> total * p.nums[i]]
  OBVIOUS
<1>9. PICK shares : shares = [p EXCEPT !.nums = [i \in 1..n |-> total * @[i]]]
  OBVIOUS
<1>10. shares.den = p.den /\ shares.nums = nums
  BY <1>7, <1>8, <1>9
<1>11. CASE sum = 0
  <2>1. p.den = n /\ \A k \in 1..n : p.nums[k] = 1
    BY <1>2, <1>7, <1>11
  <2>2. \A k \in 1..n : nums[k] = total
    BY <1>8, <2>1
  <2>3. SumFirst(nums, n) = total * n
    BY <2>2, SumConstant
  <2>4. nums \in [1..n -> Int]
    BY <1>8, <2>2
  <2> QED
    BY <1>9, <1>10, <2>1, <2>3, <2>4 DEF Shared
<1>12. CASE sum # 0
  <2>1. p.den = sum /\ p.nums = sizes
    BY <1>7, <1>12
  <2>2. ASSUME NEW k \in 1..n PROVE sizes[k] \in Int /\ nums[k] \in Int /\ sizes[k] * total = nums[k]
    <3>1. PICK x \in Nat : x = sizes[k]
      BY <1>3
    <3>2. nums[k] = total * x
      BY <1>8, <2>1, <3>1
    <3>3. total * x \in Int /\ x * total = total * x
      OBVIOUS
    <3> QED
      BY <3>1, <3>2, <3>3
  <2>3. SumFirst(sizes, n) * total = SumFirst(nums, n)
    BY <2>2, SumScaled
  <2>4. SumFirst(nums, n) = total * sum
    BY <1>5, <2>3
  <2>5. nums \in [1..n -> Int]
    BY <1>8, <2>2
  <2> QED
    BY <1>9, <1>10, <1>12, <2>1, <2>4, <2>5 DEF Shared
<1> QED
  BY <1>11, <1>12

LEMMA WeightedShared ==
  ASSUME NEW n \in Nat \ {0}, NEW total \in Int, NEW weights \in Seq(Int), Len(weights) = n, SumOf(weights) # 0,
         NEW sign, sign = IF SumOf(weights) < 0 THEN -1 ELSE 1
  PROVE  Shared([den |-> sign * SumOf(weights), nums |-> [i \in 1..n |-> total * (sign * weights[i])]], n, total)
<1>1. \A k \in 1..n : weights[k] \in Int
  OBVIOUS
<1>2. PICK sum \in Int : sum = SumOf(weights)
  BY <1>1, SumSteps DEF SumOf
<1>3. PICK s \in Int : s = sign /\ s * sum > 0
  BY <1>2
<1>4. PICK nums : nums = [i \in 1..n |-> total * (s * weights[i])]
  OBVIOUS
<1>5. PICK t \in Int : t = total * s
  OBVIOUS
<1>6. ASSUME NEW k \in 1..n PROVE weights[k] \in Int /\ nums[k] \in Int /\ weights[k] * t = nums[k]
  <2>1. PICK x \in Int : x = weights[k]
    BY <1>1
  <2>2. nums[k] = total * (s * x)
    BY <1>4, <2>1
  <2>3. total * (s * x) \in Int /\ x * (total * s) = total * (s * x)
    OBVIOUS
  <2> QED
    BY <1>5, <2>1, <2>2, <2>3
<1>7. SumFirst(weights, n) * t = SumFirst(nums, n)
  BY <1>6, SumScaled
<1>8. SumFirst(nums, n) = sum * (total * s)
  BY <1>2, <1>5, <1>7 DEF SumOf
<1>9. sum * (total * s) = total * (s * sum)
  OBVIOUS
<1>10. nums \in [1..n -> Int]
  BY <1>4, <1>6
<1>11. PICK den \in Nat \ {0} : den = s * sum
  BY <1>3
<1>12. PICK shares : shares = [den |-> den, nums |-> nums]
  OBVIOUS
<1>13. Shared(shares, n, total)
  <2>1. shares.den = den /\ shares.nums = nums
    BY <1>12
  <2>2. SumFirst(nums, n) = total * den
    BY <1>8, <1>9, <1>11
  <2> QED
    BY <1>10, <2>1, <2>2 DEF Shared
<1>14. shares = [den |-> sign * SumOf(weights), nums |-> [i \in 1..n |-> total * (sign * weights[i])]]
  BY <1>2, <1>3, <1>4, <1>11, <1>12
<1> QED
  BY <1>13, <1>14

LEMMA SpreadShared ==
  ASSUME NEW n \in Nat \ {0}, NEW total \in Int, NEW method \in Methods, method # "manual",
         NEW weights \in Seq(Int), NEW existing \in Seq(Int), Len(existing) = n, ~SpreadRaises(n, method, weights)
  PROVE  Shared(spread_value(total, n, method, weights, existing), n, total)
<1>1. method \in {"even", "proportional", "weighted"}
  BY DEF Methods
<1>2. CASE method = "even"
  <2>1. spread_value(total, n, method, weights, existing) = Evenly(n, total)
    BY <1>2 DEF spread_value
  <2> QED
    BY <2>1, EvenlyShared
<1>3. CASE method = "proportional"
  <2>1. PICK p : p = compute_proportions(existing)
    OBVIOUS
  <2>2. spread_value(total, n, method, weights, existing) = [p EXCEPT !.nums = [i \in 1..n |-> total * @[i]]]
    BY <1>3, <2>1 DEF spread_value
  <2>3. Shared([p EXCEPT !.nums = [i \in 1..n |-> total * @[i]]], n, total)
    BY <2>1, ProportionalShared
  <2> QED
    BY <2>2, <2>3, Zenon
<1>4. CASE method = "weighted" /\ (weights = <<>> \/ SumOf(weights) = 0)
  <2>1. spread_value(total, n, method, weights, existing) = Evenly(n, total)
    BY <1>4 DEF spread_value
  <2> QED
    BY <2>1, EvenlyShared
<1>5. CASE method = "weighted" /\ ~(weights = <<>> \/ SumOf(weights) = 0)
  <2>1. PICK sign : sign = IF SumOf(weights) < 0 THEN -1 ELSE 1
    OBVIOUS
  <2>2. spread_value(total, n, method, weights, existing)
          = [den |-> sign * SumOf(weights), nums |-> [i \in 1..n |-> total * (sign * weights[i])]]
    BY <1>5, <2>1 DEF spread_value
  <2>3. Len(weights) = n /\ SumOf(weights) # 0
    BY <1>5 DEF SpreadRaises
  <2>4. Shared([den |-> sign * SumOf(weights), nums |-> [i \in 1..n |-> total * (sign * weights[i])]], n, total)
    BY <2>1, <2>3, WeightedShared
  <2> QED
    BY <2>2, <2>4, Zenon
<1> QED
  BY <1>1, <1>2, <1>3, <1>4, <1>5

-----------------------------------------------------------------------------
(* Aggregates.                                                               *)
LEMMA Extremes ==
  ASSUME NEW n \in Nat, NEW f, \A k \in 1..(n + 1) : f[k] \in Int
  PROVE  /\ \E x \in {f[k] : k \in 1..(n + 1)} : \A y \in {f[k] : k \in 1..(n + 1)} : x >= y
         /\ \E x \in {f[k] : k \in 1..(n + 1)} : \A y \in {f[k] : k \in 1..(n + 1)} : x <= y
<1> DEFINE Highest(j, m) == \A k \in 1..(m + 1) : f[j] >= f[k]
           Lowest(j, m) == \A k \in 1..(m + 1) : f[j] <= f[k]
           Both(m) == (\E j \in 1..(m + 1) : Highest(j, m)) /\ \E j \in 1..(m + 1) : Lowest(j, m)
           T == {m \in 0..n : Both(m)}
<1>1. 0 \in T
  <2>1. 1 \in 1..(0 + 1) /\ \A k \in 1..(0 + 1) : k = 1 /\ f[k] \in Int
    OBVIOUS
  <2>2. Highest(1, 0) /\ Lowest(1, 0)
    BY <2>1
  <2> QED
    BY <2>1, <2>2
<1>2. ASSUME NEW m \in 1..n, m - 1 \in T PROVE m \in T
  <2>1. m + 1 \in 1..(m + 1) /\ f[m + 1] \in Int /\ (\A k \in 1..(m - 1 + 1) : k \in 1..(m + 1) /\ f[k] \in Int)
        /\ \A k \in 1..(m + 1) : k = m + 1 \/ k \in 1..(m - 1 + 1)
    OBVIOUS
  <2>2. PICK j \in 1..(m - 1 + 1) : Highest(j, m - 1)
    BY <1>2
  <2>3. PICK i \in 1..(m - 1 + 1) : Lowest(i, m - 1)
    BY <1>2
  <2>4. \E h \in 1..(m + 1) : Highest(h, m)
    <3>1. CASE f[j] >= f[m + 1]
      <4>1. Highest(j, m)
        BY <2>1, <2>2, <3>1
      <4> QED
        BY <2>1, <4>1
    <3>2. CASE ~(f[j] >= f[m + 1])
      <4>1. f[j] \in Int
        BY <2>1
      <4>2. \A k \in 1..(m - 1 + 1) : f[j] >= f[k]
        BY <2>2
      <4>3. Highest(m + 1, m)
        BY <2>1, <3>2, <4>1, <4>2
      <4> QED
        BY <2>1, <4>3
    <3> QED
      BY <3>1, <3>2
  <2>5. \E h \in 1..(m + 1) : Lowest(h, m)
    <3>1. CASE f[i] <= f[m + 1]
      <4>1. Lowest(i, m)
        BY <2>1, <2>3, <3>1
      <4> QED
        BY <2>1, <4>1
    <3>2. CASE ~(f[i] <= f[m + 1])
      <4>1. f[i] \in Int
        BY <2>1
      <4>2. \A k \in 1..(m - 1 + 1) : f[i] <= f[k]
        BY <2>3
      <4>3. Lowest(m + 1, m)
        BY <2>1, <3>2, <4>1, <4>2
      <4> QED
        BY <2>1, <4>3
    <3> QED
      BY <3>1, <3>2
  <2>6. m \in 0..n
    OBVIOUS
  <2>7. Both(m)
    BY <2>4, <2>5, Zenon
  <2> HIDE DEF Both
  <2> QED
    BY <2>6, <2>7
<1>3. T \subseteq 0..n
  OBVIOUS
<1>4. n \in T
  <2> HIDE DEF T
  <2>1. \A m \in 0..n : m \in T
    BY <1>1, <1>2, <1>3, CountingUp
  <2> QED
    BY <2>1
<1>5. PICK j \in 1..(n + 1) : Highest(j, n)
  BY <1>4
<1>6. PICK i \in 1..(n + 1) : Lowest(i, n)
  BY <1>4
<1> QED
  BY <1>5, <1>6

LEMMA AggregateIs ==
  ASSUME NEW values \in Seq(Int), NEW method \in SummaryMethods \ {"none", "formula"}
  PROVE  aggregate_values(values, method).den \in Nat \ {0} /\ aggregate_values(values, method).num \in Int
<1>1. PICK n \in Nat : n = Len(values)
  OBVIOUS
<1>2. \A k \in 1..n : values[k] \in Int
  BY <1>1
<1>3. PICK value : value = aggregate_values(values, method)
  OBVIOUS
<1>4. CASE values = <<>>
  BY <1>4 DEF aggregate_values
<1>5. CASE values # <<>>
  <2>1. n \in Nat \ {0} /\ n - 1 \in Nat /\ n - 1 + 1 = n
    BY <1>1, <1>5
  <2>2. SumOf(values) \in Int
    BY <1>1, <1>2, SumIsInt DEF SumOf
  <2>3. values[1] \in Int /\ values[n] \in Int
    BY <1>2, <2>1
  <2>4. Range(values) = {values[k] : k \in 1..n}
    BY <1>1 DEF Range
  <2>5. Min(Range(values)) \in Int /\ Max(Range(values)) \in Int
    <3>1. PICK m \in Nat : m = n - 1
      BY <2>1
    <3>2. \A k \in 1..(m + 1) : values[k] \in Int
      BY <1>2, <3>1
    <3>3. PICK T : T = {values[k] : k \in 1..(m + 1)}
      OBVIOUS
    <3>4. (\E x \in T : \A y \in T : x >= y) /\ \E x \in T : \A y \in T : x <= y
      BY <3>2, <3>3, Extremes
    <3>5. Max(T) \in T /\ Min(T) \in T
      BY <3>4 DEF Max, Min
    <3>6. T \subseteq Int /\ T = Range(values)
      BY <2>1, <2>4, <3>1, <3>2, <3>3
    <3> QED
      BY <3>5, <3>6
  <2>6. \/ value = [den |-> 1, num |-> SumOf(values)]
        \/ value = [den |-> n, num |-> SumOf(values)]
        \/ value = [den |-> 1, num |-> Min(Range(values))]
        \/ value = [den |-> 1, num |-> Max(Range(values))]
        \/ value = [den |-> 1, num |-> n]
        \/ value = [den |-> 1, num |-> values[1]]
        \/ value = [den |-> 1, num |-> values[n]]
    BY <1>1, <1>3, <1>5 DEF aggregate_values, SummaryMethods
  <2> QED
    BY <1>3, <2>1, <2>2, <2>3, <2>5, <2>6
<1> QED
  BY <1>4, <1>5

Held(v, T) == {v[x] : x \in T}
LEMMA AlongIs ==
  ASSUME NEW T \in SUBSET Items, NEW v \in [Items -> Int], NEW s, Lists(s, T), NEW n, n = Len(s)
  PROVE  /\ n \in Nat /\ Along(v, s, n) \in Seq(Int) /\ Len(Along(v, s, n)) = n
         /\ Range(Along(v, s, n)) = Held(v, T)
<1>1. PICK m \in Nat : m = Len(s)
  BY DEF Lists
<1>2. PICK f : f = Along(v, s, n)
  OBVIOUS
<1>3. f = [k \in 1..m |-> v[s[k]]]
  BY <1>1, <1>2 DEF Along
<1>4. \A k \in 1..m : s[k] \in T
  BY <1>1 DEF Lists
<1>5. f \in [1..m -> Int]
  BY <1>3, <1>4
<1>6. f \in Seq(Int) /\ Len(f) = m
  BY <1>5
<1>7. Range(f) = Held(v, T)
  <2>1. Range(f) = {f[k] : k \in 1..m}
    BY <1>5 DEF Range
  <2>2. \A x \in T : \E k \in 1..m : f[k] = v[x]
    BY <1>1, <1>3 DEF Lists
  <2>3. \A k \in 1..m : f[k] = v[s[k]]
    BY <1>3
  <2> QED
    BY <1>4, <2>1, <2>2, <2>3 DEF Held
<1> QED
  BY <1>1, <1>2, <1>6, <1>7

LEMMA SameAggregate ==
  ASSUME NEW T \in SUBSET Items, NEW v \in [Items -> Int], NEW s, Lists(s, T), NEW u, Lists(u, T), NEW n, n = Len(s),
         NEW method \in {"sum", "average", "weighted_average", "min", "max", "count"}
  PROVE  aggregate_values(Along(v, s, n), method) = aggregate_values(Along(v, u, n), method)
<1>1. n \in Nat
  BY AlongIs
<1>2. \A x \in T : v[x] \in Int
  OBVIOUS
<1>3. Len(u) = n /\ SumFirst(Along(v, s, n), n) = SumFirst(Along(v, u, n), n)
  BY <1>1, <1>2, SameSum
<1>4. PICK f : f = Along(v, s, n)
  OBVIOUS
<1>5. PICK g : g = Along(v, u, n)
  OBVIOUS
<1>6. f \in Seq(Int) /\ Len(f) = n /\ Range(f) = Held(v, T)
  BY <1>4, AlongIs
<1>7. g \in Seq(Int) /\ Len(g) = n /\ Range(g) = Held(v, T)
  BY <1>3, <1>5, AlongIs
<1>8. SumOf(f) = SumOf(g)
  BY <1>3, <1>4, <1>5, <1>6, <1>7 DEF SumOf
<1>9. Range(f) = Range(g)
  BY <1>6, <1>7
<1>10. f = <<>> <=> g = <<>>
  BY <1>6, <1>7
<1>11. aggregate_values(f, method) = aggregate_values(g, method)
  <2>1. CASE f = <<>>
    BY <1>10, <2>1 DEF aggregate_values
  <2>2. CASE f # <<>>
    BY <1>6, <1>7, <1>8, <1>9, <1>10, <2>2 DEF aggregate_values
  <2> QED
    BY <2>1, <2>2
<1> QED
  BY <1>4, <1>5, <1>11

-----------------------------------------------------------------------------
(* Cells under a parent.                                                     *)
LEMMA UnderIs ==
  ASSUME NEW parent, NEW v \in [Items -> Int]
  PROVE  \E n \in Nat : /\ n = Len(_get_children(parent)) /\ DOMAIN _get_children(parent) = 1..n
                        /\ Under(parent, v) = Along(v, _get_children(parent), n)
                        /\ Under(parent, v) \in Seq(Int) /\ Len(Under(parent, v)) = n
                        /\ Range(Under(parent, v)) = Held(v, Children(parent))
<1>1. PICK s : s = _get_children(parent)
  OBVIOUS
<1>2. Lists(s, Children(parent))
  BY <1>1, ChildrenAre
<1>3. PICK n \in Nat : n = Len(s)
  BY <1>2 DEF Lists
<1>4. DOMAIN s = 1..n
  BY <1>2, <1>3 DEF Lists
<1>5. PICK f : f = Along(v, s, n)
  OBVIOUS
<1>6. Under(parent, v) = f
  BY <1>1, <1>4, <1>5 DEF Under, Along
<1>7. Children(parent) \in SUBSET Items
  BY DEF Children
<1>8. f \in Seq(Int) /\ Len(f) = n /\ Range(f) = Held(v, Children(parent))
  <2>1. PICK T \in SUBSET Items : T = Children(parent)
    BY <1>7
  <2>2. Lists(s, T)
    BY <1>2, <2>1
  <2>4. T \in SUBSET Items
    BY <2>1
  <2>3. /\ Along(v, s, n) \in Seq(Int) /\ Len(Along(v, s, n)) = n
        /\ Range(Along(v, s, n)) = Held(v, T)
    BY <1>3, <2>2, <2>4, AlongIs
  <2> QED
    BY <1>5, <2>1, <2>3, Zenon
<1>9. n = Len(_get_children(parent)) /\ DOMAIN _get_children(parent) = 1..n
  BY <1>1, <1>3, <1>4
<1>10. Under(parent, v) = Along(v, _get_children(parent), n)
  BY <1>1, <1>5, <1>6
<1>11. Under(parent, v) \in Seq(Int) /\ Len(Under(parent, v)) = n /\ Range(Under(parent, v)) = Held(v, Children(parent))
  BY <1>6, <1>8
<1> QED
  BY <1>9, <1>10, <1>11

LEMMA ChildIn ==
  ASSUME NEW parent, NEW k \in DOMAIN _get_children(parent)
  PROVE  _get_children(parent)[k] \in Children(parent)
<1>1. PICK s : s = _get_children(parent)
  OBVIOUS
<1>2. Lists(s, Children(parent))
  BY <1>1, ChildrenAre
<1>3. s[k] \in Children(parent)
  BY <1>1, <1>2 DEF Lists
<1> QED
  BY <1>1, <1>3

LEMMA UnderSame ==
  ASSUME NEW parent, NEW v, NEW w, \A x \in Children(parent) : v[x] = w[x]
  PROVE  Under(parent, v) = Under(parent, w)
<1>1. PICK s : s = _get_children(parent)
  OBVIOUS
<1>2. \A k \in DOMAIN s : s[k] \in Children(parent)
  BY <1>1, ChildIn
<1>3. \A k \in DOMAIN s : v[s[k]] = w[s[k]]
  BY <1>2
<1>4. [k \in DOMAIN s |-> v[s[k]]] = [k \in DOMAIN s |-> w[s[k]]]
  BY <1>3
<1> QED
  BY <1>1, <1>4 DEF Under

LEMMA ReadIs ==
  ASSUME CellsInv, NEW children, \A k \in DOMAIN children : children[k] \in Items
  PROVE  ValuesOf(children) = [k \in DOMAIN children |-> cellOf[children[k]]]
BY DEF CellsInv, ValuesOf, _read_cell_value

LEMMA HierarchyIs ==
  ASSUME CellsInv, NEW parent
  PROVE  get_hierarchy_values(parent) = Under(parent, cellOf)
<1>1. PICK s : s = _get_children(parent)
  OBVIOUS
<1>2. \A k \in DOMAIN s : s[k] \in Items
  BY <1>1, ChildIn DEF Children
<1>3. ValuesOf(s) = [k \in DOMAIN s |-> cellOf[s[k]]]
  BY <1>2, ReadIs
<1> QED
  BY <1>1, <1>3 DEF get_hierarchy_values, Under

LEMMA KeyIs ==
  ASSUME CellsInv
  PROVE  SummaryKey \in SummaryMethods \ {"none", "formula"}
BY PlanAssumption DEF CellsInv, SummaryKey, SummaryMethods

LEMMA PlannedIs ==
  ASSUME NEW left, IsLeft(left), NEW v \in [Items -> Int]
  PROVE  /\ Planned(left, v) \in [Items -> Int]
         /\ \A k \in DOMAIN left : Planned(left, v)[left[k].item] = left[k].value
         /\ \A x \in Items : (\A k \in DOMAIN left : left[k].item # x) => Planned(left, v)[x] = v[x]
<1> DEFINE Has(x) == \E k \in DOMAIN left : left[k].item = x
           At(x) == CHOOSE k \in DOMAIN left : left[k].item = x
<1>1. ASSUME NEW x, Has(x) PROVE At(x) \in DOMAIN left /\ left[At(x)].item = x
  BY <1>1
<1>2. \A k \in DOMAIN left : left[k].item \in Items /\ left[k].value \in Int
  BY DEF IsLeft
<1>3. \A j, k \in DOMAIN left : left[j].item = left[k].item => j = k
  BY DEF IsLeft
<1>4. PICK p : p = Planned(left, v)
  OBVIOUS
<1>5. p = [x \in Items |-> IF Has(x) THEN left[At(x)].value ELSE v[x]]
  BY <1>4, Zenon DEF Planned
<1> HIDE DEF At
<1>6. p \in [Items -> Int]
  BY <1>1, <1>2, <1>5
<1>7. ASSUME NEW k \in DOMAIN left PROVE p[left[k].item] = left[k].value
  <2>1. PICK x \in Items : x = left[k].item
    BY <1>2
  <2>2. Has(x)
    BY <2>1
  <2>3. At(x) = k
    BY <1>1, <1>3, <2>1, <2>2
  <2> QED
    BY <1>5, <2>1, <2>2, <2>3
<1>8. \A x \in Items : ~Has(x) => p[x] = v[x]
  BY <1>5
<1> QED
  BY <1>4, <1>6, <1>7, <1>8

LEMMA PlannedNothing ==
  ASSUME NEW v \in [Items -> Int]
  PROVE  IsLeft(<<>>) /\ Planned(<<>>, v) = v
<1>1. IsLeft(<<>>)
  BY DEF IsLeft, Range
<1>2. Planned(<<>>, v) = v
  <2>1. DOMAIN <<>> = {}
    OBVIOUS
  <2> QED
    BY <2>1 DEF Planned
<1> QED
  BY <1>1, <1>2

-----------------------------------------------------------------------------
(* Requests that somebody else's write disturbs.                             *)
LEMMA DisturbedFits ==
  ASSUME NEW r, NEW v, NEW w, NEW key, PlanRequestFits(r, v, key), r # PlanIdle
  PROVE  PlanRequestFits([r EXCEPT !.disturbed = TRUE], w, key)
<1>1. PICK t : t = [r EXCEPT !.disturbed = TRUE]
  OBVIOUS
<1>2. CASE SpreadFits(r, v)
  <2>1. DOMAIN r = {"kind", "todo", "left", "made", "disturbed"}
    BY <1>2 DEF SpreadFits
  <2>2. /\ DOMAIN t = DOMAIN r /\ t.disturbed = TRUE /\ t.kind = r.kind
        /\ t.todo = r.todo /\ t.left = r.left /\ t.made = r.made
    BY <1>1, <2>1
  <2>3. SpreadFits(t, w)
    BY <1>2, <2>2 DEF SpreadFits
  <2> QED
    BY <1>1, <2>3 DEF PlanRequestFits
<1>3. CASE AggregateFits(r, v, key)
  <2>1. DOMAIN r = {"kind", "parents", "of", "value", "all", "ordered", "disturbed"}
    BY <1>3 DEF AggregateFits
  <2>2. /\ DOMAIN t = DOMAIN r /\ t.disturbed = TRUE /\ t.kind = r.kind /\ t.parents = r.parents
        /\ t.of = r.of /\ t.value = r.value /\ t.all = r.all /\ t.ordered = r.ordered
    BY <1>1, <2>1
  <2>3. AggregateFits(t, w, key)
    BY <1>3, <2>2 DEF AggregateFits
  <2> QED
    BY <1>1, <2>3 DEF PlanRequestFits
<1> QED
  BY <1>2, <1>3 DEF PlanRequestFits

(* The others after a write of request `by'. *)
LEMMA OthersFit ==
  ASSUME PlanInv, NEW by, NEW c \in Clients, c # by, NEW w
  PROVE  PlanRequestFits(Disturbed(by)[c], w, SummaryKey)
<1>1. PICK r : r = planRequests[c]
  OBVIOUS
<1>2. PlanRequestFits(r, cellOf, SummaryKey)
  BY <1>1 DEF PlanInv, PlanRequestsInv
<1>3. Disturbed(by)[c] = IF r # PlanIdle THEN [r EXCEPT !.disturbed = TRUE] ELSE r
  BY <1>1 DEF Disturbed
<1>4. CASE r = PlanIdle
  BY <1>3, <1>4 DEF PlanRequestFits
<1>5. CASE r # PlanIdle
  <2>1. PICK key : key = SummaryKey
    OBVIOUS
  <2>2. PICK v : v = cellOf
    OBVIOUS
  <2>3. PlanRequestFits([r EXCEPT !.disturbed = TRUE], w, key)
    BY <1>2, <1>5, <2>1, <2>2, DisturbedFits
  <2> QED
    BY <1>3, <1>5, <2>1, <2>3
<1> QED
  BY <1>4, <1>5

(* What a step keeps when every request fits afterwards. *)
LEMMA KeepsFits ==
  ASSUME CellsInv', summary' = summary, planRequests' = [c \in Clients |-> planRequests'[c]],
         \A c \in Clients : PlanRequestFits(planRequests'[c], cellOf', SummaryKey)
  PROVE  PlanInv'
<1>1. SummaryKey' = SummaryKey
  BY DEF SummaryKey
<1> QED
  BY <1>1 DEF PlanInv, PlanRequestsInv

(* One request that changes alone. *)
LEMMA OneChanges ==
  ASSUME PlanInv, UNCHANGED <<cellOf, summary>>, NEW c \in Clients, NEW r, planRequests' = [planRequests EXCEPT ![c] = r],
         PlanRequestFits(r, cellOf, SummaryKey)
  PROVE  PlanInv'
<1>1. CellsInv'
  BY DEF PlanInv, CellsInv
<1>2. planRequests = [d \in Clients |-> planRequests[d]]
  BY DEF PlanInv, PlanRequestsInv
<1>3. planRequests' = [d \in Clients |-> IF d = c THEN r ELSE planRequests[d]]
  BY <1>2
<1>4. \A d \in Clients : planRequests'[d] = IF d = c THEN r ELSE planRequests[d]
  BY <1>3
<1>5. planRequests' = [d \in Clients |-> planRequests'[d]]
  BY <1>3
<1>6. ASSUME NEW d \in Clients PROVE PlanRequestFits(planRequests'[d], cellOf', SummaryKey)
  <2>1. PlanRequestFits(planRequests[d], cellOf, SummaryKey)
    BY DEF PlanInv, PlanRequestsInv
  <2>2. CASE d = c
    BY <1>4, <2>2
  <2>3. CASE d # c
    BY <1>4, <2>1, <2>3
  <2> QED
    BY <2>2, <2>3
<1> QED
  BY <1>1, <1>5, <1>6, KeepsFits

LEMMA WriteIs ==
  ASSUME CellsInv, NEW item \in Items, NEW x \in Int, PlanWrite(item, x)
  PROVE  /\ cellOf' \in [Items -> Int] /\ cellOf' = [i \in Items |-> IF i = item THEN x ELSE cellOf[i]]
<1>1. DOMAIN cellOf \cup {item} = Items
  BY DEF CellsInv
<1>2. cellOf' = [i \in Items |-> IF i = item THEN x ELSE cellOf[i]]
  BY <1>1 DEF PlanWrite
<1> QED
  BY <1>2 DEF CellsInv

-----------------------------------------------------------------------------
(* Steps.                                                                    *)
LEMMA EditKeeps ==
  ASSUME PlanInv, NEW item \in Items, NEW x \in CellNumbers, EditCell(item, x)
  PROVE  PlanInv'
<1>1. x \in Int /\ NoItem \notin Clients
  BY PlanAssumption
<1>2. CellsInv /\ PlanWrite(item, x) /\ planRequests' = Disturbed(NoItem) /\ summary' = summary
  BY DEF PlanInv, EditCell
<1>3. cellOf' \in [Items -> Int]
  BY <1>1, <1>2, WriteIs
<1>4. CellsInv'
  BY <1>2, <1>3 DEF CellsInv
<1>5. planRequests' = [c \in Clients |-> planRequests'[c]]
  BY <1>2 DEF Disturbed
<1>6. ASSUME NEW c \in Clients PROVE PlanRequestFits(planRequests'[c], cellOf', SummaryKey)
  <2>1. c # NoItem
    BY <1>1
  <2>2. PICK w : w = cellOf'
    OBVIOUS
  <2>3. PlanRequestFits(Disturbed(NoItem)[c], w, SummaryKey)
    BY <2>1, OthersFit
  <2> QED
    BY <1>2, <2>2, <2>3
<1> QED
  BY <1>2, <1>4, <1>5, <1>6, KeepsFits

LEMMA BulkKeeps ==
  ASSUME PlanInv, NEW c \in Clients, NEW spreads \in Bulks, bulk_spread(c, spreads)
  PROVE  PlanInv'
<1>1. PICK r : r = [kind |-> "spread", todo |-> spreads, left |-> <<>>, made |-> <<>>, disturbed |-> FALSE]
  OBVIOUS
<1>2. planRequests' = [planRequests EXCEPT ![c] = r] /\ UNCHANGED <<cellOf, summary>>
  BY <1>1 DEF bulk_spread
<1>3. IsSpreads(spreads)
  BY PlanAssumption DEF IsSpreads, Range
<1>4. IsSpreads(<<>>) /\ IsLeft(<<>>)
  BY DEF IsSpreads, IsLeft, Range
<1>5. SpreadFollows(<<>>, Planned(<<>>, cellOf))
  BY DEF SpreadFollows
<1>6. SpreadFits(r, cellOf)
  BY <1>1, <1>3, <1>4, <1>5 DEF SpreadFits
<1>7. PlanRequestFits(r, cellOf, SummaryKey)
  BY <1>6 DEF PlanRequestFits
<1> QED
  BY <1>2, <1>7, OneChanges

LEMMA RecalculationKeeps ==
  ASSUME PlanInv, NEW c \in Clients, NEW parents \in SUBSET Items, NEW ordered \in BOOLEAN,
         IF ordered THEN \A p, q \in parents : p = q ELSE Acyclic /\ parents \subseteq Parents,
         Recalculation(c, parents, ordered)
  PROVE  PlanInv'
<1>1. PICK r : r = [kind |-> "aggregate", parents |-> parents, of |-> NoItem, value |-> 0, all |-> parents,
                    ordered |-> ordered, disturbed |-> FALSE]
  OBVIOUS
<1>2. planRequests' = [planRequests EXCEPT ![c] = r] /\ UNCHANGED <<cellOf, summary>>
  BY <1>1 DEF Recalculation
<1>3. AggregateFits(r, cellOf, SummaryKey)
  <2>1. DOMAIN r = {"kind", "parents", "of", "value", "all", "ordered", "disturbed"} /\ r.kind = "aggregate"
    BY <1>1
  <2>2. r.parents = parents /\ r.of = NoItem /\ r.value = 0 /\ r.all = parents /\ r.ordered = ordered
    BY <1>1
  <2>3. AggregateFollows(r, cellOf, SummaryKey)
    BY <2>2 DEF AggregateFollows
  <2> QED
    BY <2>1, <2>2, <2>3 DEF AggregateFits
<1>4. PlanRequestFits(r, cellOf, SummaryKey)
  BY <1>3 DEF PlanRequestFits
<1> QED
  BY <1>2, <1>4, OneChanges

LEMMA EndsKeeps ==
  ASSUME PlanInv, NEW c \in Clients, Ends(c)
  PROVE  PlanInv'
<1>1. planRequests' = [planRequests EXCEPT ![c] = PlanIdle] /\ UNCHANGED <<cellOf, summary>>
  BY DEF Ends
<1>2. PlanRequestFits(PlanIdle, cellOf, SummaryKey)
  BY DEF PlanRequestFits
<1> QED
  BY <1>1, <1>2, OneChanges

LEMMA SharesAre ==
  ASSUME NEW n \in Nat \ {0}, NEW s, IsSpread(s), NEW existing \in Seq(Int), Len(existing) = n,
         ~SpreadRaises(n, s.method, s.weights),
         NEW shares, shares = spread_value(s.target, n, s.method, s.weights, existing)
  PROVE  /\ shares.den \in Nat \ {0} /\ shares.nums \in [1..n -> Int]
         /\ s.method # "manual" => Shared(shares, n, s.target)
<1>1. PICK total \in Int : total = s.target
  BY DEF IsSpread
<1>2. PICK method \in Methods : method = s.method
  BY DEF IsSpread
<1>3. PICK weights \in Seq(Int) : weights = s.weights
  BY DEF IsSpread
<1>4. shares = spread_value(total, n, method, weights, existing) /\ ~SpreadRaises(n, method, weights)
  BY <1>1, <1>2, <1>3
<1>5. CASE method = "manual"
  <2>1. shares = [den |-> 1, nums |-> existing]
    BY <1>4, <1>5 DEF spread_value
  <2>2. existing \in [1..n -> Int]
    OBVIOUS
  <2> QED
    BY <1>2, <1>5, <2>1, <2>2
<1>6. CASE method # "manual"
  <2>1. total \in Int /\ method \in Methods /\ weights \in Seq(Int)
    BY <1>1, <1>2, <1>3
  <2>2. Shared(spread_value(total, n, method, weights, existing), n, total)
    BY <1>4, <1>6, <2>1, SpreadShared
  <2>3. Shared(shares, n, total)
    BY <1>4, <2>2
  <2> QED
    BY <1>1, <2>3 DEF Shared
<1> QED
  BY <1>5, <1>6

(* The writes planned for the children of one parent. *)
Writes(children, values, n) == [k \in 1..n |-> [item |-> children[k], value |-> values[k]]]
LEMMA LeftIs ==
  ASSUME NEW children, NEW T, Lists(children, T), T \subseteq Items, NEW n, n = Len(children),
         NEW values, \A k \in 1..n : values[k] \in Int,
         NEW left, left = Writes(children, values, n)
  PROVE  /\ IsLeft(left) /\ DOMAIN left = 1..n
         /\ \A k \in 1..n : left[k].item = children[k] /\ left[k].value = values[k]
         /\ \A x \in Items \ T : \A k \in DOMAIN left : left[k].item # x
<1>1. PICK m \in Nat : m = n
  BY DEF Lists
<1>2. DOMAIN left = 1..m /\ \A k \in 1..m : left[k].item = children[k] /\ left[k].value = values[k]
  BY <1>1 DEF Writes
<1>3. left \in Seq(Range(left))
  <2>1. left = [k \in 1..m |-> left[k]]
    BY <1>1 DEF Writes
  <2>2. \A k \in 1..m : left[k] \in Range(left)
    BY <1>2 DEF Range
  <2>3. left \in [1..m -> Range(left)]
    BY <2>1, <2>2
  <2> QED
    BY <2>3
<1>4. \A k \in 1..m : children[k] \in T
  BY <1>1 DEF Lists
<1>5. \A j, k \in 1..m : children[j] = children[k] => j = k
  BY <1>1 DEF Lists
<1>6. \A k \in DOMAIN left : left[k].item \in Items /\ left[k].value \in Int
  BY <1>1, <1>2, <1>4
<1>7. \A j, k \in DOMAIN left : left[j].item = left[k].item => j = k
  BY <1>2, <1>5
<1>8. IsLeft(left)
  BY <1>3, <1>6, <1>7 DEF IsLeft
<1>9. \A x \in Items \ T : \A k \in DOMAIN left : left[k].item # x
  BY <1>2, <1>4
<1> QED
  BY <1>1, <1>2, <1>8, <1>9

LEMMA SpreadsMore ==
  ASSUME NEW made, IsSpreads(made), NEW s, IsSpread(s)
  PROVE  /\ IsSpreads(Append(made, s)) /\ Len(made) \in Nat /\ DOMAIN made = 1..Len(made)
         /\ Len(Append(made, s)) = Len(made) + 1 /\ Append(made, s)[Len(made) + 1] = s
         /\ \A k \in 1..Len(made) : Append(made, s)[k] = made[k]
<1>1. PICK S : S = Range(made)
  OBVIOUS
<1>2. made \in Seq(S)
  BY <1>1 DEF IsSpreads
<1>3. PICK n \in Nat : n = Len(made)
  BY <1>2
<1>4. PICK more : more = Append(made, s)
  OBVIOUS
<1>5. Len(more) = n + 1 /\ DOMAIN more = 1..(n + 1) /\ more[n + 1] = s /\ \A k \in 1..n : more[k] = made[k]
  BY <1>2, <1>3, <1>4
<1>6. \A k \in 1..n : IsSpread(made[k])
  BY <1>2, <1>3 DEF IsSpreads
<1>7. \A k \in 1..(n + 1) : IsSpread(more[k])
  <2>1. \A k \in 1..(n + 1) : k = n + 1 \/ k \in 1..n
    OBVIOUS
  <2> QED
    BY <1>5, <1>6, <2>1
<1>8. more \in Seq(Range(more))
  <2>1. more \in Seq(S \cup {s})
    <3>1. made \in Seq(S \cup {s}) /\ s \in S \cup {s}
      BY <1>2
    <3> QED
      BY <1>4, <3>1
  <2>2. more = [k \in 1..(n + 1) |-> more[k]]
    BY <1>5, <2>1
  <2>3. \A k \in 1..(n + 1) : more[k] \in Range(more)
    BY <1>5 DEF Range
  <2>4. more \in [1..(n + 1) -> Range(more)]
    BY <2>2, <2>3
  <2> QED
    BY <2>4
<1>9. IsSpreads(more)
  BY <1>5, <1>7, <1>8 DEF IsSpreads
<1>10. DOMAIN made = 1..n
  BY <1>2, <1>3
<1> QED
  BY <1>3, <1>4, <1>5, <1>9, <1>10

LEMMA TailIs ==
  ASSUME NEW all, all \in Seq(Range(all)), all # <<>>
  PROVE  \E n \in Nat : /\ Len(all) = n + 1 /\ DOMAIN all = 1..(n + 1) /\ Head(all) = all[1]
                        /\ Tail(all) \in Seq(Range(Tail(all))) /\ DOMAIN Tail(all) = 1..n
                        /\ \A k \in 1..n : Tail(all)[k] = all[k + 1]
<1>1. PICK n \in Nat : n + 1 = Len(all)
  <2>1. Len(all) \in Nat /\ Len(all) # 0
    OBVIOUS
  <2>2. Len(all) - 1 \in Nat /\ Len(all) - 1 + 1 = Len(all)
    BY <2>1
  <2> QED
    BY <2>2
<1>2. PICK rest : rest = Tail(all)
  OBVIOUS
<1>3. Head(all) = all[1] /\ DOMAIN all = 1..(n + 1)
  BY <1>1
<1>4. Len(rest) = n /\ DOMAIN rest = 1..n /\ \A k \in 1..n : rest[k] = all[k + 1]
  BY <1>1, <1>2
<1>5. rest \in Seq(Range(rest))
  <2>1. rest \in Seq(Range(all))
    BY <1>2
  <2>2. rest = [k \in 1..n |-> rest[k]]
    BY <1>4, <2>1
  <2>3. \A k \in 1..n : rest[k] \in Range(rest)
    BY <1>4 DEF Range
  <2>4. rest \in [1..n -> Range(rest)]
    BY <2>2, <2>3
  <2> QED
    BY <2>4
<1> QED
  BY <1>1, <1>2, <1>3, <1>4, <1>5

LEMMA SpreadsRest ==
  ASSUME NEW todo, IsSpreads(todo), todo # <<>>
  PROVE  IsSpread(Head(todo)) /\ IsSpreads(Tail(todo))
<1>1. todo \in Seq(Range(todo))
  BY DEF IsSpreads
<1>2. PICK n \in Nat : /\ Len(todo) = n + 1 /\ DOMAIN todo = 1..(n + 1) /\ Head(todo) = todo[1]
                       /\ Tail(todo) \in Seq(Range(Tail(todo))) /\ DOMAIN Tail(todo) = 1..n
                       /\ \A k \in 1..n : Tail(todo)[k] = todo[k + 1]
  BY <1>1, TailIs
<1>3. \A k \in 1..(n + 1) : IsSpread(todo[k])
  BY <1>2 DEF IsSpreads
<1>4. IsSpread(Head(todo))
  BY <1>2, <1>3
<1>5. \A k \in 1..n : IsSpread(Tail(todo)[k])
  BY <1>2, <1>3
<1> QED
  BY <1>2, <1>4, <1>5 DEF IsSpreads

(* One more spread is made: what it plans only replaces what earlier spreads *)
(* of the same parent had planned.                                           *)
LEMMA FollowsMore ==
  ASSUME NEW made, IsSpreads(made), NEW s, IsSpread(s), NEW v, NEW w,
         SpreadFollows(made, v), \A x \in Items \ Children(s.parent) : w[x] = v[x],
         s.method # "manual" => SumOf(Under(s.parent, w)) = s.target
  PROVE  SpreadFollows(Append(made, s), w)
<1>1. PICK n \in Nat : n = Len(made)
  BY SpreadsMore
<1>2. PICK more : more = Append(made, s)
  OBVIOUS
<1>3. Len(more) = n + 1 /\ DOMAIN made = 1..n /\ more[n + 1] = s /\ \A k \in 1..n : more[k] = made[k]
  BY <1>1, <1>2, SpreadsMore
<1>4. DOMAIN more = 1..(n + 1)
  <2>1. IsSpreads(more)
    BY <1>2, SpreadsMore
  <2> QED
    BY <1>3, <2>1 DEF IsSpreads
<1>5. ASSUME NEW i \in 1..n
      PROVE  Remade(more, i) \/ more[i].method = "manual" \/ SumOf(Under(more[i].parent, w)) = more[i].target
  <2>1. n + 1 \in (i + 1)..Len(more) /\ more[i] = made[i]
    BY <1>3
  <2>2. CASE made[i].parent = s.parent
    BY <1>3, <2>1, <2>2 DEF Remade
  <2>3. CASE Remade(made, i)
    <3>1. PICK j \in (i + 1)..n : made[j].parent = made[i].parent
      BY <1>1, <2>3 DEF Remade
    <3>2. j \in (i + 1)..Len(more) /\ more[j] = made[j]
      BY <1>3, <3>1
    <3> QED
      BY <2>1, <3>1, <3>2 DEF Remade
  <2>4. CASE made[i].parent # s.parent /\ ~Remade(made, i)
    <3>1. PICK p : p = made[i].parent
      OBVIOUS
    <3>2. \A x \in Children(p) : v[x] = w[x]
      BY <2>4, <3>1 DEF Children
    <3>3. Under(p, v) = Under(p, w)
      BY <3>2, UnderSame
    <3>4. made[i].method = "manual" \/ SumOf(Under(p, v)) = made[i].target
      BY <1>3, <2>4, <3>1 DEF SpreadFollows
    <3> QED
      BY <2>1, <3>1, <3>3, <3>4
  <2> QED
    BY <2>2, <2>3, <2>4
<1>6. more[n + 1].method = "manual" \/ SumOf(Under(more[n + 1].parent, w)) = more[n + 1].target
  BY <1>3
<1>7. ASSUME NEW i \in DOMAIN more
      PROVE  Remade(more, i) \/ more[i].method = "manual" \/ SumOf(Under(more[i].parent, w)) = more[i].target
  <2>1. i = n + 1 \/ i \in 1..n
    BY <1>4
  <2>2. CASE i = n + 1
    BY <1>6, <2>2
  <2>3. CASE i \in 1..n
    BY <1>5, <2>3
  <2> QED
    BY <2>1, <2>2, <2>3
<1>8. SpreadFollows(more, w)
  BY <1>7 DEF SpreadFollows
<1> QED
  BY <1>2, <1>8

\* spread_top_down turns request r into t: s is the spread, of its parent's children.
Turns(r, t, v, s, children, shares, left) ==
  /\ SpreadFits(r, v) /\ r.left = <<>> /\ r.todo # <<>> /\ s = Head(r.todo)
  /\ children = _get_children(s.parent) /\ children # <<>> /\ ~SpreadRaises(Len(children), s.method, s.weights)
  /\ shares = spread_value(s.target, Len(children), s.method, s.weights, Under(s.parent, v)) /\ Whole(shares)
  /\ left = [k \in DOMAIN children |-> [item |-> children[k], value |-> shares.nums[k] \div shares.den]]
  /\ t = [r EXCEPT !.todo = Tail(@), !.made = Append(@, s), !.left = left]
LEMMA SpreadNext ==
  ASSUME NEW v \in [Items -> Int], NEW r, NEW t, NEW s, NEW children, NEW shares, NEW left,
         Turns(r, t, v, s, children, shares, left)
  PROVE  SpreadFits(t, v)
<1>0. SpreadFits(r, v)
  BY DEF Turns
<1>1. DOMAIN r = {"kind", "todo", "left", "made", "disturbed"} /\ r.kind = "spread" /\ IsSpreads(r.todo) /\ IsSpreads(r.made)
  BY <1>0 DEF SpreadFits
<1>2. /\ DOMAIN t = DOMAIN r /\ t.kind = r.kind /\ t.disturbed = r.disturbed
      /\ t.todo = Tail(r.todo) /\ t.made = Append(r.made, s) /\ t.left = left
  BY <1>1 DEF Turns
<1>3. IsSpread(s) /\ IsSpreads(Tail(r.todo))
  <2>1. r.todo # <<>> /\ s = Head(r.todo)
    BY DEF Turns
  <2> QED
    BY <1>1, <2>1, SpreadsRest
<1>4. IsSpreads(Append(r.made, s))
  BY <1>1, <1>3, SpreadsMore
<1>5. PICK T : T = Children(s.parent)
  OBVIOUS
<1>6. children = _get_children(s.parent) /\ Lists(children, T) /\ T \subseteq Items
  <2>1. children = _get_children(s.parent)
    BY DEF Turns
  <2>2. Lists(_get_children(s.parent), Children(s.parent))
    BY ChildrenAre
  <2> QED
    BY <1>5, <2>1, <2>2 DEF Children
<1>7. PICK existing : existing = Under(s.parent, v)
  OBVIOUS
<1>8. PICK n \in Nat : n = Len(children) /\ DOMAIN children = 1..n /\ existing \in Seq(Int) /\ Len(existing) = n
  <2>1. PICK p : p = s.parent
    OBVIOUS
  <2>2. \E n \in Nat : /\ n = Len(_get_children(p)) /\ DOMAIN _get_children(p) = 1..n
                        /\ Under(p, v) \in Seq(Int) /\ Len(Under(p, v)) = n
    BY UnderIs
  <2> QED
    BY <1>6, <1>7, <2>1, <2>2
<1>9. n \in Nat \ {0}
  <2>1. children # <<>>
    BY DEF Turns
  <2>2. children \in Seq(Items)
    BY <1>6 DEF Lists
  <2> QED
    BY <1>8, <2>1, <2>2
<1>10. shares = spread_value(s.target, n, s.method, s.weights, existing) /\ ~SpreadRaises(n, s.method, s.weights) /\ Whole(shares)
  BY <1>7, <1>8 DEF Turns
<1>11. /\ shares.den \in Nat \ {0} /\ shares.nums \in [1..n -> Int]
       /\ s.method # "manual" => Shared(shares, n, s.target)
  BY <1>3, <1>8, <1>9, <1>10, SharesAre
<1>12. PICK values : values = [k \in 1..n |-> shares.nums[k] \div shares.den]
  OBVIOUS
<1>13. \A k \in 1..n : values[k] = shares.nums[k] \div shares.den
  BY <1>12
<1>14. \A k \in 1..n : values[k] \in Int
  <2>1. ASSUME NEW k \in 1..n PROVE values[k] \in Int
    <3>1. PICK x \in Int : x = shares.nums[k]
      BY <1>11
    <3>2. PICK d \in Nat \ {0} : d = shares.den
      BY <1>11
    <3>3. x \div d \in Int
      OBVIOUS
    <3> QED
      BY <1>13, <3>1, <3>2, <3>3
  <2> QED
    BY <2>1
<1>15. left = Writes(children, values, n)
  <2>1. left = [k \in 1..n |-> [item |-> children[k], value |-> shares.nums[k] \div shares.den]]
    BY <1>8 DEF Turns
  <2> QED
    BY <1>13, <2>1, Zenon DEF Writes
<1>16. /\ IsLeft(left) /\ DOMAIN left = 1..n
       /\ \A k \in 1..n : left[k].item = children[k] /\ left[k].value = values[k]
       /\ \A x \in Items \ T : \A k \in DOMAIN left : left[k].item # x
  <2>1. Lists(children, T) /\ T \subseteq Items /\ n = Len(children)
    BY <1>6, <1>8
  <2> QED
    BY <1>14, <1>15, <2>1, LeftIs
<1>17. PICK w : w = Planned(left, v)
  OBVIOUS
<1>18. /\ w \in [Items -> Int] /\ \A k \in DOMAIN left : w[left[k].item] = left[k].value
       /\ \A x \in Items : (\A k \in DOMAIN left : left[k].item # x) => w[x] = v[x]
  <2>1. IsLeft(left)
    BY <1>16
  <2>2. /\ Planned(left, v) \in [Items -> Int] /\ \A k \in DOMAIN left : Planned(left, v)[left[k].item] = left[k].value
        /\ \A x \in Items : (\A k \in DOMAIN left : left[k].item # x) => Planned(left, v)[x] = v[x]
    BY <2>1, PlannedIs
  <2> QED
    BY <1>17, <2>2, Zenon
<1>19. \A x \in Items \ Children(s.parent) : w[x] = v[x]
  BY <1>5, <1>16, <1>18
<1>20. s.method # "manual" => SumOf(Under(s.parent, w)) = s.target
  <2>1. SUFFICES ASSUME s.method # "manual" PROVE SumOf(Under(s.parent, w)) = s.target
    OBVIOUS
  <2>2. Shared(shares, n, s.target)
    BY <1>11, <2>1
  <2>3. PICK f : f = Under(s.parent, w)
    OBVIOUS
  <2>4. Len(f) = n
    <3>1. PICK p : p = s.parent
      OBVIOUS
    <3>2. w \in [Items -> Int]
      BY <1>18
    <3>3. Len(Under(p, w)) = Len(_get_children(p))
      BY <3>2, UnderIs
    <3> QED
      BY <1>6, <1>8, <2>3, <3>1, <3>3
  <2>5. \A k \in 1..n : f[k] = w[children[k]]
    BY <1>6, <1>8, <2>3 DEF Under
  <2>6. \A k \in 1..n : w[children[k]] = values[k]
    BY <1>16, <1>18
  <2>7. \A k \in 1..n : f[k] = shares.nums[k] \div shares.den
    BY <1>13, <2>5, <2>6
  <2>8. PICK total \in Int : total = s.target
    BY <1>3 DEF IsSpread
  <2>9. Shared(shares, n, total)
    BY <2>2, <2>8
  <2>10. SumFirst(f, n) = total
    BY <1>10, <2>7, <2>9, SharedWhole
  <2> QED
    BY <2>3, <2>4, <2>8, <2>10 DEF SumOf
<1>21. ~t.disturbed => SpreadFollows(t.made, Planned(t.left, v))
  <2>1. SUFFICES ASSUME ~t.disturbed PROVE SpreadFollows(Append(r.made, s), w)
    BY <1>2, <1>17
  <2>2. SpreadFollows(r.made, Planned(r.left, v))
    BY <1>0, <1>2, <2>1 DEF SpreadFits
  <2>3. Planned(r.left, v) = v
    <3>1. r.left = <<>>
      BY DEF Turns
    <3>2. Planned(<<>>, v) = v
      BY PlannedNothing
    <3> QED
      BY <3>1, <3>2
  <2>4. SpreadFollows(r.made, v)
    BY <2>2, <2>3
  <2>5. PICK made : made = r.made
    OBVIOUS
  <2>6. IsSpreads(made) /\ SpreadFollows(made, v)
    BY <1>1, <2>4, <2>5
  <2>7. SpreadFollows(Append(made, s), w)
    BY <1>3, <1>19, <1>20, <2>6, FollowsMore
  <2> QED
    BY <2>5, <2>7
<1> QED
  BY <1>1, <1>2, <1>3, <1>4, <1>16, <1>21 DEF SpreadFits

LEMMA KindFits ==
  ASSUME PlanInv, NEW c \in Clients
  PROVE  /\ planRequests[c].kind = "spread" => SpreadFits(planRequests[c], cellOf)
         /\ planRequests[c].kind = "aggregate" => AggregateFits(planRequests[c], cellOf, SummaryKey)
         /\ DOMAIN planRequests = Clients
<1>1. PlanRequestFits(planRequests[c], cellOf, SummaryKey)
  BY DEF PlanInv, PlanRequestsInv
<1>2. DOMAIN planRequests = Clients
  BY DEF PlanInv, PlanRequestsInv
<1>3. PICK r : r = planRequests[c]
  OBVIOUS
<1>4. r.kind = "spread" => SpreadFits(r, cellOf)
  BY <1>1, <1>3 DEF PlanRequestFits, PlanIdle, AggregateFits
<1>5. r.kind = "aggregate" => AggregateFits(r, cellOf, SummaryKey)
  BY <1>1, <1>3 DEF PlanRequestFits, PlanIdle, SpreadFits
<1> QED
  BY <1>2, <1>3, <1>4, <1>5

LEMMA SpreadKeeps ==
  ASSUME PlanInv, NEW c \in Clients, spread_top_down(c)
  PROVE  PlanInv'
<1>1. PICK r : r = planRequests[c]
  OBVIOUS
<1>2. r.kind = "spread" /\ r.left = <<>> /\ r.todo # <<>> /\ UNCHANGED <<cellOf, summary>>
  BY <1>1 DEF spread_top_down
<1>3. SpreadFits(r, cellOf) /\ DOMAIN planRequests = Clients
  BY <1>1, <1>2, KindFits
<1>4. PICK s : s = Head(r.todo)
  OBVIOUS
<1>5. PICK children : children = _get_children(s.parent)
  OBVIOUS
<1>6. PICK shares : shares = spread_value(s.target, Len(children), s.method, s.weights, ValuesOf(children))
  OBVIOUS
<1>7. PICK left : left = [k \in DOMAIN children |-> [item |-> children[k], value |-> shares.nums[k] \div shares.den]]
  OBVIOUS
<1>8. CASE children = <<>> \/ SpreadRaises(Len(children), s.method, s.weights)
  <2>1. planRequests' = [planRequests EXCEPT ![c] = PlanIdle]
    BY <1>1, <1>4, <1>5, <1>8 DEF spread_top_down
  <2>2. PlanRequestFits(PlanIdle, cellOf, SummaryKey)
    BY DEF PlanRequestFits
  <2> QED
    BY <1>2, <2>1, <2>2, OneChanges
<1>9. CASE ~(children = <<>> \/ SpreadRaises(Len(children), s.method, s.weights))
  <2>1. /\ Whole(shares)
        /\ planRequests' = [planRequests EXCEPT ![c].todo = Tail(@), ![c].made = Append(@, s), ![c].left = left]
    BY <1>1, <1>4, <1>5, <1>6, <1>7, <1>9, Zenon DEF spread_top_down
  <2>2. PICK t : t = [r EXCEPT !.todo = Tail(@), !.made = Append(@, s), !.left = left]
    OBVIOUS
  <2>3. planRequests' = [planRequests EXCEPT ![c] = t]
    BY <1>1, <1>3, <2>1, <2>2
  <2>4. CellsInv
    BY DEF PlanInv
  <2>5. ValuesOf(children) = Under(s.parent, cellOf)
    <3>1. PICK p : p = s.parent
      OBVIOUS
    <3>2. get_hierarchy_values(p) = Under(p, cellOf)
      BY <2>4, HierarchyIs
    <3> QED
      BY <1>5, <3>1, <3>2 DEF get_hierarchy_values
  <2>6. PICK v : v = cellOf
    OBVIOUS
  <2>7. v \in [Items -> Int]
    BY <2>4, <2>6 DEF CellsInv
  <2>8. Turns(r, t, v, s, children, shares, left)
    BY <1>2, <1>3, <1>4, <1>5, <1>6, <1>7, <1>9, <2>1, <2>2, <2>5, <2>6, Zenon DEF Turns
  <2>9. SpreadFits(t, v)
    BY <2>7, <2>8, SpreadNext
  <2>10. PlanRequestFits(t, cellOf, SummaryKey)
    BY <2>6, <2>9 DEF PlanRequestFits
  <2> QED
    BY <1>2, <2>3, <2>10, OneChanges
<1> QED
  BY <1>8, <1>9

Put(v, item, x) == [i \in Items |-> IF i = item THEN x ELSE v[i]]
LEMMA ShareWritten ==
  ASSUME NEW v \in [Items -> Int], NEW left, IsLeft(left), left # <<>>
  PROVE  LET next == Head(left)
         IN /\ next.item \in Items /\ next.value \in Int /\ IsLeft(Tail(left))
            /\ Planned(Tail(left), Put(v, next.item, next.value)) = Planned(left, v)
<1>0. PICK next : next = Head(left)
  OBVIOUS
<1>1. PICK rest : rest = Tail(left)
  OBVIOUS
<1>2. PICK n \in Nat : /\ DOMAIN left = 1..(n + 1) /\ next = left[1]
                       /\ rest \in Seq(Range(rest)) /\ DOMAIN rest = 1..n
                       /\ \A k \in 1..n : rest[k] = left[k + 1]
  <2>1. left \in Seq(Range(left))
    BY DEF IsLeft
  <2>2. \E n \in Nat : /\ Len(left) = n + 1 /\ DOMAIN left = 1..(n + 1) /\ Head(left) = left[1]
                       /\ Tail(left) \in Seq(Range(Tail(left))) /\ DOMAIN Tail(left) = 1..n
                       /\ \A k \in 1..n : Tail(left)[k] = left[k + 1]
    BY <2>1, TailIs
  <2> QED
    BY <1>0, <1>1, <2>2, Zenon
<1>3. DOMAIN rest = 1..n /\ \A k \in 1..n : rest[k] = left[k + 1]
  BY <1>2
<1>3a. PICK w : w = Put(v, next.item, next.value)
  OBVIOUS
<1>4. \A k \in 1..(n + 1) : left[k].item \in Items /\ left[k].value \in Int
  BY <1>2 DEF IsLeft
<1>5. \A j, k \in 1..(n + 1) : left[j].item = left[k].item => j = k
  BY <1>2 DEF IsLeft
<1>6. 1 \in 1..(n + 1) /\ \A k \in 1..n : k + 1 \in 1..(n + 1) /\ k + 1 # 1
  OBVIOUS
<1>7. next.item \in Items /\ next.value \in Int
  BY <1>2, <1>4, <1>6
<1>8. w \in [Items -> Int] /\ w[next.item] = next.value /\ \A x \in Items : x # next.item => w[x] = v[x]
  BY <1>7, <1>3a DEF Put
<1>10. \A k \in DOMAIN rest : rest[k].item \in Items /\ rest[k].value \in Int
  BY <1>3, <1>4, <1>6
<1>11. ASSUME NEW j \in DOMAIN rest, NEW k \in DOMAIN rest, rest[j].item = rest[k].item PROVE j = k
  <2>1. j \in 1..n /\ k \in 1..n
    BY <1>3
  <2>2. j + 1 = k + 1
    BY <1>3, <1>5, <1>6, <1>11, <2>1
  <2> QED
    BY <2>1, <2>2
<1>12. IsLeft(rest)
  BY <1>2, <1>10, <1>11 DEF IsLeft
<1>13. PICK p : p = Planned(left, v)
  OBVIOUS
<1>14. PICK q : q = Planned(rest, w)
  OBVIOUS
<1>15. /\ p \in [Items -> Int] /\ (\A k \in DOMAIN left : p[left[k].item] = left[k].value)
       /\ \A x \in Items : (\A k \in DOMAIN left : left[k].item # x) => p[x] = v[x]
  <2>1. /\ Planned(left, v) \in [Items -> Int] /\ (\A k \in DOMAIN left : Planned(left, v)[left[k].item] = left[k].value)
        /\ \A x \in Items : (\A k \in DOMAIN left : left[k].item # x) => Planned(left, v)[x] = v[x]
    BY PlannedIs
  <2> QED
    BY <1>13, <2>1, Zenon
<1>16. /\ q \in [Items -> Int] /\ (\A k \in DOMAIN rest : q[rest[k].item] = rest[k].value)
       /\ \A x \in Items : (\A k \in DOMAIN rest : rest[k].item # x) => q[x] = w[x]
  <2>1. w \in [Items -> Int]
    BY <1>8
  <2>2. /\ Planned(rest, w) \in [Items -> Int] /\ (\A k \in DOMAIN rest : Planned(rest, w)[rest[k].item] = rest[k].value)
        /\ \A x \in Items : (\A k \in DOMAIN rest : rest[k].item # x) => Planned(rest, w)[x] = w[x]
    BY <1>12, <2>1, PlannedIs
  <2> QED
    BY <1>14, <2>2, Zenon
<1>17. ASSUME NEW x \in Items PROVE q[x] = p[x]
  <2>1. CASE \E k \in 1..n : rest[k].item = x
    <3>1. PICK k \in 1..n : rest[k].item = x
      BY <2>1
    <3>2. q[x] = rest[k].value
      BY <1>3, <1>16, <3>1
    <3>3. p[x] = left[k + 1].value
      BY <1>2, <1>3, <1>6, <1>15, <3>1
    <3> QED
      BY <1>3, <3>1, <3>2, <3>3
  <2>2. CASE ~\E k \in 1..n : rest[k].item = x
    <3>1. q[x] = w[x]
      BY <1>3, <1>16, <2>2
    <3>2. CASE x = next.item
      BY <1>2, <1>6, <1>8, <1>15, <3>1, <3>2
    <3>3. CASE x # next.item
      <4>1. ASSUME NEW k \in 1..(n + 1) PROVE left[k].item # x
        <5>1. CASE k = 1
          BY <1>2, <3>3, <5>1
        <5>2. CASE k # 1
          <6>1. k - 1 \in 1..n /\ k - 1 + 1 = k
            BY <5>2
          <6>2. rest[k - 1] = left[k]
            BY <1>3, <6>1
          <6> QED
            BY <2>2, <6>1, <6>2
        <5> QED
          BY <5>1, <5>2
      <4>2. p[x] = v[x]
        BY <1>2, <1>15, <4>1
      <4> QED
        BY <1>8, <3>1, <3>3, <4>2
    <3> QED
      BY <3>2, <3>3
  <2> QED
    BY <2>1, <2>2
<1>18. q = p
  BY <1>15, <1>16, <1>17
<1> QED
  BY <1>0, <1>1, <1>7, <1>12, <1>13, <1>14, <1>18, <1>3a, Zenon

(* A request that writes one cell. *)
LEMMA OneWrites ==
  ASSUME PlanInv, NEW c \in Clients, NEW item \in Items, NEW x \in Int, NEW t, PlanWrite(item, x),
         planRequests' = [Disturbed(c) EXCEPT ![c] = t], summary' = summary,
         PlanRequestFits(t, Put(cellOf, item, x), SummaryKey)
  PROVE  PlanInv'
<1>1. CellsInv
  BY DEF PlanInv
<1>2. cellOf' \in [Items -> Int] /\ cellOf' = [i \in Items |-> IF i = item THEN x ELSE cellOf[i]]
  BY <1>1, WriteIs
<1>3. CellsInv'
  BY <1>1, <1>2 DEF CellsInv
<1>4. cellOf' = Put(cellOf, item, x)
  BY <1>2 DEF Put
<1>5. PICK others : others = Disturbed(c)
  OBVIOUS
<1>6. DOMAIN others = Clients
  BY <1>5 DEF Disturbed
<1>7. planRequests' = [d \in Clients |-> IF d = c THEN t ELSE others[d]]
  BY <1>5, <1>6
<1>8. \A d \in Clients : planRequests'[d] = IF d = c THEN t ELSE others[d]
  BY <1>7
<1>9. planRequests' = [d \in Clients |-> planRequests'[d]]
  BY <1>7
<1>10. ASSUME NEW d \in Clients PROVE PlanRequestFits(planRequests'[d], cellOf', SummaryKey)
  <2>1. CASE d = c
    BY <1>4, <1>8, <2>1
  <2>2. CASE d # c
    <3>1. PICK w : w = cellOf'
      OBVIOUS
    <3>2. PlanRequestFits(Disturbed(c)[d], w, SummaryKey)
      BY <2>2, OthersFit
    <3> QED
      BY <1>5, <1>8, <2>2, <3>1, <3>2
  <2> QED
    BY <2>1, <2>2
<1> QED
  BY <1>3, <1>9, <1>10, KeepsFits

LEMMA DisturbedIs ==
  ASSUME PlanInv, NEW c \in Clients
  PROVE  DOMAIN Disturbed(c) = Clients /\ Disturbed(c)[c] = planRequests[c]
BY DEF Disturbed

LEMMA WriteShareKeeps ==
  ASSUME PlanInv, NEW c \in Clients, WriteShare(c)
  PROVE  PlanInv'
<1>1. PICK r : r = planRequests[c]
  OBVIOUS
<1>2. r.kind = "spread" /\ r.left # <<>> /\ summary' = summary
  BY <1>1 DEF WriteShare
<1>3. SpreadFits(r, cellOf) /\ DOMAIN planRequests = Clients
  BY <1>1, <1>2, KindFits
<1>4. PICK next : next = Head(r.left)
  OBVIOUS
<1>5. PlanWrite(next.item, next.value) /\ planRequests' = [Disturbed(c) EXCEPT ![c].left = Tail(@)]
  BY <1>1, <1>4 DEF WriteShare
<1>6. PICK v : v = cellOf
  OBVIOUS
<1>7. v \in [Items -> Int]
  BY <1>6 DEF PlanInv, CellsInv
<1>8. PICK left : left = r.left
  OBVIOUS
<1>9. IsLeft(left) /\ left # <<>> /\ next = Head(left)
  BY <1>2, <1>3, <1>4, <1>8 DEF SpreadFits
<1>10. PICK w : w = Put(v, next.item, next.value)
  OBVIOUS
<1>11. next.item \in Items /\ next.value \in Int /\ IsLeft(Tail(left)) /\ Planned(Tail(left), w) = Planned(left, v)
  <2>1. LET first == Head(left)
        IN /\ first.item \in Items /\ first.value \in Int /\ IsLeft(Tail(left))
           /\ Planned(Tail(left), Put(v, first.item, first.value)) = Planned(left, v)
    BY <1>7, <1>9, ShareWritten
  <2> QED
    BY <1>9, <1>10, <2>1
<1>12. PICK t : t = [r EXCEPT !.left = Tail(@)]
  OBVIOUS
<1>13. DOMAIN r = {"kind", "todo", "left", "made", "disturbed"}
  BY <1>3 DEF SpreadFits
<1>14. /\ DOMAIN t = DOMAIN r /\ t.kind = r.kind /\ t.disturbed = r.disturbed
       /\ t.todo = r.todo /\ t.made = r.made /\ t.left = Tail(left)
  BY <1>8, <1>12, <1>13
<1>15. SpreadFits(t, w)
  <2>1. ~t.disturbed => SpreadFollows(t.made, Planned(t.left, w))
    BY <1>3, <1>6, <1>8, <1>11, <1>14 DEF SpreadFits
  <2> QED
    BY <1>3, <1>11, <1>14, <2>1 DEF SpreadFits
<1>16. planRequests' = [Disturbed(c) EXCEPT ![c] = t]
  <2>1. PICK others : others = Disturbed(c)
    OBVIOUS
  <2>2. DOMAIN others = Clients /\ others[c] = r
    BY <1>1, <2>1, DisturbedIs
  <2>3. [others EXCEPT ![c].left = Tail(@)] = [others EXCEPT ![c] = t]
    BY <1>12, <2>2
  <2> QED
    BY <1>5, <2>1, <2>3
<1>17. PlanRequestFits(t, Put(cellOf, next.item, next.value), SummaryKey)
  BY <1>6, <1>10, <1>15 DEF PlanRequestFits
<1>18. PICK item \in Items : item = next.item
  BY <1>11
<1>19. PICK x \in Int : x = next.value
  BY <1>11
<1>20. PlanWrite(item, x) /\ PlanRequestFits(t, Put(cellOf, item, x), SummaryKey)
  BY <1>5, <1>17, <1>18, <1>19
<1>21. item \in Items /\ x \in Int
  BY <1>18, <1>19
<1> QED
  BY <1>2, <1>16, <1>20, <1>21, OneWrites

\* The orders an aggregation may read the children in.
Reads(children, parent, ordered) ==
  IF ordered THEN children = _get_children(parent) ELSE children \in SetToSeqs(Children(parent)) /\ parent \in Parents

LEMMA ReadAggregates ==
  ASSUME NEW v \in [Items -> Int], NEW parent \in Items, NEW ordered \in BOOLEAN, NEW key \in SummaryMethods \ {"none", "formula"},
         NEW children, Reads(children, parent, ordered),
         NEW values, values = [k \in DOMAIN children |-> v[children[k]]],
         NEW value, value = aggregate_values(values, key), value.num % value.den = 0,
         NEW x, x = value.num \div value.den
  PROVE  x \in Int /\ Aggregates(x, parent, ordered, v, key)
<1>1. PICK T \in SUBSET Items : T = Children(parent)
  BY DEF Children
<1>2. Lists(children, T)
  <2>1. CASE ordered
    BY <1>1, <2>1, ChildrenAre DEF Reads
  <2>2. CASE ~ordered
    BY <1>1, <2>2, AnyOrder DEF Reads
  <2> QED
    BY <2>1, <2>2
<1>3. PICK n \in Nat : n = Len(children) /\ DOMAIN children = 1..n
  BY <1>2 DEF Lists
<1>4. values = Along(v, children, n)
  BY <1>3 DEF Along
<1>5. T \in SUBSET Items /\ n = Len(children)
  BY <1>1, <1>3
<1>6. values \in Seq(Int) /\ Len(values) = n /\ Range(values) = Held(v, T)
  <2>1. /\ n \in Nat /\ Along(v, children, n) \in Seq(Int) /\ Len(Along(v, children, n)) = n
        /\ Range(Along(v, children, n)) = Held(v, T)
    BY <1>2, <1>5, AlongIs
  <2> QED
    BY <1>4, <2>1
<1>7. value.den \in Nat \ {0} /\ value.num \in Int
  BY <1>6, AggregateIs
<1>8. PICK den \in Nat \ {0} : den = value.den
  BY <1>7
<1>9. PICK num \in Int : num = value.num
  BY <1>7
<1>10. num % den = 0 /\ x = num \div den
  BY <1>8, <1>9
<1>11. x \in Int /\ x * den = num
  BY <1>10
<1>12. PICK s : s = _get_children(parent)
  OBVIOUS
<1>13. Lists(s, T)
  BY <1>1, <1>12, ChildrenAre
<1>14. Len(s) = n /\ Under(parent, v) = Along(v, s, n) /\ Range(Under(parent, v)) = Held(v, T)
  <2>1. PICK m \in Nat : /\ m = Len(s) /\ Under(parent, v) = Along(v, s, m) /\ Range(Under(parent, v)) = Held(v, Children(parent))
    BY <1>12, UnderIs
  <2>2. m = n
    BY <1>2, <1>5, <1>13, <2>1, ListIsLong
  <2> QED
    BY <1>1, <2>1, <2>2
<1>15. PICK under : under = Under(parent, v)
  OBVIOUS
<1>16. CASE ordered
  <2>1. under = values
    BY <1>4, <1>12, <1>14, <1>15, <1>16 DEF Reads
  <2>2. aggregate_values(under, key) = value
    BY <2>1
  <2> QED
    BY <1>8, <1>9, <1>11, <1>15, <1>16, <2>2 DEF Aggregates
<1>17. CASE ~ordered /\ key \notin Edges
  <2>1. key \in {"sum", "average", "weighted_average", "min", "max", "count"}
    BY <1>17 DEF Edges, SummaryMethods
  <2>2. aggregate_values(Along(v, children, n), key) = aggregate_values(Along(v, s, n), key)
    BY <1>2, <1>5, <1>13, <2>1, SameAggregate
  <2>3. aggregate_values(under, key) = value
    BY <1>4, <1>14, <1>15, <2>2
  <2> QED
    BY <1>8, <1>9, <1>11, <1>15, <1>17, <2>3 DEF Aggregates
<1>18. CASE ~ordered /\ key \in Edges
  <2>1. T # {}
    BY <1>1, <1>18 DEF Reads, Parents, Children
  <2>2. n # 0
    <3>1. PICK y \in T : TRUE
      BY <2>1
    <3>2. PICK k \in 1..n : children[k] = y
      BY <1>2, <1>3, <3>1 DEF Lists
    <3> QED
      BY <3>2
  <2>3. values # <<>> /\ 1 \in 1..n /\ n \in 1..n
    BY <1>6, <2>2
  <2>4. value = [den |-> 1, num |-> values[1]] \/ value = [den |-> 1, num |-> values[n]]
    BY <1>6, <1>18, <2>3 DEF Edges, aggregate_values
  <2>5. values[1] \in Range(values) /\ values[n] \in Range(values)
    BY <1>6, <2>3 DEF Range
  <2>6. den = 1 /\ num \in Range(values)
    BY <1>8, <1>9, <2>4, <2>5
  <2>7. x \in Range(values)
    <3>1. x = num
      BY <1>11, <2>6
    <3> QED
      BY <2>6, <3>1
  <2>8. x \in Range(under)
    BY <1>6, <1>14, <1>15, <2>7
  <2> QED
    BY <1>11, <1>15, <1>18, <2>8 DEF Aggregates
<1> QED
  BY <1>16, <1>17, <1>18

LEMMA ReadKeeps ==
  ASSUME PlanInv, NEW c \in Clients, ReadChildren(c)
  PROVE  PlanInv'
<1>1. PICK r : r = planRequests[c]
  OBVIOUS
<1>2. r.kind = "aggregate" /\ r.of = NoItem /\ UNCHANGED <<cellOf, summary>>
  BY <1>1 DEF ReadChildren
<1>3. PICK v, key : v = cellOf /\ key = SummaryKey
  OBVIOUS
<1>4. AggregateFits(r, v, key) /\ DOMAIN planRequests = Clients
  BY <1>1, <1>2, <1>3, KindFits
<1>5. PICK parent \in r.parents :
        /\ r.ordered \/ NextParent(c, parent)
        /\ \E children \in IF r.ordered THEN {_get_children(parent)} ELSE SetToSeqs({i \in Items : ParentOf[i] = parent}) :
             LET value == Aggregated(ValuesOf(children))
             IN /\ value.num % value.den = 0
                /\ planRequests' = [planRequests EXCEPT ![c].of = parent, ![c].value = value.num \div value.den]
  BY <1>1, Zenon DEF ReadChildren
<1>6. PICK children \in IF r.ordered THEN {_get_children(parent)} ELSE SetToSeqs({i \in Items : ParentOf[i] = parent}) :
             LET value == Aggregated(ValuesOf(children))
             IN /\ value.num % value.den = 0
                /\ planRequests' = [planRequests EXCEPT ![c].of = parent, ![c].value = value.num \div value.den]
  BY <1>5, Zenon
<1>7. /\ r.all \subseteq Items /\ r.parents \subseteq r.all /\ r.ordered \in BOOLEAN
      /\ IF r.ordered THEN \A p, q \in r.all : p = q ELSE Acyclic /\ r.all \subseteq Parents
      /\ DOMAIN r = {"kind", "parents", "of", "value", "all", "ordered", "disturbed"}
  BY <1>4 DEF AggregateFits
<1>8. parent \in Items /\ parent \in r.parents /\ (~r.ordered => parent \in Parents)
  BY <1>5, <1>7
<1>9. Reads(children, parent, r.ordered)
  <2>1. CASE r.ordered
    BY <1>6, <2>1 DEF Reads
  <2>2. CASE ~r.ordered
    <3>1. children \in SetToSeqs({i \in Items : ParentOf[i] = parent})
      BY <1>6, <2>2
    <3>2. children \in SetToSeqs(Children(parent))
      BY <3>1 DEF Children
    <3> QED
      BY <1>8, <2>2, <3>2 DEF Reads
  <2> QED
    BY <2>1, <2>2
<1>10. CellsInv
  BY DEF PlanInv
<1>11. v \in [Items -> Int] /\ key \in SummaryMethods \ {"none", "formula"}
  BY <1>3, <1>10, KeyIs DEF CellsInv
<1>12. PICK values : values = [k \in DOMAIN children |-> v[children[k]]]
  OBVIOUS
<1>13. ValuesOf(children) = values
  <2>1. \A k \in DOMAIN children : children[k] \in Items
    <3>1. Lists(children, Children(parent))
      <4>1. CASE r.ordered
        BY <1>9, <4>1, ChildrenAre DEF Reads
      <4>2. CASE ~r.ordered
        BY <1>9, <4>2, AnyOrder DEF Reads
      <4> QED
        BY <4>1, <4>2
    <3> QED
      BY <3>1 DEF Lists
  <2>2. ValuesOf(children) = [k \in DOMAIN children |-> cellOf[children[k]]]
    BY <1>10, <2>1, ReadIs
  <2> QED
    BY <1>3, <1>12, <2>2
<1>14. PICK value : value = aggregate_values(values, key)
  OBVIOUS
<1>15. PICK x : x = value.num \div value.den
  OBVIOUS
<1>16. Aggregated(ValuesOf(children)) = value
  BY <1>3, <1>13, <1>14 DEF Aggregated
<1>17. value.num % value.den = 0 /\ planRequests' = [planRequests EXCEPT ![c].of = parent, ![c].value = x]
  BY <1>6, <1>15, <1>16
<1>18. PICK ordered \in BOOLEAN : ordered = r.ordered
  BY <1>7
<1>19. x \in Int /\ Aggregates(x, parent, ordered, v, key)
  <2>1. Reads(children, parent, ordered) /\ parent \in Items /\ value.num % value.den = 0
    BY <1>8, <1>9, <1>17, <1>18
  <2> QED
    BY <1>11, <1>12, <1>14, <1>15, <2>1, ReadAggregates
<1>20. PICK t : t = [r EXCEPT !.of = parent, !.value = x]
  OBVIOUS
<1>21. /\ DOMAIN t = DOMAIN r /\ t.kind = r.kind /\ t.parents = r.parents /\ t.all = r.all
       /\ t.ordered = r.ordered /\ t.disturbed = r.disturbed /\ t.of = parent /\ t.value = x
  BY <1>7, <1>20
<1>22. planRequests' = [planRequests EXCEPT ![c] = t]
  BY <1>1, <1>4, <1>17, <1>20
<1>23. r.ordered \/ Below(r.parents, parent)
  BY <1>1, <1>5 DEF NextParent, Below
<1>24. ~r.disturbed => AggregateFollows(t, v, key)
  <2>1. SUFFICES ASSUME ~r.disturbed PROVE AggregateFollows(t, v, key)
    OBVIOUS
  <2>2. AggregateFollows(r, v, key)
    BY <1>4, <2>1 DEF AggregateFits
  <2> QED
    BY <1>18, <1>19, <1>21, <1>23, <2>2 DEF AggregateFollows
<1>25. AggregateFits(t, v, key)
  BY <1>2, <1>7, <1>8, <1>19, <1>21, <1>24 DEF AggregateFits
<1>26. PlanRequestFits(t, cellOf, SummaryKey)
  BY <1>3, <1>25 DEF PlanRequestFits
<1> QED
  BY <1>2, <1>22, <1>26, OneChanges

LEMMA NotItsChild ==
  ASSUME Acyclic, NEW p \in Items, NEW item \in Items, _get_depth[item] <= _get_depth[p]
  PROVE  item \notin Children(p)
<1>1. SUFFICES ASSUME ParentOf[item] = p PROVE FALSE
  BY DEF Children
<1>2. p # NoItem
  BY PlanAssumption
<1>3. _get_depth[item] \in Nat /\ _get_depth[p] \in Nat /\ _get_depth[item] = 1 + _get_depth[p]
  BY <1>1, <1>2, DepthsAre
<1> QED
  BY <1>3

LEMMA ParentWritten ==
  ASSUME NEW v \in [Items -> Int], NEW key, NEW r, AggregateFits(r, v, key), r.of # NoItem,
         NEW t, t = [r EXCEPT !.parents = @ \ {r.of}, !.of = NoItem]
  PROVE  r.of \in Items /\ r.value \in Int /\ AggregateFits(t, Put(v, r.of, r.value), key)
<1>1. /\ r.all \subseteq Items /\ r.parents \subseteq r.all /\ r.of \in r.parents \cup {NoItem} /\ r.value \in Int
      /\ r.ordered \in BOOLEAN /\ r.kind = "aggregate"
      /\ IF r.ordered THEN \A p, q \in r.all : p = q ELSE Acyclic /\ r.all \subseteq Parents
      /\ DOMAIN r = {"kind", "parents", "of", "value", "all", "ordered", "disturbed"}
  BY DEF AggregateFits
<1>2. /\ DOMAIN t = DOMAIN r /\ t.kind = r.kind /\ t.parents = r.parents \ {r.of} /\ t.all = r.all /\ t.of = NoItem
      /\ t.ordered = r.ordered /\ t.disturbed = r.disturbed /\ t.value = r.value
  BY <1>1
<1>3. PICK item \in Items : item = r.of /\ item \in r.parents
  BY <1>1
<1>4. PICK x \in Int : x = r.value
  BY <1>1
<1>5. PICK w : w = Put(v, item, x)
  OBVIOUS
<1>6. w \in [Items -> Int] /\ w[item] = x /\ \A i \in Items : i # item => w[i] = v[i]
  BY <1>5 DEF Put
<1>7. ASSUME NEW p \in Items, item = p \/ (Acyclic /\ _get_depth[item] <= _get_depth[p]) PROVE Under(p, w) = Under(p, v)
  <2>1. item \notin Children(p)
    <3>1. CASE item = p
      BY <3>1, PlanAssumption DEF Children
    <3>2. CASE Acyclic /\ _get_depth[item] <= _get_depth[p]
      BY <3>2, NotItsChild
    <3> QED
      BY <1>7, <3>1, <3>2
  <2>2. \A i \in Children(p) : w[i] = v[i]
    BY <1>6, <2>1 DEF Children
  <2> QED
    BY <2>2, UnderSame
<1>8. ~r.disturbed => AggregateFollows(t, w, key)
  <2>1. SUFFICES ASSUME ~r.disturbed PROVE AggregateFollows(t, w, key)
    OBVIOUS
  <2>2. /\ \A p \in r.all \ r.parents : Aggregates(v[p], p, r.ordered, v, key) /\ (r.ordered \/ Below(r.parents, p))
        /\ Aggregates(r.value, r.of, r.ordered, v, key) /\ (r.ordered \/ Below(r.parents, r.of))
    BY <2>1 DEF AggregateFits, AggregateFollows
  <2>3. ASSUME NEW p \in r.all \ t.parents
        PROVE  Aggregates(w[p], p, r.ordered, w, key) /\ (r.ordered \/ Below(t.parents, p))
    <3>1. p \in Items /\ (p = item \/ p \in r.all \ r.parents)
      BY <1>1, <1>2, <1>3
    <3>2. r.ordered \/ Below(r.parents, p)
      BY <1>3, <2>2, <3>1
    <3>3. Aggregates(w[p], p, r.ordered, v, key)
      <4>1. CASE p = item
        BY <1>3, <1>4, <1>6, <2>2, <4>1
      <4>2. CASE p # item
        BY <1>6, <2>2, <3>1, <4>2
      <4> QED
        BY <4>1, <4>2
    <3>4. item = p \/ (Acyclic /\ _get_depth[item] <= _get_depth[p])
      <4>1. CASE r.ordered
        BY <1>1, <1>3, <2>3, <4>1
      <4>2. CASE ~r.ordered
        BY <1>1, <1>3, <3>2, <4>2 DEF Below
      <4> QED
        BY <4>1, <4>2
    <3>5. Under(p, w) = Under(p, v)
      BY <1>7, <3>1, <3>4
    <3>6. Aggregates(w[p], p, r.ordered, w, key)
      BY <3>3, <3>5 DEF Aggregates
    <3>7. r.ordered \/ Below(t.parents, p)
      BY <1>2, <3>2 DEF Below
    <3> QED
      BY <3>6, <3>7
  <2> QED
    BY <1>2, <2>3 DEF AggregateFollows
<1>9. AggregateFits(t, w, key)
  <2>1. ~t.disturbed => AggregateFollows(t, w, key)
    BY <1>2, <1>8
  <2> QED
    BY <1>1, <1>2, <2>1 DEF AggregateFits
<1> QED
  BY <1>1, <1>3, <1>4, <1>5, <1>9

LEMMA WriteParentKeeps ==
  ASSUME PlanInv, NEW c \in Clients, WriteParent(c)
  PROVE  PlanInv'
<1>1. PICK r : r = planRequests[c]
  OBVIOUS
<1>2. r.kind = "aggregate" /\ r.of # NoItem /\ summary' = summary
  BY <1>1 DEF WriteParent
<1>3. PICK v, key : v = cellOf /\ key = SummaryKey
  OBVIOUS
<1>4. AggregateFits(r, v, key) /\ DOMAIN planRequests = Clients
  BY <1>1, <1>2, <1>3, KindFits
<1>5. PlanWrite(r.of, r.value) /\ planRequests' = [Disturbed(c) EXCEPT ![c].parents = @ \ {r.of}, ![c].of = NoItem]
  BY <1>1 DEF WriteParent
<1>6. PICK t : t = [r EXCEPT !.parents = @ \ {r.of}, !.of = NoItem]
  OBVIOUS
<1>7. v \in [Items -> Int]
  BY <1>3 DEF PlanInv, CellsInv
<1>8. r.of \in Items /\ r.value \in Int /\ AggregateFits(t, Put(v, r.of, r.value), key)
  BY <1>2, <1>4, <1>6, <1>7, ParentWritten
<1>9. planRequests' = [Disturbed(c) EXCEPT ![c] = t]
  <2>1. PICK others : others = Disturbed(c)
    OBVIOUS
  <2>2. DOMAIN others = Clients /\ others[c] = r
    BY <1>1, <2>1, DisturbedIs
  <2>3. [others EXCEPT ![c].parents = @ \ {r.of}, ![c].of = NoItem] = [others EXCEPT ![c] = t]
    BY <1>6, <2>2
  <2> QED
    BY <1>5, <2>1, <2>3
<1>10. PICK item \in Items : item = r.of
  BY <1>8
<1>11. PICK x \in Int : x = r.value
  BY <1>8
<1>12. PlanWrite(item, x) /\ PlanRequestFits(t, Put(cellOf, item, x), SummaryKey) /\ item \in Items /\ x \in Int
  BY <1>3, <1>5, <1>8, <1>10, <1>11 DEF PlanRequestFits
<1> QED
  BY <1>2, <1>9, <1>12, OneWrites

-----------------------------------------------------------------------------
LEMMA PlanInitInv == PlanInit => PlanInv
<1>1. SUFFICES ASSUME PlanInit PROVE PlanInv
  OBVIOUS
<1>2. CellsInv
  <2>1. CellNumbers \subseteq Int
    BY PlanAssumption
  <2> QED
    BY <1>1, <2>1 DEF PlanInit, CellsInv
<1>3. planRequests = [c \in Clients |-> PlanIdle]
  BY <1>1 DEF PlanInit
<1>4. PlanRequestsInv
  BY <1>3 DEF PlanRequestsInv, PlanRequestFits
<1> QED
  BY <1>2, <1>4 DEF PlanInv

LEMMA PlanNextInv == PlanInv /\ [PlanNext]_planVars => PlanInv'
<1>1. SUFFICES ASSUME PlanInv, [PlanNext]_planVars PROVE PlanInv'
  OBVIOUS
<1>2. CASE UNCHANGED planVars
  <2>1. cellOf' = cellOf /\ summary' = summary /\ planRequests' = planRequests
    BY <1>2 DEF planVars
  <2>2. CellsInv'
    BY <1>1, <2>1 DEF PlanInv, CellsInv
  <2>3. planRequests' = [c \in Clients |-> planRequests'[c]]
    BY <1>1, <2>1 DEF PlanInv, PlanRequestsInv
  <2>4. \A c \in Clients : PlanRequestFits(planRequests'[c], cellOf', SummaryKey)
    BY <1>1, <2>1 DEF PlanInv, PlanRequestsInv
  <2> QED
    BY <2>1, <2>2, <2>3, <2>4, KeepsFits
<1>3. ASSUME NEW item \in Items, NEW x \in CellNumbers, EditCell(item, x) PROVE PlanInv'
  BY <1>1, <1>3, EditKeeps
<1>4. ASSUME NEW c \in Clients, NEW spreads \in Bulks, bulk_spread(c, spreads) PROVE PlanInv'
  BY <1>1, <1>4, BulkKeeps
<1>5. ASSUME NEW c \in Clients, NEW p \in Items, aggregate_bottom_up(c, p) PROVE PlanInv'
  <2>1. {p} \in SUBSET Items /\ TRUE \in BOOLEAN /\ (\A q, s \in {p} : q = s) /\ Recalculation(c, {p}, TRUE)
    BY <1>5 DEF aggregate_bottom_up
  <2> QED
    BY <1>1, <2>1, RecalculationKeeps
<1>6. ASSUME NEW c \in Clients, recalculate_hierarchy(c) PROVE PlanInv'
  <2>1. Parents \in SUBSET Items /\ FALSE \in BOOLEAN /\ Acyclic /\ Recalculation(c, Parents, FALSE)
    BY <1>6 DEF recalculate_hierarchy, Parents
  <2> QED
    BY <1>1, <2>1, RecalculationKeeps
<1>7. ASSUME NEW c \in Clients, spread_top_down(c) PROVE PlanInv'
  BY <1>1, <1>7, SpreadKeeps
<1>8. ASSUME NEW c \in Clients, WriteShare(c) PROVE PlanInv'
  BY <1>1, <1>8, WriteShareKeeps
<1>9. ASSUME NEW c \in Clients, ReadChildren(c) PROVE PlanInv'
  BY <1>1, <1>9, ReadKeeps
<1>10. ASSUME NEW c \in Clients, WriteParent(c) PROVE PlanInv'
  BY <1>1, <1>10, WriteParentKeeps
<1>11. ASSUME NEW c \in Clients, Ends(c) PROVE PlanInv'
  BY <1>1, <1>11, EndsKeeps
<1> QED
  BY <1>1, <1>2, <1>3, <1>4, <1>5, <1>6, <1>7, <1>8, <1>9, <1>10, <1>11 DEF PlanNext

LEMMA PlanInvAdds == PlanInv => HierarchyAddsUp
<1>1. SUFFICES ASSUME PlanInv, NEW c \in Clients
      PROVE  /\ (SpreadDone(c) /\ ~planRequests[c].disturbed) =>
                  \A i \in DOMAIN planRequests[c].made :
                    \/ Remade(planRequests[c].made, i) \/ planRequests[c].made[i].method = "manual"
                    \/ SumOf(get_hierarchy_values(planRequests[c].made[i].parent)) = planRequests[c].made[i].target
             /\ (AggregateDone(c) /\ ~planRequests[c].disturbed) =>
                  \A parent \in planRequests[c].all :
                    IF planRequests[c].ordered \/ SummaryKey \notin {"first", "last", "opening_balance", "closing_balance"}
                    THEN _read_cell_value(parent) * Aggregated(get_hierarchy_values(parent)).den = Aggregated(get_hierarchy_values(parent)).num
                    ELSE _read_cell_value(parent) \in Range(get_hierarchy_values(parent))
  BY DEF HierarchyAddsUp, Remade
<1>2. PICK r : r = planRequests[c]
  OBVIOUS
<1>3. CellsInv
  BY <1>1 DEF PlanInv
<1>4. PICK v, key : v = cellOf /\ key = SummaryKey
  OBVIOUS
<1>5. v \in [Items -> Int]
  BY <1>3, <1>4 DEF CellsInv
<1>6. \A p : get_hierarchy_values(p) = Under(p, v)
  BY <1>3, <1>4, HierarchyIs
<1>7. ASSUME SpreadDone(c), ~r.disturbed, NEW i \in DOMAIN r.made
      PROVE  Remade(r.made, i) \/ r.made[i].method = "manual" \/ SumOf(get_hierarchy_values(r.made[i].parent)) = r.made[i].target
  <2>1. r.kind = "spread" /\ r.left = <<>>
    BY <1>2, <1>7 DEF SpreadDone
  <2>2. SpreadFits(r, v)
    BY <1>1, <1>2, <1>4, <2>1, KindFits
  <2>3. Planned(r.left, v) = v
    BY <1>5, <2>1, PlannedNothing
  <2>4. SpreadFollows(r.made, v)
    BY <1>7, <2>2, <2>3 DEF SpreadFits
  <2>5. Remade(r.made, i) \/ r.made[i].method = "manual" \/ SumOf(Under(r.made[i].parent, v)) = r.made[i].target
    BY <1>7, <2>4 DEF SpreadFollows
  <2> QED
    BY <1>6, <2>5
<1>8. ASSUME AggregateDone(c), ~r.disturbed, NEW parent \in r.all
      PROVE  IF r.ordered \/ SummaryKey \notin {"first", "last", "opening_balance", "closing_balance"}
             THEN _read_cell_value(parent) * Aggregated(get_hierarchy_values(parent)).den = Aggregated(get_hierarchy_values(parent)).num
             ELSE _read_cell_value(parent) \in Range(get_hierarchy_values(parent))
  <2>1. r.kind = "aggregate" /\ r.of = NoItem /\ r.parents = {}
    BY <1>2, <1>8 DEF AggregateDone
  <2>2. AggregateFits(r, v, key)
    BY <1>1, <1>2, <1>4, <2>1, KindFits
  <2>3. Aggregates(v[parent], parent, r.ordered, v, key)
    BY <1>8, <2>1, <2>2 DEF AggregateFits, AggregateFollows
  <2>4. _read_cell_value(parent) = v[parent]
    <3>1. parent \in Items
      BY <1>8, <2>2 DEF AggregateFits
    <3> QED
      BY <1>3, <1>4, <3>1 DEF CellsInv, _read_cell_value
  <2>5. get_hierarchy_values(parent) = Under(parent, v)
    BY <1>6
  <2> QED
    BY <1>4, <2>3, <2>4, <2>5, Zenon DEF Aggregates, Aggregated, Edges
<1> QED
  BY <1>2, <1>7, <1>8, Zenon

(* A spread nobody disturbed leaves the children of each of its parents adding up to the  *)
(* target, unless a later spread of the same parent replaced it or the values were left as *)
(* they were; an aggregation nobody disturbed leaves every parent it was about the          *)
(* aggregate of its children, however many levels it went through and in whatever order     *)
(* the children came (services/planning.py, engine/spread.py).                             *)
THEOREM HierarchyAddsUpAlways == PlanSpec => []HierarchyAddsUp
<1>1. PlanInit => PlanInv
  BY PlanInitInv
<1>2. PlanInv /\ [PlanNext]_planVars => PlanInv'
  BY PlanNextInv
<1>3. PlanInv => HierarchyAddsUp
  BY PlanInvAdds
<1> QED
  BY <1>1, <1>2, <1>3, PTL DEF PlanSpec
-----------------------------------------------------------------------------
(* Versions: rows belong to versions their keys name.                        *)
VersionRow == [exists : BOOLEAN, default : BOOLEAN, switchover : 0..LastPeriod]
Refs == VersionIds \cup {NoVersion}
CellRow == [version : Refs, value : Int]
VersionsFit ==
  /\ versions \in [VersionIds -> VersionRow]
  /\ config = NoConfig \/ config \in [exists : {TRUE}, auto_archive : BOOLEAN, actuals : Refs, forecast : Refs]
ScenarioFits ==
  /\ scenario = [active |-> scenario.active, base |-> scenario.base, assumptions |-> scenario.assumptions]
  /\ scenario.base \in Refs
  /\ scenario.assumptions \in Seq([key : AssumptionKeys, value : VsValues])

\* A row that belongs to a version names it in its key.
CellsFit(stored) ==
  /\ IsFiniteSet(DOMAIN stored)
  /\ stored \in [DOMAIN stored -> CellRow]
  /\ \A key \in DOMAIN stored : stored[key].version # NoVersion => V(stored[key].version) \in key

\* The rows of version f for one who knows the versions alive.
OwnedBy(stored, f, alive) ==
  {key \in DOMAIN stored :
     stored[key].version = f \/ (stored[key].version = NoVersion /\ {v \in alive : V(v) \in key} = {f})}
\* What a roll archives, and where to, of what it has read.
RolledOf(stored, f, n, switchover) ==
  {key \in RowsOf(stored, f) : switchover = 0 \/ \E i \in 0..(n - 1) : Per(switchover + i) \in key}
ArchivedFrom(r) ==
  LET rolled == RolledOf(r.rows, r.forecast, r.n, r.switchover)
  IN /\ DOMAIN r.archived = {ArchiveKey(key, r.forecast, r.actuals) : key \in rolled}
     /\ \A new \in DOMAIN r.archived :
          \E key \in rolled : ArchiveKey(key, r.forecast, r.actuals) = new /\ r.archived[new] = r.rows[key].value
RollFits(r) ==
  /\ r.n \in Nat \ {0} /\ r.switchover \in 0..LastPeriod /\ _advance_period(r.switchover, r.n) <= LastPeriod
  /\ r.forecast \in VersionIds /\ r.actuals \in Refs /\ r.archives \in BOOLEAN
  /\ CellsFit(r.rows)
  /\ r.migrated \in SUBSET DOMAIN r.rows /\ \A key \in r.migrated : r.rows[key].version # NoVersion
  /\ r.archives => r.actuals \in VersionIds /\ ArchivedFrom(r)
  /\ ~r.archives => DOMAIN r.archived = {}
VsInv == VersionsFit /\ ScenarioFits /\ CellsFit(cells) /\ (roll = NoRoll \/ (roll.stage = "read" /\ RollFits(roll)))

LEMMA VsConstants ==
  /\ LastPeriod \in Nat /\ CurrentPeriod \in 1..LastPeriod /\ VsValues \subseteq Int
  /\ IsFiniteSet(VersionIds) /\ NoVersion \notin VersionIds
BY VersionsAssumption DEF VersionsAssumption

LEMMA VParts == \A v, w : V(v) = V(w) => v = w
BY DEF V

\* The versions a key names are one: which one.
LEMMA OneNamed ==
  ASSUME NEW S \in SUBSET VersionIds
  PROVE  /\ Cardinality(S) = 1 => (CHOOSE v \in S : TRUE) \in S /\ S = {CHOOSE v \in S : TRUE}
         /\ \A v : S = {v} => Cardinality(S) = 1 /\ (CHOOSE w \in S : TRUE) = v
<1>1. IsFiniteSet(S)
  BY VsConstants, FS_Subset
<1>2. Cardinality(S) = 1 => \E v : S = {v}
  BY <1>1, FS_Singleton
<1>3. \A v : S = {v} => Cardinality(S) = 1
  BY FS_Singleton
<1>4. (\E v : S = {v}) => (CHOOSE v \in S : TRUE) \in S
  OBVIOUS
<1> QED
  BY <1>2, <1>3, <1>4

\* Migration gives a row that has no version the one existing version its key names.
LEMMA MigratedIs ==
  ASSUME NEW stored, CellsFit(stored)
  PROVE  LET new == migrate_legacy_cell_versions(stored)
         IN /\ CellsFit(new) /\ DOMAIN new = DOMAIN stored
            /\ \A key \in DOMAIN stored :
                 /\ new[key].value = stored[key].value
                 /\ stored[key].version # NoVersion => new[key] = stored[key]
                 /\ \A v \in VersionIds : new[key].version = v <=> key \in OwnedBy(stored, v, Existing)
<1> DEFINE new == migrate_legacy_cell_versions(stored)
           matched(key) == {v \in Existing : V(v) \in key}
<1>1. DOMAIN new = DOMAIN stored
  BY DEF migrate_legacy_cell_versions
<1>2. ASSUME NEW key \in DOMAIN stored
      PROVE  /\ new[key] \in CellRow /\ new[key].value = stored[key].value
             /\ stored[key].version # NoVersion => new[key] = stored[key]
             /\ new[key].version # NoVersion => V(new[key].version) \in key
             /\ \A v \in VersionIds : new[key].version = v <=> key \in OwnedBy(stored, v, Existing)
  <2> DEFINE M == matched(key)  one == CHOOSE v \in M : TRUE
  <2>1. M \in SUBSET VersionIds /\ \A v \in M : V(v) \in key
    BY DEF Existing
  <2>2. /\ Cardinality(M) = 1 => one \in M /\ M = {one}
        /\ \A v : M = {v} => Cardinality(M) = 1 /\ one = v
    <3> HIDE DEF M
    <3> QED
      BY <2>1, OneNamed
  <2>3. stored[key] \in CellRow /\ (stored[key].version # NoVersion => V(stored[key].version) \in key)
    BY DEF CellsFit
  <2>4. new[key] = IF stored[key].version = NoVersion /\ Cardinality(M) = 1 THEN [stored[key] EXCEPT !.version = one] ELSE stored[key]
    BY DEF migrate_legacy_cell_versions
  <2>5. \A v \in VersionIds : key \in OwnedBy(stored, v, Existing) <=> (stored[key].version = v \/ (stored[key].version = NoVersion /\ M = {v}))
    BY DEF OwnedBy
  <2> HIDE DEF M, one, new
  <2>6. CASE stored[key].version = NoVersion /\ Cardinality(M) = 1
    <3>1. one \in M /\ M = {one} /\ one \in VersionIds
      BY <2>1, <2>2, <2>6
    <3>2. new[key] = [stored[key] EXCEPT !.version = one]
      BY <2>4, <2>6
    <3>3. new[key] \in CellRow /\ new[key].value = stored[key].value /\ new[key].version = one
      BY <2>3, <3>1, <3>2 DEF CellRow, Refs
    <3>4. ASSUME NEW v \in VersionIds PROVE new[key].version = v <=> key \in OwnedBy(stored, v, Existing)
      <4>1. stored[key].version # v
        BY <2>6, VsConstants
      <4>2. M = {v} <=> one = v
        BY <3>1
      <4> QED
        BY <2>5, <2>6, <3>3, <4>1, <4>2
    <3> QED
      BY <2>1, <2>6, <3>1, <3>3, <3>4
  <2>7. CASE ~(stored[key].version = NoVersion /\ Cardinality(M) = 1)
    <3>1. new[key] = stored[key]
      BY <2>4, <2>7
    <3>2. ASSUME NEW v \in VersionIds PROVE new[key].version = v <=> key \in OwnedBy(stored, v, Existing)
      <4>1. stored[key].version = NoVersion => M # {v}
        BY <2>2, <2>7
      <4> QED
        BY <2>5, <3>1, <4>1
    <3> QED
      BY <2>3, <3>1, <3>2
  <2> QED
    BY <2>6, <2>7
<1>3. new \in [DOMAIN new -> CellRow]
  <2>1. new = [key \in DOMAIN stored |-> new[key]]
    BY DEF migrate_legacy_cell_versions
  <2> HIDE DEF new
  <2> QED
    BY <1>1, <1>2, <2>1
<1>4. CellsFit(new)
  <2> HIDE DEF new
  <2> QED
    BY <1>1, <1>2, <1>3 DEF CellsFit
<1> QED
  BY <1>1, <1>2, <1>4


Upserted(new, stored, key, version, value) ==
  /\ CellsFit(new) /\ DOMAIN new = DOMAIN stored \cup {key}
  /\ new[key] = [version |-> version, value |-> value]
  /\ \A k \in DOMAIN stored : k # key => new[k] = stored[k]
LEMMA UpsertFits ==
  ASSUME NEW stored, CellsFit(stored), NEW key, NEW version \in Refs, NEW value \in Int, version # NoVersion => V(version) \in key,
         NEW new, new = Upsert(stored, key, version, value)
  PROVE  Upserted(new, stored, key, version, value)
<1>1. new = [k \in DOMAIN stored \cup {key} |-> IF k = key THEN [version |-> version, value |-> value] ELSE stored[k]]
  BY DEF Upsert
<1>2. IsFiniteSet(DOMAIN stored \cup {key})
  BY FS_AddElement DEF CellsFit
<1>3. [version |-> version, value |-> value] \in CellRow
  BY DEF CellRow
<1>4. DOMAIN new = DOMAIN stored \cup {key} /\ new[key] = [version |-> version, value |-> value] /\ \A k \in DOMAIN stored : k # key => new[k] = stored[k]
  BY <1>1
<1>5. \A k \in DOMAIN new : new[k] \in CellRow /\ (new[k].version # NoVersion => V(new[k].version) \in k)
  <2> TAKE k \in DOMAIN new
  <2>1. CASE k = key
    BY <1>3, <1>4, <2>1
  <2>2. CASE k # key
    BY <1>4, <2>2 DEF CellsFit
  <2> QED
    BY <2>1, <2>2
<1>6. new \in [DOMAIN new -> CellRow]
  BY <1>1, <1>4, <1>5
<1>7. CellsFit(new)
  BY <1>2, <1>4, <1>5, <1>6 DEF CellsFit
<1> QED
  BY <1>4, <1>7 DEF Upserted

\* The key an assumption is promoted to names the target.
LEMMA PromotedNames ==
  ASSUME NEW target \in VersionIds, NEW key
  PROVE  V(target) \in PromotedKey(key, target)
BY VsConstants DEF PromotedKey, ensure_dimension_members_include_version

\* A promotion writes one assumption after the other: the last that names a place stays.
LEMMA PromotedIs ==
  ASSUME VsInv, NEW target \in VersionIds
  PROVE  LET made == scenario.assumptions
             at(i) == PromotedKey(made[i].key, target)
         IN /\ CellsFit(Promoted(target))
            /\ \A i \in 1..Len(made) : (\A j \in (i + 1)..Len(made) : at(j) # at(i)) =>
                 /\ at(i) \in DOMAIN Promoted(target)
                 /\ Promoted(target)[at(i)] = [version |-> target, value |-> made[i].value]
<1> DEFINE made == scenario.assumptions
           n == Len(made)
           at(i) == PromotedKey(made[i].key, target)
           all == DOMAIN cells \cup {at(i) : i \in 1..n}
           S == UNION {[D -> CellRow] : D \in SUBSET all}
           more(f, k) == Upsert(f, at(k), target, made[k].value)
           Solves(a) == a = [m \in 0..n |-> IF m = 0 THEN cells ELSE more(a[m - 1], m)]
           step == [k \in 1..n |-> [f \in S |-> more(f, k)]]
<1>1. n \in Nat /\ \A i \in 1..n : made[i].value \in Int
  <2>1. PICK R : R = [key : AssumptionKeys, value : VsValues]
    OBVIOUS
  <2>2. made \in Seq(R)
    BY <2>1 DEF VsInv, ScenarioFits
  <2>3. Len(made) \in Nat /\ \A i \in 1..Len(made) : made[i] \in R
    BY <2>2
  <2>4. \A x \in R : x.value \in Int
    BY <2>1, VsConstants
  <2> QED
    BY <2>3, <2>4
<1>2. CellsFit(cells)
  BY DEF VsInv
<1>3. target \in Refs /\ target # NoVersion
  BY VsConstants DEF Refs
<1>4. ASSUME NEW f \in S, NEW k \in 1..n
      PROVE  more(f, k) \in S
  <2>1. PICK D \in SUBSET all : f \in [D -> CellRow]
    OBVIOUS
  <2>2. at(k) \in all
    OBVIOUS
  <2>3. [version |-> target, value |-> made[k].value] \in CellRow
    BY <1>1, <1>3 DEF CellRow
  <2> HIDE DEF all, n, made, at
  <2>4. more(f, k) \in [D \cup {at(k)} -> CellRow]
    BY <2>1, <2>3 DEF Upsert
  <2> QED
    BY <2>1, <2>2, <2>4
<1>5. cells \in S
  <2>1. cells \in [DOMAIN cells -> CellRow] /\ DOMAIN cells \in SUBSET all
    BY <1>2 DEF CellsFit
  <2> HIDE DEF all
  <2> QED
    BY <2>1
<1>6. step \in [1..n -> [S -> S]]
  <2> HIDE DEF S, n, made, at
  <2> QED
    BY <1>4
<1>7. PICK t \in [0..n -> S] : t[0] = cells /\ \A k \in 1..n : t[k] = more(t[k - 1], k)
  <2> HIDE DEF S, n, made, at
  <2>1. PICK t \in [0..n -> S] : Runs(t, n, cells, step)
    <3> HIDE DEF step
    <3> QED
      BY <1>1, <1>5, <1>6, RecursionExists
  <2>2. ASSUME NEW k \in 1..n PROVE t[k] = more(t[k - 1], k)
    <3>1. k - 1 \in 0..n /\ t[k - 1] \in S
      BY <1>1
    <3> HIDE DEF more
    <3>2. step[k][t[k - 1]] = more(t[k - 1], k)
      BY <3>1
    <3>3. t[k] = step[k][t[k - 1]]
      BY <2>1 DEF Runs
    <3> QED
      BY <3>2, <3>3
  <2> QED
    BY <2>1, <2>2 DEF Runs
<1>8. Solves(t)
  <2> HIDE DEF S, n, made, at, more
  <2>1. \A m \in 0..n : t[m] = IF m = 0 THEN cells ELSE more(t[m - 1], m)
    BY <1>1, <1>7
  <2> QED
    BY <1>7, <2>1
<1>9. PICK a : a = CHOOSE u : Solves(u)
  OBVIOUS
<1>10. Solves(a) /\ Promoted(target) = a[n]
  <2>1. Promoted(target) = (CHOOSE u : Solves(u))[n]
    BY DEF Promoted
  <2> HIDE DEF Solves
  <2> QED
    BY <1>8, <1>9, <2>1
<1>11. a[0] = cells /\ \A k \in 1..n : a[k] = more(a[k - 1], k)
  <2> HIDE DEF n, made, at, more
  <2> QED
    BY <1>1, <1>10
<1> DEFINE DoneTo(m) ==
      /\ CellsFit(a[m])
      /\ \A i \in 1..m : (\A j \in (i + 1)..m : at(j) # at(i)) =>
           at(i) \in DOMAIN a[m] /\ a[m][at(i)] = [version |-> target, value |-> made[i].value]
    T == {m \in 0..n : DoneTo(m)}
<1>12. 0 \in T
  <2> HIDE DEF n, made, at
  <2> QED
    BY <1>1, <1>2, <1>11
<1>13. ASSUME NEW m \in 1..n, m - 1 \in T PROVE m \in T
  <2>1. DoneTo(m - 1)
    BY <1>13
  <2>2. V(target) \in at(m) /\ made[m].value \in Int
    BY <1>1, PromotedNames
  <2> HIDE DEF n, made, at
  <2>3. /\ CellsFit(a[m]) /\ DOMAIN a[m] = DOMAIN a[m - 1] \cup {at(m)}
        /\ a[m][at(m)] = [version |-> target, value |-> made[m].value]
        /\ \A k \in DOMAIN a[m - 1] : k # at(m) => a[m][k] = a[m - 1][k]
    <3>1. PICK stored, key, value : stored = a[m - 1] /\ key = at(m) /\ value = made[m].value
      OBVIOUS
    <3>2. a[m] = Upsert(stored, key, target, value)
      BY <1>11, <3>1
    <3>3. CellsFit(stored) /\ value \in Int /\ V(target) \in key
      BY <2>1, <2>2, <3>1
    <3>4. PICK new : new = Upsert(stored, key, target, value)
      OBVIOUS
    <3>5. Upserted(new, stored, key, target, value)
      BY <1>3, <3>3, <3>4, UpsertFits
    <3>6. new = a[m]
      BY <3>2, <3>4
    <3> QED
      BY <3>1, <3>5, <3>6 DEF Upserted
  <2>4. ASSUME NEW i \in 1..m, \A j \in (i + 1)..m : at(j) # at(i)
        PROVE  at(i) \in DOMAIN a[m] /\ a[m][at(i)] = [version |-> target, value |-> made[i].value]
    <3>1. CASE i = m
      BY <2>3, <3>1
    <3>2. CASE i # m
      <4>1. i \in 1..(m - 1) /\ m \in (i + 1)..m /\ \A j \in (i + 1)..(m - 1) : j \in (i + 1)..m
        BY <1>1, <3>2
      <4>2. at(i) \in DOMAIN a[m - 1] /\ a[m - 1][at(i)] = [version |-> target, value |-> made[i].value]
        BY <2>1, <2>4, <4>1
      <4>3. at(m) # at(i)
        BY <2>4, <4>1
      <4> QED
        BY <2>3, <4>2, <4>3
    <3> QED
      BY <3>1, <3>2
  <2> QED
    BY <2>3, <2>4
<1>14. n \in T
  <2>1. T \subseteq 0..n
    OBVIOUS
  <2> HIDE DEF T, n
  <2>2. \A m \in 0..n : m \in T
    BY <1>1, <1>12, <1>13, <2>1, CountingUp
  <2> QED
    BY <1>1, <2>2
<1> QED
  <2>1. DoneTo(n)
    BY <1>14
  <2> HIDE DEF Solves
  <2> QED
    BY <1>10, <2>1

LEMMA VsInitInv == VersionsInit => VsInv
<1> SUFFICES ASSUME VersionsInit PROVE VsInv
  OBVIOUS
<1> DEFINE Makes(f) ==
      \E made \in SeqOf(AssumptionKeys, 2) :
        /\ \A i, j \in DOMAIN made : i # j => made[i] # made[j]
        /\ \E value \in [DOMAIN made -> VsValues] :
             scenario = [active |-> TRUE, base |-> f, assumptions |-> [i \in DOMAIN made |-> [key |-> made[i], value |-> value[i]]]]
    Finds(f) ==
      \E legacy \in SUBSET {{V(f), Per(1)}}, value \in VsValues : cells = [key \in legacy |-> [version |-> NoVersion, value |-> value]]
<1>1. PICK s \in 0..(LastPeriod - 1), f \in VersionIds, a \in VersionIds :
        /\ versions = [v \in VersionIds |-> [exists |-> TRUE, default |-> FALSE, switchover |-> IF v = f THEN s ELSE 0]]
        /\ config \in {NoConfig, [exists |-> TRUE, auto_archive |-> TRUE, actuals |-> a, forecast |-> f]}
        /\ Makes(f) /\ Finds(f)
  BY Zenon DEF VersionsInit, Makes, Finds
<1> HIDE DEF Makes, Finds
<1>2. VersionsFit
  <2>1. s \in 0..LastPeriod /\ 0 \in 0..LastPeriod
    BY VsConstants
  <2>2. config = NoConfig \/ config \in [exists : {TRUE}, auto_archive : BOOLEAN, actuals : Refs, forecast : Refs]
    <3>1. CASE config = NoConfig
      BY <3>1
    <3>2. CASE config = [exists |-> TRUE, auto_archive |-> TRUE, actuals |-> a, forecast |-> f]
      <4>1. a \in Refs /\ f \in Refs
        BY DEF Refs
      <4> QED
        BY <3>2, <4>1
    <3> QED
      BY <1>1, <3>1, <3>2
  <2>3. versions \in [VersionIds -> VersionRow]
    BY <1>1, <2>1 DEF VersionRow
  <2> QED
    BY <2>2, <2>3 DEF VersionsFit
<1>3. ScenarioFits
  <2>0. Makes(f)
    BY <1>1
  <2>1. PICK made \in SeqOf(AssumptionKeys, 2) :
          \E value \in [DOMAIN made -> VsValues] :
            scenario = [active |-> TRUE, base |-> f, assumptions |-> [i \in DOMAIN made |-> [key |-> made[i], value |-> value[i]]]]
    BY <2>0, Zenon DEF Makes
  <2>2. PICK value \in [DOMAIN made -> VsValues] :
          scenario = [active |-> TRUE, base |-> f, assumptions |-> [i \in DOMAIN made |-> [key |-> made[i], value |-> value[i]]]]
    BY <2>1, Zenon
  <2>3. Len(made) \in Nat /\ DOMAIN made = 1..Len(made) /\ \A i \in DOMAIN made : made[i] \in AssumptionKeys
    <3>1. PICK n \in 0..2 : made \in [1..n -> AssumptionKeys]
      BY <2>1 DEF SeqOf
    <3>2. made \in Seq(AssumptionKeys)
      BY <3>1
    <3> QED
      BY <3>2
  <2>4. [i \in DOMAIN made |-> [key |-> made[i], value |-> value[i]]] \in Seq([key : AssumptionKeys, value : VsValues])
    <3> DEFINE filled == [i \in 1..Len(made) |-> [key |-> made[i], value |-> value[i]]]
    <3>1. \A i \in 1..Len(made) : filled[i] \in [key : AssumptionKeys, value : VsValues]
      BY <2>3
    <3>2. filled \in [1..Len(made) -> [key : AssumptionKeys, value : VsValues]]
      BY <3>1
    <3>3. filled \in Seq([key : AssumptionKeys, value : VsValues])
      <4>1. PICK R : R = [key : AssumptionKeys, value : VsValues]
        OBVIOUS
      <4> HIDE DEF filled
      <4>2. filled \in [1..Len(made) -> R]
        BY <3>2, <4>1
      <4>3. filled \in Seq(R)
        BY <2>3, <4>2
      <4> QED
        BY <4>1, <4>3
    <3> QED
      BY <2>3, <3>3
  <2> QED
    BY <2>2, <2>4 DEF ScenarioFits, Refs
<1>4. CellsFit(cells)
  <2>0. Finds(f)
    BY <1>1
  <2>1. PICK legacy \in SUBSET {{V(f), Per(1)}}, value \in VsValues : cells = [key \in legacy |-> [version |-> NoVersion, value |-> value]]
    BY <2>0 DEF Finds
  <2>2. IsFiniteSet(legacy)
    <3>1. IsFiniteSet({{V(f), Per(1)}})
      BY FS_Singleton
    <3> HIDE DEF V, Per
    <3> QED
      BY <3>1, FS_Subset
  <2>3. [version |-> NoVersion, value |-> value] \in CellRow
    BY VsConstants DEF CellRow, Refs
  <2>4. DOMAIN cells = legacy /\ (\A key \in legacy : cells[key] = [version |-> NoVersion, value |-> value]) /\ cells \in [legacy -> CellRow]
    BY <2>1, <2>3
  <2> QED
    BY <2>2, <2>4 DEF CellsFit
<1>5. roll = NoRoll
  BY DEF VersionsInit
<1> QED
  BY <1>2, <1>3, <1>4, <1>5 DEF VsInv


\* A configuration names versions, or none.
ConfigFits(c) == c = NoConfig \/ c \in [exists : {TRUE}, auto_archive : BOOLEAN, actuals : Refs, forecast : Refs]

LEMMA CreateVersionKeeps ==
  ASSUME VsInv, NEW v \in VersionIds, NEW default \in BOOLEAN, NEW switchover \in 0..LastPeriod, create_version(v, default, switchover)
  PROVE  VsInv'
<1>1. versions' \in [VersionIds -> VersionRow]
  <2>1. [exists |-> TRUE, default |-> default, switchover |-> switchover] \in VersionRow
    BY DEF VersionRow
  <2>2. \A w \in VersionIds : versions[w] \in VersionRow /\ [versions[w] EXCEPT !.default = FALSE] \in VersionRow
    BY DEF VsInv, VersionsFit, VersionRow
  <2> HIDE DEF VersionRow
  <2> QED
    BY <2>1, <2>2 DEF create_version
<1>2. UNCHANGED <<cells, config, scenario, roll>>
  BY DEF create_version
<1> QED
  BY <1>1, <1>2 DEF VsInv, VersionsFit, ScenarioFits

LEMMA UpdateVersionKeeps ==
  ASSUME VsInv, NEW v \in VersionIds, NEW given, update_version(v, given),
         \/ \E s \in 0..LastPeriod : given = [switchover |-> s]
         \/ \E d \in BOOLEAN : given = [default |-> d]
  PROVE  VsInv'
<1>1. versions' \in [VersionIds -> VersionRow]
  <2> DEFINE old == versions[v]
             row == [f \in DOMAIN old |-> IF f \in DOMAIN given THEN given[f] ELSE old[f]]
  <2>1. old \in VersionRow /\ versions \in [VersionIds -> VersionRow]
    BY DEF VsInv, VersionsFit
  <2>2. DOMAIN old = {"exists", "default", "switchover"} /\ old.exists \in BOOLEAN /\ old.default \in BOOLEAN /\ old.switchover \in 0..LastPeriod
    BY <2>1 DEF VersionRow
  <2>3. /\ "exists" \notin DOMAIN given
        /\ "default" \in DOMAIN given => given["default"] \in BOOLEAN
        /\ "switchover" \in DOMAIN given => given["switchover"] \in 0..LastPeriod
    OBVIOUS
  <2>4. row["exists"] \in BOOLEAN /\ row["default"] \in BOOLEAN /\ row["switchover"] \in 0..LastPeriod
    BY <2>2, <2>3
  <2>5. row = [exists |-> row["exists"], default |-> row["default"], switchover |-> row["switchover"]]
    BY <2>2
  <2>6. row \in VersionRow
    BY <2>4, <2>5 DEF VersionRow
  <2>7. versions' = [versions EXCEPT ![v] = row]
    BY DEF update_version
  <2> HIDE DEF row, old
  <2> QED
    BY <2>1, <2>6, <2>7
<1>2. UNCHANGED <<cells, config, scenario, roll>>
  BY DEF update_version
<1> QED
  BY <1>1, <1>2 DEF VsInv, VersionsFit, ScenarioFits

LEMMA SetDefaultKeeps ==
  ASSUME VsInv, NEW v \in VersionIds, set_default_version(v)
  PROVE  VsInv'
<1>1. versions' \in [VersionIds -> VersionRow]
  <2>1. \A w \in VersionIds : [versions[w] EXCEPT !.default = (w = v)] \in VersionRow
    BY DEF VsInv, VersionsFit, VersionRow
  <2> HIDE DEF VersionRow
  <2> QED
    BY <2>1 DEF set_default_version
<1>2. UNCHANGED <<cells, config, scenario, roll>>
  BY DEF set_default_version
<1> QED
  BY <1>1, <1>2 DEF VsInv, VersionsFit, ScenarioFits

LEMMA DeleteVersionKeeps ==
  ASSUME VsInv, NEW v \in VersionIds, delete_version(v)
  PROVE  VsInv'
<1>0. \A ref \in Refs : Unref(v, ref) \in Refs /\ (Unref(v, ref) # NoVersion => Unref(v, ref) = ref)
  BY DEF Unref, Refs
<1>1. VersionsFit'
  <2>1. [exists |-> FALSE, default |-> FALSE, switchover |-> 0] \in VersionRow
    BY VsConstants DEF VersionRow
  <2>2. versions' = [versions EXCEPT ![v] = [exists |-> FALSE, default |-> FALSE, switchover |-> 0]] /\ versions \in [VersionIds -> VersionRow]
    BY DEF delete_version, VsInv, VersionsFit
  <2>3. versions' \in [VersionIds -> VersionRow]
    <3> HIDE DEF VersionRow
    <3> QED
      BY <2>1, <2>2
  <2>4. ConfigFits(config)'
    <3>1. ConfigFits(config)
      BY DEF VsInv, VersionsFit, ConfigFits
    <3>2. config' = IF config.exists THEN [config EXCEPT !.actuals = Unref(v, @), !.forecast = Unref(v, @)] ELSE config
      BY DEF delete_version
    <3>3. CASE config = NoConfig
      BY <3>2, <3>3 DEF NoConfig, ConfigFits
    <3>4. CASE config \in [exists : {TRUE}, auto_archive : BOOLEAN, actuals : Refs, forecast : Refs]
      <4>1. config' = [config EXCEPT !.actuals = Unref(v, config.actuals), !.forecast = Unref(v, config.forecast)]
        BY <3>2, <3>4
      <4>2. Unref(v, config.actuals) \in Refs /\ Unref(v, config.forecast) \in Refs
        BY <1>0, <3>4
      <4>3. config' \in [exists : {TRUE}, auto_archive : BOOLEAN, actuals : Refs, forecast : Refs]
        BY <3>4, <4>1, <4>2
      <4> QED
        BY <4>3 DEF ConfigFits
    <3> QED
      BY <3>1, <3>3, <3>4 DEF ConfigFits
  <2> QED
    BY <2>3, <2>4 DEF VersionsFit, ConfigFits
<1>2. ScenarioFits'
  <2>1. scenario' = [scenario EXCEPT !.base = Unref(v, scenario.base)] /\ ScenarioFits
    BY DEF delete_version, VsInv
  <2>2. scenario' = [active |-> scenario.active, base |-> Unref(v, scenario.base), assumptions |-> scenario.assumptions]
    BY <2>1 DEF ScenarioFits
  <2>3. Unref(v, scenario.base) \in Refs
    BY <1>0, <2>1 DEF ScenarioFits
  <2> QED
    BY <2>1, <2>2, <2>3 DEF ScenarioFits
<1>3. CellsFit(cells)'
  <2>1. CellsFit(cells) /\ cells' = [key \in DOMAIN cells |-> [cells[key] EXCEPT !.version = Unref(v, cells[key].version)]]
    BY DEF delete_version, VsInv
  <2>2. \A key \in DOMAIN cells :
          LET new == [cells[key] EXCEPT !.version = Unref(v, cells[key].version)]
          IN new \in CellRow /\ (new.version # NoVersion => V(new.version) \in key)
    <3> TAKE key \in DOMAIN cells
    <3>1. cells[key] \in CellRow /\ (cells[key].version # NoVersion => V(cells[key].version) \in key)
      BY <2>1 DEF CellsFit
    <3>2. Unref(v, cells[key].version) \in Refs /\ (Unref(v, cells[key].version) # NoVersion => Unref(v, cells[key].version) = cells[key].version)
      BY <1>0, <3>1 DEF CellRow
    <3> QED
      BY <3>1, <3>2 DEF CellRow
  <2> HIDE DEF CellRow
  <2> QED
    BY <2>1, <2>2 DEF CellsFit
<1>4. UNCHANGED roll
  BY DEF delete_version
<1> QED
  BY <1>1, <1>2, <1>3, <1>4 DEF VsInv

LEMMA WriteCellKeeps ==
  ASSUME VsInv, NEW places, NEW explicit \in Refs, NEW value \in VsValues, write_cell(places, explicit, value)
  PROVE  VsInv'
<1> DEFINE inMembers == {v \in Existing : V(v) \in places}
           resolved == IF explicit # NoVersion THEN explicit
                       ELSE IF Cardinality(inMembers) = 1 THEN CHOOSE v \in inMembers : TRUE ELSE NoVersion
           context == resolve_cell_version_context(places, explicit)
<1>1. context.version = resolved /\ context.key = ensure_dimension_members_include_version(places \ {V(v) : v \in Existing}, resolved)
  BY DEF resolve_cell_version_context
<1>2. resolved \in Refs
  <2>1. inMembers \in SUBSET VersionIds
    BY DEF Existing
  <2> HIDE DEF inMembers
  <2>2. Cardinality(inMembers) = 1 => (CHOOSE v \in inMembers : TRUE) \in inMembers
    BY <2>1, OneNamed
  <2> QED
    BY <2>1, <2>2 DEF Refs
<1>3. context.version # NoVersion => V(context.version) \in context.key
  <2> HIDE DEF resolved, context
  <2> QED
    BY <1>1 DEF ensure_dimension_members_include_version
<1>4. PICK key, version, number : key = context.key /\ version = context.version /\ number = value
  OBVIOUS
<1>5. cells' = Upsert(cells, key, version, number)
  BY <1>4 DEF write_cell
<1>6. version \in Refs /\ number \in Int /\ (version # NoVersion => V(version) \in key)
  <2> HIDE DEF context, resolved
  <2> QED
    BY <1>1, <1>2, <1>3, <1>4, VsConstants
<1>7. Upserted(cells', cells, key, version, number)
  <2>1. CellsFit(cells)
    BY DEF VsInv
  <2> HIDE DEF context, resolved
  <2> QED
    BY <1>5, <1>6, <2>1, UpsertFits
<1>8. CellsFit(cells)'
  BY <1>7 DEF Upserted, CellsFit
<1>9. UNCHANGED <<versions, config, scenario, roll>>
  BY DEF write_cell
<1> QED
  BY <1>8, <1>9 DEF VsInv, VersionsFit, ScenarioFits

LEMMA ConfigsKeep ==
  ASSUME VsInv, NEW archive \in BOOLEAN, NEW a \in Refs, NEW f \in Refs, create_forecast_config(archive, a, f) \/ update_forecast_config(archive, a, f)
  PROVE  VsInv'
<1>1. ConfigFits(config)'
  <2>1. CASE create_forecast_config(archive, a, f)
    BY <2>1 DEF create_forecast_config, ConfigFits
  <2>2. CASE update_forecast_config(archive, a, f)
    <3>1. ConfigFits(config) /\ config.exists
      BY <2>2 DEF update_forecast_config, VsInv, VersionsFit, ConfigFits
    <3>2. config \in [exists : {TRUE}, auto_archive : BOOLEAN, actuals : Refs, forecast : Refs]
      <4>1. NoConfig.exists = FALSE
        BY DEF NoConfig
      <4>2. config # NoConfig
        BY <3>1, <4>1
      <4> QED
        BY <3>1, <4>2 DEF ConfigFits
    <3>3. config' = [config EXCEPT !.auto_archive = archive, !.actuals = a, !.forecast = f]
      BY <2>2 DEF update_forecast_config
    <3> QED
      BY <3>2, <3>3 DEF ConfigFits
  <2> QED
    BY <2>1, <2>2
<1>2. UNCHANGED <<versions, cells, scenario, roll>>
  BY DEF create_forecast_config, update_forecast_config
<1> QED
  BY <1>1, <1>2 DEF VsInv, VersionsFit, ScenarioFits, ConfigFits

LEMMA ScenariosKeep ==
  ASSUME VsInv,
         \/ delete_scenario
         \/ \E key \in AssumptionKeys, x \in VsValues : add_assumption(key, x)
         \/ \E i \in DOMAIN scenario.assumptions : remove_assumption(i)
  PROVE  VsInv'
<1>0. ScenarioFits
  BY DEF VsInv
<1>1. PICK R : R = [key : AssumptionKeys, value : VsValues]
  OBVIOUS
<1>2. scenario.assumptions \in Seq(R)
  BY <1>0, <1>1 DEF ScenarioFits
<1>3. scenario' = [scenario EXCEPT !.active = scenario'.active, !.assumptions = scenario'.assumptions] /\ scenario'.assumptions \in Seq(R)
  <2>1. CASE delete_scenario
    <3>1. scenario' = [scenario EXCEPT !.active = FALSE]
      BY <2>1 DEF delete_scenario
    <3> QED
      BY <1>0, <1>2, <3>1 DEF ScenarioFits
  <2>2. ASSUME NEW key \in AssumptionKeys, NEW x \in VsValues, add_assumption(key, x)
        PROVE  scenario' = [scenario EXCEPT !.active = scenario'.active, !.assumptions = scenario'.assumptions] /\ scenario'.assumptions \in Seq(R)
    <3> DEFINE found == {i \in DOMAIN scenario.assumptions : scenario.assumptions[i].key = key}
               row == [key |-> key, value |-> x]
               new == IF found = {} THEN Append(scenario.assumptions, row) ELSE [scenario.assumptions EXCEPT ![CHOOSE i \in found : TRUE] = row]
    <3>1. row \in R
      BY <1>1
    <3>2. new \in Seq(R)
      <4>1. CASE found = {}
        <5>1. PICK s, x2 : s = scenario.assumptions /\ x2 = row
          OBVIOUS
        <5>2. Append(s, x2) \in Seq(R)
          BY <1>2, <3>1, <5>1
        <5>3. new = Append(s, x2)
          BY <4>1, <5>1
        <5> HIDE DEF new
        <5> QED
          BY <5>2, <5>3
      <4>2. CASE found # {}
        <5>1. PICK k : k = CHOOSE i \in found : TRUE
          OBVIOUS
        <5>2. k \in DOMAIN scenario.assumptions
          BY <4>2, <5>1
        <5>3. PICK s, x2 : s = scenario.assumptions /\ x2 = row
          OBVIOUS
        <5>4. s \in Seq(R) /\ x2 \in R /\ k \in DOMAIN s
          BY <1>2, <3>1, <5>2, <5>3
        <5>5. [s EXCEPT ![k] = x2] \in Seq(R)
          <6>1. DOMAIN s = 1..Len(s) /\ Len(s) \in Nat /\ s \in [1..Len(s) -> R]
            BY <5>4
          <6>2. [s EXCEPT ![k] = x2] \in [1..Len(s) -> R]
            BY <5>4, <6>1
          <6> QED
            BY <6>1, <6>2
        <5>6. new = [s EXCEPT ![k] = x2]
          <6> HIDE DEF row, found
          <6> QED
            BY <4>2, <5>1, <5>3
        <5> HIDE DEF new
        <5> QED
          BY <5>5, <5>6
      <4> QED
        BY <4>1, <4>2
    <3>3. scenario' = [scenario EXCEPT !.assumptions = new]
      BY <2>2 DEF add_assumption
    <3> HIDE DEF new
    <3> QED
      BY <1>0, <3>2, <3>3 DEF ScenarioFits
  <2>3. ASSUME NEW i \in DOMAIN scenario.assumptions, remove_assumption(i)
        PROVE  scenario' = [scenario EXCEPT !.active = scenario'.active, !.assumptions = scenario'.assumptions] /\ scenario'.assumptions \in Seq(R)
    <3>1. PICK new : new = RemoveAt(scenario.assumptions, i)
      OBVIOUS
    <3>2. scenario' = [scenario EXCEPT !.assumptions = new]
      BY <2>3, <3>1 DEF remove_assumption
    <3>3. new \in Seq(R)
      <4>1. PICK s : s = scenario.assumptions
        OBVIOUS
      <4>2. s \in Seq(R) /\ i \in 1..Len(s)
        BY <1>2, <4>1
      <4>3. SubSeq(s, 1, i - 1) \in Seq(R) /\ SubSeq(s, i + 1, Len(s)) \in Seq(R)
        BY <4>2
      <4> QED
        BY <3>1, <4>1, <4>3 DEF RemoveAt
    <3> QED
      BY <1>0, <3>2, <3>3 DEF ScenarioFits
  <2> QED
    BY <2>1, <2>2, <2>3
<1>4. ScenarioFits'
  <2>1. scenario' = [active |-> scenario'.active, base |-> scenario.base, assumptions |-> scenario'.assumptions]
    BY <1>0, <1>3 DEF ScenarioFits
  <2>2. scenario'.base = scenario.base
    BY <2>1
  <2> QED
    BY <1>0, <1>1, <1>3, <2>1, <2>2 DEF ScenarioFits
<1>5. UNCHANGED <<versions, cells, config, roll>>
  BY DEF delete_scenario, add_assumption, remove_assumption
<1> QED
  BY <1>4, <1>5 DEF VsInv, VersionsFit

LEMMA PromoteKeeps ==
  ASSUME VsInv, NEW target \in VersionIds, promote_scenario(target)
  PROVE  VsInv'
<1>1. CellsFit(cells)'
  BY PromotedIs DEF promote_scenario
<1>2. UNCHANGED <<versions, config, scenario, roll>>
  BY DEF promote_scenario
<1> QED
  BY <1>1, <1>2 DEF VsInv, VersionsFit, ScenarioFits


LEMMA RollReadKeeps ==
  ASSUME VsInv, NEW n \in Nat \ {0}, RollRead(n)
  PROVE  VsInv'
<1> DEFINE f == config.forecast
           a == config.actuals
           s == versions[f].switchover
           rows == migrate_legacy_cell_versions(cells)
           rolled == RolledOf(rows, f, n, s)
           archives == config.auto_archive /\ a \in Existing
           migrated == IF archives THEN {key \in DOMAIN cells : rows[key] # cells[key]} ELSE {}
<1>1. config \in [exists : {TRUE}, auto_archive : BOOLEAN, actuals : Refs, forecast : Refs]
  <2>1. NoConfig.exists = FALSE
    BY DEF NoConfig
  <2>2. config # NoConfig
    BY <2>1 DEF RollRead
  <2> QED
    BY <2>2 DEF VsInv, VersionsFit
<1>2. f \in Existing /\ f \in VersionIds /\ s \in 0..LastPeriod /\ _advance_period(s, n) <= LastPeriod /\ a \in Refs
  <2>1. f \in Existing /\ f \in VersionIds /\ _advance_period(s, n) <= LastPeriod
    BY DEF RollRead, Existing
  <2>2. versions[f] \in VersionRow
    BY <2>1 DEF VsInv, VersionsFit
  <2> QED
    BY <1>1, <2>1, <2>2 DEF VersionRow
<1>3. CellsFit(cells)
  BY DEF VsInv
<1>4. /\ CellsFit(rows) /\ DOMAIN rows = DOMAIN cells
      /\ \A key \in DOMAIN cells : rows[key].value = cells[key].value /\ (cells[key].version # NoVersion => rows[key] = cells[key])
  BY <1>3, MigratedIs
<1>5. migrated \in SUBSET DOMAIN rows /\ \A key \in migrated : rows[key].version # NoVersion
  <2> HIDE DEF rows, archives
  <2>1. ASSUME NEW key \in DOMAIN cells, rows[key] # cells[key] PROVE rows[key].version # NoVersion
    <3>1. rows[key] \in CellRow /\ cells[key] \in CellRow
      BY <1>3, <1>4 DEF CellsFit
    <3>2. cells[key].version = NoVersion /\ rows[key].value = cells[key].value
      BY <1>4, <2>1
    <3> QED
      BY <2>1, <3>1, <3>2 DEF CellRow
  <2> QED
    BY <1>4, <2>1
<1>6. PICK r : r = [stage |-> "read", n |-> n, switchover |-> s, forecast |-> f, actuals |-> a, archives |-> archives,
                    archived |-> Archive(n, s), rows |-> rows, migrated |-> migrated]
  OBVIOUS
<1>7. roll' = r
  BY <1>6 DEF RollRead
<1>8. /\ r.stage = "read" /\ r.n = n /\ r.switchover = s /\ r.forecast = f /\ r.actuals = a /\ r.archives = archives
      /\ r.archived = Archive(n, s) /\ r.rows = rows /\ r.migrated = migrated
  <2> HIDE DEF f, a, s, archives, rows, migrated
  <2> QED
    BY <1>6
<1>9. archives => ArchivedFrom(r) /\ a \in VersionIds
  <2> SUFFICES ASSUME archives PROVE ArchivedFrom(r)
    BY DEF Existing
  <2> DEFINE onto == {ArchiveKey(key, f, a) : key \in rolled}
  <2>1. Archive(n, s) = [new \in onto |-> rows[CHOOSE key \in rolled : ArchiveKey(key, f, a) = new].value]
    BY DEF Archive, RolledOf
  <2> HIDE DEF rolled, rows, f, a, s
  <2>2. ASSUME NEW new \in onto
        PROVE  \E key \in rolled : ArchiveKey(key, f, a) = new /\ Archive(n, s)[new] = rows[key].value
    <3>1. PICK key : key = CHOOSE k \in rolled : ArchiveKey(k, f, a) = new
      OBVIOUS
    <3>2. key \in rolled /\ ArchiveKey(key, f, a) = new
      BY <3>1
    <3>3. Archive(n, s)[new] = rows[key].value
      BY <2>1, <3>1
    <3> QED
      BY <3>2, <3>3
  <2>3. rolled = RolledOf(r.rows, r.forecast, r.n, r.switchover)
    BY <1>8 DEF rolled
  <2>4. DOMAIN r.archived = onto
    BY <1>8, <2>1
  <2> QED
    BY <1>8, <2>2, <2>3, <2>4 DEF ArchivedFrom
<1>10. ~archives => DOMAIN r.archived = {}
  <2> SUFFICES ASSUME ~archives PROVE DOMAIN r.archived = {}
    OBVIOUS
  <2>1. Archive(n, s) = [new \in {} |-> 0]
    BY DEF Archive
  <2> QED
    BY <1>8, <2>1
<1>11. archives \in BOOLEAN
  BY <1>1
<1>12. RollFits(r)
  <2> HIDE DEF f, a, s, archives, rolled, rows, migrated
  <2> QED
    BY <1>2, <1>4, <1>5, <1>8, <1>9, <1>10, <1>11 DEF RollFits
<1>13. UNCHANGED <<versions, cells, config, scenario>>
  BY DEF RollRead
<1> QED
  BY <1>7, <1>8, <1>12, <1>13 DEF VsInv, VersionsFit, ScenarioFits

\* The keys a roll archives to name the actuals, and there are finitely many.
LEMMA ArchivedIs ==
  ASSUME NEW r, RollFits(r)
  PROVE  /\ IsFiniteSet(DOMAIN r.archived)
         /\ \A new \in DOMAIN r.archived : r.actuals \in VersionIds /\ V(r.actuals) \in new /\ r.archived[new] \in Int
<1>1. CASE ~r.archives
  BY <1>1, FS_EmptySet DEF RollFits
<1>2. CASE r.archives
  <2>1. ArchivedFrom(r)
    BY <1>2 DEF RollFits
  <2> DEFINE rolled == RolledOf(r.rows, r.forecast, r.n, r.switchover)
             g == [key \in rolled |-> ArchiveKey(key, r.forecast, r.actuals)]
  <2>2. rolled \subseteq DOMAIN r.rows
    BY DEF RolledOf, RowsOf
  <2>3. CellsFit(r.rows)
    BY DEF RollFits
  <2>4. IsFiniteSet(rolled)
    BY <2>2, <2>3, FS_Subset DEF CellsFit
  <2>5. DOMAIN r.archived = {ArchiveKey(key, r.forecast, r.actuals) : key \in rolled}
    BY <2>1 DEF ArchivedFrom
  <2>6. g \in Surjection(rolled, DOMAIN r.archived)
    <3> HIDE DEF rolled
    <3> QED
      BY <2>5 DEF Surjection
  <2>7. IsFiniteSet(DOMAIN r.archived)
    <3> HIDE DEF rolled, g
    <3> QED
      BY <2>4, <2>6, FS_Surjection
  <2>8. ASSUME NEW new \in DOMAIN r.archived PROVE V(r.actuals) \in new /\ r.archived[new] \in Int
    <3>1. PICK key \in rolled : ArchiveKey(key, r.forecast, r.actuals) = new /\ r.archived[new] = r.rows[key].value
      BY <2>1 DEF ArchivedFrom
    <3>2. r.rows[key] \in CellRow
      BY <2>2, <2>3 DEF CellsFit
    <3>3. V(r.actuals) \in ArchiveKey(key, r.forecast, r.actuals)
      BY DEF ArchiveKey
    <3> QED
      BY <3>1, <3>2, <3>3 DEF CellRow
  <2> QED
    BY <1>2, <2>7, <2>8 DEF RollFits
<1> QED
  BY <1>1, <1>2 DEF RollFits

\* What a roll that succeeds leaves of the rows.
LEMMA RollLeaves ==
  ASSUME VsInv, RollCommit, ~RollFails
  PROVE  /\ RollFits(roll) /\ CellsFit(cells') /\ DOMAIN cells' = DOMAIN cells \cup DOMAIN roll.archived
         /\ \A key \in DOMAIN cells \ DOMAIN roll.archived : cells'[key] = Migrated[key]
         /\ \A key \in DOMAIN roll.archived : cells'[key] = Archived(key) /\ (key \in DOMAIN roll.rows <=> key \in DOMAIN cells)
         /\ \A key \in DOMAIN cells :
              /\ Migrated[key] \in CellRow /\ Migrated[key].value = cells[key].value
              /\ Migrated[key].version = IF key \in roll.migrated THEN roll.rows[key].version ELSE cells[key].version
<1> DEFINE to == DOMAIN roll.archived
<1>1. RollFits(roll)
  <2>1. NoRoll.stage = "idle"
    BY DEF NoRoll
  <2>2. roll.stage = "read"
    BY DEF RollCommit
  <2> QED
    BY <2>1, <2>2 DEF VsInv
<1>2. CellsFit(cells) /\ CellsFit(roll.rows)
  BY <1>1 DEF VsInv, RollFits
<1>3. ASSUME NEW key \in DOMAIN cells
      PROVE  /\ Migrated[key] \in CellRow /\ Migrated[key].value = cells[key].value
             /\ Migrated[key].version = IF key \in roll.migrated THEN roll.rows[key].version ELSE cells[key].version
             /\ Migrated[key].version # NoVersion => V(Migrated[key].version) \in key
  <2>1. cells[key] \in CellRow /\ (cells[key].version # NoVersion => V(cells[key].version) \in key)
    BY <1>2 DEF CellsFit
  <2>2. Migrated[key] = IF key \in roll.migrated THEN [cells[key] EXCEPT !.version = roll.rows[key].version] ELSE cells[key]
    BY DEF Migrated
  <2>3. CASE key \in roll.migrated
    <3>1. roll.rows[key] \in CellRow /\ V(roll.rows[key].version) \in key
      BY <1>1, <1>2, <2>3 DEF RollFits, CellsFit
    <3> QED
      BY <2>1, <2>2, <2>3, <3>1 DEF CellRow
  <2>4. CASE key \notin roll.migrated
    BY <2>1, <2>2, <2>4
  <2> QED
    BY <2>3, <2>4
<1>4. cells' = [key \in DOMAIN cells \cup to |-> IF key \in to THEN Archived(key) ELSE Migrated[key]]
  BY DEF RollCommit
<1>5. IsFiniteSet(to) /\ \A new \in to : roll.actuals \in VersionIds /\ V(roll.actuals) \in new /\ roll.archived[new] \in Int
  BY <1>1, ArchivedIs
<1>6. \A key \in to : key \in DOMAIN roll.rows <=> key \in DOMAIN cells
  BY DEF RollFails
<1>7. ASSUME NEW key \in to PROVE Archived(key) \in CellRow /\ (Archived(key).version # NoVersion => V(Archived(key).version) \in key)
  <2>1. roll.actuals \in VersionIds /\ V(roll.actuals) \in key /\ roll.archived[key] \in Int
    BY <1>5
  <2> DEFINE version == IF Adopts(key) THEN roll.actuals ELSE Migrated[key].version
             value == IF key \in DOMAIN roll.rows /\ roll.rows[key].value = roll.archived[key] THEN Migrated[key].value ELSE roll.archived[key]
  <2>2. Archived(key) = [version |-> version, value |-> value]
    BY DEF Archived
  <2>3. key \in DOMAIN roll.rows => /\ Migrated[key].version \in Refs /\ Migrated[key].value \in Int
                                    /\ (Migrated[key].version # NoVersion => V(Migrated[key].version) \in key)
    BY <1>3, <1>6 DEF CellRow
  <2>4. ~Adopts(key) => key \in DOMAIN roll.rows
    BY DEF Adopts
  <2>5. version \in Refs /\ (version # NoVersion => V(version) \in key)
    BY <2>1, <2>3, <2>4 DEF Refs
  <2>6. value \in Int
    BY <2>1, <2>3
  <2> HIDE DEF version, value
  <2> QED
    BY <2>2, <2>5, <2>6 DEF CellRow
<1> HIDE DEF to
<1>8. DOMAIN cells' = DOMAIN cells \cup to
  BY <1>4
<1>9. /\ \A key \in DOMAIN cells : key \notin to => cells'[key] = Migrated[key]
      /\ \A key \in to : cells'[key] = Archived(key)
  BY <1>4
<1>10. CellsFit(cells')
  <2>1. \A key \in DOMAIN cells' : cells'[key] \in CellRow /\ (cells'[key].version # NoVersion => V(cells'[key].version) \in key)
    BY <1>3, <1>7, <1>8, <1>9
  <2>2. cells' \in [DOMAIN cells' -> CellRow]
    BY <1>4, <1>8, <2>1
  <2>3. IsFiniteSet(DOMAIN cells \cup to)
    BY <1>2, <1>5, FS_Union DEF CellsFit
  <2> QED
    BY <1>8, <2>1, <2>2, <2>3 DEF CellsFit
<1> QED
  BY <1>1, <1>3, <1>6, <1>8, <1>9, <1>10 DEF to

LEMMA RollCommitKeeps ==
  ASSUME VsInv, RollCommit
  PROVE  VsInv'
<1>1. roll' = NoRoll /\ UNCHANGED <<config, scenario>>
  BY DEF RollCommit
<1>2. CASE RollFails
  BY <1>1, <1>2 DEF RollCommit, VsInv, VersionsFit, ScenarioFits
<1>3. CASE ~RollFails
  <2>1. CellsFit(cells') /\ RollFits(roll)
    BY <1>3, RollLeaves
  <2>2. PICK later : later = _advance_period(roll.switchover, roll.n)
    OBVIOUS
  <2>3. later \in 0..LastPeriod
    BY <2>1, <2>2, VsConstants DEF RollFits, _advance_period
  <2>4. versions' = [versions EXCEPT ![roll.forecast].switchover = later] /\ versions \in [VersionIds -> VersionRow]
    BY <1>3, <2>2 DEF RollCommit, VsInv, VersionsFit
  <2>5. versions' \in [VersionIds -> VersionRow]
    BY <2>3, <2>4 DEF VersionRow
  <2> QED
    BY <1>1, <2>1, <2>5 DEF VsInv, VersionsFit, ScenarioFits
<1> QED
  BY <1>2, <1>3

LEMMA VsNextInv == VsInv /\ [VersionsNext]_vsVars => VsInv'
<1> SUFFICES ASSUME VsInv, [VersionsNext]_vsVars PROVE VsInv'
  OBVIOUS
<1>1. ASSUME NEW v \in VersionIds, NEW switchover \in 0..LastPeriod, NEW default \in BOOLEAN, create_version(v, default, switchover) PROVE VsInv'
  BY <1>1, CreateVersionKeeps
<1>2. ASSUME NEW v \in VersionIds, NEW s \in 0..LastPeriod, update_version(v, [switchover |-> s]) PROVE VsInv'
  <2>1. PICK given : given = [switchover |-> s]
    OBVIOUS
  <2> QED
    BY <1>2, <2>1, UpdateVersionKeeps
<1>3. ASSUME NEW v \in VersionIds, NEW default \in BOOLEAN, update_version(v, [default |-> default]) PROVE VsInv'
  <2>1. PICK given : given = [default |-> default]
    OBVIOUS
  <2> QED
    BY <1>3, <2>1, UpdateVersionKeeps
<1>4. ASSUME NEW v \in VersionIds, set_default_version(v) \/ delete_version(v) \/ promote_scenario(v) PROVE VsInv'
  BY <1>4, SetDefaultKeeps, DeleteVersionKeeps, PromoteKeeps
<1>5. ASSUME NEW places \in WriteMembers, NEW v \in Refs, NEW x \in VsValues, write_cell(places, v, x) PROVE VsInv'
  BY <1>5, WriteCellKeeps
<1>6. ASSUME NEW archive \in BOOLEAN, NEW a \in Refs, NEW f \in Refs, create_forecast_config(archive, a, f) \/ update_forecast_config(archive, a, f) PROVE VsInv'
  BY <1>6, ConfigsKeep
<1>7. ASSUME NEW n \in 1..LastPeriod, roll_forecast(n) PROVE VsInv'
  BY <1>7, RollReadKeeps, VsConstants DEF roll_forecast
<1>8. ASSUME auto_roll_if_due PROVE VsInv'
  <2>1. PICK n : n = _periods_between(versions[config.forecast].switchover, CurrentPeriod)
    OBVIOUS
  <2>2. n > 0 /\ RollRead(n) /\ config.forecast \in Existing
    BY <1>8, <2>1 DEF auto_roll_if_due
  <2>3. versions[config.forecast] \in VersionRow
    BY <2>2 DEF VsInv, VersionsFit, Existing
  <2>4. n \in Int
    BY <2>1, <2>3, VsConstants DEF VersionRow, _periods_between
  <2> QED
    BY <2>2, <2>4, RollReadKeeps
<1>9. CASE RollCommit
  BY <1>9, RollCommitKeeps
<1>10. CASE delete_scenario
  BY <1>10, ScenariosKeep
<1>11. ASSUME NEW key \in AssumptionKeys, NEW x \in VsValues, add_assumption(key, x) PROVE VsInv'
  BY <1>11, ScenariosKeep
<1>12. ASSUME NEW i \in DOMAIN scenario.assumptions, remove_assumption(i) PROVE VsInv'
  BY <1>12, ScenariosKeep
<1>13. CASE UNCHANGED vsVars
  BY <1>13 DEF vsVars, VsInv, VersionsFit, ScenarioFits
<1> QED
  BY <1>1, <1>2, <1>3, <1>4, <1>5, <1>6, <1>7, <1>8, <1>9, <1>10, <1>11, <1>12, <1>13 DEF VersionsNext, Refs


\* The last assumption that names a place is what the target shows there.
LEMMA PromotionIsShown ==
  ASSUME VsInv, NEW target \in VersionIds, promote_scenario(target)
  PROVE  PromotionShows(target)
<1> DEFINE made == scenario.assumptions
           at(i) == PromotedKey(made[i].key, target)
           Place(key) == remove_versions_from_dimension_key(key, {scenario.base, target})
<1>1. \A key : Place(key) = key \ {V(scenario.base), V(target)}
  BY DEF remove_versions_from_dimension_key
<1>2. \A key : Place(PromotedKey(key, target)) = Place(key)
  <2> TAKE key
  <2>1. PromotedKey(key, target) \in {key \cup {V(target)}, (key \ {V(scenario.base)}) \cup {V(target)}}
    BY VsConstants DEF PromotedKey, ensure_dimension_members_include_version
  <2> HIDE DEF Place
  <2>2. CASE PromotedKey(key, target) = key \cup {V(target)}
    BY <1>1, <2>2
  <2>3. CASE PromotedKey(key, target) = (key \ {V(scenario.base)}) \cup {V(target)}
    BY <1>1, <2>3
  <2> QED
    BY <2>1, <2>2, <2>3
<1>3. \A i \in 1..Len(made) : (\A j \in (i + 1)..Len(made) : at(j) # at(i)) =>
        at(i) \in DOMAIN cells' /\ cells'[at(i)] = [version |-> target, value |-> made[i].value]
  BY PromotedIs DEF promote_scenario
<1>4. DOMAIN made = 1..Len(made)
  BY DEF VsInv, ScenarioFits
<1>5. ASSUME NEW i \in DOMAIN made
      PROVE  /\ [key |-> made[i].key, value |-> made[i].value, modified |-> TRUE] \in evaluate_scenario
             /\ (\E j \in (i + 1)..Len(made) : Place(made[j].key) = Place(made[i].key))
                \/ \E key \in RowsOf(cells', target) : Place(key) = Place(made[i].key) /\ cells'[key].value = made[i].value
  <2>1. [key |-> made[i].key, value |-> made[i].value, modified |-> TRUE] \in evaluate_scenario
    <3>1. made[i] \in Range(made)
      BY DEF Range
    <3> QED
      BY <3>1 DEF evaluate_scenario
  <2>2. ASSUME ~\E j \in (i + 1)..Len(made) : Place(made[j].key) = Place(made[i].key)
        PROVE  \E key \in RowsOf(cells', target) : Place(key) = Place(made[i].key) /\ cells'[key].value = made[i].value
    <3>1. \A j \in (i + 1)..Len(made) : at(j) # at(i)
      <4> SUFFICES ASSUME NEW j \in (i + 1)..Len(made), at(j) = at(i) PROVE FALSE
        OBVIOUS
      <4>1. Place(at(j)) = Place(made[j].key) /\ Place(at(i)) = Place(made[i].key)
        BY <1>2
      <4> HIDE DEF Place, at
      <4> QED
        BY <2>2, <4>1
    <3>2. at(i) \in DOMAIN cells' /\ cells'[at(i)] = [version |-> target, value |-> made[i].value]
      BY <1>3, <1>4, <3>1
    <3>3. at(i) \in RowsOf(cells', target) /\ cells'[at(i)].value = made[i].value
      BY <3>2 DEF RowsOf
    <3> QED
      BY <1>2, <3>3
  <2> QED
    BY <2>1, <2>2
<1> QED
  BY <1>5 DEF PromotionShows

\* The period a key is read as.
LEMMA PeriodIs ==
  ASSUME NEW key, NEW t, t = _parse_period_from_dimension_key(key)
  PROVE  \/ t = 0 /\ \A u \in 1..LastPeriod : Per(u) \notin key
         \/ t \in 1..LastPeriod /\ Per(t) \in key
<1> DEFINE S == {u \in 1..LastPeriod : Per(u) \in key}
<1>1. CASE S = {}
  BY <1>1 DEF _parse_period_from_dimension_key
<1>2. CASE S # {}
  <2>1. S \subseteq Nat
    BY VsConstants
  <2> HIDE DEF S
  <2>2. \E x \in S : \A y \in S : x <= y
    BY <1>2, <2>1, Smallest
  <2>3. Min(S) \in S
    BY <2>2 DEF Min
  <2>4. t = Min(S)
    BY <1>2 DEF _parse_period_from_dimension_key, S
  <2> QED
    BY <2>3, <2>4 DEF S
<1> QED
  BY <1>1, <1>2

\* Keys that name the same periods are read as the same period.
LEMMA SamePeriod ==
  ASSUME NEW key, NEW other, \A u \in 1..LastPeriod : Per(u) \in key <=> Per(u) \in other
  PROVE  _parse_period_from_dimension_key(key) = _parse_period_from_dimension_key(other)
<1>1. {u \in 1..LastPeriod : Per(u) \in key} = {u \in 1..LastPeriod : Per(u) \in other}
  OBVIOUS
<1> QED
  BY <1>1 DEF _parse_period_from_dimension_key

\* A row with its version as stored or as migrated is migrated to the same version.
LEMMA Remigrated ==
  ASSUME NEW stored, CellsFit(stored), NEW after, CellsFit(after), NEW key \in DOMAIN stored, key \in DOMAIN after,
         after[key].version \in {stored[key].version, migrate_legacy_cell_versions(stored)[key].version}
  PROVE  migrate_legacy_cell_versions(after)[key].version = migrate_legacy_cell_versions(stored)[key].version
<1> DEFINE M == migrate_legacy_cell_versions(stored)
           M2 == migrate_legacy_cell_versions(after)
<1>1. /\ M[key].version \in Refs /\ (stored[key].version # NoVersion => M[key] = stored[key])
      /\ \A v \in VersionIds : M[key].version = v <=> key \in OwnedBy(stored, v, Existing)
  BY MigratedIs DEF CellsFit, CellRow
<1>2. /\ M2[key].version \in Refs /\ (after[key].version # NoVersion => M2[key] = after[key])
      /\ \A v \in VersionIds : M2[key].version = v <=> key \in OwnedBy(after, v, Existing)
  BY MigratedIs DEF CellsFit, CellRow
<1> HIDE DEF M, M2
<1>3. CASE after[key].version = stored[key].version
  <2>1. \A v \in VersionIds : key \in OwnedBy(after, v, Existing) <=> key \in OwnedBy(stored, v, Existing)
    BY <1>3 DEF OwnedBy
  <2> QED
    BY <1>1, <1>2, <2>1 DEF Refs, M, M2
<1>4. CASE after[key].version = M[key].version /\ M[key].version # NoVersion
  BY <1>2, <1>4 DEF M, M2
<1>5. M[key].version = NoVersion => stored[key].version = NoVersion
  BY <1>1
<1> QED
  BY <1>3, <1>4, <1>5 DEF M

LEMMA RollIsKept ==
  ASSUME VsInv, RollCommit
  PROVE  RollKeepsEffective
<1> DEFINE a == roll.actuals
           f == roll.forecast
           s == roll.switchover
           n == roll.n
           M == migrate_legacy_cell_versions(cells)
           M2 == migrate_legacy_cell_versions(cells')
           later == _advance_period(s, n)
           to == DOMAIN roll.archived
           Period(key) == _parse_period_from_dimension_key(key)
           Used(rows, key, at) ==
             \/ rows[key].version = a /\ (Period(key) = 0 \/ Period(key) < at)
             \/ rows[key].version = f /\ (Period(key) = 0 \/ ~(Period(key) < at))
           BaseOf(key) == remove_versions_from_dimension_key(key, {a, f})
<1> SUFFICES ASSUME ~RollFails, NameOneVersion(VersionIds), NameOnePeriod, roll.archives, a # f,
                    roll.rows = M, versions[a].exists, s # 0, versions[f].switchover = s
             PROVE  get_cells_with_switchover(cells, a, f, s) \subseteq get_cells_with_switchover(cells', a, f, later)
  BY DEF RollKeepsEffective
<1>1. /\ RollFits(roll) /\ CellsFit(cells') /\ DOMAIN cells' = DOMAIN cells \cup to
      /\ \A key \in DOMAIN cells \ to : cells'[key] = Migrated[key]
      /\ \A key \in to : cells'[key] = Archived(key)
      /\ \A key \in DOMAIN cells :
           /\ Migrated[key].value = cells[key].value
           /\ Migrated[key].version = IF key \in roll.migrated THEN M[key].version ELSE cells[key].version
  BY RollLeaves
<1>2. a \in VersionIds /\ f \in VersionIds /\ a \in Existing /\ f \in Existing
  BY <1>1 DEF RollFits, RollFails, Existing
<1>3. s \in 1..LastPeriod /\ n \in Nat \ {0} /\ later = s + n /\ later <= LastPeriod
  BY <1>1 DEF RollFits, _advance_period
<1>4. CellsFit(cells)
  BY DEF VsInv
<1>5. CellsFit(M) /\ DOMAIN M = DOMAIN cells /\ \A key \in DOMAIN cells : M[key].value = cells[key].value
  BY <1>4, MigratedIs
<1>6. /\ DOMAIN M2 = DOMAIN cells'
      /\ \A key \in DOMAIN cells' : M2[key].value = cells'[key].value /\ (cells'[key].version # NoVersion => M2[key] = cells'[key])
      /\ \A key \in DOMAIN cells \cap DOMAIN cells' :
           cells'[key].version \in {cells[key].version, M[key].version} => M2[key].version = M[key].version
  <2>1. PICK after : after = cells'
    OBVIOUS
  <2>2. CellsFit(after)
    BY <1>1, <2>1
  <2> QED
    BY <1>4, <2>1, <2>2, MigratedIs, Remigrated
<1>7. \A key \in DOMAIN cells : \A v, w \in VersionIds : V(v) \in key /\ V(w) \in key => v = w
  BY DEF NameOneVersion
<1>8. \A key \in DOMAIN cells : M[key].version # NoVersion => V(M[key].version) \in key /\ M[key].version \in VersionIds
  BY <1>5 DEF CellsFit, CellRow, Refs
<1> DEFINE rolled == RolledOf(M, f, n, s)
<1>9. /\ to = {ArchiveKey(key, f, a) : key \in rolled}
      /\ \A new \in to : \E key \in rolled : ArchiveKey(key, f, a) = new /\ roll.archived[new] = M[key].value
  BY <1>1 DEF RollFits, ArchivedFrom
<1>10. ASSUME NEW key \in rolled
       PROVE  /\ key \in DOMAIN cells /\ V(f) \in key /\ V(a) \notin key
              /\ \E i \in 0..(n - 1) : Per(s + i) \in key
  <2>1. key \in DOMAIN M /\ M[key].version = f /\ (\E i \in 0..(n - 1) : Per(s + i) \in key)
    BY DEF RolledOf, RowsOf
  <2> HIDE DEF M, f, a
  <2>2. V(f) \in key /\ key \in DOMAIN cells
    BY <1>2, <1>5, <1>8, <2>1, VsConstants
  <2> QED
    BY <1>2, <1>7, <2>1, <2>2
<1>11. \A key, k2 \in rolled : ArchiveKey(key, f, a) = ArchiveKey(k2, f, a) => key = k2
  <2> TAKE key, k2 \in rolled
  <2>1. V(f) \in key /\ V(a) \notin key /\ V(f) \in k2 /\ V(a) \notin k2
    BY <1>10
  <2> HIDE DEF V
  <2> QED
    BY <2>1 DEF ArchiveKey
<1>12. \A key \in to : V(a) \in key /\ \E i \in 0..(n - 1) : Per(s + i) \in key
  <2> TAKE key \in to
  <2>1. PICK k \in rolled : ArchiveKey(k, f, a) = key
    BY <1>9
  <2>2. PICK i \in 0..(n - 1) : Per(s + i) \in k
    BY <1>10
  <2>3. Per(s + i) # V(f)
    BY DEF Per, V
  <2> QED
    BY <2>1, <2>2, <2>3 DEF ArchiveKey
<1>13. ASSUME NEW new \in to, new \in DOMAIN cells => M[new].version \in {a, NoVersion}
       PROVE  new \in DOMAIN cells' /\ M2[new].version = a /\ M2[new].value = roll.archived[new]
  <2>1. /\ cells'[new].version = IF Adopts(new) THEN a ELSE Migrated[new].version
        /\ cells'[new].value = IF new \in DOMAIN M /\ M[new].value = roll.archived[new] THEN Migrated[new].value ELSE roll.archived[new]
    <3> HIDE DEF M, to
    <3>1. cells'[new] = [version |-> IF Adopts(new) THEN roll.actuals ELSE Migrated[new].version,
                         value |-> IF new \in DOMAIN M /\ M[new].value = roll.archived[new] THEN Migrated[new].value ELSE roll.archived[new]]
      BY <1>1 DEF Archived
    <3> QED
      BY <3>1
  <2>2. new \in DOMAIN cells' /\ (Adopts(new) <=> new \notin DOMAIN M \/ M[new].version = NoVersion)
    BY <1>1 DEF Adopts
  <2> HIDE DEF M, M2, a, to
  <2>3. M2[new].value = roll.archived[new]
    BY <1>1, <1>5, <1>6, <2>1, <2>2
  <2>4. CASE Adopts(new)
    BY <1>2, <1>6, <2>1, <2>2, <2>3, <2>4, VsConstants
  <2>5. CASE ~Adopts(new)
    <3>1. new \in DOMAIN cells /\ M[new].version = a
      BY <1>5, <1>13, <2>2, <2>5
    <3>2. cells'[new].version \in {cells[new].version, M[new].version}
      BY <1>1, <2>1, <2>5, <3>1
    <3> QED
      BY <1>6, <2>2, <2>3, <3>1, <3>2
  <2> QED
    BY <2>4, <2>5
<1> HIDE DEF M, M2, a, f, s, n, later, to, rolled
<1>14. ASSUME NEW key \in DOMAIN cells, key \notin to
       PROVE  key \in DOMAIN cells' /\ M2[key].version = M[key].version /\ M2[key].value = M[key].value
  BY <1>1, <1>5, <1>6, <1>14
<1>15. ASSUME NEW key \in DOMAIN cells, Used(M, key, s)
       PROVE  \E k \in DOMAIN cells' : Used(M2, k, later) /\ BaseOf(k) = BaseOf(key) /\ M2[k].value = M[key].value
  <2>0. PICK t : t = Period(key)
    OBVIOUS
  <2>00. t \in Nat
    BY <2>0, VsConstants, PeriodIs
  <2>1. CASE M[key].version = a
    <3>1. t = 0 \/ t < s
      BY <1>2, <1>15, <2>0, <2>1
    <3>2. key \notin to
      <4> SUFFICES ASSUME key \in to PROVE FALSE
        OBVIOUS
      <4>1. PICK i \in 0..(n - 1) : Per(s + i) \in key
        BY <1>12
      <4>2. s + i \in 1..LastPeriod
        BY <1>3, VsConstants
      <4>3. t \in 1..LastPeriod /\ Per(t) \in key
        BY <2>0, <4>1, <4>2, PeriodIs
      <4>4. t = s + i
        BY <4>1, <4>2, <4>3 DEF NameOnePeriod
      <4> QED
        BY <1>3, <2>00, <3>1, <4>4, <4>3
    <3>3. key \in DOMAIN cells' /\ M2[key].version = M[key].version /\ M2[key].value = M[key].value
      BY <1>14, <3>2
    <3>4. t = 0 \/ t < later
      BY <1>3, <2>00, <3>1
    <3> QED
      BY <2>0, <2>1, <3>3, <3>4
  <2>2. CASE M[key].version = f
    <3>1. t = 0 \/ ~(t < s)
      BY <1>2, <1>15, <2>0, <2>2
    <3>2. V(f) \in key /\ V(a) \notin key
      <4>1. V(f) \in key
        BY <1>2, <1>8, <2>2, VsConstants
      <4> QED
        BY <1>2, <1>7, <4>1
    <3>3. key \in DOMAIN cells' /\ M2[key].version = M[key].version /\ M2[key].value = M[key].value
      BY <1>12, <1>14, <3>2
    <3>4. CASE t = 0 \/ ~(t < later)
      BY <2>0, <2>2, <3>3, <3>4
    <3>5. CASE t # 0 /\ t < later
      <4>1. t \in 1..LastPeriod /\ Per(t) \in key
        BY <2>0, <3>5, PeriodIs
      <4>2. key \in rolled
        <5>1. t - s \in 0..(n - 1) /\ s + (t - s) = t
          BY <1>3, <2>00, <3>1, <3>5
        <5>2. \E i \in 0..(n - 1) : Per(s + i) \in key
          BY <4>1, <5>1
        <5> QED
          BY <1>5, <2>2, <5>2 DEF rolled, RolledOf, RowsOf
      <4>3. PICK new : new = ArchiveKey(key, f, a)
        OBVIOUS
      <4>4. new \in to /\ roll.archived[new] = M[key].value
        <5>1. new \in to
          BY <1>9, <4>2, <4>3
        <5>2. PICK k \in rolled : ArchiveKey(k, f, a) = new /\ roll.archived[new] = M[k].value
          BY <1>9, <5>1
        <5>3. k = key
          BY <1>11, <4>2, <4>3, <5>2
        <5> QED
          BY <5>1, <5>2, <5>3
      <4>5. V(a) \in new
        BY <4>3 DEF ArchiveKey
      <4>6. new \in DOMAIN cells => M[new].version \in {a, NoVersion}
        BY <1>2, <1>7, <1>8, <4>5
      <4>7. new \in DOMAIN cells' /\ M2[new].version = a /\ M2[new].value = M[key].value
        BY <1>13, <4>4, <4>6
      <4>8. Period(new) = t
        <5>1. \A u \in 1..LastPeriod : Per(u) \in new <=> Per(u) \in key
          <6>1. \A u, v : Per(u) # V(v)
            BY DEF Per, V
          <6> QED
            BY <4>3, <6>1 DEF ArchiveKey
        <5> QED
          BY <2>0, <5>1, SamePeriod
      <4>9. BaseOf(new) = BaseOf(key)
        <5>1. BaseOf(new) = new \ {V(a), V(f)} /\ BaseOf(key) = key \ {V(a), V(f)}
          BY DEF remove_versions_from_dimension_key
        <5> HIDE DEF BaseOf, V
        <5> QED
          BY <4>3, <5>1 DEF ArchiveKey
      <4>10. Used(M2, new, later)
        BY <3>5, <4>7, <4>8
      <4> QED
        BY <4>7, <4>9, <4>10
    <3> QED
      BY <3>4, <3>5
  <2> QED
    BY <1>15, <2>1, <2>2
<1>16. get_cells_with_switchover(cells, a, f, s) = {[base |-> BaseOf(key), value |-> M[key].value] : key \in {k \in DOMAIN cells : Used(M, k, s)}}
  BY <1>5 DEF get_cells_with_switchover, _period_is_before, M
<1>17. get_cells_with_switchover(cells', a, f, later) = {[base |-> BaseOf(key), value |-> M2[key].value] : key \in {k \in DOMAIN cells' : Used(M2, k, later)}}
  BY <1>6 DEF get_cells_with_switchover, _period_is_before, M2
<1> HIDE DEF BaseOf, Used
<1> QED
  BY <1>15, <1>16, <1>17

-----------------------------------------------------------------------------
(* Comparisons of two versions, row by row.                                  *)
KeyWithout(rows, key) == IF rows[key].version = NoVersion THEN key ELSE key \ {V(rows[key].version)}
OwnValues(rows, among, v, base) == {rows[key].value : key \in {k \in among : rows[k].version = v /\ KeyWithout(rows, k) = base}}
KnownValues(rows, among, v, base) ==
  IF OwnValues(rows, among, v, base) # {} THEN OwnValues(rows, among, v, base)
  ELSE {rows[key].value : key \in {k \in among : rows[k].version = NoVersion /\ k = base}}
\* Every row belongs to one of a and b and names no other existing version, or names none.
Compares(rows, a, b) ==
  /\ a \in Existing /\ b \in Existing /\ a # b /\ rows = migrate_legacy_cell_versions(cells) /\ CellsFit(rows)
  /\ \A key \in DOMAIN rows :
       /\ rows[key].version \in {a, b, NoVersion}
       /\ \A v \in {a, b} : V(v) \in key <=> rows[key].version = v

LEMMA ComparedRows ==
  ASSUME VsInv, NEW a \in Existing, NEW b \in Existing, a # b, NameOneVersion(Existing),
         NEW rows, rows = migrate_legacy_cell_versions(cells),
         \A key \in DOMAIN rows : rows[key].version \in {a, b, NoVersion}
  PROVE  Compares(rows, a, b)
<1>1. CellsFit(cells)
  BY DEF VsInv
<1>2. /\ CellsFit(rows) /\ DOMAIN rows = DOMAIN cells
      /\ \A key \in DOMAIN cells :
           /\ cells[key].version # NoVersion => rows[key] = cells[key]
           /\ \A v \in VersionIds : rows[key].version = v <=> key \in OwnedBy(cells, v, Existing)
  BY <1>1, MigratedIs
<1>3. a \in VersionIds /\ b \in VersionIds
  BY DEF Existing
<1>4. ASSUME NEW key \in DOMAIN rows, NEW v \in {a, b} PROVE V(v) \in key <=> rows[key].version = v
  <2>1. ASSUME rows[key].version = v PROVE V(v) \in key
    BY <1>2, <1>3, <2>1, VsConstants DEF CellsFit
  <2>2. ASSUME V(v) \in key PROVE rows[key].version = v
    <3>1. \A w \in Existing : V(w) \in key => w = v
      BY <1>2, <2>2 DEF NameOneVersion
    <3>2. CASE rows[key].version = NoVersion
      <4>1. cells[key].version = NoVersion
        BY <1>2, <3>2
      <4>2. {w \in Existing : V(w) \in key} = {v}
        BY <2>2, <3>1
      <4>3. key \in OwnedBy(cells, v, Existing)
        BY <1>2, <4>1, <4>2 DEF OwnedBy
      <4> QED
        BY <1>2, <1>3, <4>3
    <3>3. CASE rows[key].version # NoVersion
      <4>1. rows[key].version \in Existing /\ V(rows[key].version) \in key
        BY <1>2, <3>3 DEF CellsFit
      <4> QED
        BY <3>1, <4>1
    <3> QED
      BY <3>2, <3>3
  <2> QED
    BY <2>1, <2>2
<1> QED
  BY <1>2, <1>4 DEF Compares

MatrixOf(rows, among, vs) ==
  [base \in {KeyWithout(rows, key) : key \in among} |-> [v \in vs |-> KnownValues(rows, among, v, base)]]

\* The comparison of any number of versions, for two.
LEMMA MatrixIs ==
  ASSUME NEW rows, NEW a, NEW b, Compares(rows, a, b), NEW filters
  PROVE  sc_compare_versions({a, b}, filters) = MatrixOf(rows, _fetch_cells_for_line_items(rows, filters), {a, b})
<1> DEFINE vs == {a, b}
           among == _fetch_cells_for_line_items(rows, filters)
           Slot(key) == CellVersion(rows, key, vs)
           Base(key) == remove_versions_from_dimension_key(key, {Slot(key)} \ {NoVersion})
           OwnAt(base, v) == {rows[key].value : key \in {k \in among : Slot(k) = v /\ Base(k) = base}}
           SharedAt(base) == {rows[key].value : key \in {k \in among : Slot(k) = NoVersion /\ k = base}}
<1>1. sc_compare_versions(vs, filters) =
        [base \in {Base(key) : key \in among} |-> [v \in vs |-> IF OwnAt(base, v) # {} THEN OwnAt(base, v) ELSE SharedAt(base)]]
  BY DEF sc_compare_versions, Compares
<1>2. among \subseteq DOMAIN rows
  BY DEF _fetch_cells_for_line_items
<1>3. NoVersion \notin vs
  BY VsConstants DEF Compares, Existing
<1>4. ASSUME NEW key \in among PROVE Slot(key) = rows[key].version /\ Base(key) = KeyWithout(rows, key)
  <2>0. rows[key].version \in {a, b, NoVersion} /\ \A v \in vs : V(v) \in key <=> rows[key].version = v
    BY <1>2 DEF Compares
  <2>1. Slot(key) = rows[key].version
    <3>1. CASE rows[key].version \in vs
      BY <3>1 DEF CellVersion
    <3>2. CASE rows[key].version = NoVersion
      <4>1. ~\E v \in vs : V(v) \in key
        BY <1>3, <2>0, <3>2
      <4> QED
        BY <1>3, <3>2, <4>1 DEF CellVersion
    <3> QED
      BY <2>0, <3>1, <3>2
  <2> HIDE DEF Slot
  <2>2. CASE rows[key].version = NoVersion
    <3>1. {Slot(key)} \ {NoVersion} = {}
      BY <2>1, <2>2
    <3>2. Base(key) = key
      BY <3>1 DEF remove_versions_from_dimension_key
    <3> QED
      BY <2>1, <2>2, <3>2 DEF KeyWithout
  <2>3. CASE rows[key].version # NoVersion
    <3>1. {Slot(key)} \ {NoVersion} = {rows[key].version}
      BY <2>1, <2>3
    <3>2. Base(key) = key \ {V(rows[key].version)}
      BY <3>1 DEF remove_versions_from_dimension_key
    <3> QED
      BY <2>1, <2>3, <3>2 DEF KeyWithout
  <2> QED
    BY <2>2, <2>3
<1> HIDE DEF Slot, Base, among, vs
<1>5. \A base, v : OwnAt(base, v) = OwnValues(rows, among, v, base)
  BY <1>4 DEF OwnValues
<1>6. \A base, v : SharedAt(base) = {rows[key].value : key \in {k \in among : rows[k].version = NoVersion /\ k = base}}
  BY <1>4
<1>7. {Base(key) : key \in among} = {KeyWithout(rows, key) : key \in among}
  BY <1>4
<1>8. \A base, v : (IF OwnAt(base, v) # {} THEN OwnAt(base, v) ELSE SharedAt(base)) = KnownValues(rows, among, v, base)
  <2> HIDE DEF OwnAt, SharedAt
  <2> QED
    BY <1>5, <1>6 DEF KnownValues
<1> DEFINE FoundAt(base, v) == IF OwnAt(base, v) # {} THEN OwnAt(base, v) ELSE SharedAt(base)
           KnownAt(base, v) == KnownValues(rows, among, v, base)
<1>9. \A base, v : FoundAt(base, v) = KnownAt(base, v)
  BY <1>8
<1>10. sc_compare_versions(vs, filters) = [base \in {Base(key) : key \in among} |-> [v \in vs |-> FoundAt(base, v)]]
  BY <1>1
<1>11. PICK D : D = {Base(key) : key \in among}
  OBVIOUS
<1>12. sc_compare_versions(vs, filters) = [base \in D |-> [v \in vs |-> FoundAt(base, v)]]
  BY <1>10, <1>11
<1>13. D = {KeyWithout(rows, key) : key \in among}
  BY <1>7, <1>11
<1> HIDE DEF FoundAt, KnownAt
<1>14. \A base : [v \in vs |-> FoundAt(base, v)] = [v \in vs |-> KnownAt(base, v)]
  BY <1>9
<1>15. [base \in D |-> [v \in vs |-> FoundAt(base, v)]] = [base \in D |-> [v \in vs |-> KnownAt(base, v)]]
  BY <1>14
<1> QED
  BY <1>12, <1>13, <1>15 DEF MatrixOf, among, vs, KnownAt

\* The values of one version, for a base.
LEMMA BaseMapIs ==
  ASSUME NEW rows, NEW a, NEW b, Compares(rows, a, b), NEW v \in {a, b}
  PROVE  /\ \A base : Lookup(BaseMap(rows, v), base) = KnownValues(rows, DOMAIN rows, v, base)
         /\ \A p \in BaseMap(rows, v) : p.base \in {KeyWithout(rows, key) : key \in DOMAIN rows}
         /\ \A key \in DOMAIN rows : rows[key].version \in {v, NoVersion} => \E p \in BaseMap(rows, v) : p.base = KeyWithout(rows, key)
<1> DEFINE all == DOMAIN rows
           own == {[base |-> KeyWithout(rows, key), value |-> rows[key].value] : key \in {k \in all : rows[k].version = v}}
           shared == {[base |-> key, value |-> rows[key].value] : key \in {k \in all : rows[k].version = NoVersion}}
           map == own \cup {s \in shared : \A o \in own : o.base # s.base}
<1>0. v # NoVersion
  BY VsConstants DEF Compares, Existing
<1>1. BaseMap(rows, v) = map
  <2> DEFINE own1 == {[base |-> remove_versions_from_dimension_key(key, {v}), value |-> rows[key].value] : key \in RowsOf(rows, v)}
             shared1 == {[base |-> key, value |-> rows[key].value] : key \in RowsOf(rows, NoVersion)}
  <2>1. BaseMap(rows, v) = own1 \cup {s \in shared1 : \A o \in own1 : o.base # s.base}
    BY DEF BaseMap
  <2>2. \A key \in RowsOf(rows, v) : remove_versions_from_dimension_key(key, {v}) = KeyWithout(rows, key)
    <3> TAKE key \in RowsOf(rows, v)
    <3>1. rows[key].version = v
      BY DEF RowsOf
    <3>2. remove_versions_from_dimension_key(key, {v}) = key \ {V(v)}
      BY DEF remove_versions_from_dimension_key
    <3> QED
      BY <1>0, <3>1, <3>2 DEF KeyWithout
  <2>3. own1 = own
    BY <2>2 DEF RowsOf
  <2>4. shared1 = shared
    BY DEF RowsOf
  <2> HIDE DEF own, own1, shared, shared1
  <2> QED
    BY <2>1, <2>3, <2>4
<1>2. ASSUME NEW base
      PROVE  {p.value : p \in {q \in map : q.base = base}} = KnownValues(rows, all, v, base)
  <2> DEFINE ownValues == OwnValues(rows, all, v, base)
             sharedValues == {rows[key].value : key \in {k \in all : rows[k].version = NoVersion /\ k = base}}
  <2>1. {p.value : p \in {q \in own : q.base = base}} = ownValues
    <3>1. ASSUME NEW p \in own, p.base = base PROVE p.value \in ownValues
      <4>1. PICK key \in {k \in all : rows[k].version = v} : p = [base |-> KeyWithout(rows, key), value |-> rows[key].value]
        OBVIOUS
      <4>2. p.base = KeyWithout(rows, key) /\ p.value = rows[key].value
        BY <4>1
      <4> QED
        BY <3>1, <4>1, <4>2 DEF OwnValues
    <3>2. ASSUME NEW x \in ownValues PROVE \E p \in own : p.base = base /\ p.value = x
      <4>1. PICK key \in all : rows[key].version = v /\ KeyWithout(rows, key) = base /\ x = rows[key].value
        BY DEF OwnValues
      <4>2. PICK p : p = [base |-> KeyWithout(rows, key), value |-> rows[key].value]
        OBVIOUS
      <4>3. p \in own /\ p.base = base /\ p.value = x
        BY <4>1, <4>2
      <4> QED
        BY <4>3
    <3> HIDE DEF own, ownValues
    <3> QED
      BY <3>1, <3>2
  <2>2. {p.value : p \in {q \in shared : q.base = base}} = sharedValues
    <3>1. ASSUME NEW p \in shared, p.base = base PROVE p.value \in sharedValues
      <4>1. PICK key \in {k \in all : rows[k].version = NoVersion} : p = [base |-> key, value |-> rows[key].value]
        OBVIOUS
      <4>2. p.base = key /\ p.value = rows[key].value
        BY <4>1
      <4> QED
        BY <3>1, <4>1, <4>2
    <3>2. ASSUME NEW x \in sharedValues PROVE \E p \in shared : p.base = base /\ p.value = x
      <4>1. PICK key \in all : rows[key].version = NoVersion /\ key = base /\ x = rows[key].value
        OBVIOUS
      <4>2. PICK p : p = [base |-> key, value |-> rows[key].value]
        OBVIOUS
      <4>3. p \in shared /\ p.base = base /\ p.value = x
        BY <4>1, <4>2
      <4> QED
        BY <4>3
    <3> HIDE DEF shared, sharedValues
    <3> QED
      BY <3>1, <3>2
  <2>3. CASE ownValues # {}
    <3>1. PICK o \in own : o.base = base
      BY <2>1, <2>3
    <3>2. {q \in map : q.base = base} = {q \in own : q.base = base}
      <4> HIDE DEF own, shared, ownValues
      <4> QED
        BY <3>1
    <3>3. KnownValues(rows, all, v, base) = ownValues
      BY <2>3 DEF KnownValues
    <3> HIDE DEF own, shared, map, ownValues, sharedValues
    <3> QED
      BY <2>1, <3>2, <3>3
  <2>4. CASE ownValues = {}
    <3>1. {q \in own : q.base = base} = {}
      <4> HIDE DEF own, ownValues
      <4> QED
        BY <2>1, <2>4
    <3>2. {q \in map : q.base = base} = {q \in shared : q.base = base}
      <4> HIDE DEF own, shared, ownValues
      <4> QED
        BY <3>1
    <3>3. KnownValues(rows, all, v, base) = sharedValues
      BY <2>4 DEF KnownValues
    <3> HIDE DEF own, shared, map, ownValues, sharedValues
    <3> QED
      BY <2>2, <3>2, <3>3
  <2> QED
    BY <2>3, <2>4
<1>3. \A p \in map : p.base \in {KeyWithout(rows, key) : key \in all}
  <2>1. \A p \in own : p.base \in {KeyWithout(rows, key) : key \in all}
    OBVIOUS
  <2>2. \A p \in shared : p.base \in {KeyWithout(rows, key) : key \in all}
    BY DEF KeyWithout
  <2> QED
    BY <2>1, <2>2
<1>4. ASSUME NEW key \in all, rows[key].version \in {v, NoVersion} PROVE \E p \in map : p.base = KeyWithout(rows, key)
  <2>1. CASE rows[key].version = v
    <3>1. [base |-> KeyWithout(rows, key), value |-> rows[key].value] \in own
      BY <2>1
    <3>2. \A o : o = [base |-> KeyWithout(rows, key), value |-> rows[key].value] => o.base = KeyWithout(rows, key)
      OBVIOUS
    <3> HIDE DEF own, shared
    <3> QED
      BY <3>1, <3>2
  <2>2. CASE rows[key].version = NoVersion
    <3>1. PICK s : s = [base |-> key, value |-> rows[key].value]
      OBVIOUS
    <3>2. s \in shared /\ s.base = key /\ KeyWithout(rows, key) = key
      BY <2>2, <3>1 DEF KeyWithout
    <3> HIDE DEF own, shared
    <3> QED
      BY <3>2
  <2> QED
    BY <1>4, <2>1, <2>2
<1> HIDE DEF map
<1> QED
  BY <1>1, <1>2, <1>3, <1>4 DEF Lookup

\* A base has one value of a version, or none.
LEMMA OneValue ==
  ASSUME NEW rows, NEW a, NEW b, Compares(rows, a, b), NEW v \in {a, b}, NEW base,
         NEW x \in KnownValues(rows, DOMAIN rows, v, base)
  PROVE  x \in Int /\ KnownValues(rows, DOMAIN rows, v, base) = {x}
<1>0. v # NoVersion
  BY VsConstants DEF Compares, Existing
<1>1. \A key \in DOMAIN rows : rows[key].value \in Int /\ (rows[key].version = v => V(v) \in key)
  BY DEF Compares, CellsFit, CellRow
<1>2. \A k, l \in DOMAIN rows : rows[k].version = v /\ rows[l].version = v /\ KeyWithout(rows, k) = KeyWithout(rows, l) => k = l
  <2> TAKE k, l \in DOMAIN rows
  <2> HAVE rows[k].version = v /\ rows[l].version = v /\ KeyWithout(rows, k) = KeyWithout(rows, l)
  <2>1. V(v) \in k /\ V(v) \in l
    BY <1>1
  <2>2. k \ {V(v)} = l \ {V(v)}
    BY <1>0 DEF KeyWithout
  <2> HIDE DEF V
  <2> QED
    BY <2>1, <2>2
<1>3. CASE OwnValues(rows, DOMAIN rows, v, base) # {}
  <2>1. KnownValues(rows, DOMAIN rows, v, base) = OwnValues(rows, DOMAIN rows, v, base)
    BY <1>3 DEF KnownValues
  <2>2. PICK k \in DOMAIN rows : rows[k].version = v /\ KeyWithout(rows, k) = base /\ x = rows[k].value
    BY <2>1 DEF OwnValues
  <2>3. \A y \in OwnValues(rows, DOMAIN rows, v, base) : y = x
    BY <1>2, <2>2 DEF OwnValues
  <2> QED
    BY <1>1, <2>1, <2>2, <2>3
<1>4. CASE OwnValues(rows, DOMAIN rows, v, base) = {}
  <2>1. KnownValues(rows, DOMAIN rows, v, base) = {rows[key].value : key \in {k \in DOMAIN rows : rows[k].version = NoVersion /\ k = base}}
    BY <1>4 DEF KnownValues
  <2>2. base \in DOMAIN rows /\ x = rows[base].value
    BY <2>1
  <2> QED
    BY <1>1, <2>1, <2>2
<1> QED
  BY <1>3, <1>4

\* Every base that is compared has a value of one of the versions.
LEMMA SomeValue ==
  ASSUME NEW rows, NEW a, NEW b, Compares(rows, a, b), NEW key \in DOMAIN rows
  PROVE  \E v \in {a, b} : KnownValues(rows, DOMAIN rows, v, KeyWithout(rows, key)) # {}
<1>1. CASE rows[key].version = NoVersion
  <2>1. KeyWithout(rows, key) = key
    BY <1>1 DEF KeyWithout
  <2>2. rows[key].value \in {rows[k].value : k \in {l \in DOMAIN rows : rows[l].version = NoVersion /\ l = key}}
    BY <1>1
  <2> QED
    BY <2>1, <2>2 DEF KnownValues
<1>2. CASE rows[key].version # NoVersion
  <2>1. rows[key].version \in {a, b}
    BY <1>2 DEF Compares
  <2>2. rows[key].value \in OwnValues(rows, DOMAIN rows, rows[key].version, KeyWithout(rows, key))
    BY DEF OwnValues
  <2> QED
    BY <2>1, <2>2 DEF KnownValues
<1> QED
  BY <1>1, <1>2


\* What the comparison of two versions shows, as a matrix and as rows.
Bases(rows) == {KeyWithout(rows, key) : key \in DOMAIN rows}
All(rows, v, base) == KnownValues(rows, DOMAIN rows, v, base)
CompareRow(rows, a, b, base) ==
  [base |-> base, values |-> <<All(rows, a, base), All(rows, b, base)>>, variance |-> Diff(All(rows, a, base), All(rows, b, base))]
CompareRows(rows, a, b) == {CompareRow(rows, a, b, base) : base \in Bases(rows)}
Unchanged(rows, a, b) == {base \in Bases(rows) : Diff(All(rows, a, base), All(rows, b, base)) = {0}}
Matrix(rows, a, b) == MatrixOf(rows, DOMAIN rows, {a, b})
FiltersOf(parts) == {{part} : part \in parts}
Having(matrix, parts) == [base \in {x \in DOMAIN matrix : parts \subseteq x} |-> matrix[base]]

LEMMA MatrixShows ==
  ASSUME NEW rows, NEW a, NEW b
  PROVE  /\ DOMAIN Matrix(rows, a, b) = Bases(rows)
         /\ \A base \in Bases(rows) : \A v \in {a, b} : Matrix(rows, a, b)[base][v] = All(rows, v, base)
BY DEF Matrix, MatrixOf, Bases, All

LEMMA BothShow ==
  ASSUME NEW rows, NEW a, NEW b, Compares(rows, a, b)
  PROVE  /\ sc_compare_versions({a, b}, {}) = Matrix(rows, a, b)
         /\ get_comparison_matrix({a, b}) = Matrix(rows, a, b)
         /\ compare_versions(a, b) = CompareRows(rows, a, b)
<1>1. _fetch_cells_for_line_items(rows, {}) = DOMAIN rows
  BY DEF _fetch_cells_for_line_items
<1>2. sc_compare_versions({a, b}, {}) = Matrix(rows, a, b)
  <2>1. sc_compare_versions({a, b}, {}) = MatrixOf(rows, _fetch_cells_for_line_items(rows, {}), {a, b})
    BY MatrixIs
  <2> QED
    BY <1>1, <2>1 DEF Matrix
<1>3. compare_versions(a, b) = CompareRows(rows, a, b)
  <2> DEFINE mapA == BaseMap(rows, a)
             mapB == BaseMap(rows, b)
             RowAt(base) == [base |-> base, values |-> <<Lookup(mapA, base), Lookup(mapB, base)>>,
                           variance |-> Diff(Lookup(mapA, base), Lookup(mapB, base))]
  <2>1. compare_versions(a, b) = {RowAt(base) : base \in {p.base : p \in mapA \cup mapB}}
    BY DEF compare_versions, Compares
  <2>2. \A v \in {a, b} :
          /\ \A base : Lookup(BaseMap(rows, v), base) = All(rows, v, base)
          /\ \A p \in BaseMap(rows, v) : p.base \in Bases(rows)
          /\ \A key \in DOMAIN rows : rows[key].version \in {v, NoVersion} => \E p \in BaseMap(rows, v) : p.base = KeyWithout(rows, key)
    BY BaseMapIs DEF All, Bases
  <2>3. \A base : RowAt(base) = CompareRow(rows, a, b, base)
    <3> TAKE base
    <3>1. Lookup(mapA, base) = All(rows, a, base) /\ Lookup(mapB, base) = All(rows, b, base)
      BY <2>2
    <3> HIDE DEF mapA, mapB
    <3> QED
      BY <3>1 DEF CompareRow
  <2>4. {p.base : p \in mapA \cup mapB} = Bases(rows)
    <3>1. \A p \in mapA \cup mapB : p.base \in Bases(rows)
      BY <2>2
    <3>2. ASSUME NEW key \in DOMAIN rows PROVE \E p \in mapA \cup mapB : p.base = KeyWithout(rows, key)
      <4>1. rows[key].version \in {a, b, NoVersion}
        BY DEF Compares
      <4> QED
        BY <2>2, <4>1
    <3> HIDE DEF mapA, mapB
    <3> QED
      BY <3>1, <3>2 DEF Bases
  <2> HIDE DEF RowAt, mapA, mapB
  <2> QED
    BY <2>1, <2>3, <2>4 DEF CompareRows
<1> QED
  BY <1>2, <1>3 DEF get_comparison_matrix

\* A filter on parts that name no version keeps the bases that have them, whole.
LEMMA FilterKeepsWhole ==
  ASSUME NEW rows, NEW a, NEW b, Compares(rows, a, b), NEW parts, \A part \in parts : part[1] # "v"
  PROVE  sc_compare_versions({a, b}, FiltersOf(parts)) = Having(Matrix(rows, a, b), parts)
<1> DEFINE filters == FiltersOf(parts)
           among == _fetch_cells_for_line_items(rows, filters)
           SomeAt(base, v) == KnownValues(rows, among, v, base)
           WholeAt(base, v) == All(rows, v, base)
<1>1. \A key : key \in among <=> key \in DOMAIN rows /\ parts \subseteq key
  <2>0. /\ \A part \in parts : {part} \in filters
        /\ \A allowed \in filters : \E part \in parts : allowed = {part}
    BY DEF FiltersOf
  <2>1. ASSUME NEW key PROVE (\A allowed \in filters : key \cap allowed # {}) <=> parts \subseteq key
    <3> HIDE DEF filters
    <3>1. ASSUME \A allowed \in filters : key \cap allowed # {}, NEW part \in parts PROVE part \in key
      <4>1. key \cap {part} # {}
        BY <2>0, <3>1
      <4> QED
        BY <4>1
    <3>2. ASSUME parts \subseteq key, NEW allowed \in filters PROVE key \cap allowed # {}
      BY <2>0, <3>2
    <3> QED
      BY <3>1, <3>2
  <2> HIDE DEF filters
  <2> QED
    BY <2>1 DEF _fetch_cells_for_line_items
<1>2. \A key \in DOMAIN rows : parts \subseteq key <=> parts \subseteq KeyWithout(rows, key)
  <2>1. \A v : V(v) \notin parts
    BY DEF V
  <2> HIDE DEF V
  <2> QED
    BY <2>1 DEF KeyWithout
<1> HIDE DEF among
<1>3. {KeyWithout(rows, key) : key \in among} = {x \in Bases(rows) : parts \subseteq x}
  BY <1>1, <1>2 DEF Bases
<1>4. ASSUME NEW base, parts \subseteq base, NEW v PROVE SomeAt(base, v) = WholeAt(base, v)
  <2>1. OwnValues(rows, among, v, base) = OwnValues(rows, DOMAIN rows, v, base)
    BY <1>1, <1>2, <1>4 DEF OwnValues
  <2>2. {rows[key].value : key \in {k \in among : rows[k].version = NoVersion /\ k = base}}
          = {rows[key].value : key \in {k \in DOMAIN rows : rows[k].version = NoVersion /\ k = base}}
    BY <1>1, <1>4
  <2> QED
    BY <2>1, <2>2 DEF KnownValues, All
<1>5. PICK D : D = {x \in Bases(rows) : parts \subseteq x}
  OBVIOUS
<1>6. sc_compare_versions({a, b}, filters) = MatrixOf(rows, among, {a, b})
  BY MatrixIs DEF among
<1>7. MatrixOf(rows, among, {a, b}) = [base \in D |-> [v \in {a, b} |-> SomeAt(base, v)]]
  BY <1>3, <1>5 DEF MatrixOf
<1>8. \A base \in D : \A v : SomeAt(base, v) = WholeAt(base, v)
  BY <1>4, <1>5
<1> HIDE DEF SomeAt, WholeAt, filters
<1>9. \A base \in D : [v \in {a, b} |-> SomeAt(base, v)] = [v \in {a, b} |-> WholeAt(base, v)]
  BY <1>8
<1>10. [base \in D |-> [v \in {a, b} |-> SomeAt(base, v)]] = [base \in D |-> [v \in {a, b} |-> WholeAt(base, v)]]
  BY <1>9
<1>11. Having(Matrix(rows, a, b), parts) = [base \in D |-> [v \in {a, b} |-> WholeAt(base, v)]]
  <2>1. \A base \in D : Matrix(rows, a, b)[base] = [v \in {a, b} |-> WholeAt(base, v)]
    BY <1>5 DEF WholeAt, Matrix, MatrixOf, Bases, All
  <2>2. {x \in DOMAIN Matrix(rows, a, b) : parts \subseteq x} = D
    BY <1>5, MatrixShows
  <2> QED
    BY <2>1, <2>2 DEF Having
<1> QED
  BY <1>6, <1>7, <1>10, <1>11 DEF filters

\* A base counts as unchanged exactly when its variance is shown as 0.
LEMMA UnchangedIs ==
  ASSUME NEW rows, NEW a, NEW b, Compares(rows, a, b)
  PROVE  get_variance_summary(a, b).unchanged = Cardinality(Unchanged(rows, a, b))
<1> DEFINE matrix == Matrix(rows, a, b)
           Missing(base) == {v \in {a, b} : matrix[base][v] = {}}
           Val(base, v) == IF matrix[base][v] = {} THEN 0 ELSE CHOOSE x \in matrix[base][v] : TRUE
           Pos(x) == IF x < 0 THEN -x ELSE x
           Gap(base) == IF Missing(base) = {} THEN Pos(Val(base, b) - Val(base, a)) ELSE Pos(Val(base, a)) + Pos(Val(base, b))
           changed == {base \in DOMAIN matrix : Cardinality(Missing(base)) = 1 \/ (Missing(base) = {} /\ Gap(base) # 0)}
<1>1. get_variance_summary(a, b).unchanged = Cardinality(DOMAIN matrix \ changed)
  <2>1. sc_compare_versions({a, b}, {}) = matrix
    BY BothShow
  <2> HIDE DEF matrix
  <2> QED
    BY <2>1 DEF get_variance_summary
<1>2. DOMAIN matrix = Bases(rows) /\ \A base \in Bases(rows) : \A v \in {a, b} : matrix[base][v] = All(rows, v, base)
  BY MatrixShows
<1>3. a # b
  BY DEF Compares
<1>4. ASSUME NEW base \in Bases(rows)
      PROVE  base \notin changed <=> Diff(All(rows, a, base), All(rows, b, base)) = {0}
  <2>1. \A v \in {a, b} : \A x \in All(rows, v, base) : x \in Int /\ All(rows, v, base) = {x}
    BY OneValue DEF All
  <2>2. \E v \in {a, b} : All(rows, v, base) # {}
    BY SomeValue DEF All, Bases
  <2> HIDE DEF matrix
  <2>3. CASE All(rows, a, base) # {} /\ All(rows, b, base) # {}
    <3>1. PICK x \in Int : All(rows, a, base) = {x}
      BY <2>1, <2>3
    <3>2. PICK y \in Int : All(rows, b, base) = {y}
      BY <2>1, <2>3
    <3>3. Missing(base) = {}
      BY <1>2, <2>3
    <3>4. Val(base, a) = x /\ Val(base, b) = y
      BY <1>2, <3>1, <3>2
    <3>5. Cardinality(Missing(base)) = 0
      BY <3>3, FS_EmptySet
    <3>6. Gap(base) = Pos(y - x)
      <4> HIDE DEF Missing, Val, Pos
      <4> QED
        BY <3>3, <3>4
    <3>7. Pos(y - x) # 0 <=> y - x # 0
      OBVIOUS
    <3>8. Diff(All(rows, a, base), All(rows, b, base)) = {y - x}
      BY <3>1, <3>2 DEF Diff
    <3> HIDE DEF Missing, Gap, Pos
    <3> QED
      BY <1>2, <3>3, <3>5, <3>6, <3>7, <3>8
  <2>4. CASE ~(All(rows, a, base) # {} /\ All(rows, b, base) # {})
    <3>1. PICK v \in {a, b} : Missing(base) = {v}
      BY <1>2, <1>3, <2>2, <2>4
    <3>2. Cardinality(Missing(base)) = 1
      BY <3>1, FS_Singleton
    <3>3. Diff(All(rows, a, base), All(rows, b, base)) = {}
      BY <2>4 DEF Diff
    <3> HIDE DEF Missing, Gap
    <3> QED
      BY <1>2, <3>2, <3>3
  <2> QED
    BY <2>3, <2>4
<1> HIDE DEF matrix, changed
<1>5. DOMAIN matrix \ changed = Unchanged(rows, a, b)
  BY <1>2, <1>4 DEF Unchanged
<1> QED
  BY <1>1, <1>5

\* Of the rows of a comparison as many have a property as bases have it.
LEMMA RowsCount ==
  ASSUME NEW rows, NEW a, NEW b, Compares(rows, a, b)
  PROVE  Cardinality(Unchanged(rows, a, b))
           = Cardinality({row \in CompareRows(rows, a, b) : row.variance = {0}})
<1> DEFINE U == {base \in Bases(rows) : Diff(All(rows, a, base), All(rows, b, base)) = {0}}
           R == {row \in CompareRows(rows, a, b) : row.variance = {0}}
           f == [base \in U |-> CompareRow(rows, a, b, base)]
<1>1. \A base : CompareRow(rows, a, b, base).base = base /\ CompareRow(rows, a, b, base).variance = Diff(All(rows, a, base), All(rows, b, base))
  BY DEF CompareRow
<1>2. IsFiniteSet(U)
  <2>1. IsFiniteSet(DOMAIN rows)
    BY DEF Compares, CellsFit
  <2> DEFINE g == [key \in DOMAIN rows |-> KeyWithout(rows, key)]
  <2>2. g \in Surjection(DOMAIN rows, Bases(rows))
    <3>1. g \in [DOMAIN rows -> Bases(rows)]
      BY DEF Bases
    <3>2. \A base \in Bases(rows) : \E key \in DOMAIN rows : g[key] = base
      BY DEF Bases
    <3> HIDE DEF g
    <3> QED
      BY <3>1, <3>2 DEF Surjection
  <2> HIDE DEF g
  <2>3. IsFiniteSet(Bases(rows))
    BY <2>1, <2>2, FS_Surjection
  <2> QED
    BY <2>3, FS_Subset
<1>3. f \in Bijection(U, R) /\ ExistsBijection(U, R)
  <2>1. f \in [U -> R]
    BY <1>1 DEF CompareRows
  <2>2. \A x, y \in U : f[x] = f[y] => x = y
    BY <1>1
  <2>3. \A row \in R : \E base \in U : f[base] = row
    BY <1>1 DEF CompareRows
  <2> HIDE DEF f, U, R
  <2> QED
    BY <2>1, <2>2, <2>3 DEF Bijection, Injection, IsInjective, Surjection, ExistsBijection
<1> HIDE DEF f, U, R
<1>4. Cardinality(U) = Cardinality(R)
  BY <1>2, <1>3, FS_Bijection
<1> QED
  BY <1>4 DEF U, R, Unchanged

LEMMA ComparisonsHold ==
  ASSUME VsInv
  PROVE  ComparisonsAgree
<1> SUFFICES ASSUME NEW a \in Existing, NEW b \in Existing, a # b, NameOneVersion(Existing),
                    \A key \in DOMAIN migrate_legacy_cell_versions(cells) : migrate_legacy_cell_versions(cells)[key].version \in {a, b, NoVersion}
             PROVE  LET rows == migrate_legacy_cell_versions(cells)
                        matrix == get_comparison_matrix({a, b})
                        compared == compare_versions(a, b)
                        totals == get_variance_summary(a, b)
                    IN /\ {row.base : row \in compared} = DOMAIN matrix
                       /\ \A row \in compared : row.values = <<matrix[row.base][a], matrix[row.base][b]>>
                       /\ totals.unchanged = Cardinality({row \in compared : row.variance = {0}})
                       /\ \A key \in DOMAIN rows :
                            LET parts == {part \in key : part[1] # "v"}
                            IN sc_compare_versions({a, b}, {{part} : part \in parts})
                                 = [base \in {x \in DOMAIN matrix : parts \subseteq x} |-> matrix[base]]
  BY DEF ComparisonsAgree
<1>1. PICK rows : rows = migrate_legacy_cell_versions(cells)
  OBVIOUS
<1>2. Compares(rows, a, b)
  BY <1>1, ComparedRows
<1> DEFINE matrix == get_comparison_matrix({a, b})
           compared == compare_versions(a, b)
           totals == get_variance_summary(a, b)
<1>3. matrix = Matrix(rows, a, b)
  BY <1>2, BothShow
<1>4. compared = CompareRows(rows, a, b)
  BY <1>2, BothShow
<1>5. totals.unchanged = Cardinality({row \in compared : row.variance = {0}})
  <2>1. totals.unchanged = Cardinality(Unchanged(rows, a, b))
    BY <1>2, UnchangedIs
  <2> HIDE DEF compared, totals
  <2> QED
    BY <1>2, <1>4, <2>1, RowsCount
<1> HIDE DEF matrix, compared, totals
<1>6. DOMAIN matrix = Bases(rows)
  BY <1>3, MatrixShows
<1>7. \A base : CompareRow(rows, a, b, base).base = base /\ CompareRow(rows, a, b, base).values = <<All(rows, a, base), All(rows, b, base)>>
  BY DEF CompareRow
<1>8. {row.base : row \in compared} = DOMAIN matrix
  BY <1>4, <1>6, <1>7 DEF CompareRows
<1>9. ASSUME NEW row \in compared PROVE row.values = <<matrix[row.base][a], matrix[row.base][b]>>
  <2>1. PICK base \in Bases(rows) : row = CompareRow(rows, a, b, base)
    BY <1>4 DEF CompareRows
  <2>2. matrix[base][a] = All(rows, a, base) /\ matrix[base][b] = All(rows, b, base)
    BY <1>3, MatrixShows
  <2> QED
    BY <1>7, <2>1, <2>2
<1>10. ASSUME NEW key \in DOMAIN rows
       PROVE  LET parts == {part \in key : part[1] # "v"}
              IN sc_compare_versions({a, b}, {{part} : part \in parts})
                   = [base \in {x \in DOMAIN matrix : parts \subseteq x} |-> matrix[base]]
  <2> DEFINE named == {part \in key : part[1] # "v"}
  <2>1. PICK parts : parts = named
    OBVIOUS
  <2>2. \A part \in parts : part[1] # "v"
    BY <2>1
  <2>3. sc_compare_versions({a, b}, FiltersOf(parts)) = Having(matrix, parts)
    BY <1>2, <1>3, <2>2, FilterKeepsWhole
  <2> HIDE DEF named
  <2>4. sc_compare_versions({a, b}, FiltersOf(named)) = Having(matrix, named)
    BY <2>1, <2>3
  <2> QED
    BY <2>4 DEF named, FiltersOf, Having
<1> QED
  BY <1>1, <1>5, <1>8, <1>9, <1>10 DEF matrix, compared, totals


\* Reading by keys finds the rows that migration gives to a version.
LEMMA ReadsHold ==
  ASSUME VsInv
  PROVE  ReadsAgree
<1> SUFFICES ASSUME NameOneVersion(VersionIds), NEW v \in Existing
             PROVE  read_cells_for_line_item(v, {}) = RowsOf(migrate_legacy_cell_versions(cells), v)
  BY DEF ReadsAgree
<1> DEFINE M == migrate_legacy_cell_versions(cells)
<1>1. CellsFit(cells)
  BY DEF VsInv
<1>2. DOMAIN M = DOMAIN cells /\ \A key \in DOMAIN cells : M[key].version = v <=> key \in OwnedBy(cells, v, Existing)
  BY <1>1, MigratedIs DEF Existing
<1> HIDE DEF M
<1>3. v \in VersionIds /\ v # NoVersion
  BY VsConstants DEF Existing
<1>4. ASSUME NEW key \in DOMAIN cells
      PROVE  (cells[key].version = v \/ V(v) \in key) <=> key \in OwnedBy(cells, v, Existing)
  <2>1. cells[key].version \in Refs /\ (cells[key].version # NoVersion => V(cells[key].version) \in key)
    BY <1>1 DEF CellsFit, CellRow
  <2>2. V(v) \in key => {w \in Existing : V(w) \in key} = {v}
    BY <1>3 DEF NameOneVersion, Existing
  <2>3. CASE cells[key].version \in VersionIds
    BY <1>3, <2>1, <2>3, VsConstants DEF OwnedBy, NameOneVersion
  <2>4. CASE cells[key].version = NoVersion
    BY <1>3, <2>2, <2>4 DEF OwnedBy
  <2> QED
    BY <2>1, <2>3, <2>4 DEF Refs
<1>5. read_cells_for_line_item(v, {}) = {key \in DOMAIN cells : cells[key].version = v \/ V(v) \in key}
  BY <1>3 DEF read_cells_for_line_item, _fetch_cells_for_line_items
<1> QED
  BY <1>2, <1>4, <1>5 DEF RowsOf, M

LEMMA OfTwo ==
  ASSUME NEW x \in Int, NEW y \in Int
  PROVE  /\ Max({x, y}) = IF x >= y THEN x ELSE y
         /\ Min({x, y}) = IF x <= y THEN x ELSE y
<1>1. \E z \in {x, y} : \A w \in {x, y} : z >= w
  OBVIOUS
<1>2. \E z \in {x, y} : \A w \in {x, y} : z <= w
  OBVIOUS
<1>3. Max({x, y}) \in {x, y} /\ \A w \in {x, y} : Max({x, y}) >= w
  BY <1>1 DEF Max
<1>4. Min({x, y}) \in {x, y} /\ \A w \in {x, y} : Min({x, y}) <= w
  BY <1>2 DEF Min
<1> QED
  BY <1>3, <1>4

LEMMA StatusHolds ==
  ASSUME VsInv, RollCommit
  PROVE  StatusFollowsRolls
<1> DEFINE f == roll.forecast
           s == roll.switchover
           e(at) == IF CurrentPeriod - at > 0 THEN CurrentPeriod - at ELSE 0
           rem(horizon, at) == IF horizon - e(at) > 0 THEN horizon - e(at) ELSE 0
<1> SUFFICES ASSUME ~RollFails, config.exists, config.forecast = f, s # 0, versions[f].switchover = s,
                    NEW horizon \in 0..LastPeriod
             PROVE  LET before == get_forecast_status(horizon)
                        after == get_forecast_status(horizon)'
                        caught == Min({roll.n, before.elapsed})
                    IN /\ after.elapsed = before.elapsed - caught
                       /\ after.remaining >= before.remaining /\ after.remaining <= before.remaining + caught
                       /\ after.next = before.next + roll.n
                       /\ roll.n = 1 => versions'[roll.forecast].switchover = before.next
  BY DEF StatusFollowsRolls
<1>1. RollFits(roll)
  BY DEF VsInv, RollCommit, NoRoll
<1>2. /\ s \in 1..LastPeriod /\ roll.n \in Nat \ {0} /\ f \in VersionIds
      /\ _advance_period(s, roll.n) = s + roll.n /\ _advance_period(s, 1) = s + 1
  BY <1>1 DEF RollFits, _advance_period
<1>3. versions[f].exists
  BY DEF RollFails
<1>4. versions' = [versions EXCEPT ![f].switchover = s + roll.n] /\ config' = config
  BY <1>2 DEF RollCommit
<1>5. versions'[f].exists /\ versions'[f].switchover = s + roll.n
  BY <1>2, <1>3, <1>4 DEF VsInv, VersionsFit, VersionRow
<1>6. f \in Existing /\ f \in Existing'
  BY <1>2, <1>3, <1>5 DEF Existing
<1>7. \A at \in Nat : Max({0, _periods_between(at, CurrentPeriod)}) = e(at) /\ Max({0, horizon - e(at)}) = rem(horizon, at)
  BY OfTwo, VsConstants DEF _periods_between
<1>0. \A at \in Nat : e(at) \in Nat
  BY VsConstants
<1> HIDE DEF e, rem
<1>8. get_forecast_status(horizon) = [elapsed |-> e(s), remaining |-> rem(horizon, s), next |-> s + 1]
  <2>1. get_forecast_status(horizon)
          = [elapsed |-> Max({0, _periods_between(s, CurrentPeriod)}),
             remaining |-> Max({0, horizon - Max({0, _periods_between(s, CurrentPeriod)})}), next |-> s + 1]
    BY <1>2, <1>6 DEF get_forecast_status
  <2>2. Max({0, _periods_between(s, CurrentPeriod)}) = e(s) /\ Max({0, horizon - e(s)}) = rem(horizon, s)
    BY <1>2, <1>7
  <2> QED
    BY <2>1, <2>2
<1>9. get_forecast_status(horizon)' = [elapsed |-> e(s + roll.n), remaining |-> rem(horizon, s + roll.n), next |-> s + roll.n + 1]
  <2>1. _advance_period(s + roll.n, 1) = s + roll.n + 1 /\ s + roll.n # 0
    BY <1>2 DEF _advance_period
  <2>2. get_forecast_status(horizon)'
          = [elapsed |-> Max({0, _periods_between(s + roll.n, CurrentPeriod)}),
             remaining |-> Max({0, horizon - Max({0, _periods_between(s + roll.n, CurrentPeriod)})}), next |-> s + roll.n + 1]
    BY <1>4, <1>5, <1>6, <2>1 DEF get_forecast_status
  <2>3. /\ Max({0, _periods_between(s + roll.n, CurrentPeriod)}) = e(s + roll.n)
        /\ Max({0, horizon - e(s + roll.n)}) = rem(horizon, s + roll.n)
    <3>1. PICK later : later = s + roll.n
      OBVIOUS
    <3>2. later \in Nat
      BY <1>2, <3>1
    <3>3. Max({0, _periods_between(later, CurrentPeriod)}) = e(later) /\ Max({0, horizon - e(later)}) = rem(horizon, later)
      BY <1>7, <3>2
    <3> QED
      BY <3>1, <3>3
  <2> DEFINE m == Max({0, _periods_between(s + roll.n, CurrentPeriod)})
  <2>4. m = e(s + roll.n)
    BY <2>3
  <2>5. get_forecast_status(horizon)' = [elapsed |-> m, remaining |-> Max({0, horizon - m}), next |-> s + roll.n + 1]
    BY <2>2
  <2> HIDE DEF m
  <2> QED
    BY <2>3, <2>4, <2>5
<1>10. Min({roll.n, e(s)}) = IF roll.n <= e(s) THEN roll.n ELSE e(s)
  <2>1. PICK y : y = e(s)
    OBVIOUS
  <2>2. y \in Int /\ roll.n \in Int
    BY <1>0, <1>2, <2>1
  <2> QED
    BY <2>1, <2>2, OfTwo
<1> QED
  BY <1>2, <1>5, <1>8, <1>9, <1>10, VsConstants DEF e, rem

(* Readers of versions see what was asked for: a roll of the forecast that nothing       *)
(* overlapped takes no value away from who reads actuals and forecast, a promoted        *)
(* scenario shows in the target what its evaluation showed, and the two comparisons of   *)
(* versions and their summary give one answer, also through filters; reading a version   *)
(* finds what they compare, and the forecast's status follows its rolls                  *)
(* (services/rolling_forecast.py, whatif.py, version.py, scenario_compare.py).           *)
THEOREM VersionsAgreeAlways == VersionsSpec => VersionsAgree
<1>1. VsInv => [/\ ComparisonsAgree /\ ReadsAgree
                /\ RollCommit => RollKeepsEffective /\ StatusFollowsRolls
                /\ \A target \in VersionIds : promote_scenario(target) => PromotionShows(target)]_vsVars
  <2> SUFFICES ASSUME VsInv
               PROVE  /\ ComparisonsAgree /\ ReadsAgree
                      /\ RollCommit => RollKeepsEffective /\ StatusFollowsRolls
                      /\ \A target \in VersionIds : promote_scenario(target) => PromotionShows(target)
    OBVIOUS
  <2> QED
    BY ComparisonsHold, ReadsHold, RollIsKept, StatusHolds, PromotionIsShown
<1> QED
  BY <1>1, VsInitInv, VsNextInv, PTL DEF VersionsSpec, VersionsAgree
=============================================================================
