------------------------------- MODULE CalcCache -------------------------------
(***************************************************************************)
(* The calculation cache of services/calc_cache.py: rows that callers fill   *)
(* with values and formula hashes they computed, invalidate, recalculate     *)
(* and clear.  Statements work on the table, except that an update of a      *)
(* loaded row writes only the columns that differ from what was loaded.      *)
(*                                                                         *)
(* One row per line item stands for its dimension keys.  Line items feed     *)
(* each other in the order of Chain, which is what the dependency graph      *)
(* given to invalidate_dependents returns.                                  *)
(***************************************************************************)
EXTENDS Integers, Sequences, SequencesExt

CONSTANTS CcClients,
          Chain,          \* line items, each computed from the one before
          Computed,       \* what callers cache: <<value, formula hash>>
          MaxCcRequests

ASSUME CacheAssumption == \A p \in Computed: p = <<p[1], p[2]>>

VARIABLES cache,      \* line item -> its row, or NoRow
          ccReqs,     \* client -> its request
          made        \* requests so far

ccVars == <<cache, ccReqs, made>>

(* History: overlapped, its last two sets overlapped; hits, how often it      *)
(* was invalidated; outdated, that happened after its last set had loaded it *)
(* valid; recalculated, it was marked valid since.  id tells a row from the  *)
(* rows of the same line item that were cleared before.                    *)
NoRow == [exists |-> FALSE, value |-> "none", hash |-> "none", valid |-> FALSE, id |-> 0,
          overlapped |-> FALSE, hits |-> 0, outdated |-> FALSE, recalculated |-> FALSE]
NoRequest == [op |-> "none", items |-> <<>>, put |-> <<"none", "none">>, loaded |-> NoRow, ids |-> {}, late |-> FALSE]

CacheInit == cache = [l \in ToSet(Chain) |-> NoRow] /\ ccReqs = [c \in CcClients |-> NoRequest] /\ made = 0

Opens(c, req) ==
  /\ ccReqs[c] = NoRequest /\ made < MaxCcRequests /\ made' = made + 1
  /\ ccReqs' = [ccReqs EXCEPT ![c] = req]
(* get_recalc_order of the changed item: itself and what depends on it, or   *)
(* itself alone when the graph raises.                                      *)
Downstream(i) == {SubSeq(Chain, i, Len(Chain)), <<Chain[i]>>}
(* get_cached_value: what a reader is served.  Nothing else reads            *)
(* expires_at, so that whether it has passed is the reader's choice.         *)
get_cached_value(l, expired) ==
  IF cache[l].valid /\ ~expired THEN <<cache[l].value, cache[l].hash>> ELSE <<"none", "none">>

(* The select of set_cached_value.                                         *)
LoadForSet(c, l) ==
  /\ \E p \in Computed: Opens(c, [NoRequest EXCEPT !.op = "set", !.items = <<l>>, !.put = p, !.loaded = cache[l]])
  /\ UNCHANGED cache
(* Other sets of the row that are under way have loaded what is no more.    *)
Overlapping(c, l) == {d \in CcClients \ {c}: ccReqs[d].op = "set" /\ ccReqs[d].items = <<l>>}
Changed_Always(old, new, now) == new
(* The ORM sends the columns that differ from the loaded row.              *)
Changed(old, new, now) == IF old = new THEN now ELSE new
Updated(req, row) ==
  [row EXCEPT !.value = Changed(req.loaded.value, req.put[1], @), !.hash = Changed(req.loaded.hash, req.put[2], @),
              !.valid = Changed(req.loaded.valid, TRUE, @)]
Inserted(c, req) == [NoRow EXCEPT !.exists = TRUE, !.value = req.put[1], !.hash = req.put[2], !.valid = TRUE, !.id = made]
(* set_cached_value: a second insert violates uq_calc_cache_line_item_       *)
(* dimension, an update of a row that was cleared meanwhile fails.          *)
set_cached_value(c) ==
  LET req == ccReqs[c]  l == req.items[1]  row == cache[l]
      noted(r) == [r EXCEPT !.overlapped = req.late,
                                !.outdated = @ /\ req.loaded.valid /\ row.hits > req.loaded.hits]
      inserts == ~req.loaded.exists /\ ~row.exists
      updates == req.loaded.exists /\ row.id = req.loaded.id
  IN  /\ req.op = "set"
      /\ cache' = IF inserts THEN [cache EXCEPT ![l] = noted(Inserted(c, req))]
                  ELSE IF updates THEN [cache EXCEPT ![l] = noted(Updated(req, row))] ELSE cache
      /\ ccReqs' = [d \in CcClients |-> IF d = c THEN NoRequest
                      ELSE IF d \in Overlapping(c, l) /\ (inserts \/ updates) THEN [ccReqs[d] EXCEPT !.late = TRUE] ELSE ccReqs[d]]
      /\ UNCHANGED made

(* invalidate_dependents: one UPDATE and commit per item, in order.         *)
invalidate_dependents(c) ==
  /\ \E i \in DOMAIN Chain: \E items \in Downstream(i): Opens(c, [NoRequest EXCEPT !.op = "invalidate", !.items = items])
  /\ UNCHANGED cache
Invalidated(row) == [row EXCEPT !.valid = FALSE, !.hits = @ + 1, !.outdated = TRUE, !.recalculated = FALSE]
invalidate_cache(c) ==
  LET l == ccReqs[c].items[1]
      rest == Tail(ccReqs[c].items)
  IN  /\ ccReqs[c].op = "invalidate"
      /\ cache' = IF cache[l].exists THEN [cache EXCEPT ![l] = Invalidated(@)] ELSE cache
      /\ ccReqs' = [ccReqs EXCEPT ![c] = IF rest = <<>> THEN NoRequest ELSE [ccReqs[c] EXCEPT !.items = rest]]
      /\ UNCHANGED made
(* recalculate_stale loads the invalid rows and marks them valid without     *)
(* evaluating anything; if one of them was cleared meanwhile it fails.      *)
get_stale_entries(c) ==
  LET stale == {l \in DOMAIN cache: cache[l].exists /\ ~cache[l].valid} IN
  /\ stale # {} /\ Opens(c, [NoRequest EXCEPT !.op = "recalculate", !.items = SetToSeq(stale), !.ids = {<<l, cache[l].id>>: l \in stale}])
  /\ UNCHANGED cache
recalculate_stale(c) ==
  LET req == ccReqs[c]
      marked == {l \in DOMAIN cache: <<l, cache[l].id>> \in req.ids}
  IN  /\ req.op = "recalculate"
      /\ cache' = IF marked # ToSet(req.items) THEN cache
                  ELSE [l \in DOMAIN cache |-> IF l \in marked THEN [cache[l] EXCEPT !.valid = TRUE, !.recalculated = TRUE] ELSE cache[l]]
      /\ ccReqs' = [ccReqs EXCEPT ![c] = NoRequest]
      /\ UNCHANGED made
clear_cache(c) == ccReqs[c] = NoRequest /\ made < MaxCcRequests /\ made' = made + 1 /\ cache' = [l \in DOMAIN cache |-> NoRow] /\ UNCHANGED ccReqs

CacheNext ==
  \E c \in CcClients:
    \/ \E l \in DOMAIN cache: LoadForSet(c, l)
    \/ set_cached_value(c) \/ invalidate_dependents(c) \/ invalidate_cache(c)
    \/ get_stale_entries(c) \/ recalculate_stale(c) \/ clear_cache(c)

----------------------------------------------------------------------------
(* What readers are served was computed by one caller, unless two sets of    *)
(* the row overlapped, each writing the columns that differed; and a row     *)
(* that was invalidated is served again only when a set had loaded it        *)
(* invalid, or recalculate_stale marked it (get_cached_value,                *)
(* set_cached_value).                                                      *)
ServesWhatWasSet ==
  \A l \in DOMAIN cache, expired \in BOOLEAN:
    LET served == get_cached_value(l, expired)
    IN  cache[l].exists /\ served # <<"none", "none">> =>
          /\ ~cache[l].overlapped => served \in Computed
          /\ cache[l].outdated => cache[l].recalculated
===============================================================================
