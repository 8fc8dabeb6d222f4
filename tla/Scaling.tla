-------------------------------- MODULE Scaling --------------------------------
(***************************************************************************)
(* What several API nodes share through Redis (services/horizontal_scaling): *)
(* the sticky assignment of one model to a node, one cache entry and one     *)
(* channel of events.  Every call of Redis may fail, with or without effect, *)
(* and the node then serves the request from its own memory; both forget     *)
(* entries when they expire.                                                *)
(***************************************************************************)
EXTENDS Integers, Sequences, SequencesExt, FiniteSets

CONSTANTS Nodes, ScClients,
          EventCap,         \* _MAX_EVENTS_PER_CHANNEL
          MaxScRequests, MaxFaults, MaxExpiries

ASSUME ScalingAssumption == EventCap \in Nat /\ IsFiniteSet(ScClients) /\ "nobody" \notin Nodes

VARIABLES redis,     \* [assigned, cached, events]
          memory,    \* node -> the same of its process
          calls,     \* client -> its request
          seen,      \* nodes Redis named since the assignment was last forced or lost
          raced,     \* an assignment expired inside a request
          pushed,    \* events ever pushed to the list of Redis
          used       \* [requests, faults, expiries]

scVars == <<redis, memory, calls, seen, raced, pushed, used>>

Nobody == "nobody"
EmptyState == [assigned |-> Nobody, cached |-> 0, events |-> <<>>]
AtRest == [at |-> "rest", node |-> Nobody, target |-> Nobody, event |-> 0]

ScalingInit ==
  /\ redis = EmptyState /\ memory = [n \in Nodes |-> EmptyState]
  /\ calls = [c \in ScClients |-> AtRest]
  /\ seen = {} /\ raced = FALSE /\ pushed = <<>>
  /\ used = [requests |-> 0, faults |-> 0, expiries |-> 0]

Now(c, at) == calls[c].at = at
Goes(c, at) == calls' = [calls EXCEPT ![c].at = at]
Rests(c) == calls' = [calls EXCEPT ![c] = AtRest]
Call(c, at, n, target) ==
  /\ Now(c, "rest") /\ used.requests < MaxScRequests
  /\ used' = [used EXCEPT !.requests = @ + 1]
  /\ calls' = [calls EXCEPT ![c] = [at |-> at, node |-> n, target |-> target, event |-> used.requests + 1]]
  /\ UNCHANGED <<redis, memory, seen, raced, pushed>>
(* The except clauses: Redis does not answer in time.                      *)
Fault == used.faults < MaxFaults /\ used' = [used EXCEPT !.faults = @ + 1]

----------------------------------------------------------------------------
Claims_Always == TRUE
(* SET ... NX takes the key when nobody has it.                            *)
Claims == redis.assigned = Nobody
Forced(c) == Now(c, "force")
ClaimInRedis(c) ==
  /\ Now(c, "claim") \/ Forced(c)
  /\ IF Forced(c) \/ Claims
     THEN /\ redis' = [redis EXCEPT !.assigned = calls[c].target]
          /\ seen' = IF Forced(c) THEN {calls[c].target} ELSE seen \cup {calls[c].target}
          /\ Rests(c)
     ELSE Goes(c, "read_holder") /\ UNCHANGED <<redis, seen>>
  /\ UNCHANGED <<memory, raced, pushed, used>>
ReadHolder(c) ==
  /\ Now(c, "read_holder")
  /\ IF redis.assigned = Nobody THEN Goes(c, "remember") /\ raced' = TRUE /\ UNCHANGED seen
     ELSE Rests(c) /\ seen' = seen \cup {redis.assigned} /\ UNCHANGED raced
  /\ UNCHANGED <<redis, memory, pushed, used>>
ClaimFails(c) ==
  /\ Now(c, "claim") \/ Now(c, "force") \/ Now(c, "read_holder")
  /\ Fault /\ Goes(c, IF Forced(c) THEN "remember_forced" ELSE "remember")
  /\ \/ UNCHANGED <<redis, seen>>
     \/ ~Now(c, "read_holder") /\ (Forced(c) \/ Claims) /\ redis' = [redis EXCEPT !.assigned = calls[c].target]
        /\ seen' = IF Forced(c) THEN {calls[c].target} ELSE seen \cup {calls[c].target}
  /\ UNCHANGED <<memory, raced, pushed>>
(* An assignment a node remembers stays unless the caller forces another.  *)
Remember(c) ==
  LET n == calls[c].node IN
  /\ Now(c, "remember") \/ Now(c, "remember_forced")
  /\ memory' = IF memory[n].assigned = Nobody \/ Now(c, "remember_forced") THEN [memory EXCEPT ![n].assigned = calls[c].target] ELSE memory
  /\ Rests(c)
  /\ UNCHANGED <<redis, seen, raced, pushed, used>>
(* get_model_assignment: Redis, then memory, then an assignment to itself.  *)
GetAssignment(c) ==
  LET n == calls[c].node IN
  /\ Now(c, "get")
  /\ \/ /\ redis.assigned # Nobody /\ Rests(c) /\ seen' = seen \cup {redis.assigned} /\ UNCHANGED used
     \/ /\ redis.assigned = Nobody /\ UNCHANGED <<seen, used>>
        /\ IF memory[n].assigned # Nobody THEN Rests(c) ELSE Goes(c, "claim")
     \/ /\ Fault /\ UNCHANGED seen
        /\ IF memory[n].assigned # Nobody THEN Rests(c) ELSE Goes(c, "claim")
  /\ UNCHANGED <<redis, memory, raced, pushed>>

set_cache_entry(c) ==
  LET n == calls[c].node  v == calls[c].event IN
  /\ Now(c, "set") /\ Rests(c)
  /\ \/ redis' = [redis EXCEPT !.cached = v] /\ UNCHANGED <<memory, used>>
     \/ /\ Fault /\ memory' = [memory EXCEPT ![n].cached = v]
        /\ redis' \in {redis, [redis EXCEPT !.cached = v]}
  /\ UNCHANGED <<seen, raced, pushed>>

(* LTRIM 0 .. _MAX_EVENTS_PER_CHANNEL - 1.                                 *)
KeptEvents(list) == SubSeq(list, 1, IF Len(list) < EventCap THEN Len(list) ELSE EventCap)
Push(c) ==
  /\ Now(c, "push")
  /\ redis' = [redis EXCEPT !.events = <<calls[c].event>> \o @]
  /\ pushed' = <<calls[c].event>> \o pushed
  /\ Goes(c, "trim")
  /\ UNCHANGED <<memory, seen, raced, used>>
Appended(n, e) == [memory EXCEPT ![n].events = KeptEvents(<<e>> \o @)]
Trim(c) ==
  /\ Now(c, "trim") /\ Rests(c)
  /\ redis' = [redis EXCEPT !.events = KeptEvents(@)]
  /\ memory' = Appended(calls[c].node, calls[c].event)
  /\ UNCHANGED <<seen, raced, pushed, used>>
PublishFails(c) ==
  LET e == calls[c].event IN
  /\ Now(c, "push") \/ Now(c, "trim")
  /\ Fault /\ Rests(c) /\ memory' = Appended(calls[c].node, e)
  /\ \/ UNCHANGED <<redis, pushed>>
     \/ Now(c, "push") /\ redis' = [redis EXCEPT !.events = <<e>> \o @] /\ pushed' = <<e>> \o pushed
  /\ UNCHANGED <<seen, raced>>

Expire ==
  /\ used.expiries < MaxExpiries /\ used' = [used EXCEPT !.expiries = @ + 1]
  /\ \/ redis' = [redis EXCEPT !.assigned = Nobody] /\ seen' = {} /\ UNCHANGED memory
     \/ \E n \in Nodes: memory' = [memory EXCEPT ![n].assigned = Nobody] /\ UNCHANGED <<redis, seen>>
  /\ UNCHANGED <<calls, raced, pushed>>

ScalingNext ==
  \/ \E c \in ScClients:
       \/ \E n \in Nodes: Call(c, "get", n, n) \/ Call(c, "set", n, n) \/ Call(c, "push", n, n)
       \/ \E n, t \in Nodes: Call(c, "claim", n, t) \/ Call(c, "force", n, t)
       \/ ClaimInRedis(c) \/ ReadHolder(c) \/ ClaimFails(c) \/ Remember(c) \/ GetAssignment(c)
       \/ set_cache_entry(c) \/ Push(c) \/ Trim(c) \/ PublishFails(c)
  \/ Expire

----------------------------------------------------------------------------
Untrimmed == Cardinality({c \in ScClients: Now(c, "trim")}) + used.faults
(* While Redis answers and no assignment expires inside a request, nodes     *)
(* use nothing they remember alone; Redis never names two nodes between two  *)
(* forced or expired assignments; and the newest events are never trimmed,   *)
(* however pushes and trims of several nodes interleave, while no more stay  *)
(* than the cap and the pushes that were not trimmed.                       *)
NodesAgree ==
  /\ used.faults = 0 => \A n \in Nodes: memory[n].cached = 0 /\ (memory[n].assigned # Nobody => raced)
  /\ Cardinality(seen) <= 1
  /\ IsPrefix(KeptEvents(pushed), redis.events) /\ IsPrefix(redis.events, pushed)
  /\ Len(redis.events) <= EventCap + Untrimmed
===============================================================================
