------------------------------- MODULE Presence -------------------------------
(***************************************************************************)
(* Presence and broadcasting of one model: services/collaboration.py and    *)
(* the WebSocket handler of api/collaboration.py.  A handler registers its   *)
(* user (rows of presence_sessions, one per user by intention only), joins   *)
(* the ConnectionManager's list, announces itself, serves messages and       *)
(* leaves.  It gives way at every query and every send.                      *)
(***************************************************************************)
EXTENDS Integers, Sequences, SequencesExt, FiniteSets

CONSTANTS Sockets,      \* WebSocket connections a client opens
          UserOf,       \* socket -> its user
          MaxPresenceEvents \* messages, clients that go away and sessions deleted over REST

VARIABLES rows,      \* presence_sessions: session id -> user
          handlers,  \* socket -> its handler
          conns,     \* ConnectionManager._connections: <<socket, session>> in order
          gone,      \* sockets nobody listens to any more
          nextId,    \* the next session id
          events,    \* how many of those there were
          deleted    \* session ids removed by the REST endpoint

presenceVars == <<rows, handlers, conns, gone, nextId, events, deleted>>

NoSession == 0
(* at: where the handler is; found: the row its registration read; then:     *)
(* where it goes on after a broadcast, which has todo left and dead found;   *)
(* overlapped: another registration of the user committed meanwhile.        *)
Closed == [at |-> "closed", session |-> NoSession, found |-> NoSession, todo |-> <<>>, dead |-> <<>>, then |-> "none", overlapped |-> FALSE]

PresenceInit ==
  /\ rows = [i \in {} |-> "none"]
  /\ handlers = [s \in Sockets |-> Closed]
  /\ conns = <<>> /\ gone = {} /\ nextId = 1 /\ events = 0 /\ deleted = {}

Happens == events < MaxPresenceEvents /\ events' = events + 1
At(s, at) == handlers[s].at = at
RowsOf(u) == {i \in DOMAIN rows: rows[i] = u}
Step(s, h) == handlers' = [handlers EXCEPT ![s] = h]
With(s, at) == [handlers[s] EXCEPT !.at = at, !.then = "none", !.dead = <<>>]
(* A handler that has ended: the server closes its socket.                 *)
Ends(s, at) == Step(s, [Closed EXCEPT !.at = at, !.session = handlers[s].session, !.overlapped = handlers[s].overlapped])
                /\ gone' = gone \cup {s}

(* register_presence: with two rows of the user scalar_one_or_none raises.  *)
FindPresence(s) ==
  /\ At(s, "closed") /\ s \notin gone
  /\ IF Cardinality(RowsOf(UserOf[s])) > 1 THEN Ends(s, "refused")
     ELSE /\ UNCHANGED gone
          /\ Step(s, [With(s, "found") EXCEPT !.found = IF RowsOf(UserOf[s]) = {} THEN NoSession ELSE CHOOSE i \in RowsOf(UserOf[s]): TRUE])
  /\ UNCHANGED <<rows, conns, nextId, events, deleted>>
Meanwhile(s) == [t \in Sockets |-> IF t # s /\ UserOf[t] = UserOf[s] /\ At(t, "found") THEN [handlers[t] EXCEPT !.overlapped = TRUE] ELSE handlers[t]]
(* An update of a row that was deleted meanwhile fails.                    *)
register_presence(s) ==
  /\ At(s, "found")
  /\ LET found == handlers[s].found
         joined(i) == [Meanwhile(s) EXCEPT ![s] = [With(s, "registered") EXCEPT !.session = i, !.found = NoSession]]
     IN  \/ /\ found = NoSession
            /\ rows' = [i \in DOMAIN rows \cup {nextId} |-> IF i = nextId THEN UserOf[s] ELSE rows[i]]
            /\ nextId' = nextId + 1 /\ handlers' = joined(nextId) /\ UNCHANGED gone
         \/ found \in DOMAIN rows /\ handlers' = joined(found) /\ UNCHANGED <<rows, nextId, gone>>
         \/ found # NoSession /\ found \notin DOMAIN rows /\ Ends(s, "refused") /\ UNCHANGED <<rows, nextId>>
  /\ UNCHANGED <<conns, events, deleted>>

(* What stays of a list, in its order, without some of the connections: the   *)
(* k-th is the one with k of them up to it.                                 *)
ListWithout(list, removed) ==
  LET left == {i \in DOMAIN list: list[i] \notin removed}
  IN  [k \in 1..Cardinality(left) |-> list[CHOOSE i \in left: Cardinality({j \in left: j <= i}) = k]]
OfSession(list, id) == {c \in ToSet(list): c[2] = id}

(* broadcast: to a copy of the list, without the sender's session; those     *)
(* that cannot be reached are removed afterwards.                           *)
Broadcast(s, list, exclude, then) ==
  Step(s, [With(s, "broadcast") EXCEPT !.todo = ListWithout(list, OfSession(list, exclude)), !.dead = <<>>, !.then = then])
connect(s) ==
  /\ At(s, "registered")
  /\ conns' = Append(conns, <<s, handlers[s].session>>)
  /\ Broadcast(s, conns', handlers[s].session, "open")
  /\ UNCHANGED <<rows, gone, nextId, events, deleted>>
Send(s) ==
  /\ At(s, "broadcast") /\ handlers[s].todo # <<>>
  /\ LET c == Head(handlers[s].todo)
     IN  Step(s, [handlers[s] EXCEPT !.todo = Tail(@), !.dead = IF c[1] \in gone THEN Append(@, c) ELSE @])
  /\ UNCHANGED <<rows, conns, gone, nextId, events, deleted>>
(* list.remove raises when the connection is no longer there: the join       *)
(* broadcast is outside the handler's try, one of its messages inside, the   *)
(* last one in its finally.                                                 *)
RemoveDead(s) ==
  LET h == handlers[s]
      missing == {i \in DOMAIN h.dead: ~Contains(conns, h.dead[i])}
      removed == IF missing = {} THEN ToSet(h.dead) ELSE {h.dead[i]: i \in {j \in DOMAIN h.dead: \A k \in missing: j < k}}
  IN  /\ At(s, "broadcast") /\ h.todo = <<>>
      /\ conns' = ListWithout(conns, removed)
      /\ IF missing = {} THEN (IF h.then = "done" THEN Ends(s, "done") ELSE Step(s, With(s, h.then)) /\ UNCHANGED gone)
         ELSE CASE h.then = "open" -> Ends(s, "unjoined") [] h.then = "serving" -> Step(s, With(s, "leaving")) /\ UNCHANGED gone
                [] h.then = "done" -> Ends(s, "done")
      /\ UNCHANGED <<rows, nextId, events, deleted>>
Serving(s) == handlers[s].at \in {"open", "serving"}
(* cell_change and cursor_move are broadcast; heartbeats and cursors touch   *)
(* only the row's time and cursor, if it is still there.                    *)
Receive(s) ==
  /\ Serving(s) /\ s \notin gone /\ Happens
  /\ Broadcast(s, conns, handlers[s].session, "serving")
  /\ UNCHANGED <<rows, conns, gone, nextId, deleted>>
Vanish(s) ==
  /\ s \notin gone /\ Happens
  /\ gone' = gone \cup {s}
  /\ UNCHANGED <<rows, handlers, conns, nextId, deleted>>
NoticeDisconnect(s) == Serving(s) /\ s \in gone /\ Step(s, With(s, "leaving")) /\ UNCHANGED <<rows, conns, gone, nextId, events, deleted>>
disconnect_Nothing(s) == conns
(* The finally block: all connections of the session leave the list, the     *)
(* row is deleted, the others are told.                                     *)
disconnect(s) == ListWithout(conns, OfSession(conns, handlers[s].session))
Leave(s) ==
  /\ At(s, "leaving")
  /\ conns' = disconnect(s)
  /\ Step(s, With(s, "left"))
  /\ UNCHANGED <<rows, gone, nextId, events, deleted>>
Without_(i) == [k \in DOMAIN rows \ {i} |-> rows[k]]
remove_presence(s) ==
  /\ At(s, "left")
  /\ rows' = Without_(handlers[s].session)
  /\ Broadcast(s, conns, NoSession, "done")
  /\ UNCHANGED <<conns, gone, nextId, events, deleted>>
(* DELETE /presence/{session_id}, by the user it belongs to.               *)
delete_presence(i) ==
  /\ i \in DOMAIN rows /\ Happens
  /\ rows' = Without_(i) /\ deleted' = deleted \cup {i}
  /\ UNCHANGED <<handlers, conns, gone, nextId>>

PresenceNext ==
  \/ \E s \in Sockets: FindPresence(s) \/ register_presence(s) \/ connect(s) \/ Send(s) \/ RemoveDead(s) \/ Receive(s)
                       \/ Vanish(s) \/ NoticeDisconnect(s) \/ Leave(s) \/ remove_presence(s)
  \/ \E i \in DOMAIN rows: delete_presence(i)

----------------------------------------------------------------------------
Attached(s) == Serving(s) \/ (At(s, "broadcast") /\ handlers[s].then \in {"open", "serving"})
Alone(s) == \A t \in Sockets \ {s}: UserOf[t] # UserOf[s] \/ At(t, "closed")
Overlaps(u) == \E s \in Sockets: UserOf[s] = u /\ handlers[s].overlapped
(* A user with one connection is present as long as it is served: listed,   *)
(* unless somebody found the client gone, and with a row, unless the user   *)
(* deleted it.  A user has two rows only when registrations overlapped, and *)
(* what handlers leave behind when they have all ended are the listings of   *)
(* connections whose join broadcast failed.                                 *)
PresenceFollowsSockets ==
  /\ \A s \in Sockets: Attached(s) /\ Alone(s) =>
       /\ s \in gone \/ Contains(conns, <<s, handlers[s].session>>)
       /\ handlers[s].session \in DOMAIN rows \cup deleted
  /\ \A u \in {UserOf[s]: s \in Sockets}: Cardinality(RowsOf(u)) > 1 => Overlaps(u)
  /\ \A i \in DOMAIN conns: LET s == conns[i][1] IN Attached(s) \/ handlers[s].at \in {"leaving", "unjoined"}
  /\ \A i \in DOMAIN rows: \E s \in Sockets:
        handlers[s].session = i /\ handlers[s].at \in {"registered", "open", "serving", "broadcast", "leaving", "left", "unjoined"}
=============================================================================
