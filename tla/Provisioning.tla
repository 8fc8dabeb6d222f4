------------------------------ MODULE Provisioning ------------------------------
(***************************************************************************)
(* Users and one group provisioned over SCIM and by signing on                *)
(* (services/scim.py, api/scim.py, services/sso.py).                         *)
(*                                                                         *)
(* A user is looked up by its email, then inserted, then the log is written:     *)
(* three commits or reads that other requests come between.  The members of a    *)
(* group are replaced from the collection that was loaded.  Emails are unique.   *)
(***************************************************************************)
EXTENDS Integers, Sequences, FiniteSets, SequencesExt

CONSTANTS Emails, ScimClients,
          Patches,      \* sequences of operations [active, email] a PATCH may hold, <<>> for what is not given
          MemberLists,  \* sequences of user ids a group may be sent, of users there are or not
          AutoProvision,\* the provider's setting
          MaxScimOps    \* bound on the requests

\* There are finitely many emails; an operation gives each of its fields once at most.
ASSUME ScimAssumption ==
  /\ IsFiniteSet(Emails) /\ AutoProvision \in BOOLEAN
  /\ Patches \subseteq Seq([active : {<<>>} \cup {<<b>> : b \in BOOLEAN}, email : {<<>>} \cup {<<e>> : e \in Emails}])
  /\ MemberLists \subseteq Seq(Nat)

NoScimRequest == [kind |-> "none"]

VARIABLES users,      \* user id -> [email, active]
          groupRows,  \* row id -> user id: the members of the group
          nextMember, \* row ids given out
          scimLog,    \* operations that were logged, with their user
          created,    \* emails whose creation somebody was told of
          scimRequests,
          scimOps

scimVars == <<users, groupRows, nextMember, scimLog, created, scimRequests, scimOps>>

ProvisioningInit ==
  /\ \E E \in SUBSET Emails : users = [i \in 1..Cardinality(E) |-> [email |-> SetToSeq(E)[i], active |-> TRUE]]
  /\ groupRows = <<>> /\ nextMember = 0 /\ scimLog = <<>> /\ created = <<>>
  /\ scimRequests = [c \in ScimClients |-> NoScimRequest] /\ scimOps = 0

ScimCounted == scimOps < MaxScimOps /\ scimOps' = scimOps + 1
ScimOverlapped(by) ==
  [c \in ScimClients |-> IF c = by \/ scimRequests[c].kind = "none" THEN scimRequests[c] ELSE [scimRequests[c] EXCEPT !.alone = FALSE]]
ScimBegins(c, request) ==
  /\ ScimCounted /\ scimRequests[c] = NoScimRequest
  /\ scimRequests' = [scimRequests EXCEPT ![c] = request]
  /\ UNCHANGED <<users, groupRows, nextMember, scimLog, created>>
ScimEnds(c) == scimRequests' = [scimRequests EXCEPT ![c] = NoScimRequest]
ScimWrites(c) == scimRequests' = [ScimOverlapped(c) EXCEPT ![c] = NoScimRequest]
ScimGoes(c, stage) == scimRequests' = [ScimOverlapped(c) EXCEPT ![c].stage = stage]
IdOf(email) == {i \in DOMAIN users : users[i].email = email}
Inserted(email, active) == Append(users, [email |-> email, active |-> active])
Taken(email) == IdOf(email) # {}
-----------------------------------------------------------------------------
(* Creating a user; email was free when it was looked up. *)
scim_create_user(c, email, active) ==
  IdOf(email) = {} /\ ScimBegins(c, [alone |-> TRUE, kind |-> "create", stage |-> "insert", email |-> email, active |-> active, user |-> 0])
create_scim_user(c) ==
  LET r == scimRequests[c]
  IN /\ r.kind = "create" /\ r.stage = "insert"
     /\ IF Taken(r.email) THEN ScimEnds(c) /\ UNCHANGED <<users, created>>
        ELSE /\ users' = Inserted(r.email, r.active) /\ created' = Append(created, r.email)
             /\ scimRequests' = [ScimOverlapped(c) EXCEPT ![c].stage = "log", ![c].user = Len(users) + 1]
     /\ UNCHANGED <<groupRows, nextMember, scimLog, scimOps>>
log_provisioning(c, operation) ==
  scimLog' = Append(scimLog, [operation |-> operation, user |-> scimRequests[c].user])
LogCreated(c) ==
  /\ scimRequests[c].kind = "create" /\ scimRequests[c].stage = "log"
  /\ log_provisioning(c, "create_user") /\ ScimWrites(c) /\ UNCHANGED <<users, groupRows, nextMember, created, scimOps>>

(* Signing on: an unknown email is provisioned if the provider says so. *)
handle_sso_callback(c, email) ==
  /\ IdOf(email) = {} => AutoProvision
  /\ ScimBegins(c, [alone |-> TRUE, kind |-> "sso", stage |-> IF IdOf(email) = {} THEN "insert" ELSE "session", email |-> email])
provision_user(c) ==
  LET r == scimRequests[c]
  IN /\ r.kind = "sso" /\ r.stage = "insert"
     /\ IF Taken(r.email) THEN ScimEnds(c) /\ UNCHANGED <<users, created>>
        ELSE users' = Inserted(r.email, TRUE) /\ created' = Append(created, r.email) /\ ScimGoes(c, "session")
     /\ UNCHANGED <<groupRows, nextMember, scimLog, scimOps>>
OpenSession(c) ==
  /\ scimRequests[c].kind = "sso" /\ scimRequests[c].stage = "session"
  /\ ScimEnds(c) /\ UNCHANGED <<users, groupRows, nextMember, scimLog, created, scimOps>>
-----------------------------------------------------------------------------
(* A PATCH: a commit, a refresh and a log for each of its operations, each from   *)
(* the user as the request saw it last; one whose email is taken ends the rest.   *)
(* An operation that gives both is one on active alone.  Operations that the       *)
(* endpoint ignores, and those from one on that raises (a text for active), are not *)
(* in the list.  A PUT gives both at once.                                       *)
Writable(op) == IF op.active # <<>> THEN [op EXCEPT !.email = <<>>] ELSE op
Begin(c, i, operations) ==
  i \in DOMAIN users /\ ScimBegins(c, [alone |-> TRUE, kind |-> "patch", stage |-> "write", user |-> i, todo |-> operations, seen |-> users[i], from |-> Len(scimLog), all |-> operations])
scim_patch_user(c, i, operations) == Begin(c, i, [k \in DOMAIN operations |-> Writable(operations[k])])
scim_update_user(c, i, email, active) == Begin(c, i, <<[active |-> <<active>>, email |-> <<email>>]>>)
Given(value, old) == IF value = <<>> THEN old ELSE value[1]
update_scim_user(old, op) == [email |-> Given(op.email, old.email), active |-> Given(op.active, old.active)]
PatchStep(c) ==
  LET r == scimRequests[c]
      op == Head(r.todo)
      new == update_scim_user(r.seen, op)
      stored == [email |-> IF new.email = r.seen.email THEN users[r.user].email ELSE new.email,
                 active |-> IF new.active = r.seen.active THEN users[r.user].active ELSE new.active]
  IN /\ r.kind = "patch" /\ r.stage = "write" /\ r.todo # <<>>
     /\ IF IdOf(stored.email) \ {r.user} # {} THEN ScimEnds(c) /\ UNCHANGED users
        ELSE /\ users' = [users EXCEPT ![r.user] = stored]
             /\ scimRequests' = [ScimOverlapped(c) EXCEPT ![c].stage = "refresh", ![c].seen = stored]
     /\ UNCHANGED <<groupRows, nextMember, scimLog, created, scimOps>>
PatchRefresh(c) ==
  LET r == scimRequests[c]
  IN /\ r.kind = "patch" /\ r.stage = "refresh"
     /\ scimRequests' = [scimRequests EXCEPT ![c].stage = "log", ![c].seen = users[r.user]]
     /\ UNCHANGED <<users, groupRows, nextMember, scimLog, created, scimOps>>
PatchLog(c) ==
  LET r == scimRequests[c]
  IN /\ r.kind = "patch" /\ r.stage = "log"
     /\ log_provisioning(c, IF Head(r.todo).active = <<FALSE>> THEN "deactivate_user" ELSE "update_user")
     /\ scimRequests' = [ScimOverlapped(c) EXCEPT ![c].stage = "write", ![c].todo = Tail(@)]
     /\ UNCHANGED <<users, groupRows, nextMember, created, scimOps>>
PatchEnds(c) ==
  /\ scimRequests[c].kind = "patch" /\ scimRequests[c].stage = "write" /\ scimRequests[c].todo = <<>>
  /\ ScimEnds(c) /\ UNCHANGED <<users, groupRows, nextMember, scimLog, created, scimOps>>
-----------------------------------------------------------------------------
(* The group's members: those that were loaded are deleted, those that were     *)
(* sent inserted, all or, if one is no user, none; the log is a second commit.   *)
TheGroup == 0
scim_update_group(c, list) ==
  ScimBegins(c, [alone |-> TRUE, kind |-> "group", stage |-> "write", list |-> list, loaded |-> DOMAIN groupRows, user |-> TheGroup])
Replaced_Added(loaded) == {}   \* mutant: members are added only
Replaced(loaded) == loaded
update_scim_group(c) ==
  LET r == scimRequests[c]
      kept == DOMAIN groupRows \ Replaced(r.loaded)
      new == (nextMember + 1)..(nextMember + Len(r.list))
  IN /\ r.kind = "group" /\ r.stage = "write"
     /\ IF Range(r.list) \subseteq DOMAIN users
        THEN /\ groupRows' = [id \in kept \cup new |-> IF id \in new THEN r.list[id - nextMember] ELSE groupRows[id]]
             /\ nextMember' = nextMember + Len(r.list)
             /\ ScimGoes(c, "log")
        ELSE ScimEnds(c) /\ UNCHANGED <<groupRows, nextMember>>
     /\ UNCHANGED <<users, scimLog, created, scimOps>>
LogGroup(c) ==
  /\ scimRequests[c].kind = "group" /\ scimRequests[c].stage = "log"
  /\ log_provisioning(c, "update_group") /\ ScimWrites(c)
  /\ UNCHANGED <<users, groupRows, nextMember, created, scimOps>>

ScimNext ==
  \E c \in ScimClients :
    \/ \E email \in Emails : handle_sso_callback(c, email) \/ \E active \in BOOLEAN : scim_create_user(c, email, active)
    \/ \E i \in DOMAIN users, email \in Emails, active \in BOOLEAN : scim_update_user(c, i, email, active)
    \/ \E i \in DOMAIN users, operations \in Patches : scim_patch_user(c, i, operations)
    \/ \E list \in MemberLists : scim_update_group(c, list)
    \/ create_scim_user(c) \/ LogCreated(c) \/ provision_user(c) \/ OpenSession(c)
    \/ PatchStep(c) \/ PatchRefresh(c) \/ PatchLog(c) \/ PatchEnds(c)
    \/ update_scim_group(c) \/ LogGroup(c)
ScimSpec == ProvisioningInit /\ [][ScimNext]_scimVars
-----------------------------------------------------------------------------
(* Whoever is told that it created a user is the only one for that user: no two  *)
(* users have one email, however SCIM, signing on and renaming overlap           *)
(* (create_scim_user, provision_user, update_scim_user).                       *)
UsersCreatedOnce ==
  /\ \A i, j \in DOMAIN users : i # j => users[i].email # users[j].email
  /\ \A i \in DOMAIN scimLog : scimLog[i].operation = "create_user" =>
       \A j \in DOMAIN scimLog : i # j /\ scimLog[j].operation = "create_user" => scimLog[i].user # scimLog[j].user

(* A request that was alone does what it was sent: the group has exactly the     *)
(* members it was sent, the user ends as the operations of the PATCH say, with   *)
(* one log for each (update_scim_group, scim_patch_user).                      *)
RequestsAsAsked ==
  \A c \in ScimClients :
       LET r == scimRequests[c]
       IN r # NoScimRequest /\ r.alone =>
            /\ update_scim_group(c) /\ Range(r.list) \subseteq DOMAIN users =>
                 /\ Cardinality(DOMAIN groupRows') = Len(r.list)
                 /\ {groupRows'[id] : id \in DOMAIN groupRows'} = Range(r.list)
            /\ PatchEnds(c) =>
                 /\ Len(scimLog) - r.from = Len(r.all)
                 /\ \A k \in DOMAIN r.all, field \in {"active", "email"} :
                      (r.all[k][field] # <<>> /\ \A l \in (k + 1)..Len(r.all) : r.all[l][field] = <<>>)
                      => r.all[k][field] = <<users[r.user][field]>>

(* Together: every request does what it was sent, and no user exists twice    *)
(* (services/scim.py, services/sso.py).                                       *)
ScimAsAsked == [][RequestsAsAsked /\ UsersCreatedOnce']_scimVars
=============================================================================
