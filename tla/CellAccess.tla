------------------------------- MODULE CellAccess -------------------------------
(***************************************************************************)
(* Who may do what: the members of a workspace and the permissions on a model   *)
(* (services/rbac.py, api/rbac.py), and what a user may do with a cell          *)
(* (services/dca.py, api/dca.py).                                           *)
(*                                                                         *)
(* A request that changes a member or a permission asks first whether its       *)
(* sender may, then selects the row, then writes it.  A check of a cell reads    *)
(* the grants, the configuration and the drivers' cells one after the other.    *)
(***************************************************************************)
EXTENDS Integers, FiniteSets

CONSTANTS Owner,        \* of the workspace and of its model
          People,       \* other users
          CellItems,    \* the dimension items in the key of the cell
          Rules, AccessClients,
          MaxAccessOps  \* bound on the requests

\* The author of an edit that no client sends is no client.
ASSUME AccessAssumption == "absent" \notin AccessClients

_ROLE_ORDER == [role \in {"viewer", "editor", "admin", "owner"} |->
  CASE role = "viewer" -> 0 [] role = "editor" -> 1 [] role = "admin" -> 2 [] OTHER -> 3]
_PERMISSION_ORDER == [permission \in {"no_access", "view_only", "edit_data", "full_access"} |->
  CASE permission = "no_access" -> 0 [] permission = "view_only" -> 1 [] permission = "edit_data" -> 2 [] OTHER -> 3]
Levels == {"none", "read", "write"}
DriverCells == {"no_cell", "no_value", "TRUE", "FALSE", "0", "2", "yes", "other_text", "several"}
NoDriver == "no_driver"
NoConfig == [exists |-> FALSE]
NoAccessRequest == [kind |-> "none"]
Absent == "absent"

VARIABLES members,    \* user -> role, for those who have one
          access,     \* user -> permission on the model
          rules,      \* selective access rules
          grants,     \* <<rule, item>> -> level, the grants of one user
          config,     \* of the cell's line item: NoConfig or [read, write]
          drivers,    \* "read_driver", "write_driver" -> their cell at the key
          accessRequests,
          accessOps

accessVars == <<members, access, rules, grants, config, drivers, accessRequests, accessOps>>

AccessCounted == accessOps < MaxAccessOps /\ accessOps' = accessOps + 1
AccessOverlapped(by) ==
  [c \in AccessClients |-> IF c = by \/ accessRequests[c].kind = "none" THEN accessRequests[c] ELSE [accessRequests[c] EXCEPT !.alone = FALSE]]
AccessEnds(c) == accessRequests' = [accessRequests EXCEPT ![c] = NoAccessRequest]
AccessWrites(c) == accessRequests' = [AccessOverlapped(c) EXCEPT ![c] = NoAccessRequest]
Upserted(f, user, value) == [u \in DOMAIN f \cup {user} |-> IF u = user THEN value ELSE f[u]]
Dropped(f, S) == [u \in DOMAIN f \ S |-> f[u]]

MembersInit == members \in UNION {[P -> {"viewer", "admin"}] : P \in SUBSET People}
RulesInit ==
  /\ access = [u \in {} |-> Absent]
  /\ rules \in SUBSET Rules /\ grants \in UNION {[G -> Levels] : G \in SUBSET (rules \X CellItems)}
  /\ config \in {NoConfig} \cup [exists : {TRUE}, read : {NoDriver, "read_driver"}, write : {NoDriver, "write_driver"}]
  /\ drivers \in [{"read_driver", "write_driver"} -> DriverCells]
  /\ accessRequests = [c \in AccessClients |-> NoAccessRequest] /\ accessOps = 0
-----------------------------------------------------------------------------
(* Members and permissions. *)
check_workspace_permission(user, min_role) == user \in DOMAIN members /\ _ROLE_ORDER[members[user]] >= _ROLE_ORDER[min_role]
check_model_permission(user, required) == user \in DOMAIN access /\ _PERMISSION_ORDER[access[user]] >= _PERMISSION_ORDER[required]
MayManage(user) == user = Owner \/ check_workspace_permission(user, "admin")

(* A session keeps the rows it loaded: its sender's own, too.                   *)
Authorize(c, kind, by, user, value) ==
  /\ AccessCounted /\ accessRequests[c] = NoAccessRequest /\ MayManage(by)
  /\ kind \in {"update_member", "remove_member"} => user # Owner
  /\ accessRequests' = [accessRequests EXCEPT ![c] =
       [kind |-> kind, stage |-> IF kind = "update_member" THEN "asking" ELSE "allowed", by |-> by, user |-> user, value |-> value, alone |-> TRUE,
        seen |-> Absent, loaded |-> IF by = user /\ by # Owner /\ kind \in {"add_member", "update_member", "remove_member"} THEN members[by] ELSE Absent]]
  /\ UNCHANGED <<members, access, rules, grants, config, drivers>>

Changed(kind) == IF kind = "set_access" \/ kind = "remove_access" THEN access ELSE members
Look(r) ==
  IF r.user \notin DOMAIN Changed(r.kind) THEN Absent ELSE IF r.loaded # Absent THEN r.loaded ELSE Changed(r.kind)[r.user]
get_workspace_role(c) ==   \* a member to update must be one
  /\ accessRequests[c].kind = "update_member" /\ accessRequests[c].stage = "asking"
  /\ IF Look(accessRequests[c]) = Absent THEN AccessEnds(c)
     ELSE accessRequests' = [accessRequests EXCEPT ![c].stage = "allowed", ![c].loaded = Look(accessRequests[c])]
  /\ UNCHANGED <<members, access, rules, grants, config, drivers, accessOps>>
SelectRow(c) ==
  LET r == accessRequests[c]
  IN /\ r.kind \notin {"none", "cell"} /\ r.stage = "allowed"
     /\ IF Look(r) = Absent /\ r.kind \in {"remove_member", "remove_access"} THEN AccessEnds(c)
        ELSE accessRequests' = [accessRequests EXCEPT ![c].stage = "selected", ![c].seen = Look(r)]
     /\ UNCHANGED <<members, access, rules, grants, config, drivers, accessOps>>

(* A row that appeared or went meanwhile makes the write fail; a deletion does  *)
(* not mind.  A value that is the loaded one is not sent.                     *)
WriteMember(c) ==
  LET r == accessRequests[c]
      f == Changed(r.kind)
      removes == r.kind \in {"remove_member", "remove_access"}
      there == r.user \in DOMAIN f
      new == IF removes THEN Dropped(f, {r.user}) ELSE IF r.value = r.seen THEN f ELSE Upserted(f, r.user, r.value)
  IN /\ r.kind \notin {"none", "cell"} /\ r.stage = "selected"
     /\ IF ~removes /\ there # (r.seen # Absent) THEN AccessEnds(c) /\ UNCHANGED <<members, access>>
        ELSE /\ AccessWrites(c)
             /\ IF r.kind \in {"set_access", "remove_access"} THEN access' = new /\ UNCHANGED members ELSE members' = new /\ UNCHANGED access
     /\ UNCHANGED <<rules, grants, config, drivers, accessOps>>

add_workspace_member(c, by, user, role) == Authorize(c, "add_member", by, user, role)
update_member_role(c, by, user, role) == Authorize(c, "update_member", by, user, role)
remove_workspace_member(c, by, user) == Authorize(c, "remove_member", by, user, Absent)
set_model_access(c, by, user, permission) == Authorize(c, "set_access", by, user, permission)
remove_model_access(c, by, user) == Authorize(c, "remove_access", by, user, Absent)
-----------------------------------------------------------------------------
(* Rules, grants, drivers. *)
Edited == accessRequests' = AccessOverlapped(Absent) /\ UNCHANGED <<members, access>>
create_selective_access_rule(rule) ==
  AccessCounted /\ rule \notin rules /\ rules' = rules \cup {rule} /\ Edited /\ UNCHANGED <<grants, config, drivers>>
delete_selective_access_rule(rule) ==
  /\ AccessCounted /\ rule \in rules /\ rules' = rules \ {rule}
  /\ grants' = Dropped(grants, {rule} \X CellItems) /\ Edited /\ UNCHANGED <<config, drivers>>
create_selective_access_grant(rule, item, level) ==
  /\ AccessCounted /\ rule \in rules /\ <<rule, item>> \notin DOMAIN grants
  /\ grants' = Upserted(grants, <<rule, item>>, level) /\ Edited /\ UNCHANGED <<rules, config, drivers>>
delete_selective_access_grant(grant) ==
  AccessCounted /\ grant \in DOMAIN grants /\ grants' = Dropped(grants, {grant}) /\ Edited /\ UNCHANGED <<rules, config, drivers>>
create_dca_config(read, write) ==
  AccessCounted /\ config' = [exists |-> TRUE, read |-> read, write |-> write] /\ Edited /\ UNCHANGED <<rules, grants, drivers>>
delete_dca_config ==
  AccessCounted /\ config.exists /\ config' = NoConfig /\ Edited /\ UNCHANGED <<rules, grants, drivers>>
DeleteDriver(driver) ==   \* its line item: the reference becomes null
  /\ AccessCounted /\ config.exists
  /\ config' = [exists |-> TRUE, read |-> IF config.read = driver THEN NoDriver ELSE config.read,
                write |-> IF config.write = driver THEN NoDriver ELSE config.write]
  /\ drivers' = [drivers EXCEPT ![driver] = "no_cell"] /\ Edited /\ UNCHANGED <<rules, grants>>
WriteDriver(driver, cell) ==
  AccessCounted /\ drivers' = [drivers EXCEPT ![driver] = cell] /\ Edited /\ UNCHANGED <<rules, grants, config>>

(* A driver allows when it has no cell or its cell no plain value, too; a key of  *)
(* which it has several, as in its versions, fails the check.                   *)
evaluate_dca_driver_Strict(cell) == cell \in {"TRUE", "2", "yes"}   \* mutant: what is not there denies
evaluate_dca_driver(cell) == cell \notin {"FALSE", "0", "other_text"}
-----------------------------------------------------------------------------
(* A check of the cell, in four reads. *)
check_cell_access(c) ==
  /\ AccessCounted /\ accessRequests[c] = NoAccessRequest
  /\ accessRequests' = [accessRequests EXCEPT ![c] =
       [kind |-> "cell", stage |-> "grants", read |-> TRUE, write |-> TRUE, config |-> NoConfig, alone |-> TRUE]]
  /\ UNCHANGED <<members, access, rules, grants, config, drivers>>
CheckStep(c, stage, next) == accessRequests[c].kind = "cell" /\ accessRequests[c].stage = stage
  /\ accessRequests' = [accessRequests EXCEPT ![c] = [next EXCEPT !.alone = accessRequests[c].alone]]
  /\ UNCHANGED <<members, access, rules, grants, config, drivers, accessOps>>

_get_grants_for_user_and_dimension_key == {grants[g] : g \in DOMAIN grants}
ReadGrants(c) ==
  LET levels == _get_grants_for_user_and_dimension_key
  IN CheckStep(c, "grants", [accessRequests[c] EXCEPT !.stage = "config", !.read = "none" \notin levels,
                                                      !.write = levels = {} \/ ("none" \notin levels /\ "write" \in levels)])
ReadConfig(c) == CheckStep(c, "config", [accessRequests[c] EXCEPT !.stage = "read_driver", !.config = config])
SeveralCells(r) ==
  /\ r.stage \in {"read_driver", "write_driver"} /\ r.config.exists
  /\ LET driver == IF r.stage = "read_driver" THEN r.config.read ELSE IF r.read THEN r.config.write ELSE NoDriver
     IN driver # NoDriver /\ drivers[driver] = "several"
ReadDriver(c) ==
  LET r == accessRequests[c]
      denied == r.config.exists /\ r.config.read # NoDriver /\ ~evaluate_dca_driver(drivers[r.config.read])
  IN CheckStep(c, "read_driver", [r EXCEPT !.stage = "write_driver", !.read = @ /\ ~denied, !.write = @ /\ ~denied]) /\ ~SeveralCells(r)
ReadWriteDriver(c) ==
  LET r == accessRequests[c]
      denied == r.config.exists /\ r.read /\ r.config.write # NoDriver /\ ~evaluate_dca_driver(drivers[r.config.write])
  IN CheckStep(c, "write_driver", [r EXCEPT !.stage = "done", !.write = @ /\ ~denied]) /\ ~SeveralCells(r)
CheckEnds(c) == accessRequests[c].kind = "cell" /\ (SeveralCells(accessRequests[c]) \/ accessRequests[c].stage = "done") /\ AccessEnds(c)
  /\ UNCHANGED <<members, access, rules, grants, config, drivers, accessOps>>

AccessNext ==
  \/ \E c \in AccessClients :
       \/ \E by, user \in People \cup {Owner} :
            \/ \E role \in {"viewer", "admin"} : add_workspace_member(c, by, user, role) \/ update_member_role(c, by, user, role)
            \/ remove_workspace_member(c, by, user) \/ remove_model_access(c, by, user)
            \/ \E permission \in {"view_only", "full_access"} : set_model_access(c, by, user, permission)
       \/ get_workspace_role(c) \/ SelectRow(c) \/ WriteMember(c)
       \/ check_cell_access(c) \/ ReadGrants(c) \/ ReadConfig(c) \/ ReadDriver(c) \/ ReadWriteDriver(c) \/ CheckEnds(c)
  \/ \E rule \in Rules : create_selective_access_rule(rule) \/ delete_selective_access_rule(rule)
  \/ \E rule \in Rules, item \in CellItems, level \in Levels : create_selective_access_grant(rule, item, level)
  \/ \E grant \in DOMAIN grants : delete_selective_access_grant(grant)
  \/ \E read \in {NoDriver, "read_driver"}, write \in {NoDriver, "write_driver"} : create_dca_config(read, write)
  \/ delete_dca_config
  \/ \E driver \in {"read_driver", "write_driver"} : DeleteDriver(driver) \/ \E cell \in DriverCells : WriteDriver(driver, cell)
AccessSpec == MembersInit /\ RulesInit /\ [][AccessNext]_accessVars
-----------------------------------------------------------------------------
(* A change that nothing overlapped is made for somebody who may still make it, *)
(* and leaves the member or the permission as it was asked, everyone else's as   *)
(* it was; whoever has a permission has the lesser ones                       *)
(* (add_workspace_member, set_model_access and their endpoints).                *)
MembersAsAsked ==
  \A c \in AccessClients :
       LET r == accessRequests[c]
       IN WriteMember(c) =>
            /\ r.alone =>
                 LET on_model == r.kind \in {"set_access", "remove_access"}
                     new == IF on_model THEN access' ELSE members'
                     old == IF on_model THEN access ELSE members
                 IN /\ r.by # Owner => r.by \in DOMAIN members /\ members[r.by] = "admin"
                    /\ IF r.value = Absent THEN r.user \notin DOMAIN new ELSE r.user \in DOMAIN new /\ new[r.user] = r.value
                    /\ \A u \in DOMAIN old \ {r.user} : u \in DOMAIN new /\ new[u] = old[u]
            /\ \A u \in People : check_workspace_permission(u, "admin") => check_workspace_permission(u, "viewer")
            /\ \A u \in People : check_model_permission(u, "full_access") => check_model_permission(u, "view_only")

(* What a check answers when nothing was changed meanwhile: no grant of the      *)
(* key denies, some grant lets write if there is any, and every driver that is   *)
(* configured allows; whoever may write may read, even of a torn answer         *)
(* (check_cell_access).                                                     *)
Allows(driver) == driver = NoDriver \/ drivers[driver] \notin {"FALSE", "0", "other_text"}
ChecksAgree ==
  \A c \in AccessClients :
    LET r == accessRequests[c]
        levels == {grants[g] : g \in DOMAIN grants}
        readable == "none" \notin levels /\ (config.exists => Allows(config.read))
    IN (r.kind = "cell" /\ r.stage = "done") =>
         /\ r.write => r.read
         /\ r.alone => r.read = readable /\ (r.write <=> readable /\ (levels # {} => "write" \in levels) /\ (config.exists => Allows(config.write)))

(* Together: rights are as they were asked by somebody who might, and cells are*)
(* judged by them (api/rbac.py, services/dca.py).                             *)
AccessAsAsked == [][MembersAsAsked /\ ChecksAgree']_accessVars
=============================================================================
