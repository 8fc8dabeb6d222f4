------------------------------- MODULE MCServices -------------------------------
(* Small instances of the services beside the cells: frames, the staging table,  *)
(* a pipeline's run, the gate of the public API, access and provisioning.        *)
EXTENDS DataHub, Pipelines, RequestGate, CellAccess, Provisioning

CONSTANTS w1, w2, h1, h2, p1, p2, s1, s2,
          MaxPolicyOps   \* bound on the requests where a behaviour is about policies

VARIABLE focus   \* what a behaviour is about

Midnight == "2024-01-01T00:00:00+00:00"
MCTextNumber == [t \in {"1", "1.0", "1.5", "2"} |-> CASE t \in {"1", "1.0"} -> 2 [] t = "1.5" -> 3 [] OTHER -> 4]
MCTextBool == [t \in {"True", "yes", "1"} |-> TRUE] @@ [t \in {"False", "no"} |-> FALSE]
MCTextDate == [t \in {"2024-01-01"} |-> t]
MCTextInstant == [t \in {"2024-01-01", Midnight} |-> Midnight]
MCRawValues == {Null, <<"text", "nan">>, <<"int", 1>>, <<"int", 2>>, <<"float", 3>>, <<"float", 2>>, <<"bool", TRUE>>, <<"text", "1">>, <<"text", "1.5">>, <<"text", "no">>, <<"text", "2024-01-01">>, <<"text", Midnight>>, <<"text", "w">>}
MCKeyValues == {Null, <<"text", "a">>, <<"text", "b">>}
A == <<"text", "a">>
MCUploads ==
  {<<[k |-> A, x |-> <<"int", 1>>]>>, <<[k |-> A, x |-> <<"int", 2>>], [k |-> <<"text", "b">>, x |-> Null]>>,
   <<[k |-> A, x |-> <<"text", "1.5">>], [k |-> A, x |-> <<"text", "nan">>]>>, <<>>}
MCColumns ==
  {("k" :> [data_type |-> "text", nullable |-> FALSE]) @@ ("x" :> [data_type |-> type, nullable |-> TRUE]) : type \in {"number", "boolean", "text"}}
MCTransforms == [keep : {[column |-> "x", least |-> 3], [column |-> "x", least |-> 0]}, replace : BOOLEAN]
MCMemberMap == ("a" :> "m1") @@ ("b" :> "m2")

MCTypeOfStep == (1 :> "source") @@ (2 :> "transform") @@ (3 :> "publish")

MCNetHas == ("n1" :> {"a1"}) @@ ("n2" :> {"a2"})
Patch(active, email) == [active |-> active, email |-> email]
MCPatches == {<<>>, <<Patch(<<FALSE>>, <<>>), Patch(<<>>, <<"e2">>)>>, <<Patch(<<>>, <<"e2">>), Patch(<<TRUE>>, <<"e1">>)>>}
MCMemberLists == {<<>>, <<1>>, <<1, 2>>}
\* The clients of a table, of a run and of a directory are alike.
ClientSymmetry == Permutations({h1, h2}) \cup Permutations({p1, p2}) \cup Permutations({s1, s2})

(* An empty initial state for the components that a behaviour is not about.        *)
NoGate ==
  /\ policies = [w \in Workspaces |-> NoPolicy] /\ certs = [w \in Workspaces |-> <<>>] /\ keyActive = TRUE
  /\ rateState = NoCount /\ passed = <<>> /\ now = 0
  /\ gateRequests = [c \in GateClients |-> NoGateRequest] /\ gateOps = 0
NoRules ==
  /\ access = <<>> /\ rules = {} /\ grants = <<>> /\ config = NoConfig
  /\ drivers = [d \in {"read_driver", "write_driver"} |-> "no_cell"]
  /\ accessRequests = [c \in AccessClients |-> NoAccessRequest] /\ accessOps = 0
NoUsers ==
  /\ users = <<>> /\ groupRows = <<>> /\ nextMember = 0 /\ scimLog = <<>> /\ created = <<>>
  /\ scimRequests = [c \in ScimClients |-> NoScimRequest] /\ scimOps = 0
NoHub ==
  /\ table = [exists |-> TRUE, schema |-> NoSchema, row_count |-> 0] /\ rows = <<>> /\ nextRow = 0 /\ lineage = NoLineage
  /\ published = <<>> /\ hubRequests = [c \in HubClients |-> NoHubRequest] /\ hubOps = 0
NoRun ==
  /\ steps = {1} /\ trigger_pipeline_run({1}) /\ pipeRequests = [c \in PipeClients |-> NoPipe] /\ pipeOps = 0
NoFrame == frame = ensure_dataframe(<<>>)

ServicesInit ==
  \/ focus = "frames" /\ FrameInit /\ NoHub /\ NoRun /\ NoGate /\ members = <<>> /\ NoRules /\ NoUsers
  \/ focus = "hub" /\ HubInit /\ NoFrame /\ NoRun /\ NoGate /\ members = <<>> /\ NoRules /\ NoUsers
  \/ focus = "pipelines" /\ PipeInit /\ NoFrame /\ NoHub /\ NoGate /\ members = <<>> /\ NoRules /\ NoUsers
  \/ /\ focus = "policies" /\ RequestGateInit /\ certs[w2] = <<>> /\ policies[w2] = NoPolicy
     /\ (policies[w1].exists => policies[w1].ip_allowlist \subseteq {"n1"})   \* n2 comes with an update
     /\ (certs[w1] # <<>> => policies[w1].exists /\ policies[w1].require_client_certificate)
     /\ NoFrame /\ NoHub /\ NoRun /\ members = <<>> /\ NoRules /\ NoUsers
  \/ focus = "rate" /\ NoGate /\ NoFrame /\ NoHub /\ NoRun /\ members = <<>> /\ NoRules /\ NoUsers
  \/ focus = "members" /\ MembersInit /\ NoFrame /\ NoHub /\ NoRun /\ NoGate /\ NoRules /\ NoUsers
  \/ /\ focus = "cells" /\ RulesInit
     /\ \A d \in DOMAIN drivers : (config.exists /\ d \in {config.read, config.write}) \/ drivers[d] = "no_cell"
     /\ Cardinality(DOMAIN grants) = 2 => config = NoConfig
     /\ NoFrame /\ NoHub /\ NoRun /\ NoGate /\ members = <<>> /\ NoUsers
  \/ focus = "users" /\ ProvisioningInit /\ NoFrame /\ NoHub /\ NoRun /\ NoGate /\ members = <<>> /\ NoRules

(* A behaviour of the gate is about policies or about the limit, one of access   *)
(* about members or about a cell that one client checks.                      *)
ServicesNext ==
  /\ UNCHANGED <<focus, frame>>
  /\ \/ focus = "hub" /\ HubNext /\ UNCHANGED <<pipeVars, gateVars, accessVars, scimVars>>
     \/ focus = "pipelines" /\ PipeNext /\ UNCHANGED <<hubVars, gateVars, accessVars, scimVars>>
     \/ /\ focus \in {"policies", "rate"} /\ GateNext /\ UNCHANGED <<hubVars, pipeVars, accessVars, scimVars>>
        /\ IF focus = "policies" THEN now' = now /\ Len(passed') >= Len(passed) /\ gateOps' <= MaxPolicyOps /\ gateRequests'["c2"].kind # "call"
           ELSE /\ UNCHANGED <<policies, certs>>
                /\ \A c \in GateClients : gateRequests'[c].kind = "call" => gateRequests'[c].all = {} /\ gateRequests'[c].address = NoAddress /\ gateRequests'[c].certificate = NoCertificate
     \/ /\ focus \in {"members", "cells"} /\ AccessNext /\ UNCHANGED <<hubVars, pipeVars, gateVars, scimVars>>
        /\ IF focus = "members" THEN UNCHANGED <<rules, config, drivers>>
           ELSE \A c \in AccessClients : accessRequests'[c].kind \in {"none", IF c = "c1" THEN "cell" ELSE "none"}
     \/ focus = "users" /\ ScimNext /\ UNCHANGED <<hubVars, pipeVars, gateVars, accessVars>>
ServicesSpec == ServicesInit /\ [][ServicesNext]_<<focus, frame, hubVars, pipeVars, gateVars, accessVars, scimVars>>
=============================================================================
