------------------------------ MODULE RequestGate ------------------------------
(***************************************************************************)
(* What a call of the public API passes before it is served: its key's rate    *)
(* limit and the security policies of the workspaces it touches              *)
(* (services/workspace_security.py, services/api_key.py, api/public_api.py).   *)
(*                                                                         *)
(* Workers are processes of one event loop each: the limiter, which awaits     *)
(* nothing, is one step, and its counts are forgotten when the process stops.  *)
(* Policies and certificates are read and written in requests of their own,     *)
(* an update from what it loaded; it sends the columns that differ.           *)
(***************************************************************************)
EXTENDS Integers, Sequences, FiniteSets

CONSTANTS Workspaces, Nets, Addresses, Fingerprints, GateClients,
          NetHas,        \* net -> addresses in it
          RateLimit,     \* the key's limit; none when it is 0
          MinuteSeconds, \* how finely a minute is cut
          MaxNow,        \* bound on the time
          MaxGateOps     \* bound on the requests

NoAddress == "no address"
NoCertificate == "no certificate"
NotGiven == "not given"

ASSUME RequestGateAssumption ==
  /\ NoAddress \notin Addresses /\ NetHas \in [Nets -> SUBSET Addresses]
  /\ NotGiven \notin Workspaces \cup GateClients
  /\ RateLimit \in Int /\ MinuteSeconds \in Nat \ {0}

NoPolicy == [exists |-> FALSE]
Policy == [exists : {TRUE}, ip_allowlist : SUBSET Nets, enforce_ip_allowlist : BOOLEAN, require_client_certificate : BOOLEAN]
DefaultPolicy == [exists |-> TRUE, ip_allowlist |-> {}, enforce_ip_allowlist |-> FALSE, require_client_certificate |-> FALSE]
NoGateRequest == [kind |-> "none"]

LetsIn(policy) == (policy.exists /\ policy.enforce_ip_allowlist) => policy.ip_allowlist # {}

VARIABLES policies,   \* workspace -> policy
          certs,      \* workspace -> fingerprints that were registered -> is_active
          keyActive,
          rateState,  \* [bucket, count] of the key, or none
          passed,     \* when calls passed the limiter, since the process started
          now,
          gateRequests,
          gateOps

gateVars == <<policies, certs, keyActive, rateState, passed, now, gateRequests, gateOps>>
NoCount == [bucket |-> -1, count |-> 0]

RequestGateInit ==
  /\ policies \in [Workspaces -> {NoPolicy} \cup {p \in Policy : LetsIn(p)}]
  /\ certs \in [Workspaces -> {<<>>} \cup [Fingerprints -> {TRUE}]]
  /\ keyActive = TRUE /\ rateState = NoCount /\ passed = <<>> /\ now = 0
  /\ gateRequests = [c \in GateClients |-> NoGateRequest] /\ gateOps = 0

GateCounted == gateOps < MaxGateOps /\ gateOps' = gateOps + 1
Overlapped(by) ==
  [c \in GateClients |-> IF c = by \/ gateRequests[c].kind = "none" THEN gateRequests[c] ELSE [gateRequests[c] EXCEPT !.alone = FALSE]]
GateEnds(c) == gateRequests' = [gateRequests EXCEPT ![c] = NoGateRequest]
GateWrites(c) == gateRequests' = [Overlapped(c) EXCEPT ![c] = NoGateRequest]
-----------------------------------------------------------------------------
(* A policy that is read and not there is created; of two that create it, one   *)
(* fails.                                                                  *)
ensure_workspace_security_policy(c, w) ==
  \/ policies[w].exists /\ gateRequests' = [gateRequests EXCEPT ![c].policy = policies[w], ![c].stage = "policy"] /\ UNCHANGED policies
  \/ ~policies[w].exists /\ gateRequests' = [gateRequests EXCEPT ![c].stage = "create"] /\ UNCHANGED policies
create_default_workspace_security_policy(c, w) ==
  IF policies[w].exists THEN GateEnds(c) /\ UNCHANGED policies
  ELSE /\ policies' = [policies EXCEPT ![w] = DefaultPolicy]
       /\ gateRequests' = [Overlapped(c) EXCEPT ![c].policy = DefaultPolicy, ![c].stage = "policy"]
ReadPolicy(c) ==
  /\ gateRequests[c].kind \in {"call", "update"} /\ gateRequests[c].todo # {}
  /\ \E w \in gateRequests[c].todo :
       \/ gateRequests[c].stage = "start" /\ gateRequests[c].at = NotGiven
          /\ gateRequests' = [gateRequests EXCEPT ![c].at = w] /\ UNCHANGED policies
       \/ gateRequests[c].at = w /\ gateRequests[c].stage = "start" /\ ensure_workspace_security_policy(c, w)
       \/ gateRequests[c].at = w /\ gateRequests[c].stage = "create" /\ create_default_workspace_security_policy(c, w)
  /\ UNCHANGED <<certs, keyActive, rateState, passed, now, gateOps>>

Change == [ip_allowlist : {<<>>} \cup {<<nets>> : nets \in SUBSET Nets}, enforce : {NotGiven, "on", "off"}, require : {NotGiven}]
  \cup [ip_allowlist : {<<>>}, enforce : {NotGiven}, require : {"on", "off"}]
BeginUpdate(c, w, change) ==
  /\ GateCounted /\ gateRequests[c] = NoGateRequest
  /\ gateRequests' = [gateRequests EXCEPT ![c] =
       [kind |-> "update", stage |-> "start", at |-> w, todo |-> {w}, change |-> change, policy |-> NoPolicy, alone |-> TRUE]]
  /\ UNCHANGED <<policies, certs, keyActive, rateState, passed, now>>
MayEnforce(enforce, nets) == enforce => nets # {}
update_workspace_security_policy(c) ==
  LET r == gateRequests[c]
      old == r.policy
      nets == IF r.change.ip_allowlist = <<>> THEN old.ip_allowlist ELSE r.change.ip_allowlist[1]
      enforce == IF r.change.enforce = NotGiven THEN old.enforce_ip_allowlist ELSE r.change.enforce = "on"
      require == IF r.change.require = NotGiven THEN old.require_client_certificate ELSE r.change.require = "on"
  IN /\ r.kind = "update" /\ r.stage = "policy"
     /\ IF ~MayEnforce(enforce, nets) THEN GateEnds(c) /\ UNCHANGED policies
        ELSE /\ policies' = [policies EXCEPT
                  ![r.at].ip_allowlist = IF nets = old.ip_allowlist THEN @ ELSE nets,
                  ![r.at].enforce_ip_allowlist = IF enforce = old.enforce_ip_allowlist THEN @ ELSE enforce,
                  ![r.at].require_client_certificate = IF require = old.require_client_certificate THEN @ ELSE require]
             /\ GateWrites(c)
     /\ UNCHANGED <<certs, keyActive, rateState, passed, now, gateOps>>
(* Certificates: one that is active is refused, one that is not becomes active. *)
Active(w, f) == f \in DOMAIN certs[w] /\ certs[w][f]
register_workspace_client_certificate(w, f) ==
  /\ GateCounted /\ ~Active(w, f)
  /\ certs' = [certs EXCEPT ![w] = [g \in DOMAIN @ \cup {f} |-> IF g = f THEN TRUE ELSE @[g]]]
  /\ gateRequests' = Overlapped(NotGiven) /\ UNCHANGED <<policies, keyActive, rateState, passed, now>>
deactivate_workspace_client_certificate(w, f) ==
  /\ GateCounted /\ Active(w, f) /\ certs' = [certs EXCEPT ![w][f] = FALSE]
  /\ gateRequests' = Overlapped(NotGiven) /\ UNCHANGED <<policies, keyActive, rateState, passed, now>>
revoke_api_key ==
  /\ GateCounted /\ keyActive /\ keyActive' = FALSE
  /\ gateRequests' = Overlapped(NotGiven) /\ UNCHANGED <<policies, certs, rateState, passed, now>>
-----------------------------------------------------------------------------
(* A call: its key is validated, then counted, then the policies of all the     *)
(* workspaces that its path or body names are asked.                          *)
validate_api_key(c, workspaces, address, certificate) ==
  /\ GateCounted /\ gateRequests[c] = NoGateRequest /\ keyActive
  /\ gateRequests' = [gateRequests EXCEPT ![c] =
       [kind |-> "call", stage |-> "key", at |-> NotGiven, todo |-> workspaces, all |-> workspaces,
        address |-> address, certificate |-> certificate, policy |-> NoPolicy, alone |-> TRUE]]
  /\ UNCHANGED <<policies, certs, keyActive, rateState, passed, now>>

Bucket == now \div MinuteSeconds
CountIn(state) == IF state.bucket = Bucket THEN state.count ELSE 0
AtLimit_OneMore(count) == count > RateLimit   \* mutant: one call too many
AtLimit(count) == count >= RateLimit
(* A key without the scope is refused after it was counted. *)
check_scope(c) == gateRequests' = [gateRequests EXCEPT ![c].stage = "start"] \/ GateEnds(c)
enforce_api_key_rate_limit(c) ==
  /\ gateRequests[c].kind = "call" /\ gateRequests[c].stage = "key"
  /\ \/ RateLimit <= 0 /\ UNCHANGED <<rateState, passed>> /\ check_scope(c)
     \/ /\ RateLimit > 0
        /\ IF AtLimit(CountIn(rateState)) THEN GateEnds(c) /\ UNCHANGED <<rateState, passed>>
           ELSE /\ rateState' = [bucket |-> Bucket, count |-> CountIn(rateState) + 1] /\ passed' = Append(passed, now)
                /\ check_scope(c)
  /\ UNCHANGED <<policies, certs, keyActive, now, gateOps>>
retry_after_seconds == LET left == (rateState.bucket + 1) * MinuteSeconds - now IN IF left <= 0 THEN 1 ELSE left

_is_ip_allowed(address, nets) == \E net \in nets : address \in NetHas[net]
AddressFits(policy, address) ==
  policy.enforce_ip_allowlist => policy.ip_allowlist # {} /\ address # NoAddress /\ _is_ip_allowed(address, policy.ip_allowlist)
(* The certificate is looked up after the policy was read. *)
enforce_workspace_request_security(c) ==
  LET r == gateRequests[c]
      fits == AddressFits(r.policy, r.address) /\ (r.policy.require_client_certificate => Active(r.at, r.certificate))
  IN /\ r.kind = "call" /\ r.stage = "policy"
     /\ IF fits THEN gateRequests' = [gateRequests EXCEPT ![c].todo = @ \ {r.at}, ![c].at = NotGiven, ![c].stage = "start"]
        ELSE GateEnds(c)
     /\ UNCHANGED <<policies, certs, keyActive, rateState, passed, now, gateOps>>
Serve(c) ==
  /\ gateRequests[c].kind = "call" /\ gateRequests[c].stage = "start" /\ gateRequests[c].todo = {}
  /\ GateEnds(c) /\ UNCHANGED <<policies, certs, keyActive, rateState, passed, now, gateOps>>

Tick == now < MaxNow /\ now' = now + 1 /\ UNCHANGED <<policies, certs, keyActive, rateState, passed, gateRequests, gateOps>>
reset_api_key_rate_limit_cache ==   \* the process starts anew
  /\ rateState # NoCount /\ rateState' = NoCount /\ passed' = <<>>
  /\ gateRequests' = [c \in GateClients |-> NoGateRequest] /\ UNCHANGED <<policies, certs, keyActive, now, gateOps>>

GateNext ==
  \/ \E c \in GateClients :
       \/ \E w \in Workspaces, change \in Change : BeginUpdate(c, w, change)
       \/ \E workspaces \in SUBSET Workspaces, address \in Addresses \cup {NoAddress}, certificate \in Fingerprints \cup {NoCertificate} :
            validate_api_key(c, workspaces, address, certificate)
       \/ ReadPolicy(c) \/ update_workspace_security_policy(c) \/ enforce_api_key_rate_limit(c)
       \/ enforce_workspace_request_security(c) \/ Serve(c)
  \/ \E w \in Workspaces, f \in Fingerprints : register_workspace_client_certificate(w, f) \/ deactivate_workspace_client_certificate(w, f)
  \/ revoke_api_key \/ Tick \/ reset_api_key_rate_limit_cache
GateSpec == RequestGateInit /\ [][GateNext]_gateVars
-----------------------------------------------------------------------------
(* A call is served or refused as the policies of all its workspaces say, when  *)
(* none of them changed meanwhile: its address is in one of the nets where       *)
(* they are enforced, its certificate is active where one is required           *)
(* (require_scope, enforce_workspace_request_security).                       *)
Meets(r) ==
  \A w \in r.all :
    /\ policies[w].exists /\ policies[w].enforce_ip_allowlist => \E net \in policies[w].ip_allowlist : r.address \in NetHas[net]
    /\ policies[w].exists /\ policies[w].require_client_certificate => Active(w, r.certificate)
CallsMeetPolicies ==
  \A c \in GateClients :
       LET r == gateRequests[c]
       IN (r.kind = "call" /\ r.alone) =>
            /\ Serve(c) => Meets(r)
            /\ (enforce_workspace_request_security(c) /\ gateRequests'[c] = NoGateRequest) => ~Meets(r)

(* An enforced list is never empty unless updates overlapped: one that was      *)
(* alone leaves a policy that lets somebody in, if it was so before            *)
(* (update_workspace_security_policy).                                      *)
PoliciesLetIn ==
  \A c \in GateClients :
       (gateRequests[c].kind = "update" /\ gateRequests[c].alone /\ gateRequests'[c] = NoGateRequest /\ \A w \in Workspaces : LetsIn(policies[w]))
       => \A w \in Workspaces : LetsIn(policies'[w])

(* At most the limit passes in a minute of the clock, so at most twice the      *)
(* limit in any sixty seconds; whoever is refused and waits as told finds        *)
(* room, as far as the minute's earlier calls go                             *)
(* (enforce_api_key_rate_limit).                                            *)
PassedIn(from, to) == Cardinality({i \in DOMAIN passed : from <= passed[i] /\ passed[i] < to})
RateKept ==
  RateLimit > 0 =>
    /\ \A minute \in 0..Bucket : PassedIn(minute * MinuteSeconds, (minute + 1) * MinuteSeconds) <= RateLimit
    /\ \A second \in 0..now : PassedIn(second, second + MinuteSeconds) <= 2 * RateLimit
    /\ CountIn(rateState) = PassedIn(Bucket * MinuteSeconds, now + 1)
    /\ CountIn(rateState) >= RateLimit => (now + retry_after_seconds) \div MinuteSeconds = Bucket + 1

(* Together: the gate lets in whom policies and limit let in, and nobody else *)
(* (require_scope).                                                           *)
GateKept == [][CallsMeetPolicies /\ PoliciesLetIn /\ RateKept']_gateVars
=============================================================================
