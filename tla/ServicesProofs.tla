---------------------------- MODULE ServicesProofs ----------------------------
(***************************************************************************)
(* Theorems about components MCServices composes.  RequestGate, for      *)
(* every set of workspaces, networks and clients, every limit and every cut   *)
(* of a minute: the limiter, then the requests that policies and certificates *)
(* change under.  CellAccess, for every set of people, cells' keys and        *)
(* clients: the changes of members and the checks of a cell.  Pipelines, for   *)
(* every finite set of steps and every set of clients: a run that ended.       *)
(* Provisioning, for every finite set of emails and every set of clients:      *)
(* users, their log and the group.  Frames, for every rows of values of the    *)
(* kinds there are.                                                          *)
(***************************************************************************)
EXTENDS RequestGate, CellAccess, Pipelines, Provisioning, Frames, FiniteSetTheorems, WellFoundedInduction, TLAPS

-------------------------------------------------------------------------------
(* The limiter.                                                             *)

\* The calls that passed in minute k of the clock.
Minute(k) == {i \in 1..Len(passed) : passed[i] \div MinuteSeconds = k}

\* The count is that of the last minute in which a call passed, and no minute's calls
\* are more than the limit.
Rated ==
  /\ passed \in Seq(Nat) /\ now \in Nat /\ rateState \in [bucket : Int, count : Int]
  /\ \A i \in 1..Len(passed) : passed[i] <= now /\ passed[i] \div MinuteSeconds <= rateState.bucket
  /\ rateState.bucket <= Bucket
  /\ rateState.count = Cardinality(Minute(rateState.bucket))
  /\ RateLimit > 0 => \A k \in Int : Cardinality(Minute(k)) <= RateLimit

LEMMA RateConstants == RateLimit \in Int /\ MinuteSeconds \in Nat \ {0}
BY RequestGateAssumption DEF RequestGateAssumption

LEMMA MinutesInOrder ==
  ASSUME NEW q \in Int, NEW k \in Int, q * MinuteSeconds < (k + 1) * MinuteSeconds
  PROVE  q <= k
BY RateConstants

\* Division by the length of a minute.
LEMMA MinuteOf ==
  ASSUME NEW x \in Nat
  PROVE  /\ x \div MinuteSeconds \in Nat
         /\ (x \div MinuteSeconds) * MinuteSeconds <= x /\ x < (x \div MinuteSeconds + 1) * MinuteSeconds
         /\ \A k \in Int : x \div MinuteSeconds = k <=> k * MinuteSeconds <= x /\ x < (k + 1) * MinuteSeconds
<1> DEFINE q == x \div MinuteSeconds
<1>1. q \in Nat /\ q * MinuteSeconds <= x /\ x < (q + 1) * MinuteSeconds
  BY RateConstants
<1> HIDE DEF q
<1>2. ASSUME NEW k \in Int, k * MinuteSeconds <= x, x < (k + 1) * MinuteSeconds PROVE q = k
  <2>1. q * MinuteSeconds < (k + 1) * MinuteSeconds /\ k * MinuteSeconds < (q + 1) * MinuteSeconds
    BY <1>1, <1>2, RateConstants
  <2>2. q <= k /\ k <= q
    BY <1>1, <2>1, RateConstants
  <2> QED
    BY <1>1, <2>2
<1> QED
  BY <1>1, <1>2 DEF q

LEMMA MinuteIsFinite ==
  ASSUME Rated, NEW k \in Int
  PROVE  IsFiniteSet(Minute(k)) /\ Cardinality(Minute(k)) \in Nat
<1>1. IsFiniteSet(1..Len(passed))
  BY FS_Interval DEF Rated
<1>2. Minute(k) \in SUBSET (1..Len(passed))
  BY DEF Minute
<1> QED
  BY <1>1, <1>2, FS_Subset, FS_CardinalityType

LEMMA PassedInAMinute ==
  ASSUME Rated, NEW k \in Int
  PROVE  PassedIn(k * MinuteSeconds, (k + 1) * MinuteSeconds) = Cardinality(Minute(k))
<1>1. DOMAIN passed = 1..Len(passed) /\ \A i \in 1..Len(passed) : passed[i] \in Nat
  BY DEF Rated
<1>2. \A i \in 1..Len(passed) :
         passed[i] \div MinuteSeconds = k <=> k * MinuteSeconds <= passed[i] /\ passed[i] < (k + 1) * MinuteSeconds
  BY <1>1, MinuteOf
<1>3. {i \in DOMAIN passed : k * MinuteSeconds <= passed[i] /\ passed[i] < (k + 1) * MinuteSeconds} = Minute(k)
  BY <1>1, <1>2 DEF Minute
<1> QED
  BY <1>3 DEF PassedIn

\* Sixty seconds lie in two minutes.
LEMMA PassedInAWindow ==
  ASSUME Rated, RateLimit > 0, NEW second \in Nat
  PROVE  PassedIn(second, second + MinuteSeconds) <= 2 * RateLimit
<1> DEFINE k == second \div MinuteSeconds
           window == {i \in DOMAIN passed : second <= passed[i] /\ passed[i] < second + MinuteSeconds}
<1>1. DOMAIN passed = 1..Len(passed) /\ \A i \in 1..Len(passed) : passed[i] \in Nat
  BY DEF Rated
<1>2. k \in Nat /\ k * MinuteSeconds <= second /\ second < (k + 1) * MinuteSeconds
  BY MinuteOf
<1> HIDE DEF k
<1>3. window \in SUBSET (Minute(k) \cup Minute(k + 1))
  <2> SUFFICES ASSUME NEW i \in 1..Len(passed), second <= passed[i], passed[i] < second + MinuteSeconds
               PROVE  passed[i] \div MinuteSeconds = k \/ passed[i] \div MinuteSeconds = k + 1
    BY <1>1 DEF Minute
  <2>1. passed[i] \in Nat /\ k * MinuteSeconds <= passed[i] /\ passed[i] < ((k + 1) + 1) * MinuteSeconds
    <3>1. ((k + 1) + 1) * MinuteSeconds = (k + 1) * MinuteSeconds + MinuteSeconds
             /\ k * MinuteSeconds \in Int /\ (k + 1) * MinuteSeconds \in Int
      BY <1>2, RateConstants
    <3> QED
      BY <1>1, <1>2, <3>1, RateConstants
  <2>o. \A n \in Int : passed[i] \div MinuteSeconds = n
                         <=> n * MinuteSeconds <= passed[i] /\ passed[i] < (n + 1) * MinuteSeconds
    BY <2>1, MinuteOf
  <2>i. k \in Int /\ k + 1 \in Int
    BY <1>2
  <2>2. CASE passed[i] < (k + 1) * MinuteSeconds
    BY <2>o, <2>i, <2>1, <2>2
  <2>3. CASE (k + 1) * MinuteSeconds <= passed[i]
    BY <2>o, <2>i, <2>1, <2>3
  <2>4. (k + 1) * MinuteSeconds \in Int
    BY <1>2, RateConstants
  <2> QED
    BY <2>1, <2>2, <2>3, <2>4
<1> DEFINE a == Minute(k)
           b == Minute(k + 1)
<1>4. /\ IsFiniteSet(a) /\ Cardinality(a) \in Nat /\ Cardinality(a) <= RateLimit
      /\ IsFiniteSet(b) /\ Cardinality(b) \in Nat /\ Cardinality(b) <= RateLimit
  <2>1. k \in Int /\ k + 1 \in Int
    BY <1>2
  <2> QED
    BY <2>1, MinuteIsFinite DEF Rated
<1> HIDE DEF a, b
<1>5. /\ IsFiniteSet(a \cup b) /\ Cardinality(a \cap b) \in Nat
      /\ Cardinality(a \cup b) = Cardinality(a) + Cardinality(b) - Cardinality(a \cap b)
  <2>1. IsFiniteSet(a \cap b)
    BY <1>4, FS_Subset
  <2> QED
    BY <1>4, <2>1, FS_Union, FS_CardinalityType
<1>6. Cardinality(window) \in Nat /\ Cardinality(window) <= Cardinality(a \cup b)
  BY <1>3, <1>5, FS_Subset, FS_CardinalityType DEF a, b
<1> QED
  BY <1>4, <1>5, <1>6, RateConstants DEF PassedIn

\* The limiter's count is that of the current minute.
LEMMA CountNow ==
  ASSUME Rated
  PROVE  CountIn(rateState) = Cardinality(Minute(Bucket))
<1>t. rateState.bucket \in Int /\ \A i \in 1..Len(passed) : passed[i] \in Nat
  BY DEF Rated
<1>b. Bucket \in Nat
  BY MinuteOf DEF Bucket, Rated
<1>1. CASE rateState.bucket = Bucket
  BY <1>1 DEF CountIn, Rated
<1>2. CASE rateState.bucket # Bucket
  <2>1. rateState.bucket < Bucket
    BY <1>t, <1>b, <1>2 DEF Rated
  <2>2. \A i \in 1..Len(passed) : /\ passed[i] \div MinuteSeconds \in Int
                                  /\ passed[i] \div MinuteSeconds <= rateState.bucket
    <3>1. \A i \in 1..Len(passed) : passed[i] \div MinuteSeconds <= rateState.bucket
      BY DEF Rated
    <3>2. \A x \in Nat : x \div MinuteSeconds \in Int
      BY MinuteOf
    <3> QED
      BY <1>t, <3>1, <3>2
  <2>3. Minute(Bucket) = {}
    BY <1>t, <1>b, <2>1, <2>2 DEF Minute
  <2> QED
    BY <1>2, <2>3, FS_EmptySet DEF CountIn
<1> QED
  BY <1>1, <1>2

LEMMA RateIsKept == Rated => RateKept
<1> SUFFICES ASSUME Rated, RateLimit > 0
             PROVE  /\ \A minute \in 0..Bucket : PassedIn(minute * MinuteSeconds, (minute + 1) * MinuteSeconds) <= RateLimit
                    /\ \A second \in 0..now : PassedIn(second, second + MinuteSeconds) <= 2 * RateLimit
                    /\ CountIn(rateState) = PassedIn(Bucket * MinuteSeconds, now + 1)
                    /\ CountIn(rateState) >= RateLimit => (now + retry_after_seconds) \div MinuteSeconds = Bucket + 1
  BY DEF RateKept
<1>t. /\ now \in Nat /\ rateState.bucket \in Int /\ rateState.count \in Int /\ MinuteSeconds \in Nat \ {0}
      /\ DOMAIN passed = 1..Len(passed) /\ \A i \in 1..Len(passed) : passed[i] \in Nat
  BY RateConstants DEF Rated
<1>b. Bucket \in Nat /\ Bucket * MinuteSeconds <= now /\ now < (Bucket + 1) * MinuteSeconds
  BY <1>t, MinuteOf DEF Bucket
<1>1. \A minute \in 0..Bucket : PassedIn(minute * MinuteSeconds, (minute + 1) * MinuteSeconds) <= RateLimit
  BY PassedInAMinute DEF Rated
<1>2. \A second \in 0..now : PassedIn(second, second + MinuteSeconds) <= 2 * RateLimit
  BY <1>t, PassedInAWindow
<1>3. CountIn(rateState) = Cardinality(Minute(Bucket))
  BY CountNow
<1>4. CountIn(rateState) = PassedIn(Bucket * MinuteSeconds, now + 1)
  <2>1. \A i \in 1..Len(passed) : passed[i] < now + 1 <=> passed[i] < (Bucket + 1) * MinuteSeconds
    <3>1. \A i \in 1..Len(passed) : passed[i] <= now
      BY DEF Rated
    <3>2. (Bucket + 1) * MinuteSeconds \in Int
      BY <1>b, <1>t
    <3> QED
      BY <1>t, <1>b, <3>1, <3>2
  <2>2. PassedIn(Bucket * MinuteSeconds, now + 1) = PassedIn(Bucket * MinuteSeconds, (Bucket + 1) * MinuteSeconds)
    <3>1. {i \in DOMAIN passed : Bucket * MinuteSeconds <= passed[i] /\ passed[i] < now + 1}
            = {i \in DOMAIN passed : Bucket * MinuteSeconds <= passed[i] /\ passed[i] < (Bucket + 1) * MinuteSeconds}
      BY <1>t, <2>1
    <3> QED
      BY <3>1 DEF PassedIn
  <2>3. PassedIn(Bucket * MinuteSeconds, (Bucket + 1) * MinuteSeconds) = Cardinality(Minute(Bucket))
    BY <1>b, PassedInAMinute
  <2> QED
    BY <1>3, <2>2, <2>3
<1>5. ASSUME CountIn(rateState) >= RateLimit
      PROVE  (now + retry_after_seconds) \div MinuteSeconds = Bucket + 1
  <2>1. rateState.bucket = Bucket
    BY <1>5, RateConstants DEF CountIn
  <2>2. (Bucket + 1) * MinuteSeconds \in Nat /\ ((Bucket + 1) + 1) * MinuteSeconds > (Bucket + 1) * MinuteSeconds
    BY <1>t, <1>b
  <2>3. now + retry_after_seconds = (Bucket + 1) * MinuteSeconds
    BY <1>t, <1>b, <2>1, <2>2 DEF retry_after_seconds
  <2> QED
    BY <1>b, <2>2, <2>3, MinuteOf
<1> QED
  BY <1>1, <1>2, <1>4, <1>5

LEMMA InitRated == RequestGateInit => Rated
<1> SUFFICES ASSUME RequestGateInit PROVE Rated
  OBVIOUS
<1>1. passed = <<>> /\ now = 0 /\ rateState = [bucket |-> -1, count |-> 0]
  BY DEF RequestGateInit, NoCount
<1>2. \A k : Minute(k) = {}
  BY <1>1 DEF Minute
<1>3. Bucket \in Nat
  BY <1>1, MinuteOf DEF Bucket
<1>4. rateState.bucket = -1 /\ rateState.count = 0 /\ rateState \in [bucket : Int, count : Int]
  BY <1>1
<1>5. passed \in Seq(Nat) /\ Len(passed) = 0 /\ 1..Len(passed) = {}
  BY <1>1
<1>6. Cardinality({}) = 0
  BY FS_EmptySet
<1>7. rateState.count = Cardinality(Minute(rateState.bucket))
  BY <1>2, <1>4, <1>6
<1>8. RateLimit > 0 => \A k \in Int : Cardinality(Minute(k)) <= RateLimit
  BY <1>2, <1>6, RateConstants
<1> QED
  BY <1>1, <1>3, <1>4, <1>5, <1>7, <1>8 DEF Rated

\* One call more in the current minute, which had fewer than the limit.
LEMMA CallCounted ==
  ASSUME Rated, RateLimit > 0, CountIn(rateState) < RateLimit,
         rateState' = [bucket |-> Bucket, count |-> CountIn(rateState) + 1],
         passed' = Append(passed, now), now' = now
  PROVE  Rated'
<1>t. /\ now \in Nat /\ rateState.bucket \in Int /\ rateState.count \in Int /\ passed \in Seq(Nat)
      /\ Len(passed) \in Nat
  BY DEF Rated
<1>b. Bucket \in Nat /\ Bucket' = Bucket
  BY <1>t, MinuteOf DEF Bucket
<1>1. /\ passed' \in Seq(Nat) /\ Len(passed') = Len(passed) + 1
      /\ passed'[Len(passed) + 1] = now
      /\ \A i \in 1..Len(passed) : passed'[i] = passed[i]
      /\ \A i \in 1..Len(passed') : i = Len(passed) + 1 \/ i \in 1..Len(passed)
      /\ \A i \in 1..Len(passed) : i \in 1..Len(passed')
      /\ Len(passed) + 1 \in 1..Len(passed') /\ Len(passed) + 1 \notin 1..Len(passed)
  BY <1>t
<1>2. PICK b \in Nat : b = Bucket
  BY <1>b
<1>3. /\ \A k \in Int \ {b} : Minute(k)' = Minute(k)
      /\ Minute(b)' = Minute(b) \cup {Len(passed) + 1} /\ Len(passed) + 1 \notin Minute(b)
  BY <1>1, <1>2 DEF Minute, Bucket
<1>4. CountIn(rateState) = Cardinality(Minute(b))
  BY <1>2, CountNow
<1>5. Cardinality(Minute(b)') = CountIn(rateState) + 1
  <2>1. IsFiniteSet(Minute(b))
    BY MinuteIsFinite
  <2>2. Cardinality(Minute(b) \cup {Len(passed) + 1}) = Cardinality(Minute(b)) + 1
    BY <1>3, <2>1, FS_AddElement
  <2> QED
    BY <1>3, <1>4, <2>2
<1>6. \A i \in 1..Len(passed') : passed'[i] <= now' /\ passed'[i] \div MinuteSeconds <= rateState'.bucket
  <2>1. ASSUME NEW i \in 1..Len(passed)
        PROVE  passed[i] \div MinuteSeconds \in Int /\ passed[i] <= now
                 /\ passed[i] \div MinuteSeconds <= rateState.bucket /\ rateState.bucket <= Bucket
    <3>1. passed[i] \in Nat
      BY <1>t
    <3>2. passed[i] \div MinuteSeconds \in Int
      <4>1. \A x \in Nat : x \div MinuteSeconds \in Int
        BY MinuteOf
      <4> QED
        BY <3>1, <4>1
    <3> QED
      BY <3>2 DEF Rated
  <2>2. \A i \in 1..Len(passed) : passed[i] <= now /\ passed[i] \div MinuteSeconds <= Bucket
    BY <1>t, <1>b, <2>1
  <2>3. now \div MinuteSeconds <= Bucket
    BY <1>b DEF Bucket
  <2> QED
    BY <1>t, <1>1, <2>2, <2>3
<1>7. CountIn(rateState) + 1 \in Int /\ CountIn(rateState) + 1 <= RateLimit
  BY <1>t, RateConstants DEF CountIn
<1>8. \A k \in Int : Cardinality(Minute(k)') <= RateLimit
  <2>1. \A k \in Int \ {b} : Cardinality(Minute(k)') <= RateLimit
    BY <1>3 DEF Rated
  <2> QED
    BY <1>5, <1>7, <2>1
<1>9. /\ rateState' \in [bucket : Int, count : Int] /\ rateState'.bucket = Bucket
      /\ rateState'.count = CountIn(rateState) + 1
  BY <1>b, <1>7
<1>10. rateState'.count = Cardinality(Minute(rateState.bucket)')
  BY <1>2, <1>5, <1>9 DEF Minute
<1> QED
  BY <1>t, <1>b, <1>1, <1>6, <1>8, <1>9, <1>10 DEF Rated

LEMMA NextRated == Rated /\ [GateNext]_gateVars => Rated'
<1> SUFFICES ASSUME Rated, [GateNext]_gateVars PROVE Rated'
  OBVIOUS
<1>a. ASSUME UNCHANGED <<rateState, passed, now>> PROVE Rated'
  BY <1>a DEF Rated, Minute, Bucket
<1>1. ASSUME NEW c \in GateClients, enforce_api_key_rate_limit(c) PROVE Rated'
  <2>1. CASE UNCHANGED <<rateState, passed>>
    BY <1>1, <1>a, <2>1 DEF enforce_api_key_rate_limit
  <2>2. CASE /\ RateLimit > 0 /\ ~AtLimit(CountIn(rateState))
             /\ rateState' = [bucket |-> Bucket, count |-> CountIn(rateState) + 1]
             /\ passed' = Append(passed, now)
    <3>1. CountIn(rateState) < RateLimit
      BY <2>2, RateConstants DEF AtLimit, CountIn, Rated
    <3> QED
      BY <1>1, <2>2, <3>1, CallCounted DEF enforce_api_key_rate_limit
  <2> QED
    BY <1>1, <2>1, <2>2 DEF enforce_api_key_rate_limit
<1>2. CASE Tick
  <2>1. now' = now + 1 /\ UNCHANGED <<rateState, passed>> /\ now \in Nat
    BY <1>2 DEF Tick, Rated
  <2>2. Bucket \in Int /\ Bucket' \in Int /\ Bucket <= Bucket'
    <3>1. /\ Bucket \in Nat /\ Bucket * MinuteSeconds <= now
          /\ Bucket' \in Nat /\ now + 1 < (Bucket' + 1) * MinuteSeconds
      BY <2>1, MinuteOf DEF Bucket
    <3>2. Bucket * MinuteSeconds \in Int /\ (Bucket' + 1) * MinuteSeconds \in Int
      BY <3>1, RateConstants
    <3>3. Bucket * MinuteSeconds < (Bucket' + 1) * MinuteSeconds
      BY <2>1, <3>1, <3>2
    <3> QED
      BY <3>1, <3>3, MinutesInOrder
  <2>3. \A i \in 1..Len(passed) : passed[i] <= now'
    BY <2>1 DEF Rated
  <2> QED
    BY <2>1, <2>2, <2>3 DEF Rated, Minute
<1>3. CASE reset_api_key_rate_limit_cache
  <2>1. passed' = <<>> /\ now' = now /\ rateState' = [bucket |-> -1, count |-> 0]
    BY <1>3 DEF reset_api_key_rate_limit_cache, NoCount
  <2>2. \A k : Minute(k)' = {}
    BY <2>1 DEF Minute
  <2>3. Bucket' \in Nat
    BY <2>1, MinuteOf DEF Bucket, Rated
  <2>4. rateState'.bucket = -1 /\ rateState'.count = 0 /\ rateState' \in [bucket : Int, count : Int]
    BY <2>1
  <2>5. passed' \in Seq(Nat) /\ Len(passed') = 0 /\ 1..Len(passed') = {} /\ now' \in Nat
    BY <2>1 DEF Rated
  <2>6. Cardinality({}) = 0
    BY FS_EmptySet
  <2>7. rateState'.count = Cardinality(Minute(rateState.bucket)')
    BY <2>2, <2>4, <2>6
  <2>8. RateLimit > 0 => \A k \in Int : Cardinality(Minute(k)') <= RateLimit
    BY <2>2, <2>6, RateConstants
  <2> QED
    BY <2>3, <2>4, <2>5, <2>7, <2>8 DEF Rated
<1>4. ASSUME ~\E c \in GateClients : enforce_api_key_rate_limit(c),
             ~Tick, ~reset_api_key_rate_limit_cache
      PROVE  UNCHANGED <<rateState, passed, now>>
  BY <1>4 DEF GateNext, gateVars, BeginUpdate, validate_api_key, ReadPolicy,
     update_workspace_security_policy, enforce_workspace_request_security, Serve,
     register_workspace_client_certificate, deactivate_workspace_client_certificate, revoke_api_key
<1> QED
  BY <1>a, <1>1, <1>2, <1>3, <1>4

-------------------------------------------------------------------------------
(* The requests in flight.                                                  *)

Stage == {"key", "start", "create", "policy"}
Call ==
  [kind : {"call"}, stage : Stage, at : Workspaces \cup {NotGiven}, todo : SUBSET Workspaces, all : SUBSET Workspaces,
   address : Addresses \cup {NoAddress}, certificate : Fingerprints \cup {NoCertificate},
   policy : Policy \cup {NoPolicy}, alone : BOOLEAN]
Update ==
  [kind : {"update"}, stage : Stage, at : Workspaces, todo : SUBSET Workspaces, change : Change,
   policy : Policy \cup {NoPolicy}, alone : BOOLEAN]

\* What Meets asks of one workspace.
MeetsAt(r, w) ==
  /\ policies[w].exists /\ policies[w].enforce_ip_allowlist => \E net \in policies[w].ip_allowlist : r.address \in NetHas[net]
  /\ policies[w].exists /\ policies[w].require_client_certificate => Active(w, r.certificate)

\* A request that has read a policy holds it, and as long as nothing changed it is the
\* one that is stored; then its call meets the policies of the workspaces it is through
\* with.
HoldsPolicy(r) ==
  r.stage = "policy" => /\ r.at \in Workspaces /\ r.policy \in Policy /\ policies[r.at] \in Policy
                        /\ r.alone => policies[r.at] = r.policy
CallStands(r) ==
  /\ r.todo \subseteq r.all /\ (r.stage = "policy" => r.at \in r.todo)
  /\ r.alone => \A w \in r.all \ r.todo : MeetsAt(r, w)
Stands(r) ==
  \/ r = NoGateRequest
  \/ r \in Call /\ HoldsPolicy(r) /\ CallStands(r)
  \/ r \in Update /\ HoldsPolicy(r)

Gated ==
  /\ policies \in [Workspaces -> Policy \cup {NoPolicy}]
  /\ gateRequests \in [GateClients -> Call \cup Update \cup {NoGateRequest}]
  /\ \A c \in GateClients : Stands(gateRequests[c])

\* The kinds of requests and of policies are told apart.
LEMMA Kinds ==
  /\ \A r \in Call : r.kind = "call"
  /\ \A r \in Update : r.kind = "update"
  /\ NoGateRequest.kind = "none"
  /\ \A p \in Policy : p.exists
  /\ ~NoPolicy.exists /\ DefaultPolicy \in Policy /\ LetsIn(DefaultPolicy)
BY DEF Call, Update, NoGateRequest, Policy, NoPolicy, DefaultPolicy, LetsIn

\* One client's request moves on, and nothing else does.
LEMMA OneMoves ==
  ASSUME Gated, NEW c \in GateClients, NEW r \in Call \cup Update \cup {NoGateRequest}, Stands(r),
         gateRequests' = [gateRequests EXCEPT ![c] = r], UNCHANGED <<policies, certs>>
  PROVE  Gated'
<1>1. \A x : Stands(x) => Stands(x)'
  BY DEF Stands, HoldsPolicy, CallStands, MeetsAt, Active
<1>2. gateRequests' \in [GateClients -> Call \cup Update \cup {NoGateRequest}]
  BY DEF Gated
<1>3. \A d \in GateClients : Stands(gateRequests'[d])
  BY DEF Gated
<1> QED
  BY <1>1, <1>2, <1>3 DEF Gated

LEMMA OneEnds ==
  ASSUME Gated, NEW c \in GateClients, GateEnds(c), UNCHANGED <<policies, certs>>
  PROVE  Gated'
<1>1. Stands(NoGateRequest) /\ NoGateRequest \in Call \cup Update \cup {NoGateRequest}
  BY DEF Stands
<1> QED
  BY <1>1, OneMoves DEF GateEnds

\* What a write by somebody else leaves of a request.
LEMMA NotAlone ==
  ASSUME Gated, NEW r \in Call \cup Update, Stands(r),
         \A w \in Workspaces : policies[w] \in Policy => policies'[w] \in Policy
  PROVE  /\ [r EXCEPT !.alone = FALSE] \in Call \cup Update
         /\ Stands([r EXCEPT !.alone = FALSE])'
<1> DEFINE q == [r EXCEPT !.alone = FALSE]
<1>1. CASE r \in Call
  <2>1. /\ q \in Call /\ ~q.alone /\ q.stage = r.stage /\ q.at = r.at /\ q.policy = r.policy
        /\ q.todo = r.todo /\ q.all = r.all
    BY <1>1 DEF Call
  <2>2. HoldsPolicy(r) /\ CallStands(r)
    BY <1>1, Kinds DEF Stands
  <2>3. HoldsPolicy(q)' /\ CallStands(q)'
    BY <2>1, <2>2 DEF HoldsPolicy, CallStands
  <2> QED
    BY <2>1, <2>3 DEF Stands
<1>2. CASE r \in Update
  <2>1. q \in Update /\ ~q.alone /\ q.stage = r.stage /\ q.at = r.at /\ q.policy = r.policy
    BY <1>2 DEF Update
  <2>2. HoldsPolicy(r)
    BY <1>2, Kinds DEF Stands
  <2>3. HoldsPolicy(q)'
    BY <2>1, <2>2 DEF HoldsPolicy
  <2> QED
    BY <2>1, <2>3 DEF Stands
<1> QED
  BY <1>1, <1>2

LEMMA OthersNotAlone ==
  ASSUME Gated, NEW by, NEW d \in GateClients, d # by,
         gateRequests'[d] = Overlapped(by)[d],
         \A w \in Workspaces : policies[w] \in Policy => policies'[w] \in Policy
  PROVE  gateRequests'[d] \in Call \cup Update \cup {NoGateRequest} /\ Stands(gateRequests[d])'
<1>1. CASE gateRequests[d] = NoGateRequest
  <2>1. gateRequests'[d] = NoGateRequest
    BY <1>1, Kinds DEF Overlapped
  <2> QED
    BY <2>1 DEF Stands
<1>2. CASE gateRequests[d] \in Call \cup Update
  <2>1. gateRequests'[d] = [gateRequests[d] EXCEPT !.alone = FALSE]
    BY <1>2, Kinds DEF Overlapped
  <2>2. Stands(gateRequests[d])
    BY DEF Gated
  <2>3. PICK r \in Call \cup Update : r = gateRequests[d]
    BY <1>2
  <2>4. [r EXCEPT !.alone = FALSE] \in Call \cup Update /\ Stands([r EXCEPT !.alone = FALSE])'
    BY <2>2, <2>3, NotAlone
  <2> QED
    BY <2>1, <2>3, <2>4
<1> QED
  BY <1>1, <1>2 DEF Gated

LEMMA WriteOverlaps ==
  ASSUME Gated, NEW by,
         gateRequests' \in [GateClients -> Call \cup Update \cup {NoGateRequest}],
         \A d \in GateClients \ {by} : gateRequests'[d] = Overlapped(by)[d],
         by \in GateClients => Stands(gateRequests[by])',
         policies' \in [Workspaces -> Policy \cup {NoPolicy}],
         \A w \in Workspaces : policies[w] \in Policy => policies'[w] \in Policy
  PROVE  Gated'
<1>1. \A d \in GateClients \ {by} : Stands(gateRequests[d])'
  BY OthersNotAlone
<1> QED
  BY <1>1 DEF Gated

\* Overlapped(by) is a function that keeps the types.
LEMMA OverlappedTypes ==
  ASSUME Gated, NEW by
  PROVE  Overlapped(by) \in [GateClients -> Call \cup Update \cup {NoGateRequest}]
<1>1. ASSUME NEW c \in GateClients PROVE Overlapped(by)[c] \in Call \cup Update \cup {NoGateRequest}
  <2>1. CASE c = by \/ gateRequests[c].kind = "none"
    BY <2>1 DEF Overlapped, Gated
  <2>2. CASE ~(c = by \/ gateRequests[c].kind = "none")
    <3>1. gateRequests[c] \in Call \cup Update /\ Stands(gateRequests[c])
      BY <2>2, Kinds DEF Gated
    <3>2. [gateRequests[c] EXCEPT !.alone = FALSE] \in Call \cup Update
      BY <3>1 DEF Call, Update
    <3> QED
      BY <2>2, <3>2 DEF Overlapped
  <2> QED
    BY <2>1, <2>2
<1>2. Overlapped(by) = [c \in GateClients |-> Overlapped(by)[c]]
  BY DEF Overlapped
<1> QED
  BY <1>1, <1>2

\* Certificates and keys are written in one request, which everybody else overlaps.
LEMMA OutsideWrite ==
  ASSUME Gated, gateRequests' = Overlapped(NotGiven), UNCHANGED policies
  PROVE  Gated'
<1>1. NotGiven \notin GateClients
  BY RequestGateAssumption DEF RequestGateAssumption
<1>2. policies' \in [Workspaces -> Policy \cup {NoPolicy}]
  BY DEF Gated
<1> QED
  BY <1>1, <1>2, OverlappedTypes, WriteOverlaps

\* A request that takes up the next workspace.
LEMMA CallAdvances ==
  ASSUME NEW r \in Call, r.stage = "start", CallStands(r), NEW w \in Workspaces
  PROVE  [r EXCEPT !.at = w] \in Call /\ Stands([r EXCEPT !.at = w])
<1> DEFINE q == [r EXCEPT !.at = w]
<1>1. /\ q \in Call /\ q.stage = "start" /\ q.todo = r.todo /\ q.all = r.all /\ q.alone = r.alone
      /\ q.address = r.address /\ q.certificate = r.certificate
  BY DEF Call
<1>2. HoldsPolicy(q) /\ CallStands(q)
  BY <1>1 DEF HoldsPolicy, CallStands, MeetsAt
<1> QED
  BY <1>1, <1>2 DEF Stands

LEMMA UpdateAdvances ==
  ASSUME NEW r \in Update, r.stage = "start", NEW w \in Workspaces
  PROVE  [r EXCEPT !.at = w] \in Update /\ Stands([r EXCEPT !.at = w])
BY DEF Update, Stands, HoldsPolicy

\* Reading policies: what the three branches of ReadPolicy make of the request.
LEMMA ReadGated ==
  ASSUME Gated, NEW c \in GateClients, ReadPolicy(c)
  PROVE  Gated'
<1>1. PICK r \in Call \cup Update : r = gateRequests[c] /\ Stands(r)
  BY Kinds DEF Gated, ReadPolicy
<1>2. PICK w \in r.todo :
        \/ /\ r.stage = "start"
           /\ gateRequests' = [gateRequests EXCEPT ![c].at = w] /\ UNCHANGED policies
        \/ r.at = w /\ r.stage = "start" /\ ensure_workspace_security_policy(c, w)
        \/ r.at = w /\ r.stage = "create" /\ create_default_workspace_security_policy(c, w)
  BY <1>1 DEF ReadPolicy
<1>w. w \in Workspaces /\ UNCHANGED certs
  BY <1>1, <1>2 DEF Call, Update, ReadPolicy
<1>s. r \in Call \/ r \in Update
  OBVIOUS
<1>f. (r \in Call => HoldsPolicy(r) /\ CallStands(r)) /\ (r \in Update => HoldsPolicy(r))
  BY <1>1, Kinds DEF Stands
<1>3. CASE /\ r.stage = "start" /\ UNCHANGED policies
           /\ gateRequests' = [gateRequests EXCEPT ![c].at = w]
  <2>1. PICK q : q = [r EXCEPT !.at = w]
    OBVIOUS
  <2>2. gateRequests' = [gateRequests EXCEPT ![c] = q]
    BY <1>1, <1>3, <2>1
  <2>3. CASE r \in Call
    BY <1>w, <1>f, <1>3, <2>1, <2>2, <2>3, CallAdvances, OneMoves
  <2>4. CASE r \in Update
    BY <1>w, <1>f, <1>3, <2>1, <2>2, <2>4, UpdateAdvances, OneMoves
  <2> QED
    BY <1>s, <2>3, <2>4
<1>4. CASE r.at = w /\ r.stage = "start" /\ ensure_workspace_security_policy(c, w)
  <2>1. CASE policies[w].exists
    <3>1. PICK q : q = [r EXCEPT !.policy = policies[w], !.stage = "policy"]
      OBVIOUS
    <3>2. gateRequests' = [gateRequests EXCEPT ![c] = q] /\ UNCHANGED policies
      BY <1>1, <1>4, <2>1, <3>1 DEF ensure_workspace_security_policy
    <3>3. policies[w] \in Policy
      BY <1>w, <2>1, Kinds DEF Gated
    <3>4. CASE r \in Call
      <4>1. /\ q \in Call /\ q.stage = "policy" /\ q.at = w /\ q.policy = policies[w]
            /\ q.todo = r.todo /\ q.all = r.all /\ q.alone = r.alone /\ q.address = r.address
            /\ q.certificate = r.certificate
        BY <1>4, <3>1, <3>3, <3>4 DEF Call, Stage
      <4>2. HoldsPolicy(q) /\ CallStands(q)
        BY <1>w, <1>f, <3>3, <3>4, <4>1 DEF HoldsPolicy, CallStands, MeetsAt
      <4> QED
        BY <1>w, <3>2, <4>1, <4>2, OneMoves DEF Stands
    <3>5. CASE r \in Update
      <4>1. q \in Update /\ q.stage = "policy" /\ q.at = w /\ q.policy = policies[w]
        BY <1>4, <3>1, <3>3, <3>5 DEF Update, Stage
      <4>2. HoldsPolicy(q)
        BY <1>w, <3>3, <4>1 DEF HoldsPolicy
      <4> QED
        BY <1>w, <3>2, <4>1, <4>2, OneMoves DEF Stands
    <3> QED
      BY <1>s, <3>4, <3>5
  <2>2. CASE ~policies[w].exists
    <3>1. PICK q : q = [r EXCEPT !.stage = "create"]
      OBVIOUS
    <3>2. gateRequests' = [gateRequests EXCEPT ![c] = q] /\ UNCHANGED policies
      BY <1>1, <1>4, <2>2, <3>1 DEF ensure_workspace_security_policy
    <3>3. CASE r \in Call
      <4>1. /\ q \in Call /\ q.stage = "create"
            /\ q.todo = r.todo /\ q.all = r.all /\ q.alone = r.alone /\ q.address = r.address
            /\ q.certificate = r.certificate
        BY <3>1, <3>3 DEF Call, Stage
      <4>2. HoldsPolicy(q) /\ CallStands(q)
        BY <1>f, <3>3, <4>1 DEF HoldsPolicy, CallStands, MeetsAt
      <4> QED
        BY <1>w, <3>2, <4>1, <4>2, OneMoves DEF Stands
    <3>4. CASE r \in Update
      <4>1. q \in Update /\ q.stage = "create"
        BY <3>1, <3>4 DEF Update, Stage
      <4>2. HoldsPolicy(q)
        BY <4>1 DEF HoldsPolicy
      <4> QED
        BY <1>w, <3>2, <4>1, <4>2, OneMoves DEF Stands
    <3> QED
      BY <1>s, <3>3, <3>4
  <2> QED
    BY <2>1, <2>2
<1>5. CASE r.at = w /\ r.stage = "create" /\ create_default_workspace_security_policy(c, w)
  <2>1. CASE policies[w].exists
    BY <1>w, <1>5, <2>1, OneEnds DEF create_default_workspace_security_policy
  <2>2. CASE ~policies[w].exists
    <3>1. PICK q : q = [r EXCEPT !.policy = DefaultPolicy, !.stage = "policy"]
      OBVIOUS
    <3>2. /\ policies' = [policies EXCEPT ![w] = DefaultPolicy]
          /\ gateRequests' = [Overlapped(c) EXCEPT ![c].policy = DefaultPolicy, ![c].stage = "policy"]
      BY <1>5, <2>2 DEF create_default_workspace_security_policy
    <3>3. gateRequests' = [Overlapped(c) EXCEPT ![c] = q]
      <4>1. Overlapped(c)[c] = r
        BY <1>1 DEF Overlapped
      <4>2. Overlapped(c) \in [GateClients -> Call \cup Update \cup {NoGateRequest}]
        BY OverlappedTypes
      <4> QED
        BY <3>1, <3>2, <4>1, <4>2
    <3>4. /\ policies' \in [Workspaces -> Policy \cup {NoPolicy}] /\ policies'[w] = DefaultPolicy
          /\ \A v \in Workspaces : policies[v] \in Policy => policies'[v] \in Policy
          /\ \A v \in Workspaces \ {w} : policies'[v] = policies[v]
      BY <1>w, <3>2, Kinds DEF Gated
    <3>5. q \in Call \cup Update /\ Stands(q)'
      <4>1. CASE r \in Call
        <5>1. /\ q \in Call /\ q.stage = "policy" /\ q.at = w /\ q.policy = DefaultPolicy
              /\ q.todo = r.todo /\ q.all = r.all /\ q.alone = r.alone /\ q.address = r.address
              /\ q.certificate = r.certificate
          BY <1>5, <3>1, <4>1, Kinds DEF Call, Stage
        <5>2. HoldsPolicy(q)'
          BY <1>w, <3>4, <5>1, Kinds DEF HoldsPolicy
        <5>3. CallStands(q)'
          <6>1. \A v \in r.all \ r.todo : MeetsAt(r, v) => MeetsAt(q, v)'
            <7> SUFFICES ASSUME NEW v \in r.all \ r.todo PROVE MeetsAt(r, v) => MeetsAt(q, v)'
              OBVIOUS
            <7>1. v \in Workspaces \ {w}
              BY <1>2, <4>1 DEF Call
            <7>2. policies'[v] = policies[v] /\ certs' = certs
              BY <1>w, <3>4, <7>1
            <7> QED
              BY <5>1, <7>2 DEF MeetsAt, Active
          <6> QED
            BY <1>f, <4>1, <5>1, <6>1 DEF CallStands
        <5> QED
          BY <5>1, <5>2, <5>3 DEF Stands
      <4>2. CASE r \in Update
        <5>1. q \in Update /\ q.stage = "policy" /\ q.at = w /\ q.policy = DefaultPolicy
          BY <1>5, <3>1, <4>2, Kinds DEF Update, Stage
        <5>2. HoldsPolicy(q)'
          BY <1>w, <3>4, <5>1, Kinds DEF HoldsPolicy
        <5> QED
          BY <5>1, <5>2 DEF Stands
      <4> QED
        BY <1>s, <4>1, <4>2
    <3>6. /\ gateRequests' \in [GateClients -> Call \cup Update \cup {NoGateRequest}]
          /\ gateRequests'[c] = q
          /\ \A d \in GateClients \ {c} : gateRequests'[d] = Overlapped(c)[d]
      BY <3>3, <3>5, OverlappedTypes
    <3>7. Stands(gateRequests[c])'
      BY <3>5, <3>6
    <3> QED
      BY <3>4, <3>6, <3>7, WriteOverlaps
  <2> QED
    BY <2>1, <2>2
<1> QED
  BY <1>2, <1>3, <1>4, <1>5

\* What a policy's address and certificate checks let through meets the policy.
LEMMA FitsMeets ==
  ASSUME Gated, NEW r \in Call, r.at \in Workspaces, policies[r.at] = r.policy, r.policy \in Policy
  PROVE  (AddressFits(r.policy, r.address) /\ (r.policy.require_client_certificate => Active(r.at, r.certificate)))
           <=> MeetsAt(r, r.at)
<1>1. r.policy.exists /\ r.policy.ip_allowlist \subseteq Nets
  BY DEF Policy
<1>2. \A net \in Nets : NoAddress \notin NetHas[net]
  BY RequestGateAssumption DEF RequestGateAssumption
<1> QED
  BY <1>1, <1>2 DEF AddressFits, _is_ip_allowed, MeetsAt

\* The update writes a policy: the columns it loaded, changed as asked.
LEMMA UpdateWrites ==
  ASSUME Gated, NEW c \in GateClients, update_workspace_security_policy(c)
  PROVE  /\ policies' \in [Workspaces -> Policy \cup {NoPolicy}]
         /\ \A w \in Workspaces : policies[w] \in Policy => policies'[w] \in Policy
         /\ gateRequests[c].alone /\ (\A w \in Workspaces : LetsIn(policies[w]))
              => \A w \in Workspaces : LetsIn(policies'[w])
<1>1. PICK r \in Update : r = gateRequests[c] /\ HoldsPolicy(r) /\ r.stage = "policy"
  BY Kinds DEF Gated, Stands, update_workspace_security_policy
<1> DEFINE old == r.policy
           nets == IF r.change.ip_allowlist = <<>> THEN old.ip_allowlist ELSE r.change.ip_allowlist[1]
           enforce == IF r.change.enforce = NotGiven THEN old.enforce_ip_allowlist ELSE r.change.enforce = "on"
           require == IF r.change.require = NotGiven THEN old.require_client_certificate ELSE r.change.require = "on"
           row == policies[r.at]
           new == [row EXCEPT !.ip_allowlist = IF nets = old.ip_allowlist THEN @ ELSE nets,
                              !.enforce_ip_allowlist = IF enforce = old.enforce_ip_allowlist THEN @ ELSE enforce,
                              !.require_client_certificate = IF require = old.require_client_certificate THEN @ ELSE require]
<1>2. r.at \in Workspaces /\ old \in Policy /\ row \in Policy /\ (r.alone => row = old)
  BY <1>1 DEF HoldsPolicy
<1>3. nets \in SUBSET Nets /\ enforce \in BOOLEAN /\ require \in BOOLEAN
  <2>1. r.change \in Change
    BY DEF Update
  <2>2. r.change.ip_allowlist = <<>> \/ r.change.ip_allowlist[1] \in SUBSET Nets
    BY <2>1 DEF Change
  <2>3. old.ip_allowlist \in SUBSET Nets /\ old.enforce_ip_allowlist \in BOOLEAN /\ old.require_client_certificate \in BOOLEAN
    BY <1>2 DEF Policy
  <2> QED
    BY <2>2, <2>3
<1>4. \/ UNCHANGED policies
      \/ MayEnforce(enforce, nets) /\ policies' = [policies EXCEPT ![r.at] = new]
  BY ZenonT(40), <1>1 DEF update_workspace_security_policy
<1> HIDE DEF nets, enforce, require
<1>5. new \in Policy
  BY <1>2, <1>3 DEF Policy
<1>6. r.alone => /\ new.ip_allowlist = nets /\ new.enforce_ip_allowlist = enforce
  BY <1>2, <1>3 DEF Policy
<1>7. CASE UNCHANGED policies
  BY <1>7 DEF Gated
<1>8. CASE MayEnforce(enforce, nets) /\ policies' = [policies EXCEPT ![r.at] = new]
  <2> HIDE DEF new
  <2>1. /\ policies' \in [Workspaces -> Policy \cup {NoPolicy}] /\ policies'[r.at] = new
        /\ \A w \in Workspaces \ {r.at} : policies'[w] = policies[w]
    BY <1>2, <1>5, <1>8 DEF Gated
  <2>2. r.alone => LetsIn(new)
    BY <1>6, <1>8 DEF LetsIn, MayEnforce
  <2> QED
    BY <1>1, <1>5, <2>1, <2>2
<1> QED
  BY <1>4, <1>7, <1>8

LEMMA NextGated == Gated /\ [GateNext]_gateVars => Gated'
<1> SUFFICES ASSUME Gated, [GateNext]_gateVars PROVE Gated'
  OBVIOUS
<1>n. NotGiven \notin Workspaces /\ NotGiven \notin GateClients
  BY RequestGateAssumption DEF RequestGateAssumption
<1>1. ASSUME NEW c \in GateClients, NEW w \in Workspaces, NEW change \in Change, BeginUpdate(c, w, change)
      PROVE  Gated'
  <2>1. PICK q : q = [kind |-> "update", stage |-> "start", at |-> w, todo |-> {w}, change |-> change,
                      policy |-> NoPolicy, alone |-> TRUE]
    OBVIOUS
  <2>2. q \in Update /\ q.stage = "start"
    BY <2>1 DEF Update, Stage
  <2>3. Stands(q)
    BY <2>2 DEF Stands, HoldsPolicy
  <2>4. gateRequests' = [gateRequests EXCEPT ![c] = q] /\ UNCHANGED <<policies, certs>>
    BY <1>1, <2>1 DEF BeginUpdate
  <2> QED
    BY <2>2, <2>3, <2>4, OneMoves
<1>2. ASSUME NEW c \in GateClients, NEW workspaces \in SUBSET Workspaces, NEW address \in Addresses \cup {NoAddress},
             NEW certificate \in Fingerprints \cup {NoCertificate}, validate_api_key(c, workspaces, address, certificate)
      PROVE  Gated'
  <2>1. PICK q : q = [kind |-> "call", stage |-> "key", at |-> NotGiven, todo |-> workspaces, all |-> workspaces,
                      address |-> address, certificate |-> certificate, policy |-> NoPolicy, alone |-> TRUE]
    OBVIOUS
  <2>2. q \in Call /\ q.stage = "key" /\ q.todo = workspaces /\ q.all = workspaces
    BY <2>1 DEF Call, Stage
  <2>3. Stands(q)
    BY <2>2 DEF Stands, HoldsPolicy, CallStands
  <2>4. gateRequests' = [gateRequests EXCEPT ![c] = q] /\ UNCHANGED <<policies, certs>>
    BY <1>2, <2>1 DEF validate_api_key
  <2> QED
    BY <2>2, <2>3, <2>4, OneMoves
<1>3. ASSUME NEW c \in GateClients, ReadPolicy(c) PROVE Gated'
  BY <1>3, ReadGated
<1>4. ASSUME NEW c \in GateClients, update_workspace_security_policy(c) PROVE Gated'
  <2>1. CASE GateEnds(c) /\ UNCHANGED policies
    BY <1>4, <2>1, OneEnds DEF update_workspace_security_policy
  <2>2. CASE GateWrites(c)
    <3>1. /\ gateRequests' \in [GateClients -> Call \cup Update \cup {NoGateRequest}]
          /\ gateRequests'[c] = NoGateRequest
          /\ \A d \in GateClients \ {c} : gateRequests'[d] = Overlapped(c)[d]
      BY <2>2, OverlappedTypes DEF GateWrites
    <3>2. Stands(gateRequests[c])'
      BY <3>1 DEF Stands
    <3> QED
      BY <1>4, <3>1, <3>2, UpdateWrites, WriteOverlaps
  <2> QED
    BY <1>4, <2>1, <2>2 DEF update_workspace_security_policy
<1>5. ASSUME NEW c \in GateClients, enforce_api_key_rate_limit(c) PROVE Gated'
  <2>1. CASE GateEnds(c)
    BY <1>5, <2>1, OneEnds DEF enforce_api_key_rate_limit
  <2>2. CASE gateRequests' = [gateRequests EXCEPT ![c].stage = "start"]
    <3>1. PICK r \in Call : r = gateRequests[c] /\ CallStands(r)
      BY <1>5, Kinds DEF Gated, Stands, enforce_api_key_rate_limit
    <3>2. PICK q : q = [r EXCEPT !.stage = "start"]
      OBVIOUS
    <3>3. /\ q \in Call /\ q.stage = "start" /\ q.todo = r.todo /\ q.all = r.all /\ q.alone = r.alone
          /\ q.address = r.address /\ q.certificate = r.certificate
      BY <3>2 DEF Call, Stage
    <3>4. HoldsPolicy(q) /\ CallStands(q)
      BY <3>1, <3>3 DEF HoldsPolicy, CallStands, MeetsAt
    <3>5. gateRequests' = [gateRequests EXCEPT ![c] = q] /\ UNCHANGED <<policies, certs>>
      BY <1>5, <2>2, <3>1, <3>2 DEF enforce_api_key_rate_limit
    <3> QED
      BY <3>3, <3>4, <3>5, OneMoves DEF Stands
  <2> QED
    BY <1>5, <2>1, <2>2 DEF enforce_api_key_rate_limit, check_scope
<1>6. ASSUME NEW c \in GateClients, enforce_workspace_request_security(c) PROVE Gated'
  <2>1. PICK r \in Call : r = gateRequests[c] /\ HoldsPolicy(r) /\ CallStands(r) /\ r.stage = "policy"
    BY <1>6, Kinds DEF Gated, Stands, enforce_workspace_request_security
  <2>2. CASE GateEnds(c)
    BY <1>6, <2>2, OneEnds DEF enforce_workspace_request_security
  <2>3. CASE /\ AddressFits(r.policy, r.address) /\ (r.policy.require_client_certificate => Active(r.at, r.certificate))
             /\ gateRequests' = [gateRequests EXCEPT ![c].todo = @ \ {r.at}, ![c].at = NotGiven, ![c].stage = "start"]
    <3>1. PICK q : q = [r EXCEPT !.todo = @ \ {r.at}, !.at = NotGiven, !.stage = "start"]
      OBVIOUS
    <3>2. /\ q \in Call /\ q.stage = "start" /\ q.todo = r.todo \ {r.at} /\ q.all = r.all /\ q.alone = r.alone
          /\ q.address = r.address /\ q.certificate = r.certificate
      BY <3>1 DEF Call, Stage
    <3>3. r.alone => MeetsAt(r, r.at)
      BY <2>1, <2>3, FitsMeets DEF HoldsPolicy
    <3>4. HoldsPolicy(q) /\ CallStands(q)
      BY <2>1, <3>2, <3>3 DEF HoldsPolicy, CallStands, MeetsAt
    <3>5. gateRequests' = [gateRequests EXCEPT ![c] = q] /\ UNCHANGED <<policies, certs>>
      BY <1>6, <2>1, <2>3, <3>1 DEF enforce_workspace_request_security
    <3> QED
      BY <3>2, <3>4, <3>5, OneMoves DEF Stands
  <2> QED
    BY <1>6, <2>1, <2>2, <2>3 DEF enforce_workspace_request_security
<1>7. ASSUME NEW c \in GateClients, Serve(c) PROVE Gated'
  BY <1>7, OneEnds DEF Serve
<1>8. ASSUME NEW w \in Workspaces, NEW f \in Fingerprints,
             register_workspace_client_certificate(w, f) \/ deactivate_workspace_client_certificate(w, f)
      PROVE  Gated'
  BY <1>8, OutsideWrite DEF register_workspace_client_certificate, deactivate_workspace_client_certificate
<1>9. CASE revoke_api_key
  BY <1>9, OutsideWrite DEF revoke_api_key
<1>10. CASE Tick \/ UNCHANGED gateVars
  <2>1. UNCHANGED <<policies, certs, gateRequests>>
    BY <1>10 DEF Tick, gateVars
  <2> QED
    BY <2>1 DEF Gated, Stands, HoldsPolicy, CallStands, MeetsAt, Active
<1>11. CASE reset_api_key_rate_limit_cache
  BY <1>11 DEF reset_api_key_rate_limit_cache, Gated, Stands
<1> QED
  BY <1>1, <1>2, <1>3, <1>4, <1>5, <1>6, <1>7, <1>8, <1>9, <1>10, <1>11 DEF GateNext

-------------------------------------------------------------------------------
(* The gate.                                                                *)

LEMMA CallsMeet == Gated => CallsMeetPolicies
<1> SUFFICES ASSUME Gated, NEW c \in GateClients, gateRequests[c].kind = "call", gateRequests[c].alone
             PROVE  /\ Serve(c) => Meets(gateRequests[c])
                    /\ (enforce_workspace_request_security(c) /\ gateRequests'[c] = NoGateRequest) => ~Meets(gateRequests[c])
  BY DEF CallsMeetPolicies
<1>1. PICK r \in Call : r = gateRequests[c] /\ HoldsPolicy(r) /\ CallStands(r) /\ r.alone
  BY Kinds DEF Gated, Stands
<1>2. Meets(r) <=> \A w \in r.all : MeetsAt(r, w)
  BY DEF Meets, MeetsAt
<1>3. ASSUME Serve(c) PROVE Meets(r)
  BY <1>1, <1>2, <1>3 DEF Serve, CallStands
<1>4. ASSUME enforce_workspace_request_security(c), gateRequests'[c] = NoGateRequest PROVE ~Meets(r)
  <2>1. r.stage = "policy" /\ r.at \in r.all
    BY <1>1, <1>4 DEF enforce_workspace_request_security, CallStands
  <2>2. ~(AddressFits(r.policy, r.address) /\ (r.policy.require_client_certificate => Active(r.at, r.certificate)))
    <3> SUFFICES ASSUME gateRequests' = [gateRequests EXCEPT ![c].todo = @ \ {r.at}, ![c].at = NotGiven, ![c].stage = "start"]
                 PROVE  FALSE
      BY <1>1, <1>4 DEF enforce_workspace_request_security
    <3>1. gateRequests'[c].kind = "call"
      BY <1>1, Kinds DEF Gated, Call
    <3> QED
      BY <1>4, <3>1, Kinds
  <2> QED
    BY <1>1, <1>2, <2>1, <2>2, FitsMeets DEF HoldsPolicy
<1> QED
  BY <1>1, <1>3, <1>4

LEMMA PoliciesLet == Gated /\ GateNext => PoliciesLetIn
<1> SUFFICES ASSUME Gated, GateNext, NEW c \in GateClients, gateRequests[c].kind = "update", gateRequests[c].alone,
                    gateRequests'[c] = NoGateRequest, \A w \in Workspaces : LetsIn(policies[w])
             PROVE  \A w \in Workspaces : LetsIn(policies'[w])
  BY DEF PoliciesLetIn
<1>1. CASE UNCHANGED policies
  BY <1>1
<1>2. ASSUME NEW d \in GateClients, ReadPolicy(d) PROVE \A w \in Workspaces : LetsIn(policies'[w])
  <2>1. UNCHANGED policies \/ \E w \in gateRequests[d].todo : policies' = [policies EXCEPT ![w] = DefaultPolicy]
    BY <1>2 DEF ReadPolicy, ensure_workspace_security_policy, create_default_workspace_security_policy
  <2> QED
    BY <2>1, Kinds DEF Gated
<1>3. ASSUME NEW d \in GateClients, update_workspace_security_policy(d)
      PROVE  \A w \in Workspaces : LetsIn(policies'[w])
  <2>1. CASE d = c
    BY <1>3, <2>1, UpdateWrites
  <2>2. CASE d # c /\ ~UNCHANGED policies
    <3>1. GateWrites(d)
      BY <1>3, <2>2 DEF update_workspace_security_policy
    <3>2. gateRequests'[c] = Overlapped(d)[c]
      BY <2>2, <3>1, OverlappedTypes DEF GateWrites
    <3>3. gateRequests'[c].kind = "update"
      <4>1. gateRequests[c] \in Update /\ gateRequests[c].kind # "none"
        BY Kinds DEF Gated
      <4>2. gateRequests'[c] = [gateRequests[c] EXCEPT !.alone = FALSE]
        BY <2>2, <3>2, <4>1 DEF Overlapped
      <4> QED
        BY <4>1, <4>2 DEF Update
    <3> QED
      BY <3>3, Kinds
  <2> QED
    BY <2>1, <2>2
<1>4. ASSUME ~UNCHANGED policies
      PROVE  \E d \in GateClients : ReadPolicy(d) \/ update_workspace_security_policy(d)
  BY <1>4 DEF GateNext, BeginUpdate, validate_api_key, enforce_api_key_rate_limit,
     enforce_workspace_request_security, Serve, register_workspace_client_certificate,
     deactivate_workspace_client_certificate, revoke_api_key, Tick, reset_api_key_rate_limit_cache
<1> QED
  BY <1>1, <1>2, <1>3, <1>4

LEMMA InitGated == RequestGateInit => Gated
<1> SUFFICES ASSUME RequestGateInit PROVE Gated
  OBVIOUS
<1>1. policies \in [Workspaces -> Policy \cup {NoPolicy}]
  BY DEF RequestGateInit
<1>2. gateRequests \in [GateClients -> {NoGateRequest}]
  BY DEF RequestGateInit
<1> QED
  BY <1>1, <1>2 DEF Gated, Stands

\* The gate lets in whom policies and limit let in, for every set of workspaces,
\* networks and clients, every limit and every time (require_scope): a call that no
\* write overlapped is judged as all its policies say, a lone update leaves a policy
\* that lets somebody in, and no minute passes more calls than the limit.
THEOREM GateKeptAlways == GateSpec => GateKept
<1>1. RequestGateInit => Gated /\ Rated
  BY InitGated, InitRated
<1>2. Gated /\ Rated /\ [GateNext]_gateVars => (Gated /\ Rated)'
  BY NextGated, NextRated
<1>3. Gated => CallsMeetPolicies
  BY CallsMeet
<1>4. Rated => RateKept
  BY RateIsKept
<1>5. Gated /\ Rated /\ Rated' /\ [GateNext]_gateVars => [CallsMeetPolicies /\ PoliciesLetIn /\ RateKept']_gateVars
  <2>1. Rated' => RateKept'
    BY <1>4, PTL
  <2>2. Gated /\ GateNext => PoliciesLetIn
    BY PoliciesLet
  <2> QED
    BY <1>3, <2>1, <2>2
<1> QED
  BY <1>1, <1>2, <1>5, PTL DEF GateSpec, GateKept

-------------------------------------------------------------------------------
(* Access: what a change asked for and what a check answers.                *)

Persons == People \cup {Owner}
Roles == {"viewer", "admin"}
Permissions == {"view_only", "full_access"}
OnMembers == {"add_member", "update_member", "remove_member"}
OnModel == {"set_access", "remove_access"}
Removals == {"remove_member", "remove_access"}
Held == Roles \cup Permissions \cup {Absent}
Configs == {NoConfig} \cup [exists : {TRUE}, read : {NoDriver, "read_driver"}, write : {NoDriver, "write_driver"}]
AccessChange ==
  [kind : OnMembers \cup OnModel, stage : {"asking", "allowed", "selected"}, by : Persons, user : Persons,
   value : Held, alone : BOOLEAN, seen : Held, loaded : Held]
AccessCheck ==
  [kind : {"cell"}, stage : {"grants", "config", "read_driver", "write_driver", "done"},
   read : BOOLEAN, write : BOOLEAN, config : Configs, alone : BOOLEAN]
IsTable(f, S) == DOMAIN f \subseteq Persons /\ \A u \in DOMAIN f : f[u] \in S

\* What a change asks for is what its kind may ask for.
Asks(r) ==
  /\ r.kind \in {"add_member", "update_member"} => r.value \in Roles
  /\ r.kind = "set_access" => r.value \in Permissions
  /\ r.kind \in Removals => r.value = Absent
TableOf(kind, mem, acc) == IF kind \in OnModel THEN acc ELSE mem
HeldIn(f, u) == IF u \in DOMAIN f THEN f[u] ELSE Absent
\* Nothing overlapped the change: its sender still may, and what it loaded and saw is
\* what there is.
ChangeHolds(r, mem, acc) ==
  /\ r.by # Owner => r.by \in DOMAIN mem /\ mem[r.by] = "admin"
  /\ r.loaded # Absent => r.loaded = HeldIn(TableOf(r.kind, mem, acc), r.user)
  /\ r.stage = "selected" => r.seen = HeldIn(TableOf(r.kind, mem, acc), r.user)

LevelsOf(given) == {given[g] : g \in DOMAIN given}
GrantsRead(given) == "none" \notin LevelsOf(given)
GrantsWrite(given) == GrantsRead(given) /\ (LevelsOf(given) # {} => "write" \in LevelsOf(given))
DriverLets(driver, cells) == driver = NoDriver \/ evaluate_dca_driver(cells[driver])
\* Nothing overlapped the check: its answer is what the parts it read so far say.
CheckHolds(r, given, set, cells) ==
  LET lets == set.exists => DriverLets(set.read, cells)
      writes == set.exists => DriverLets(set.write, cells)
  IN  /\ r.stage = "config" => r.read = GrantsRead(given) /\ r.write = GrantsWrite(given)
      /\ r.stage = "read_driver" => r.config = set /\ r.read = GrantsRead(given) /\ r.write = GrantsWrite(given)
      /\ r.stage = "write_driver" =>
           r.config = set /\ r.read = (GrantsRead(given) /\ lets) /\ r.write = (GrantsWrite(given) /\ lets)
      /\ r.stage = "done" => r.read = (GrantsRead(given) /\ lets) /\ r.write = (GrantsWrite(given) /\ lets /\ writes)
AccessStands(r, mem, acc, given, set, cells) ==
  \/ r = NoAccessRequest
  \/ r \in AccessChange /\ Asks(r) /\ (r.alone => ChangeHolds(r, mem, acc))
  \/ r \in AccessCheck /\ (r.write => r.read) /\ (r.stage = "grants" => r.read /\ r.write) /\ (r.alone => CheckHolds(r, given, set, cells))
\* The inductive invariant: the tables hold roles and permissions, and every request
\* stands by what it asked and, while nothing overlaps it, by what there is.
AccessInv ==
  /\ IsTable(members, Roles) /\ IsTable(access, Permissions) /\ config \in Configs
  /\ accessRequests = [c \in AccessClients |-> accessRequests[c]]
  /\ \A c \in AccessClients : AccessStands(accessRequests[c], members, access, grants, config, drivers)

LEMMA AccessKinds ==
  \A r : /\ r \in AccessChange => r.kind \in OnMembers \cup OnModel
         /\ r \in AccessCheck => r.kind = "cell"
         /\ r = NoAccessRequest => r.kind = "none"
BY DEF AccessChange, AccessCheck, NoAccessRequest

LEMMA RestingStands == \A mem, acc, given, set, cells : AccessStands(NoAccessRequest, mem, acc, given, set, cells)
BY DEF AccessStands

\* A request that something overlapped stands whatever was changed.
LEMMA OverlappedStands ==
  ASSUME NEW r, NEW mem, NEW acc, NEW given, NEW set, NEW cells, AccessStands(r, mem, acc, given, set, cells),
         NEW mem2, NEW acc2, NEW given2, NEW set2, NEW cells2, r # NoAccessRequest
  PROVE  AccessStands([r EXCEPT !.alone = FALSE], mem2, acc2, given2, set2, cells2)
<1>1. PICK new : new = [r EXCEPT !.alone = FALSE]
  OBVIOUS
<1>2. CASE r \in AccessChange /\ Asks(r)
  <2>1. new \in AccessChange /\ new.kind = r.kind /\ new.value = r.value /\ new.alone = FALSE
    BY <1>1, <1>2 DEF AccessChange
  <2> QED
    BY <1>1, <1>2, <2>1 DEF AccessStands, Asks
<1>3. CASE r \in AccessCheck /\ (r.write => r.read) /\ (r.stage = "grants" => r.read /\ r.write)
  <2>1. new \in AccessCheck /\ new.read = r.read /\ new.write = r.write /\ new.stage = r.stage /\ new.alone = FALSE
    BY <1>1, <1>3 DEF AccessCheck
  <2> QED
    BY <1>1, <1>3, <2>1 DEF AccessStands
<1> QED
  BY <1>2, <1>3 DEF AccessStands

LEMMA OverlappedAllStand ==
  ASSUME AccessInv, NEW by, NEW mem2, NEW acc2, NEW given2, NEW set2, NEW cells2,
         NEW c \in AccessClients, c # by
  PROVE  AccessStands(AccessOverlapped(by)[c], mem2, acc2, given2, set2, cells2)
<1>1. CASE accessRequests[c].kind = "none"
  <2>1. accessRequests[c] = NoAccessRequest
    BY <1>1, AccessKinds DEF AccessInv, AccessStands, OnMembers, OnModel
  <2> QED
    BY <1>1, <2>1, RestingStands DEF AccessOverlapped
<1>2. CASE accessRequests[c].kind # "none"
  <2>1. accessRequests[c] # NoAccessRequest /\ AccessStands(accessRequests[c], members, access, grants, config, drivers)
    BY <1>2, AccessKinds DEF AccessInv
  <2>2. AccessStands([accessRequests[c] EXCEPT !.alone = FALSE], mem2, acc2, given2, set2, cells2)
    BY <2>1, OverlappedStands
  <2> QED
    BY <1>2, <2>2 DEF AccessOverlapped
<1> QED
  BY <1>1, <1>2

\* One request moves on, the tables stay.
LEMMA OneAccessMoves ==
  ASSUME AccessInv, NEW c \in AccessClients, NEW r,
         accessRequests' = [accessRequests EXCEPT ![c] = r], UNCHANGED <<members, access, grants, config, drivers>>,
         AccessStands(r, members, access, grants, config, drivers)
  PROVE  AccessInv'
<1>1. accessRequests' = [d \in AccessClients |-> IF d = c THEN r ELSE accessRequests[d]]
  BY DEF AccessInv
<1>2. \A d \in AccessClients : AccessStands(accessRequests'[d], members, access, grants, config, drivers)
  BY <1>1 DEF AccessInv
<1>3. accessRequests' = [d \in AccessClients |-> accessRequests'[d]]
  BY <1>1
<1> QED
  BY <1>2, <1>3 DEF AccessInv

LEMMA OneAccessEnds ==
  ASSUME AccessInv, NEW c \in AccessClients, AccessEnds(c), UNCHANGED <<members, access, grants, config, drivers>>
  PROVE  AccessInv'
BY OneAccessMoves, RestingStands DEF AccessEnds

-----------------------------------------------------------------------------
LEMMA InitAccess == MembersInit /\ RulesInit => AccessInv
<1> SUFFICES ASSUME MembersInit, RulesInit PROVE AccessInv
  OBVIOUS
<1>1. PICK P \in SUBSET People : members \in [P -> {"viewer", "admin"}]
  BY DEF MembersInit
<1>2. IsTable(members, Roles)
  BY <1>1 DEF IsTable, Roles, Persons
<1>3. IsTable(access, Permissions)
  BY DEF IsTable, RulesInit
<1>4. config \in Configs
  BY DEF RulesInit, Configs
<1>5. accessRequests = [c \in AccessClients |-> NoAccessRequest]
  BY DEF RulesInit
<1> QED
  BY <1>2, <1>3, <1>4, <1>5, RestingStands DEF AccessInv

LEMMA ManagersAreAdmins ==
  ASSUME AccessInv, NEW by, MayManage(by), by # Owner
  PROVE  by \in DOMAIN members /\ members[by] = "admin"
<1>1. by \in DOMAIN members /\ _ROLE_ORDER[members[by]] >= _ROLE_ORDER["admin"]
  BY DEF MayManage, check_workspace_permission
<1>2. members[by] \in {"viewer", "admin"}
  BY <1>1 DEF AccessInv, IsTable, Roles
<1>3. _ROLE_ORDER["admin"] = 2 /\ _ROLE_ORDER["viewer"] = 0
  BY DEF _ROLE_ORDER
<1> QED
  BY <1>1, <1>2, <1>3

LEMMA AuthorizeStands ==
  ASSUME AccessInv, NEW c \in AccessClients, NEW kind \in OnMembers \cup OnModel, NEW by \in Persons, NEW user \in Persons,
         NEW value,
         kind \in {"add_member", "update_member"} => value \in Roles, kind = "set_access" => value \in Permissions,
         kind \in Removals => value = Absent,
         Authorize(c, kind, by, user, value)
  PROVE  AccessInv'
<1> DEFINE loads == by = user /\ by # Owner /\ kind \in {"add_member", "update_member", "remove_member"}
<1>1. PICK l : l = IF loads THEN members[by] ELSE Absent
  OBVIOUS
<1>2. PICK r : r = [kind |-> kind, stage |-> IF kind = "update_member" THEN "asking" ELSE "allowed", by |-> by, user |-> user,
                    value |-> value, alone |-> TRUE, seen |-> Absent, loaded |-> l]
  OBVIOUS
<1>3. accessRequests' = [accessRequests EXCEPT ![c] = r] /\ UNCHANGED <<members, access, grants, config, drivers>> /\ MayManage(by)
  BY <1>1, <1>2 DEF Authorize
<1>4. by # Owner => by \in DOMAIN members /\ members[by] = "admin"
  BY <1>3, ManagersAreAdmins
<1>5. l \in Held /\ (l # Absent => by = user /\ kind \in OnMembers /\ by \in DOMAIN members /\ l = members[by])
  BY <1>1, <1>4 DEF Held, Roles, OnMembers
<1>6. value \in Held
  BY DEF Held, OnMembers, OnModel, Removals
<1>7. r \in AccessChange /\ Asks(r)
  BY <1>2, <1>5, <1>6 DEF AccessChange, Asks, Held
<1>8. ChangeHolds(r, members, access)
  <2>1. r.kind = kind /\ r.by = by /\ r.user = user /\ r.loaded = l /\ r.stage # "selected"
    BY <1>2
  <2>2. kind \in OnMembers => TableOf(kind, members, access) = members
    BY DEF TableOf, OnMembers, OnModel
  <2> QED
    BY <1>4, <1>5, <2>1, <2>2 DEF ChangeHolds, HeldIn
<1>9. AccessStands(r, members, access, grants, config, drivers)
  BY <1>7, <1>8 DEF AccessStands
<1> QED
  BY <1>3, <1>9, OneAccessMoves

LEMMA ChangedIsTable == \A kind \in OnMembers \cup OnModel : Changed(kind) = TableOf(kind, members, access)
BY DEF Changed, TableOf, OnMembers, OnModel

\* A change is one of the kinds of changes.
LEMMA IsChange ==
  ASSUME AccessInv, NEW c \in AccessClients, accessRequests[c].kind \notin {"none", "cell"}
  PROVE  accessRequests[c] \in AccessChange /\ Asks(accessRequests[c])
         /\ (accessRequests[c].alone => ChangeHolds(accessRequests[c], members, access))
BY AccessKinds DEF AccessInv, AccessStands

LEMMA IsCheck ==
  ASSUME AccessInv, NEW c \in AccessClients, accessRequests[c].kind = "cell"
  PROVE  /\ accessRequests[c] \in AccessCheck /\ (accessRequests[c].write => accessRequests[c].read)
         /\ accessRequests[c].stage = "grants" => accessRequests[c].read /\ accessRequests[c].write
         /\ accessRequests[c].alone => CheckHolds(accessRequests[c], grants, config, drivers)
BY AccessKinds DEF AccessInv, AccessStands, OnMembers, OnModel

\* What a change finds is what is stored, or what it had loaded of it before.
LEMMA LookFinds ==
  ASSUME AccessInv, NEW r \in AccessChange
  PROVE  /\ Look(r) \in Held
         /\ r.alone /\ ChangeHolds(r, members, access) => Look(r) = HeldIn(TableOf(r.kind, members, access), r.user)
<1>1. PICK f : f = Changed(r.kind) /\ f = TableOf(r.kind, members, access)
  BY ChangedIsTable DEF AccessChange
<1>2. IsTable(f, Roles \cup Permissions)
  BY <1>1 DEF AccessInv, IsTable, TableOf
<1>3. Look(r) = IF r.user \notin DOMAIN f THEN Absent ELSE IF r.loaded # Absent THEN r.loaded ELSE f[r.user]
  BY <1>1 DEF Look
<1>4. r.loaded \in Held
  BY DEF AccessChange
<1>5. Look(r) \in Held
  BY <1>2, <1>3, <1>4 DEF Held, IsTable
<1>6. ChangeHolds(r, members, access) => Look(r) = HeldIn(f, r.user)
  BY <1>1, <1>3 DEF ChangeHolds, HeldIn
<1> QED
  BY <1>1, <1>5, <1>6

LEMMA RoleStands ==
  ASSUME AccessInv, NEW c \in AccessClients, get_workspace_role(c)
  PROVE  AccessInv'
<1>1. PICK r : r = accessRequests[c]
  OBVIOUS
<1>2. r.kind = "update_member" /\ UNCHANGED <<members, access, grants, config, drivers>>
  BY <1>1 DEF get_workspace_role
<1>3. r \in AccessChange /\ Asks(r) /\ (r.alone => ChangeHolds(r, members, access))
  BY <1>1, <1>2, IsChange
<1>4. CASE AccessEnds(c)
  BY <1>2, <1>4, OneAccessEnds
<1>5. CASE Look(r) # Absent
  <2>1. PICK n : n = [r EXCEPT !.stage = "allowed", !.loaded = Look(r)]
    OBVIOUS
  <2>2. accessRequests' = [accessRequests EXCEPT ![c] = n]
    BY <1>1, <1>5, <2>1 DEF get_workspace_role, AccessInv
  <2>3. n \in AccessChange /\ n.kind = r.kind /\ n.value = r.value /\ n.by = r.by /\ n.user = r.user /\ n.alone = r.alone
        /\ n.stage = "allowed" /\ n.loaded = Look(r)
    BY <1>3, <2>1, LookFinds DEF AccessChange
  <2>4. Asks(n) /\ (n.alone => ChangeHolds(n, members, access))
    BY <1>3, <2>3, LookFinds DEF Asks, ChangeHolds
  <2> QED
    BY <1>2, <2>2, <2>3, <2>4, OneAccessMoves DEF AccessStands
<1> QED
  BY <1>1, <1>4, <1>5 DEF get_workspace_role

LEMMA SelectStands ==
  ASSUME AccessInv, NEW c \in AccessClients, SelectRow(c)
  PROVE  AccessInv'
<1>1. PICK r : r = accessRequests[c]
  OBVIOUS
<1>2. r.kind \notin {"none", "cell"} /\ UNCHANGED <<members, access, grants, config, drivers>>
  BY <1>1 DEF SelectRow
<1>3. r \in AccessChange /\ Asks(r) /\ (r.alone => ChangeHolds(r, members, access))
  BY <1>1, <1>2, IsChange
<1>4. CASE AccessEnds(c)
  BY <1>2, <1>4, OneAccessEnds
<1>5. CASE accessRequests' = [accessRequests EXCEPT ![c].stage = "selected", ![c].seen = Look(r)]
  <2>1. PICK n : n = [r EXCEPT !.stage = "selected", !.seen = Look(r)]
    OBVIOUS
  <2>2. accessRequests' = [accessRequests EXCEPT ![c] = n]
    BY <1>1, <1>5, <2>1 DEF AccessInv
  <2>3. n \in AccessChange /\ n.kind = r.kind /\ n.value = r.value /\ n.by = r.by /\ n.user = r.user /\ n.alone = r.alone
        /\ n.loaded = r.loaded /\ n.seen = Look(r)
    BY <1>3, <2>1, LookFinds DEF AccessChange
  <2>4. Asks(n) /\ (n.alone => ChangeHolds(n, members, access))
    BY <1>3, <2>3, LookFinds DEF Asks, ChangeHolds
  <2> QED
    BY <1>2, <2>2, <2>3, <2>4, OneAccessMoves DEF AccessStands
<1> QED
  BY <1>1, <1>4, <1>5 DEF SelectRow

\* A committed change overlaps everything else that is open.
LEMMA AllOverlapped ==
  ASSUME AccessInv, NEW by,
         \/ accessRequests' = AccessOverlapped(by) /\ by \notin AccessClients
         \/ accessRequests' = [AccessOverlapped(by) EXCEPT ![by] = NoAccessRequest],
         IsTable(members', Roles), IsTable(access', Permissions), config' \in Configs
  PROVE  AccessInv'
<1>1. AccessOverlapped(by) = [d \in AccessClients |-> AccessOverlapped(by)[d]]
  BY DEF AccessOverlapped
<1>2. accessRequests' = [d \in AccessClients |-> accessRequests'[d]]
  BY <1>1
<1>3. ASSUME NEW d \in AccessClients PROVE AccessStands(accessRequests'[d], members', access', grants', config', drivers')
  <2>1. CASE d = by
    <3>1. accessRequests'[d] = NoAccessRequest
      BY <1>1, <2>1
    <3> QED
      BY <3>1, RestingStands
  <2>2. CASE d # by
    <3>1. accessRequests'[d] = AccessOverlapped(by)[d]
      BY <1>1, <2>2
    <3> QED
      BY <2>2, <3>1, OverlappedAllStand
  <2> QED
    BY <2>1, <2>2
<1> QED
  BY <1>2, <1>3 DEF AccessInv

\* What a write makes of the table it is about.
WrittenTable(r, f) ==
  IF r.kind \in Removals THEN Dropped(f, {r.user}) ELSE IF r.value = r.seen THEN f ELSE Upserted(f, r.user, r.value)
LEMMA WriteIs ==
  ASSUME NEW c, WriteMember(c)
  PROVE  LET r == accessRequests[c]
             f == Changed(r.kind)
         IN  /\ r.kind \notin {"none", "cell"} /\ r.stage = "selected"
             /\ UNCHANGED <<grants, config, drivers>>
             /\ \/ AccessEnds(c) /\ UNCHANGED <<members, access>>
                   /\ r.kind \notin Removals /\ ~((r.user \in DOMAIN f) <=> (r.seen # Absent))
                \/ /\ AccessWrites(c)
                   /\ r.kind \in Removals \/ ((r.user \in DOMAIN f) <=> (r.seen # Absent))
                   /\ IF r.kind \in OnModel THEN access' = WrittenTable(r, f) /\ UNCHANGED members
                      ELSE members' = WrittenTable(r, f) /\ UNCHANGED access
BY DEF WriteMember, WrittenTable, Removals, OnModel

LEMMA WrittenIsTable ==
  ASSUME NEW S, NEW f, IsTable(f, S), NEW r \in AccessChange, r.kind \notin Removals => r.value \in S
  PROVE  IsTable(WrittenTable(r, f), S)
<1>1. PICK new : new = WrittenTable(r, f)
  OBVIOUS
<1>2. r.user \in Persons
  BY DEF AccessChange
<1>3. CASE r.kind \in Removals
  <2>1. DOMAIN new = DOMAIN f \ {r.user} /\ \A x \in DOMAIN f \ {r.user} : new[x] = f[x]
    BY <1>1, <1>3 DEF WrittenTable, Dropped
  <2> QED
    BY <1>1, <2>1 DEF IsTable
<1>4. CASE r.kind \notin Removals /\ r.value = r.seen
  BY <1>4 DEF IsTable, WrittenTable
<1>5. CASE r.kind \notin Removals /\ r.value # r.seen
  <2>1. DOMAIN new = DOMAIN f \cup {r.user} /\ new[r.user] = r.value /\ \A x \in DOMAIN f \ {r.user} : new[x] = f[x]
    BY <1>1, <1>5 DEF WrittenTable, Upserted
  <2> QED
    BY <1>1, <1>2, <1>5, <2>1 DEF IsTable
<1> QED
  BY <1>3, <1>4, <1>5

LEMMA WriteStands ==
  ASSUME AccessInv, NEW c \in AccessClients, WriteMember(c)
  PROVE  AccessInv'
<1>1. PICK r : r = accessRequests[c]
  OBVIOUS
<1>2. r.kind \notin {"none", "cell"} /\ UNCHANGED <<grants, config, drivers>>
  BY <1>1, WriteIs
<1>3. r \in AccessChange /\ Asks(r)
  BY <1>1, <1>2, IsChange
<1>4. CASE AccessEnds(c) /\ UNCHANGED <<members, access>>
  BY <1>2, <1>4, OneAccessEnds
<1>5. CASE /\ AccessWrites(c)
           /\ IF r.kind \in OnModel THEN access' = WrittenTable(r, Changed(r.kind)) /\ UNCHANGED members
              ELSE members' = WrittenTable(r, Changed(r.kind)) /\ UNCHANGED access
  <2>1. CASE r.kind \in OnModel
    <3>1. Changed(r.kind) = access
      BY <2>1 DEF Changed, OnModel
    <3>2. r.kind \notin Removals => r.value \in Permissions
      BY <1>3, <2>1 DEF Asks, OnModel, Removals
    <3>3. IsTable(access', Permissions) /\ IsTable(members', Roles) /\ config' \in Configs
      BY <1>2, <1>3, <1>5, <2>1, <3>1, <3>2, WrittenIsTable DEF AccessInv
    <3> QED
      BY <1>5, <3>3, AllOverlapped DEF AccessWrites
  <2>2. CASE r.kind \notin OnModel
    <3>1. Changed(r.kind) = members
      BY <2>2 DEF Changed, OnModel
    <3>2. r.kind \notin Removals => r.value \in Roles
      BY <1>3, <2>2 DEF Asks, OnModel, OnMembers, Removals, AccessChange
    <3>3. IsTable(members', Roles) /\ IsTable(access', Permissions) /\ config' \in Configs
      BY <1>2, <1>3, <1>5, <2>2, <3>1, <3>2, WrittenIsTable DEF AccessInv
    <3> QED
      BY <1>5, <3>3, AllOverlapped DEF AccessWrites
  <2> QED
    BY <2>1, <2>2
<1> QED
  BY <1>1, <1>4, <1>5, WriteIs

LEMMA EditStands ==
  ASSUME AccessInv, Edited, config' \in Configs
  PROVE  AccessInv'
BY AllOverlapped, AccessAssumption DEF Edited, AccessInv, Absent

-----------------------------------------------------------------------------
LEMMA CheckBegins ==
  ASSUME AccessInv, NEW c \in AccessClients, check_cell_access(c)
  PROVE  AccessInv'
<1>1. PICK r : r = [kind |-> "cell", stage |-> "grants", read |-> TRUE, write |-> TRUE, config |-> NoConfig, alone |-> TRUE]
  OBVIOUS
<1>2. accessRequests' = [accessRequests EXCEPT ![c] = r] /\ UNCHANGED <<members, access, grants, config, drivers>>
  BY <1>1 DEF check_cell_access
<1>3. r \in AccessCheck /\ r.read /\ r.write /\ r.stage = "grants"
  BY <1>1 DEF AccessCheck, Configs
<1>4. CheckHolds(r, grants, config, drivers)
  BY <1>3 DEF CheckHolds
<1> QED
  BY <1>2, <1>3, <1>4, OneAccessMoves DEF AccessStands

LEMMA CheckMoves ==
  ASSUME AccessInv, NEW c \in AccessClients, NEW stage, NEW next \in AccessCheck, next.alone = accessRequests[c].alone,
         CheckStep(c, stage, next), next.write => next.read, next.stage # "grants",
         next.alone => CheckHolds(next, grants, config, drivers)
  PROVE  AccessInv'
<1>1. [next EXCEPT !.alone = accessRequests[c].alone] = next
  BY DEF AccessCheck
<1>2. accessRequests' = [accessRequests EXCEPT ![c] = next] /\ UNCHANGED <<members, access, grants, config, drivers>>
  BY <1>1 DEF CheckStep
<1> QED
  BY <1>2, OneAccessMoves DEF AccessStands

LEMMA ReadGrantsStands ==
  ASSUME AccessInv, NEW c \in AccessClients, ReadGrants(c)
  PROVE  AccessInv'
<1>1. PICK r : r = accessRequests[c]
  OBVIOUS
<1>2. PICK levels : levels = {grants[g] : g \in DOMAIN grants}
  OBVIOUS
<1>3. PICK n : n = [r EXCEPT !.stage = "config", !.read = "none" \notin levels,
                             !.write = levels = {} \/ ("none" \notin levels /\ "write" \in levels)]
  OBVIOUS
<1>4. CheckStep(c, "grants", n)
  BY <1>1, <1>2, <1>3 DEF ReadGrants, _get_grants_for_user_and_dimension_key
<1>5. r \in AccessCheck
  BY <1>1, <1>4, IsCheck DEF CheckStep
<1>6. ("none" \notin levels) \in BOOLEAN /\ (levels = {} \/ ("none" \notin levels /\ "write" \in levels)) \in BOOLEAN
  OBVIOUS
<1>7. n \in AccessCheck /\ n.stage = "config" /\ n.alone = r.alone /\ n.read = ("none" \notin levels)
      /\ n.write = (levels = {} \/ ("none" \notin levels /\ "write" \in levels))
  BY <1>3, <1>5, <1>6 DEF AccessCheck
<1>8. n.read = GrantsRead(grants) /\ n.write = GrantsWrite(grants)
  BY <1>2, <1>7 DEF GrantsRead, GrantsWrite, LevelsOf
<1>9. CheckHolds(n, grants, config, drivers)
  BY <1>7, <1>8 DEF CheckHolds
<1> QED
  BY <1>1, <1>4, <1>7, <1>8, <1>9, CheckMoves DEF GrantsWrite

LEMMA ReadConfigStands ==
  ASSUME AccessInv, NEW c \in AccessClients, ReadConfig(c)
  PROVE  AccessInv'
<1>1. PICK r : r = accessRequests[c]
  OBVIOUS
<1>2. PICK n : n = [r EXCEPT !.stage = "read_driver", !.config = config]
  OBVIOUS
<1>3. CheckStep(c, "config", n) /\ r.stage = "config"
  BY <1>1, <1>2 DEF ReadConfig, CheckStep
<1>4. r \in AccessCheck /\ (r.write => r.read) /\ (r.alone => CheckHolds(r, grants, config, drivers))
  BY <1>1, <1>3, IsCheck DEF CheckStep
<1>5. n \in AccessCheck /\ n.stage = "read_driver" /\ n.alone = r.alone /\ n.read = r.read /\ n.write = r.write /\ n.config = config
  BY <1>2, <1>4 DEF AccessCheck, AccessInv
<1>6. n.alone => CheckHolds(n, grants, config, drivers)
  BY <1>3, <1>4, <1>5 DEF CheckHolds
<1> QED
  BY <1>1, <1>3, <1>4, <1>5, <1>6, CheckMoves

LEMMA ReadDriverStands ==
  ASSUME AccessInv, NEW c \in AccessClients, ReadDriver(c)
  PROVE  AccessInv'
<1>1. PICK r : r = accessRequests[c]
  OBVIOUS
<1>2. PICK denied \in BOOLEAN :
        denied = (r.config.exists /\ r.config.read # NoDriver /\ ~evaluate_dca_driver(drivers[r.config.read]))
  OBVIOUS
<1>3. PICK n : n = [r EXCEPT !.stage = "write_driver", !.read = r.read /\ ~denied, !.write = r.write /\ ~denied]
  OBVIOUS
<1>4. CheckStep(c, "read_driver", n) /\ r.stage = "read_driver"
  BY <1>1, <1>2, <1>3 DEF ReadDriver, CheckStep
<1>5. r \in AccessCheck /\ (r.write => r.read) /\ (r.alone => CheckHolds(r, grants, config, drivers))
  BY <1>1, <1>4, IsCheck DEF CheckStep
<1>6. n \in AccessCheck /\ n.stage = "write_driver" /\ n.alone = r.alone /\ n.read = (r.read /\ ~denied) /\ n.write = (r.write /\ ~denied)
      /\ n.config = r.config
  BY <1>3, <1>5 DEF AccessCheck
<1>7. ~denied <=> (r.config.exists => DriverLets(r.config.read, drivers))
  BY <1>2 DEF DriverLets
<1>8. ASSUME n.alone PROVE CheckHolds(n, grants, config, drivers)
  <2>1. r.config = config /\ r.read = GrantsRead(grants) /\ r.write = GrantsWrite(grants)
    BY <1>4, <1>5, <1>6, <1>8 DEF CheckHolds
  <2> QED
    BY <1>6, <1>7, <2>1 DEF CheckHolds
<1> QED
  BY <1>1, <1>4, <1>5, <1>6, <1>8, CheckMoves

LEMMA ReadWriteDriverStands ==
  ASSUME AccessInv, NEW c \in AccessClients, ReadWriteDriver(c)
  PROVE  AccessInv'
<1>1. PICK r : r = accessRequests[c]
  OBVIOUS
<1>2. PICK denied \in BOOLEAN :
        denied = (r.config.exists /\ r.read /\ r.config.write # NoDriver /\ ~evaluate_dca_driver(drivers[r.config.write]))
  OBVIOUS
<1>3. PICK n : n = [r EXCEPT !.stage = "done", !.write = r.write /\ ~denied]
  OBVIOUS
<1>4. CheckStep(c, "write_driver", n) /\ r.stage = "write_driver"
  BY <1>1, <1>2, <1>3 DEF ReadWriteDriver, CheckStep
<1>5. r \in AccessCheck /\ (r.write => r.read) /\ (r.alone => CheckHolds(r, grants, config, drivers))
  BY <1>1, <1>4, IsCheck DEF CheckStep
<1>6. n \in AccessCheck /\ n.stage = "done" /\ n.alone = r.alone /\ n.read = r.read /\ n.write = (r.write /\ ~denied)
  BY <1>3, <1>5 DEF AccessCheck
<1>7. r.read => (~denied <=> (r.config.exists => DriverLets(r.config.write, drivers)))
  BY <1>2 DEF DriverLets
<1>8. ASSUME n.alone PROVE CheckHolds(n, grants, config, drivers)
  <2> DEFINE lets == config.exists => DriverLets(config.read, drivers)
  <2>1. r.config = config /\ r.read = (GrantsRead(grants) /\ lets) /\ r.write = (GrantsWrite(grants) /\ lets)
    BY <1>4, <1>5, <1>6, <1>8 DEF CheckHolds
  <2>2. GrantsWrite(grants) => GrantsRead(grants)
    BY DEF GrantsWrite
  <2> QED
    BY <1>6, <1>7, <2>1, <2>2 DEF CheckHolds
<1> QED
  BY <1>1, <1>4, <1>5, <1>6, <1>8, CheckMoves

-----------------------------------------------------------------------------
LEMMA RequestsStand ==
  ASSUME AccessInv, NEW c \in AccessClients, NEW by \in Persons, NEW user \in Persons,
         \/ \E role \in {"viewer", "admin"} : add_workspace_member(c, by, user, role) \/ update_member_role(c, by, user, role)
         \/ remove_workspace_member(c, by, user) \/ remove_model_access(c, by, user)
         \/ \E permission \in {"view_only", "full_access"} : set_model_access(c, by, user, permission)
  PROVE  AccessInv'
<1>1. \A v \in Roles : Authorize(c, "add_member", by, user, v) \/ Authorize(c, "update_member", by, user, v) => AccessInv'
  BY AuthorizeStands DEF OnMembers, OnModel, Removals
<1>2. \A v \in Permissions : Authorize(c, "set_access", by, user, v) => AccessInv'
  BY AuthorizeStands DEF OnMembers, OnModel, Removals
<1>3. Authorize(c, "remove_member", by, user, Absent) \/ Authorize(c, "remove_access", by, user, Absent) => AccessInv'
  BY AuthorizeStands DEF OnMembers, OnModel, Removals
<1> QED
  BY <1>1, <1>2, <1>3 DEF Roles, Permissions, add_workspace_member, update_member_role, remove_workspace_member,
     remove_model_access, set_model_access

LEMMA EditsStand ==
  ASSUME AccessInv,
         \/ \E rule \in Rules : create_selective_access_rule(rule) \/ delete_selective_access_rule(rule)
         \/ \E rule \in Rules, item \in CellItems, level \in Levels : create_selective_access_grant(rule, item, level)
         \/ \E grant \in DOMAIN grants : delete_selective_access_grant(grant)
         \/ \E read \in {NoDriver, "read_driver"}, write \in {NoDriver, "write_driver"} : create_dca_config(read, write)
         \/ delete_dca_config
         \/ \E driver \in {"read_driver", "write_driver"} : DeleteDriver(driver) \/ \E cell \in DriverCells : WriteDriver(driver, cell)
  PROVE  AccessInv'
<1>1. config \in Configs
  BY DEF AccessInv
<1>2. Edited /\ config' = config => AccessInv'
  BY <1>1, EditStands
<1>3. ASSUME NEW read \in {NoDriver, "read_driver"}, NEW write \in {NoDriver, "write_driver"}, create_dca_config(read, write) PROVE AccessInv'
  BY <1>3, EditStands DEF create_dca_config, Configs
<1>4. ASSUME delete_dca_config PROVE AccessInv'
  BY <1>4, EditStands DEF delete_dca_config, Configs
<1>5. ASSUME NEW driver \in {"read_driver", "write_driver"}, DeleteDriver(driver) PROVE AccessInv'
  <2>1. config.exists /\ Edited /\ config' = [exists |-> TRUE, read |-> IF config.read = driver THEN NoDriver ELSE config.read,
                write |-> IF config.write = driver THEN NoDriver ELSE config.write]
    BY <1>5 DEF DeleteDriver
  <2>2. config.read \in {NoDriver, "read_driver"} /\ config.write \in {NoDriver, "write_driver"}
    <3>1. config # NoConfig
      BY <2>1 DEF NoConfig
    <3> QED
      BY <1>1, <3>1 DEF Configs
  <2>3. config' \in Configs
    BY <2>1, <2>2 DEF Configs
  <2> QED
    BY <2>1, <2>3, EditStands
<1> QED
  BY <1>2, <1>3, <1>4, <1>5 DEF create_selective_access_rule, delete_selective_access_rule, create_selective_access_grant,
     delete_selective_access_grant, WriteDriver

LEMMA NextAccess == AccessInv /\ [AccessNext]_accessVars => AccessInv'
<1> SUFFICES ASSUME AccessInv, [AccessNext]_accessVars PROVE AccessInv'
  OBVIOUS
<1>1. CASE UNCHANGED accessVars
  BY <1>1 DEF accessVars, AccessInv
<1>2. ASSUME NEW c \in AccessClients,
             \E by, user \in People \cup {Owner} :
               \/ \E role \in {"viewer", "admin"} : add_workspace_member(c, by, user, role) \/ update_member_role(c, by, user, role)
               \/ remove_workspace_member(c, by, user) \/ remove_model_access(c, by, user)
               \/ \E permission \in {"view_only", "full_access"} : set_model_access(c, by, user, permission)
      PROVE  AccessInv'
  BY <1>2, RequestsStand DEF Persons
<1>3. ASSUME NEW c \in AccessClients, CheckEnds(c) PROVE AccessInv'
  BY <1>3, OneAccessEnds DEF CheckEnds
<1> QED
  BY <1>1, <1>2, <1>3, RoleStands, SelectStands, WriteStands, CheckBegins, ReadGrantsStands, ReadConfigStands,
     ReadDriverStands, ReadWriteDriverStands, EditsStand DEF AccessNext

-----------------------------------------------------------------------------
\* What a write leaves of a change that nothing overlapped.
LEMMA WriteAsAsked ==
  ASSUME AccessInv, NEW c \in AccessClients, WriteMember(c), accessRequests[c].alone
  PROVE  LET r == accessRequests[c]
             new == IF r.kind \in OnModel THEN access' ELSE members'
             old == IF r.kind \in OnModel THEN access ELSE members
         IN  /\ r.by # Owner => r.by \in DOMAIN members /\ members[r.by] = "admin"
             /\ IF r.value = Absent THEN r.user \notin DOMAIN new ELSE r.user \in DOMAIN new /\ new[r.user] = r.value
             /\ \A u \in DOMAIN old \ {r.user} : u \in DOMAIN new /\ new[u] = old[u]
<1>1. PICK r : r = accessRequests[c]
  OBVIOUS
<1>2. r.kind \notin {"none", "cell"} /\ r.stage = "selected"
  BY <1>1, WriteIs
<1>3. r \in AccessChange /\ Asks(r) /\ ChangeHolds(r, members, access)
  BY <1>1, <1>2, IsChange
<1>4. PICK f : f = Changed(r.kind) /\ f = (IF r.kind \in OnModel THEN access ELSE members)
  BY <1>3, ChangedIsTable DEF AccessChange, TableOf
<1>5. PICK new : new = IF r.kind \in OnModel THEN access' ELSE members'
  OBVIOUS
<1>6. r.seen = HeldIn(f, r.user)
  BY <1>2, <1>3, <1>4 DEF ChangeHolds, TableOf
<1>7. IsTable(f, Roles \cup Permissions)
  BY <1>4 DEF AccessInv, IsTable
<1>8. (r.user \in DOMAIN f) <=> (r.seen # Absent)
  BY <1>6, <1>7 DEF HeldIn, IsTable, Roles, Permissions, Absent
<1>9. new = WrittenTable(r, f)
  BY <1>1, <1>4, <1>5, <1>8, WriteIs
<1>10. r.value = Absent <=> r.kind \in Removals
  BY <1>3 DEF Asks, AccessChange, OnMembers, OnModel, Removals, Roles, Permissions, Absent
<1>11. IF r.value = Absent THEN r.user \notin DOMAIN new ELSE r.user \in DOMAIN new /\ new[r.user] = r.value
  <2>1. CASE r.kind \in Removals
    <3>1. DOMAIN new = DOMAIN f \ {r.user}
      BY <1>9, <2>1 DEF WrittenTable, Dropped
    <3> QED
      BY <1>10, <2>1, <3>1
  <2>2. CASE r.kind \notin Removals /\ r.value = r.seen
    <3>1. new = f
      BY <1>9, <2>2 DEF WrittenTable
    <3> QED
      BY <1>6, <1>8, <1>10, <2>2, <3>1 DEF HeldIn
  <2>3. CASE r.kind \notin Removals /\ r.value # r.seen
    <3>1. DOMAIN new = DOMAIN f \cup {r.user} /\ new[r.user] = r.value
      BY <1>9, <2>3 DEF WrittenTable, Upserted
    <3> QED
      BY <1>10, <2>3, <3>1
  <2> QED
    BY <2>1, <2>2, <2>3
<1>12. \A u \in DOMAIN f \ {r.user} : u \in DOMAIN new /\ new[u] = f[u]
  BY <1>9 DEF WrittenTable, Dropped, Upserted
<1> QED
  BY <1>1, <1>3, <1>4, <1>5, <1>11, <1>12 DEF ChangeHolds

LEMMA ChangesAsAsked == AccessInv => MembersAsAsked
<1> SUFFICES ASSUME AccessInv PROVE MembersAsAsked
  OBVIOUS
<1>1. \A u \in People : check_workspace_permission(u, "admin") => check_workspace_permission(u, "viewer")
  <2>1. _ROLE_ORDER["admin"] = 2 /\ _ROLE_ORDER["viewer"] = 0
    BY DEF _ROLE_ORDER
  <2>2. \A u \in DOMAIN members : members[u] \in {"viewer", "admin"}
    BY DEF AccessInv, IsTable, Roles
  <2> QED
    BY <2>1, <2>2 DEF check_workspace_permission
<1>2. \A u \in People : check_model_permission(u, "full_access") => check_model_permission(u, "view_only")
  <2>1. _PERMISSION_ORDER["full_access"] = 3 /\ _PERMISSION_ORDER["view_only"] = 1
    BY DEF _PERMISSION_ORDER
  <2>2. \A u \in DOMAIN access : access[u] \in {"view_only", "full_access"}
    BY DEF AccessInv, IsTable, Permissions
  <2> QED
    BY <2>1, <2>2 DEF check_model_permission
<1> QED
  BY <1>1, <1>2, WriteAsAsked DEF MembersAsAsked, OnModel

LEMMA AnswersAgree == AccessInv => ChecksAgree
<1> SUFFICES ASSUME AccessInv PROVE ChecksAgree
  OBVIOUS
<1> SUFFICES ASSUME NEW c \in AccessClients, accessRequests[c].kind = "cell", accessRequests[c].stage = "done"
             PROVE  LET r == accessRequests[c]
                        levels == {grants[g] : g \in DOMAIN grants}
                        readable == "none" \notin levels /\ (config.exists => Allows(config.read))
                    IN /\ r.write => r.read
                       /\ r.alone => r.read = readable
                            /\ (r.write <=> readable /\ (levels # {} => "write" \in levels) /\ (config.exists => Allows(config.write)))
  BY DEF ChecksAgree
<1>1. PICK r : r = accessRequests[c]
  OBVIOUS
<1>2. r.stage = "done" /\ r \in AccessCheck /\ (r.write => r.read) /\ (r.alone => CheckHolds(r, grants, config, drivers))
  BY <1>1, IsCheck
<1>3. \A driver : DriverLets(driver, drivers) <=> Allows(driver)
  BY DEF DriverLets, Allows, evaluate_dca_driver
<1>4. r.alone => /\ r.read = (GrantsRead(grants) /\ (config.exists => Allows(config.read)))
                 /\ r.write = (GrantsWrite(grants) /\ (config.exists => Allows(config.read)) /\ (config.exists => Allows(config.write)))
  BY <1>2, <1>3 DEF CheckHolds
<1> QED
  BY <1>1, <1>2, <1>4 DEF GrantsRead, GrantsWrite, LevelsOf

\* However requests overlap, a change that nothing overlapped is made for somebody who may
\* still make it and leaves what was asked, and a check that nothing overlapped answers
\* what grants and drivers say (api/rbac.py, check_cell_access).
THEOREM AccessAsAskedAlways == AccessSpec => AccessAsAsked
<1>1. MembersInit /\ RulesInit => AccessInv
  BY InitAccess
<1>2. AccessInv /\ [AccessNext]_accessVars => AccessInv'
  BY NextAccess
<1>3. AccessInv => MembersAsAsked
  BY ChangesAsAsked
<1>4. AccessInv => ChecksAgree
  BY AnswersAgree
<1> QED
  BY <1>1, <1>2, <1>3, <1>4, PTL DEF AccessSpec, AccessAsAsked
-------------------------------------------------------------------------------
(* Pipelines: what a run that ended shows.                                   *)

\* The next step is the least of those that are left.
LEMMA LeastStep ==
  ASSUME NEW todo \in SUBSET Steps, todo # {}
  PROVE  BeginStep(todo) \in todo /\ \A t \in todo : BeginStep(todo) <= t
<1> DEFINE Before(s) == {t \in todo : t < s}
           Befores == {Before(s) : s \in todo}
<1>1. todo \subseteq Nat /\ IsFiniteSet(todo)
  BY PipeAssumption, FS_Subset
<1>2. Befores \subseteq FiniteSubsetsOf(todo) /\ Befores # {}
  <2>1. ASSUME NEW s \in todo PROVE Before(s) \in SUBSET todo /\ IsFiniteSet(Before(s))
    <3>1. Before(s) \in SUBSET todo
      OBVIOUS
    <3> QED
      BY <1>1, <3>1, FS_Subset
  <2> QED
    BY <2>1 DEF FiniteSubsetsOf
<1>3. PICK B \in Befores : \A C \in Befores : <<C, B>> \notin StrictSubsetOrdering(todo)
  BY <1>2, FS_StrictSubsetOrderingWellFounded, WFMin
<1>4. PICK s \in todo : B = Before(s)
  OBVIOUS
<1>5. ASSUME NEW t \in todo, t < s PROVE FALSE
  <2>0. t \in Nat /\ s \in Nat /\ ~(t < t) /\ \A x \in todo : x < t => x < s
    BY <1>1, <1>5
  <2>1. Before(t) \subseteq Before(s) /\ t \in Before(s) /\ t \notin Before(t)
    BY <2>0, <1>5, Zenon
  <2>2. <<Before(t), Before(s)>> \in StrictSubsetOrdering(todo)
    BY <2>1 DEF StrictSubsetOrdering
  <2> QED
    BY <1>3, <1>4, <2>2
<1>6. \A t \in todo : s <= t
  BY <1>1, <1>5
<1> QED
  BY <1>6 DEF BeginStep, Min

ExecFields == {"kind", "stage", "seen", "seenLogs", "todo", "step", "log", "done", "first", "alone"}
RunFields == {"status", "total", "completed", "error", "ended"}
ExecStages == {"loaded", "started", "next", "step", "progress", "failed", "finish"}
Execution(r) == DOMAIN r = ExecFields /\ r.kind = "execute" /\ r.stage \in ExecStages /\ r.todo \subseteq Steps
                /\ r.alone \in BOOLEAN /\ r.first \in BOOLEAN
Cancellation(r) == DOMAIN r = {"kind", "skips", "alone"} /\ r.kind = "cancel"
OneEach(all) == \A k, l \in DOMAIN all : k[1] = l[1] => k = l
\* What was done when todo is left: the steps of logs are either to do and pending, or
\* completed and before all that is left.
Done(all, todo) ==
  \A l \in DOMAIN all : \/ l[1] \in todo /\ all[l] = "pending"
                        \/ all[l] = "completed" /\ (\A t \in todo : l[1] < t)
\* The same, but for the log of the step that is being executed.
DoneBut(all, todo, s, log) ==
  /\ log \in DOMAIN all /\ log[1] = s /\ \A t \in todo : s < t
  /\ \A l \in DOMAIN all \ {log} :
        \/ l[1] \in todo /\ all[l] = "pending"
        \/ l[1] < s /\ all[l] = "completed"
FailedAt(all, s) ==
  \A l \in DOMAIN all : \/ l[1] < s /\ all[l] = "completed"
                        \/ l[1] = s /\ all[l] = "failed"
                        \/ l[1] > s /\ all[l] \in {"pending", "skipped"}
\* An execution that nothing overlapped, of a run that no earlier one had begun.
Follows(r, there, row, all) ==
  /\ r.seenLogs = all /\ OneEach(all) /\ r.todo \subseteq there
  /\ r.stage = "loaded" => r.seen = "pending" /\ row.status = "pending" /\ r.todo = there
  /\ r.stage \in {"loaded", "started", "next"} => Done(all, r.todo)
  /\ r.stage \in {"loaded", "started", "next", "step"} => r.done = row.completed
  /\ r.stage \in {"step", "progress"} => r.step \in there /\ DoneBut(all, r.todo, r.step, r.log)
  /\ r.stage = "step" => all[r.log] = "running"
  /\ r.stage = "progress" => all[r.log] = "completed"
  /\ r.stage = "failed" => FailedAt(all, r.step)
  /\ r.stage = "finish" => (\A l \in DOMAIN all : all[l] = "completed") /\ row.completed = row.total
Fits(r, there, row, all) ==
  \/ r = NoPipe
  \/ Cancellation(r)
  \/ /\ Execution(r)
     /\ (r.stage # "loaded" \/ r.seen # "pending") => row.status # "pending"
     /\ r.alone /\ r.first => Follows(r, there, row, all)
\* What holds of the steps, the run and its logs whatever is open.
RunFits(there, row, all) ==
  /\ there \subseteq Steps /\ DOMAIN row = RunFields
  /\ \A l \in DOMAIN all : l[1] \in there
  /\ row.status = "pending" => \A l \in DOMAIN all : l = <<l[1], Trigger>> /\ all[l] = "pending"
\* The inductive invariant.
PipeInv ==
  /\ RunFits(steps, run, logs)
  /\ pipeRequests = [c \in PipeClients |-> pipeRequests[c]]
  /\ \A c \in PipeClients : Fits(pipeRequests[c], steps, run, logs)

LEMMA PipeKinds ==
  \A r : /\ r = NoPipe => r.kind = "none"
         /\ Cancellation(r) => r.kind = "cancel"
         /\ Execution(r) => r.kind = "execute"
BY DEF NoPipe, Cancellation, Execution

LEMMA IdleFits == \A there, row, all : Fits(NoPipe, there, row, all)
BY DEF Fits

LEMMA InitPipe == PipeInit => PipeInv
<1> SUFFICES ASSUME PipeInit PROVE PipeInv
  OBVIOUS
<1>1. steps \subseteq Steps /\ run = [status |-> "pending", total |-> Cardinality(steps), completed |-> 0, error |-> NoError, ended |-> FALSE]
      /\ logs = Pending(steps) /\ pipeRequests = [c \in PipeClients |-> NoPipe]
  BY DEF PipeInit, trigger_pipeline_run
<1>2. DOMAIN run = RunFields
  BY <1>1 DEF RunFields
<1>3. \A l \in DOMAIN logs : l[1] \in steps /\ l = <<l[1], Trigger>> /\ logs[l] = "pending"
  BY <1>1 DEF Pending
<1> QED
  BY <1>1, <1>2, <1>3, IdleFits DEF PipeInv, RunFits

\* What something overlapped fits whatever was changed.
LEMMA OverlappedFits ==
  ASSUME NEW r, NEW there, NEW row, NEW all, Fits(r, there, row, all), r # NoPipe,
         NEW there2, NEW row2, NEW all2, row2.status = "pending" => row.status = "pending"
  PROVE  Fits([r EXCEPT !.alone = FALSE], there2, row2, all2)
<1>1. PICK n : n = [r EXCEPT !.alone = FALSE]
  OBVIOUS
<1>2. CASE Cancellation(r)
  BY <1>1, <1>2 DEF Cancellation, Fits
<1>3. CASE Execution(r) /\ ((r.stage # "loaded" \/ r.seen # "pending") => row.status # "pending")
  <2>1. DOMAIN n = ExecFields /\ n.alone = FALSE /\ n.kind = r.kind /\ n.stage = r.stage /\ n.seen = r.seen /\ n.todo = r.todo /\ n.first = r.first
    BY <1>1, <1>3 DEF Execution, ExecFields
  <2>2. Execution(n)
    BY <1>3, <2>1 DEF Execution
  <2> QED
    BY <1>1, <1>3, <2>1, <2>2 DEF Fits
<1> QED
  BY <1>2, <1>3 DEF Fits

\* One request writes: it goes on as n, and overlaps the others.
LEMMA OneWrites ==
  ASSUME PipeInv, NEW by, NEW n,
         \/ by \notin PipeClients /\ pipeRequests' = Others(by)
         \/ pipeRequests' = [Others(by) EXCEPT ![by] = n] /\ Fits(n, steps', run', logs'),
         run'.status = "pending" => run.status = "pending", RunFits(steps', run', logs')
  PROVE  PipeInv'
<1>1. Others(by) = [d \in PipeClients |-> Others(by)[d]]
  BY DEF Others
<1>2. pipeRequests' = [d \in PipeClients |-> pipeRequests'[d]]
  BY <1>1
<1>3. ASSUME NEW d \in PipeClients, d # by PROVE Fits(pipeRequests'[d], steps', run', logs')
  <2>1. pipeRequests'[d] = Others(by)[d]
    BY <1>1, <1>3
  <2>2. CASE pipeRequests[d] = NoPipe
    <3>1. Others(by)[d] = NoPipe
      BY <2>2, PipeKinds DEF Others
    <3> QED
      BY <2>1, <3>1, IdleFits
  <2>3. CASE pipeRequests[d] # NoPipe
    <3>1. pipeRequests[d].kind # "none" /\ Fits(pipeRequests[d], steps, run, logs)
      BY <2>3, PipeKinds DEF PipeInv, Fits
    <3>2. Others(by)[d] = [pipeRequests[d] EXCEPT !.alone = FALSE]
      BY <1>3, <3>1 DEF Others
    <3>3. Fits([pipeRequests[d] EXCEPT !.alone = FALSE], steps', run', logs')
      BY <2>3, <3>1, OverlappedFits
    <3> QED
      BY <2>1, <3>2, <3>3
  <2> QED
    BY <2>2, <2>3
<1>4. ASSUME by \in PipeClients PROVE Fits(pipeRequests'[by], steps', run', logs')
  <2>1. pipeRequests'[by] = n /\ Fits(n, steps', run', logs')
    BY <1>1, <1>4
  <2> QED
    BY <2>1
<1> QED
  BY <1>2, <1>3, <1>4 DEF PipeInv

\* One request changes nothing but itself.
LEMMA OneChanges ==
  ASSUME PipeInv, NEW c \in PipeClients, NEW n, pipeRequests' = [pipeRequests EXCEPT ![c] = n], UNCHANGED <<steps, run, logs>>,
         Fits(n, steps, run, logs)
  PROVE  PipeInv'
<1>1. pipeRequests' = [d \in PipeClients |-> IF d = c THEN n ELSE pipeRequests[d]]
  BY DEF PipeInv
<1>2. \A d \in PipeClients : Fits(pipeRequests'[d], steps, run, logs)
  BY <1>1 DEF PipeInv
<1>3. pipeRequests' = [d \in PipeClients |-> pipeRequests'[d]]
  BY <1>1
<1> QED
  BY <1>2, <1>3 DEF PipeInv

LEMMA RaisesFits ==
  ASSUME PipeInv, NEW c \in PipeClients, Raises(c), UNCHANGED <<steps, run, logs>>
  PROVE  PipeInv'
BY OneChanges, IdleFits DEF Raises

\* Where a request goes.
Advanced(r, fields) == [f \in ExecFields |-> IF f \in DOMAIN fields THEN fields[f] ELSE r[f]]
LEMMA GoAdvances ==
  ASSUME PipeInv, NEW c \in PipeClients, NEW fields, Go(c, fields), Execution(pipeRequests[c])
  PROVE  pipeRequests' = [Others(c) EXCEPT ![c] = Advanced(pipeRequests[c], fields)]
<1>1. PICK r : r = pipeRequests[c] /\ DOMAIN r = ExecFields
  BY DEF Execution
<1>2. PICK n : n = [f \in ExecFields |-> IF f \in DOMAIN fields THEN fields[f] ELSE r[f]]
  OBVIOUS
<1>3. Others(c)[c] = r /\ DOMAIN Others(c) = PipeClients
  BY <1>1 DEF Others
<1>4. pipeRequests' = [Others(c) EXCEPT ![c] = n]
  BY <1>1, <1>2, <1>3 DEF Go
<1> QED
  BY <1>1, <1>2, <1>4 DEF Advanced

LEMMA GoIs ==
  ASSUME PipeInv, NEW c \in PipeClients, NEW fields, Go(c, fields), Execution(pipeRequests[c])
  PROVE  \E n : /\ pipeRequests' = [Others(c) EXCEPT ![c] = n] /\ DOMAIN n = ExecFields
                /\ \A f \in ExecFields : n[f] = IF f \in DOMAIN fields THEN fields[f] ELSE pipeRequests[c][f]
<1>1. PICK n : n = Advanced(pipeRequests[c], fields)
  OBVIOUS
<1>2. pipeRequests' = [Others(c) EXCEPT ![c] = n]
  BY <1>1, GoAdvances
<1>3. DOMAIN n = ExecFields /\ \A f \in ExecFields : n[f] = IF f \in DOMAIN fields THEN fields[f] ELSE pipeRequests[c][f]
  BY <1>1 DEF Advanced
<1> QED
  BY <1>2, <1>3, Zenon

LEMMA ExecutionIs ==
  ASSUME PipeInv, NEW c \in PipeClients, pipeRequests[c].kind = "execute"
  PROVE  LET r == pipeRequests[c]
         IN  /\ Execution(r)
             /\ (r.stage # "loaded" \/ r.seen # "pending") => run.status # "pending"
             /\ r.alone /\ r.first => Follows(r, steps, run, logs)
<1>1. Fits(pipeRequests[c], steps, run, logs)
  BY DEF PipeInv
<1> QED
  BY <1>1, PipeKinds DEF Fits

LEMMA EditsKeep ==
  ASSUME PipeInv, NEW s \in Steps, create_step(s) \/ delete_step(s)
  PROVE  PipeInv'
<1>1. Trigger \notin PipeClients
  BY PipeAssumption DEF Trigger
<1>2. CASE create_step(s)
  <2>1. RunFits(steps', run', logs')
    BY <1>2 DEF create_step, RunFits, PipeInv
  <2> QED
    BY <1>1, <1>2, <2>1, OneWrites DEF create_step
<1>3. CASE delete_step(s)
  <2>1. steps' = steps \ {s} /\ run' = (IF run.error = s THEN [run EXCEPT !.error = NoError] ELSE run)
        /\ logs' = [l \in DOMAIN logs \ LogsOf(logs, s) |-> logs[l]]
    BY <1>3 DEF delete_step
  <2>2. DOMAIN run = RunFields /\ RunFits(steps, run, logs)
    BY DEF PipeInv, RunFits
  <2>3. DOMAIN run' = RunFields /\ run'.status = run.status
    BY <2>1, <2>2 DEF RunFields
  <2>4. DOMAIN logs' = DOMAIN logs \ LogsOf(logs, s) /\ \A l \in DOMAIN logs' : logs'[l] = logs[l] /\ l \in DOMAIN logs /\ l[1] # s
    BY <2>1 DEF LogsOf
  <2>5. RunFits(steps', run', logs')
    BY <2>1, <2>2, <2>3, <2>4 DEF RunFits
  <2> QED
    BY <1>1, <1>3, <2>3, <2>5, OneWrites DEF delete_step
<1> QED
  BY <1>2, <1>3

LEMMA CancelKeeps ==
  ASSUME PipeInv, NEW c \in PipeClients, LoadCancel(c) \/ cancel_run(c)
  PROVE  PipeInv'
<1>1. CASE LoadCancel(c)
  <2>1. PICK n : n = [kind |-> "cancel", skips |-> {l \in DOMAIN logs : logs[l] = "pending"}, alone |-> TRUE]
    OBVIOUS
  <2>2. Fits(n, steps, run, logs)
    BY <2>1 DEF Fits, Cancellation
  <2> QED
    BY <1>1, <2>1, <2>2, OneChanges DEF LoadCancel
<1>2. CASE cancel_run(c)
  <2>1. pipeRequests' = [Others(c) EXCEPT ![c] = NoPipe] /\ steps' = steps /\ Fits(NoPipe, steps', run', logs')
    BY <1>2, IdleFits DEF cancel_run
  <2>2. RunFits(steps, run, logs)
    BY DEF PipeInv
  <2>3. CASE UNCHANGED <<run, logs>>
    BY <2>1, <2>2, <2>3, OneWrites
  <2>4. CASE /\ run' = [run EXCEPT !.status = "cancelled", !.ended = TRUE]
             /\ logs' = [l \in DOMAIN logs |-> IF l \in pipeRequests[c].skips THEN "skipped" ELSE logs[l]]
    <3>1. DOMAIN run' = RunFields /\ run'.status = "cancelled"
      BY <2>2, <2>4 DEF RunFits, RunFields
    <3>2. RunFits(steps', run', logs')
      BY <2>1, <2>2, <2>4, <3>1 DEF RunFits
    <3> QED
      BY <2>1, <3>1, <3>2, OneWrites
  <2> QED
    BY <1>2, <2>3, <2>4 DEF cancel_run
<1> QED
  BY <1>1, <1>2

LEMMA LoadRunKeeps ==
  ASSUME PipeInv, NEW c \in PipeClients, LoadRun(c)
  PROVE  PipeInv'
<1>1. PICK n : n = [kind |-> "execute", stage |-> "loaded", seen |-> run.status, seenLogs |-> logs, todo |-> steps,
                    step |-> NoError, log |-> <<NoError, Trigger>>, done |-> run.completed, first |-> run.status = "pending", alone |-> TRUE]
  OBVIOUS
<1>2. RunFits(steps, run, logs)
  BY DEF PipeInv
<1>3. Execution(n) /\ n.stage = "loaded" /\ n.seen = run.status /\ n.seenLogs = logs /\ n.todo = steps /\ n.done = run.completed
      /\ n.first = (run.status = "pending")
  BY <1>1, <1>2 DEF Execution, ExecFields, ExecStages, RunFits
<1>4. ASSUME run.status = "pending" PROVE Follows(n, steps, run, logs)
  <2>1. \A l \in DOMAIN logs : l[1] \in steps /\ l = <<l[1], Trigger>> /\ logs[l] = "pending"
    BY <1>2, <1>4 DEF RunFits
  <2>2. OneEach(logs)
    BY <2>1 DEF OneEach
  <2>3. Done(logs, steps)
    BY <2>1 DEF Done
  <2> QED
    BY <1>3, <1>4, <2>2, <2>3 DEF Follows
<1>5. Fits(n, steps, run, logs)
  BY <1>3, <1>4 DEF Fits
<1> QED
  BY <1>1, <1>5, OneChanges DEF LoadRun

LEMMA StartKeeps ==
  ASSUME PipeInv, NEW c \in PipeClients, start_run(c)
  PROVE  PipeInv'
<1>1. PICK r : r = pipeRequests[c]
  OBVIOUS
<1>2. /\ Execution(r) /\ r.stage = "loaded" /\ (r.seen # "pending" => run.status # "pending")
      /\ r.alone /\ r.first => Follows(r, steps, run, logs)
  BY <1>1, ExecutionIs DEF start_run
<1>3. RunFits(steps, run, logs) /\ UNCHANGED <<steps, logs>>
  BY DEF PipeInv, start_run
<1>4. CASE r.seen = "pending"
  <2>1. run' = [run EXCEPT !.status = "running"]
    BY <1>1, <1>4 DEF start_run
  <2>2. DOMAIN run' = RunFields /\ run'.status = "running" /\ run'.completed = run.completed
    BY <1>3, <2>1 DEF RunFits, RunFields
  <2>3. RunFits(steps', run', logs')
    BY <1>3, <2>2 DEF RunFits
  <2>4. PICK fields : fields = [stage |-> "started"]
    OBVIOUS
  <2>5. Go(c, fields)
    BY <1>1, <1>4, <2>4 DEF start_run
  <2>6. PICK n : /\ pipeRequests' = [Others(c) EXCEPT ![c] = n] /\ DOMAIN n = ExecFields
                 /\ \A f \in ExecFields : n[f] = IF f \in DOMAIN fields THEN fields[f] ELSE r[f]
    BY <1>1, <1>2, <2>5, GoIs
  <2>7. /\ n.kind = r.kind /\ n.stage = "started" /\ n.seen = r.seen /\ n.seenLogs = r.seenLogs /\ n.todo = r.todo
        /\ n.step = r.step /\ n.log = r.log /\ n.done = r.done /\ n.first = r.first /\ n.alone = r.alone
    BY <2>4, <2>6 DEF ExecFields
  <2>8. Execution(n)
    BY <1>2, <2>6, <2>7 DEF Execution, ExecStages
  <2>9. n.alone /\ n.first => Follows(n, steps', run', logs')
    BY <1>2, <1>3, <2>2, <2>7 DEF Follows
  <2>10. Fits(n, steps', run', logs')
    BY <2>2, <2>8, <2>9 DEF Fits
  <2> QED
    BY <2>2, <2>3, <2>6, <2>10, OneWrites
<1>5. CASE r.seen # "pending"
  <2>1. UNCHANGED run
    BY <1>1, <1>5 DEF start_run
  <2>2. CASE r.todo = {}
    BY <1>1, <1>3, <1>5, <2>1, <2>2, RaisesFits DEF start_run
  <2>3. CASE r.todo # {}
    <3>1. Go(c, [stage |-> "next"])
      BY <1>1, <1>5, <2>3 DEF start_run
    <3>2. PICK n : /\ pipeRequests' = [Others(c) EXCEPT ![c] = n] /\ DOMAIN n = ExecFields
                   /\ \A f \in ExecFields : n[f] = IF f \in DOMAIN [stage |-> "next"] THEN [stage |-> "next"][f] ELSE r[f]
      BY <1>1, <1>2, <3>1, GoIs
    <3>3. /\ n.kind = r.kind /\ n.stage = "next" /\ n.seen = r.seen /\ n.seenLogs = r.seenLogs /\ n.todo = r.todo
          /\ n.step = r.step /\ n.log = r.log /\ n.done = r.done /\ n.first = r.first /\ n.alone = r.alone
      BY <3>2 DEF ExecFields
    <3>4. Execution(n)
      BY <1>2, <3>2, <3>3 DEF Execution, ExecStages
    <3>5. ~(r.alone /\ r.first)
      BY <1>2, <1>5 DEF Follows
    <3>6. Fits(n, steps', run', logs')
      BY <1>2, <1>5, <2>1, <3>3, <3>4, <3>5 DEF Fits
    <3> QED
      BY <1>3, <2>1, <3>2, <3>6, OneWrites
  <2> QED
    BY <2>2, <2>3
<1> QED
  BY <1>4, <1>5

LEMMA RefreshKeeps ==
  ASSUME PipeInv, NEW c \in PipeClients, RefreshRun(c)
  PROVE  PipeInv'
<1>1. PICK r : r = pipeRequests[c]
  OBVIOUS
<1>2. /\ Execution(r) /\ r.stage = "started" /\ run.status # "pending"
      /\ r.alone /\ r.first => Follows(r, steps, run, logs)
  BY <1>1, ExecutionIs DEF RefreshRun
<1>3. UNCHANGED <<steps, run, logs>>
  BY DEF RefreshRun
<1>4. CASE r.todo = {}
  BY <1>1, <1>3, <1>4, RaisesFits DEF RefreshRun
<1>5. CASE r.todo # {}
  <2>1. PICK n : n = [r EXCEPT !.stage = "next", !.seen = run.status, !.seenLogs = logs, !.done = run.completed]
    OBVIOUS
  <2>2. pipeRequests' = [pipeRequests EXCEPT ![c] = n]
    BY <1>1, <1>5, <2>1 DEF RefreshRun
  <2>3. DOMAIN r = ExecFields
    BY <1>2 DEF Execution
  <2>4. /\ DOMAIN n = ExecFields /\ n.kind = r.kind /\ n.stage = "next" /\ n.seenLogs = logs /\ n.todo = r.todo
        /\ n.step = r.step /\ n.log = r.log /\ n.done = run.completed /\ n.first = r.first /\ n.alone = r.alone
    BY <2>1, <2>3 DEF ExecFields
  <2>5. Execution(n)
    BY <1>2, <2>4 DEF Execution, ExecStages
  <2>6. n.alone /\ n.first => Follows(n, steps, run, logs)
    BY <1>2, <2>4 DEF Follows
  <2>7. Fits(n, steps, run, logs)
    BY <1>2, <2>4, <2>5, <2>6 DEF Fits
  <2> QED
    BY <1>3, <2>2, <2>7, OneChanges
<1> QED
  BY <1>4, <1>5

\* What is done with the log of the next step.
LEMMA NextIsBegun ==
  ASSUME NEW todo \in SUBSET Steps, NEW s \in todo, \A t \in todo : s <= t, NEW all, NEW all2, NEW l,
         Done(all, todo), OneEach(all), l[1] = s, DOMAIN all2 = DOMAIN all \cup {l},
         l \in DOMAIN all \/ \A k \in DOMAIN all : k[1] # s,
         \A k \in DOMAIN all \ {l} : all2[k] = all[k]
  PROVE  OneEach(all2) /\ DoneBut(all2, todo \ {s}, s, l)
<1>1. todo \subseteq Nat
  BY PipeAssumption
<1>2. \A t \in todo \ {s} : s < t
  BY <1>1
<1>3. OneEach(all2)
  BY DEF OneEach
<1>4. ASSUME NEW k \in DOMAIN all2 \ {l}
      PROVE  (k[1] \in todo \ {s} /\ all2[k] = "pending") \/ (k[1] < s /\ all2[k] = "completed")
  <2>1. k \in DOMAIN all /\ k[1] # s /\ all2[k] = all[k]
    BY <1>4 DEF OneEach
  <2> QED
    BY <2>1 DEF Done
<1> QED
  BY <1>2, <1>3, <1>4 DEF DoneBut

\* The request goes on with the step s, whose log is l.
LEMMA BeginKeeps ==
  ASSUME PipeInv, NEW c \in PipeClients, pipeRequests[c].kind = "execute", pipeRequests[c].stage = "next", NEW s \in pipeRequests[c].todo,
         \A t \in pipeRequests[c].todo : s <= t, NEW l, NEW seenLogs, UNCHANGED <<steps, run>>, l[1] = s,
         DOMAIN logs' = DOMAIN logs \cup {l}, l \in DOMAIN logs \/ s \in steps,
         \A k \in DOMAIN logs \ {l} : logs'[k] = logs[k],
         pipeRequests[c].seenLogs = logs =>
           seenLogs = logs' /\ (l \in DOMAIN logs \/ \A k \in DOMAIN logs : k[1] # s) /\ ((l \notin DOMAIN logs \/ logs[l] = "pending") => logs'[l] = "running"),
         Go(c, [stage |-> "step", step |-> s, log |-> l, todo |-> pipeRequests[c].todo \ {s}, seenLogs |-> seenLogs])
  PROVE  PipeInv'
<1>1. PICK r : r = pipeRequests[c]
  OBVIOUS
<1>2. PICK todo : todo = r.todo \ {s}
  OBVIOUS
<1>3. /\ Execution(r) /\ run.status # "pending"
      /\ r.alone /\ r.first => Follows(r, steps, run, logs)
  BY <1>1, ExecutionIs
<1>4. RunFits(steps, run, logs)
  BY DEF PipeInv
<1>5. RunFits(steps', run', logs')
  <2>1. \A k \in DOMAIN logs' : k[1] \in steps
    BY <1>4 DEF RunFits
  <2> QED
    BY <1>3, <1>4, <2>1 DEF RunFits
<1>6. PICK fields : fields = [stage |-> "step", step |-> s, log |-> l, todo |-> todo, seenLogs |-> seenLogs]
  OBVIOUS
<1>7. Go(c, fields)
  BY <1>1, <1>2, <1>6
<1>8. PICK n : /\ pipeRequests' = [Others(c) EXCEPT ![c] = n] /\ DOMAIN n = ExecFields
               /\ \A f \in ExecFields : n[f] = IF f \in DOMAIN fields THEN fields[f] ELSE r[f]
  BY <1>1, <1>3, <1>7, GoIs
<1>9. /\ n.kind = r.kind /\ n.stage = "step" /\ n.seen = r.seen /\ n.seenLogs = seenLogs /\ n.todo = todo
      /\ n.step = s /\ n.log = l /\ n.done = r.done /\ n.first = r.first /\ n.alone = r.alone
  BY <1>6, <1>8 DEF ExecFields
<1>10. Execution(n)
  BY <1>2, <1>3, <1>8, <1>9 DEF Execution, ExecStages
<1>11. ASSUME r.alone, r.first PROVE Follows(n, steps', run', logs')
  <2>1. /\ r.seenLogs = logs /\ OneEach(logs) /\ r.todo \subseteq steps /\ Done(logs, r.todo) /\ r.done = run.completed
    BY <1>1, <1>3, <1>11 DEF Follows
  <2>2. r.todo \in SUBSET Steps /\ s \in r.todo /\ \A t \in r.todo : s <= t
    BY <1>1, <1>3 DEF Execution
  <2>3. seenLogs = logs' /\ (l \in DOMAIN logs \/ \A k \in DOMAIN logs : k[1] # s)
    BY <1>1, <2>1
  <2>4. OneEach(logs') /\ DoneBut(logs', todo, s, l)
    BY <1>2, <2>1, <2>2, <2>3, NextIsBegun
  <2>5. ~(s < s)
    <3>1. s \in Nat
      BY <2>2, PipeAssumption, Zenon
    <3> QED
      BY <3>1
  <2>6. l \in DOMAIN logs => logs[l] = "pending"
    BY <2>1, <2>2, <2>5 DEF Done
  <2>7. logs'[l] = "running"
    BY <1>1, <2>1, <2>6
  <2> QED
    BY <1>2, <1>9, <2>1, <2>2, <2>3, <2>4, <2>7 DEF Follows
<1>12. Fits(n, steps', run', logs')
  BY <1>3, <1>9, <1>10, <1>11 DEF Fits
<1> QED
  BY <1>5, <1>8, <1>12, OneWrites

LEMMA ExecuteNextKeeps ==
  ASSUME PipeInv, NEW c \in PipeClients, ExecuteNext(c)
  PROVE  PipeInv'
<1>1. PICK r : r = pipeRequests[c]
  OBVIOUS
<1>2. r.kind = "execute" /\ r.stage = "next" /\ r.todo # {} /\ UNCHANGED <<steps, run>>
  BY <1>1 DEF ExecuteNext
<1>3. Execution(r) /\ (r.alone /\ r.first => Follows(r, steps, run, logs))
  BY <1>1, <1>2, ExecutionIs
<1>4. PICK s : s = BeginStep(r.todo)
  OBVIOUS
<1>5. s \in r.todo /\ \A t \in r.todo : s <= t
  BY <1>2, <1>3, <1>4, LeastStep DEF Execution
<1>6. ASSUME NEW l \in LogsOf(r.seenLogs, s), BeginKnown(c, s, l) PROVE PipeInv'
  <2>1. l \in DOMAIN r.seenLogs /\ l[1] = s
    BY <1>6 DEF LogsOf
  <2>2. CASE l \notin DOMAIN logs
    BY <1>2, <1>6, <2>2, RaisesFits DEF BeginKnown
  <2>3. CASE l \in DOMAIN logs
    <3>1. PICK v : v = (IF r.seenLogs[l] = "running" THEN logs[l] ELSE "running")
      OBVIOUS
    <3>2. logs' = [logs EXCEPT ![l] = v]
      BY <1>1, <1>6, <2>3, <3>1 DEF BeginKnown, update_step_log_status
    <3>3. logs'[l] = v /\ DOMAIN logs' = DOMAIN logs \cup {l} /\ \A k \in DOMAIN logs \ {l} : logs'[k] = logs[k]
      BY <2>3, <3>2
    <3>4. PICK seenLogs : seenLogs = [r.seenLogs EXCEPT ![l] = v]
      OBVIOUS
    <3>5. Go(c, [stage |-> "step", step |-> s, log |-> l, todo |-> pipeRequests[c].todo \ {s}, seenLogs |-> seenLogs])
      BY <1>1, <1>6, <2>3, <3>3, <3>4 DEF BeginKnown
    <3>6. r.seenLogs = logs => seenLogs = logs' /\ (logs[l] = "pending" => logs'[l] = "running")
      BY <3>1, <3>2, <3>3, <3>4
    <3> QED
      BY <1>1, <1>2, <1>5, <2>1, <2>3, <3>3, <3>5, <3>6, BeginKeeps
  <2> QED
    BY <2>2, <2>3
<1>7. ASSUME LogsOf(r.seenLogs, s) = {}, BeginAdded(c, s, <<s, c>>) PROVE PipeInv'
  <2>1. PICK l : l = <<s, c>>
    OBVIOUS
  <2>2. CASE s \notin steps
    BY <1>2, <1>7, <2>2, RaisesFits DEF BeginAdded
  <2>3. CASE s \in steps
    <3>1. logs' = [k \in DOMAIN logs \cup {l} |-> IF k = l THEN "running" ELSE logs[k]]
      BY <1>7, <2>1, <2>3 DEF BeginAdded
    <3>2. PICK seenLogs : seenLogs = [k \in DOMAIN r.seenLogs \cup {l} |-> IF k = l THEN "running" ELSE r.seenLogs[k]]
      OBVIOUS
    <3>3. Go(c, [stage |-> "step", step |-> s, log |-> l, todo |-> pipeRequests[c].todo \ {s}, seenLogs |-> seenLogs])
      BY <1>1, <1>7, <2>1, <2>3, <3>2 DEF BeginAdded
    <3>4. logs'[l] = "running" /\ DOMAIN logs' = DOMAIN logs \cup {l} /\ \A k \in DOMAIN logs \ {l} : logs'[k] = logs[k]
      BY <3>1
    <3>5. r.seenLogs = logs => seenLogs = logs' /\ \A k \in DOMAIN logs : k[1] # s
      BY <1>7, <3>1, <3>2 DEF LogsOf
    <3>6. l[1] = s
      BY <2>1
    <3> QED
      BY <1>1, <1>2, <1>5, <2>3, <3>3, <3>4, <3>5, <3>6, BeginKeeps
  <2> QED
    BY <2>2, <2>3
<1> QED
  BY <1>1, <1>4, <1>6, <1>7 DEF ExecuteNext

\* A request that is past its start changes its stage, what it saw and what it has done.
LEMMA StageKeeps ==
  ASSUME PipeInv, NEW c \in PipeClients, pipeRequests[c].kind = "execute", pipeRequests[c].stage # "loaded",
         UNCHANGED steps, run'.status = run.status, RunFits(steps, run', logs'),
         NEW fields, Go(c, fields), DOMAIN fields \subseteq {"stage", "seen", "seenLogs", "done"},
         "stage" \in DOMAIN fields => fields["stage"] \in ExecStages \ {"loaded"},
         NEW n, n = Advanced(pipeRequests[c], fields),
         pipeRequests[c].alone /\ pipeRequests[c].first => Follows(n, steps, run', logs')
  PROVE  PipeInv'
<1>1. PICK r : r = pipeRequests[c]
  OBVIOUS
<1>2. Execution(r) /\ run.status # "pending" /\ r.stage # "loaded"
  BY <1>1, ExecutionIs
<1>3. pipeRequests' = [Others(c) EXCEPT ![c] = n]
  BY <1>1, <1>2, GoAdvances
<1>4. DOMAIN n = ExecFields /\ \A f \in ExecFields : n[f] = IF f \in DOMAIN fields THEN fields[f] ELSE r[f]
  BY <1>1 DEF Advanced
<1>5. /\ n.kind = r.kind /\ n.todo = r.todo /\ n.first = r.first /\ n.alone = r.alone /\ n.stage \in ExecStages \ {"loaded"}
  BY <1>1, <1>2, <1>4 DEF ExecFields, Execution
<1>6. Execution(n)
  BY <1>2, <1>4, <1>5 DEF Execution
<1>7. Fits(n, steps', run', logs')
  BY <1>1, <1>2, <1>5, <1>6 DEF Fits
<1> QED
  BY <1>1, <1>2, <1>3, <1>7, OneWrites

LEMMA LogsFit ==
  ASSUME PipeInv, run.status # "pending", DOMAIN logs' = DOMAIN logs
  PROVE  RunFits(steps, run, logs')
BY DEF PipeInv, RunFits

LEMMA StepSucceedsKeeps ==
  ASSUME PipeInv, NEW c \in PipeClients, StepSucceeds(c)
  PROVE  PipeInv'
<1>1. PICK r : r = pipeRequests[c]
  OBVIOUS
<1>2. r.kind = "execute" /\ r.stage = "step" /\ UNCHANGED <<steps, run>>
  BY <1>1 DEF StepSucceeds, Executing
<1>3. run.status # "pending" /\ (r.alone /\ r.first => Follows(r, steps, run, logs))
  BY <1>1, <1>2, ExecutionIs
<1>4. PICK l : l = r.log
  OBVIOUS
<1>5. CASE l \notin DOMAIN logs
  BY <1>1, <1>2, <1>4, <1>5, RaisesFits DEF StepSucceeds
<1>6. CASE l \in DOMAIN logs
  <2>1. PICK v : v = (IF r.seenLogs[l] = "completed" THEN logs[l] ELSE "completed")
    OBVIOUS
  <2>2. logs' = [logs EXCEPT ![l] = v]
    BY <1>1, <1>4, <1>6, <2>1 DEF StepSucceeds, update_step_log_status
  <2>3. logs'[l] = v /\ DOMAIN logs' = DOMAIN logs /\ \A k \in DOMAIN logs \ {l} : logs'[k] = logs[k]
    BY <1>6, <2>2
  <2>4. PICK fields : fields = [stage |-> "progress", done |-> r.done + 1, seenLogs |-> [r.seenLogs EXCEPT ![l] = v]]
    OBVIOUS
  <2>5. Go(c, fields)
    BY <1>1, <1>4, <1>6, <2>3, <2>4 DEF StepSucceeds
  <2>6. PICK n : n = Advanced(r, fields)
    OBVIOUS
  <2>7. /\ n.stage = "progress" /\ n.seenLogs = [r.seenLogs EXCEPT ![l] = v] /\ n.todo = r.todo
        /\ n.step = r.step /\ n.log = r.log
    BY <2>4, <2>6 DEF Advanced, ExecFields
  <2>8. ASSUME r.alone, r.first PROVE Follows(n, steps, run', logs')
    <3>1. r.seenLogs = logs /\ OneEach(logs) /\ r.todo \subseteq steps /\ r.step \in steps /\ DoneBut(logs, r.todo, r.step, r.log)
      BY <1>2, <1>3, <2>8 DEF Follows
    <3>2. n.seenLogs = logs' /\ logs'[r.log] = "completed"
      BY <1>4, <2>1, <2>2, <2>3, <2>7, <3>1
    <3>3. OneEach(logs')
      BY <2>3, <3>1 DEF OneEach
    <3>4. DoneBut(logs', r.todo, r.step, r.log)
      BY <1>4, <2>3, <3>1 DEF DoneBut
    <3> QED
      BY <2>7, <3>1, <3>2, <3>3, <3>4 DEF Follows
  <2>9. RunFits(steps, run', logs')
    BY <1>2, <1>3, <2>3, LogsFit
  <2>10. DOMAIN fields \subseteq {"stage", "seen", "seenLogs", "done"} /\ fields["stage"] \in ExecStages \ {"loaded"}
    BY <2>4 DEF ExecStages
  <2> QED
    BY <1>1, <1>2, <2>5, <2>6, <2>8, <2>9, <2>10, StageKeeps
<1> QED
  BY <1>5, <1>6

LEMMA RunAfter ==
  ASSUME PipeInv, NEW n, run' = [run EXCEPT !.completed = n], UNCHANGED logs
  PROVE  RunFits(steps, run', logs') /\ run'.status = run.status /\ run'.completed = n /\ run'.total = run.total
<1>1. DOMAIN run = RunFields /\ RunFits(steps, run, logs)
  BY DEF PipeInv, RunFits
<1>2. DOMAIN run' = RunFields /\ run'.status = run.status /\ run'.completed = n /\ run'.total = run.total
  BY <1>1 DEF RunFields
<1> QED
  BY <1>1, <1>2 DEF RunFits

LEMMA ProgressKeeps ==
  ASSUME PipeInv, NEW c \in PipeClients, Progress(c)
  PROVE  PipeInv'
<1>1. PICK r : r = pipeRequests[c]
  OBVIOUS
<1>2. r.kind = "execute" /\ r.stage = "progress" /\ UNCHANGED <<steps, logs>> /\ run' = [run EXCEPT !.completed = r.done]
  BY <1>1 DEF Progress, Executing
<1>3. r.alone /\ r.first => Follows(r, steps, run, logs)
  BY <1>1, <1>2, ExecutionIs
<1>4. PICK fields : fields = [stage |-> "next"]
  OBVIOUS
<1>5. Go(c, fields)
  BY <1>4 DEF Progress
<1>6. PICK n : n = Advanced(r, fields)
  OBVIOUS
<1>7. /\ n.stage = "next" /\ n.seenLogs = r.seenLogs /\ n.todo = r.todo /\ n.done = r.done
  BY <1>4, <1>6 DEF Advanced, ExecFields
<1>8. RunFits(steps, run', logs') /\ run'.status = run.status /\ run'.completed = r.done
  BY <1>2, RunAfter
<1>9. ASSUME r.alone, r.first PROVE Follows(n, steps, run', logs')
  <2>1. r.seenLogs = logs /\ OneEach(logs) /\ r.todo \subseteq steps /\ DoneBut(logs, r.todo, r.step, r.log) /\ logs[r.log] = "completed"
        /\ r.step \in steps
    BY <1>2, <1>3, <1>9 DEF Follows
  <2>2. steps \subseteq Nat
    BY PipeAssumption DEF PipeInv, RunFits
  <2>3. ASSUME NEW l \in DOMAIN logs PROVE (l[1] \in r.todo /\ logs[l] = "pending") \/ (logs[l] = "completed" /\ \A t \in r.todo : l[1] < t)
    <3>1. l[1] \in Nat /\ r.step \in Nat /\ r.todo \subseteq Nat
      BY <2>1, <2>2 DEF PipeInv, RunFits
    <3>2. r.log[1] = r.step /\ \A t \in r.todo : r.step < t
      BY <2>1 DEF DoneBut
    <3>3. CASE l = r.log
      BY <2>1, <3>2, <3>3
    <3>4. CASE l # r.log
      <4>1. (l[1] \in r.todo /\ logs[l] = "pending") \/ (logs[l] = "completed" /\ l[1] < r.step)
        BY <2>1, <3>4 DEF DoneBut
      <4>2. l[1] < r.step => \A t \in r.todo : l[1] < t
        BY <3>1, <3>2
      <4> QED
        BY <4>1, <4>2
    <3> QED
      BY <3>3, <3>4
  <2>4. Done(logs, r.todo)
    BY <2>3 DEF Done
  <2> QED
    BY <1>2, <1>7, <1>8, <2>1, <2>4 DEF Follows
<1>10. DOMAIN fields \subseteq {"stage", "seen", "seenLogs", "done"} /\ fields["stage"] \in ExecStages \ {"loaded"}
  BY <1>4 DEF ExecStages
<1> QED
  BY <1>1, <1>2, <1>5, <1>6, <1>8, <1>9, <1>10, StageKeeps

LEMMA StepFailsKeeps ==
  ASSUME PipeInv, NEW c \in PipeClients, StepFails(c)
  PROVE  PipeInv'
<1>1. PICK r : r = pipeRequests[c]
  OBVIOUS
<1>2. r.kind = "execute" /\ r.stage = "step" /\ UNCHANGED <<steps, run>>
  BY <1>1 DEF StepFails, Executing
<1>3. run.status # "pending" /\ (r.alone /\ r.first => Follows(r, steps, run, logs))
  BY <1>1, <1>2, ExecutionIs
<1>4. CASE r.log \notin DOMAIN logs
  BY <1>1, <1>2, <1>4, RaisesFits DEF StepFails
<1>5. CASE r.log \in DOMAIN logs
  <2>1. PICK l : l = r.log
    OBVIOUS
  <2>2. PICK rolledBack \in {FALSE, TypeOfStep[r.step] = "publish"} :
          /\ logs' = [logs EXCEPT ![l] = "failed"]
          /\ Go(c, [stage |-> "failed", seen |-> IF rolledBack THEN run.status ELSE r.seen,
                    seenLogs |-> IF rolledBack THEN logs' ELSE [r.seenLogs EXCEPT ![l] = "failed"]])
    BY <1>1, <1>5, <2>1 DEF StepFails
  <2>3. logs'[l] = "failed" /\ DOMAIN logs' = DOMAIN logs /\ \A k \in DOMAIN logs \ {l} : logs'[k] = logs[k]
    BY <1>5, <2>1, <2>2
  <2>4. PICK seen : seen = (IF rolledBack THEN run.status ELSE r.seen)
    OBVIOUS
  <2>5. PICK seenLogs : seenLogs = (IF rolledBack THEN logs' ELSE [r.seenLogs EXCEPT ![l] = "failed"])
    OBVIOUS
  <2>6. PICK fields : fields = [stage |-> "failed", seen |-> seen, seenLogs |-> seenLogs]
    OBVIOUS
  <2>7. Go(c, fields)
    BY <2>2, <2>4, <2>5, <2>6
  <2>8. PICK n : n = Advanced(r, fields)
    OBVIOUS
  <2>9. n.stage = "failed" /\ n.seenLogs = seenLogs /\ n.todo = r.todo /\ n.step = r.step
    BY <2>6, <2>8 DEF Advanced, ExecFields
  <2>10. ASSUME r.alone, r.first PROVE Follows(n, steps, run', logs')
    <3>1. r.seenLogs = logs /\ OneEach(logs) /\ r.todo \subseteq steps /\ DoneBut(logs, r.todo, r.step, l) /\ r.step \in steps
      BY <1>2, <1>3, <2>1, <2>10 DEF Follows
    <3>2. seenLogs = logs'
      BY <2>2, <2>5, <3>1
    <3>3. OneEach(logs')
      BY <2>3, <3>1 DEF OneEach
    <3>4. ASSUME NEW k \in DOMAIN logs'
          PROVE  (k[1] < r.step /\ logs'[k] = "completed") \/ (k[1] = r.step /\ logs'[k] = "failed")
                 \/ (k[1] > r.step /\ logs'[k] \in {"pending", "skipped"})
      <4>1. CASE k = l
        BY <2>3, <3>1, <4>1 DEF DoneBut
      <4>2. CASE k # l
        <5>1. logs'[k] = logs[k] /\ k \in DOMAIN logs \ {l}
          BY <2>3, <4>2
        <5>2. (k[1] \in r.todo /\ logs[k] = "pending") \/ (k[1] < r.step /\ logs[k] = "completed")
          BY <3>1, <5>1 DEF DoneBut
        <5>3. CASE k[1] \in r.todo /\ logs[k] = "pending"
          <6>1. r.step < k[1]
            BY <3>1, <5>3 DEF DoneBut
          <6>2. r.step \in Nat /\ k[1] \in Nat
            BY <3>1, <5>1, PipeAssumption DEF PipeInv, RunFits
          <6>3. k[1] > r.step
            BY <6>1, <6>2
          <6> QED
            BY <5>1, <5>3, <6>3
        <5> QED
          BY <5>1, <5>2, <5>3
      <4> QED
        BY <4>1, <4>2
    <3>5. FailedAt(logs', r.step)
      BY <3>4 DEF FailedAt
    <3> QED
      BY <2>9, <3>1, <3>2, <3>3, <3>5 DEF Follows
  <2>11. RunFits(steps, run', logs')
    BY <1>2, <1>3, <2>3, LogsFit
  <2>12. DOMAIN fields \subseteq {"stage", "seen", "seenLogs", "done"} /\ fields["stage"] \in ExecStages \ {"loaded"}
    BY <2>6 DEF ExecStages
  <2> QED
    BY <1>1, <1>2, <2>7, <2>8, <2>10, <2>11, <2>12, StageKeeps
<1> QED
  BY <1>4, <1>5

LEMMA SkipKeeps ==
  ASSUME PipeInv, NEW c \in PipeClients, _mark_remaining_logs_skipped(c)
  PROVE  PipeInv'
<1>1. PICK r : r = pipeRequests[c]
  OBVIOUS
<1>2. r.kind = "execute" /\ r.stage = "failed" /\ UNCHANGED <<steps, run>>
  BY <1>1 DEF _mark_remaining_logs_skipped, Executing
<1>3. run.status # "pending" /\ (r.alone /\ r.first => Follows(r, steps, run, logs))
  BY <1>1, <1>2, ExecutionIs
<1>4. PICK l \in PendingSeen(r) :
        IF l \notin DOMAIN logs THEN Raises(c) /\ UNCHANGED logs
        ELSE logs' = [logs EXCEPT ![l] = "skipped"] /\ Go(c, [seenLogs |-> [r.seenLogs EXCEPT ![l] = "skipped"]])
  BY <1>1 DEF _mark_remaining_logs_skipped
<1>5. CASE l \notin DOMAIN logs
  BY <1>2, <1>4, <1>5, RaisesFits
<1>6. CASE l \in DOMAIN logs
  <2>1. logs' = [logs EXCEPT ![l] = "skipped"]
    BY <1>4, <1>6
  <2>2. logs'[l] = "skipped" /\ DOMAIN logs' = DOMAIN logs /\ \A k \in DOMAIN logs \ {l} : logs'[k] = logs[k]
    BY <1>6, <2>1
  <2>3. PICK fields : fields = [seenLogs |-> [r.seenLogs EXCEPT ![l] = "skipped"]]
    OBVIOUS
  <2>4. Go(c, fields)
    BY <1>4, <1>6, <2>3
  <2>5. PICK n : n = Advanced(r, fields)
    OBVIOUS
  <2>6. n.stage = "failed" /\ n.seenLogs = [r.seenLogs EXCEPT ![l] = "skipped"] /\ n.todo = r.todo /\ n.step = r.step
    BY <1>2, <2>3, <2>5 DEF Advanced, ExecFields
  <2>7. ASSUME r.alone, r.first PROVE Follows(n, steps, run', logs')
    <3>1. r.seenLogs = logs /\ OneEach(logs) /\ r.todo \subseteq steps /\ FailedAt(logs, r.step)
      BY <1>2, <1>3, <2>7 DEF Follows
    <3>2. n.seenLogs = logs'
      BY <2>1, <2>6, <3>1
    <3>3. OneEach(logs')
      BY <2>2, <3>1 DEF OneEach
    <3>4. logs[l] = "pending"
      BY <1>4, <3>1 DEF PendingSeen
    <3>5. FailedAt(logs', r.step)
      BY <1>6, <2>2, <3>1, <3>4 DEF FailedAt
    <3> QED
      BY <2>6, <3>1, <3>2, <3>3, <3>5 DEF Follows
  <2>8. RunFits(steps, run', logs')
    BY <1>2, <1>3, <2>2, LogsFit
  <2>9. DOMAIN fields \subseteq {"stage", "seen", "seenLogs", "done"} /\ "stage" \notin DOMAIN fields
    BY <2>3
  <2> QED
    BY <1>1, <1>2, <2>4, <2>5, <2>7, <2>8, <2>9, StageKeeps
<1> QED
  BY <1>5, <1>6

LEMMA FinishProgressKeeps ==
  ASSUME PipeInv, NEW c \in PipeClients, FinishProgress(c)
  PROVE  PipeInv'
<1>1. PICK r : r = pipeRequests[c]
  OBVIOUS
<1>2. /\ r.kind = "execute" /\ r.stage = "next" /\ r.todo = {} /\ UNCHANGED <<steps, logs>>
      /\ run' = IF r.done = run.total THEN run ELSE [run EXCEPT !.completed = run.total]
  BY <1>1 DEF FinishProgress, Executing
<1>3. r.alone /\ r.first => Follows(r, steps, run, logs)
  BY <1>1, <1>2, ExecutionIs
<1>4. PICK fields : fields = [stage |-> "finish"]
  OBVIOUS
<1>5. Go(c, fields)
  BY <1>4 DEF FinishProgress
<1>6. PICK n : n = Advanced(r, fields)
  OBVIOUS
<1>7. n.stage = "finish" /\ n.seenLogs = r.seenLogs /\ n.todo = r.todo
  BY <1>4, <1>6 DEF Advanced, ExecFields
<1>8. RunFits(steps, run', logs') /\ run'.status = run.status /\ (r.done = run.completed => run'.completed = run'.total)
  <2>1. RunFits(steps, run, logs)
    BY DEF PipeInv
  <2>2. CASE r.done = run.total
    BY <1>2, <2>1, <2>2
  <2>3. CASE r.done # run.total
    BY <1>2, <2>3, RunAfter
  <2> QED
    BY <2>2, <2>3
<1>9. ASSUME r.alone, r.first PROVE Follows(n, steps, run', logs')
  <2>1. r.seenLogs = logs /\ OneEach(logs) /\ r.todo \subseteq steps /\ Done(logs, r.todo) /\ r.done = run.completed
    BY <1>2, <1>3, <1>9 DEF Follows
  <2>2. \A l \in DOMAIN logs : logs[l] = "completed"
    BY <1>2, <2>1 DEF Done
  <2> QED
    BY <1>2, <1>7, <1>8, <2>1, <2>2 DEF Follows
<1>10. DOMAIN fields \subseteq {"stage", "seen", "seenLogs", "done"} /\ fields["stage"] \in ExecStages \ {"loaded"}
  BY <1>4 DEF ExecStages
<1> QED
  BY <1>1, <1>2, <1>5, <1>6, <1>8, <1>9, <1>10, StageKeeps

\* A request that ends the run.
LEMMA EndKeeps ==
  ASSUME PipeInv, NEW c \in PipeClients, UNCHANGED <<steps, logs>>, NEW status, status # "pending", NEW error,
         run' = [run EXCEPT !.status = status, !.error = error, !.ended = TRUE] \/ run' = [run EXCEPT !.status = status, !.ended = TRUE],
         pipeRequests' = [Others(c) EXCEPT ![c] = NoPipe]
  PROVE  PipeInv'
<1>1. DOMAIN run = RunFields /\ RunFits(steps, run, logs)
  BY DEF PipeInv, RunFits
<1>2. DOMAIN run' = RunFields /\ run'.status = status
  BY <1>1 DEF RunFields
<1>3. RunFits(steps', run', logs')
  BY <1>1, <1>2 DEF RunFits
<1> QED
  BY <1>2, <1>3, IdleFits, OneWrites

LEMMA EndsKeep ==
  ASSUME PipeInv, NEW c \in PipeClients, fail_run(c) \/ complete_run(c)
  PROVE  PipeInv'
<1>1. CASE fail_run(c)
  <2>1. CASE Raises(c) /\ UNCHANGED run
    BY <1>1, <2>1, RaisesFits DEF fail_run
  <2>2. CASE /\ run' = [run EXCEPT !.status = "failed", !.error = pipeRequests[c].step, !.ended = TRUE]
             /\ pipeRequests' = [Others(c) EXCEPT ![c] = NoPipe]
    BY <1>1, <2>2, EndKeeps DEF fail_run
  <2> QED
    BY <1>1, <2>1, <2>2 DEF fail_run
<1>2. CASE complete_run(c)
  <2>1. CASE Raises(c) /\ UNCHANGED run
    BY <1>2, <2>1, RaisesFits DEF complete_run
  <2>2. CASE run' = [run EXCEPT !.status = "completed", !.ended = TRUE] /\ pipeRequests' = [Others(c) EXCEPT ![c] = NoPipe]
    BY <1>2, <2>2, EndKeeps DEF complete_run
  <2> QED
    BY <1>2, <2>1, <2>2 DEF complete_run
<1> QED
  BY <1>1, <1>2

LEMMA NextPipe == PipeInv /\ [PipeNext]_pipeVars => PipeInv'
<1> SUFFICES ASSUME PipeInv, [PipeNext]_pipeVars PROVE PipeInv'
  OBVIOUS
<1>1. CASE UNCHANGED pipeVars
  BY <1>1 DEF pipeVars, PipeInv
<1>2. ASSUME NEW c \in PipeClients, execute_run(c) PROVE PipeInv'
  BY <1>2, LoadRunKeeps, StartKeeps, RefreshKeeps, ExecuteNextKeeps, StepSucceedsKeeps, ProgressKeeps, StepFailsKeeps, SkipKeeps, EndsKeep,
     FinishProgressKeeps DEF execute_run
<1>3. CASE Stop
  BY <1>3, IdleFits DEF Stop, PipeInv
<1> QED
  BY <1>1, <1>2, <1>3, EditsKeep, CancelKeeps DEF PipeNext

\* A request that is over when the run ends has ended it.
LEMMA EndsItself ==
  ASSUME PipeInv, PipeNext, NEW c \in PipeClients, pipeRequests[c].kind = "execute", pipeRequests'[c] = NoPipe, run'.ended, ~run.ended
  PROVE  \/ complete_run(c)
         \/ fail_run(c) /\ run' = [run EXCEPT !.status = "failed", !.error = pipeRequests[c].step, !.ended = TRUE]
<1>1. DOMAIN run = RunFields
  BY DEF PipeInv, RunFits
<1>2. run' # run
  OBVIOUS
<1>3. \A d \in PipeClients : d # c => Others(d)[c].kind = "execute"
  <2>1. DOMAIN pipeRequests[c] = ExecFields
    BY ExecutionIs DEF Execution
  <2>2. PICK r : r = [pipeRequests[c] EXCEPT !.alone = FALSE]
    OBVIOUS
  <2>3. r.kind = "execute"
    BY <2>1, <2>2 DEF ExecFields
  <2> QED
    BY <2>2, <2>3 DEF Others
<1>4. NoPipe.kind = "none"
  BY DEF NoPipe
<1>5. \A s \in Steps : ~create_step(s)
  BY <1>2 DEF create_step
<1>6. ASSUME NEW s \in Steps, delete_step(s) PROVE FALSE
  <2>1. run' = [run EXCEPT !.error = NoError]
    BY <1>2, <1>6 DEF delete_step
  <2>2. run'.ended = run.ended
    BY <1>1, <2>1 DEF RunFields
  <2> QED
    BY <2>2
<1>7. ASSUME NEW d \in PipeClients, cancel_run(d) PROVE FALSE
  <2>1. pipeRequests[d].kind = "cancel" /\ pipeRequests' = [Others(d) EXCEPT ![d] = NoPipe]
    BY <1>7 DEF cancel_run
  <2>2. d # c /\ pipeRequests'[c] = Others(d)[c]
    BY <2>1 DEF Others
  <2> QED
    BY <1>3, <1>4, <2>2
<1>8. ASSUME NEW d \in PipeClients, execute_run(d)
      PROVE  complete_run(d) \/ fail_run(d)
  <2>1. ~LoadRun(d) /\ ~RefreshRun(d) /\ ~ExecuteNext(d) /\ ~StepSucceeds(d) /\ ~StepFails(d) /\ ~_mark_remaining_logs_skipped(d)
    BY <1>2 DEF LoadRun, RefreshRun, ExecuteNext, StepSucceeds, StepFails, _mark_remaining_logs_skipped
  <2>2. ASSUME start_run(d) PROVE FALSE
    <3>1. run' = [run EXCEPT !.status = "running"]
      BY <1>2, <2>2 DEF start_run
    <3>2. run'.ended = run.ended
      BY <1>1, <3>1 DEF RunFields
    <3> QED
      BY <3>2
  <2>3. ASSUME Progress(d) \/ FinishProgress(d) PROVE FALSE
    <3>1. PICK n : run' = [run EXCEPT !.completed = n]
      BY <1>2, <2>3 DEF Progress, FinishProgress
    <3>2. run'.ended = run.ended
      BY <1>1, <3>1 DEF RunFields
    <3> QED
      BY <3>2
  <2> QED
    BY <1>8, <2>1, <2>2, <2>3 DEF execute_run
<1>9. PICK d \in PipeClients : complete_run(d) \/ fail_run(d)
  BY <1>2, <1>5, <1>6, <1>7, <1>8 DEF PipeNext, LoadCancel, Stop
<1>10. /\ pipeRequests' = [Others(d) EXCEPT ![d] = NoPipe]
       /\ fail_run(d) => run' = [run EXCEPT !.status = "failed", !.error = pipeRequests[d].step, !.ended = TRUE]
  BY <1>2, <1>9 DEF complete_run, fail_run
<1>11. d = c
  <2>1. d # c => pipeRequests'[c] = Others(d)[c]
    BY <1>10 DEF Others
  <2> QED
    BY <1>3, <1>4, <2>1
<1> QED
  BY <1>9, <1>10, <1>11

LEMMA RunExplains == PipeInv /\ PipeNext => ExplainsItself
<1> SUFFICES ASSUME PipeInv, PipeNext, NEW c \in PipeClients, pipeRequests[c].kind = "execute", pipeRequests[c].alone,
                    pipeRequests[c].first, pipeRequests'[c] = NoPipe, run'.ended, ~run.ended
             PROVE  IF run'.status = "completed" THEN (\A l \in DOMAIN logs' : logs'[l] = "completed") /\ run'.completed = run'.total
                    ELSE \A l \in DOMAIN logs' :
                           logs'[l] = IF l[1] < run'.error THEN "completed" ELSE IF l[1] = run'.error THEN "failed" ELSE "skipped"
  BY DEF ExplainsItself
<1>1. PICK r : r = pipeRequests[c]
  OBVIOUS
<1>2. Follows(r, steps, run, logs)
  BY <1>1, ExecutionIs
<1>3. DOMAIN run = RunFields /\ \A l \in DOMAIN logs : l[1] \in Nat
  BY PipeAssumption DEF PipeInv, RunFits
<1>4. CASE complete_run(c)
  <2>1. r.stage = "finish" /\ run' = [run EXCEPT !.status = "completed", !.ended = TRUE] /\ UNCHANGED logs
    BY <1>1, <1>4, run' # run DEF complete_run, Executing
  <2>2. run'.status = "completed" /\ run'.completed = run.completed /\ run'.total = run.total
    BY <1>3, <2>1 DEF RunFields
  <2> QED
    BY <1>2, <2>1, <2>2 DEF Follows
<1>5. CASE fail_run(c) /\ run' = [run EXCEPT !.status = "failed", !.error = pipeRequests[c].step, !.ended = TRUE]
  <2>1. r.stage = "failed" /\ PendingSeen(r) = {} /\ UNCHANGED logs
    BY <1>1, <1>5 DEF fail_run, Executing
  <2>2. run'.status = "failed" /\ run'.error = r.step
    BY <1>1, <1>3, <1>5 DEF RunFields
  <2>3. r.step \in steps
    <3>1. ~(Raises(c) /\ UNCHANGED run)
      OBVIOUS
    <3> QED
      BY <1>1, <1>5, <3>1 DEF fail_run
  <2>4. r.step \in Nat
    BY <2>3, PipeAssumption DEF PipeInv, RunFits
  <2>5. FailedAt(logs, r.step) /\ \A l \in DOMAIN logs : logs[l] # "pending"
    BY <1>2, <2>1 DEF Follows, PendingSeen
  <2>6. \A l \in DOMAIN logs : logs[l] = IF l[1] < r.step THEN "completed" ELSE IF l[1] = r.step THEN "failed" ELSE "skipped"
    BY <1>3, <2>4, <2>5 DEF FailedAt
  <2> QED
    BY <2>1, <2>2, <2>6
<1> QED
  BY <1>4, <1>5, EndsItself

LEMMA EndStays == PipeInv /\ PipeNext => StaysEnded
<1> SUFFICES ASSUME PipeInv, PipeNext, run.ended, run.status \in Ended, \A c \in PipeClients : pipeRequests[c] = NoPipe
             PROVE  run'.status = run.status /\ \A c \in PipeClients : pipeRequests'[c] = NoPipe
  BY DEF StaysEnded
<1>1. NoPipe.kind = "none"
  BY DEF NoPipe
<1>2. DOMAIN run = RunFields
  BY DEF PipeInv, RunFits
<1>3. \A c \in PipeClients : Others(Trigger)[c] = NoPipe
  BY <1>1 DEF Others
<1>4. ASSUME NEW c \in PipeClients, LoadCancel(c) \/ cancel_run(c) \/ execute_run(c) PROVE FALSE
  BY <1>1, <1>4 DEF LoadCancel, cancel_run, execute_run, LoadRun, MayExecute, Ended, start_run, RefreshRun, ExecuteNext, StepSucceeds, Progress,
     StepFails, _mark_remaining_logs_skipped, fail_run, FinishProgress, complete_run, Executing
<1>5. ASSUME NEW s \in Steps, create_step(s) PROVE run'.status = run.status /\ pipeRequests' = Others(Trigger)
  BY <1>5 DEF create_step
<1>6. ASSUME NEW s \in Steps, delete_step(s) PROVE run'.status = run.status /\ pipeRequests' = Others(Trigger)
  <2>1. pipeRequests' = Others(Trigger) /\ (run' = run \/ run' = [run EXCEPT !.error = NoError])
    BY <1>6 DEF delete_step
  <2> QED
    BY <1>2, <2>1 DEF RunFields
<1> QED
  BY <1>3, <1>4, <1>5, <1>6 DEF PipeNext, Stop

\* However executions, cancellations, edits of steps and process stops overlap: a run that one
\* execution ended, that nothing overlapped and no earlier one had begun, is explained by its
\* logs, and a run that ended stays as it is when nobody had loaded it (services/pipeline.py).
THEOREM RunsExplainThemselvesAlways == PipeSpec => RunsExplainThemselves
<1>1. PipeInit => PipeInv
  BY InitPipe
<1>2. PipeInv /\ [PipeNext]_pipeVars => PipeInv'
  BY NextPipe
<1>3. PipeInv /\ [PipeNext]_pipeVars => [ExplainsItself /\ StaysEnded]_pipeVars
  BY RunExplains, EndStays
<1> QED
  BY <1>1, <1>2, <1>3, PTL DEF PipeSpec, RunsExplainThemselves
-----------------------------------------------------------------------------
UserRow == [email : Emails, active : BOOLEAN]
\* What a field of an operation may be: not given, or given as one value.
MaybeActive == {<<>>} \cup {<<b>> : b \in BOOLEAN}
MaybeEmail == {<<>>} \cup {<<e>> : e \in Emails}
Operation == [active : MaybeActive, email : MaybeEmail]
UserFields == {"active", "email"}
CreateRequest ==
  [alone : BOOLEAN, kind : {"create"}, stage : {"insert", "log"}, email : Emails, active : BOOLEAN, user : Nat]
SsoRequest == [alone : BOOLEAN, kind : {"sso"}, stage : {"insert", "session"}, email : Emails]
PatchRequest ==
  [alone : BOOLEAN, kind : {"patch"}, stage : {"write", "refresh", "log"}, user : Nat, todo : Seq(Operation), seen : UserRow,
   from : Nat, all : Seq(Operation)]
GroupFields == {"alone", "kind", "stage", "list", "loaded", "user"}
GroupRequest(r) ==
  DOMAIN r = GroupFields /\ r.kind = "group" /\ r.stage \in {"write", "log"} /\ r.user = TheGroup /\ r.list \in Seq(Nat) /\ r.alone \in BOOLEAN

\* How many of a PATCH's operations were logged, and how many of them written.
Logged(r) == Len(r.all) - Len(r.todo)
Written(r) == IF r.stage \in {"refresh", "log"} THEN Logged(r) + 1 ELSE Logged(r)
\* A PATCH that nothing overlapped: what is left are its last operations, it saw the user
\* as it is, and the user is what the operations that were written say.
PatchFollows(r, there, log) ==
  /\ Len(r.todo) <= Len(r.all)
  /\ \A k \in 1..Len(r.todo) : r.todo[k] = r.all[Logged(r) + k]
  /\ r.seen = there[r.user]
  /\ Len(log) - r.from = Logged(r)
  /\ \A k \in 1..Written(r), field \in UserFields :
       (r.all[k][field] # <<>> /\ \A l \in (k + 1)..Written(r) : r.all[l][field] = <<>>)
       => r.all[k][field] = <<there[r.user][field]>>
\* A request stands by what it loaded.
ScimStands(r, there, inGroup, log) ==
  \/ r = NoScimRequest
  \/ r \in CreateRequest
  \/ r \in SsoRequest
  \/ /\ r \in PatchRequest /\ r.user \in DOMAIN there /\ (r.stage \in {"refresh", "log"} => r.todo # <<>>)
     /\ r.alone => PatchFollows(r, there, log)
  \/ GroupRequest(r) /\ (r.alone /\ r.stage = "write" => r.loaded = DOMAIN inGroup)
\* Whoever has inserted a user and is to log it.
Creating(r) == r.kind = "create" /\ r.stage = "log"

\* No two users have one email; the creations that were logged, and those that are to be,
\* are of different users.
UsersApart(there) == \A i, j \in DOMAIN there : i # j => there[i].email # there[j].email
LoggedOnce(there, log) ==
  /\ \A i \in DOMAIN log : log[i].operation = "create_user" => log[i].user \in DOMAIN there
  /\ \A i, j \in DOMAIN log : (i # j /\ log[i].operation = "create_user" /\ log[j].operation = "create_user") =>
       log[i].user # log[j].user
CreatorsApart(requests, there, log) ==
  \A c \in ScimClients : Creating(requests[c]) =>
    /\ requests[c].user \in DOMAIN there
    /\ \A i \in DOMAIN log : log[i].operation = "create_user" => log[i].user # requests[c].user
    /\ \A d \in ScimClients \ {c} : Creating(requests[d]) => requests[d].user # requests[c].user
LogEntry == [operation : {"create_user", "update_user", "deactivate_user", "update_group"}, user : Nat]
\* The inductive invariant.
ScimInv ==
  /\ users \in Seq(UserRow) /\ UsersApart(users)
  /\ scimLog \in Seq(LogEntry) /\ LoggedOnce(users, scimLog)
  /\ nextMember \in Nat
  /\ scimRequests = [c \in ScimClients |-> scimRequests[c]]
  /\ \A c \in ScimClients : ScimStands(scimRequests[c], users, groupRows, scimLog)
  /\ CreatorsApart(scimRequests, users, scimLog)

LEMMA ScimKinds ==
  \A r : /\ r = NoScimRequest => r.kind = "none"
         /\ r \in CreateRequest => r.kind = "create"
         /\ r \in SsoRequest => r.kind = "sso"
         /\ r \in PatchRequest => r.kind = "patch"
         /\ GroupRequest(r) => r.kind = "group"
BY DEF NoScimRequest, CreateRequest, SsoRequest, PatchRequest, GroupRequest

\* The users there are at first: one for each email of a finite set.
LEMMA FirstUsers ==
  ASSUME NEW E \in SUBSET Emails
  PROVE  LET s == SetToSeq(E) IN s \in [1..Cardinality(E) -> E] /\ IsInjective(s) /\ Cardinality(E) \in Nat
<1>1. IsFiniteSet(E)
  BY ScimAssumption, FS_Subset
<1>2. Cardinality(E) \in Nat /\ ExistsBijection(1..Cardinality(E), E)
  BY <1>1, FS_CardinalityType
<1>3. PICK f \in [1..Cardinality(E) -> E] : \A a, b \in 1..Cardinality(E) : f[a] = f[b] => a = b
  BY <1>2 DEF ExistsBijection, Bijection, Injection, IsInjective
<1>4. IsInjective(f)
  BY <1>3 DEF IsInjective
<1> QED
  BY <1>2, <1>3, <1>4 DEF SetToSeq

LEMMA InitScim == ProvisioningInit => ScimInv
<1> SUFFICES ASSUME ProvisioningInit PROVE ScimInv
  OBVIOUS
<1>1. PICK E \in SUBSET Emails : users = [i \in 1..Cardinality(E) |-> [email |-> SetToSeq(E)[i], active |-> TRUE]]
  BY DEF ProvisioningInit
<1>2. PICK s : s = SetToSeq(E)
  OBVIOUS
<1>3. s \in [1..Cardinality(E) -> E] /\ IsInjective(s) /\ Cardinality(E) \in Nat
  BY <1>2, FirstUsers
<1>4. users = [i \in 1..Cardinality(E) |-> [email |-> s[i], active |-> TRUE]]
  BY <1>1, <1>2
<1>5. users \in Seq(UserRow)
  <2>1. \A i \in 1..Cardinality(E) : [email |-> s[i], active |-> TRUE] \in UserRow
    BY <1>3 DEF UserRow
  <2> QED
    BY <1>3, <1>4, <2>1
<1>6. UsersApart(users)
  BY <1>3, <1>4 DEF UsersApart, IsInjective
<1>7. scimLog = <<>> /\ nextMember = 0 /\ scimRequests = [c \in ScimClients |-> NoScimRequest]
  BY DEF ProvisioningInit
<1>8. CreatorsApart(scimRequests, users, scimLog)
  BY <1>7 DEF CreatorsApart, Creating, NoScimRequest
<1> QED
  BY <1>5, <1>6, <1>7, <1>8 DEF ScimInv, LoggedOnce, ScimStands

\* A request that something overlapped stands by what it loaded still.
LEMMA ScimOverlappedStands ==
  ASSUME NEW r, NEW there, NEW inGroup, NEW log, ScimStands(r, there, inGroup, log), r # NoScimRequest,
         NEW there2, NEW inGroup2, NEW log2, DOMAIN there \subseteq DOMAIN there2
  PROVE  ScimStands([r EXCEPT !.alone = FALSE], there2, inGroup2, log2)
<1>1. PICK n : n = [r EXCEPT !.alone = FALSE]
  OBVIOUS
<1>2. CASE r \in CreateRequest
  <2>1. n \in CreateRequest
    BY <1>1, <1>2 DEF CreateRequest
  <2> QED
    BY <1>1, <2>1 DEF ScimStands
<1>3. CASE r \in SsoRequest
  <2>1. n \in SsoRequest
    BY <1>1, <1>3 DEF SsoRequest
  <2> QED
    BY <1>1, <2>1 DEF ScimStands
<1>4. CASE r \in PatchRequest /\ r.user \in DOMAIN there /\ (r.stage \in {"refresh", "log"} => r.todo # <<>>)
  <2>1. n \in PatchRequest /\ n.alone = FALSE /\ n.user = r.user /\ n.stage = r.stage /\ n.todo = r.todo
    BY <1>1, <1>4 DEF PatchRequest
  <2> QED
    BY <1>1, <1>4, <2>1 DEF ScimStands
<1>5. CASE GroupRequest(r)
  <2>1. GroupRequest(n) /\ n.alone = FALSE
    BY <1>1, <1>5 DEF GroupRequest, GroupFields
  <2> QED
    BY <1>1, <2>1 DEF ScimStands
<1> QED
  BY <1>2, <1>3, <1>4, <1>5 DEF ScimStands

\* What the others are when one request has written.
LEMMA OthersAfter ==
  ASSUME ScimInv, NEW c \in ScimClients, NEW d \in ScimClients \ {c}, NEW n,
         \/ scimRequests' = [scimRequests EXCEPT ![c] = n] /\ UNCHANGED <<users, groupRows, scimLog>>
         \/ scimRequests' = [ScimOverlapped(c) EXCEPT ![c] = n],
         DOMAIN users \subseteq DOMAIN users'
  PROVE  /\ ScimStands(scimRequests'[d], users', groupRows', scimLog')
         /\ Creating(scimRequests'[d]) => Creating(scimRequests[d]) /\ scimRequests'[d].user = scimRequests[d].user
<1>1. PICK r : r = scimRequests[d]
  OBVIOUS
<1>2. ScimStands(r, users, groupRows, scimLog)
  BY <1>1 DEF ScimInv
<1>3. CASE scimRequests' = [scimRequests EXCEPT ![c] = n] /\ UNCHANGED <<users, groupRows, scimLog>>
  <2>1. scimRequests'[d] = r
    BY <1>1, <1>3 DEF ScimInv
  <2> QED
    BY <1>1, <1>2, <1>3, <2>1
<1>4. CASE scimRequests' = [ScimOverlapped(c) EXCEPT ![c] = n]
  <2>1. scimRequests'[d] = IF r.kind = "none" THEN r ELSE [r EXCEPT !.alone = FALSE]
    BY <1>1, <1>4 DEF ScimOverlapped
  <2>2. CASE r.kind = "none"
    <3>1. r = NoScimRequest
      BY <1>2, <2>2, ScimKinds DEF ScimStands
    <3> QED
      BY <1>1, <2>1, <2>2, <3>1 DEF ScimStands, Creating
  <2>3. CASE r.kind # "none"
    <3>1. scimRequests'[d] = [r EXCEPT !.alone = FALSE] /\ r # NoScimRequest
      BY <2>1, <2>3, ScimKinds
    <3>2. ScimStands(scimRequests'[d], users', groupRows', scimLog')
      BY <1>2, <3>1, ScimOverlappedStands
    <3>3. Creating(scimRequests'[d]) => Creating(r) /\ scimRequests'[d].user = r.user
      <4>1. PICK m : m = scimRequests'[d]
        OBVIOUS
      <4>2. m.kind = r.kind /\ m.stage = r.stage /\ m.user = r.user
        BY <3>1, <4>1
      <4> QED
        BY <4>1, <4>2 DEF Creating
    <3> QED
      BY <1>1, <3>2, <3>3
  <2> QED
    BY <2>2, <2>3
<1> QED
  BY <1>3, <1>4

LEMMA Lengthened ==
  ASSUME NEW S, NEW s \in Seq(S), NEW e \in S, NEW t, t = s \/ t = Append(s, e)
  PROVE  /\ t \in Seq(S)
         /\ \A i \in DOMAIN t : (i \in DOMAIN s /\ t[i] = s[i]) \/ (i = Len(s) + 1 /\ t[i] = e /\ t = Append(s, e))
OBVIOUS

\* One request moves on: what it may change of the users, of the log and of itself.
LEMMA ScimMoves ==
  ASSUME ScimInv, NEW c \in ScimClients, NEW n,
         \/ scimRequests' = [scimRequests EXCEPT ![c] = n] /\ UNCHANGED <<users, groupRows, scimLog>>
         \/ scimRequests' = [ScimOverlapped(c) EXCEPT ![c] = n],
         ScimStands(n, users', groupRows', scimLog'),
         users' \in Seq(UserRow), UsersApart(users'), DOMAIN users \subseteq DOMAIN users', nextMember' \in Nat,
         NEW entry \in LogEntry,
         scimLog' = scimLog \/ scimLog' = Append(scimLog, entry),
         entry.operation = "create_user" =>
           Creating(scimRequests[c]) /\ ~Creating(n) /\ entry.user = scimRequests[c].user,
         Creating(n) => n.user \in DOMAIN users' \ DOMAIN users /\ scimLog' = scimLog
  PROVE  ScimInv'
<1>1. scimRequests' = [d \in ScimClients |-> scimRequests'[d]] /\ scimRequests'[c] = n
  BY DEF ScimInv, ScimOverlapped
<1>2. \A d \in ScimClients \ {c} : /\ ScimStands(scimRequests'[d], users', groupRows', scimLog')
                                   /\ Creating(scimRequests'[d]) => Creating(scimRequests[d]) /\ scimRequests'[d].user = scimRequests[d].user
  BY OthersAfter
<1>3. \A d \in ScimClients : ScimStands(scimRequests'[d], users', groupRows', scimLog')
  BY <1>1, <1>2
<1>4. scimLog \in Seq(LogEntry)
  BY DEF ScimInv
<1>5. /\ scimLog' \in Seq(LogEntry)
      /\ \A i \in DOMAIN scimLog' : (i \in DOMAIN scimLog /\ scimLog'[i] = scimLog[i]) \/ (i = Len(scimLog) + 1 /\ scimLog'[i] = entry /\ scimLog' = Append(scimLog, entry))
  BY <1>4, Lengthened
<1>6. /\ scimLog \in Seq(LogEntry) /\ LoggedOnce(users, scimLog) /\ CreatorsApart(scimRequests, users, scimLog)
      /\ scimLog' \in Seq(LogEntry)
  BY <1>5 DEF ScimInv
<1>7. \A i \in DOMAIN scimLog' : (i \in DOMAIN scimLog /\ scimLog'[i] = scimLog[i]) \/ (i = Len(scimLog) + 1 /\ scimLog'[i] = entry /\ scimLog' = Append(scimLog, entry))
  BY <1>5
<1>8. LoggedOnce(users', scimLog')
  <2>1. ASSUME NEW i \in DOMAIN scimLog', scimLog'[i].operation = "create_user" PROVE scimLog'[i].user \in DOMAIN users'
    BY <1>6, <1>7, <2>1 DEF LoggedOnce, CreatorsApart
  <2>2. ASSUME NEW i \in DOMAIN scimLog', NEW j \in DOMAIN scimLog', i # j, scimLog'[i].operation = "create_user", scimLog'[j].operation = "create_user"
        PROVE  scimLog'[i].user # scimLog'[j].user
    <3>1. CASE i \in DOMAIN scimLog /\ scimLog'[i] = scimLog[i] /\ j \in DOMAIN scimLog /\ scimLog'[j] = scimLog[j]
      BY <1>6, <2>2, <3>1 DEF LoggedOnce
    <3>2. CASE i \in DOMAIN scimLog /\ scimLog'[i] = scimLog[i] /\ scimLog'[j] = entry
      BY <1>6, <2>2, <3>2 DEF CreatorsApart
    <3>3. CASE j \in DOMAIN scimLog /\ scimLog'[j] = scimLog[j] /\ scimLog'[i] = entry
      BY <1>6, <2>2, <3>3 DEF CreatorsApart
    <3> QED
      BY <1>7, <2>2, <3>1, <3>2, <3>3
  <2> QED
    BY <2>1, <2>2 DEF LoggedOnce
<1>9. CreatorsApart(scimRequests', users', scimLog')
  <2> SUFFICES ASSUME NEW d \in ScimClients, Creating(scimRequests'[d])
               PROVE  /\ scimRequests'[d].user \in DOMAIN users'
                      /\ \A i \in DOMAIN scimLog' : scimLog'[i].operation = "create_user" => scimLog'[i].user # scimRequests'[d].user
                      /\ \A e \in ScimClients \ {d} : Creating(scimRequests'[e]) => scimRequests'[e].user # scimRequests'[d].user
    BY DEF CreatorsApart
  <2>1. CASE d = c
    <3>1. scimLog' = scimLog /\ scimRequests'[d] = n /\ n.user \in DOMAIN users' /\ n.user \notin DOMAIN users
      BY <1>1, <2>1
    <3>2. \A i \in DOMAIN scimLog : scimLog[i].operation = "create_user" => scimLog[i].user # n.user
      BY <1>6, <3>1 DEF LoggedOnce
    <3>3. \A e \in ScimClients \ {c} : Creating(scimRequests'[e]) => scimRequests'[e].user # n.user
      BY <1>2, <1>6, <3>1 DEF CreatorsApart
    <3> QED
      BY <2>1, <3>1, <3>2, <3>3
  <2>2. CASE d # c
    <3>1. Creating(scimRequests[d]) /\ scimRequests'[d].user = scimRequests[d].user
      BY <1>2, <2>2
    <3>2. scimRequests[d].user \in DOMAIN users
      BY <1>6, <3>1 DEF CreatorsApart
    <3>3. ASSUME NEW i \in DOMAIN scimLog', scimLog'[i].operation = "create_user" PROVE scimLog'[i].user # scimRequests[d].user
      BY <1>6, <1>7, <2>2, <3>1, <3>3 DEF CreatorsApart
    <3>4. ASSUME NEW e \in ScimClients \ {d}, Creating(scimRequests'[e]) PROVE scimRequests'[e].user # scimRequests[d].user
      <4>1. CASE e = c
        BY <1>1, <3>2, <3>4, <4>1
      <4>2. CASE e # c
        BY <1>2, <1>6, <3>1, <3>4, <4>2 DEF CreatorsApart
      <4> QED
        BY <4>1, <4>2
    <3> QED
      BY <3>1, <3>2, <3>3, <3>4
  <2> QED
    BY <2>1, <2>2
<1> QED
  BY <1>1, <1>3, <1>6, <1>8, <1>9 DEF ScimInv

LEMMA AnEntry == \E entry \in LogEntry : entry.operation = "update_user"
<1>1. [operation |-> "update_user", user |-> 0] \in LogEntry
  BY DEF LogEntry
<1> QED
  BY <1>1

\* A request that changes nothing but itself.
LEMMA OnlyItself ==
  ASSUME ScimInv, NEW c \in ScimClients, NEW n, scimRequests' = [scimRequests EXCEPT ![c] = n],
         UNCHANGED <<users, groupRows, nextMember, scimLog>>, ScimStands(n, users, groupRows, scimLog), ~Creating(n)
  PROVE  ScimInv'
<1>1. PICK entry \in LogEntry : entry.operation = "update_user"
  BY AnEntry
<1> QED
  BY <1>1, ScimMoves DEF ScimInv

LEMMA EndingKeeps ==
  ASSUME ScimInv, NEW c \in ScimClients, ScimEnds(c), UNCHANGED <<users, groupRows, nextMember, scimLog>>
  PROVE  ScimInv'
<1>1. ScimStands(NoScimRequest, users, groupRows, scimLog) /\ ~Creating(NoScimRequest)
  BY DEF ScimStands, Creating, NoScimRequest
<1> QED
  BY <1>1, OnlyItself DEF ScimEnds

LEMMA BeginningKeeps ==
  ASSUME ScimInv, NEW c \in ScimClients, NEW n, ScimBegins(c, n), ScimStands(n, users, groupRows, scimLog), ~Creating(n)
  PROVE  ScimInv'
BY OnlyItself DEF ScimBegins

LEMMA ScimCreateKeeps ==
  ASSUME ScimInv, NEW c \in ScimClients, NEW email \in Emails, NEW active \in BOOLEAN,
         scim_create_user(c, email, active) \/ handle_sso_callback(c, email)
  PROVE  ScimInv'
<1>1. CASE scim_create_user(c, email, active)
  <2>1. PICK n : n = [alone |-> TRUE, kind |-> "create", stage |-> "insert", email |-> email, active |-> active, user |-> 0]
    OBVIOUS
  <2>2. n \in CreateRequest /\ ~Creating(n)
    BY <2>1 DEF CreateRequest, Creating
  <2> QED
    BY <1>1, <2>1, <2>2, BeginningKeeps DEF scim_create_user, ScimStands
<1>2. CASE handle_sso_callback(c, email)
  <2>1. PICK n : n = [alone |-> TRUE, kind |-> "sso", stage |-> IF IdOf(email) = {} THEN "insert" ELSE "session", email |-> email]
    OBVIOUS
  <2>2. n \in SsoRequest /\ ~Creating(n)
    BY <2>1 DEF SsoRequest, Creating
  <2> QED
    BY <1>2, <2>1, <2>2, BeginningKeeps DEF handle_sso_callback, ScimStands
<1> QED
  BY <1>1, <1>2

LEMMA ScimBeginKeeps ==
  ASSUME ScimInv, NEW c \in ScimClients, NEW i \in DOMAIN users, NEW operations \in Seq(Operation), Begin(c, i, operations)
  PROVE  ScimInv'
<1>1. PICK n : n = [alone |-> TRUE, kind |-> "patch", stage |-> "write", user |-> i, todo |-> operations, seen |-> users[i],
                    from |-> Len(scimLog), all |-> operations]
  OBVIOUS
<1>2. users \in Seq(UserRow) /\ scimLog \in Seq(LogEntry)
  BY DEF ScimInv
<1>3. users[i] \in UserRow /\ i \in Nat /\ Len(scimLog) \in Nat /\ Len(operations) \in Nat
  BY <1>2
<1>4. n \in PatchRequest /\ ~Creating(n)
  BY <1>1, <1>3 DEF PatchRequest, Creating
<1>5. Logged(n) = 0 /\ Written(n) = 0
  BY <1>1, <1>3 DEF Logged, Written
<1>6. n.alone = TRUE /\ n.stage = "write" /\ n.user = i /\ n.todo = operations /\ n.all = operations /\ n.seen = users[i] /\ n.from = Len(scimLog)
  BY <1>1
<1>7. Len(scimLog) - n.from = Logged(n) /\ Len(n.todo) <= Len(n.all) /\ \A k \in 1..Len(n.todo) : n.todo[k] = n.all[Logged(n) + k]
  BY <1>3, <1>5, <1>6
<1>8. \A k \in 1..Written(n) : FALSE
  BY <1>5
<1>9. PatchFollows(n, users, scimLog)
  BY <1>6, <1>7, <1>8 DEF PatchFollows
<1> QED
  BY <1>1, <1>4, <1>6, <1>9, BeginningKeeps DEF Begin, ScimStands

LEMMA WritableIs == \A op \in Operation : Writable(op) \in Operation
<1> SUFFICES ASSUME NEW op \in Operation PROVE Writable(op) \in Operation
  OBVIOUS
<1>1. [op EXCEPT !.email = <<>>] \in Operation
  BY DEF Operation, MaybeEmail
<1> QED
  BY <1>1 DEF Writable

LEMMA ScimPatchKeeps ==
  ASSUME ScimInv, NEW c \in ScimClients, NEW i \in DOMAIN users, NEW operations \in Patches, scim_patch_user(c, i, operations)
  PROVE  ScimInv'
<1>1. operations \in Seq(Operation)
  BY ScimAssumption DEF Operation, MaybeActive, MaybeEmail
<1>2. [k \in DOMAIN operations |-> Writable(operations[k])] \in Seq(Operation)
  <2>1. \A k \in 1..Len(operations) : Writable(operations[k]) \in Operation
    BY <1>1, WritableIs
  <2> QED
    BY <1>1, <2>1
<1> QED
  BY <1>2, ScimBeginKeeps DEF scim_patch_user

LEMMA ScimPutKeeps ==
  ASSUME ScimInv, NEW c \in ScimClients, NEW i \in DOMAIN users, NEW email \in Emails, NEW active \in BOOLEAN,
         scim_update_user(c, i, email, active)
  PROVE  ScimInv'
<1>1. PICK op : op = [active |-> <<active>>, email |-> <<email>>]
  OBVIOUS
<1>2. op \in Operation
  BY <1>1 DEF Operation, MaybeActive, MaybeEmail
<1>3. <<op>> \in Seq(Operation)
  BY <1>2
<1> QED
  BY <1>1, <1>3, ScimBeginKeeps DEF scim_update_user

LEMMA ScimGroupKeeps ==
  ASSUME ScimInv, NEW c \in ScimClients, NEW list \in MemberLists, scim_update_group(c, list)
  PROVE  ScimInv'
<1>1. PICK n : n = [alone |-> TRUE, kind |-> "group", stage |-> "write", list |-> list, loaded |-> DOMAIN groupRows, user |-> TheGroup]
  OBVIOUS
<1>2. list \in Seq(Nat)
  BY ScimAssumption
<1>3. GroupRequest(n) /\ n.loaded = DOMAIN groupRows /\ ~Creating(n)
  BY <1>1, <1>2 DEF GroupRequest, GroupFields, Creating
<1> QED
  BY <1>1, <1>3, BeginningKeeps DEF scim_update_group, ScimStands
-----------------------------------------------------------------------------
\* What a request of a kind has.
LEMMA ScimRequestIs ==
  ASSUME ScimInv, NEW c \in ScimClients
  PROVE  LET r == scimRequests[c]
         IN  /\ r.kind = "create" => r \in CreateRequest
             /\ r.kind = "sso" => r \in SsoRequest
             /\ r.kind = "patch" => /\ r \in PatchRequest /\ r.user \in DOMAIN users /\ (r.stage \in {"refresh", "log"} => r.todo # <<>>)
                                    /\ r.alone => PatchFollows(r, users, scimLog)
             /\ r.kind = "group" => GroupRequest(r) /\ (r.alone /\ r.stage = "write" => r.loaded = DOMAIN groupRows)
<1>1. ScimStands(scimRequests[c], users, groupRows, scimLog)
  BY DEF ScimInv
<1> QED
  BY <1>1, ScimKinds DEF ScimStands

\* A user more, with an email nobody had.
LEMMA InsertedApart ==
  ASSUME ScimInv, NEW email \in Emails, NEW active \in BOOLEAN, ~Taken(email), users' = Inserted(email, active)
  PROVE  /\ users' \in Seq(UserRow) /\ UsersApart(users')
         /\ DOMAIN users \subseteq DOMAIN users' /\ Len(users) + 1 \in DOMAIN users' \ DOMAIN users
<1>1. PICK row : row = [email |-> email, active |-> active]
  OBVIOUS
<1>2. row \in UserRow /\ row.email = email
  BY <1>1 DEF UserRow
<1>3. users \in Seq(UserRow) /\ UsersApart(users) /\ users' = Append(users, row)
  BY <1>1 DEF ScimInv, Inserted
<1>4. \A i \in DOMAIN users : users[i].email # email
  BY DEF Taken, IdOf
<1>5. users' \in Seq(UserRow) /\ \A i \in DOMAIN users' : (i \in DOMAIN users /\ users'[i] = users[i]) \/ (i = Len(users) + 1 /\ users'[i] = row)
  BY <1>2, <1>3, Lengthened
<1>6. UsersApart(users')
  BY <1>2, <1>3, <1>4, <1>5 DEF UsersApart
<1> QED
  BY <1>2, <1>3, <1>5, <1>6

\* A request that may have inserted a user and logs nothing.
LEMMA InsertKeeps ==
  ASSUME ScimInv, NEW c \in ScimClients, NEW email \in Emails, NEW active \in BOOLEAN, ~Taken(email), users' = Inserted(email, active),
         NEW n, scimRequests' = [ScimOverlapped(c) EXCEPT ![c] = n], UNCHANGED <<groupRows, nextMember, scimLog>>,
         n \in CreateRequest \cup SsoRequest, Creating(n) => n.user = Len(users) + 1
  PROVE  ScimInv'
<1>1. PICK entry \in LogEntry : entry.operation = "update_user"
  BY AnEntry
<1>2. ScimStands(n, users', groupRows', scimLog')
  BY DEF ScimStands
<1> QED
  BY <1>1, <1>2, ScimMoves, InsertedApart DEF ScimInv

LEMMA CreatedKeeps ==
  ASSUME ScimInv, NEW c \in ScimClients, create_scim_user(c)
  PROVE  ScimInv'
<1>1. PICK r : r = scimRequests[c]
  OBVIOUS
<1>2. r \in CreateRequest
  BY <1>1, ScimRequestIs DEF create_scim_user
<1>3. CASE Taken(r.email)
  BY <1>1, <1>3, EndingKeeps DEF create_scim_user
<1>4. CASE ~Taken(r.email)
  <2>1. PICK n : n = [r EXCEPT !.stage = "log", !.user = Len(users) + 1]
    OBVIOUS
  <2>2. users \in Seq(UserRow)
    BY DEF ScimInv
  <2>3. n \in CreateRequest /\ n.user = Len(users) + 1
    <3>1. Len(users) + 1 \in Nat
      BY <2>2
    <3> QED
      BY <1>2, <2>1, <3>1 DEF CreateRequest
  <2>4. users' = Inserted(r.email, r.active) /\ UNCHANGED <<groupRows, nextMember, scimLog>>
    BY <1>1, <1>4 DEF create_scim_user
  <2>5. scimRequests' = [ScimOverlapped(c) EXCEPT ![c] = n]
    BY <1>1, <1>4, <2>1 DEF create_scim_user, ScimOverlapped
  <2>6. r.email \in Emails /\ r.active \in BOOLEAN
    BY <1>2 DEF CreateRequest
  <2> QED
    BY <1>4, <2>3, <2>4, <2>5, <2>6, InsertKeeps
<1> QED
  BY <1>3, <1>4

LEMMA ProvisionedKeeps ==
  ASSUME ScimInv, NEW c \in ScimClients, provision_user(c)
  PROVE  ScimInv'
<1>1. PICK r : r = scimRequests[c]
  OBVIOUS
<1>2. r \in SsoRequest
  BY <1>1, ScimRequestIs DEF provision_user
<1>3. CASE Taken(r.email)
  BY <1>1, <1>3, EndingKeeps DEF provision_user
<1>4. CASE ~Taken(r.email)
  <2>1. PICK n : n = [r EXCEPT !.stage = "session"]
    OBVIOUS
  <2>2. n \in SsoRequest /\ ~Creating(n)
    BY <1>2, <2>1 DEF SsoRequest, Creating
  <2>3. users' = Inserted(r.email, TRUE) /\ UNCHANGED <<groupRows, nextMember, scimLog>>
    BY <1>1, <1>4 DEF provision_user
  <2>4. scimRequests' = [ScimOverlapped(c) EXCEPT ![c] = n]
    BY <1>1, <1>4, <2>1 DEF provision_user, ScimGoes, ScimOverlapped
  <2>5. r.email \in Emails
    BY <1>2 DEF SsoRequest
  <2> QED
    BY <1>4, <2>2, <2>3, <2>4, <2>5, InsertKeeps
<1> QED
  BY <1>3, <1>4

LEMMA LogCreatedKeeps ==
  ASSUME ScimInv, NEW c \in ScimClients, LogCreated(c)
  PROVE  ScimInv'
<1>1. PICK r : r = scimRequests[c]
  OBVIOUS
<1>2. r \in CreateRequest /\ Creating(r)
  BY <1>1, ScimRequestIs DEF LogCreated, Creating
<1>3. PICK entry : entry = [operation |-> "create_user", user |-> r.user]
  OBVIOUS
<1>4. entry \in LogEntry /\ entry.user = r.user
  BY <1>2, <1>3 DEF LogEntry, CreateRequest
<1>5. scimLog' = Append(scimLog, entry) /\ UNCHANGED <<users, nextMember>> /\ scimRequests' = [ScimOverlapped(c) EXCEPT ![c] = NoScimRequest]
  BY <1>1, <1>3 DEF LogCreated, log_provisioning, ScimWrites
<1>6. ScimStands(NoScimRequest, users', groupRows', scimLog') /\ ~Creating(NoScimRequest)
  BY DEF ScimStands, Creating, NoScimRequest
<1>7. users' \in Seq(UserRow) /\ UsersApart(users') /\ DOMAIN users \subseteq DOMAIN users' /\ nextMember' \in Nat
  BY <1>5 DEF ScimInv
<1> QED
  BY <1>1, <1>2, <1>4, <1>5, <1>6, <1>7, ScimMoves
-----------------------------------------------------------------------------
\* What an operation makes of a field.
LEMMA GivenIs ==
  ASSUME NEW S, NEW value \in {<<>>} \cup {<<x>> : x \in S}, NEW old \in S
  PROVE  /\ Given(value, old) \in S
         /\ value = <<>> => Given(value, old) = old
         /\ value # <<>> => value = <<Given(value, old)>>
BY DEF Given

LEMMA UpdateIs ==
  ASSUME NEW old \in UserRow, NEW op \in Operation
  PROVE  LET new == update_scim_user(old, op)
         IN  /\ new \in UserRow
             /\ \A field \in UserFields : /\ op[field] = <<>> => new[field] = old[field]
                                          /\ op[field] # <<>> => op[field] = <<new[field]>>
<1>1. old.email \in Emails /\ old.active \in BOOLEAN
  BY DEF UserRow
<1>2. op["email"] \in MaybeEmail /\ op["active"] \in MaybeActive
  BY DEF Operation
<1>3. PICK new : new = update_scim_user(old, op)
  OBVIOUS
<1>4. new = [email |-> Given(op.email, old.email), active |-> Given(op.active, old.active)]
  BY <1>3 DEF update_scim_user
<1>5. /\ new.email \in Emails
      /\ op["email"] = <<>> => new["email"] = old["email"]
      /\ op["email"] # <<>> => op["email"] = <<new["email"]>>
  BY <1>1, <1>2, <1>4, GivenIs DEF MaybeEmail
<1>6. /\ new.active \in BOOLEAN
      /\ op["active"] = <<>> => new["active"] = old["active"]
      /\ op["active"] # <<>> => op["active"] = <<new["active"]>>
  BY <1>1, <1>2, <1>4, GivenIs DEF MaybeActive
<1>7. new \in UserRow
  BY <1>4, <1>5, <1>6 DEF UserRow
<1> QED
  BY <1>3, <1>5, <1>6, <1>7 DEF UserFields

\* What a step of a PATCH stores.
Stored(r) ==
  LET new == update_scim_user(r.seen, Head(r.todo))
  IN  [email |-> IF new.email = r.seen.email THEN users[r.user].email ELSE new.email,
       active |-> IF new.active = r.seen.active THEN users[r.user].active ELSE new.active]

LEMMA StoredIs ==
  ASSUME ScimInv, NEW r \in PatchRequest, r.user \in DOMAIN users, r.todo # <<>>
  PROVE  /\ Stored(r) \in UserRow
         /\ r.seen = users[r.user] => \A field \in UserFields :
              /\ Head(r.todo)[field] = <<>> => Stored(r)[field] = users[r.user][field]
              /\ Head(r.todo)[field] # <<>> => Head(r.todo)[field] = <<Stored(r)[field]>>
<1>1. PICK op \in Operation : op = Head(r.todo)
  BY DEF PatchRequest
<1>2. r.seen \in UserRow
  BY DEF PatchRequest
<1>3. PICK new \in UserRow : new = update_scim_user(r.seen, op)
  BY <1>2, UpdateIs
<1>4. \A field \in UserFields : /\ op[field] = <<>> => new[field] = r.seen[field]
                                /\ op[field] # <<>> => op[field] = <<new[field]>>
  BY <1>2, <1>3, UpdateIs
<1>5. users[r.user] \in UserRow
  BY DEF ScimInv
<1>6. Stored(r) = [email |-> IF new.email = r.seen.email THEN users[r.user].email ELSE new.email,
                   active |-> IF new.active = r.seen.active THEN users[r.user].active ELSE new.active]
  BY <1>1, <1>3 DEF Stored
<1>7. Stored(r) \in UserRow
  BY <1>3, <1>5, <1>6 DEF UserRow
<1>8. ASSUME r.seen = users[r.user] PROVE \A field \in UserFields : Stored(r)[field] = new[field]
  BY <1>6, <1>8 DEF UserFields
<1> QED
  BY <1>1, <1>4, <1>7, <1>8

\* The user is what the operations that were written say, the one just written with them.
LEMMA StepFollows ==
  ASSUME ScimInv, NEW r \in PatchRequest, r.user \in DOMAIN users, r.todo # <<>>, r.stage = "write", PatchFollows(r, users, scimLog),
         NEW n \in PatchRequest, n = [r EXCEPT !.stage = "refresh", !.seen = Stored(r)],
         users' = [users EXCEPT ![r.user] = Stored(r)]
  PROVE  PatchFollows(n, users', scimLog)
<1>1. /\ n.stage = "refresh" /\ n.seen = Stored(r) /\ n.user = r.user /\ n.todo = r.todo /\ n.from = r.from /\ n.all = r.all
  BY DEF PatchRequest
<1>2. Len(r.todo) \in Nat \ {0} /\ Len(r.all) \in Nat /\ Len(r.todo) <= Len(r.all) /\ r.todo \in Seq(Operation)
  BY DEF PatchFollows, PatchRequest
<1>3. Logged(n) = Logged(r) /\ Written(r) = Logged(r) /\ Written(n) = Logged(r) + 1 /\ Logged(r) \in Nat
  BY <1>1, <1>2 DEF Logged, Written
<1>4. users'[r.user] = Stored(r)
  BY DEF ScimInv
<1>5. r.all[Logged(r) + 1] = Head(r.todo)
  BY <1>2, <1>3 DEF PatchFollows
<1>6. r.seen = users[r.user]
  BY DEF PatchFollows
<1>7. ASSUME NEW k \in 1..Written(n), NEW field \in UserFields, r.all[k][field] # <<>>,
             \A l \in (k + 1)..Written(n) : r.all[l][field] = <<>>
      PROVE  r.all[k][field] = <<users'[r.user][field]>>
  <2>1. CASE k = Logged(r) + 1
    BY <1>4, <1>5, <1>6, <1>7, <2>1, StoredIs
  <2>2. CASE k # Logged(r) + 1
    <3>1. k \in 1..Written(r) /\ Logged(r) + 1 \in (k + 1)..Written(n) /\ \A l \in (k + 1)..Written(r) : l \in (k + 1)..Written(n)
      BY <1>3, <2>2
    <3>2. r.all[k][field] = <<users[r.user][field]>>
      BY <1>7, <3>1 DEF PatchFollows
    <3>3. Head(r.todo)[field] = <<>>
      BY <1>5, <1>7, <3>1
    <3> QED
      BY <1>4, <1>6, <3>2, <3>3, StoredIs
  <2> QED
    BY <2>1, <2>2
<1>8. \A k \in 1..Len(n.todo) : n.todo[k] = n.all[Logged(n) + k]
  BY <1>1, <1>3 DEF PatchFollows
<1>9. Len(n.todo) <= Len(n.all) /\ Len(scimLog) - n.from = Logged(n) /\ n.seen = users'[n.user]
  BY <1>1, <1>3, <1>4 DEF PatchFollows
<1> QED
  BY <1>1, <1>7, <1>8, <1>9 DEF PatchFollows

LEMMA PatchStepKeeps ==
  ASSUME ScimInv, NEW c \in ScimClients, PatchStep(c)
  PROVE  ScimInv'
<1>1. PICK r : r = scimRequests[c]
  OBVIOUS
<1>2. /\ r \in PatchRequest /\ r.user \in DOMAIN users /\ r.todo # <<>> /\ r.stage = "write"
      /\ r.alone => PatchFollows(r, users, scimLog)
  BY <1>1, ScimRequestIs DEF PatchStep
<1>3. /\ UNCHANGED <<groupRows, nextMember, scimLog>>
      /\ \/ ScimEnds(c) /\ UNCHANGED users
         \/ /\ IdOf(Stored(r).email) \ {r.user} = {} /\ users' = [users EXCEPT ![r.user] = Stored(r)]
            /\ scimRequests' = [ScimOverlapped(c) EXCEPT ![c].stage = "refresh", ![c].seen = Stored(r)]
  BY <1>1 DEF PatchStep, Stored
<1>4. CASE ScimEnds(c) /\ UNCHANGED users
  BY <1>3, <1>4, EndingKeeps
<1>5. CASE /\ IdOf(Stored(r).email) \ {r.user} = {} /\ users' = [users EXCEPT ![r.user] = Stored(r)]
           /\ scimRequests' = [ScimOverlapped(c) EXCEPT ![c].stage = "refresh", ![c].seen = Stored(r)]
  <2>1. Stored(r) \in UserRow
    BY <1>2, StoredIs
  <2>2. PICK n : n = [r EXCEPT !.stage = "refresh", !.seen = Stored(r)]
    OBVIOUS
  <2>3. n \in PatchRequest /\ ~Creating(n) /\ n.user = r.user /\ n.todo = r.todo /\ n.alone = r.alone
    BY <1>2, <2>1, <2>2 DEF PatchRequest, Creating
  <2>4. scimRequests' = [ScimOverlapped(c) EXCEPT ![c] = n]
    BY <1>1, <1>5, <2>2 DEF ScimOverlapped
  <2>5. users \in Seq(UserRow) /\ UsersApart(users) /\ nextMember' \in Nat
    BY <1>3 DEF ScimInv
  <2>6. users' \in Seq(UserRow) /\ DOMAIN users' = DOMAIN users /\ \A i \in DOMAIN users : users'[i] = IF i = r.user THEN Stored(r) ELSE users[i]
    BY <1>2, <1>5, <2>1, <2>5
  <2>7. UsersApart(users')
    <3>1. \A i \in DOMAIN users \ {r.user} : users[i].email # Stored(r).email
      BY <1>5 DEF IdOf
    <3> QED
      BY <2>5, <2>6, <3>1 DEF UsersApart
  <2>8. n.alone => PatchFollows(n, users', scimLog')
    BY <1>2, <1>3, <1>5, <2>2, <2>3, StepFollows
  <2>9. ScimStands(n, users', groupRows', scimLog')
    BY <1>2, <2>3, <2>6, <2>8 DEF ScimStands
  <2>10. PICK entry \in LogEntry : entry.operation = "update_user"
    BY AnEntry
  <2> QED
    BY <1>3, <2>3, <2>4, <2>5, <2>6, <2>7, <2>9, <2>10, ScimMoves
<1> QED
  BY <1>3, <1>4, <1>5

\* The log of a step: one operation less to do, one more logged.
LEMMA LogFollows ==
  ASSUME ScimInv, NEW r \in PatchRequest, r.todo # <<>>, r.stage = "log", PatchFollows(r, users, scimLog),
         NEW n \in PatchRequest, n = [r EXCEPT !.stage = "write", !.todo = Tail(r.todo)],
         NEW log \in Seq(LogEntry), Len(log) = Len(scimLog) + 1
  PROVE  PatchFollows(n, users, log)
<1>1. n.stage = "write" /\ n.seen = r.seen /\ n.user = r.user /\ n.todo = Tail(r.todo) /\ n.from = r.from /\ n.all = r.all
  BY DEF PatchRequest
<1>2. Len(r.todo) \in Nat \ {0} /\ Len(r.all) \in Nat /\ Len(r.todo) <= Len(r.all) /\ r.todo \in Seq(Operation) /\ r.from \in Nat
  BY DEF PatchFollows, PatchRequest
<1>3. Len(n.todo) = Len(r.todo) - 1 /\ \A k \in 1..Len(n.todo) : n.todo[k] = r.todo[k + 1] /\ k + 1 \in 1..Len(r.todo)
  BY <1>1, <1>2
<1>4. Logged(n) = Logged(r) + 1 /\ Written(n) = Written(r) /\ Logged(r) \in Nat
  <2>1. PICK a \in Nat, t \in Nat \ {0} : a = Len(r.all) /\ t = Len(r.todo) /\ t <= a
    BY <1>2
  <2>2. Logged(r) = a - t
    BY <2>1 DEF Logged
  <2>3. Logged(n) = a - (t - 1)
    BY <1>1, <1>3, <2>1 DEF Logged
  <2>4. Logged(n) = Logged(r) + 1 /\ Logged(r) \in Nat
    BY <2>1, <2>2, <2>3
  <2> QED
    BY <1>1, <2>4 DEF Written
<1>5. \A k \in 1..Len(n.todo) : n.todo[k] = n.all[Logged(n) + k]
  <2> SUFFICES ASSUME NEW k \in 1..Len(n.todo) PROVE n.todo[k] = n.all[Logged(n) + k]
    OBVIOUS
  <2>1. n.todo[k] = r.all[Logged(r) + (k + 1)]
    BY <1>3 DEF PatchFollows
  <2>2. Logged(r) + (k + 1) = Logged(n) + k
    BY <1>2, <1>3, <1>4
  <2> QED
    BY <1>1, <2>1, <2>2
<1>6. Len(scimLog) \in Nat /\ Len(scimLog) - r.from = Logged(r)
  BY DEF ScimInv, PatchFollows
<1>7. Len(log) - n.from = Logged(n)
  BY <1>1, <1>2, <1>4, <1>6
<1>8. Len(n.todo) <= Len(n.all)
  BY <1>1, <1>2, <1>3
<1>9. n.seen = users[n.user] /\ \A k \in 1..Written(n), field \in UserFields :
        (n.all[k][field] # <<>> /\ \A l \in (k + 1)..Written(n) : n.all[l][field] = <<>>) => n.all[k][field] = <<users[n.user][field]>>
  BY <1>1, <1>4 DEF PatchFollows
<1> QED
  BY <1>5, <1>7, <1>8, <1>9 DEF PatchFollows

LEMMA PatchRefreshKeeps ==
  ASSUME ScimInv, NEW c \in ScimClients, PatchRefresh(c)
  PROVE  ScimInv'
<1>1. PICK r : r = scimRequests[c]
  OBVIOUS
<1>2. /\ r \in PatchRequest /\ r.user \in DOMAIN users /\ r.todo # <<>> /\ r.stage = "refresh"
      /\ r.alone => PatchFollows(r, users, scimLog)
  BY <1>1, ScimRequestIs DEF PatchRefresh
<1>3. users[r.user] \in UserRow
  BY <1>2 DEF ScimInv
<1>4. PICK n : n = [r EXCEPT !.stage = "log", !.seen = users[r.user]]
  OBVIOUS
<1>5. /\ n \in PatchRequest /\ n.stage = "log" /\ n.seen = users[r.user] /\ ~Creating(n)
      /\ n.user = r.user /\ n.todo = r.todo /\ n.all = r.all /\ n.from = r.from /\ n.alone = r.alone
  BY <1>2, <1>3, <1>4 DEF PatchRequest, Creating
<1>6. Logged(n) = Logged(r) /\ Written(n) = Written(r)
  BY <1>2, <1>5 DEF Logged, Written
<1>7. n.alone => PatchFollows(n, users, scimLog)
  BY <1>2, <1>5, <1>6 DEF PatchFollows
<1>8. ScimStands(n, users, groupRows, scimLog)
  BY <1>2, <1>5, <1>7 DEF ScimStands
<1>9. scimRequests' = [scimRequests EXCEPT ![c] = n] /\ UNCHANGED <<users, groupRows, nextMember, scimLog>>
  BY <1>1, <1>4 DEF PatchRefresh, ScimInv
<1> QED
  BY <1>5, <1>8, <1>9, OnlyItself

LEMMA PatchLogKeeps ==
  ASSUME ScimInv, NEW c \in ScimClients, PatchLog(c)
  PROVE  ScimInv'
<1>1. PICK r : r = scimRequests[c]
  OBVIOUS
<1>2. /\ r \in PatchRequest /\ r.user \in DOMAIN users /\ r.todo # <<>> /\ r.stage = "log"
      /\ r.alone => PatchFollows(r, users, scimLog)
  BY <1>1, ScimRequestIs DEF PatchLog
<1>3. PICK operation \in {"update_user", "deactivate_user"} : log_provisioning(c, operation)
  BY DEF PatchLog
<1>4. PICK entry : entry = [operation |-> operation, user |-> r.user]
  OBVIOUS
<1>5. entry \in LogEntry /\ entry.operation # "create_user"
  BY <1>2, <1>3, <1>4 DEF LogEntry, PatchRequest
<1>6. scimLog' = Append(scimLog, entry)
  BY <1>1, <1>3, <1>4 DEF log_provisioning
<1>7. PICK n : n = [r EXCEPT !.stage = "write", !.todo = Tail(r.todo)]
  OBVIOUS
<1>8. n \in PatchRequest /\ n.user = r.user /\ n.stage = "write" /\ n.alone = r.alone /\ ~Creating(n)
  <2>1. Tail(r.todo) \in Seq(Operation)
    BY <1>2 DEF PatchRequest
  <2>2. n \in PatchRequest /\ n.user = r.user /\ n.stage = "write" /\ n.alone = r.alone
    BY <1>2, <1>7, <2>1 DEF PatchRequest
  <2> QED
    BY <2>2 DEF Creating
<1>9. scimRequests' = [ScimOverlapped(c) EXCEPT ![c] = n] /\ UNCHANGED <<users, groupRows, nextMember>>
  BY <1>1, <1>7 DEF PatchLog, ScimOverlapped
<1>10. users' \in Seq(UserRow) /\ UsersApart(users') /\ DOMAIN users \subseteq DOMAIN users' /\ nextMember' \in Nat
  BY <1>9 DEF ScimInv
<1>11. scimLog \in Seq(LogEntry) /\ scimLog' \in Seq(LogEntry) /\ Len(scimLog') = Len(scimLog) + 1
  BY <1>5, <1>6 DEF ScimInv
<1>12. n.alone => PatchFollows(n, users', scimLog')
  <2>1. r.alone => PatchFollows(n, users, scimLog')
    BY <1>2, <1>7, <1>8, <1>11, LogFollows
  <2> QED
    BY <1>8, <1>9, <2>1
<1>13. ScimStands(n, users', groupRows', scimLog')
  BY <1>2, <1>8, <1>9, <1>12 DEF ScimStands
<1> QED
  BY <1>5, <1>6, <1>8, <1>9, <1>10, <1>13, ScimMoves

LEMMA GroupWrittenKeeps ==
  ASSUME ScimInv, NEW c \in ScimClients, update_scim_group(c)
  PROVE  ScimInv'
<1>1. PICK r : r = scimRequests[c]
  OBVIOUS
<1>2. GroupRequest(r)
  BY <1>1, ScimRequestIs DEF update_scim_group
<1>3. CASE ~(Range(r.list) \subseteq DOMAIN users)
  BY <1>1, <1>3, EndingKeeps DEF update_scim_group
<1>4. CASE Range(r.list) \subseteq DOMAIN users
  <2>1. PICK n : n = [r EXCEPT !.stage = "log"]
    OBVIOUS
  <2>2. GroupRequest(n) /\ n.stage = "log" /\ ~Creating(n)
    BY <1>2, <2>1 DEF GroupRequest, GroupFields, Creating
  <2>3. nextMember' = nextMember + Len(r.list) /\ scimRequests' = [ScimOverlapped(c) EXCEPT ![c] = n] /\ UNCHANGED <<users, scimLog>>
    BY <1>1, <1>4, <2>1 DEF update_scim_group, ScimGoes, ScimOverlapped
  <2>4. users' \in Seq(UserRow) /\ UsersApart(users') /\ DOMAIN users \subseteq DOMAIN users' /\ nextMember' \in Nat
    BY <1>2, <2>3 DEF ScimInv, GroupRequest
  <2>5. ScimStands(n, users', groupRows', scimLog')
    BY <2>2 DEF ScimStands
  <2>6. PICK entry \in LogEntry : entry.operation = "update_user"
    BY AnEntry
  <2> QED
    BY <2>2, <2>3, <2>4, <2>5, <2>6, ScimMoves
<1> QED
  BY <1>3, <1>4

LEMMA LogGroupKeeps ==
  ASSUME ScimInv, NEW c \in ScimClients, LogGroup(c)
  PROVE  ScimInv'
<1>1. PICK r : r = scimRequests[c]
  OBVIOUS
<1>2. r.user = TheGroup
  BY <1>1, ScimRequestIs DEF LogGroup, GroupRequest
<1>3. PICK entry : entry = [operation |-> "update_group", user |-> r.user]
  OBVIOUS
<1>4. entry \in LogEntry /\ entry.operation # "create_user"
  BY <1>2, <1>3 DEF LogEntry, TheGroup
<1>5. scimLog' = Append(scimLog, entry) /\ UNCHANGED <<users, nextMember>> /\ scimRequests' = [ScimOverlapped(c) EXCEPT ![c] = NoScimRequest]
  BY <1>1, <1>3 DEF LogGroup, log_provisioning, ScimWrites
<1>6. ScimStands(NoScimRequest, users', groupRows', scimLog') /\ ~Creating(NoScimRequest)
  BY DEF ScimStands, Creating, NoScimRequest
<1>7. users' \in Seq(UserRow) /\ UsersApart(users') /\ DOMAIN users \subseteq DOMAIN users' /\ nextMember' \in Nat
  BY <1>5 DEF ScimInv
<1> QED
  BY <1>4, <1>5, <1>6, <1>7, ScimMoves

LEMMA NextScim == ScimInv /\ [ScimNext]_scimVars => ScimInv'
<1> SUFFICES ASSUME ScimInv, [ScimNext]_scimVars PROVE ScimInv'
  OBVIOUS
<1>1. CASE UNCHANGED scimVars
  BY <1>1 DEF scimVars, ScimInv, CreatorsApart, Creating, LoggedOnce, UsersApart
<1>2. ASSUME NEW c \in ScimClients, NEW email \in Emails,
             handle_sso_callback(c, email) \/ \E active \in BOOLEAN : scim_create_user(c, email, active)
      PROVE  ScimInv'
  BY <1>2, ScimCreateKeeps
<1>3. ASSUME NEW c \in ScimClients, OpenSession(c) \/ PatchEnds(c) PROVE ScimInv'
  BY <1>3, EndingKeeps DEF OpenSession, PatchEnds
<1> QED
  BY <1>1, <1>2, <1>3, ScimPutKeeps, ScimPatchKeeps, ScimGroupKeeps, CreatedKeeps, LogCreatedKeeps, ProvisionedKeeps, PatchStepKeeps,
     PatchRefreshKeeps, PatchLogKeeps, GroupWrittenKeeps, LogGroupKeeps DEF ScimNext

\* What a group that nothing overlapped holds afterwards.
LEMMA GroupAsAsked ==
  ASSUME ScimInv, NEW c \in ScimClients, update_scim_group(c), scimRequests[c].alone, Range(scimRequests[c].list) \subseteq DOMAIN users
  PROVE  /\ Cardinality(DOMAIN groupRows') = Len(scimRequests[c].list)
         /\ {groupRows'[id] : id \in DOMAIN groupRows'} = Range(scimRequests[c].list)
<1>1. PICK r : r = scimRequests[c]
  OBVIOUS
<1>2. GroupRequest(r) /\ r.loaded = DOMAIN groupRows
  BY <1>1, ScimRequestIs DEF update_scim_group
<1>3. PICK list \in Seq(Nat) : list = r.list
  BY <1>2 DEF GroupRequest
<1>4. nextMember \in Nat /\ Len(list) \in Nat
  BY <1>3 DEF ScimInv
<1>5. PICK new : new = (nextMember + 1)..(nextMember + Len(list))
  OBVIOUS
<1>6. groupRows' = [id \in (DOMAIN groupRows \ r.loaded) \cup new |-> IF id \in new THEN list[id - nextMember] ELSE groupRows[id]]
  BY <1>1, <1>3, <1>5 DEF update_scim_group, Replaced
<1>7. DOMAIN groupRows' = new /\ \A id \in new : groupRows'[id] = list[id - nextMember]
  BY <1>2, <1>6
<1>8. Cardinality(new) = Len(list)
  <2>1. PICK a \in Int, b \in Int : a = nextMember + 1 /\ b = nextMember + Len(list)
    BY <1>4
  <2>2. Cardinality(a..b) = IF a > b THEN 0 ELSE b - a + 1
    BY FS_Interval
  <2> QED
    BY <1>4, <1>5, <2>1, <2>2
<1>9. {groupRows'[id] : id \in DOMAIN groupRows'} = Range(list)
  <2>1. \A id \in new : id - nextMember \in DOMAIN list
    BY <1>4, <1>5
  <2>2. \A i \in DOMAIN list : i + nextMember \in new /\ (i + nextMember) - nextMember = i
    BY <1>4, <1>5
  <2> QED
    BY <1>7, <2>1, <2>2 DEF Range
<1> QED
  BY <1>1, <1>3, <1>7, <1>8, <1>9

\* What a PATCH that nothing overlapped leaves.
LEMMA PatchAsAsked ==
  ASSUME ScimInv, NEW c \in ScimClients, PatchEnds(c), scimRequests[c].alone
  PROVE  LET r == scimRequests[c]
         IN  /\ Len(scimLog) - r.from = Len(r.all)
             /\ \A k \in DOMAIN r.all, field \in {"active", "email"} :
                  (r.all[k][field] # <<>> /\ \A l \in (k + 1)..Len(r.all) : r.all[l][field] = <<>>)
                  => r.all[k][field] = <<users[r.user][field]>>
<1>1. PICK r : r = scimRequests[c]
  OBVIOUS
<1>2. r \in PatchRequest /\ PatchFollows(r, users, scimLog) /\ r.todo = <<>> /\ r.stage = "write"
  BY <1>1, ScimRequestIs DEF PatchEnds
<1>3. r.all \in Seq(Operation)
  BY <1>2 DEF PatchRequest
<1>4. Logged(r) = Len(r.all) /\ Written(r) = Len(r.all) /\ DOMAIN r.all = 1..Len(r.all)
  BY <1>2, <1>3 DEF Logged, Written
<1> QED
  BY <1>1, <1>2, <1>4 DEF PatchFollows, UserFields

\* However the requests of the identity provider, of users signing on and of renaming
\* overlap: a request that was alone does what it was sent, and no user exists or is
\* logged as created twice (services/scim.py, services/sso.py).
THEOREM ScimAsAskedAlways == ScimSpec => ScimAsAsked
<1>1. ProvisioningInit => ScimInv
  BY InitScim
<1>2. ScimInv /\ [ScimNext]_scimVars => ScimInv'
  BY NextScim
<1>3. ScimInv => RequestsAsAsked
  BY GroupAsAsked, PatchAsAsked DEF RequestsAsAsked
<1>4. ScimInv => UsersCreatedOnce
  BY DEF ScimInv, UsersApart, LoggedOnce, UsersCreatedOnce
<1> QED
  BY <1>1, <1>2, <1>3, <1>4, PTL DEF ScimSpec, ScimAsAsked

-------------------------------------------------------------------------------
(* Frames: rows and the schema inferred from them.                          *)

\* A value that looks like one of a type.
LooksLike(type, v) ==
  \/ type = "text"
  \/ type = "boolean" /\ _looks_like_boolean(v)
  \/ type = "integer" /\ _looks_like_integer(v)
  \/ type = "number" /\ _looks_like_number(v)
  \/ type = "datetime" /\ _looks_like_datetime(v)
  \/ type = "date" /\ _looks_like_date(v)

\* A type whose values are all coerced to it, once and for all, but for a text that
\* reads as NaN.
Settles(type, v) ==
  /\ Coerce(type, v) # Error
  /\ Coerce(type, v) = Null <=> type = "number" /\ IsNan(v)
  /\ Coerce(type, v) # Null => Coerce(type, Coerce(type, v)) = Coerce(type, v)
  /\ type = "text" => Str(Coerce(type, v)) = Str(v)

\* The types that are inferred.
LEMMA InferredType == ASSUME NEW values, NEW v \in values PROVE LooksLike(_infer_column_type(values), v)
BY DEF _infer_column_type, LooksLike

LEMMA ValueKinds ==
  ASSUME NEW v \in FrameValues, v # Null
  PROVE  \/ v[1] \in {"int", "float"} /\ v[2] \in Int
         \/ v[1] = "bool" /\ v[2] \in BOOLEAN /\ v = <<"bool", v[2]>>
         \/ v[1] = "text" /\ v[2] \in STRING
BY DEF FrameValues

LEMMA NumberIs ==
  ASSUME NEW v \in FrameValues, v # Null, IsNumber(v)
  PROVE  Num(v) \in Int
<1>1. v[1] \in {"int", "float"} /\ v[2] \in Int
  BY ValueKinds DEF IsNumber
<1> QED
  BY <1>1 DEF Num

\* What numbers, texts and booleans become.
LEMMA IntegerSettles == \A n \in Int : Coerce("integer", <<"int", n>>) = <<"int", n>>
<1> TAKE n \in Int
<1>1. IsNumber(<<"int", n>>) /\ Num(<<"int", n>>) = 2 * n
  BY DEF IsNumber, Num
<1>2. (2 * n) % 2 = 0 /\ (2 * n) \div 2 = n
  OBVIOUS
<1> QED
  BY <1>1, <1>2 DEF Coerce, IsText

LEMMA NumberSettles == \A n \in Int : Coerce("number", <<"float", n>>) = <<"float", n>>
<1> TAKE n \in Int
<1>1. IsNumber(<<"float", n>>) /\ Num(<<"float", n>>) = n
  BY DEF IsNumber, Num
<1> QED
  BY <1>1 DEF Coerce, IsText, IsNan

LEMMA BooleanSettles == \A b : Coerce("boolean", <<"bool", b>>) = <<"bool", b>>
BY DEF Coerce, IsText, IsNumber

LEMMA LooksSettle ==
  ASSUME NEW v \in FrameValues, v # Null, NEW type, LooksLike(type, v)
  PROVE  Settles(type, v)
<1>1. CASE type = "text"
  <2>1. Coerce(type, v) = <<"text", Str(v)>>
    BY <1>1 DEF Coerce
  <2>2. Str(<<"text", Str(v)>>) = Str(v)
    BY DEF Str
  <2>3. Coerce(type, <<"text", Str(v)>>) = <<"text", Str(<<"text", Str(v)>>)>>
    BY <1>1 DEF Coerce
  <2> HIDE DEF Str
  <2>4. <<"text", Str(v)>> \notin {Error, Null}
    BY DEF Error, Null
  <2> QED
    BY <1>1, <2>1, <2>2, <2>3, <2>4 DEF Settles
<1>2. CASE type = "boolean"
  <2>1. \E b : Coerce(type, v) = <<"bool", b>>
    <3>1. _looks_like_boolean(v)
      BY <1>2 DEF LooksLike
    <3>2. CASE v[1] = "bool"
      <4>1. v = <<"bool", v[2]>>
        BY <3>2, ValueKinds
      <4>2. Coerce(type, v) = v
        BY <1>2, <3>2 DEF Coerce, IsText, IsNumber
      <4> QED
        BY <4>1, <4>2
    <3>3. CASE v[1] # "bool" /\ IsNumber(v) /\ Num(v) \in {0, 2}
      BY <1>2, <3>3 DEF Coerce
    <3>4. CASE v[1] # "bool" /\ ~(IsNumber(v) /\ Num(v) \in {0, 2}) /\ IsText(v, TextBool)
      BY <1>2, <3>4 DEF Coerce
    <3> QED
      BY <3>1, <3>2, <3>3, <3>4 DEF _looks_like_boolean
  <2>2. PICK b : Coerce(type, v) = <<"bool", b>>
    BY <2>1
  <2>3. <<"bool", b>> \notin {Error, Null}
    BY DEF Error, Null
  <2> QED
    BY <1>2, <2>2, <2>3, BooleanSettles DEF Settles
<1>3. CASE type = "integer"
  <2>1. \E n \in Int : Coerce(type, v) = <<"int", n>>
    <3>1. _looks_like_integer(v)
      BY <1>3 DEF LooksLike
    <3>2. CASE IsNumber(v) /\ Num(v) % 2 = 0
      <4>1. Coerce(type, v) = <<"int", Num(v) \div 2>>
        BY <1>3, <3>2 DEF Coerce, IsText, IsNumber
      <4>2. Num(v) \div 2 \in Int
        BY <3>2, NumberIs
      <4> QED
        BY <4>1, <4>2
    <3>3. CASE ~(IsNumber(v) /\ Num(v) % 2 = 0) /\ IsText(v, TextNumber) /\ TextNumber[v[2]] % 2 = 0
      <4>1. Coerce(type, v) = <<"int", TextNumber[v[2]] \div 2>>
        BY <1>3, <3>3 DEF Coerce
      <4>2. TextNumber[v[2]] \in Int
        BY <3>3, TextsAssumption DEF TextsAssumption, IsText
      <4> QED
        BY <4>1, <4>2
    <3> QED
      BY <3>1, <3>2, <3>3 DEF _looks_like_integer
  <2>2. PICK n \in Int : Coerce(type, v) = <<"int", n>>
    BY <2>1
  <2>3. <<"int", n>> \notin {Error, Null}
    BY DEF Error, Null
  <2> QED
    BY <1>3, <2>2, <2>3, IntegerSettles DEF Settles
<1>4. CASE type = "number" /\ ~IsNan(v)
  <2>1. ~IsNan(v)
    BY <1>4
  <2>2. \E n \in Int : Coerce(type, v) = <<"float", n>>
    <3>1. _looks_like_number(v) /\ type = "number"
      BY <1>4 DEF LooksLike
    <3>2. CASE IsNumber(v)
      BY <1>4, <3>2, NumberIs DEF Coerce, IsText, IsNumber
    <3>3. CASE ~IsNumber(v) /\ IsText(v, TextNumber)
      <4>1. Coerce(type, v) = <<"float", TextNumber[v[2]]>>
        BY <1>4, <3>3 DEF Coerce
      <4> QED
        BY <3>3, <4>1, TextsAssumption DEF TextsAssumption, IsText
    <3> QED
      BY <2>1, <3>1, <3>2, <3>3 DEF _looks_like_number
  <2>3. PICK n \in Int : Coerce(type, v) = <<"float", n>>
    BY <2>2
  <2>4. <<"float", n>> \notin {Error, Null}
    BY DEF Error, Null
  <2> QED
    BY <1>4, <2>1, <2>3, <2>4, NumberSettles DEF Settles
<1>5. CASE type = "datetime"
  <2>1. IsText(v, TextInstant)
    BY <1>5 DEF LooksLike, _looks_like_datetime
  <2> DEFINE t == TextInstant[v[2]]
  <2>2. Coerce(type, v) = <<"text", t>>
    BY <1>5, <2>1 DEF Coerce
  <2>3. Coerce(type, <<"text", t>>) = <<"text", t>>
    BY <1>5, <2>1, TextsAssumption DEF TextsAssumption, Coerce, IsText
  <2> HIDE DEF t
  <2>4. <<"text", t>> \notin {Error, Null}
    BY DEF Error, Null
  <2> QED
    BY <1>5, <2>2, <2>3, <2>4 DEF Settles
<1>6. CASE type = "date"
  <2>1. IsText(v, TextDate)
    BY <1>6 DEF LooksLike, _looks_like_date
  <2> DEFINE t == TextDate[v[2]]
  <2>2. Coerce(type, v) = <<"text", t>>
    BY <1>6, <2>1 DEF Coerce
  <2>3. Coerce(type, <<"text", t>>) = <<"text", t>>
    BY <1>6, <2>1, TextsAssumption DEF TextsAssumption, Coerce, IsText
  <2> HIDE DEF t
  <2>4. <<"text", t>> \notin {Error, Null}
    BY DEF Error, Null
  <2> QED
    BY <1>6, <2>2, <2>3, <2>4 DEF Settles
<1>7. CASE type = "number" /\ IsNan(v)
  <2>1. ~IsNumber(v) /\ ~IsText(v, TextNumber)
    BY <1>7, TextsAssumption DEF TextsAssumption, IsNan, IsNumber, IsText
  <2>2. Coerce(type, v) = Null
    BY <1>7, <2>1 DEF Coerce
  <2>3. Null # Error
    BY DEF Null, Error
  <2> QED
    BY <1>7, <2>2, <2>3 DEF Settles
<1> QED
  BY <1>1, <1>2, <1>3, <1>4, <1>5, <1>6, <1>7 DEF LooksLike

\* Every value of rows is coerced to the column that is inferred for it, whatever the
\* other rows hold there.
LEMMA ColumnSettles ==
  ASSUME NEW stored, \A i \in DOMAIN stored : \A column : Get(stored[i], column) \in FrameValues,
         NEW i \in DOMAIN stored, NEW column \in ColumnsOf(stored)
  PROVE  LET inferred == _infer_schema_definition_from_records(stored)[column]
             v == Get(stored[i], column)
             once == _coerce_value_for_column(inferred, v)
         IN /\ once # Error
            /\ (v # Null /\ once = Null) <=> (inferred.data_type = "number" /\ IsNan(v))
            /\ ~(v # Null /\ once = Null) => _coerce_value_for_column(inferred, once) = once
            /\ (v # Null /\ once = Null) => (_coerce_value_for_column(inferred, once) = Error <=> ~inferred.nullable)
            /\ (inferred.data_type = "text" /\ once # Null) => Str(once) = Str(v)
<1> DEFINE values == ValuesIn(stored, column)
           type == _infer_column_type(values \ {Null})
           inferred == _infer_schema_definition_from_records(stored)[column]
<1>1. inferred.data_type = type /\ inferred.nullable = (Null \in values)
  BY DEF _infer_schema_definition_from_records
<1>2. PICK v : v = Get(stored[i], column)
  OBVIOUS
<1>3. v \in values /\ v \in FrameValues
  BY <1>2 DEF ValuesIn
<1> HIDE DEF inferred, type, values
<1>4. CASE v = Null
  <2>1. _coerce_value_for_column(inferred, v) = Null
    BY <1>1, <1>3, <1>4 DEF _coerce_value_for_column
  <2>2. Null # Error /\ ~IsNan(Null)
    BY DEF Null, Error, IsNan
  <2> QED
    BY <1>2, <1>4, <2>1, <2>2 DEF inferred
<1>5. CASE v # Null
  <2>1. Settles(type, v)
    <3>1. LooksLike(type, v)
      BY <1>3, <1>5, InferredType DEF type
    <3> QED
      BY <1>3, <1>5, <3>1, LooksSettle
  <2>2. PICK once : once = Coerce(type, v)
    OBVIOUS
  <2>3. /\ once # Error /\ (once = Null <=> type = "number" /\ IsNan(v))
        /\ (once # Null => Coerce(type, once) = once) /\ (type = "text" => Str(once) = Str(v))
    BY <2>1, <2>2 DEF Settles
  <2>4. _coerce_value_for_column(inferred, v) = once
    BY <1>1, <1>5, <2>2 DEF _coerce_value_for_column
  <2>5. once # Null => _coerce_value_for_column(inferred, once) = once
    BY <1>1, <2>3 DEF _coerce_value_for_column
  <2>6. once = Null => (_coerce_value_for_column(inferred, once) = Error <=> ~inferred.nullable)
    <3>1. Null # Error
      BY DEF Null, Error
    <3> QED
      BY <3>1 DEF _coerce_value_for_column
  <2> QED
    BY <1>1, <1>2, <1>5, <2>3, <2>4, <2>5, <2>6 DEF inferred
<1> QED
  BY <1>4, <1>5

\* What the rows that were coerced to the inferred schema are.
RowsFit(stored, once, schema) ==
  LET Lost(i, column) == Get(stored[i], column) # Null /\ once[i][column] = Null
  IN /\ \A i \in DOMAIN once, column \in DOMAIN schema :
          /\ Lost(i, column) <=> schema[column].data_type = "number" /\ IsNan(Get(stored[i], column))
          /\ ~Lost(i, column) => _coerce_value_for_column(schema[column], once[i][column]) = once[i][column]
          /\ (schema[column].data_type = "text" /\ once[i][column] # Null) => Str(once[i][column]) = Str(Get(stored[i], column))
     /\ SchemaRaises(once, schema) <=> \E i \in DOMAIN once, column \in DOMAIN schema : Lost(i, column) /\ ~schema[column].nullable

LEMMA RowsFitInferred ==
  ASSUME NEW stored, \A i \in DOMAIN stored : \A column : Get(stored[i], column) \in FrameValues
  PROVE  LET schema == _infer_schema_definition_from_records(stored)
         IN ~SchemaRaises(stored, schema) /\ RowsFit(stored, _normalize_rows_against_schema(stored, schema), schema)
<1> DEFINE schema == _infer_schema_definition_from_records(stored)
           Once(i, column) == _coerce_value_for_column(schema[column], Get(stored[i], column))
           once == _normalize_rows_against_schema(stored, schema)
           Lost(i, column) == Get(stored[i], column) # Null /\ Once(i, column) = Null
           Again(i, column) == _coerce_value_for_column(schema[column], Once(i, column))
<1>1. DOMAIN schema = ColumnsOf(stored)
  BY DEF _infer_schema_definition_from_records
<1>2. \A i \in DOMAIN stored, column \in DOMAIN schema :
        /\ Once(i, column) # Error
        /\ Lost(i, column) <=> schema[column].data_type = "number" /\ IsNan(Get(stored[i], column))
        /\ ~Lost(i, column) => Again(i, column) = Once(i, column)
        /\ Lost(i, column) => (Again(i, column) = Error <=> ~schema[column].nullable)
        /\ (schema[column].data_type = "text" /\ Once(i, column) # Null) => Str(Once(i, column)) = Str(Get(stored[i], column))
  BY <1>1, ColumnSettles
<1>3. PICK columns : columns = DOMAIN schema
  OBVIOUS
<1> HIDE DEF schema
<1>4. once = [i \in DOMAIN stored |-> [column \in columns |-> Once(i, column)]]
  BY <1>3 DEF _normalize_rows_against_schema
<1> HIDE DEF Once, once
<1>5. ~SchemaRaises(stored, schema)
  BY <1>1, <1>2 DEF SchemaRaises, Once
<1>6. DOMAIN once = DOMAIN stored /\ \A i \in DOMAIN stored : DOMAIN once[i] = columns
  BY <1>4
<1>7. \A i \in DOMAIN stored, column \in columns : once[i][column] = Once(i, column) /\ Get(once[i], column) = Once(i, column)
  BY <1>4, <1>6 DEF Get
<1>8. SchemaRaises(once, schema) <=> \E i \in DOMAIN stored, column \in columns : Again(i, column) = Error
  <2>1. ColumnsOf(once) \subseteq columns
    BY <1>6 DEF ColumnsOf
  <2> QED
    BY <1>3, <1>6, <1>7, <2>1 DEF SchemaRaises
<1>9. \A i \in DOMAIN stored, column \in columns : Again(i, column) = Error <=> Lost(i, column) /\ ~schema[column].nullable
  BY <1>2, <1>3
<1>10. SchemaRaises(once, schema) <=> \E i \in DOMAIN once, column \in DOMAIN schema : Lost(i, column) /\ ~schema[column].nullable
  BY <1>3, <1>6, <1>8, <1>9
<1>11. RowsFit(stored, once, schema)
  BY <1>2, <1>3, <1>6, <1>7, <1>10 DEF RowsFit
<1> QED
  BY <1>5, <1>11 DEF schema, once

\* A frame's rows have its columns, and values again.
LEMMA FrameKeeps ==
  ASSUME NEW stored \in Seq(FrameRows)
  PROVE  LET made == ensure_dataframe(stored).rows
         IN /\ DOMAIN made = DOMAIN stored
            /\ \A i \in DOMAIN made : \A column : Get(made[i], column) \in FrameValues
            /\ \A i \in DOMAIN made, column \in ColumnsOf(made) : made[i][column] = Get(made[i], column)
            /\ made = <<>> => ColumnsOf(made) = {}
<1> DEFINE new == ensure_dataframe(stored).dtypes
           made == ensure_dataframe(stored).rows
<1>1. PICK columns : columns = DOMAIN new
  OBVIOUS
<1>2. made = [i \in DOMAIN stored |-> [column \in columns |-> Promoted(Get(stored[i], column), new[column])]]
  BY <1>1 DEF ensure_dataframe, Framed
<1>3. \A i \in DOMAIN stored : \A column : Get(stored[i], column) \in FrameValues
  <2>1. \A i \in DOMAIN stored : stored[i] \in [{"k", "x"} -> FrameValues]
    BY FramesAssumption DEF FramesAssumption, FrameRows
  <2>2. Null \in FrameValues
    BY DEF FrameValues
  <2> QED
    BY <2>1, <2>2 DEF Get
<1>4. \A v \in FrameValues : \A dtype : Promoted(v, dtype) \in FrameValues
  <2> TAKE v \in FrameValues
  <2> TAKE dtype
  <2>1. CASE dtype = "float64" /\ v[1] = "int"
    <3>1. v # Null
      BY <2>1 DEF Null
    <3>2. v[2] \in Int
      BY <2>1, <3>1, ValueKinds
    <3>3. Promoted(v, dtype) = <<"float", 2 * v[2]>>
      BY <2>1 DEF Promoted, Num
    <3> QED
      BY <3>2, <3>3 DEF FrameValues
  <2>2. CASE ~(dtype = "float64" /\ v[1] = "int")
    BY <2>2 DEF Promoted
  <2> QED
    BY <2>1, <2>2
<1> HIDE DEF made, new
<1>5. DOMAIN made = DOMAIN stored
  BY <1>2
<1>6. \A i \in DOMAIN made : DOMAIN made[i] = columns
  BY <1>2
<1>7. \A i \in DOMAIN made : \A column \in columns : made[i][column] \in FrameValues
  BY <1>2, <1>3, <1>4
<1>8. Null \in FrameValues
  BY DEF FrameValues
<1>9. \A i \in DOMAIN made : \A column : Get(made[i], column) \in FrameValues
  BY <1>6, <1>7, <1>8 DEF Get
<1>10. \A i \in DOMAIN made, column \in ColumnsOf(made) : made[i][column] = Get(made[i], column)
  BY <1>6 DEF ColumnsOf, Get
<1>11. made = <<>> => ColumnsOf(made) = {}
  BY DEF ColumnsOf
<1> QED
  BY <1>5, <1>9, <1>10, <1>11 DEF made

LEMMA FrameFits == FrameInit => InferredFits
<1> SUFFICES ASSUME FrameInit PROVE InferredFits
  OBVIOUS
<1>1. PICK stored \in Seq(FrameRows) : frame = ensure_dataframe(stored)
  <2>1. PICK n \in 0..MaxFrameRows, all \in [1..MaxFrameRows -> {r \in FrameRows : r["k"] \in KeyValues /\ r["x"] \in RawValues}] :
          frame = ensure_dataframe(SubSeq(all, 1, n))
    BY DEF FrameInit
  <2>2. all \in Seq(FrameRows) /\ Len(all) = MaxFrameRows
    BY FramesAssumption DEF FramesAssumption
  <2>3. SubSeq(all, 1, n) \in Seq(FrameRows)
    BY <2>2, FramesAssumption DEF FramesAssumption
  <2> QED
    BY <2>1, <2>3
<1> DEFINE schema == _infer_schema_definition_from_frame(frame)
           once == _normalize_rows_against_schema(frame.rows, schema)
<1>2. PICK made : made = frame.rows
  OBVIOUS
<1>3. /\ \A i \in DOMAIN made : \A column : Get(made[i], column) \in FrameValues
      /\ \A i \in DOMAIN made, column \in ColumnsOf(made) : made[i][column] = Get(made[i], column)
      /\ made = <<>> => ColumnsOf(made) = {}
  BY <1>1, <1>2, FrameKeeps
<1>4. CASE made # <<>>
  <2>1. schema = _infer_schema_definition_from_records(made)
    BY <1>2, <1>4 DEF _infer_schema_definition_from_frame
  <2>2. DOMAIN schema = ColumnsOf(made)
    BY <2>1 DEF _infer_schema_definition_from_records
  <2>3. DOMAIN once = DOMAIN made
    BY <1>2 DEF _normalize_rows_against_schema
  <2>4. ~SchemaRaises(made, schema) /\ RowsFit(made, once, schema)
    <3>1. LET s == _infer_schema_definition_from_records(made)
          IN ~SchemaRaises(made, s) /\ RowsFit(made, _normalize_rows_against_schema(made, s), s)
      BY <1>3, RowsFitInferred
    <3> HIDE DEF schema
    <3> QED
      BY <1>2, <2>1, <3>1
  <2> HIDE DEF schema, once
  <2>5. \A i \in DOMAIN once, column \in DOMAIN schema : frame.rows[i][column] = Get(made[i], column)
    BY <1>2, <1>3, <2>2, <2>3
  <2> QED
    BY <1>2, <2>4, <2>5 DEF InferredFits, RowsFit, schema, once
<1>5. CASE made = <<>>
  <2>1. once = <<>> /\ DOMAIN once = {}
    BY <1>2, <1>5 DEF _normalize_rows_against_schema
  <2>2. ~SchemaRaises(made, schema)
    BY <1>3, <1>5 DEF SchemaRaises
  <2>3. ~SchemaRaises(once, schema)
    BY <1>2, <1>5, <2>1, <2>2
  <2> HIDE DEF schema, once
  <2> QED
    BY <1>2, <2>1, <2>2, <2>3 DEF InferredFits, schema, once
<1> QED
  BY <1>4, <1>5

(* Rows fit the schema that is inferred from them, whatever kinds their values are of     *)
(* and whatever the texts are read as; what was coerced stays as it is when it is         *)
(* coerced again, and a text that is published is found by the text it was mapped from.   *)
(* Only a text that reads as NaN in a column of numbers is lost, and refused when it is   *)
(* written again to a column without nulls (services/data_hub.py).                        *)
THEOREM InferredFitsAlways == FrameSpec => []InferredFits
<1>1. InferredFits /\ [UNCHANGED frame]_frame => InferredFits'
  BY DEF InferredFits
<1> QED
  BY <1>1, FrameFits, PTL DEF FrameSpec
=============================================================================
