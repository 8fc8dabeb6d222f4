SPECIFICATION ServicesSpec
CONSTANTS
  RawValues <- MCRawValues
  KeyValues <- MCKeyValues
  MaxFrameRows = 2
  TextNumber <- MCTextNumber
  NanTexts = {"nan"}
  TextBool <- MCTextBool
  TextDate <- MCTextDate
  TextInstant <- MCTextInstant
  Uploads <- MCUploads
  Columns <- MCColumns
  Transforms <- MCTransforms
  MemberMap <- MCMemberMap
  h1 = h1
  h2 = h2
  HubClients = {h1, h2}
  BatchSize = 1
  MaxRowsEver = 6
  MaxHubOps = 3
  Steps = {1, 2, 3}
  TypeOfStep <- MCTypeOfStep
  p1 = p1
  p2 = p2
  PipeClients = {p1, p2}
  MaxPipeOps = 3
  w1 = w1
  w2 = w2
  Workspaces = {w1, w2}
  Nets = {"n1", "n2"}
  Addresses = {"a1", "a2"}
  Fingerprints = {"f1"}
  GateClients = {"c1", "c2"}
  NetHas <- MCNetHas
  RateLimit = 1
  MinuteSeconds = 2
  MaxNow = 3
  MaxGateOps = 3
  MaxPolicyOps = 2
  Owner = "owner"
  People = {"u1", "u2"}
  CellItems = {"i1", "i2"}
  Rules = {"r1"}
  AccessClients = {"c1", "c2"}
  MaxAccessOps = 2
  Emails = {"e1", "e2"}
  s1 = s1
  s2 = s2
  ScimClients = {s1, s2}
  Patches <- MCPatches
  MemberLists <- MCMemberLists
  AutoProvision = TRUE
  MaxScimOps = 3
SYMMETRY ClientSymmetry
INVARIANTS FramesAgree
PROPERTIES HubKeepsTable RunsExplainThemselves GateKept AccessAsAsked ScimAsAsked
CHECK_DEADLOCK FALSE
