SPECIFICATION Spec
CONSTANTS
  FamReqs = {q1, q2}
  FamSids = {"s1"}
  FamActive = {"s1"}
  MaxRotations = 1
  MaxFamBegun = 3
  MaxFamMishaps = 1
  AnReqs = {q1}
  Places = {"home", "abroad"}
  Devices <- Devs
  HistorySize = 2
  MaxPerWindow = 1
  FarKm = 1000
  HabitSize = 1
  HabitHours = 0
  MaxHour = 1
  MaxCount = 2
  Ips = {ip1}
  RepReqs = {q1, q2}
  FailedBlocks = 2
  MaxFailed = 2
  LimReqs = {q1, q2}
  MaxRequests = 1
  DdosMaxRequests = 1
  MaxSeen = 3
  LimFaults = TRUE
  Instances = {g1, g2}
  Countries = {us, bd}
  GeoReqs = {q1}
  Configs <- Cfgs
  GeoFaults = TRUE
  Jobs = {j1, j2}
  SignIns = {s1}
  MaxActivity = 2
  ActFaults = TRUE
  Addresses = {a1, a2}
  MaxCodes = 2
  MaxTries = 2
  MaxStalls = 1
  MaxTokens = 3
  CsrfReqs = {q1}
  Payloads <- NestedPayloads
  Responses <- SomeResponses
  Details <- FlatDetails
  Objects <- UntoldObjects
  NoNumber = NoNumber
  Totals = {0, 1, 2, 3, 4, 5, 6, 7}
  Halves <- AskedHalves
  PageConfigs <- PageCfgs
  DefaultPageLimit = 2
  DefaultMaxLimit = 3
  MinLength = 2
  MaxLength = 4
  CommonPasswords <- Common2
  TestedPasswords <- Passwords4
  TestedEnvs <- Envs
  SerialReqs = {r1}
  Users = {u1}
  Sids = {v1, v2}
  Jtis = {t1, t2, t3}
  RefreshTtl = 2
  NoUser = NoUser
  NoSid = NoSid
  NoJti = NoJti
  OtpCodes = {o1, o2, o3}
  OtpMaxFailed = 3
  LockTime = 2
  OtpTtl = 2
  WrongCode = WrongCode
  NoCode = NoCode
INVARIANT GenuineEventsAreReceived
CHECK_DEADLOCK FALSE
