SPECIFICATION Spec
CONSTANTS
  Users = {u1}
  Sids = {s1, s2}
  Jtis = {j1, j2}
  Reqs = {r1, r2}
  RefreshTtl = 1
  NoUser = NoUser
  NoSid = NoSid
  NoJti = NoJti
  OtpCodes = {c1}
  MaxFailed = 2
  LockTime = 2
  OtpTtl = 1
  WrongCode = WrongCode
  NoCode = NoCode
  NoAmount = NoAmount
  Intents = {i1}
  PayReqs = {r1, r2}
  ChargeMills = {20}
  RefundMills = {16}
  MinCharge = 1
  MaxRefunds = 1
  PageLimit = 2
  NoReq = NoReq
  Customers = {1}
  Methods = {m1}
  Emails = {e1}
  SaveReqs = {r1}
  NoMethod = NoMethod
  NoCustomer = 0
  NoEmail = NoEmail
  Accounts = {a1}
  ConnectReqs = {r1}
  MaxBanks = 2
  NoAccount = NoAccount
  AccReqs = {r1}
  Passwords = {w0, w1}
  Generated = gen
  MaxRetries = 3
  FamReqs = {r1, r2}
  FamSids = {"s1", "s2"}
  FamActive = {"s1"}
  MaxRotations = 1
  MaxFamBegun = 2
  MaxFamMishaps = 0
  Jobs = {r1, r2}
  SignIns = {s1}
  MaxActivity = 1
  ActFaults = TRUE
  Addresses = {a1}
  MaxCodes = 2
  MaxTries = 2
  MaxStalls = 1
PROPERTIES
  RequestsFinish
  EveryJtiExpires
  LockoutEnds
  OperationsEnd
CHECK_DEADLOCK FALSE
