SPECIFICATION Spec
CONSTANTS
  NoAmount = NoAmount
  Intents = {i1}
  PayReqs = {p1, p2}
  ChargeMills = {20, 4}
  RefundMills = {0, 4, 10, 16}
  MinCharge = 1
  MaxRefunds = 2
  PageLimit = 2
  NoReq = NoReq
  Customers = {1, 2}
  Methods = {m1}
  Emails = {e1}
  SaveReqs = {s1, s2}
  NoMethod = NoMethod
  NoCustomer = 0
  NoEmail = NoEmail
  Accounts = {a1}
  ConnectReqs = {c1, c2}
  MaxBanks = 4
  NoAccount = NoAccount
  Sellers = {a1, a2}
  MoveMills = {14, 16}
  MaxPayouts = 2
  MaxCents = 3
  ListLimits = {NoAmount, 0, 2}
  DefaultLimit = 1
  Platform = Platform
  AccReqs = {q1, q2}
  Passwords = {w0, w1}
  Generated = gen
  MaxRetries = 2
INVARIANT FullRefundOnlyWhenOmitted
CHECK_DEADLOCK FALSE
