SPECIFICATION Spec
CONSTANTS
  Codes = {c1}
  Reqs = {r1, r2}
  MaxFailed = 2
  LockTime = 1
  OtpTtl = 1
  Faults = TRUE
  WrongCode = WrongCode
  NoCode = NoCode
SYMMETRY Symmetry
INVARIANTS
  IInv
  EmailedCodesWereStored
