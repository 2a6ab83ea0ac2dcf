SPECIFICATION Spec
CONSTANTS
  Codes = {c1, c2, c3}
  Reqs = {r1, r2}
  MaxFailed = 2
  LockTime = 2
  OtpTtl = 1
  Faults = FALSE
  WrongCode = WrongCode
  NoCode = NoCode
SYMMETRY Symmetry
INVARIANTS
  RedeemedCodeIsGone
  LockedMeansExhausted
