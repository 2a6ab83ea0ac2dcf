SPECIFICATION Spec
CONSTANTS
  Users = {u1, u2}
  Sids = {s1}
  Jtis = {j1, j2, j3}
  Reqs = {r1, r2}
  RefreshTtl = 1
  Faults = TRUE
  NoUser = NoUser
  NoSid = NoSid
  NoJti = NoJti
SYMMETRY Symmetry
INVARIANTS
  IInv
  SpentNeverAccepted
  IssuedTokensAreBacked
  CleanRevocationIsFinal
PROPERTIES
  StorePromise
