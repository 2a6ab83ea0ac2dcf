SPECIFICATION Spec
CONSTANTS
  Users = {u1}
  Sids = {s1}
  Jtis = {j1, j2, j3}
  Reqs = {r1, r2}
  RefreshTtl = 2
  Faults = FALSE
  NoUser = NoUser
  NoSid = NoSid
  NoJti = NoJti
SYMMETRY Symmetry
INVARIANT TokensAreSingleUse
