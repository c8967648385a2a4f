SPECIFICATION Spec
CONSTANTS
  Device = {d1, d2}
  Name = {n1, n2}
  Id = {1, 2, 3}
  Attempt = {t1, t2, t3}
  NoId = 0
  NoName = NoName
SYMMETRY Symmetry
CHECK_DEADLOCK FALSE
INVARIANTS HomeHasUser OneAccount SignedInExists LogoutHolds
PROPERTY IdentityKept
