SPECIFICATION Spec
CONSTANTS
  Euiccs = {e1}
  e1 = e1
  e2 = e2
  Card <- CardsOneRejected
  MatchingIds = {m1, m2}
  Versions = {v1, v2}
  CiPkids = {dpCi, otherCi}
  dpCi = dpCi
  otherCi = otherCi
  ServerCis = {dpCi, otherCi}
  DpAuthCi = dpCi
  Expiries = {"2100"}
  FIXED_EXPIRY = "2100"
  ZkMode = FALSE
  DigitOnlyTids = {1}
  Misrouting = FALSE
  None = None
  MaxTid = 1
  MaxFresh = 5
  MaxRestarts = 1
  MaxUppChanges = 1
INVARIANTS
  TypeOK
  BppAsAgreed
  OneTimeKeys
PROPERTIES
  ImplementsDelivery
CHECK_DEADLOCK FALSE
