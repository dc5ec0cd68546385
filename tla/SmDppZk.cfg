SPECIFICATION FairSpec
CONSTANTS
  Euiccs = {e1, e2}
  e1 = e1
  e2 = e2
  Card <- CardsZk
  MatchingIds = {m1}
  Versions = {v1}
  CiPkids = {dpCi, otherCi}
  dpCi = dpCi
  otherCi = otherCi
  ServerCis = {dpCi, otherCi}
  DpAuthCi = dpCi
  Expiries = {"2100"}
  FIXED_EXPIRY = "2100"
  ZkMode = TRUE
  DigitOnlyTids = {}
  Misrouting = FALSE
  None = None
  MaxTid = 2
  MaxFresh = 3
  MaxRestarts = 1
  MaxUppChanges = 0
INVARIANTS
  OnlyAdmissibleServed
PROPERTIES
  CancelAfterRefusal
CHECK_DEADLOCK FALSE
