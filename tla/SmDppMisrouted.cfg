SPECIFICATION Spec
CONSTANTS
  Euiccs = {e1, e2}
  e1 = e1
  e2 = e2
  Card <- CardsOneRejected
  MatchingIds = {m1}
  Versions = {v1}
  CiPkids = {dpCi, otherCi}
  dpCi = dpCi
  otherCi = otherCi
  ServerCis = {dpCi, otherCi}
  DpAuthCi = dpCi
  Expiries = {"2100"}
  FIXED_EXPIRY = "2100"
  ZkMode = FALSE
  DigitOnlyTids = {2}
  Misrouting = TRUE
  None = None
  MaxTid = 2
  MaxFresh = 4
  MaxRestarts = 0
  MaxUppChanges = 0
INVARIANTS
  OnlyAdmissibleServed
  SessionCoherent
PROPERTIES
  EndedForGood
CHECK_DEADLOCK FALSE
