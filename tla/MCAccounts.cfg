SPECIFICATION Spec
CONSTANTS
  Processes = {p1, p2}
  Names = {alice, bob}
  Passwords = {x, y}
  Roles = {"SUPER_ADMIN", "REPORTING_ANALYST"}
  ResetTokens = {t1, t2}
  Mongo = Mongo
  None = None
  Expiry = 1
  MaxStarts = 3
  MaxTime = 1
  MaxAccounts = 2
SYMMETRY MCSymmetry
CHECK_DEADLOCK FALSE
INVARIANTS
  TypeOK
  AdmittedIsKnown
  SessionScope
  ResetsStick
  SpentTokensAreDead
  ResetReachesHolder
