\* Limits of 2 per user and 3 per address in a window of 2, six requests.
CONSTANTS
  Users = {u1, u2}
  Addresses = {a1, a2}
  UserLimit = 2
  IpLimit = 3
  Window = 2
  MaxTime = 4
  MaxRequests = 6
SPECIFICATION Spec
SYMMETRY CallerSymmetry
CHECK_DEADLOCK FALSE
INVARIANTS
  TypeOK
  Budgets
  UserRejectedWithCause
  NeighboursCannotStarve
PROPERTIES
  ImplementsLog
