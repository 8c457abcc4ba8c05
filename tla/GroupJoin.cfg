SPECIFICATION LiveSpec
CONSTANTS
  c1 = c1
  g1 = g1
  gInvite = gInvite
  Candidates = {c1}
  Collectors = {k1}
  Groups = {g1}
  Requests = {r1, r2}
  Invites = {}
  NamedRow <- PublicRow
  RealRow <- PublicRow
  TickInterval = 1
  PendingLimit = 1
  MaxRequests = 2
  MaxFaults = 1
  None = None
INVARIANTS JoinedHasMembership OneMembershipPerJoin
PROPERTIES JoinedOnlyByClaim OperatorJoinSettles
CHECK_DEADLOCK FALSE
