SPECIFICATION LiveSpec
CONSTANTS
  c1 = c1
  g1 = g1
  gInvite = gInvite
  Candidates = {c1}
  Collectors = {k1}
  Groups = {g1, gInvite}
  Requests = {r1}
  Invites = {c1}
  NamedRow <- InviteRow
  RealRow <- PublicRow
  TickInterval = 0
  PendingLimit = 1
  MaxRequests = 0
  MaxFaults = 0
  None = None
PROPERTY ApprovedRequestJoins
CHECK_DEADLOCK FALSE
