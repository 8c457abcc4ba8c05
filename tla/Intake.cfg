SPECIFICATION Spec
CONSTANTS
  b1 = b1
  p1 = p1
  None = None
  Groups = {"pub", "link"}
  Invites = {"link"}
  Count = 2
  GroupOf <- Where
  AuthorOf <- Who
  OwnWords = {1}
  Backfills = {b1}
  Patches = {p1}
  PendingLimit = 1
  MaxEvents = 2
INVARIANTS OnlyJoinedIsStored MonitorFollowsMembership BackfillReplays ConfigKept
CHECK_DEADLOCK FALSE
