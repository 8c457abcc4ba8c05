SPECIFICATION CrawlSpec
CONSTANTS
  Nil = Nil
  Categories = {"leaks", "removed"}
  Threads = {"old", "slug", "new"}
  Numbered = {"old"}
  FirstRank <- First
  FirstHome <- Where
  FirstLength <- Long
  FirstMonitored = {"leaks", "removed"}
  MaxLength = 2
  PageSize = 1
  MaxThreadPages = 1
  Requests = {"ask"}
  MaxMoves = 1
  MaxFailures = 2
INVARIANTS CrawlTypeOK PassedIsStored PublishedOnce OneKeyPerThread RepliedOnce DoneIsRead
PROPERTY RequestsAnswered
CHECK_DEADLOCK FALSE
