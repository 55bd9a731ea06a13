CONSTANTS
  MaxThreadsCount = 1
  DbRows = 2
  LastPage = 1
  MaxLinks = 1
  MaxDbErrors = 0
SPECIFICATION FairSpec
PROPERTY ResumedCrawlContinues
CHECK_DEADLOCK FALSE
