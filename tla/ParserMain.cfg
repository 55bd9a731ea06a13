\* Three rows in windows of two, two slots, two pages per category, two links on a
\* page, one failing SELECT.  exit(0) in load() and the end of the crawl stop the
\* system.
CONSTANTS
  MaxThreadsCount = 2
  DbRows = 3
  LastPage = 2
  MaxLinks = 2
  MaxDbErrors = 1
SPECIFICATION FairSpec
INVARIANTS
  TypeOK
  SlotsAreExact
  WaitOnlyWhenFull
  NothingLost
  NeverStalled
  StampEndsWork
  StampedMeansCrawled
  RowInOnePlace
PROPERTIES
  LinksBeforePages
  CrawlProgresses
  CrawlCompletes
  PausedServiceGoesIdle
  ImplementsCrawl
CHECK_DEADLOCK FALSE
