SPECIFICATION Spec
CONSTANTS
  Mails <- SomeMails
  Rules <- SomeRules
  Overrides <- SomeOverrides
  Reminded = {1, 3}
  Accepted = {1}
  Drafts <- SomeDrafts
  Notices = {"body-key-lost"}
  Filters <- SomeFilters
  FirstRows <- SomeRows
  FirstLogs <- SomeLogs
  Routes <- AllRoutes
  ListLimit = 2
  BacklogLimit = 1
  ResultLimit = 2
  ScanLimit = 3
  ScanBatch = 1
  PageLimit = 1
  Times = {1, 2}
  MaxWrites = 2
INVARIANTS SearchIsComplete PagesAreComplete
CHECK_DEADLOCK FALSE
