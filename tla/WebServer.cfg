SPECIFICATION FairSpec
CONSTANTS
  page = page photo = photo film = film full = full huge = huge
  Files = {page, photo, film, full, huge}
  Size <- MCSize
  Home <- MCHome
  Index = page
  Root = Root Absent = Absent Bad = Bad
  num_servers = 3
  Indexer = Indexer
  Faulty <- MCFaulty
  Browsers = {b1, b2}
  EAGER_LIMIT = 4
  MAX_TEST_SIZE = 8
  AnyLength = {0, 9}
  NULL = NULL Zero = Zero Unset = Unset
CHECK_DEADLOCK FALSE
INVARIANTS RightBody ConnectionsKept
PROPERTY EveryBrowserAnswered
