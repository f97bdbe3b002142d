SPECIFICATION MCSpec
CONSTANTS
  Dirs = {"root", "w2"}
  Listing <- MCListing
  Root = "root"
  HomeBranch <- MCHome
  Target = "main"
  Workers = {"w2"}
  MaxProcs = 2
  Second <- MCSecond
  MaxExtra = 1
  Starters = {p1, p2, p3}
  MaxDaemonFiles = 3
  Nobody = Nobody
INVARIANT EditsAreSafe
INVARIANT DaemonIsFound
PROPERTY GitReportsAreTrue
PROPERTY MainOnlyGrows
CHECK_DEADLOCK FALSE
