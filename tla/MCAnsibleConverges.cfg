\* Faults, a bad version and edits, until they stop.
SPECIFICATION FairSpec
CONSTANTS
  Playbook <- SiteYml
  Groups <- WebHost
  Procs = {p1}
  p1 = p1
  Options <- Pushes
  MaxWant = 2
  Bad <- TwoIsBad
  Fresh = TRUE
  Faults = TRUE
  Settles = TRUE
INVARIANT ValidatedStayUp
INVARIANT SuccessIsOnDisk
PROPERTY ConvergeRecovers
