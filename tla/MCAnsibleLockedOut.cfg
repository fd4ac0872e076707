\* nginx converged alone, first.
SPECIFICATION Spec
CONSTANTS
  Playbook <- SiteYml
  Groups <- WebHost
  Procs = {p1}
  p1 = p1
  Options <- Web
  MaxWant = 1
  Bad <- NoneIsBad
  Fresh = TRUE
  Faults = FALSE
  Settles = FALSE
INVARIANT NeverLockedOut
