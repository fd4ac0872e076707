\* Two runs at once on one machine, either of which may fail anywhere.
SPECIFICATION Spec
CONSTANTS
  Playbook <- SiteYml
  Groups <- ComposeHost
  Procs = {p1, p2}
  p1 = p1
  p2 = p2
  Options <- Hardening
  MaxWant = 1
  Bad <- NoneIsBad
  Fresh = TRUE
  Faults = TRUE
  Settles = FALSE
SYMMETRY Interchangeable
INVARIANT NeverLockedOut
 
