\* Two commands at once, edits of site.yml, and faults that stop.
SPECIFICATION Spec
CONSTANTS
  n1 = n1
  n2 = n2
  img = img
  gpu = gpu
  None = None
  Nodes = {n1, n2}
  Images = {img}
  Mappings = {gpu}
  p1 = p1
  p2 = p2
  Procs = {p1, p2}
  Drafts <- MCDrafts
  MaxEdits = 1
  MaxFaults = 1
INVARIANTS TypeOK ConfigureTouchesOnlyChosen
PROPERTIES ApplyEstablishes SiteStays
