\* Any commands at once on one service, from an operator who edits no
\* manifest in use; addresses are static or leased, and leases may move.
SPECIFICATION Spec
CONSTANTS
  a = a
  b = b
  k1 = k1
  k2 = k2
  p1 = p1
  p2 = p2
  n1 = n1
  n2 = n2
  i1 = i1
  i2 = i2
  l1 = l1
  l2 = l2
  l3 = l3
  gpu = gpu
  pve = pve
  gone = gone
  None = None
  Keys <- MCKeys
  VmIds <- MCVmIds
  Names <- MCNames
  Macs = {}
  Addresses <- MCAddresses
  Mappings = {gpu}
  Nodes <- MCNodes
  SiteNodes <- MCSiteNodes
  SiteMappings <- MCSiteMappings
  Services = {a}
  Procs = {p1, p2}
  Drafts <- AddressedDrafts
  Leases = {l1, l2}
  Commands = {"up", "converge", "down"}
  Retried = {}
  Careful = TRUE
  Exclusive = FALSE
  LeasesMove = TRUE
  HardKills = TRUE
  Settles = FALSE
SYMMETRY ProcSymmetry
INVARIANT StaticAsDeclared
