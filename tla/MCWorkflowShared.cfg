\* A manifest is edited while its VM runs; another service takes its device.
SPECIFICATION Spec
CONSTANTS
  a = a
  b = b
  k1 = k1
  k2 = k2
  p1 = p1
  p2 = p2
  n1 = n1
  n2 = n2
  i1 = i1
  i2 = i2
  l1 = l1
  l2 = l2
  l3 = l3
  gpu = gpu
  pve = pve
  gone = gone
  None = None
  Keys = {k1}
  VmIds <- MCVmIds
  Names <- MCNames
  Macs = {}
  Addresses <- MCAddresses
  Mappings = {gpu}
  Nodes <- MCNodes
  SiteNodes <- MCSiteNodes
  SiteMappings <- MCSiteMappings
  Services = {a, b}
  Procs = {p1}
  Drafts <- RivalDrafts
  Leases = {l1, l2}
  Commands = {"up", "down"}
  Retried = {}
  Careful = FALSE
  Exclusive = FALSE
  LeasesMove = FALSE
  HardKills = FALSE
  Settles = FALSE
INVARIANT NoSharedIdentity
