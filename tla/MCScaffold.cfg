\* Two of new and validate at once, while the operator edits.
SPECIFICATION Spec
CONSTANTS
  a = a
  b = b
  k1 = k1
  k2 = k2
  p1 = p1
  p2 = p2
  pve = pve
  gone = gone
  gpu = gpu
  img = img
  low = low
  up = up
  i1 = i1
  i2 = i2
  gw = gw
  x = x
  y = y
  na1 = na1
  nb1 = nb1
  nab = nab
  web = web
  None = None
  Blank = Blank
  Broken = Broken
  Dhcp = Dhcp
  Malformed = Malformed
  Keys = {k1, k2}
  VmIds = {1, 2, 3, 4, 5, 6}
  Names = {na1, nb1, nab}
  Macs = {up}
  Addresses = {i1, i2}
  Mappings = {gpu}
  Nodes = {pve, gone}
  SiteNodes = {pve}
  SiteMappings <- MCSiteMappings
  SiteNetwork <- MCSiteNetwork
  SiteDefaults <- MCSiteDefaults
  SiteImages = {img}
  FirstImage = img
  KnownRoles = {"nfs", "nginx"}
  DefaultName <- MCNames
  Upper <- MCUpper
  MinVmId = 2
  Services = {a, b}
  Procs = {p1, p2}
  Drafts <- MCDrafts
  KeyLists <- MCKeyLists
  Start = 2
  MaxVmId = 5
SYMMETRY Interchangeable
INVARIANTS TypeOK ValidatedApart FreshIds ResolutionAgrees
