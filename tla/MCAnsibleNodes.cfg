\* The exporters of the Proxmox nodes, without faults.
SPECIFICATION Spec
CONSTANTS
  Playbook <- PveHosts
  Groups <- Node
  Procs = {p1}
  p1 = p1
  Options <- Monitoring
  MaxWant = 3
  Bad <- NoneIsBad
  Fresh = FALSE
  Faults = FALSE
  Settles = FALSE
INVARIANT SuccessIsOnDisk
INVARIANT SuccessIsLive
