------------------------------ MODULE Manifest ------------------------------
(***************************************************************************)
(* What pvc decides from the YAML files alone: whether a service.yml       *)
(* resolves against site.yml, and whether two services claim the same      *)
(* identity in the cluster (pvc/manifest/resolver.py, conflicts.py).       *)
(*                                                                         *)
(* A manifest is a function from the keys of its hosts to host records     *)
(* whose layers are already merged.  site.yml is the pair SiteNodes,       *)
(* SiteMappings.  Everything else resolve_service checks per host (image,  *)
(* roles, addresses that parse, ...) has the effect of an unknown node:    *)
(* the manifest does not resolve.                                          *)
(***************************************************************************)
CONSTANTS
  Keys,          \* host keys a manifest may use
  VmIds, Names, Macs, Addresses, Mappings, Nodes,
  SiteNodes,     \* nodes defined in site.yml
  SiteMappings,  \* <<mapping, node>> pairs of site.yml's pci_mappings
  None           \* an optional field, or a file, that is absent

ASSUME SiteAssumption ==
  /\ SiteNodes \subseteq Nodes
  /\ SiteMappings \subseteq Mappings \X SiteNodes

\* ResolvedHost, less the sizing fields that no decision depends on.
\* address = None stands for DHCP, mac = None for one Proxmox generates.
Host == [vm_id   : VmIds,
         name    : Names,
         mac     : Macs \cup {None},
         address : Addresses \cup {None},
         pci     : SUBSET Mappings,
         node    : Nodes]

\* Two hosts that one cluster cannot hold side by side.
Clash(g, h) ==
  \/ g.vm_id = h.vm_id
  \/ g.name = h.name
  \/ g.mac # None /\ g.mac = h.mac
  \/ g.pci \cap h.pci # {}
  \/ g.address # None /\ g.address = h.address

\* Mutant: devices and addresses are not compared.
ConflictByName(m, n) ==
  \E j \in DOMAIN m, k \in DOMAIN n : m[j].vm_id = n[k].vm_id \/ m[j].name = n[k].name

\* conflicts_between reports at least one problem.
Conflict(m, n) == \E j \in DOMAIN m, k \in DOMAIN n : Clash(m[j], n[k])

\* resolve_service raises no ConfigError.
Resolves(m) ==
  /\ \A k \in DOMAIN m :
       /\ m[k].node \in SiteNodes
       /\ m[k].pci \X {m[k].node} \subseteq SiteMappings
  /\ \A j, k \in DOMAIN m : j # k => ~Clash(m[j], m[k])
=============================================================================
