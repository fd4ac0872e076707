------------------------------ MODULE Resolver ------------------------------
(***************************************************************************)
(* From a service.yml as written to the hosts Manifest speaks of           *)
(* (pvc/manifest/resolver.py, models/site.py, models/service.py): layers   *)
(* of settings are merged, defaults filled in, names derived and every     *)
(* check of resolve_service made.                                          *)
(*                                                                         *)
(* A layer is a function from the fields it sets to their values.  A file  *)
(* is [network, defaults, hosts]; a host is [vm_id, quoted, name, set],    *)
(* where quoted says that its vm_id is written as a string.                *)
(***************************************************************************)
EXTENDS Manifest, Naturals, FiniteSets, SequencesExt

CONSTANTS
  SiteNetwork, SiteDefaults,  \* the layers of site.yml
  SiteImages, FirstImage,     \* its images, and the one it lists first
  KnownRoles,
  DefaultName,                \* <<service, key>> -> "<service>-<key>"
  Upper,                      \* a MAC as it may be written -> in upper case
  MinVmId,
  Dhcp, Malformed             \* ip: dhcp; any field: a value that does not parse

ASSUME UpperAssumption ==
  None \notin DOMAIN Upper /\ \A w \in DOMAIN Upper : Upper[w] \in Macs

\* Mutant: earlier layers win.
PutUnder(merged, layer) ==
  [f \in DOMAIN merged \cup DOMAIN layer |->
     IF f \in DOMAIN merged THEN merged[f] ELSE layer[f]]

\* A later layer over what is merged so far: roles add up, vars are merged
\* key by key, anything else is replaced.
Put(merged, layer) ==
  [f \in DOMAIN merged \cup DOMAIN layer |->
     IF f \notin DOMAIN layer THEN merged[f]
     ELSE IF f \notin DOMAIN merged THEN layer[f]
     ELSE CASE f = "roles" -> merged.roles \cup layer.roles
            [] f = "vars" -> [v \in DOMAIN layer.vars \cup DOMAIN merged.vars |->
                                IF v \in DOMAIN layer.vars THEN layer.vars[v] ELSE merged.vars[v]]
            [] OTHER -> layer[f]]

NoVars == [v \in {} |-> None]

\* Least to most specific.
Layers(raw, k) ==
  <<SiteNetwork, SiteDefaults, raw.network, raw.defaults, raw.hosts[k].set>>

\* The loop of _merge_layers, written out: there are always five layers.
Merged(raw, k) ==
  LET none == [f \in {"roles", "vars"} |-> IF f = "roles" THEN {} ELSE NoVars]
      ls == Layers(raw, k)
  IN Put(Put(Put(Put(Put(none, ls[1]), ls[2]), ls[3]), ls[4]), ls[5])

Field(m, f) == IF f \in DOMAIN m THEN m[f] ELSE None

\* The node of a host: the only one of the site when none is set.
NodeOf(m) ==
  IF "node" \in DOMAIN m THEN m.node
  ELSE IF Cardinality(SiteNodes) = 1 THEN CHOOSE n \in SiteNodes : TRUE ELSE None

ImageOf(m) == IF "image" \in DOMAIN m THEN m.image ELSE FirstImage

Devices(m) == IF "pci_devices" \in DOMAIN m THEN m.pci_devices ELSE <<>>

Static(m) == Field(m, "ip") \notin {None, Dhcp}

\* Mutant: MACs are compared as they are written.
MacAsWritten(m) == Field(m, "mac")

MacOf(m) == IF Field(m, "mac") \in DOMAIN Upper THEN Upper[m.mac] ELSE Field(m, "mac")

\* The host as resolved, less the settings that no decision depends on.
HostOf(s, k, raw) ==
  LET m == Merged(raw, k)
      spec == raw.hosts[k]
  IN [vm_id   |-> spec.vm_id,
      name    |-> IF spec.name # None THEN spec.name ELSE DefaultName[<<s, k>>],
      mac     |-> MacOf(m),
      address |-> IF Static(m) THEN m.ip ELSE None,
      pci     |-> {d.mapping : d \in ToSet(Devices(m))},
      node    |-> NodeOf(m)]

\* _pci_problems finds none.
DevicesFine(m) == LET ds == Devices(m) IN
  /\ \A d \in ToSet(ds) :
       /\ <<d.mapping, NodeOf(m)>> \in SiteMappings
       /\ d.pcie => Field(m, "machine") = "q35"
  /\ \A i, j \in DOMAIN ds : ds[i].mapping = ds[j].mapping => i = j

\* The checks of one host.
HostFine(raw, k) == LET m == Merged(raw, k) IN
  /\ NodeOf(m) \in SiteNodes
  /\ ImageOf(m) \in SiteImages
  /\ m.roles \subseteq KnownRoles \cup {"base"}
  /\ Static(m) => m.ip # Malformed /\ Field(m, "gateway") # None
  /\ Field(m, "gateway") # Malformed
  /\ "nameservers" \in DOMAIN m => Malformed \notin ToSet(m.nameservers)
  /\ Field(m, "mac") \in DOMAIN Upper \cup {None}
  /\ raw.hosts[k].vm_id >= MinVmId
  /\ DevicesFine(m)

\* Two hosts of one file share a vm_id, name, address, MAC or PCI mapping.
Duplicates(hosts) ==
  \E j, k \in DOMAIN hosts : j # k /\
    LET g == hosts[j]
        h == hosts[k]
    IN \/ g.vm_id = h.vm_id \/ g.name = h.name
       \/ g.address # None /\ g.address = h.address
       \/ g.mac # None /\ g.mac = h.mac
       \/ g.pci \cap h.pci # {}

HostsOf(s, raw) == [k \in DOMAIN raw.hosts |-> HostOf(s, k, raw)]

\* resolve_service raises no ConfigError.
Accepted(s, raw) ==
  /\ DOMAIN raw.hosts # {}
  /\ \A k \in DOMAIN raw.hosts : HostFine(raw, k)
  /\ ~Duplicates(HostsOf(s, raw))

-----------------------------------------------------------------------------
(* What the merging is for, layer by layer.                                *)

\* The value of field f in the most specific layer that sets it.
MostSpecific(layers, f) ==
  LET set == {i \in DOMAIN layers : f \in DOMAIN layers[i]} IN
  layers[CHOOSE i \in set : \A j \in set : j <= i][f]

\* Roles of all layers, each variable from the most specific layer that has
\* it, and any other field from the most specific layer that sets it.
Layered(raw, k) ==
  LET ls == Layers(raw, k)
      m == Merged(raw, k)
      vars == {i \in DOMAIN ls : "vars" \in DOMAIN ls[i]}
  IN /\ m.roles = UNION {ls[i].roles : i \in {j \in DOMAIN ls : "roles" \in DOMAIN ls[j]}}
     /\ DOMAIN m.vars = UNION {DOMAIN ls[i].vars : i \in vars}
     /\ \A v \in DOMAIN m.vars :
          m.vars[v] = MostSpecific([i \in DOMAIN ls |->
                        IF i \in vars THEN ls[i].vars ELSE NoVars], v)
     /\ \A f \in (UNION {DOMAIN ls[i] : i \in DOMAIN ls}) \ {"roles", "vars"} :
          m[f] = MostSpecific(ls, f)

\* An accepted file is a manifest that Manifest takes for resolvable, whose
\* settings are those of its layers, each static address with a gateway.
ResolvedRight(s, raw) ==
  /\ \A k \in DOMAIN raw.hosts : Layered(raw, k)
  /\ Accepted(s, raw) =>
       /\ Resolves(HostsOf(s, raw))
       /\ \A k \in DOMAIN raw.hosts : LET h == HostOf(s, k, raw) IN
            /\ h.mac \in Macs \cup {None}
            /\ h.address # None =>
                 \E i \in 1..5 : "gateway" \in DOMAIN Layers(raw, k)[i]
=============================================================================
