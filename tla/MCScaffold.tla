----------------------------- MODULE MCScaffold -----------------------------
(***************************************************************************)
(* A site with one node, and manifests that use each layer and fall foul   *)
(* of each check.                                                          *)
(***************************************************************************)
EXTENDS Scaffold

CONSTANTS a, b, k1, k2, p1, p2, pve, gone, gpu, img, low, up, i1, i2, gw, x, y,
          na1, nb1, nab, web

\* "<a>-<k2>" and "<b>-<k1>" are one name, as "a-b" and "c", "a" and "b-c".
MCNames == (<<a, k1>> :> na1) @@ (<<a, k2>> :> nab) @@ (<<b, k1>> :> nab) @@ (<<b, k2>> :> nb1)
MCUpper == (low :> up) @@ (up :> up)
MCSiteMappings == {<<gpu, pve>>}
MCSiteNetwork == [bridge |-> "vmbr0", nameservers |-> <<>>]
MCSiteDefaults == [vars |-> (x :> 1) @@ (y :> 1), roles |-> {"nfs"}, cores |-> 2]

Spec0(id, set) == [vm_id |-> id, quoted |-> FALSE, name |-> None, set |-> set]
File(network, defaults, hosts) == [network |-> network, defaults |-> defaults, hosts |-> hosts]
Bare == [f \in {} |-> None]
Passthrough(pcie) == <<[mapping |-> gpu, pcie |-> pcie]>>

\* A static address over site and host variables; a device and a MAC from
\* two layers; two hosts whose MACs differ in case only; a device listed
\* twice on a node that is not there.
DraftsA == {
  File([gateway |-> gw], [vars |-> (y :> 3), node |-> gone],
       k1 :> Spec0(2, [ip |-> i1, node |-> pve, roles |-> {"nginx"}, vars |-> (x :> 2)])),
  File(Bare, [pci_devices |-> Passthrough(TRUE), cores |-> 4],
       k1 :> Spec0(3, [mac |-> low, machine |-> "q35"])),
  File(Bare, [mac |-> up], k1 :> Spec0(3, Bare) @@ k2 :> Spec0(4, [mac |-> low])),
  File(Bare, Bare, k2 :> Spec0(1, [node |-> gone, nameservers |-> <<Malformed>>,
       pci_devices |-> Passthrough(FALSE) \o Passthrough(FALSE)]))}

\* Rivals of the device and of the MAC, and a vm_id in quotes.
DraftsB == {
  File([gateway |-> gw], Bare, k1 :> Spec0(4, [mac |-> up, ip |-> i2])),
  File(Bare, [machine |-> "q35"], k2 :> Spec0(2, [pci_devices |-> Passthrough(TRUE)])),
  File(Bare, Bare, k2 :> [Spec0(4, [ip |-> Dhcp]) EXCEPT !.quoted = TRUE])}

MCDrafts == (a :> DraftsA \cup {Broken}) @@ (b :> DraftsB \cup {Blank})
MCKeyLists == {<<k2, k1>>, <<k1, k1>>, <<>>}
Interchangeable == Permutations(Procs)
=============================================================================
