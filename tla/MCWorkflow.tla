----------------------------- MODULE MCWorkflow -----------------------------
(* Small worlds for Workflow: two hosts' worth of identities and, for each  *)
(* run, the manifests the operator may choose from.                         *)
EXTENDS WorkflowInv, TLC

CONSTANTS a, b, k1, k2, p1, p2, n1, n2, i1, i2, l1, l2, l3, gpu, pve, gone

MCKeys == {k1, k2}
MCVmIds == {1, 2}
MCNames == {n1, n2}
MCAddresses == {i1, i2}
MCNodes == {pve, gone}
MCSiteNodes == {pve}
MCSiteMappings == {<<gpu, pve>>}

\* A host without MAC or PCI device.
At(id, name, ip) == [vm_id |-> id, name |-> name, mac |-> None, address |-> ip,
                     pci |-> {}, node |-> pve]
WithGpu(h) == [h EXCEPT !.pci = {gpu}]
OffSite(h) == [h EXCEPT !.node = gone]

\* Two services with a VM each; two of b's three drafts claim a's device,
\* and one of these names a node site.yml does not have.
RivalDrafts == a :> {k1 :> WithGpu(At(1, n1, i1))}
            @@ b :> {k1 :> At(2, n2, i2), k1 :> OffSite(WithGpu(At(2, n2, i2))),
                     k1 :> WithGpu(At(2, n2, i2))}

\* One service whose manifest drops k1 and gives its vm_id and address to
\* k2, which had another vm_id and a lease; or drops k2 and moves k1.
EvolvingDrafts == a :> {k1 :> At(1, n1, i1) @@ k2 :> At(2, n2, None),
                        k2 :> At(1, n1, i1),
                        k1 :> At(1, n1, i2)}

\* One service that hands a vm_id and a static address from k1 to k2, or has
\* both its hosts on leases.
Leased == k1 :> At(1, n1, None) @@ k2 :> At(2, n2, None)
AddressedDrafts == a :> {k1 :> At(1, n1, i1) @@ k2 :> At(2, n2, None),
                         k2 :> At(1, n1, i1), Leased}
LeasedDrafts == a :> {Leased}
OneLeasedDrafts == a :> {k2 :> At(2, n2, None)}

\* One service that gives the address of its host to a new one.
HandedDrafts == a :> {k1 :> At(1, n1, i1), k2 :> At(2, n2, i1)}

\* One service whose two hosts trade places: vm_id, name and address; or that
\* drops k2 and gives its name to k1.
SwappedDrafts == a :> {k1 :> At(1, n1, i1) @@ k2 :> At(2, n2, None),
                       k1 :> At(2, n2, None) @@ k2 :> At(1, n1, i1),
                       k1 :> At(1, n2, i1)}

\* What the theorems about addresses assume of the leases is true of these
\* worlds.
ASSUME AddressesAssumed == PoolApart

ProcSymmetry == Permutations(Procs)
=============================================================================
