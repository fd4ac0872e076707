---------------------------- MODULE WorkflowInv -----------------------------
(***************************************************************************)
(* The inductive invariant behind NoSharedIdentity, for an operator who    *)
(* edits no manifest in use (Careful).  Nothing locks the cross-check      *)
(* between services: a command reads its own manifest first and the        *)
(* siblings' after, so of two commands on conflicting services the one     *)
(* that reads later sees the other's manifest, which cannot change.        *)
(***************************************************************************)
EXTENDS Workflow

\* Service s has VMs, or a command that has looked at o and not stopped.
Holds(s, o) ==
  \/ VMsOf(s) # {}
  \/ \E p \in Procs : RunningOn(p, s) /\ o \notin unread[p]

\* A VM is the host its service's manifest describes, under its vm_id.
Declared(v) ==
  LET vm == cluster[v]
      m == manifest[vm.svc]
  IN /\ m # None /\ Resolves(m) /\ vm.key \in DOMAIN m
     /\ vm.host = m[vm.key] /\ vm.host.vm_id = v

VMsDeclared == \A v \in VMs : Declared(v)

\* Every copy of the manifest a command made on its way is still current,
\* and a command past its load has read every sibling.
Current(p) == Running(p) =>
  /\ job[p].man = manifest[Svc(p)]
  /\ pc[p] \notin {"listing", "loading"} => unread[p] = {}
  /\ pc[p] = "prepared" => tfvars[Svc(p)] = manifest[Svc(p)]
  /\ pc[p] = "applying" => plan[p] \in {manifest[Svc(p)], Empty}

CopiesCurrent == \A p \in Procs : Current(p)

\* Two services that have looked at each other do not conflict.
Separate(s, o) == Holds(s, o) /\ Holds(o, s) => ~Conflict(manifest[s], manifest[o])

Apart == \A s, o \in Services : s # o => Separate(s, o)

\* Inductive, with TypeOK and RecordedExists: what any moment of a careful
\* operator's commands leaves true between the manifests, the copies of them
\* in flight and the VMs made from them.
CarefulInv == VMsDeclared /\ CopiesCurrent /\ Apart

-----------------------------------------------------------------------------
(* What the promises about addresses need of the network.                   *)

\* The DHCP server hands out none of the addresses manifests use.
PoolApart == Leases \cap Addresses = {}
=============================================================================
