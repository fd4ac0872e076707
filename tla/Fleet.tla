------------------------------- MODULE Fleet -------------------------------
(***************************************************************************)
(* What the manifests' cross-check promises about the cluster, with no     *)
(* commands, files or processes: virtual machines appear one at a time,    *)
(* each with an identity no other has, and disappear.                      *)
(***************************************************************************)
EXTENDS Manifest

VARIABLE vms  \* vm_id -> the host it was created as, or None

Init == vms = [v \in VmIds |-> None]

\* A new VM v, whose host is h afterwards.
Claim(v) ==
  LET h == vms'[v] IN
  /\ vms[v] = None
  /\ h \in Host /\ h.vm_id = v
  /\ \A w \in VmIds : vms[w] # None => ~Clash(h, vms[w])
  /\ vms' = [vms EXCEPT ![v] = h]

Release(v) ==
  /\ vms[v] # None
  /\ vms' = [vms EXCEPT ![v] = None]

Next == \E v \in VmIds : Claim(v) \/ Release(v)

Spec == Init /\ [][Next]_vms
=============================================================================
