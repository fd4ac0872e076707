----------------------------- MODULE MCAnsible -----------------------------
(***************************************************************************)
(* Machines, command lines and bounds of the TLC runs of Ansible.          *)
(***************************************************************************)
EXTENDS AnsibleInv, SitePlaybook, TLC

WebHost == GroupsOf({"nginx"})
ComposeHost == GroupsOf({"nginx", "compose"})
ClusterHost == GroupsOf({"kubernetes"})
Node == {"pve_hosts"}

Everything == TagOption({}, FALSE)
WithScript == TagOption({}, TRUE)
AllOfIt == {Everything}
Web == {Everything, {"nginx"}}
Pushes == {Everything, {"files"}}
Hardening == {WithScript, TagOption({"ssh"}, TRUE)}
Monitoring == {Everything, {"monitoring"}}

\* What the theorems suppose of playbooks, command lines and runs; SSH is
\* allowed first, and nothing works once only, in every run but the one that
\* shows why.
ASSUME FirstAllowed == AllowFirst \/ {"nginx"} \in Options
ASSUME InOrder == Orderly \/ "kubernetes" \in Groups
ASSUME AsWritten == Validated /\ FilesTaken /\ MadeOneWay /\ DownloadsFirst
ASSUME Told == Groups = Node =>
  ChangesTold /\ Bad = {} /\ ~Faults /\ \A opts \in Options : Provided(opts)

TwoIsBad == {2}
NoneIsBad == {}
Interchangeable == Permutations(Procs)
=============================================================================
