------------------------------ MODULE Workflow ------------------------------
(***************************************************************************)
(* The commands of pvc that touch virtual machines (plan, up, converge,    *)
(* down), run by several processes against one checkout and one Proxmox    *)
(* cluster.  pvc/ops/workflows.py is the control; Terraform, the guest     *)
(* agent and Ansible are modelled from how the code drives them.           *)
(*                                                                         *)
(* Shared state is what the programs leave on disk and in the cluster:     *)
(* each service has a manifest, a tfvars file, a Terraform state (its      *)
(* resources and its "hosts" output) and an inventory.  A process keeps    *)
(* what the Python code holds in local variables between two external      *)
(* calls; it may be killed between any two steps.                          *)
(***************************************************************************)
EXTENDS Manifest, FiniteSets

CONSTANTS
  Services,   \* directories under services/
  Procs,      \* pvc processes that may run at once
  Drafts,     \* Drafts[s]: the manifests the operator may save for s
  Leases,     \* addresses the DHCP server hands out
  Commands,   \* the commands the operator uses
  Retried,    \* those it calls again and again once things are calm
  Careful,    \* TRUE: a manifest changes only while its service has no VM
              \* and no command running
  Exclusive,  \* TRUE: the operator runs one command per service at a time
  LeasesMove, \* TRUE: DHCP may give a running VM another address
  HardKills,  \* TRUE: Terraform may die between creating and recording a VM
  Settles     \* TRUE: faults, edits and lease changes may stop for good

\* f is a function from some of the host keys to S.
IsPartial(f, S) == DOMAIN f \subseteq Keys /\ f \in [DOMAIN f -> S]
Empty == [k \in {} |-> None]

ASSUME DraftsAssumption ==
  \A s \in Services : \A m \in Drafts[s] : IsPartial(m, Host) /\ DOMAIN m # {}

ASSUME WorldAssumption ==
  /\ Commands \subseteq {"plan", "up", "converge", "down"}
  /\ Careful \in BOOLEAN /\ Exclusive \in BOOLEAN
  /\ LeasesMove \in BOOLEAN /\ HardKills \in BOOLEAN /\ Settles \in BOOLEAN

IPs == Addresses \cup Leases
AllDrafts == UNION {Drafts[s] : s \in Services}

\* A VM in Proxmox: whose it is, the host it was made from, the address it
\* has now and the entry a playbook configured it with.
VM == [svc : Services, key : Keys, host : Host, ip : IPs,
       conf : [key : Keys, host : Host] \cup {None}]
Entries == [host : Host, address : IPs]
Jobs == [cmd : Commands, svc : Services, only : Keys \cup {None}, man : AllDrafts \cup {None}]

\* None is none of the values it stands in for.
ASSUME NoneAssumption ==
  /\ None \notin IPs \cup Host \cup VM
  /\ \A S \in SUBSET Keys : None \notin [S -> Host] /\ None \notin [S -> Entries]

VARIABLES
  manifest,   \* services/<s>/service.yml
  tfvars,     \* .pvc/terraform.tfvars.json: the hosts of a manifest
  tfstate,    \* .pvc/terraform.tfstate: host key -> host as recorded
  outputs,    \* its "hosts" output: host key -> address
  inventory,  \* .pvc/inventory.yml: host key -> [host, address]
  cluster,    \* vm_id -> the VM in Proxmox
  calm,       \* TRUE once faults, edits and lease changes have stopped
  pc,         \* where a process stands
  job,        \* its command line, and the manifest it loaded
  unread,     \* siblings whose manifests it still has to look at
  plan,       \* the hosts its Terraform run works towards
  failed,     \* host keys its Terraform or Ansible run failed on
  deployed,   \* the "hosts" output it read
  waiting,    \* hosts whose SSH port it waits for
  playing     \* inventory hosts its playbook has not finished

files == <<manifest, tfvars, tfstate, outputs, inventory>>
local == <<job, unread, plan, failed, deployed, waiting, playing>>
vars  == <<files, cluster, calm, pc, local>>

-----------------------------------------------------------------------------
With(f, k, x) == [j \in DOMAIN f \cup {k} |-> IF j = k THEN x ELSE f[j]]
Without(f, k) == [j \in DOMAIN f \ {k} |-> f[j]]

Ended == {"ok", "error", "invalid"}
Running(p) == pc[p] \notin {"idle"} \cup Ended
OnService(p, s) == pc[p] # "idle" /\ job[p].svc = s
RunningOn(p, s) == Running(p) /\ job[p].svc = s
Svc(p) == job[p].svc

VMs == {v \in VmIds : cluster[v] # None}
VMsOf(s) == {v \in VMs : cluster[v].svc = s}

\* The local backend's lock on a service's state file.
Locked(s) == \E q \in Procs : RunningOn(q, s) /\ pc[q] = "applying"

Resources(s) == IF tfstate[s] = None THEN Empty ELSE tfstate[s]

Init ==
  /\ manifest \in [Services -> UNION {Drafts[s] : s \in Services} \cup {None}]
  /\ \A s \in Services : manifest[s] \in Drafts[s] \cup {None}
  /\ tfvars = [s \in Services |-> None]
  /\ tfstate = [s \in Services |-> None]
  /\ outputs = [s \in Services |-> None]
  /\ inventory = [s \in Services |-> None]
  /\ cluster = [v \in VmIds |-> None]
  /\ calm = FALSE
  /\ pc = [p \in Procs |-> "idle"]
  /\ job = [p \in Procs |-> None]
  /\ unread = [p \in Procs |-> {}]
  /\ plan = [p \in Procs |-> None]
  /\ failed = [p \in Procs |-> {}]
  /\ deployed = [p \in Procs |-> None]
  /\ waiting = [p \in Procs |-> {}]
  /\ playing = [p \in Procs |-> Empty]

-----------------------------------------------------------------------------
(* The world around the processes.                                         *)

\* The operator saves or removes a manifest.
Edit(s) ==
  /\ ~calm
  /\ Careful => VMsOf(s) = {} /\ \A p \in Procs : ~RunningOn(p, s)
  /\ \E m \in Drafts[s] \cup {None} :
       m # manifest[s] /\ manifest' = [manifest EXCEPT ![s] = m]
  /\ UNCHANGED <<tfvars, tfstate, outputs, inventory, cluster, calm, pc, local>>

FreeLeases == Leases \ {cluster[v].ip : v \in VMs}

\* A DHCP lease runs out and the VM comes back with another one.
NewLease(v) ==
  /\ LeasesMove /\ ~calm
  /\ cluster[v] # None /\ cluster[v].host.address = None
  /\ \E ip \in FreeLeases : cluster' = [cluster EXCEPT ![v].ip = ip]
  /\ UNCHANGED <<files, calm, pc, local>>

Calm ==
  /\ Settles /\ ~calm /\ calm' = TRUE
  /\ UNCHANGED <<files, cluster, pc, local>>

-----------------------------------------------------------------------------
(* Loading: read the service's own manifest, list the siblings, then read  *)
(* them one by one.  Files may change between the reads.                   *)

Goto(p, to) == pc' = [pc EXCEPT ![p] = to]

\* The process is over, or about to be: its variables are gone.
Forget(p) ==
  /\ unread' = [unread EXCEPT ![p] = {}]
  /\ plan' = [plan EXCEPT ![p] = None]
  /\ failed' = [failed EXCEPT ![p] = {}]
  /\ deployed' = [deployed EXCEPT ![p] = None]
  /\ waiting' = [waiting EXCEPT ![p] = {}]
  /\ playing' = [playing EXCEPT ![p] = Empty]

Begin(p, cmd, s, only) ==
  /\ pc[p] = "idle"
  /\ cmd \in Commands
  /\ only # None => cmd = "converge"
  /\ Exclusive => \A q \in Procs : ~OnService(q, s)
  /\ job' = [job EXCEPT ![p] =
               [cmd |-> cmd, svc |-> s, only |-> only, man |-> manifest[s]]]
  /\ IF manifest[s] # None /\ Resolves(manifest[s])
       THEN Goto(p, "listing") /\ unread' = [unread EXCEPT ![p] = Services \ {s}]
       ELSE Goto(p, "invalid") /\ UNCHANGED unread
  /\ UNCHANGED <<files, cluster, calm, plan, failed, deployed, waiting, playing>>

\* The siblings that have a manifest now.
List(p) ==
  /\ pc[p] = "listing"
  /\ Goto(p, "loading")
  /\ unread' = [unread EXCEPT ![p] = {o \in @ : manifest[o] # None}]
  /\ UNCHANGED <<files, cluster, calm, job, plan, failed, deployed, waiting, playing>>

\* One sibling.  One that does not resolve is skipped; one that is gone since
\* the listing is an error load_service does not catch.  The code collects the
\* conflicts and raises after the last read: nothing outside can tell.
ReadSibling(p, o) ==
  /\ pc[p] = "loading"
  /\ o \in unread[p]
  /\ IF manifest[o] = None
       THEN Goto(p, "error") /\ unread' = [unread EXCEPT ![p] = {}]
       ELSE IF Resolves(manifest[o]) /\ Conflict(job[p].man, manifest[o])
       THEN Goto(p, "invalid") /\ unread' = [unread EXCEPT ![p] = {}]
       ELSE UNCHANGED pc /\ unread' = [unread EXCEPT ![p] = @ \ {o}]
  /\ UNCHANGED <<files, cluster, calm, job, plan, failed, deployed, waiting, playing>>

\* Mutant: goes on before every sibling has been read.
LoadedEarly(p) == pc[p] = "loading"

Loaded(p) == pc[p] = "loading" /\ unread[p] = {}

\* Mutant: keeps variables that an earlier command wrote.
PrepareOnce(p) ==
  /\ Loaded(p)
  /\ job[p].cmd # "converge"
  /\ tfvars' = IF tfvars[Svc(p)] # None THEN tfvars
               ELSE [tfvars EXCEPT ![Svc(p)] = job[p].man]
  /\ Goto(p, IF job[p].cmd = "down" /\ tfstate[Svc(p)] = None
             THEN "error" ELSE "prepared")
  /\ UNCHANGED <<manifest, tfstate, outputs, inventory, cluster, calm, local>>

\* plan, up and down write the Terraform variables; down then needs a state.
Prepare(p) ==
  /\ Loaded(p)
  /\ job[p].cmd # "converge"
  /\ tfvars' = [tfvars EXCEPT ![Svc(p)] = job[p].man]
  /\ Goto(p, IF job[p].cmd = "down" /\ tfstate[Svc(p)] = None
             THEN "error" ELSE "prepared")
  /\ UNCHANGED <<manifest, tfstate, outputs, inventory, cluster, calm, local>>

-----------------------------------------------------------------------------
(* Terraform: one plan, apply or destroy against the service's state file, *)
(* which it locks.  It reads the tfvars file when it starts, not when pvc  *)
(* wrote it.  Hosts are independent: their steps come in any order.        *)

TfPlan(p) ==
  /\ pc[p] = "prepared" /\ job[p].cmd = "plan"
  /\ Goto(p, IF Locked(Svc(p)) THEN "error" ELSE "ok")
  /\ UNCHANGED <<files, cluster, calm, local>>

TfStart(p) ==
  /\ pc[p] = "prepared" /\ job[p].cmd \in {"up", "down"}
  /\ IF Locked(Svc(p))
       THEN Goto(p, "error") /\ UNCHANGED <<plan, failed>>
       ELSE /\ Goto(p, "applying")
            /\ plan' = [plan EXCEPT ![p] =
                          IF job[p].cmd = "up" THEN tfvars[Svc(p)] ELSE Empty]
            /\ failed' = [failed EXCEPT ![p] = {}]
  /\ UNCHANGED <<files, cluster, calm, job, unread, deployed, waiting, playing>>

\* A change that makes Terraform replace the VM: of its vm_id, or of its name,
\* which is part of its snippet's file name.
Replaces(g, h) == g.vm_id # h.vm_id \/ g.name # h.name

\* Recorded hosts the plan drops or replaces.
Doomed(p) == LET r == Resources(Svc(p)) IN
  {k \in DOMAIN r \ failed[p] : k \in DOMAIN plan[p] => Replaces(plan[p][k], r[k])}

Missing(p) == DOMAIN plan[p] \ (DOMAIN Resources(Svc(p)) \cup failed[p])

\* Recorded hosts that are changed in place.
Drifted(p) == LET r == Resources(Svc(p)) IN
  {k \in (DOMAIN r \cap DOMAIN plan[p]) \ failed[p] :
     ~Replaces(plan[p][k], r[k]) /\ plan[p][k] # r[k]}

\* Mutant: the state is not saved after a destroy.
TfDestroyUnsaved(p, k) ==
  /\ pc[p] = "applying" /\ k \in Doomed(p)
  /\ cluster' = [cluster EXCEPT ![tfstate[Svc(p)][k].vm_id] = None]
  /\ UNCHANGED <<files, calm, pc, local>>

\* A destroy has no use for outputs: they go before the first VM does.
TfDestroy(p, k) ==
  /\ pc[p] = "applying" /\ k \in Doomed(p)
  /\ cluster' = [cluster EXCEPT ![tfstate[Svc(p)][k].vm_id] = None]
  /\ tfstate' = [tfstate EXCEPT ![Svc(p)] = Without(@, k)]
  /\ outputs' = IF job[p].cmd = "down" THEN [outputs EXCEPT ![Svc(p)] = None] ELSE outputs
  /\ UNCHANGED <<manifest, tfvars, inventory, calm, pc, local>>

\* The address a host is booted with: its own, or a lease.
BootAddresses(h) == IF h.address # None THEN {h.address} ELSE FreeLeases

NewVM(s, k, h, ip) == [svc |-> s, key |-> k, host |-> h, ip |-> ip, conf |-> None]

TfCreate(p, k) ==
  /\ pc[p] = "applying" /\ k \in Missing(p)
  /\ LET h == plan[p][k] IN
       /\ cluster[h.vm_id] = None
       /\ \E ip \in BootAddresses(h) :
            cluster' = [cluster EXCEPT ![h.vm_id] = NewVM(Svc(p), k, h, ip)]
       /\ tfstate' = [tfstate EXCEPT ![Svc(p)] = With(Resources(Svc(p)), k, h)]
  /\ UNCHANGED <<manifest, tfvars, outputs, inventory, calm, pc, local>>

TfUpdate(p, k) ==
  /\ pc[p] = "applying" /\ k \in Drifted(p)
  /\ LET h == plan[p][k] IN
       /\ \E ip \in IF h.address = tfstate[Svc(p)][k].address
                     THEN {cluster[h.vm_id].ip} ELSE BootAddresses(h) :
            cluster' = [cluster EXCEPT ![h.vm_id].host = h, ![h.vm_id].ip = ip]
       /\ tfstate' = [tfstate EXCEPT ![Svc(p)][k] = h]
  /\ UNCHANGED <<manifest, tfvars, outputs, inventory, calm, pc, local>>

\* A host's change is refused: its vm_id is taken, or Proxmox fails.
TfFail(p, k) ==
  /\ pc[p] = "applying" /\ k \in Doomed(p) \cup Missing(p) \cup Drifted(p)
  /\ \/ ~calm
     \/ k \in Missing(p) /\ cluster[plan[p][k].vm_id] # None
  /\ failed' = [failed EXCEPT ![p] = @ \cup {k}]
  /\ UNCHANGED <<files, cluster, calm, pc, job, unread, plan, deployed, waiting, playing>>

\* What the guest agent may report for a VM: nothing yet, when it is slow.
Reported(m, silent) ==
  [k \in DOMAIN m |-> IF m[k].address # None THEN m[k].address
                      ELSE IF k \in silent THEN None
                      ELSE cluster[m[k].vm_id].ip]

\* An apply writes the outputs only when every host succeeded.
TfFinish(p) ==
  /\ pc[p] = "applying" /\ Doomed(p) \cup Missing(p) \cup Drifted(p) = {}
  /\ tfstate' = [tfstate EXCEPT ![Svc(p)] = Resources(Svc(p))]
  /\ Goto(p, IF failed[p] # {} THEN "error"
             ELSE IF job[p].cmd = "up" THEN "applied" ELSE "destroyed")
  /\ IF job[p].cmd = "down"
       THEN outputs' = [outputs EXCEPT ![Svc(p)] = None]
       ELSE IF failed[p] # {}
       THEN UNCHANGED outputs
       ELSE \E silent \in IF calm THEN {{}} ELSE SUBSET DOMAIN plan[p] :
              outputs' = [outputs EXCEPT ![Svc(p)] = Reported(plan[p], silent)]
  /\ plan' = [plan EXCEPT ![p] = None]
  /\ failed' = [failed EXCEPT ![p] = {}]
  /\ UNCHANGED <<manifest, tfvars, inventory, cluster, calm,
                 job, unread, deployed, waiting, playing>>

\* Mutant: leaves the inventory behind.
UnlinkNothing(p) ==
  /\ pc[p] = "destroyed"
  /\ Goto(p, "ok")
  /\ UNCHANGED <<files, cluster, calm, local>>

\* down, after Terraform: the generated inventory goes.
Unlink(p) ==
  /\ pc[p] = "destroyed"
  /\ inventory' = [inventory EXCEPT ![Svc(p)] = None]
  /\ Goto(p, "ok")
  /\ UNCHANGED <<manifest, tfvars, tfstate, outputs, cluster, calm, local>>

-----------------------------------------------------------------------------
(* Converging: read the outputs, wait for SSH, write the inventory, play.  *)

\* Mutant: only the manifest's own address.
ManifestAddress(p, k) == job[p].man[k].address

\* resolve_deployed_addresses and build_inventory use the same choice: what
\* was deployed, else the manifest's own static address.
Address(p, k) ==
  IF k \in DOMAIN deployed[p] /\ deployed[p][k] # None
    THEN deployed[p][k] ELSE job[p].man[k].address

\* The same, over the outputs just read.
Addressless(out, m) ==
  {k \in DOMAIN out \cap DOMAIN m : out[k] = None /\ m[k].address = None}

ReadOutputs(p) ==
  /\ \/ pc[p] = "applied"
     \/ Loaded(p) /\ job[p].cmd = "converge"
  /\ LET out == outputs[Svc(p)]
         m == job[p].man
         usable == /\ job[p].only # None => job[p].only \in DOMAIN m
                   /\ out # None
                   /\ Addressless(out, m) = {}
     IN IF usable
          THEN /\ Goto(p, "waiting")
               /\ deployed' = [deployed EXCEPT ![p] = out]
               /\ waiting' = [waiting EXCEPT ![p] = DOMAIN out \cap DOMAIN m]
          ELSE Goto(p, "error") /\ UNCHANGED <<deployed, waiting>>
  /\ UNCHANGED <<files, cluster, calm, job, unread, plan, failed, playing>>

Answers(ip) == \E v \in VMs : cluster[v].ip = ip

Connect(p, k) ==
  /\ pc[p] = "waiting" /\ k \in waiting[p]
  /\ Answers(Address(p, k))
  /\ waiting' = [waiting EXCEPT ![p] = @ \ {k}]
  /\ UNCHANGED <<files, cluster, calm, pc, job, unread, plan, failed, deployed, playing>>

WaitTimeout(p) ==
  /\ pc[p] = "waiting" /\ waiting[p] # {}
  /\ calm => \E k \in waiting[p] : ~Answers(Address(p, k))
  /\ Goto(p, "error") /\ Forget(p)
  /\ UNCHANGED <<files, cluster, calm, job>>

\* Mutant: an entry without an address is written all the same.
WriteInventoryUnchecked(p) ==
  /\ pc[p] = "waiting" /\ waiting[p] = {}
  /\ LET m == job[p].man IN
     /\ Goto(p, "ansible")
     /\ inventory' = [inventory EXCEPT ![Svc(p)] =
          [k \in DOMAIN m |-> [host |-> m[k], address |-> Address(p, k)]]]
  /\ UNCHANGED <<manifest, tfvars, tfstate, outputs, cluster, calm, local>>

\* Mutant: an inventory that is there is kept.
WriteInventoryOnce(p) ==
  /\ pc[p] = "waiting" /\ waiting[p] = {}
  /\ LET m == job[p].man IN
     /\ Goto(p, "ansible")
     /\ inventory' = IF inventory[Svc(p)] # None THEN inventory
                     ELSE [inventory EXCEPT ![Svc(p)] =
                       [k \in DOMAIN m |-> [host |-> m[k], address |-> Address(p, k)]]]
  /\ UNCHANGED <<manifest, tfvars, tfstate, outputs, cluster, calm, local>>

\* Every host of the manifest gets an entry, deployed or not.
WriteInventory(p) ==
  /\ pc[p] = "waiting" /\ waiting[p] = {}
  /\ LET m == job[p].man IN
     IF \E k \in DOMAIN m : Address(p, k) = None
       THEN Goto(p, "error") /\ UNCHANGED inventory
       ELSE /\ Goto(p, "ansible")
            /\ inventory' = [inventory EXCEPT ![Svc(p)] =
                 [k \in DOMAIN m |-> [host |-> m[k], address |-> Address(p, k)]]]
  /\ UNCHANGED <<manifest, tfvars, tfstate, outputs, cluster, calm, local>>

\* Ansible reads the file.  Without one it matches no host, which is an
\* error only under --limit.
StartPlay(p) ==
  /\ pc[p] = "ansible"
  /\ LET hosts == IF inventory[Svc(p)] = None THEN Empty ELSE inventory[Svc(p)]
         only == job[p].only
     IN IF only # None /\ only \notin DOMAIN hosts
          THEN Goto(p, "error") /\ UNCHANGED <<playing, failed>>
          ELSE /\ Goto(p, "playing")
               /\ failed' = [failed EXCEPT ![p] = {}]
               /\ playing' = [playing EXCEPT ![p] =
                    [k \in {j \in DOMAIN hosts : only # None => j = only} |-> hosts[k]]]
  /\ UNCHANGED <<files, cluster, calm, job, unread, plan, deployed, waiting>>

\* VMs that answer at an address and accept the service's key.
Reachable(s, ip) == {v \in VMsOf(s) : cluster[v].ip = ip}

PlayHost(p, k) ==
  /\ pc[p] = "playing" /\ k \in DOMAIN playing[p]
  /\ \E v \in Reachable(Svc(p), playing[p][k].address) :
       cluster' = [cluster EXCEPT ![v].conf = [key |-> k, host |-> playing[p][k].host]]
  /\ playing' = [playing EXCEPT ![p] = Without(@, k)]
  /\ UNCHANGED <<files, calm, pc, job, unread, plan, failed, deployed, waiting>>

\* A host that is unreachable, or on which a task fails, drops out.
PlayFail(p, k) ==
  /\ pc[p] = "playing" /\ k \in DOMAIN playing[p]
  /\ calm => Reachable(Svc(p), playing[p][k].address) = {}
  /\ failed' = [failed EXCEPT ![p] = @ \cup {k}]
  /\ playing' = [playing EXCEPT ![p] = Without(@, k)]
  /\ UNCHANGED <<files, cluster, calm, pc, job, unread, plan, deployed, waiting>>

\* Mutant: the exit code of ansible-playbook is not looked at.
PlayFinishAlways(p) ==
  /\ pc[p] = "playing" /\ DOMAIN playing[p] = {}
  /\ Goto(p, "ok") /\ Forget(p)
  /\ UNCHANGED <<files, cluster, calm, job>>

PlayFinish(p) ==
  /\ pc[p] = "playing" /\ DOMAIN playing[p] = {}
  /\ Goto(p, IF failed[p] = {} THEN "ok" ELSE "error") /\ Forget(p)
  /\ UNCHANGED <<files, cluster, calm, job>>

-----------------------------------------------------------------------------
(* Ends.                                                                   *)

\* A missing tool or secret, a declined prompt, Ctrl-C or a crash: the
\* command stops between two steps; a destroy perhaps without its outputs.
Abort(p) ==
  /\ ~calm /\ Running(p)
  /\ Goto(p, "error") /\ Forget(p)
  /\ \/ UNCHANGED outputs
     \/ /\ pc[p] = "applying" /\ job[p].cmd = "down"
        /\ outputs' = [outputs EXCEPT ![Svc(p)] = None]
  /\ UNCHANGED <<manifest, tfvars, tfstate, inventory, cluster, calm, job>>

\* Terraform is killed after Proxmox created the VM and before the state
\* file names it: the next run does not know this VM.
Orphan(p, k) ==
  /\ HardKills /\ ~calm
  /\ pc[p] = "applying" /\ k \in Missing(p)
  /\ LET h == plan[p][k] IN
       /\ cluster[h.vm_id] = None
       /\ \E ip \in BootAddresses(h) :
            cluster' = [cluster EXCEPT ![h.vm_id] = NewVM(Svc(p), k, h, ip)]
  /\ Goto(p, "error") /\ Forget(p)
  /\ UNCHANGED <<files, calm, job>>

\* The shell prompt is back.
Return(p) ==
  /\ pc[p] \in Ended
  /\ Goto(p, "idle") /\ Forget(p)
  /\ job' = [job EXCEPT ![p] = None]
  /\ UNCHANGED <<files, cluster, calm>>

-----------------------------------------------------------------------------
\* What a process does of itself once it has begun.
Step(p) ==
  \/ List(p)
  \/ \E o \in Services : ReadSibling(p, o)
  \/ Prepare(p)
  \/ TfPlan(p)
  \/ TfStart(p)
  \/ \E k \in Keys : TfDestroy(p, k) \/ TfCreate(p, k) \/ TfUpdate(p, k) \/ TfFail(p, k)
  \/ TfFinish(p)
  \/ Unlink(p)
  \/ ReadOutputs(p)
  \/ \E k \in Keys : Connect(p, k)
  \/ WaitTimeout(p)
  \/ WriteInventory(p)
  \/ StartPlay(p)
  \/ \E k \in Keys : PlayHost(p, k) \/ PlayFail(p, k)
  \/ PlayFinish(p)
  \/ Return(p)

Call(p) == \E cmd \in Commands, s \in Services, only \in Keys \cup {None} :
             Begin(p, cmd, s, only)

World ==
  \/ \E s \in Services : Edit(s)
  \/ \E v \in VmIds : NewLease(v)
  \/ Calm

Next ==
  \/ World
  \/ \E p \in Procs : Call(p) \/ Step(p) \/ Abort(p)
  \/ \E p \in Procs, k \in Keys : Orphan(p, k)

Spec == Init /\ [][Next]_vars

\* A command, once begun, keeps taking steps: no step waits for another
\* process (a held Terraform lock is an error, not a wait) and every wait of
\* the code has a timeout.  The operator keeps calling the retried commands.
FairSpec ==
  /\ Spec
  /\ \A p \in Procs : WF_vars(Step(p))
  /\ \A p \in Procs, s \in Services, cmd \in Retried :
       SF_vars(calm /\ Begin(p, cmd, s, None))

-----------------------------------------------------------------------------
(* Properties.                                                             *)

Places == {"idle", "listing", "loading", "prepared", "applying", "applied", "destroyed",
           "waiting", "ansible", "playing"} \cup Ended

\* Type invariant of the files and the cluster.
FilesOK ==
  /\ manifest \in [Services -> AllDrafts \cup {None}]
  /\ tfvars \in [Services -> AllDrafts \cup {None}]
  /\ DOMAIN tfstate = Services /\ DOMAIN outputs = Services /\ DOMAIN inventory = Services
  /\ \A s \in Services :
       /\ tfstate[s] # None => IsPartial(tfstate[s], Host)
       /\ outputs[s] # None => IsPartial(outputs[s], IPs \cup {None})
       /\ inventory[s] # None => IsPartial(inventory[s], Entries)
  /\ cluster \in [VmIds -> VM \cup {None}]
  /\ calm \in BOOLEAN

\* Type invariant of the processes.
ProcsTyped ==
  /\ pc \in [Procs -> Places]
  /\ job \in [Procs -> Jobs \cup {None}]
  /\ unread \in [Procs -> SUBSET Services]
  /\ plan \in [Procs -> AllDrafts \cup {Empty, None}]
  /\ failed \in [Procs -> SUBSET Keys]
  /\ waiting \in [Procs -> SUBSET Keys]
  /\ DOMAIN deployed = Procs /\ DOMAIN playing = Procs
  /\ \A p \in Procs :
       /\ deployed[p] # None => IsPartial(deployed[p], IPs \cup {None})
       /\ IsPartial(playing[p], Entries)

\* Beyond the types: a command past its load has a manifest that resolves,
\* Terraform starts only on variables that were written, and a command that
\* waits or plays has read the outputs.
ProcOK(p) ==
  /\ pc[p] # "idle" => job[p] \in Jobs
  /\ Running(p) => job[p].man # None /\ Resolves(job[p].man)
  /\ pc[p] = "prepared" => tfvars[Svc(p)] # None
  /\ pc[p] = "applying" => plan[p] \in AllDrafts \cup {Empty}
  /\ pc[p] \in {"waiting", "ansible"} => deployed[p] # None

TypeOK == FilesOK /\ ProcsTyped /\ \A p \in Procs : ProcOK(p)

\* No two virtual machines of the cluster share a vm_id, name, MAC, static
\* address or PCI mapping, whatever commands run at once (load_service's
\* cross-check against files that other processes act on later).
NoSharedIdentity ==
  \A v, w \in VMs : v # w => ~Clash(cluster[v].host, cluster[w].host)

\* The same as a specification: between any two states the cluster gains one
\* VM with an identity no other has, loses one, or stays as it is.
Hosts == [v \in VmIds |-> IF cluster[v] = None THEN None ELSE cluster[v].host]
Identities == INSTANCE Fleet WITH vms <- Hosts
ImplementsFleet == Identities!Spec

\* Host k of the state of s is a VM of s under that key, as recorded.
Stands(s, k) ==
  LET h == tfstate[s][k]
      vm == cluster[h.vm_id]
  IN vm # None /\ vm.svc = s /\ vm.key = k /\ vm.host = h

\* A Terraform state names only VMs its service has, as they are.
RecordedExists == \A s \in Services : \A k \in DOMAIN Resources(s) : Stands(s, k)

Recorded(v) ==
  LET s == cluster[v].svc
      k == cluster[v].key
  IN k \in DOMAIN Resources(s) /\ tfstate[s][k].vm_id = v

ExistingRecorded == \A v \in VMs : Recorded(v)

\* A Terraform state names exactly the VMs its service has: "the only record
\* of what exists in Proxmox for that service".
StateIsTheRecord == RecordedExists /\ ExistingRecorded

OwnEntry(vm) == [key |-> vm.key, host |-> vm.host]

\* The playbook that reached a VM carried that VM's own manifest entry: the
\* addresses of resolve_deployed_addresses and build_inventory lead to the
\* host they are listed under.
ConfiguredAsDeclared == \A v \in VMs : cluster[v].conf \in {None, OwnEntry(cluster[v])}

\* The same but for a host on a lease, which may get the entry of another host
\* on a lease: none with a static address gets the entry of another, and none
\* gets the entry of one with a static address.
StaticAsDeclared ==
  \A v \in VMs :
    \/ cluster[v].conf \in {None, OwnEntry(cluster[v])}
    \/ cluster[v].host.address = None /\ cluster[v].conf.host.address = None

\* A playbook that reaches a VM carries the entry of the host the VM was
\* deployed as.  An operator who runs converge after an edit, without an up in
\* between, may have another host at its address.
ConfiguredAsDeployed ==
  \A v \in VMs : cluster[v].conf # None => cluster[v].conf.key = cluster[v].key

Succeeded(p, cmd) == pc[p] = "ok" /\ job[p].cmd = cmd

\* Service s is what manifest m says: its VMs are exactly the hosts of m, each
\* as described and configured with its own entry.
Matches(s, m) ==
  /\ VMsOf(s) = {m[k].vm_id : k \in DOMAIN m}
  /\ \A k \in DOMAIN m :
       LET vm == cluster[m[k].vm_id] IN
       vm.host = m[k] /\ vm.conf = [key |-> k, host |-> m[k]]

\* After a successful up the service's VMs are exactly the hosts of the
\* manifest it loaded, each as described and each configured with its own
\* entry, whatever was deployed, half-deployed or edited before.
UpEstablishes ==
  \A p \in Procs : Succeeded(p, "up") => Matches(Svc(p), job[p].man)

\* After a successful down the service has no VM, no output and no
\* inventory, even when the manifest has changed since the last up.
DownLeavesNothing ==
  \A p \in Procs : Succeeded(p, "down") =>
    VMsOf(Svc(p)) = {} /\ outputs[Svc(p)] = None /\ inventory[Svc(p)] = None

\* "Each service can be created and destroyed independently": where a service
\* has a state and its own manifest is in order, no other manifest is a reason
\* to refuse its down.
DownStandsAlone ==
  \A p \in Procs : pc[p] = "invalid" /\ job[p].cmd = "down" =>
    tfstate[Svc(p)] = None \/ job[p].man = None \/ ~Resolves(job[p].man)

\* A manifest that load_service accepts whatever the order of its reads.
Loadable(s) ==
  /\ manifest[s] # None /\ Resolves(manifest[s])
  /\ \A o \in Services \ {s} : manifest[o] # None /\ Resolves(manifest[o]) =>
       ~Conflict(manifest[s], manifest[o])

\* Rerunning up recovers: whatever failed, was interrupted or was edited
\* halfway, once the faults stop and up is called again the service comes to
\* match its manifest, and stays so.
UpRecovers ==
  \A s \in Services :
    (calm /\ Loadable(s)) ~> [](manifest[s] # None /\ Matches(s, manifest[s]))

\* Every VM of s is as its manifest describes it, and an apply has succeeded.
Deployed(s) ==
  /\ outputs[s] # None /\ VMsOf(s) = {manifest[s][k].vm_id : k \in DOMAIN manifest[s]}
  /\ \A k \in DOMAIN manifest[s] : cluster[manifest[s][k].vm_id].host = manifest[s][k]

\* "Rerun in a moment", says a converge that has no address for a host: once
\* faults stop, rerunning it configures what has been deployed.
ConvergeCompletes ==
  \A s \in Services :
    (calm /\ Loadable(s) /\ Deployed(s)) ~> (manifest[s] # None /\ Matches(s, manifest[s]))
=============================================================================
