# A formal model of proxmox-commissioner

`pvc` turns one `service.yml` per service into virtual machines on a Proxmox
cluster: it resolves and cross-checks the manifest, drives Terraform with one
state file per service, reads the addresses back, waits for SSH, writes an
Ansible inventory and runs one playbook. This directory holds TLA+ modules for
that program, TLC configurations that check them on small instances, and
theorems about them that TLAPS checks for every value of the constants.

    tlc -config MCWorkflowEvolving.cfg MCWorkflow.tla
    tlc -config MCAnsibleOverlap.cfg MCAnsible.tla
    tlc -config MCSession.cfg MCSession.tla        (likewise MCScaffold, MCSite)
    for m in Workflow WorkflowCareful WorkflowPromise Ansible AnsibleOutcome \
             Session Scaffold Site; do tlapm ${m}Proofs.tla; done

## The system

| part | state it keeps | operations | talks to |
|---|---|---|---|
| command line (`pvc/cli.py`) | none | one function per command; an error ends the command with status 1 | everything below |
| service commands (`pvc/ops/workflows.py`) | local variables of one command | `new`, `plan`, `up`, `converge`, `down`, `ssh`, `status` | loader, Terraform, SSH wait, inventory, playbook |
| loader, cross-check (`pvc/manifest/loader.py`, `conflicts.py`) | `services/<s>/service.yml` | read one manifest, then every sibling; compare | resolver |
| resolver (`pvc/manifest/resolver.py`) | none | merge site, service and host layers; per-host and between-host checks | site model |
| site (`pvc/models/site.py`, `pvc/manifest/site.py`) | `site.yml` | load, validate | |
| scaffold (`pvc/manifest/scaffold.py`) | a new `service.yml` | next free vm_id, write | loader |
| Terraform driver (`pvc/providers/terraform.py`) | `.pvc/terraform.tfvars.json`, `.pvc/terraform.tfstate`, a throwaway ssh-agent | write tfvars, `init`, `plan`, `apply`, `destroy`, `output` | Terraform, Proxmox |
| VM module (`terraform/`) | resources in the state, the `hosts` output | create, change in place, replace, destroy | Proxmox, guest agent |
| inventory (`pvc/providers/inventory.py`) | `.pvc/inventory.yml` | build, write | |
| playbook (`pvc/providers/ansible.py`, `ansible/`) | what is configured on each VM | plays, roles, handlers | VMs over SSH |
| SSH wait (`pvc/utils/net.py`) | none | one thread per host until a deadline | VMs |
| secrets (`pvc/providers/secrets.py`) | `secrets.yml`, a temporary password file | decrypt, hand out | |
| keypairs (`pvc/utils/crypto.py`) | `<key_dir>/<service>{,.pub}` | create, repair | |
| site apply, site configure (`pvc/site/`, `terraform/site/`) | a Terraform state, an inventory | images and PCI mappings; exporters on the nodes | Terraform, Ansible |

Several commands may run at once, in several terminals, and the operator edits
files meanwhile. There is no lock of pvc's own. What two commands share is the
files and the cluster; the only mutual exclusion is the lock Terraform's local
backend takes on one service's state file for the length of a plan, apply or
destroy, and a command that finds it taken fails.

### What is hard here, and what makes each part correct

* **Cross-check against files, apply to a cluster.** `load_service` compares
  manifests, and Terraform acts later on what was written in between. Correct
  means: no two VMs share a vm_id, name, MAC, address or PCI mapping
  (`NoSharedIdentity`), and the cluster looks like a fleet whose members appear
  with fresh identities (`ImplementsFleet`).
* **The state file as the only record.** It must name VMs that exist, as they
  are (`RecordedExists`), and miss none (`StateIsTheRecord`), through failures,
  interrupted runs and edited manifests.
* **Addresses.** The output of the last apply is preferred to the manifest, both
  may be out of date, addresses are leased and reused. Correct would mean that a
  playbook run configures a VM with its own entry (`ConfiguredAsDeclared`), and with
  that of the host it was made from (`ConfiguredAsDeployed`). Both are false; what
  holds is that static hosts are not mixed up (`StaticAsDeclared`).
* **Promises of a command that exits 0.** After `up` the service is what the
  loaded manifest says (`UpEstablishes`); after `down` nothing is left
  (`DownLeavesNothing`).
* **Recovery.** Whatever failed halfway, running `up` again ends in the manifest
  (`UpRecovers`); running `converge` again does not always (`ConvergeCompletes`).
* **What a command makes for itself.** A throwaway ssh-agent, a temporary vault
  password file, a keypair in two files, the Ansible collections: made on the way,
  shared with other commands or not, and left behind by a failure, an interrupt or
  a kill. Correct means: nothing is left by a command that could clean up
  (`NothingLeft`), Terraform and Ansible find what they were promised
  (`TerraformHasAgent`, `SecretsReadable`, `CollectionsReady`), and the key pvc holds
  opens the VM (`KeyOpensVM`).
* **Manifests as written.** Five layers with three merging rules, then defaults,
  then checks (`ResolutionAgrees`); `validate` and `new` against an operator who is
  editing (`ValidatedApart`, `FreshIds`). That `new` overwrites nothing
  (`NewKeepsManifests`) is false.
* **One site for all.** `site apply` and `site configure` share one variables file,
  one state and one inventory, whatever `site.yml` said when each command read it
  (`ApplyEstablishes`, `ConfigureTouchesOnlyChosen`, `SiteStays`).
* **Playbook runs.** A run may fail at any task, take only some stages, meet a VM
  still booting, overlap with another. Correct means: SSH is never cut off
  (`NeverLockedOut`), a bad file never takes down sshd or nginx
  (`ValidatedStayUp`), a whole run fails by nothing but a fault or another run's
  lock (`WholeRunsHold`), a success left every file (`SuccessIsOnDisk`), the pinned
  release (`PinnedIsInstalled`) and every daemon (`SuccessIsLive`) as asked for, and
  rerunning gets there (`ConvergeRecovers`). All but
  `SuccessIsOnDisk` and `ConvergeRecovers` fail under conditions that the findings name.

## Modules

| module | what it is |
|---|---|
| `Manifest` | hosts, `Clash`, `Conflict` (`conflicts_between`), `Resolves` (`resolve_service`) as operators on manifests; `site.yml` as constants |
| `Fleet` | abstract specification: VMs appear one at a time with an identity no other has, and disappear |
| `Workflow` | the commands, step by step, with several processes, the operator, Terraform, Proxmox, DHCP and Ansible; the properties |
| `WorkflowInv` | the inductive invariant behind `NoSharedIdentity`, and the conditions on addresses that the theorems suppose |
| `MCWorkflow` | manifests and identities of the TLC runs |
| `WorkflowProofs` | `TypeCorrect`, `RecordSound`, `RecordComplete` |
| `WorkflowCarefulProofs` | `CarefulInvariant`, `IdentitiesApart`, `WorkflowImplementsFleet` |
| `WorkflowPromiseProofs` | `DownIsComplete`, `UpIsComplete`, `PlaybooksFindTheirHosts` |
| `SitePlaybook` | `site.yml`, `pve-hosts.yml` and their roles as sequences of tasks; role expansion |
| `Ansible` | playbook runs of any such sequence against one machine, with tags, handlers, faults and reruns; the properties |
| `AnsibleInv` | what a playbook has to be like for the properties to hold of it, and the inductive invariants that prove them |
| `MCAnsible` | machines and command lines of the TLC runs |
| `AnsibleProofs` | `RunsTypeCorrect`, `NotLockedOut` |
| `AnsibleOutcomeProofs` | `WholeRunsSucceed`, `AloneSucceeds`, `VitalStayUp`, `FilesArrive`, `DaemonsCurrent` |
| `Session` | the stages of every command between its start and its end that make or take away an agent, a password file, a keypair or the collections |
| `MCSession` | environments of the TLC run |
| `SessionProofs` | every property of `Session` |
| `Resolver` | from a `service.yml` as written to the hosts `Manifest` speaks of: the merging of layers and all checks of `resolve_service`, and a reference definition (`ResolvedRight`) that asks, field by field, which layer has the last word |
| `Scaffold` | `pvc new` and `pvc validate` file by file, while the operator saves files; extends `Resolver` |
| `MCScaffold` | files of the TLC run: each uses other layers or falls foul of another check |
| `ScaffoldProofs` | every property of `Scaffold` that holds |
| `Site` | `pvc site apply` and `pvc site configure`, Terraform's state of images and mappings, edits of `site.yml` |
| `MCSite` | drafts of `site.yml` of the TLC run |
| `SiteProofs` | `SiteTypeCorrect`, `OnlyChosenNodes`, `SiteApplyEstablishes` |

### How `Workflow` corresponds to the code

A process is one `pvc` invocation. `pc` says between which two external calls it
stands, `job` holds its command line and the manifest it loaded.

| `pc` | where in the code | actions that leave it |
|---|---|---|
| `idle` | no command | `Begin` (reads its own manifest) |
| `listing` | between that and `list_services` | `List` |
| `loading` | `load_service`'s loop | `ReadSibling`; then `Prepare`, or `ReadOutputs` for converge |
| `prepared` | tfvars written | `TfPlan`, `TfStart` |
| `applying` | inside `terraform apply` or `destroy` | `TfDestroy`, `TfCreate`, `TfUpdate`, `TfFail`, `TfFinish`, `Orphan` |
| `applied` | `converge_service` entered from up | `ReadOutputs` |
| `destroyed` | after `workspace.destroy` | `Unlink` |
| `waiting` | `wait_for_ssh` | `Connect`, `WaitTimeout`, `WriteInventory` |
| `ansible` | inventory written | `StartPlay` |
| `playing` | inside `ansible-playbook` | `PlayHost`, `PlayFail`, `PlayFinish` |
| `ok`, `error`, `invalid` | exit; `invalid` is the ConfigError of a load | `Return` |

`Abort` ends a command between any two steps: a missing tool or secret, a
declined prompt, Ctrl-C, a crash. `Forget` clears the local variables of a
process that has ended, so that two states that differ only in them are one.

Shared state, per service: `manifest` (absent: `None`), `tfvars` (the hosts of
the manifest last written there), `tfstate` (host key to recorded host; `None`
when there is no file), `outputs` (the `hosts` output, key to address), and
`inventory`. `cluster` maps a vm_id to the VM Proxmox has: whose it is, the host
it was made from, its address now, and the entry a playbook last configured it
with.

Abstractions, each of which a reader should know:

* A manifest is the function from host keys to resolved hosts: the merging of
  layers is done. A host keeps the fields a decision depends on. Every per-host
  check of `resolve_service` that is not about nodes and mappings has the effect
  of an unknown node, that the manifest does not resolve. `site.yml` is constant.
* The conflicts a load collects are raised at its first one: nothing outside the
  process can tell.
* Terraform's work on one host is one step; hosts come in any order, and what
  depends on a failed host is only that host. A replacement is a `TfDestroy` and
  a `TfCreate`; a new vm_id or a new name makes one (`Replaces`: the name is part of the
  snippet's file name, and so of `user_data_file_id`), while a new node is a change in
  place, which the module says "live-migrates instead of replacing". A destroy drops the stored outputs with the first VM. A change of
  address in place takes effect (Proxmox's reboot is part of the step). Terraform
  finds the cluster as its state left it: VMs are not changed out of band, except by
  `Orphan`, a hard kill between Proxmox's answer and the write of the state.
* The guest agent may be silent for any host until faults stop; then the address
  it reports is the VM's.
* A playbook is one step per host: it reaches a VM that has the address of the
  entry and accepts the service's key, and configures it with that entry, or it
  fails. Ansible with a missing inventory matches no host and exits 0, unless
  `--limit` names a group.

### How `Ansible` and `SitePlaybook` correspond to the code

A play is YAML, and Ansible interprets it; `SitePlaybook` holds what the YAML
says, role by role and in order, and `Ansible` what the tasks do. A task is a
record: its group (`hosts:`), its tags with those of its role and play, what it
does (`do`) on what (`on`), and the daemons its notified handlers restart
(`tell`).

| `do` | the tasks it stands for | action |
|---|---|---|
| `wait` | `cloud-init status --wait` | `Wait` |
| `install` | apt, a mount | `Install` |
| `issue` | `certbot certonly` with `creates` | `Install` |
| `write`, `push` | a file from variables; the filetree, copied as it is when the task runs | `Write`, `Push` |
| `validate`, `need` | `sshd -t`, `nginx -t`; a `stat` and a `fail` | `Check`, `Refuse` |
| `allow`, `enable` | UFW rules and state | `Allow`, `Enable` |
| `start`, `reload`, `up` | `state: started`, `state: reloaded`, `docker compose up` | `Start`, `Reload` |
| `once`, `script` | `kubeadm init`; `post-deploy.sh` | `Once` |
| `download`, `unpack` | the pinned release of smartctl_exporter | `Download`, `Unpack` |
| `flush` | `flush_handlers`, and the end of every play | `Handle`, `Flushed` |

`at[p]` is the task a run is at; `Follows` finds the next one its tags select
(`always`, `never`, `all` as Ansible has them, `TagOption` as pvc builds them).
The operator's variables and files are a version number, `want`, which an edit may set
to any other, an earlier one too; `disk` has the
version of each file, `live` the one each daemon was started with, `cache` the release
archives in the download directory. A run's
variables are those of its inventory (`asked`), and `seen` is the history of the versions
there have been since it began. A run that fails forgets its notified handlers.

`result` tells four ends apart: `ok`, `failed` by a task of the playbook, `faulted` by
something outside, and `locked`. The last is `Contend`: apt, certbot and docker compose
work under a lock (`Locking`), and a run that comes to such a task while another is at
one of the same kind may fail. The tasks of docker-install, webserver and the smartctl
exporter set no `lock_timeout` and wait for a minute, the others for 300 seconds, certbot
not at all; how long the other run takes is not known, so any such task may give up, and
any may get through. Two whole runs on one machine can therefore fail each other without
a fault.

Abstractions: hosts of one run do not affect one another, so there is one machine.
Tasks that only prepare the next (directories, keys, repositories, groups,
symlinks) belong to it. All files of one version are good or all are bad. The SSH
port does not change. A machine does not reboot between tasks. systemd may or may
not notice that a daemon with a bad file died. Left out: removal of nginx sites no
longer wanted, the optional UFW rule of node exporter, and the asserts on
variables, which fail a run before it does anything. A lock is per kind of work: that of
dpkg as taken by unattended-upgrades is a fault.

### How `Session` corresponds to the code

A process is one command, of any kind; the stages are the calls of
`plan_service`, `up_service`, `down_service`, `converge_service`, `site apply`,
`site configure`, `init` and `ssh` in their order, and which command takes which
stage is in `AfterSecrets` and `AfterTerraform`.

| `pc` | where in the code | actions that leave it |
|---|---|---|
| `secrets`, `register`, `view` | `load_secrets`, `_vault_password_file` | `SecretsPlain`, `SecretsByFile`, `SecretsAsked`, `Register`, `View`, `Unneeded` |
| `keygen` | `ensure_keypair`, the look at the private file | `Keygen` |
| `sshkeygen`, `keyfile`, `keypub` | inside `ssh-keygen` | `OpenPrivate`, `WritePrivate`, `WritePublic` |
| `public`, `derive`, `derived`, `readkey` | the look at the public file, `ssh-keygen -y`, the write of what it printed, the read for the variables | `LookPublic`, `Derive`, `WritePublic`, `ReadKey` |
| `agent`, `adopt`, `add` | `proxmox_ssh_agent` up to `ssh-add` | `UseAgent`, `StartAgent`, `AdoptAgent`, `AddKey` |
| `terraform`, `stop`, `restore` | its body and its `finally` | `Terraform`, `StopAgent`, `Restore` |
| `collections`, `galaxy`, `play` | `ensure_collections`, `ansible-galaxy`, the playbook | `EnsureCollections`, `Galaxy`, `Play` |
| `exec`, `copy` | `os.execvp`; the files of `init` | `Exec`, `Copy` |
| `exit`, `ended` | the atexit handlers; the prompt | `Exit`, `Return` |

`Fail` ends a stage by an error or Ctrl-C: through the `finally` where one is in
place (`Guarded`), else to the atexit handlers. `Killed` skips both. `cut` is the
history of what ended where nothing cleans up: kills, and the moment between a
resource and the handler that removes it. `ssh` replaces the interpreter by `execvp`,
so that no handler runs, and holds nothing that one would remove. A key file is absent,
holds the number of a key, or is torn (private) or blank (public); `key` is the public
key in a command's Terraform variables.

Any commands run at once, on one service too; `met` is the history of those that had
another beside them there. Two `up` of one new service may both find no private key
and both start `ssh-keygen`. What `ssh-keygen` does between its own look and its own
open is one step, `OpenPrivate`; the one that comes later finds a file and asks before
it overwrites, on a standard output that pvc captures, so that no operator sees the
question and says yes. From then on the two commands read, derive and write the same
two files in any order. `KeyOpensVM` says what they still promise: the playbook of an
`up` has the private key of the VM, unless a command it met has taken the VM down.
Policies: secrets are encrypted between commands; what a finished command left is
struck off when its prompt returns, since no later command names it.

### How `Resolver` and `Scaffold` correspond to the code

A file is `[network, defaults, hosts]` and a layer a function from the fields it sets to
values; a value that does not parse is `Malformed`. `Layers` is the order of
`resolve_service`, `Put` one turn of the loop of `_merge_layers` and `Merged` its five
turns, `HostOf` the resolved host, `Accepted` that no check finds a problem.
`ResolvedRight` says it again without merging: the last layer that sets a field wins,
roles are those of any layer, a variable is that of the last layer that has it.
`Scaffold` works `Resolution` out once for every file there can be, and has two
commands: `Validate`, `LoadOwn`, `ListSiblings`, `LoadSibling`, `LoadDone`, and `New`
(the look for the manifest), `ListAll`, `Scan`, `Open`, `Write` (the write empties the
file first). Of the checks on one host, those on the text of a nameserver and of a name
are taken as done by the parser: such a value is `Malformed`. `Save` is the operator's
editor; nothing prevents it between any two reads. `untouched` and `checked` are
history: which files have not changed since a command went by them, and which services
are validated as they are. Two `new` at once may read the others' files before either
writes, and then hand out the same vm_ids; the next `validate` or `up` reports it, and
`FreshIds` speaks of files that have not changed.

### How `Site` corresponds to the code

A resource is an image on a node or a PCI mapping, and `state` and `real` have its
arguments or `None`. `WriteTfvars` is `build_site_tfvars`; `Lock` the start of
`terraform apply`, which refreshes the state and reads the variables as they are by
then; `Change` one resource in any order: a download whose arguments changed is
removed and made anew, may overwrite a file that is there, and a mapping is changed in
place and refuses to be created where one is. `CutShort` is a kill between the
change and the state that records it, `Lose` an image or mapping removed by other
means, `RemoveOrphan` the operator who removes a mapping no state has. The
inventory of the nodes lists all of them with `configure: true`, `--node` is left to
`--limit`; the playbook reads whatever inventory there is by then. `met` is the history of
the nodes that a configure, or one at work at the same time, was to configure:
`ConfigureTouchesOnlyChosen` promises no more than that, and so excuses a run that reads
the inventory another has just overwritten.

### The operator's policies

What is promised depends on what the operator does, so the model has it as
constants: `Careful` (a manifest changes only while its service has no VM and no
command running), `Exclusive` (one command per service at a time; commands on
different services always overlap), `LeasesMove` (DHCP may change a running VM's
address), `HardKills` (Terraform may die inside a create), `Settles` (faults,
edits and lease changes stop for good at some moment, `calm`). None of them is
something the code enforces; each run names the ones it assumes, and the runs
that expect a violation show what happens without: `shared` and `MCWorkflowHanded` without
`Careful`. `Session`, `Scaffold` and `Site` assume none of them.

## Runs

Runs that pass:

| run | world | what it shows |
|---|---|---|
| `careful` | 2 services, 2 processes, 1 host each, rival drafts over one PCI device, `Careful`, hard kills | `RecordedExists`, `NoSharedIdentity`, the inductive `CarefulInv`, refinement of `Fleet` |
| `addressed` | 1 service, 2 processes, 2 host keys; drafts hand k1's vm_id and address to k2, or have both hosts on leases; up, converge (also `--host`), down; `Careful`, hard kills, leases that move | `StaticAsDeclared` |
| `evolving` | 1 service, 1 process, 2 host keys; a vm_id and an address change hands or an address moves in place; edits at any step; 2 leases | `TypeOK`, `UpEstablishes`, `DownLeavesNothing`, `StateIsTheRecord` |
| `recovery` | 1 service, 1 process, two hosts that trade vm_id, name and address, or one that takes only the name of the other; leases that move, `Settles`, fairness | `UpRecovers` |
| `overlap` | base, nginx, docker, compose; 2 playbook runs at once, whole with the script or `--tags ssh --post-deploy`; first boot, faults, locks | `NeverLockedOut`, `WholeRunsHold` |
| `converges` | base and nginx; whole or `--tags files`; 2 versions of the files, the second bad, edits either way; faults, `Settles`, fairness | `ValidatedStayUp`, `SuccessIsOnDisk`, `ConvergeRecovers` |
| `nodes` | `pve-hosts.yml`; whole or `--tags monitoring`; 3 versions in any order, no faults | `SuccessIsOnDisk`, `SuccessIsLive` |
| `session` | 2 commands of any kind, on 1 service or none, 2 keypairs; a throwaway agent over the operator's with the password asked for, the operator's alone or none with a password file; failure, Ctrl-C and kill at every stage | `TypeOK`, `NothingLeft`, `TerraformHasAgent`, `SecretsReadable`, `KeyOpensVM`, `CollectionsReady` |
| `scaffold` | 2 services, 2 commands of `new` and `validate`, 7 drafts, unreadable files, edits at any step | `TypeOK`, `ValidatedApart`, `FreshIds`, `ResolutionAgrees` |
| `site` | 2 nodes, 1 image, 1 mapping, 4 drafts of `site.yml` (one invalid), 2 commands, 1 edit, 1 fault, fairness | `TypeOK`, `ConfigureTouchesOnlyChosen`, `ApplyEstablishes`, `SiteStays` |

Runs that find a violation, each a finding below:

| run | world | what does not hold |
|---|---|---|
| `shared` | the world of `careful`, 1 process, manifests edited at will | `NoSharedIdentity` |
| `locked_out` | base and nginx, whole or `--tags nginx`, no faults | `NeverLockedOut` |

Counterexamples. Nine more configurations state what one might expect of the code and
have TLC show, in seconds, how it fails. They are not among the runs of PROJECT.json,
and nothing that is proved or checked depends on them; they explain why the properties
that do hold are no stronger.

| configuration | world | what does not hold |
|---|---|---|
| `MCWorkflowRefused` | the world of `careful`, 1 process | `DownStandsAlone` |
| `MCWorkflowSwapped` | 1 service, 1 process, 2 hosts on 3 leases that move, `Careful` | `ConfiguredAsDeclared` |
| `MCWorkflowHanded` | 1 service, 1 process; a draft gives the address of k1 to the new k2 | `ConfiguredAsDeployed` |
| `MCWorkflowUnreported` | 1 service, 1 process, 1 host on a lease, `Careful`; once calm, `converge` is run again and again (fairness) | `ConvergeCompletes` |
| `MCAnsibleKubernetes` | base and Kubernetes, whole runs, no faults | `WholeRunsHold` |
| `MCAnsibleRaced` | base and nginx, 2 whole runs at once, 2 versions, one bad, no faults | `ValidatedStayUp` |
| `MCAnsibleRollback` | `pve-hosts.yml`, whole runs, 2 versions, no faults | `PinnedIsInstalled` |
| `MCAnsibleUnrestarted` | base and nginx, whole runs, 2 versions, faults | `SuccessIsLive` |
| `MCScaffoldOverwrite` | the world of `scaffold` | `NewKeepsManifests` |

Bounds. `session`: agents and password files are named for their process and collections
are shared by all, so two commands show every interference; keypairs are per service,
and two of them tell a replaced one from the first; own agent and password file do not
touch each other, so three setups meet every stage. `scaffold`: conflicts are between
two services; two commands are a reader and a writer, or two of either; `MaxVmId` leaves
room for two scaffolds of two hosts above `Start`. `site`: two commands are two applies,
two configures or one of each; one edit and one fault suffice for every step to be met
by a `site.yml` that has changed and by a state that lags behind; a valid file always
follows one that is not. The theorems need none of these bounds. Of the rest: two
services and two processes are the least that can race, and a third adds no new pair:
every property about services or VMs speaks of two. Two host keys allow a key to be
dropped, renamed or to trade places with another; two vm_ids and two addresses allow
each to be contested. Two leases let a host that is made again get another address than
before; `MCWorkflowSwapped` has a third, by which two running hosts trade theirs. Every
set is finite and what counts stays below a named bound (`MaxWant`, `MaxKeys`,
`MaxVmId`, `MaxEdits`, `MaxFaults`), so the state spaces are complete: there is no depth
bound. Deadlock is checked in every run. Processes are interchangeable, so the safety
runs with two use symmetry; the liveness runs do not.

For playbook runs one process is enough where the question is what a sequence of runs
leaves; two are used where they race. Two versions tell old from new, and the operator
can go back from a bad one to the good one; a third, on the nodes, lets a release in the
cache be neither the one installed nor the one asked for. The groups are chosen for what
the plays have to say to each other: nginx and compose hosts need files an earlier play
pushes, and both nginx and the base play touch the firewall. The plays for NFS,
cloudflared and GitLab depend on no other and are in no run; Kubernetes is taken in
`MCAnsibleKubernetes`, and the node exporter on the nodes. `ValidatedStayUp` is checked
with one process because with two it is false (`MCAnsibleRaced`: one run restarts sshd
with the file the other has just written). `SuccessIsLive` is checked on the nodes and
without faults: a fault breaks it (`MCAnsibleUnrestarted`), and on a VM Docker's
override does (below).

Fairness. `FairSpec` asks weak fairness of each process's own steps. No step of
pvc waits for another process (a held lock is an error) and every wait has a
timeout, so a command always goes on; weak fairness is what the scheduler gives.
Strong fairness of calling a retried command once things are calm says that the
operator does rerun it. `Abort` and `Edit` have no fairness and stop with `calm`:
without that, an operator who interrupts every run would refute any recovery.
In `Site` each stage of an apply is fair, a configure ends (every wait and every
login has a timeout), and the operator runs `site apply` again and again (strong
fairness, since another command may be in the way: a held lock is an error) and
removes a mapping that no state records. Edits, losses, kills and failures are
bounded and have no fairness, and so stop.
In `Ansible` likewise: a task is always followed by the next, cloud-init ends, and
the operator runs the whole playbook again once faults and edits have stopped.

## Findings

Each is a run or a configuration whose trace is a short story. Two are runs of PROJECT.json,
which quotes the line of the repository they disagree with:

* `shared`: the cross-check compares manifests as they are, not what is deployed.
  Edit a manifest so that it drops a device, and before `up` is run a second
  service can take the device its VM still holds. The user guide says the same
  mapping cannot be used by two hosts even in different services.
* `locked_out`: the nginx play enables the firewall having allowed HTTP only.
  `converge --tags nginx` as the first run on a VM leaves nobody able to log in.

The others are configurations:

* `MCWorkflowRefused`: `down` is refused when a sibling manifest conflicts with the
  service's, since it loads the manifest as `up` does, although Terraform destroys from
  the state and the guide says that services can be destroyed independently.
* `MCWorkflowSwapped`: two hosts of a service come to have each other's lease after an
  `up`; `converge` goes by the addresses that apply stored and configures each as the
  other.
* `MCWorkflowHanded`: a manifest gives the address of a deployed host to a new one, and
  `converge` is run without `up`. The new host has no output; it is not waited for, its
  address is that of the manifest, and the old VM there is configured as the new host.
* `MCWorkflowUnreported`: `converge` asks to be rerun in a moment for a host whose
  address the guest agent has not reported. It reads the outputs the last apply stored,
  so an address reported later never reaches it, until `up` is run.
* `MCAnsibleKubernetes`: `kubeadm init` has no guard; every later converge of such a
  host fails there.
* `MCAnsibleRaced`: a run validates its sshd drop-in, another writes a bad one in its
  place, and the first restarts sshd with it.
* `MCAnsibleRollback`: `smartctl_exporter_version` is set back to a release whose
  archive is still in the download directory. `get_url` reports no change and a binary
  is there, so that nothing is unpacked, and the run succeeds with the other release.
* `MCAnsibleUnrestarted`: a run that is interrupted after a change and before the
  handlers at the end of the play leaves the daemon unrestarted, and no rerun notices.
* `MCScaffoldOverwrite`: `pvc new` looks for the manifest before it reads all others and
  not again before it writes; one that is saved in between is lost.

Seen while modelling, and not given a configuration of their own:

* The handler "Reload systemd and restart Docker" never restarts Docker, because
  reloading systemd reports no change to notify of (`DaemonReloadChanges`).
* A run that fails between the download and the install of a new smartctl_exporter
  leaves the old binary to every later run, as in `MCAnsibleRollback`.
* Two overlapping whole runs may fail each other at the lock of apt, certbot or compose
  (`Contend`); `WholeRunsHold` allows it.
* Two `pvc new` at once may hand out the same vm_ids.
* An empty `.pub` (the write of what `ssh-keygen -y` printed was cut) ends every command
  with the advice to delete both files. The next `up` then generates a key, and so
  replaces the VMs (`DiscardKeys`); deleting the `.pub` alone would have it derived (`Derive`).
* `ensure_collections` looks for one collection of those it installs; an install cut
  after that one is never completed, and a second command may start its playbook
  while the first one's install is under way (`CollectionsReady` says exactly this).
* `next_free_vm_id` counts vm_ids written as numbers; a vm_id in quotes resolves and
  is not counted (`Numbers`), so that a scaffold may need its vm_id changed.
* `<service>-<host>` is not injective: service `a-b` with host `c` and `a` with `b-c` get
  one name; the cross-check reports it.
* A `site configure` may read the inventory that another has just written, and goes by it.
* A PCI mapping that exists and is in no state stops `site apply` until it is removed by
  hand; images in the same position are overwritten.

## Proofs

The assumptions are the named ones in `Manifest` and `Workflow`: site mappings
name site nodes, drafts are non-empty manifests over the keys, commands and
policies are among those known, and `None` is none of the values it stands for;
in `Ansible`, that a playbook is a sequence of tasks; in `Session`, that the operator
and the values for no file, half a key and an empty file are none of the processes
and keys (`NamesApart`); in `Resolver`, that a MAC in upper case is one of the MACs and `None` none
(`UpperAssumption`); in `Scaffold`, that a file has finitely many hosts and that the
bound on vm_ids is above the first one and above those the operator writes
(`FilesAssumption`, `DraftsAssumption`); in `Site`, that the drafts speak of the nodes
and `None` is none of them. But for that bound no constant is bounded; the sets
need not be finite.

Some theorems suppose more, and say so in their statement: a policy of the operator
(`Careful`, `Exclusive`, no hard kills), something about the addresses
(`WorkflowInv`), or something about the playbook (`AnsibleInv`). The MC modules
have TLC evaluate the suppositions about addresses and playbooks for the instances of
the runs, and those about playbooks for the plays of the repository as they are.

* `TypeCorrect`. `TypeOK` carries its own strengthening, `ProcOK`: a process past
  its load has a manifest, one that starts Terraform finds tfvars, one that waits
  has outputs. Without it the functions applied in later steps could be `None`.
* `RecordSound`. `RecordedExists` is inductive with `TypeOK`: a create requires a
  free vm_id, so no other service's record can name it, and a destroy or a change
  acts on the VM the record names. It holds with hard kills and any policy.
* `RecordComplete`. Without hard kills the converse is inductive too, because a
  VM and its record change in the same step.
* `IdentitiesApart`. `NoSharedIdentity` alone is not inductive: the moment before
  a clash there are two commands with conflicting manifests and no VM. `CarefulInv`
  adds that VMs and all copies of a manifest in flight equal the manifest on disk
  (nobody edits one in use), and `Apart`: of two services that `Hold` something,
  each having VMs or a command that has looked at the other, the manifests do not
  conflict. It is the argument of two flags: a command reads its own manifest,
  which from then on cannot change, before it looks at a sibling's; of two
  commands the later reader sees the other's final manifest.
* `WorkflowImplementsFleet`. A create or an orphan maps to `Claim`, whose guard is
  `IdentitiesApart` in the next state; a destroy to `Release`; a change in place
  cannot happen under `Careful` (the record equals the plan), and all else stutters.
* `DownIsComplete`. The manifest plays no part: `DownInv` says that a command is alone
  on its service (`Exclusive`), that a `down` which has got to Terraform plans for the
  empty set of hosts, and what its stages have emptied. With `StateIsTheRecord` an
  empty state means that no VM is left, which is why hard kills are excluded.
* `UpIsComplete`. `UpInv` follows an `up` stage by stage: what is recorded is what the
  plan says, as far as Terraform has come; the outputs give each host its address;
  the inventory holds exactly the entries of the manifest the command read; the
  hosts already played have their entry. Two facts carry it from stage to stage: other
  commands touch other services only, and addresses of VMs do not change under it,
  which takes `~LeasesMove` and `PoolApart` (DHCP leases no address that a manifest
  declares; otherwise an entry could lead to another VM of the service).
* `PlaybooksFindTheirHosts`. `StaticAsDeclared` speaks of any number of commands on
  one service, of leases that move and of kills, for an operator who edits no manifest
  in use (`Careful`) and a DHCP pool apart from the addresses in manifests (`PoolApart`).
  A vm_id or an address may pass from one key to another between deployments. `FitInv`
  says of every set of addresses a command has or a file holds (outputs, inventory, and
  each process's own copies) that it *fits* the manifest: a declared host is at its
  declared address, and only leased hosts are at leases. The entry of a static host then
  leads to no VM of its service but its own, and a static host's VM is reached by no
  other entry. Two leased hosts are outside: `MCWorkflowSwapped` shows that they can be mixed up.
  So is an operator who edits a manifest in use: `MCWorkflowHanded` shows what happens. What is left
  to go wrong, and what the proof is about, is that the manifest, the outputs and the
  inventory are read at different moments by commands that race, fail and are killed.

* `RunsTypeCorrect`, `NotLockedOut`. The second supposes `AllowFirst`: in every run
  the tags allow, a task that enables UFW comes after one that allows SSH.
  `NeverLockedOut` is not inductive, since a run about to enable the firewall must
  know that SSH is allowed by now; `FirewallInv` adds that a run is at a task its
  tags select (`OnRoute`) and that all ports its earlier tasks were to allow are
  allowed (`AllowedSoFar`), which no other run undoes. TLC finds `AllowFirst` true
  of every run but `locked_out`.
* `WholeRunsSucceed`, `AloneSucceeds`. Suppose `Orderly`: in a run of the whole playbook,
  what is installed comes after cloud-init is awaited, containers come after Docker, a file
  that is asked for comes after the task that makes it, and nothing is meant to work once
  only, which excludes Kubernetes (`MCAnsibleKubernetes`). `DoneInv`: what a run's earlier tasks were
  to provide is there, and nobody takes it away. Two runs may still fail each other at a
  lock; `AloneSucceeds` says that this is all: one run at a time, without faults, ends well.
* `VitalStayUp`. Supposes `Validated`: between each task that notifies sshd or nginx and
  the flush that runs the handler, the file is validated and not made again. `ValidInv`
  carries two facts: what is notified was notified by a task already behind, and what
  was validated is not bad as long as no later task made it anew. One run at a time.
* `FilesArrive`. Supposes one run at a time and `FilesTaken`, `MadeOneWay`,
  `DownloadsFirst`: a whole run takes every file task, each file is made in one way, a
  release is downloaded before it is unpacked. `MadeSoFar` follows a run past its file
  tasks: a file from variables has the version the run began with, a pushed one a version
  there has been since (`seen`), a release that the run itself fetched is installed.
  Versions go back and forth and faults are included. Nothing is said of a release found
  in the cache: that it is installed is false (`MCAnsibleRollback`).
* `DaemonsCurrent`. Supposes `ChangesTold`: who makes a daemon's file notifies the daemon,
  with a flush later in every run that does so. `LiveInv`: a daemon whose file is newer
  than what it runs with is awaited by a run that will come to a flush. A run that failed
  would have forgotten it, hence no faults and no bad files.

* `SessionProofs`. The invariant is `TypeOK`, `Held` (which resources a process holds at
  which stage, and that it will come past the clause that gives each of them up),
  `Keys` and `Collected` (an install that stopped or goes on is known). None of the
  properties is inductive without the table of what is held where. `Keys` holds for any
  number of commands on one service and has three parts: commands that share a service
  know it, and one alone fills a new private file (`Company`); a public key is that of the
  private key beside it (`Paired`); and what a command has established by its stage still
  stands, up to the VM that accepts the key in its Terraform variables (`Stage`).
* `ValidatedStayApart`. Again two flags: `Looked(s, o)` says that s is validated, or that
  a validate of s has gone past o without a conflict, and that s has not changed since
  it was read. Of two services that have both, the one that was looked at later was
  read as it is. It leaves `Resolution` open, and so holds for any site
  and any rules of resolution.
* `NewIdsAreFresh`, `ScaffoldTypeCorrect`. `CountInv`: as long as a file has not changed, a
  `new` that has passed it has counted at least its vm_ids, and at least `Start - 1`.
  That the highest of the vm_ids seen exists at all (`Greatest`) is induction over a
  finite set, by well-foundedness of its proper subsets.
* `ResolvesRight`. `SoFar(m, ls, n)` is the reference definition for the first n layers:
  merging one more keeps it (`OneLayerMore`), five times. That an accepted file satisfies
  `Resolves` joins the two descriptions of `resolve_service` in this project: what
  `Workflow` takes for a manifest that resolves is what `Resolver` accepts.
* `SiteApplyEstablishes`. `Agreed`: while an apply is at work that met no other `site.yml`,
  every apply goes by the `site.yml` there is, so that the variables are its own
  whoever wrote them; `Refreshed`: while Terraform holds the lock, what its state
  records is there. The step that ends an apply with nothing due changes nothing
  (`SuccessIsStill`). `OnlyChosenNodes` needs `Met`: the inventory a playbook reads was
  written by a command it has met, and no more can be promised of it.

Every safety property that a passing run checks is stated by a theorem. Only
model-checked are `UpRecovers`, `ConvergeRecovers` and `SiteStays`: liveness under
fairness is out of the provers' reach. Each passing run is an instance of what the
theorems about its properties suppose; the runs that expect a violation are not.

## Not modelled, and the plan

In order of importance:

1. The composition of `Site` and `Workflow`: a mapping or an image taken out of
   `site.yml` while VMs use it. `site.yml` is constant in `Workflow`, where every load
   would have to take it as one more file.
2. An abstract specification of one service (absent, partial, as declared) that
   `Workflow` refines under `Exclusive`, on top of `DownIsComplete` and `UpIsComplete`.
3. Several hosts of one playbook run with `--limit`.
4. Time: the deadline of the SSH wait, of which `Workflow` says only that it may pass.

`status` reads what `Workflow` has and changes nothing. `errors.py`, `paths.py` and
`utils/yaml.py` hold types, paths and parsing: a file is blank, broken or a value here.
`hash_password` is one call of openssl without state. `utils/process.py` is an exit
status in every module. The documentation is read for what it promises.

Left out for good: the text of messages, YAML and JSON syntax, the password hash,
VM sizing, the content of cloud-init and of packages on the VMs, and Proxmox
changed by hand.
