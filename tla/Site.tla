-------------------------------- MODULE Site --------------------------------
(***************************************************************************)
(* The cluster-wide commands, pvc site apply and pvc site configure        *)
(* (pvc/site/, build_site_tfvars, models/site.py, terraform/site/main.tf): *)
(* one Terraform state for the images of every node and the PCI mappings,  *)
(* and one inventory of the Proxmox nodes, while site.yml is edited.       *)
(*                                                                         *)
(* site.yml is [store, images, nodes, mappings]: images map a name to a    *)
(* URL, nodes to whether they are configured, mappings to their nodes.     *)
(***************************************************************************)
EXTENDS Naturals

CONSTANTS
  Nodes, Images, Mappings, Procs,
  Drafts,     \* what the operator may save as site.yml
  None,
  MaxEdits,   \* bound: edits of site.yml
  MaxFaults   \* bound: stages that fail, kills, and resources lost

ASSUME SiteAssumption ==
  /\ None \notin Drafts \cup Procs \cup Nodes
  /\ \A f \in Drafts : DOMAIN f.nodes \subseteq Nodes
  /\ MaxEdits \in Nat /\ MaxFaults \in Nat

VARIABLES
  site,       \* site.yml
  tfvars,     \* the site's terraform.tfvars.json: what it asks for, by resource
  goal,       \* the same, as read by the apply that holds the lock
  state,      \* the site's Terraform state
  real,       \* the files on the nodes and the mappings of the datacenter
  lock,       \* the process whose Terraform holds the state
  inventory,  \* nodes in the generated inventory of the nodes
  pc,
  read,       \* the site.yml a process read
  only,       \* its --node option
  alone,      \* history: applies that met none with another site.yml, nor an edit
  met,        \* history: nodes a configure, or one at the same time, read as its own
  touched,    \* nodes its playbook logged in to
  edits, faults

terraform == <<tfvars, goal, state, real, lock>>
hosts == <<inventory, only, met, touched>>
vars == <<site, terraform, hosts, pc, read, alone, edits, faults>>

Downloads == Nodes \X Images
Resources == Downloads \cup Mappings

\* SiteConfig's own check.
Valid(f) ==
  /\ DOMAIN f.nodes # {}
  /\ \A m \in DOMAIN f.mappings : f.mappings[m] # {} /\ f.mappings[m] \subseteq DOMAIN f.nodes

\* Every image on every node, and the mappings; a resource is None or its arguments.
Wanted(f) ==
  [r \in Resources |->
     IF r \in Mappings THEN IF r \in DOMAIN f.mappings THEN [on |-> f.mappings[r]] ELSE None
     ELSE IF r[1] \in DOMAIN f.nodes /\ r[2] \in DOMAIN f.images
            THEN [store |-> f.store, url |-> f.images[r[2]]] ELSE None]

Configurable(f) == {n \in DOMAIN f.nodes : f.nodes[n]}

Nothing == [r \in Resources |-> None]

Init ==
  /\ site \in Drafts
  /\ tfvars = Nothing /\ goal = Nothing /\ state = Nothing /\ real = Nothing
  /\ lock = None /\ inventory = {}
  /\ pc = [p \in Procs |-> "idle"]
  /\ read = [p \in Procs |-> None]
  /\ only = [p \in Procs |-> None]
  /\ alone = {}
  /\ met = [p \in Procs |-> {}]
  /\ touched = [p \in Procs |-> {}]
  /\ edits = 0 /\ faults = 0

Goto(p, to) == pc' = [pc EXCEPT ![p] = to]
Applies == {p \in Procs : pc[p] \in {"write", "lock", "apply"}}
Configures == {p \in Procs : pc[p] \in {"inventory", "wait", "play"}}

-----------------------------------------------------------------------------
(* The operator, and the world.                                            *)

\* A file that is not valid is always put right.
Edit ==
  /\ site' \in Drafts \ {site}
  /\ IF edits < MaxEdits THEN edits' = edits + 1
     ELSE ~Valid(site) /\ Valid(site') /\ UNCHANGED edits
  /\ alone' = {}
  /\ UNCHANGED <<terraform, hosts, pc, read, faults>>

\* An image or a mapping is removed by other means.
Lose(r) ==
  /\ faults < MaxFaults /\ lock = None /\ real[r] # None
  /\ real' = [real EXCEPT ![r] = None]
  /\ faults' = faults + 1
  /\ UNCHANGED <<site, tfvars, goal, state, lock, hosts, pc, read, alone, edits>>

\* A mapping that no state records is in the way of an apply.
RemoveOrphan(m) ==
  /\ state[m] = None /\ real[m] # None
  /\ real' = [real EXCEPT ![m] = None]
  /\ UNCHANGED <<site, tfvars, goal, state, lock, hosts, pc, read, alone, edits, faults>>

-----------------------------------------------------------------------------
(* pvc site apply.                                                         *)

\* The process ends; Terraform, if it runs, releases its lock.
Over(p) ==
  /\ Goto(p, "idle")
  /\ read' = [read EXCEPT ![p] = None]
  /\ alone' = alone \ {p}
  /\ lock' = IF lock = p THEN None ELSE lock
  /\ goal' = IF lock = p THEN Nothing ELSE goal

BeginApply(p) ==
  /\ pc[p] = "idle" /\ Valid(site)
  /\ Goto(p, "write")
  /\ read' = [read EXCEPT ![p] = site]
  /\ alone' = IF \E q \in Applies : read[q] # site THEN alone ELSE alone \cup {p}
  /\ UNCHANGED <<site, terraform, hosts, edits, faults>>

\* Secrets, then the variables.
WriteTfvars(p) ==
  /\ pc[p] = "write"
  /\ tfvars' = Wanted(read[p])
  /\ Goto(p, "lock")
  /\ UNCHANGED <<site, goal, state, real, lock, hosts, read, alone, edits, faults>>

\* Mutant: the state is not refreshed.
LockTrusting(p) ==
  /\ pc[p] = "lock" /\ lock = None
  /\ lock' = p /\ goal' = tfvars
  /\ Goto(p, "apply")
  /\ UNCHANGED <<site, tfvars, state, real, hosts, read, alone, edits, faults>>

\* Mutant: -lock=false among the arguments.
LockUnguarded(p) ==
  /\ pc[p] = "lock"
  /\ lock' = p /\ goal' = tfvars
  /\ state' = [r \in Resources |-> IF state[r] = None THEN None ELSE real[r]]
  /\ Goto(p, "apply")
  /\ UNCHANGED <<site, tfvars, real, hosts, read, alone, edits, faults>>

\* terraform apply takes the lock, refreshes the state and reads the variables.
Lock(p) ==
  /\ pc[p] = "lock" /\ lock = None
  /\ lock' = p /\ goal' = tfvars
  /\ state' = [r \in Resources |-> IF state[r] = None THEN None ELSE real[r]]
  /\ Goto(p, "apply")
  /\ UNCHANGED <<site, tfvars, real, hosts, read, alone, edits, faults>>

\* A state that is locked is an error.
Locked(p) ==
  /\ pc[p] = "lock" /\ lock # None
  /\ Over(p)
  /\ UNCHANGED <<site, tfvars, state, real, hosts, edits, faults>>

\* A download whose URL or datastore changed is removed, then made anew.
Doomed(r) == state[r] # None /\ goal[r] # state[r] /\ (goal[r] = None \/ r \in Downloads)

\* Mutant: a download that is there already is an error, as a mapping is.
MissingNew(r) == state[r] = None /\ goal[r] # None /\ real[r] = None

\* overwrite_unmanaged: a file that is there is no obstacle; a mapping is.
Missing(r) == state[r] = None /\ goal[r] # None /\ (r \in Mappings => real[r] = None)

\* A mapping is changed in place.
Drifted(r) == r \in Mappings /\ None \notin {state[r], goal[r]} /\ state[r] # goal[r]

Due(r) == Doomed(r) \/ Missing(r) \/ Drifted(r)
After(r) == IF Doomed(r) THEN None ELSE goal[r]

Change(p, r) ==
  /\ pc[p] = "apply" /\ Due(r)
  /\ real' = [real EXCEPT ![r] = After(r)]
  /\ state' = [state EXCEPT ![r] = After(r)]
  /\ UNCHANGED <<site, tfvars, goal, lock, hosts, pc, read, alone, edits, faults>>

\* Killed between the change and the state that would record it.
CutShort(p, r) ==
  /\ faults < MaxFaults
  /\ pc[p] = "apply" /\ Due(r)
  /\ real' = [real EXCEPT ![r] = After(r)]
  /\ faults' = faults + 1
  /\ Over(p)
  /\ UNCHANGED <<site, tfvars, state, hosts, edits>>

\* The apply ends, successfully if nothing is left of what it was to do.
ApplyEnds(p) ==
  /\ pc[p] = "apply" /\ ~\E r \in Resources : Due(r)
  /\ Over(p)
  /\ UNCHANGED <<site, tfvars, state, real, hosts, edits, faults>>

\* Any stage fails, is declined or interrupted.
ApplyFails(p) ==
  /\ faults < MaxFaults /\ p \in Applies
  /\ faults' = faults + 1
  /\ Over(p)
  /\ UNCHANGED <<site, tfvars, state, real, hosts, edits>>

-----------------------------------------------------------------------------
(* pvc site configure [--node].                                            *)

BeginConfigure(p, node) ==
  /\ pc[p] = "idle" /\ Valid(site)
  /\ Configurable(site) # {} /\ node \in Configurable(site) \cup {None}
  /\ Goto(p, "inventory")
  /\ read' = [read EXCEPT ![p] = site]
  /\ only' = [only EXCEPT ![p] = node]
  /\ met' = [q \in Procs |->
       IF q = p THEN Configurable(site) \cup UNION {Configurable(read[c]) : c \in Configures}
       ELSE IF q \in Configures THEN met[q] \cup Configurable(site) ELSE met[q]]
  /\ UNCHANGED <<site, terraform, inventory, touched, alone, edits, faults>>

\* Mutant: every node is listed, and configure: false is left to --limit.
InventoryOfAll(p) ==
  /\ pc[p] = "inventory"
  /\ inventory' = DOMAIN read[p].nodes
  /\ Goto(p, "wait")
  /\ UNCHANGED <<site, terraform, only, met, touched, read, alone, edits, faults>>

\* All of them, whatever --node says.
WriteInventory(p) ==
  /\ pc[p] = "inventory"
  /\ inventory' = Configurable(read[p])
  /\ Goto(p, "wait")
  /\ UNCHANGED <<site, terraform, only, met, touched, read, alone, edits, faults>>

\* Every target answers; if one does not in time, none is configured
\* (ConfigureEnds).
Wait(p) ==
  /\ pc[p] = "wait"
  /\ Goto(p, "play")
  /\ UNCHANGED <<site, terraform, hosts, read, alone, edits, faults>>

\* The playbook reads the inventory there is by now.
Play(p) ==
  /\ pc[p] = "play" /\ touched[p] = {}
  /\ \E reached \in SUBSET {n \in inventory : only[p] \in {None, n}} :
       /\ reached # {}
       /\ touched' = [touched EXCEPT ![p] = reached]
  /\ UNCHANGED <<site, terraform, inventory, only, met, pc, read, alone, edits, faults>>

\* The end of the playbook, or of the command at any stage.
ConfigureEnds(p) ==
  /\ p \in Configures
  /\ Goto(p, "idle")
  /\ read' = [read EXCEPT ![p] = None]
  /\ only' = [only EXCEPT ![p] = None]
  /\ met' = [met EXCEPT ![p] = {}]
  /\ touched' = [touched EXCEPT ![p] = {}]
  /\ UNCHANGED <<site, terraform, inventory, alone, edits, faults>>

-----------------------------------------------------------------------------
Apply(p) ==
  \/ WriteTfvars(p) \/ Lock(p) \/ Locked(p) \/ ApplyEnds(p)
  \/ \E r \in Resources : Change(p, r)

Next ==
  \/ Edit
  \/ \E r \in Resources : Lose(r)
  \/ \E m \in Mappings : RemoveOrphan(m)
  \/ \E p \in Procs : BeginApply(p) \/ Apply(p) \/ ApplyFails(p)
  \/ \E p \in Procs, r \in Resources : CutShort(p, r)
  \/ \E p \in Procs, n \in Nodes \cup {None} : BeginConfigure(p, n)
  \/ \E p \in Procs : WriteInventory(p) \/ Wait(p) \/ Play(p) \/ ConfigureEnds(p)

\* Commands go on by themselves; the operator runs site apply again and
\* again, and removes what no state records.
Fairness ==
  /\ \A p \in Procs : WF_vars(Apply(p)) /\ WF_vars(ConfigureEnds(p)) /\ SF_vars(BeginApply(p))
  /\ \A m \in Mappings : WF_vars(RemoveOrphan(m))

Spec == Init /\ [][Next]_vars /\ Fairness

-----------------------------------------------------------------------------
(* Properties.                                                             *)

Arguments == {None} \cup {Wanted(f)[r] : f \in Drafts, r \in Resources}

\* Type invariant; the one apply at work is the one that holds the state.
TypeOK ==
  /\ site \in Drafts
  /\ {tfvars, goal, state, real} \subseteq [Resources -> Arguments]
  /\ lock \in Procs \cup {None}
  /\ inventory \subseteq Nodes
  /\ pc \in [Procs -> {"idle", "write", "lock", "apply", "inventory", "wait", "play"}]
  /\ read \in [Procs -> Drafts \cup {None}]
  /\ only \in [Procs -> Nodes \cup {None}]
  /\ alone \subseteq Applies
  /\ met \in [Procs -> SUBSET Nodes]
  /\ touched \in [Procs -> SUBSET Nodes]
  /\ edits \in 0..MaxEdits /\ faults \in 0..MaxFaults
  /\ \A p \in Procs : pc[p] = "apply" <=> lock = p

\* What f asks for is there, so that a service that resolves against f finds
\* its image on its node and its mappings.
Serves(f, there) == \A r \in Resources : Wanted(f)[r] # None => there[r] = Wanted(f)[r]

\* Success: nothing is left to do, nor refused.
Succeeds(p) == pc[p] = "apply" /\ pc'[p] = "idle" /\ state = goal

\* A successful site apply has put every image on every node and every
\* mapping in place as site.yml asks, whatever was killed or lost before it
\* and whatever ran beside it, unless site.yml changed meanwhile or a command
\* of before a change was still at work.
ApplyEstablishes ==
  [][\A p \in alone : Succeeds(p) => Serves(site, real')]_vars

\* configure: false keeps a node out: a playbook logs in to no node that
\* neither its command nor one that ran at the same time had to configure, and
\* with --node to no other.
ConfigureTouchesOnlyChosen ==
  \A p \in Procs : touched[p] \subseteq {n \in met[p] : only[p] \in {None, n}}

\* Once edits and faults stop, repeated site apply gets the site to what a
\* site.yml that is valid asks for, and keeps it there.
SiteStays == <>[](Valid(site) => Serves(site, real))
=============================================================================
