------------------------------ MODULE Session ------------------------------
(***************************************************************************)
(* What a pvc command makes for itself on the way to Terraform and Ansible *)
(* and what it leaves behind: a throwaway ssh-agent, a temporary vault     *)
(* password file, the service's keypair and the Ansible collections        *)
(* (pvc/providers/secrets.py, terraform.py, ansible.py, utils/crypto.py,   *)
(* and the order of the calls in ops/workflows.py, site/ and cli.py).      *)
(*                                                                         *)
(* A process is one command.  It may fail or be interrupted at any stage,  *)
(* and then runs its finally clauses and atexit handlers, or be killed.    *)
(***************************************************************************)
EXTENDS Naturals

CONSTANTS
  Procs,     \* commands that may run at once
  Services,
  Setups,    \* site.yml and the environment: [sshKey, agent, passwordFile, root]
  Operator,  \* the operator's own agent and vault password file
  None, Torn, Blank,  \* no file, half a private key, an empty file
  MaxKeys    \* bound: keypairs generated per service

KeyNums == 1..MaxKeys
Files == KeyNums \cup {None, Torn, Blank}

AllSetups == [sshKey : BOOLEAN, agent : BOOLEAN, passwordFile : BOOLEAN, root : BOOLEAN]

ASSUME NamesApart ==
  /\ Setups \subseteq AllSetups
  /\ MaxKeys \in Nat
  /\ Operator \notin Procs /\ None \notin Procs \cup Services /\ None # Operator
  /\ {None, Torn, Blank} \cap KeyNums = {}
  /\ None # Torn /\ None # Blank /\ Torn # Blank

VARIABLES
  setup,        \* the one of Setups
  secrets,      \* secrets.yml: "none", "plain" or "vault"
  passwords,    \* password files there are: a process's own is named for it
  agents,       \* ssh-agents that run
  loaded,       \* those that hold the Proxmox key
  collections,  \* Ansible collections installed
  partial,         \* an install stopped between the collections
  private,      \* <key_dir>/<service>: None, Torn or the number of a key
  public,       \* its .pub: None, Blank or the number of a key
  made,         \* keypairs generated so far
  vmkey,        \* the key the service's VM accepts
  pc, job,      \* where a process stands; [cmd, svc]
  env,          \* the agent its environment names
  password,     \* the password file it hands to Ansible
  registered,   \* processes that unlink their password file at exit
  failed, cut,  \* processes on an error path; those stopped where nothing cleans up
  key,          \* the public key in a process's Terraform variables
  met           \* processes that have had another beside them on their service

Collections == {"community.general", "ansible.posix"}
Marker == "community.general"

desk  == <<setup, secrets, collections, partial>>
keys  == <<private, public, made, vmkey>>
held  == <<passwords, agents, loaded>>
own   == <<env, password, registered, failed, cut, key, met>>
vars  == <<desk, keys, held, pc, job, own>>

ServiceCommands == {"plan", "up", "down", "converge", "ssh"}
SiteCommands == {"apply", "configure", "init"}
UsesKeypair == {"plan", "up", "down"}

Cmd(p) == job[p].cmd
Svc(p) == job[p].svc
Working(p) == pc[p] \notin {"idle", "ended"}

\* The agent of the environment a command is started in.
Inherited == IF setup.agent THEN Operator ELSE None

Init ==
  /\ setup \in Setups
  /\ secrets = "none" /\ collections = {} /\ partial = FALSE
  /\ passwords = {Operator}
  /\ agents = (IF setup.agent THEN {Operator} ELSE {})
  /\ loaded = agents
  /\ private = [s \in Services |-> None]
  /\ public = [s \in Services |-> None]
  /\ made = [s \in Services |-> 0]
  /\ vmkey = [s \in Services |-> None]
  /\ pc = [p \in Procs |-> "idle"]
  /\ job = [p \in Procs |-> None]
  /\ env = [p \in Procs |-> None]
  /\ password = [p \in Procs |-> None]
  /\ registered = {} /\ failed = {} /\ cut = {}
  /\ key = [p \in Procs |-> None] /\ met = {}

-----------------------------------------------------------------------------
(* The operator.                                                           *)

\* ansible-vault encrypt, between commands.
Encrypt ==
  /\ secrets = "plain" /\ \A p \in Procs : ~Working(p)
  /\ secrets' = "vault"
  /\ UNCHANGED <<setup, collections, partial, keys, held, pc, job, own>>

OnService(s) == \E p \in Procs : Working(p) /\ Svc(p) = s

\* The public half is lost, as with a key directory restored by hand.
LosePublic(s) ==
  /\ ~OnService(s) /\ private[s] \in KeyNums
  /\ public' = [public EXCEPT ![s] = None]
  /\ UNCHANGED <<desk, private, made, vmkey, held, pc, job, own>>

\* "Delete both to generate a new keypair", where a command cannot go on.
DiscardKeys(s) ==
  /\ ~OnService(s) /\ (private[s] = Torn \/ public[s] = Blank)
  /\ private' = [private EXCEPT ![s] = None]
  /\ public' = [public EXCEPT ![s] = None]
  /\ UNCHANGED <<desk, made, vmkey, held, pc, job, own>>

\* Any command at any time, beside others on the same service too.
Begin(p, cmd, s) ==
  /\ pc[p] = "idle"
  /\ (cmd \in ServiceCommands /\ s \in Services) \/ (cmd \in SiteCommands /\ s = None)
  /\ met' = IF s # None /\ OnService(s)
              THEN met \cup {p} \cup {q \in Procs : Working(q) /\ Svc(q) = s} ELSE met
  /\ job' = [job EXCEPT ![p] = [cmd |-> cmd, svc |-> s]]
  /\ env' = [env EXCEPT ![p] = Inherited]
  /\ pc' = [pc EXCEPT ![p] = CASE cmd = "ssh" -> "exec"
                               [] cmd = "init" -> "copy"
                               [] OTHER -> "secrets"]
  /\ UNCHANGED <<desk, keys, held, password, registered, failed, cut, key>>

-----------------------------------------------------------------------------
(* Ways out.                                                               *)

Goto(p, to) == pc' = [pc EXCEPT ![p] = to]

\* Mutant: the key is added before the try.
GuardedLate(p) == setup.sshKey /\ pc[p] = "terraform"

\* The with block of the agent: an exception here runs its finally clause.
Guarded(p) == setup.sshKey /\ pc[p] \in {"add", "terraform"}

\* Something was made, and what would remove it is not in place or was
\* itself interrupted.
Exposed == {"register", "adopt", "stop"}

\* A stage fails, or Ctrl-C.
Fail(p) ==
  /\ Working(p) /\ pc[p] # "exit"
  /\ failed' = failed \cup {p}
  /\ cut' = IF pc[p] \in Exposed THEN cut \cup {p} ELSE cut
  /\ Goto(p, IF Guarded(p) THEN "stop" ELSE "exit")
  /\ partial' = (partial \/ (pc[p] = "galaxy" /\ Marker \in collections))
  /\ UNCHANGED <<setup, secrets, collections, keys, held, job, env, password, registered,
                 key, met>>

\* The process is gone, and what it knew.
Over(p) ==
  /\ Goto(p, "ended")
  /\ env' = [env EXCEPT ![p] = None]
  /\ password' = [password EXCEPT ![p] = None]
  /\ registered' = registered \ {p}
  /\ failed' = failed \ {p}
  /\ key' = [key EXCEPT ![p] = None]
  /\ job' = [job EXCEPT ![p] = None]
  /\ met' = met \ {p}

Killed(p) ==
  /\ Working(p) /\ Over(p)
  /\ cut' = cut \cup {p}
  /\ partial' = (partial \/ (pc[p] = "galaxy" /\ Marker \in collections))
  /\ UNCHANGED <<setup, secrets, collections, keys, held>>

\* Mutant: whatever file Ansible was given goes.
ExitUnlinks(p) ==
  /\ pc[p] = "exit" /\ Over(p)
  /\ passwords' = passwords \ {password[p]}
  /\ UNCHANGED <<desk, keys, agents, loaded, cut>>

\* The interpreter ends: the atexit handler unlinks a temporary file.
Exit(p) ==
  /\ pc[p] = "exit" /\ Over(p)
  /\ passwords' = IF p \in registered THEN passwords \ {p} ELSE passwords
  /\ UNCHANGED <<desk, keys, agents, loaded, cut>>

\* The prompt is back.  What a command left has a random name: no later
\* command meets it, and it is struck off the books.
Return(p) ==
  /\ pc[p] = "ended"
  /\ Goto(p, "idle")
  /\ passwords' = passwords \ {p}
  /\ agents' = agents \ {p}
  /\ loaded' = loaded \ {p}
  /\ cut' = cut \ {p}
  /\ UNCHANGED <<desk, keys, job, env, password, registered, failed, key, met>>

-----------------------------------------------------------------------------
(* Secrets.                                                                *)

\* Where a command goes once it has its secrets.
AfterSecrets(p) ==
  CASE Cmd(p) \in UsesKeypair -> "keygen"
    [] Cmd(p) = "apply" -> "agent"
    [] OTHER -> "collections"

\* site configure wants secrets only for a sudo password, if there are any.
Unneeded(p) == Cmd(p) = "configure" /\ (setup.root \/ secrets = "none")

SecretsPlain(p) ==
  /\ pc[p] = "secrets"
  /\ Unneeded(p) \/ secrets = "plain"
  /\ Goto(p, AfterSecrets(p))
  /\ UNCHANGED <<desk, keys, held, job, own>>

\* PVC_VAULT_PASSWORD_FILE names the operator's own file.
SecretsByFile(p) ==
  /\ pc[p] = "secrets" /\ ~Unneeded(p)
  /\ secrets = "vault" /\ setup.passwordFile /\ Operator \in passwords
  /\ password' = [password EXCEPT ![p] = Operator]
  /\ Goto(p, "view")
  /\ UNCHANGED <<desk, keys, held, job, env, registered, failed, cut, key, met>>

\* The password is asked for and written to a temporary file.
SecretsAsked(p) ==
  /\ pc[p] = "secrets" /\ ~Unneeded(p)
  /\ secrets = "vault" /\ ~setup.passwordFile
  /\ passwords' = passwords \cup {p}
  /\ password' = [password EXCEPT ![p] = p]
  /\ Goto(p, "register")
  /\ UNCHANGED <<desk, keys, agents, loaded, job, env, registered, failed, cut, key, met>>

Register(p) ==
  /\ pc[p] = "register"
  /\ registered' = registered \cup {p}
  /\ Goto(p, "view")
  /\ UNCHANGED <<desk, keys, held, job, env, password, failed, cut, key, met>>

\* ansible-vault view.
View(p) ==
  /\ pc[p] = "view" /\ password[p] \in passwords
  /\ Goto(p, AfterSecrets(p))
  /\ UNCHANGED <<desk, keys, held, job, own>>

-----------------------------------------------------------------------------
(* The keypair: two files, looked for one after the other by any number of *)
(* commands on the service.                                                *)

\* ensure_keypair looks for the private file.
Keygen(p) ==
  /\ pc[p] = "keygen"
  /\ Goto(p, IF private[Svc(p)] = None THEN "sshkeygen" ELSE "public")
  /\ UNCHANGED <<desk, keys, held, job, own>>

\* Mutant: ssh-keygen is told to overwrite.
OpenAnyway(p) ==
  /\ pc[p] = "sshkeygen" /\ made[Svc(p)] < MaxKeys
  /\ private' = [private EXCEPT ![Svc(p)] = Torn]
  /\ Goto(p, "keyfile")
  /\ UNCHANGED <<desk, public, made, vmkey, held, job, own>>

\* ssh-keygen creates the private file, then fills it.  Where another command
\* has made one since, it asks before it overwrites; nobody says yes.
OpenPrivate(p) ==
  /\ pc[p] = "sshkeygen" /\ private[Svc(p)] = None /\ made[Svc(p)] < MaxKeys
  /\ private' = [private EXCEPT ![Svc(p)] = Torn]
  /\ Goto(p, "keyfile")
  /\ UNCHANGED <<desk, public, made, vmkey, held, job, own>>

WritePrivate(p) == LET s == Svc(p) IN
  /\ pc[p] = "keyfile"
  /\ made' = [made EXCEPT ![s] = @ + 1]
  /\ private' = [private EXCEPT ![s] = made[s] + 1]
  /\ Goto(p, "keypub")
  /\ UNCHANGED <<desk, public, vmkey, held, job, own>>

\* The public half: from ssh-keygen itself, or from what `ssh-keygen -y`
\* printed, into a file already truncated.
WritePublic(p) == LET s == Svc(p) IN
  /\ pc[p] \in {"keypub", "derived"}
  /\ public' = [public EXCEPT ![s] = private[s]]
  /\ Goto(p, IF pc[p] = "keypub" THEN "public" ELSE "readkey")
  /\ UNCHANGED <<desk, private, made, vmkey, held, job, own>>

\* ensure_keypair looks for the public file.
LookPublic(p) ==
  /\ pc[p] = "public"
  /\ Goto(p, IF public[Svc(p)] = None THEN "derive" ELSE "readkey")
  /\ UNCHANGED <<desk, keys, held, job, own>>

\* Mutant: the output of ssh-keygen -y is kept without a look at its status.
DeriveUnchecked(p) ==
  /\ pc[p] = "derive"
  /\ public' = [public EXCEPT ![Svc(p)] = Blank]
  /\ Goto(p, "derived")
  /\ UNCHANGED <<desk, private, made, vmkey, held, job, own>>

\* ssh-keygen -y reads the private key, and fails on half of one.  Then the
\* public file is opened, whatever has been written there since.
Derive(p) ==
  /\ pc[p] = "derive" /\ private[Svc(p)] # Torn
  /\ public' = [public EXCEPT ![Svc(p)] = Blank]
  /\ Goto(p, "derived")
  /\ UNCHANGED <<desk, private, made, vmkey, held, job, own>>

\* The key goes into the Terraform variables; an empty file is an error.
ReadKey(p) ==
  /\ pc[p] = "readkey" /\ public[Svc(p)] # Blank
  /\ key' = [key EXCEPT ![p] = public[Svc(p)]]
  /\ Goto(p, "agent")
  /\ UNCHANGED <<desk, keys, held, job, env, password, registered, failed, cut, met>>

-----------------------------------------------------------------------------
(* The ssh-agent around Terraform.                                         *)

\* Mutant: the environment is not looked at.
UseAnything(p) ==
  /\ pc[p] = "agent" /\ ~setup.sshKey
  /\ Goto(p, "terraform")
  /\ UNCHANGED <<desk, keys, held, job, own>>

\* No proxmox.ssh_key: the environment must name an agent.
UseAgent(p) ==
  /\ pc[p] = "agent" /\ ~setup.sshKey /\ env[p] # None
  /\ Goto(p, "terraform")
  /\ UNCHANGED <<desk, keys, held, job, own>>

StartAgent(p) ==
  /\ pc[p] = "agent" /\ setup.sshKey
  /\ agents' = agents \cup {p}
  /\ Goto(p, "adopt")
  /\ UNCHANGED <<desk, keys, passwords, loaded, job, own>>

AdoptAgent(p) ==
  /\ pc[p] = "adopt"
  /\ env' = [env EXCEPT ![p] = p]
  /\ Goto(p, "add")
  /\ UNCHANGED <<desk, keys, held, job, password, registered, failed, cut, key, met>>

AddKey(p) ==
  /\ pc[p] = "add" /\ env[p] \in agents
  /\ loaded' = loaded \cup {env[p]}
  /\ Goto(p, "terraform")
  /\ UNCHANGED <<desk, keys, passwords, agents, job, own>>

AfterTerraform(p) == IF Cmd(p) = "up" /\ p \notin failed THEN "collections" ELSE "exit"

\* init and plan, apply or destroy.  A new key in cloud-init replaces the VM.
Terraform(p) ==
  /\ pc[p] = "terraform"
  /\ vmkey' = CASE Cmd(p) = "up" -> [vmkey EXCEPT ![Svc(p)] = key[p]]
                [] Cmd(p) = "down" -> [vmkey EXCEPT ![Svc(p)] = None]
                [] OTHER -> vmkey
  /\ Goto(p, IF setup.sshKey THEN "stop" ELSE AfterTerraform(p))
  /\ UNCHANGED <<desk, private, public, made, held, job, own>>

\* Part of an apply: the old VM is gone, or is one of two that are changed.
TerraformPart(p) ==
  /\ pc[p] = "terraform" /\ Cmd(p) \in {"up", "down"}
  /\ \E k \in {None, key[p]} : vmkey' = [vmkey EXCEPT ![Svc(p)] = k]
  /\ UNCHANGED <<desk, private, public, made, held, pc, job, own>>

\* ssh-agent -k ends the agent the environment names.
StopAgent(p) ==
  /\ pc[p] = "stop"
  /\ agents' = agents \ {env[p]}
  /\ loaded' = loaded \ {env[p]}
  /\ Goto(p, "restore")
  /\ UNCHANGED <<desk, keys, passwords, job, own>>

Restore(p) ==
  /\ pc[p] = "restore"
  /\ env' = [env EXCEPT ![p] = Inherited]
  /\ Goto(p, AfterTerraform(p))
  /\ UNCHANGED <<desk, keys, held, job, password, registered, failed, cut, key, met>>

-----------------------------------------------------------------------------
(* Ansible, ssh and init.                                                  *)

\* Mutant: an install is taken for done as soon as it has begun.
EnsureNothing(p) ==
  /\ pc[p] = "collections"
  /\ Goto(p, "play")
  /\ UNCHANGED <<desk, keys, held, job, own>>

\* One collection stands for all.
EnsureCollections(p) ==
  /\ pc[p] = "collections"
  /\ Goto(p, IF Marker \in collections THEN "play" ELSE "galaxy")
  /\ UNCHANGED <<desk, keys, held, job, own>>

\* ansible-galaxy installs the collections that are missing, in any order.
Galaxy(p) ==
  /\ pc[p] = "galaxy"
  /\ IF collections = Collections
       THEN /\ Goto(p, IF Cmd(p) = "init" THEN "exit" ELSE "play")
            /\ partial' = FALSE /\ UNCHANGED collections
       ELSE /\ \E c \in Collections \ collections : collections' = collections \cup {c}
            /\ UNCHANGED <<partial, pc>>
  /\ UNCHANGED <<setup, secrets, keys, held, job, own>>

\* ansible-playbook reads the vault, and logs in with the private key, if the
\* VM is still there.
Play(p) ==
  /\ pc[p] = "play" /\ collections = Collections
  /\ password[p] # None => password[p] \in passwords
  /\ Svc(p) # None => private[Svc(p)] = vmkey[Svc(p)]
  /\ Goto(p, "exit")
  /\ UNCHANGED <<desk, keys, held, job, own>>

\* ssh takes the place of the interpreter: no handler runs.
Exec(p) ==
  /\ pc[p] = "exec" /\ Over(p)
  /\ UNCHANGED <<desk, keys, held, cut>>

\* init copies the examples that have no file yet.
Copy(p) ==
  /\ pc[p] = "copy"
  /\ secrets' = IF secrets = "none" THEN "plain" ELSE secrets
  /\ Goto(p, "galaxy")
  /\ UNCHANGED <<setup, collections, partial, keys, held, job, own>>

-----------------------------------------------------------------------------
Step(p) ==
  \/ Fail(p) \/ Killed(p) \/ Exit(p) \/ Return(p)
  \/ SecretsPlain(p) \/ SecretsByFile(p) \/ SecretsAsked(p) \/ Register(p) \/ View(p)
  \/ Keygen(p) \/ OpenPrivate(p) \/ WritePrivate(p) \/ WritePublic(p)
  \/ LookPublic(p) \/ Derive(p) \/ ReadKey(p)
  \/ UseAgent(p) \/ StartAgent(p) \/ AdoptAgent(p) \/ AddKey(p)
  \/ Terraform(p) \/ TerraformPart(p) \/ StopAgent(p) \/ Restore(p)
  \/ EnsureCollections(p) \/ Galaxy(p) \/ Play(p) \/ Exec(p) \/ Copy(p)

Next ==
  \/ Encrypt
  \/ \E s \in Services : LosePublic(s) \/ DiscardKeys(s)
  \/ \E p \in Procs, cmd \in ServiceCommands \cup SiteCommands, s \in Services \cup {None} :
       Begin(p, cmd, s)
  \/ \E p \in Procs : Step(p)

Spec == Init /\ [][Next]_vars

-----------------------------------------------------------------------------
(* Properties.                                                             *)

Places == {"idle", "secrets", "register", "view", "keygen", "sshkeygen", "keyfile", "keypub",
           "public", "derive", "derived", "readkey", "agent", "adopt", "add", "terraform", "stop", "restore",
           "collections", "galaxy", "play", "exec", "copy", "exit", "ended"}

Jobs == [cmd : ServiceCommands \cup SiteCommands, svc : Services \cup {None}]

\* Type invariant; a process at work has a job.
TypeOK ==
  /\ setup \in Setups
  /\ secrets \in {"none", "plain", "vault"}
  /\ passwords \subseteq Procs \cup {Operator}
  /\ agents \subseteq Procs \cup {Operator}
  /\ loaded \subseteq agents
  /\ collections \subseteq Collections /\ partial \in BOOLEAN
  /\ private \in [Services -> Files]
  /\ public \in [Services -> Files \ {Torn}]
  /\ made \in [Services -> 0..MaxKeys]
  /\ vmkey \in [Services -> Files \ {Torn}]
  /\ pc \in [Procs -> Places]
  /\ job \in [Procs -> Jobs \cup {None}]
  /\ env \in [Procs -> Procs \cup {Operator, None}]
  /\ password \in [Procs -> Procs \cup {Operator, None}]
  /\ registered \subseteq Procs /\ failed \subseteq Procs /\ cut \subseteq Procs
  /\ key \in [Procs -> Files \ {Torn}] /\ met \subseteq Procs
  /\ \A p \in Procs : pc[p] \notin {"idle", "ended"} => job[p] \in Jobs

\* "A throwaway agent holds that key for the duration of the run": once a
\* command is over, however it ended, neither its agent nor its password file
\* is left, unless it was killed or interrupted in one of the three places
\* where nothing is in place to remove them.
NothingLeft ==
  \A p \in Procs : pc[p] = "ended" /\ p \notin cut => p \notin agents \cup passwords

\* Terraform always runs with a live agent that holds the Proxmox key, and
\* no other command's cleanup takes it away.
TerraformHasAgent ==
  \A p \in Procs : pc[p] = "terraform" => env[p] \in agents /\ env[p] \in loaded

\* The password file a command hands to Ansible is there when the playbook
\* starts, whatever commands end meanwhile.
SecretsReadable ==
  \A p \in Procs : pc[p] = "play" /\ password[p] # None => password[p] \in passwords

\* The playbook of an up logs in with the key its VM accepts, through crashes
\* of earlier commands between the two files of a keypair and through other
\* commands on the same service that look for, generate and derive the same
\* keypair meanwhile.  Such a command may take the VM down; it never leaves one
\* that accepts another key.
KeyOpensVM ==
  \A p \in Procs : pc[p] \in {"collections", "galaxy", "play"} /\ Cmd(p) = "up" =>
    /\ private[Svc(p)] \in KeyNums
    /\ vmkey[Svc(p)] = private[Svc(p)] \/ (p \in met /\ vmkey[Svc(p)] = None)

\* A playbook starts without a collection only where an install was stopped
\* after the one collection that is looked for, or is still under way.
CollectionsReady ==
  (\E p \in Procs : pc[p] = "play") /\ collections # Collections =>
    partial \/ \E q \in Procs : pc[q] = "galaxy"
=============================================================================
