------------------------------ MODULE Scaffold ------------------------------
(***************************************************************************)
(* The commands that work on the manifests alone, pvc new and pvc          *)
(* validate (pvc/cli.py, manifest/loader.py, scaffold.py, and              *)
(* create_service_scaffold of ops/workflows.py), against an operator who   *)
(* edits files meanwhile.  Nothing is locked: a command lists the          *)
(* services, reads their files one by one and acts on what it read.        *)
(***************************************************************************)
EXTENDS Resolver, Integers

CONSTANTS
  Services, Procs,
  Drafts,         \* Drafts[s]: what the operator may save as s's manifest
  KeyLists,       \* the --hosts options in use: sequences of host keys
  Start,          \* the first vm_id when there is none
  MaxVmId,        \* bound: the highest vm_id a scaffold may reach
  Blank, Broken   \* an empty file, one that is not YAML

ASSUME FilesAssumption ==
  /\ None # Blank /\ None # Broken /\ Blank # Broken
  /\ MaxVmId \in Nat /\ Start \in 1..MaxVmId
  /\ KeyLists \subseteq Seq(Keys)

VARIABLES
  files,      \* services/<s>/service.yml
  checked,    \* history: services validated since their file last changed
  pc, job,    \* where a command stands; the service it works on
  todo,       \* validate: services it has not come to
  mine,       \* validate: the manifest it read for its service
  unread,     \* files listed and not yet read
  clash,      \* a sibling conflicts with mine
  highest,    \* new: the highest vm_id seen
  keys,       \* new: the host keys asked for
  untouched   \* history: files that have not changed since it went by them

local == <<job, todo, mine, unread, clash, highest, keys>>
vars == <<files, checked, untouched, pc, local>>

NoLayer == [f \in {} |-> None]

Parsed(f) == f \notin {None, Blank, Broken}

\* A file the operator saves has finitely many hosts, and no vm_id above the
\* bound.
ASSUME DraftsAssumption ==
  \A s \in Services : \A f \in Drafts[s] : Parsed(f) =>
    /\ IsFiniteSet(DOMAIN f.hosts)
    /\ \A k \in DOMAIN f.hosts : f.hosts[k].vm_id \in Int /\ f.hosts[k].vm_id <= MaxVmId

\* What pvc new writes.
Manifest0(ks, first) ==
  [network |-> NoLayer, defaults |-> [cores |-> 1],
   hosts |-> [k \in ToSet(ks) |->
     [vm_id |-> first + (CHOOSE i \in DOMAIN ks : ks[i] = k) - 1, quoted |-> FALSE,
      name |-> None, set |-> [roles |-> {}, vars |-> NoVars]]]]

Scaffolds == {Manifest0(ks, n) : ks \in {l \in KeyLists : l # <<>>}, n \in Start..MaxVmId}
Contents == {f \in UNION {Drafts[s] : s \in Services} : Parsed(f)} \cup Scaffolds

\* resolve_service, worked out once for every manifest there can be.
Resolution == [s \in Services |-> [f \in Contents |->
  [accepted |-> Accepted(s, f), hosts |-> HostsOf(s, f), right |-> ResolvedRight(s, f)]]]

Good(s) == Parsed(files[s]) /\ Resolution[s][files[s]].accepted
Listed == {s \in Services : files[s] # None}

Init ==
  /\ files = [s \in Services |-> None]
  /\ checked = {}
  /\ pc = [p \in Procs |-> "idle"]
  /\ job = [p \in Procs |-> None]
  /\ todo = [p \in Procs |-> {}]
  /\ mine = [p \in Procs |-> None]
  /\ unread = [p \in Procs |-> {}]
  /\ clash = [p \in Procs |-> FALSE]
  /\ highest = [p \in Procs |-> 0]
  /\ keys = [p \in Procs |-> <<>>]
  /\ untouched = [p \in Procs |-> {}]

-----------------------------------------------------------------------------
Goto(p, to) == pc' = [pc EXCEPT ![p] = to]

\* The file of s becomes f.
Becomes(s, f) ==
  /\ files' = [files EXCEPT ![s] = f]
  /\ checked' = checked \ {s}
  /\ untouched' = [p \in Procs |-> untouched[p] \ {s}]

\* The operator saves or removes a manifest.
Save(s) ==
  /\ \E f \in Drafts[s] \cup {None} : f # files[s] /\ Becomes(s, f)
  /\ UNCHANGED <<pc, local>>

\* A command that is not running remembers nothing.
Forget(p) ==
  /\ todo' = [todo EXCEPT ![p] = {}]
  /\ mine' = [mine EXCEPT ![p] = None]
  /\ unread' = [unread EXCEPT ![p] = {}]
  /\ clash' = [clash EXCEPT ![p] = FALSE]
  /\ highest' = [highest EXCEPT ![p] = 0]
  /\ keys' = [keys EXCEPT ![p] = <<>>]
  /\ untouched' = [untouched EXCEPT ![p] = {}]

\* The end of a command: an error, Ctrl-C, a kill, or the end of its work.
Stop(p) ==
  /\ pc[p] # "idle" /\ Goto(p, "idle") /\ Forget(p)
  /\ job' = [job EXCEPT ![p] = None]
  /\ UNCHANGED <<files, checked>>

-----------------------------------------------------------------------------
(* pvc validate [service].                                                 *)

Validate(p, names) ==
  /\ pc[p] = "idle"
  /\ names \in {{s} : s \in Services} \cup {Listed}
  /\ todo' = [todo EXCEPT ![p] = names]
  /\ Goto(p, "next")
  /\ UNCHANGED <<files, checked, untouched, job, mine, unread, clash, highest, keys>>

\* Mutant: a manifest that does not resolve is taken as it is.
LoadUnresolved(p, s) ==
  /\ pc[p] = "next" /\ s \in todo[p]
  /\ files[s] \notin {None, Broken}
  /\ todo' = [todo EXCEPT ![p] = @ \ {s}]
  /\ Goto(p, "listing")
  /\ job' = [job EXCEPT ![p] = s]
  /\ mine' = [mine EXCEPT ![p] = files[s]]
  /\ untouched' = [untouched EXCEPT ![p] = {s}]
  /\ UNCHANGED <<files, checked, unread, clash, highest, keys>>

\* load_service reads the manifest.  A file that is absent or not YAML ends
\* the command (Stop); one that is not a manifest is reported, and the next
\* service is taken.
LoadOwn(p, s) ==
  /\ pc[p] = "next" /\ s \in todo[p]
  /\ files[s] \notin {None, Broken}
  /\ todo' = [todo EXCEPT ![p] = @ \ {s}]
  /\ IF Good(s)
       THEN /\ Goto(p, "listing")
            /\ job' = [job EXCEPT ![p] = s]
            /\ mine' = [mine EXCEPT ![p] = files[s]]
            /\ untouched' = [untouched EXCEPT ![p] = {s}]
       ELSE UNCHANGED <<pc, job, mine, untouched>>
  /\ UNCHANGED <<files, checked, unread, clash, highest, keys>>

\* It lists the siblings.
ListSiblings(p) ==
  /\ pc[p] = "listing" /\ Goto(p, "reading")
  /\ unread' = [unread EXCEPT ![p] = Listed \ {job[p]}]
  /\ UNCHANGED <<files, checked, untouched, job, todo, mine, clash, highest, keys>>

\* Mutant: only vm_ids and names are compared.
OpposedByName(p, o) ==
  LET hosts == Resolution[job[p]][mine[p]].hosts
      others == Resolution[o][files[o]].hosts
  IN \E k \in DOMAIN hosts, j \in DOMAIN others :
       hosts[k].vm_id = others[j].vm_id \/ hosts[k].name = others[j].name

\* Its manifest and that of o have an identity in common.
Opposed(p, o) == Conflict(Resolution[job[p]][mine[p]].hosts, Resolution[o][files[o]].hosts)

\* A sibling that does not resolve is skipped; one that is gone ends the
\* command (Stop).
LoadSibling(p, o) ==
  /\ pc[p] = "reading" /\ o \in unread[p] /\ files[o] # None
  /\ unread' = [unread EXCEPT ![p] = @ \ {o}]
  /\ clash' = [clash EXCEPT ![p] = @ \/ (Good(o) /\ Opposed(p, o))]
  /\ UNCHANGED <<files, checked, untouched, pc, job, todo, mine, highest, keys>>

LoadDone(p) ==
  /\ pc[p] = "reading" /\ unread[p] = {}
  /\ Goto(p, "next")
  /\ checked' = IF ~clash[p] /\ job[p] \in untouched[p] THEN checked \cup {job[p]} ELSE checked
  /\ job' = [job EXCEPT ![p] = None]
  /\ mine' = [mine EXCEPT ![p] = None]
  /\ clash' = [clash EXCEPT ![p] = FALSE]
  /\ untouched' = [untouched EXCEPT ![p] = {}]
  /\ UNCHANGED <<files, todo, unread, highest, keys>>

-----------------------------------------------------------------------------
(* pvc new.                                                                *)

\* The vm_ids of a file that are written as numbers.
Numbers(f) ==
  IF Parsed(f) THEN {f.hosts[k].vm_id : k \in {j \in DOMAIN f.hosts : ~f.hosts[j].quoted}}
  ELSE {}

\* Mutant: files that do not resolve are passed over.
HighestAccepted(f, least) ==
  IF Parsed(f) /\ \E s \in Services : files[s] = f /\ Good(s)
    THEN CHOOSE n \in Numbers(f) \cup {least} : \A m \in Numbers(f) \cup {least} : m <= n
    ELSE least

\* The highest of them and the one found so far.
Highest(f, least) == CHOOSE n \in Numbers(f) \cup {least} : \A m \in Numbers(f) \cup {least} : m <= n

\* Keys are checked and the manifest must not exist; then its directory is made.
New(p, s, ks) ==
  /\ pc[p] = "idle"
  /\ ks # <<>> /\ Cardinality(ToSet(ks)) = Len(ks)
  /\ files[s] = None
  /\ Goto(p, "making")
  /\ job' = [job EXCEPT ![p] = s]
  /\ keys' = [keys EXCEPT ![p] = ks]
  /\ highest' = [highest EXCEPT ![p] = Start - 1]
  /\ UNCHANGED <<files, checked, untouched, todo, mine, unread, clash>>

\* next_free_vm_id lists the services, its own too if it has a manifest by now.
ListAll(p) ==
  /\ pc[p] = "making" /\ Goto(p, "scanning")
  /\ unread' = [unread EXCEPT ![p] = Listed]
  /\ untouched' = [untouched EXCEPT ![p] = Listed]
  /\ UNCHANGED <<files, checked, job, todo, mine, clash, highest, keys>>

\* A file that is not a manifest is skipped; one that is gone ends the command.
Scan(p, o) ==
  /\ pc[p] = "scanning" /\ o \in unread[p] /\ files[o] # None
  /\ unread' = [unread EXCEPT ![p] = @ \ {o}]
  /\ highest' = [highest EXCEPT ![p] = Highest(files[o], @)]
  /\ UNCHANGED <<files, checked, untouched, pc, job, todo, mine, clash, keys>>

NewIds(p) == {highest[p] + i : i \in DOMAIN keys[p]}

\* The manifest is opened, which empties it, and then written.
Open(p) ==
  /\ pc[p] = "scanning" /\ unread[p] = {}
  /\ highest[p] + Len(keys[p]) <= MaxVmId
  /\ Becomes(job[p], Blank)
  /\ Goto(p, "opened")
  /\ UNCHANGED local

Write(p) ==
  /\ pc[p] = "opened"
  /\ Becomes(job[p], Manifest0(keys[p], highest[p] + 1))
  /\ Goto(p, "created")
  /\ UNCHANGED local

-----------------------------------------------------------------------------
Next ==
  \/ \E s \in Services : Save(s)
  \/ \E p \in Procs : Stop(p) \/ ListSiblings(p) \/ LoadDone(p)
                     \/ ListAll(p) \/ Open(p) \/ Write(p)
  \/ \E p \in Procs, names \in SUBSET Services : Validate(p, names)
  \/ \E p \in Procs, s \in Services : LoadOwn(p, s) \/ LoadSibling(p, s) \/ Scan(p, s)
  \/ \E p \in Procs, s \in Services, ks \in KeyLists : New(p, s, ks)

Spec == Init /\ [][Next]_vars

-----------------------------------------------------------------------------
(* Properties.                                                             *)

\* Type invariant; a command that has taken up a service names it.
TypeOK ==
  /\ files \in [Services -> Contents \cup {None, Blank, Broken}]
  /\ checked \subseteq Services
  /\ pc \in [Procs -> {"idle", "next", "listing", "reading", "making", "scanning", "opened",
                     "created"}]
  /\ job \in [Procs -> Services \cup {None}]
  /\ todo \in [Procs -> SUBSET Services]
  /\ mine \in [Procs -> Contents \cup {None}]
  /\ unread \in [Procs -> SUBSET Services]
  /\ clash \in [Procs -> BOOLEAN]
  /\ highest \in [Procs -> 0..MaxVmId]
  /\ keys \in [Procs -> KeyLists \cup {<<>>}]
  /\ untouched \in [Procs -> SUBSET Services]
  /\ \A p \in Procs :
       /\ pc[p] \notin {"idle", "next"} => job[p] \in Services
       /\ pc[p] \in {"listing", "reading"} => mine[p] # None

\* Two services that were each validated since their files last changed do
\* not claim the same identity, whatever was edited, created or validated
\* between and around the two commands' reads.
ValidatedApart ==
  \A s, o \in checked : s # o => 
    ~Conflict(Resolution[s][files[s]].hosts, Resolution[o][files[o]].hosts)

\* "One above the highest vm_id any manifest uses": no vm_id of a new manifest
\* is written as a number in one that has not changed since the services were
\* listed, resolvable or not.
FreshIds ==
  \A p \in Procs : pc[p] = "created" =>
    \A o \in untouched[p] \ {job[p]} : NewIds(p) \cap Numbers(files[o]) = {}

\* pvc new refuses to overwrite: it never empties a manifest that is there.
\* The code looks for one before it scans the others, and not again.
NewKeepsManifests ==
  [][\A p \in Procs : pc[p] = "scanning" /\ pc'[p] = "opened" => files[job[p]] = None]_vars

\* Whatever is on disk resolves, if it does, to the settings of its layers,
\* and to a manifest that Manifest (and so Workflow) takes for resolvable.
ResolutionAgrees == \A s \in Services : 
  Parsed(files[s]) => Resolution[s][files[s]].right
=============================================================================
