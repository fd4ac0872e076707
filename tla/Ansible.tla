------------------------------ MODULE Ansible ------------------------------
(***************************************************************************)
(* ansible-playbook runs of pvc against one machine.  A playbook is a      *)
(* sequence of tasks (SitePlaybook has those of the repository); a run     *)
(* takes the tasks its tags select, one by one, and stops at the first     *)
(* that fails.  The hosts of a run do not affect one another: one that     *)
(* fails drops out and the others go on, so one machine shows what any     *)
(* does.                                                                   *)
(*                                                                         *)
(* The machine is what the tasks read and change: packages, the version of *)
(* each configuration file, the version each daemon runs with, and the     *)
(* firewall.                                                               *)
(***************************************************************************)
EXTENDS Integers, Sequences

CONSTANTS
  Playbook,   \* sequence of tasks
  Groups,     \* inventory groups the machine is in
  Procs,      \* ansible-playbook processes
  Options,    \* tags the operator asks for; {} is no --tags
  MaxWant,    \* bound on the versions of its files among which the operator changes
  Bad,        \* versions with which no daemon starts
  Fresh,      \* TRUE: the machine is a VM in its first boot
  Faults,     \* TRUE: any task may fail and any run be interrupted
  Settles     \* TRUE: faults and edits may stop for good

Kinds == {"wait", "install", "issue", "write", "push", "validate", "allow", "enable", "start",
          "need", "once", "reload", "up", "download", "unpack", "script", "flush"}

\* What these do, they do under a lock: of apt, of certbot, of a compose project.
Locking == {"install", "issue", "up"}

\* A task of a play: what it does on what, the daemons that the handlers it
\* notifies restart, and its tags with those of its role and play.
Task == [group : STRING, tags : SUBSET STRING, do : Kinds, on : STRING, tell : SUBSET STRING]

ASSUME PlaybookAssumption == Playbook \in Seq(Task)
ASSUME BoundsAssumption == /\ MaxWant \in Nat \ {0}
                           /\ Fresh \in BOOLEAN /\ Faults \in BOOLEAN /\ Settles \in BOOLEAN

Versions == 0 .. MaxWant  \* 0: absent, or as packaged
Steps == DOMAIN Playbook
End == Len(Playbook) + 1
Items == {"sshd", "docker"} \cup UNION {{Playbook[i].on} \cup Playbook[i].tell : i \in Steps}

VARIABLES
  want,      \* version of the variables, the filetree and the roles' own files
  calm,      \* TRUE once faults and edits have stopped
  booting,   \* cloud-init still runs, and holds the apt lock
  have,      \* what is installed, issued or initialized
  disk,      \* file -> version
  live,      \* daemon -> version it was last started with
  down,      \* daemons that a restart stopped and could not start
  ufw,       \* [on, allowed]
  cache,     \* versions of the release archive in the download directory
  at,        \* process -> task it is at; 0: no run, End: nothing left
  tags,      \* its --tags
  asked,     \* the version its inventory was made from
  seen,      \* the versions there have been since it began
  told,      \* daemons whose handlers are notified
  fetched,   \* TRUE: its download reported a change
  result     \* of its last run: "none", "ok"; "failed" by a task of its own,
             \* "faulted", or "locked" out by another run

machine == <<booting, have, disk, live, down, ufw, cache>>
process == <<tags, asked, seen, fetched>>
vars == <<want, calm, machine, at, told, result, process>>

Init ==
  /\ want = 1
  /\ calm = FALSE
  /\ booting = Fresh
  /\ have = {"sshd", "ufw"}
  /\ disk = [x \in Items |-> IF x = "sshd" THEN 1 ELSE 0]
  /\ live = disk
  /\ down = {}
  /\ ufw = [on |-> FALSE, allowed |-> {}]
  /\ cache = {}
  /\ at = [p \in Procs |-> 0]
  /\ tags = [p \in Procs |-> {}]
  /\ asked = [p \in Procs |-> 0]
  /\ seen = [p \in Procs |-> {}]
  /\ told = [p \in Procs |-> {}]
  /\ fetched = [p \in Procs |-> FALSE]
  /\ result = [p \in Procs |-> "none"]

-----------------------------------------------------------------------------
(* What surrounds the runs.                                                *)

\* The operator edits variables and files, or goes back to what they were.
Edit ==
  /\ ~calm
  /\ want' \in Versions \ {0, want}
  /\ seen' = [p \in Procs |-> IF at[p] = 0 THEN seen[p] ELSE seen[p] \cup {want'}]
  /\ UNCHANGED <<calm, machine, at, told, result, tags, asked, fetched>>

\* cloud-init is done.
Booted ==
  /\ booting /\ booting' = FALSE
  /\ UNCHANGED <<want, calm, have, disk, live, down, ufw, cache, at, told, result, process>>

\* Things settle on files that work.
Calm ==
  /\ Settles /\ want \notin Bad /\ ~calm
  /\ calm' = TRUE
  /\ UNCHANGED <<want, machine, at, told, result, process>>

-----------------------------------------------------------------------------
(* A run.                                                                  *)

\* What --tags holds for the tags and --post-deploy of a command line.
TagOption(selected, postDeploy) ==
  IF ~postDeploy THEN selected
  ELSE IF selected = {} THEN {"all", "post_deploy"} ELSE selected \cup {"post_deploy"}

\* Ansible's rule for whether a run takes a task.  Handlers that were
\* notified run whatever the tags are.
Selected(t, opts) ==
  /\ t.group \in Groups
  /\ \/ t.do = "flush"
     \/ "always" \in t.tags
     \/ (opts = {} \/ "all" \in opts) /\ "never" \notin t.tags
     \/ opts \cap t.tags # {}

Taken == [opts \in Options |-> {i \in Steps : Selected(Playbook[i], opts)}]

\* j is the next task after i of a run with these tags.
Follows(i, j, opts) ==
  /\ i < j /\ j \in Taken[opts] \cup {End}
  /\ \A k \in Taken[opts] : k <= i \/ j <= k

Running(p) == at[p] \in Steps
Now(p) == Playbook[at[p]]
Turn(p, kind) == Running(p) /\ Now(p).do = kind

Advance(p) == \E j \in 1 .. End : Follows(at[p], j, tags[p]) /\ at' = [at EXCEPT ![p] = j]

Begin(p) ==
  /\ at[p] = 0
  /\ \E opts \in Options :
       /\ tags' = [tags EXCEPT ![p] = opts]
       /\ \E j \in 1 .. End : Follows(0, j, opts) /\ at' = [at EXCEPT ![p] = j]
  /\ asked' = [asked EXCEPT ![p] = want]
  /\ seen' = [seen EXCEPT ![p] = {want}]
  /\ told' = [told EXCEPT ![p] = {}]
  /\ fetched' = [fetched EXCEPT ![p] = FALSE]
  /\ result' = [result EXCEPT ![p] = "none"]
  /\ UNCHANGED <<want, calm, machine>>

Finish(p) ==
  /\ at[p] = End
  /\ at' = [at EXCEPT ![p] = 0]
  /\ result' = [result EXCEPT ![p] = "ok"]
  /\ UNCHANGED <<want, calm, machine, told, process>>

\* The run is over; handlers not run yet never will be.
Fail(p, how) ==
  /\ at' = [at EXCEPT ![p] = 0]
  /\ told' = [told EXCEPT ![p] = {}]
  /\ result' = [result EXCEPT ![p] = how]

\* The network, a mirror, a full disk, unattended-upgrades, Ctrl-C: not the
\* tasks' own fault.
Fault(p) ==
  /\ Faults /\ ~calm
  /\ Running(p)
  /\ Fail(p, "faulted")
  /\ UNCHANGED <<want, calm, machine, process>>

\* Another run is at the same kind of work and holds its lock for longer than
\* the task waits (apt waits for a minute, certbot not at all).
Contend(p) ==
  /\ \E kind \in Locking : Turn(p, kind) /\ \E q \in Procs \ {p} : Turn(q, kind)
  /\ Fail(p, "locked")
  /\ UNCHANGED <<want, calm, machine, process>>

\* What its task needs in order not to fail.
Possible(p) ==
  LET t == Now(p) IN
  /\ t.do = "install" => ~booting
  /\ t.do \in {"validate", "reload", "up"} => disk[t.on] \notin Bad
  /\ t.do = "start" /\ t.on \in down => disk[t.on] \notin Bad
  /\ t.do = "up" => "docker" \in have
  /\ t.do = "need" => disk[t.on] # 0
  /\ t.do = "once" => t.on \notin have

Refuse(p) ==
  /\ Running(p) /\ ~Possible(p)
  /\ Fail(p, "failed")
  /\ UNCHANGED <<want, calm, machine, process>>

-----------------------------------------------------------------------------
(* The tasks.                                                              *)

\* Mutant: cloud-init status without --wait returns at once.
WaitNot(p) ==
  /\ Turn(p, "wait")
  /\ Advance(p)
  /\ UNCHANGED <<want, calm, machine, told, result, process>>

\* cloud-init status --wait: returns when cloud-init is done.
Wait(p) ==
  /\ Turn(p, "wait") /\ ~booting
  /\ Advance(p)
  /\ UNCHANGED <<want, calm, machine, told, result, process>>

\* A package or a mount, a certificate: made if absent.  A packaged daemon
\* starts at once, as packaged.
Install(p) ==
  /\ Turn(p, "install") \/ Turn(p, "issue")
  /\ Possible(p)
  /\ have' = have \cup {Now(p).on}
  /\ Advance(p)
  /\ UNCHANGED <<want, calm, booting, disk, live, down, ufw, cache, told, result, process>>

\* Mutant: a file that is there is left alone.
WriteOnce(p) ==
  LET x == Now(p).on IN
  /\ Turn(p, "write")
  /\ disk' = IF disk[x] = 0 THEN [disk EXCEPT ![x] = asked[p]] ELSE disk
  /\ told' = IF disk[x] # 0 THEN told ELSE [told EXCEPT ![p] = @ \cup Now(p).tell]
  /\ Advance(p)
  /\ UNCHANGED <<want, calm, booting, have, live, down, ufw, cache, result, process>>

\* Mutant: a change notifies nothing.
WriteSilent(p) ==
  /\ Turn(p, "write")
  /\ disk' = [disk EXCEPT ![Now(p).on] = asked[p]]
  /\ Advance(p)
  /\ UNCHANGED <<want, calm, booting, have, live, down, ufw, cache, told, result, process>>

\* A file made from variables; a change notifies the task's handlers.
Write(p) ==
  LET x == Now(p).on IN
  /\ Turn(p, "write")
  /\ disk' = [disk EXCEPT ![x] = asked[p]]
  /\ told' = IF disk[x] = asked[p] THEN told ELSE [told EXCEPT ![p] = @ \cup Now(p).tell]
  /\ Advance(p)
  /\ UNCHANGED <<want, calm, booting, have, live, down, ufw, cache, result, process>>

\* A file of the filetree, as it is now; nothing is notified.
Push(p) ==
  /\ Turn(p, "push")
  /\ disk' = [disk EXCEPT ![Now(p).on] = want]
  /\ Advance(p)
  /\ UNCHANGED <<want, calm, booting, have, live, down, ufw, cache, told, result, process>>

\* Mutant: what the validation says is ignored (failed_when: false).
CheckLax(p) ==
  /\ Turn(p, "validate") \/ Turn(p, "need")
  /\ Advance(p)
  /\ UNCHANGED <<want, calm, machine, told, result, process>>

\* sshd -t, nginx -t, a stat and a fail: nothing changes when they succeed.
Check(p) ==
  /\ Turn(p, "validate") \/ Turn(p, "need")
  /\ Possible(p)
  /\ Advance(p)
  /\ UNCHANGED <<want, calm, machine, told, result, process>>

\* Mutant: a rule replaces the ones there are, as after `ufw reset`.
AllowOnly(p) ==
  /\ Turn(p, "allow")
  /\ ufw' = [ufw EXCEPT !.allowed = {Now(p).on}]
  /\ Advance(p)
  /\ UNCHANGED <<want, calm, booting, have, disk, live, down, cache, told, result, process>>

Allow(p) ==
  /\ Turn(p, "allow")
  /\ ufw' = [ufw EXCEPT !.allowed = @ \cup {Now(p).on}]
  /\ Advance(p)
  /\ UNCHANGED <<want, calm, booting, have, disk, live, down, cache, told, result, process>>

\* The firewall drops incoming traffic that nothing allows.
Enable(p) ==
  /\ Turn(p, "enable")
  /\ ufw' = [ufw EXCEPT !.on = TRUE]
  /\ Advance(p)
  /\ UNCHANGED <<want, calm, booting, have, disk, live, down, cache, told, result, process>>

\* state: started starts a daemon that is down and leaves one that runs.
\* systemd does not see every daemon fail: the task may pass, or be refused.
Start(p) ==
  LET x == Now(p).on
      starts == x \in down /\ disk[x] \notin Bad IN
  /\ Turn(p, "start")
  /\ live' = IF starts THEN [live EXCEPT ![x] = disk[x]] ELSE live
  /\ down' = IF starts THEN down \ {x} ELSE down
  /\ Advance(p)
  /\ UNCHANGED <<want, calm, booting, have, disk, ufw, cache, told, result, process>>

\* state: reloaded, docker compose up: the file that is there takes effect.
Reload(p) ==
  /\ Turn(p, "reload") \/ Turn(p, "up")
  /\ Possible(p)
  /\ live' = [live EXCEPT ![Now(p).on] = disk[Now(p).on]]
  /\ Advance(p)
  /\ UNCHANGED <<want, calm, booting, have, disk, down, ufw, cache, told, result, process>>

\* A command without a guard that works once; the operator's script.
Once(p) ==
  /\ Turn(p, "once") \/ Turn(p, "script")
  /\ Possible(p)
  /\ have' = have \cup {Now(p).on}
  /\ Advance(p)
  /\ UNCHANGED <<want, calm, booting, disk, live, down, ufw, cache, told, result, process>>

\* get_url finds an archive it has fetched before, and reports no change.
Download(p) ==
  /\ Turn(p, "download")
  /\ cache' = cache \cup {asked[p]}
  /\ fetched' = [fetched EXCEPT ![p] = asked[p] \notin cache]
  /\ Advance(p)
  /\ UNCHANGED <<want, calm, booting, have, disk, live, down, ufw, told, result,
                 tags, asked, seen>>

\* Mutant: a download is not looked at.
UnpackIfAbsent(p) ==
  LET x == Now(p).on IN
  /\ Turn(p, "unpack")
  /\ IF disk[x] = 0
       THEN /\ disk' = [disk EXCEPT ![x] = asked[p]]
            /\ told' = [told EXCEPT ![p] = @ \cup Now(p).tell]
       ELSE UNCHANGED <<disk, told>>
  /\ Advance(p)
  /\ UNCHANGED <<want, calm, booting, have, live, down, ufw, cache, result, process>>

\* Extract and install a release: only after a download that changed something,
\* or when there is no binary.
Unpack(p) ==
  LET x == Now(p).on IN
  /\ Turn(p, "unpack")
  /\ IF fetched[p] \/ disk[x] = 0
       THEN /\ disk' = [disk EXCEPT ![x] = asked[p]]
            /\ told' = [told EXCEPT ![p] = @ \cup Now(p).tell]
       ELSE UNCHANGED <<disk, told>>
  /\ Advance(p)
  /\ UNCHANGED <<want, calm, booting, have, live, down, ufw, cache, result, process>>

\* A notified handler restarts its daemon, which stays down if its file is
\* bad; that fails the run where systemd sees it.  (Ansible has an order for
\* handlers; any is taken.)
Handle(p, d) ==
  /\ Turn(p, "flush") /\ d \in told[p]
  /\ IF disk[d] \in Bad
       THEN down' = down \cup {d} /\ UNCHANGED live
       ELSE down' = down \ {d} /\ live' = [live EXCEPT ![d] = disk[d]]
  /\ \/ told' = [told EXCEPT ![p] = @ \ {d}] /\ UNCHANGED <<at, result>>
     \/ disk[d] \in Bad /\ Fail(p, "failed")
  /\ UNCHANGED <<want, calm, booting, have, disk, ufw, cache, process>>

Flushed(p) ==
  /\ Turn(p, "flush") /\ told[p] = {}
  /\ Advance(p)
  /\ UNCHANGED <<want, calm, machine, told, result, process>>

Step(p) ==
  \/ Wait(p) \/ Install(p) \/ Write(p) \/ Push(p) \/ Check(p) \/ Allow(p) \/ Enable(p)
  \/ Start(p) \/ Reload(p) \/ Once(p) \/ Download(p) \/ Unpack(p)
  \/ \E d \in Items : Handle(p, d)
  \/ Flushed(p) \/ Refuse(p) \/ Contend(p) \/ Finish(p)

Next ==
  \/ Edit \/ Booted \/ Calm
  \/ \E p \in Procs : Begin(p) \/ Step(p) \/ Fault(p)

Spec == Init /\ [][Next]_vars

\* A run goes on by itself, cloud-init ends, and the operator, once things
\* are calm, runs the whole playbook again and again.
FairSpec ==
  /\ Spec
  /\ WF_vars(Booted)
  /\ \A p \in Procs : WF_vars(Step(p)) /\ SF_vars(calm /\ Begin(p) /\ tags'[p] = {})

-----------------------------------------------------------------------------
(* Properties.                                                             *)

Results == {"none", "ok", "failed", "faulted", "locked"}

TypeOK ==
  /\ want \in Versions \ {0} /\ calm \in BOOLEAN /\ booting \in BOOLEAN
  /\ have \subseteq Items \cup {"ufw"}
  /\ disk \in [Items -> Versions] /\ live \in [Items -> Versions]
  /\ down \subseteq Items
  /\ ufw \in [on : BOOLEAN, allowed : SUBSET Items]
  /\ cache \subseteq Versions
  /\ at \in [Procs -> 0 .. End]
  /\ tags \in [Procs -> Options \cup {{}}]
  /\ asked \in [Procs -> Versions]
  /\ seen \in [Procs -> SUBSET Versions]
  /\ told \in [Procs -> SUBSET Items]
  /\ fetched \in [Procs -> BOOLEAN]
  /\ result \in [Procs -> Results]

\* The firewall never drops the port Ansible and the operator come in by,
\* wherever runs fail or are interrupted and however they overlap ("Allow the
\* SSH port in UFW" comes before every task that enables it).
NeverLockedOut == ufw.on => "ssh" \in ufw.allowed

\* A configuration that does not parse never takes down sshd, by which the
\* machine is managed, or nginx: both are asked about their files before they
\* are restarted or reloaded ("Validate the sshd configuration before any
\* restart"), also when a run failed in between or takes other tags.
ValidatedStayUp == down \cap {"sshd", "nginx"} = {}

Whole(p) == tags[p] = {} \/ "all" \in tags[p]

\* A run of the whole playbook does not fail by itself, on a VM still booting,
\* half-configured by a run that failed, or configured long ago: tasks find
\* what earlier ones were to leave, and bear being repeated.  It fails by a
\* fault, or because another run has the lock of apt, certbot or compose.
WholeRunsHold == \A p \in Procs : Whole(p) => result[p] # "failed"

Applies(i) == Playbook[i].group \in Groups
Made(kind) == {Playbook[i].on : i \in {j \in Steps : Applies(j) /\ Playbook[j].do = kind}}
Served == UNION {Playbook[i].tell \cup
                 (IF Playbook[i].do \in {"start", "reload", "up"} THEN {Playbook[i].on} ELSE {}) :
                 i \in {j \in Steps : Applies(j)}}

Succeeded(p) == at[p] = 0 /\ result[p] = "ok" /\ Whole(p)

\* After a successful run of the whole playbook, whatever failed before, every
\* file made from variables is that of the manifest the run began with, every
\* file of the filetree one the operator had there since, and a release the
\* run fetched is installed.
SuccessIsOnDisk ==
  \A p \in Procs : Succeeded(p) =>
    /\ \A x \in Made("write") : disk[x] = asked[p]
    /\ \A x \in Made("push") : disk[x] \in seen[p]
    /\ fetched[p] => \A x \in Made("unpack") : disk[x] = asked[p]

\* The pinned release is what is installed ("the pinned upstream release is
\* downloaded, checksum-verified and run").  It is not after a return to a
\* release still in the download directory.
PinnedIsInstalled ==
  \A p \in Procs : Succeeded(p) => \A x \in Made("unpack") : disk[x] = asked[p]

\* And every daemon runs with the file that is there.
SuccessIsLive ==
  \A p \in Procs : Succeeded(p) => \A d \in Served : d \notin down /\ live[d] = disk[d]

\* Rerunning converge recovers: once faults and edits stop, every file comes
\* to be, and stays, as the operator wants it.
ConvergeRecovers == calm ~> [](\A x \in Made("write") \cup Made("push") : disk[x] = want)
=============================================================================
