----------------------------- MODULE AnsibleInv -----------------------------
(***************************************************************************)
(* What a playbook has to be like for the properties of Ansible to hold of *)
(* it, and the inductive invariants that then prove them.  The playbooks   *)
(* of the repository are like that: MCAnsible has TLC confirm it.          *)
(***************************************************************************)
EXTENDS Ansible

Takes(opts, kind) == {i \in Taken[opts] : Playbook[i].do = kind}
WholeRuns == {opts \in Options : opts = {} \/ "all" \in opts}
FileTask(i) == Playbook[i].do \in {"write", "push", "unpack"}

\* One playbook run at a time.
OneRun == \A p, q \in Procs : p = q

\* In every run that enables the firewall the SSH port is allowed before.
AllowFirst ==
  \A opts \in Options : \A e \in Takes(opts, "enable") :
    \E a \in Takes(opts, "allow") : a < e /\ Playbook[a].on = "ssh"

\* Each task comes after those that provide what it needs, and none works
\* only once.
Provided(opts) ==
  /\ Fresh => \A i \in Takes(opts, "install") : \E w \in Takes(opts, "wait") : w < i
  /\ \A u \in Takes(opts, "up") :
       \E i \in Takes(opts, "install") : i < u /\ Playbook[i].on = "docker"
  /\ \A n \in Takes(opts, "need") :
       \E i \in Taken[opts] : i < n /\ FileTask(i) /\ Playbook[i].on = Playbook[n].on
  /\ Takes(opts, "once") = {}

Orderly == \A opts \in WholeRuns : Provided(opts)

\* A run of the whole playbook makes every file.
FilesTaken ==
  \A opts \in WholeRuns : \A i \in Steps : Applies(i) /\ FileTask(i) => i \in Taken[opts]

\* A file is made in one way, and a release is downloaded before it is
\* unpacked.
MadeOneWay == \A i, j \in Steps :
  Applies(i) /\ FileTask(i) /\ Applies(j) /\ FileTask(j) /\ Playbook[i].on = Playbook[j].on
  => Playbook[i].do = Playbook[j].do
DownloadsFirst == \A opts \in Options :
  \A i \in Takes(opts, "download"), j \in Takes(opts, "unpack") : i < j

\* A file a daemon runs with is not pushed: who makes it notifies the daemon,
\* whose handler runs later.
ChangesTold ==
  \A opts \in Options : \A i \in Taken[opts] :
    FileTask(i) /\ Playbook[i].on \in Served =>
      /\ Playbook[i].do # "push" /\ Playbook[i].on \in Playbook[i].tell
      /\ \E f \in Takes(opts, "flush") : i < f

\* The daemons ValidatedStayUp is about are restarted with files validated
\* since they were made.
Vital == {"sshd", "nginx"}
Validated ==
  \A opts \in Options : \A w \in Taken[opts], f \in Takes(opts, "flush") :
    \A d \in Playbook[w].tell \cap Vital :
      w < f => \E v \in Takes(opts, "validate") :
                 /\ w < v /\ v < f /\ Playbook[v].on = d
                 /\ \A i \in Taken[opts] : v < i /\ i < f /\ FileTask(i) => Playbook[i].on # d

-----------------------------------------------------------------------------
(* The invariants.  Each says of a process in a run what the tasks behind  *)
(* it have left.                                                           *)

\* A process in a run is at a task its tags select.
OnRoute == \A p \in Procs : at[p] # 0 =>
  tags[p] \in Options /\ at[p] \in Taken[tags[p]] \cup {End}

Behind(p) == {i \in Taken[tags[p]] : i < at[p]}

\* Every port a run was to allow so far is allowed.
AllowedSoFar == \A p \in Procs : at[p] # 0 =>
  \A a \in Behind(p) : Playbook[a].do = "allow" => Playbook[a].on \in ufw.allowed
FirewallInv == OnRoute /\ AllowedSoFar /\ NeverLockedOut

\* What task i provides for later ones.
Done(i) ==
  /\ Playbook[i].do = "wait" => ~booting
  /\ Playbook[i].do = "install" => Playbook[i].on \in have
  /\ FileTask(i) => disk[Playbook[i].on] # 0

DoneSoFar ==
  /\ booting => Fresh
  /\ \A p \in Procs : at[p] # 0 => asked[p] # 0 /\ \A i \in Behind(p) : Done(i)
DoneInv == OnRoute /\ DoneSoFar
OutcomeInv == DoneInv /\ WholeRunsHold

\* A vital daemon is notified by a task, and what was validated is good as
\* long as no task has made it anew.
ToldBehind == \A p \in Procs : at[p] # 0 =>
  \A d \in told[p] \cap Vital : \E w \in Behind(p) : d \in Playbook[w].tell
GoodSoFar == \A p \in Procs : at[p] # 0 =>
  \A v \in Behind(p) :
    /\ Playbook[v].do = "validate"
    /\ \A i \in Behind(p) : v < i /\ FileTask(i) => Playbook[i].on # Playbook[v].on
    => disk[Playbook[v].on] \notin Bad
ValidInv == OnRoute /\ ToldBehind /\ GoodSoFar /\ ValidatedStayUp

\* A run has made its files as SuccessIsOnDisk asks.
AsMade(p, i) ==
  LET x == Playbook[i].on IN
  /\ Playbook[i].do = "write" => disk[x] = asked[p]
  /\ Playbook[i].do = "push" => disk[x] \in seen[p]
  /\ Playbook[i].do = "unpack" /\ fetched[p] => disk[x] = asked[p]
MadeSoFar == \A p \in Procs : at[p] # 0 => want \in seen[p] /\ \A i \in Behind(p) : AsMade(p, i)
WrittenInv == OnRoute /\ MadeSoFar /\ SuccessIsOnDisk

\* A daemon runs with the file that is there, or its handler is to run.
Awaits(p, d) == /\ at[p] # 0 /\ d \in told[p]
                /\ \E f \in Takes(tags[p], "flush") : at[p] <= f
LiveInv ==
  /\ DoneInv
  /\ \A p \in Procs : result[p] \in {"none", "ok"}
  /\ down = {}
  /\ \A d \in Served : live[d] = disk[d] \/ \E p \in Procs : Awaits(p, d)
=============================================================================
