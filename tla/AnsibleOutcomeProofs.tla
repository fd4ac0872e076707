------------------------ MODULE AnsibleOutcomeProofs ------------------------
(***************************************************************************)
(* What a playbook run leaves, for every playbook that is as AnsibleInv    *)
(* asks: which runs fail (WholeRunsHold), what a bad file can take down   *)
(* (ValidatedStayUp), and what a success means for files and daemons       *)
(* (SuccessIsOnDisk, SuccessIsLive).                                       *)
(***************************************************************************)
EXTENDS AnsibleProofs

-----------------------------------------------------------------------------
(* What steps leave alone.                                                 *)

Does(p) ==
  \/ Wait(p) \/ Install(p) \/ Write(p) \/ Push(p) \/ Check(p) \/ Allow(p) \/ Enable(p)
  \/ Start(p) \/ Reload(p) \/ Once(p) \/ Download(p) \/ Unpack(p) \/ Flushed(p)

\* A task that succeeds is followed by the next.
LEMMA TaskGoesOn ==
  ASSUME NEW p \in Procs, Does(p)
  PROVE  /\ Running(p) /\ Advance(p)
         /\ UNCHANGED <<want, calm, booting, tags, asked, seen, result>>
  BY DEF Does, Wait, Install, Write, Push, Check, Allow, Enable, Start, Reload, Once,
         Download, Unpack, Flushed, Turn, machine, process

\* A run that ends, by itself or not, leaves the machine.
LEMMA EndLeaves ==
  ASSUME NEW p \in Procs, Fault(p) \/ Refuse(p) \/ Contend(p) \/ Finish(p)
  PROVE  /\ at' = [at EXCEPT ![p] = 0]
         /\ UNCHANGED <<want, machine, tags, asked, seen, fetched>>
  BY DEF Fault, Refuse, Contend, Finish, Fail, process

\* A handler changes what runs, and may end the run.
LEMMA HandlerLeaves ==
  ASSUME NEW p \in Procs, NEW d \in Items, Handle(p, d)
  PROVE  /\ at' = at \/ at' = [at EXCEPT ![p] = 0]
         /\ UNCHANGED <<want, calm, booting, have, disk, cache, tags, asked, seen, fetched>>
  BY DEF Handle, Fail, process

\* A file task makes its file; no other task changes one.
LEMMA TaskFiles ==
  ASSUME TypeOK, NEW p \in Procs, Does(p), NEW x \in Items
  PROVE  \/ /\ x = Now(p).on
            /\ \/ Turn(p, "write") /\ disk'[x] = asked[p]
               \/ Turn(p, "push") /\ disk'[x] = want
               \/ Turn(p, "unpack") /\ (fetched[p] \/ disk[x] = 0) /\ disk'[x] = asked[p]
               \/ Turn(p, "unpack") /\ ~fetched[p] /\ disk[x] # 0 /\ disk'[x] = disk[x]
         \/ (FileTask(at[p]) => x # Now(p).on) /\ disk'[x] = disk[x]
<1>1. CASE Write(p)
  BY <1>1 DEF Write, TypeOK, Turn, FileTask
<1>2. CASE Push(p)
  BY <1>2 DEF Push, TypeOK, Turn, FileTask
<1>3. CASE Unpack(p)
  BY <1>3 DEF Unpack, TypeOK, Turn, FileTask
<1>4. CASE ~(Write(p) \/ Push(p) \/ Unpack(p))
  <2>1. disk' = disk /\ Now(p).do \notin {"write", "push", "unpack"}
    BY <1>4 DEF Does, Wait, Install, Check, Allow, Enable, Start, Reload, Once, Download,
                Flushed, Turn, machine
  <2>q. QED
    BY <2>1 DEF FileTask, Now
<1>q. QED
  BY <1>1, <1>2, <1>3, <1>4

-----------------------------------------------------------------------------
(* Which runs fail.                                                        *)

\* What tasks provide is only added to.
Grows == /\ booting' => booting
         /\ have \subseteq have'
         /\ \A x \in Items : disk[x] # 0 => disk'[x] # 0

LEMMA DoneStays ==
  ASSUME Grows, NEW i \in Steps, Done(i) PROVE Done(i)'
  BY TaskType DEF Grows, Done, FileTask

LEMMA BehindType ==
  ASSUME OnRoute, NEW p \in Procs, at[p] # 0 PROVE Behind(p) \subseteq Steps
  BY TakenType DEF OnRoute, Behind

\* A task that succeeds has done its part.
LEMMA TaskGrows ==
  ASSUME TypeOK, DoneInv, NEW p \in Procs, Does(p), NEW i \in Steps, at[p] = i
  PROVE  Grows /\ Done(i)'
<1>1. asked[p] # 0 /\ want # 0 /\ Running(p) /\ at[p] # 0
  BY TaskGoesOn, TaskType DEF DoneInv, DoneSoFar, TypeOK, Running
<1>2. \A x \in Items : disk[x] # 0 => disk'[x] # 0
  BY <1>1, TaskFiles
<1>3. have \subseteq have' /\ (Playbook[i].do = "install" => Playbook[i].on \in have')
  BY DEF Does, Wait, Install, Write, Push, Check, Allow, Enable, Start, Reload, Once,
         Download, Unpack, Flushed, Turn, machine, Now
<1>4. booting' = booting /\ (Playbook[i].do = "wait" => ~booting')
  <2>1. booting' = booting
    BY TaskGoesOn
  <2>2. Playbook[i].do = "wait" => Wait(p)
    BY DEF Does, Wait, Install, Write, Push, Check, Allow, Enable, Start, Reload, Once,
           Download, Unpack, Flushed, Turn, Now
  <2>q. QED
    BY <2>1, <2>2 DEF Wait
<1>5. FileTask(i) => disk'[Playbook[i].on] # 0
  BY <1>1, TaskFiles, TaskType DEF FileTask, Now
<1>q. QED
  BY <1>2, <1>3, <1>4, <1>5 DEF Grows, Done, FileTask

LEMMA DoneStep == ASSUME TypeOK, DoneInv, [Next]_vars PROVE DoneInv'
<1>1. CASE UNCHANGED vars
  BY <1>1 DEF DoneInv, OnRoute, DoneSoFar, Behind, Done, vars, machine, process
<1>2. CASE Edit \/ Calm
  BY <1>2 DEF Edit, Calm, DoneInv, OnRoute, DoneSoFar, Behind, Done, machine, process
<1>3. CASE Booted
  BY <1>3 DEF Booted, DoneInv, OnRoute, DoneSoFar, Behind, Done, process
<1>4. ASSUME NEW p \in Procs, Begin(p) PROVE DoneInv'
  <2>1. /\ OnRoute' /\ Behind(p)' = {}
        /\ \A q \in Procs : q # p => at'[q] = at[q] /\ Behind(q)' = Behind(q)
    BY <1>4, Begins DEF DoneInv
  <2>2. booting' = booting /\ \A i \in Steps : Done(i) => Done(i)'
    BY <1>4 DEF Begin, machine, Done, FileTask
  <2>3. \A q \in Procs : asked'[q] = IF q = p THEN want ELSE asked[q]
    BY <1>4 DEF Begin, TypeOK
  <2>4. want # 0
    BY DEF TypeOK
  <2>q. QED
    BY <2>1, <2>2, <2>3, <2>4, BehindType DEF DoneInv, DoneSoFar
<1>5. ASSUME NEW p \in Procs, Does(p) PROVE DoneInv'
  <2>1. Running(p) /\ Advance(p) /\ UNCHANGED <<booting, tags, asked>>
    BY <1>5, TaskGoesOn
  <2>2. PICK i \in Steps : at[p] = i
    BY <2>1 DEF Running
  <2>3. Grows /\ Done(i)'
    BY <1>5, <2>2, TaskGrows
  <2>4. /\ OnRoute' /\ at[p] # 0 /\ Behind(p)' = Behind(p) \cup {i}
        /\ \A q \in Procs : q # p => at'[q] = at[q] /\ Behind(q)' = Behind(q)
    BY <2>1, <2>2, GoesOn DEF DoneInv
  <2>5. ASSUME NEW q \in Procs, at'[q] # 0, NEW j \in Behind(q)' PROVE Done(j)'
    <3>1. CASE at[q] # 0 /\ j \in Behind(q)
      BY <2>3, <3>1, BehindType, DoneStays DEF DoneInv, DoneSoFar
    <3>q. QED
      BY <2>3, <2>4, <2>5, <3>1
  <2>6. \A q \in Procs : at'[q] # 0 => asked'[q] # 0
    BY <2>1, <2>4 DEF DoneInv, DoneSoFar
  <2>q. QED
    BY <2>1, <2>4, <2>5, <2>6 DEF DoneInv, DoneSoFar
<1>6. ASSUME NEW p \in Procs, \/ Fault(p) \/ Refuse(p) \/ Contend(p) \/ Finish(p)
                              \/ \E d \in Items : Handle(p, d)
      PROVE  DoneInv'
  <2>1. /\ at' = at \/ at' = [at EXCEPT ![p] = 0]
        /\ UNCHANGED <<booting, have, disk, tags, asked>>
    BY <1>6, EndLeaves, HandlerLeaves DEF machine
  <2>2. /\ OnRoute'
        /\ \A q \in Procs : at'[q] # 0 => at'[q] = at[q] /\ Behind(q)' = Behind(q)
    BY <2>1, Stands DEF DoneInv
  <2>3. \A i \in Steps : Done(i) => Done(i)'
    BY <2>1 DEF Done, FileTask
  <2>q. QED
    BY <2>1, <2>2, <2>3, BehindType DEF DoneInv, DoneSoFar
<1>q. QED
  BY <1>1, <1>2, <1>3, <1>4, <1>5, <1>6 DEF Next, Step, Does

\* With files no daemon refuses, no task of an orderly run does fail.
LEMMA NeverRefused ==
  ASSUME DoneInv, Bad = {}, NEW p \in Procs, Running(p), Provided(tags[p])
  PROVE  Possible(p)
<1> DEFINE i == at[p]
<1>1. i \in Taken[tags[p]] /\ i \in Steps /\ i # 0
  BY TaskType, EndType DEF DoneInv, OnRoute, Running
<1>2. \A j \in Taken[tags[p]] : j < i => Done(j)
  BY <1>1 DEF DoneInv, DoneSoFar, Behind
<1>3. Playbook[i].do = "install" => ~booting
  <2>1. CASE ~Fresh
    BY <2>1 DEF DoneInv, DoneSoFar
  <2>2. CASE Fresh
    BY <1>1, <1>2, <2>2 DEF Provided, Takes, Done
  <2>q. QED
    BY <2>1, <2>2
<1>4. Playbook[i].do = "up" => "docker" \in have
  BY <1>1, <1>2 DEF Provided, Takes, Done
<1>5. Playbook[i].do = "need" => disk[Playbook[i].on] # 0
  BY <1>1, <1>2 DEF Provided, Takes, Done
<1>6. Playbook[i].do # "once"
  BY <1>1 DEF Provided, Takes
<1>q. QED
  BY <1>3, <1>4, <1>5, <1>6 DEF Possible, Now

LEMMA OutcomeStep ==
  ASSUME Bad = {}, Orderly, TypeOK, OutcomeInv, [Next]_vars
  PROVE  WholeRunsHold'
<1>1. CASE UNCHANGED <<result, tags>>
  BY <1>1 DEF OutcomeInv, WholeRunsHold, Whole
<1>2. ASSUME NEW p \in Procs, Begin(p) PROVE WholeRunsHold'
  <2>1. result'[p] = "none" /\ \A q \in Procs \ {p} :
          result'[q] = result[q] /\ tags'[q] = tags[q]
    BY <1>2 DEF Begin, TypeOK
  <2>q. QED
    BY <2>1 DEF OutcomeInv, WholeRunsHold, Whole
<1>3. ASSUME NEW p \in Procs, Fault(p) \/ Contend(p) \/ Finish(p) PROVE WholeRunsHold'
  <2>1. result'[p] # "failed" /\ tags' = tags /\ \A q \in Procs \ {p} : result'[q] = result[q]
    BY <1>3 DEF Fault, Contend, Finish, Fail, process, TypeOK
  <2>q. QED
    BY <2>1 DEF OutcomeInv, WholeRunsHold, Whole
<1>4. ASSUME NEW p \in Procs, Refuse(p) PROVE WholeRunsHold'
  <2>1. ~Provided(tags[p])
    BY <1>4, NeverRefused DEF Refuse, OutcomeInv
  <2>2. tags[p] \in Options
    BY <1>4, TaskType, EndType DEF Refuse, Running, OutcomeInv, DoneInv, OnRoute
  <2>3. ~Whole(p)
    BY <2>1, <2>2 DEF Orderly, WholeRuns, Whole
  <2>q. QED
    BY <1>4, <2>3 DEF Refuse, Fail, process, TypeOK, OutcomeInv, WholeRunsHold, Whole
<1>5. ASSUME NEW p \in Procs, NEW d \in Items, Handle(p, d) PROVE WholeRunsHold'
  BY <1>1, <1>5 DEF Handle, process
<1>6. ASSUME NEW p \in Procs, Does(p) PROVE WholeRunsHold'
  BY <1>1, <1>6, TaskGoesOn
<1>7. CASE Edit \/ Booted \/ Calm \/ UNCHANGED vars
  BY <1>1, <1>7 DEF Edit, Booted, Calm, vars, process
<1>q. QED
  BY <1>2, <1>3, <1>4, <1>5, <1>6, <1>7 DEF Next, Step, Does

LEMMA DoneInit == Init => DoneInv
  BY DEF Init, DoneInv, OnRoute, DoneSoFar

\* With files that work and a playbook in which tasks come after what they
\* need and bear being repeated, no run of the whole playbook fails by a task
\* of its own, whatever failed before it and however many runs overlap: only a
\* fault or a lock another run holds can fail it.
THEOREM WholeRunsSucceed == ASSUME Bad = {}, Orderly PROVE Spec => []WholeRunsHold
<1>1. Init => OutcomeInv
  BY DoneInit DEF Init, OutcomeInv, WholeRunsHold
<1>2. TypeOK /\ OutcomeInv /\ [Next]_vars => OutcomeInv'
  BY DoneStep, OutcomeStep DEF OutcomeInv
<1>3. OutcomeInv => WholeRunsHold
  BY DEF OutcomeInv
<1>q. QED
  BY <1>1, <1>2, <1>3, RunsTypeCorrect, PTL DEF Spec

\* One run at a time meets no lock, and without faults does not fail at all.
Unhindered == \A p \in Procs : result[p] \notin {"faulted", "locked"}
NoneFails == \A p \in Procs : Whole(p) => result[p] \in {"none", "ok"}

LEMMA UnhinderedStep ==
  ASSUME OneRun, ~Faults, TypeOK, Unhindered, [Next]_vars PROVE Unhindered'
<1>1. CASE UNCHANGED result
  BY <1>1 DEF Unhindered
<1>2. ASSUME NEW p \in Procs, Begin(p) \/ Finish(p) \/ Refuse(p) PROVE Unhindered'
  BY <1>2 DEF Begin, Finish, Refuse, Fail, TypeOK, Unhindered
<1>3. ASSUME NEW p \in Procs PROVE ~Fault(p) /\ ~Contend(p)
  BY DEF Fault, Contend, OneRun
<1>4. ASSUME NEW p \in Procs, NEW d \in Items, Handle(p, d) PROVE Unhindered'
  BY <1>4 DEF Handle, Fail, TypeOK, Unhindered
<1>5. ASSUME NEW p \in Procs, Does(p) PROVE Unhindered'
  BY <1>1, <1>5, TaskGoesOn
<1>6. CASE Edit \/ Booted \/ Calm \/ UNCHANGED vars
  BY <1>1, <1>6 DEF Edit, Booted, Calm, vars
<1>q. QED
  BY <1>2, <1>3, <1>4, <1>5, <1>6 DEF Next, Step, Does

\* Without faults, a run of the whole playbook that has the machine to itself
\* always succeeds, on a VM in its first boot as on one configured before.
THEOREM AloneSucceeds ==
  ASSUME Bad = {}, Orderly, OneRun, ~Faults PROVE Spec => []NoneFails
<1>1. Init => Unhindered
  BY DEF Init, Unhindered
<1>2. TypeOK /\ Unhindered /\ [Next]_vars => Unhindered'
  BY UnhinderedStep
<1>3. TypeOK /\ Unhindered /\ WholeRunsHold => NoneFails
  BY DEF TypeOK, Results, Unhindered, WholeRunsHold, NoneFails
<1>q. QED
  BY <1>1, <1>2, <1>3, RunsTypeCorrect, WholeRunsSucceed, PTL DEF Spec

-----------------------------------------------------------------------------
(* What a bad file takes down.                                             *)

\* What has to be shown of one process, when there is no other.
LEMMA GoodWithin ==
  ASSUME OneRun, NEW p \in Procs, OnRoute',
         at'[p] # 0 =>
           /\ \A d \in told'[p] \cap Vital : \E w \in Behind(p)' : d \in Playbook[w].tell
           /\ \A v \in Behind(p)' :
                /\ Playbook[v].do = "validate"
                /\ \A i \in Behind(p)' : v < i /\ FileTask(i) => Playbook[i].on # Playbook[v].on
                => disk'[Playbook[v].on] \notin Bad,
         ValidatedStayUp'
  PROVE  ValidInv'
<1>1. \A q \in Procs : q = p
  BY DEF OneRun
<1>2. ToldBehind'
  BY <1>1 DEF ToldBehind
<1>3. GoodSoFar'
  BY <1>1 DEF GoodSoFar, FileTask
<1>q. QED
  BY <1>2, <1>3 DEF ValidInv

\* A task tells what it says it tells, and a check that passes has seen a
\* good file.
LEMMA TaskTells ==
  ASSUME TypeOK, NEW p \in Procs, Does(p)
  PROVE  /\ told'[p] \subseteq told[p] \cup Now(p).tell
         /\ Now(p).do = "validate" => disk[Now(p).on] \notin Bad /\ disk' = disk
         /\ down' \subseteq down
<1>1. told'[p] \subseteq told[p] \cup Now(p).tell
  BY DEF Does, Wait, Install, Write, Push, Check, Allow, Enable, Start, Reload, Once,
         Download, Unpack, Flushed, TypeOK
<1>2. Now(p).do = "validate" => Check(p)
  BY DEF Does, Wait, Install, Write, Push, Check, Allow, Enable, Start, Reload, Once,
         Download, Unpack, Flushed, Turn
<1>3. Check(p) /\ Now(p).do = "validate" => disk[Now(p).on] \notin Bad /\ disk' = disk
  BY DEF Check, Possible, machine
<1>4. down' \subseteq down
  BY DEF Does, Wait, Install, Write, Push, Check, Allow, Enable, Start, Reload, Once,
         Download, Unpack, Flushed, machine
<1>q. QED
  BY <1>1, <1>2, <1>3, <1>4

\* Before a flush there is a validation of what it is to restart.
LEMMA HandledIsGood ==
  ASSUME Validated, TypeOK, ValidInv, NEW p \in Procs, Turn(p, "flush"),
         NEW d \in told[p] \cap Vital
  PROVE  disk[d] \notin Bad
<1> DEFINE f == at[p]
<1>1. f \in Takes(tags[p], "flush") /\ f # 0 /\ tags[p] \in Options
  BY TaskType, EndType DEF ValidInv, OnRoute, Turn, Running, Now, Takes
<1>2. PICK w \in Behind(p) : d \in Playbook[w].tell
  BY <1>1 DEF ValidInv, ToldBehind
<1>3. w \in Taken[tags[p]] /\ w < f
  BY DEF Behind
<1>4. PICK v \in Takes(tags[p], "validate") :
        /\ w < v /\ v < f /\ Playbook[v].on = d
        /\ \A i \in Taken[tags[p]] : v < i /\ i < f /\ FileTask(i) => Playbook[i].on # d
  BY <1>1, <1>2, <1>3 DEF Validated
<1>5. v \in Behind(p) /\ Playbook[v].do = "validate"
  BY <1>4 DEF Behind, Takes
<1>6. \A i \in Behind(p) : v < i /\ FileTask(i) => Playbook[i].on # Playbook[v].on
  BY <1>4 DEF Behind
<1>q. QED
  BY <1>1, <1>4, <1>5, <1>6 DEF ValidInv, GoodSoFar

\* A task keeps good what was, except the file it makes.
LEMMA TaskKeepsGood ==
  ASSUME OneRun, TypeOK, ValidInv, NEW p \in Procs, Does(p) PROVE ValidInv'
<1>1. Running(p) /\ Advance(p) /\ UNCHANGED tags
  BY TaskGoesOn
<1>2. PICK n \in Steps : at[p] = n
  BY <1>1 DEF Running
<1>3. /\ OnRoute' /\ n # 0 /\ Behind(p)' = Behind(p) \cup {n}
      /\ Behind(p) \subseteq Steps
  BY <1>1, <1>2, GoesOn, BehindType DEF ValidInv
<1>4. Now(p) = Playbook[n]
  BY <1>2 DEF Now
<1>5. ASSUME NEW d \in told'[p] \cap Vital PROVE \E w \in Behind(p)' : d \in Playbook[w].tell
  <2>1. CASE d \in told[p]
    BY <1>2, <1>3, <2>1 DEF ValidInv, ToldBehind
  <2>2. CASE d \in Playbook[n].tell
    BY <1>3, <2>2
  <2>q. QED
    BY <1>4, <1>5, <2>1, <2>2, TaskTells
<1>6. ASSUME NEW v \in Behind(p)', Playbook[v].do = "validate",
             \A i \in Behind(p)' : v < i /\ FileTask(i) => Playbook[i].on # Playbook[v].on
      PROVE  disk'[Playbook[v].on] \notin Bad
  <2>1. CASE v = n
    BY <1>4, <1>6, <2>1, TaskTells
  <2>2. CASE v # n
    <3>1. v \in Behind(p) /\ v < n /\ v \in Steps
      BY <1>2, <1>3, <1>6, <2>2 DEF Behind
    <3>2. disk[Playbook[v].on] \notin Bad
      BY <1>2, <1>3, <1>6, <3>1 DEF ValidInv, GoodSoFar
    <3>3. FileTask(n) => Playbook[n].on # Playbook[v].on
      BY <1>3, <1>6, <3>1
    <3>4. Playbook[v].on \in Items
      BY <3>1, TaskType
    <3>5. disk'[Playbook[v].on] = disk[Playbook[v].on]
      BY <1>2, <1>4, <3>3, <3>4, TaskFiles DEF FileTask, Turn
    <3>q. QED
      BY <3>2, <3>5
  <2>q. QED
    BY <2>1, <2>2
<1>7. ValidatedStayUp'
  BY TaskTells DEF ValidInv, ValidatedStayUp
<1>q. QED
  BY <1>3, <1>5, <1>6, <1>7, GoodWithin

LEMMA ValidStep ==
  ASSUME OneRun, Validated, TypeOK, ValidInv, [Next]_vars PROVE ValidInv'
<1>1. CASE Edit \/ Booted \/ Calm \/ UNCHANGED vars
  BY <1>1 DEF Edit, Booted, Calm, vars, machine, process, ValidInv, OnRoute, ToldBehind,
              GoodSoFar, Behind, ValidatedStayUp
<1>2. ASSUME NEW p \in Procs, Begin(p) PROVE ValidInv'
  <2>1. OnRoute' /\ Behind(p)' = {}
    BY <1>2, Begins DEF ValidInv
  <2>2. told'[p] = {} /\ down' = down
    BY <1>2 DEF Begin, TypeOK, machine
  <2>q. QED
    BY <2>1, <2>2, GoodWithin DEF ValidInv, ValidatedStayUp
<1>3. ASSUME NEW p \in Procs, Fault(p) \/ Refuse(p) \/ Contend(p) \/ Finish(p)
      PROVE  ValidInv'
  <2>1. at' = [at EXCEPT ![p] = 0] /\ UNCHANGED <<machine, tags>>
    BY <1>3, EndLeaves
  <2>2. OnRoute' /\ at'[p] = 0
    BY <2>1, Stands DEF ValidInv, TypeOK
  <2>q. QED
    BY <2>1, <2>2, GoodWithin DEF ValidInv, ValidatedStayUp, machine
<1>4. ASSUME NEW p \in Procs, NEW d \in Items, Handle(p, d) PROVE ValidInv'
  <2>1. (at' = at \/ at' = [at EXCEPT ![p] = 0]) /\ UNCHANGED <<disk, tags>>
    BY <1>4, HandlerLeaves
  <2>2. /\ OnRoute'
        /\ at'[p] # 0 => at'[p] = at[p] /\ Behind(p)' = Behind(p)
    BY <2>1, Stands DEF ValidInv
  <2>3. told'[p] \subseteq told[p]
    BY <1>4 DEF Handle, Fail, TypeOK
  <2>4. ValidatedStayUp'
    <3>1. d \in Vital => disk[d] \notin Bad
      BY <1>4, HandledIsGood DEF Handle
    <3>2. down' \subseteq down \cup (IF disk[d] \in Bad THEN {d} ELSE {})
      BY <1>4 DEF Handle
    <3>q. QED
      BY <3>1, <3>2 DEF ValidInv, ValidatedStayUp, Vital
  <2>q. QED
    BY <2>1, <2>2, <2>3, <2>4, GoodWithin DEF ValidInv, ToldBehind, GoodSoFar
<1>5. ASSUME NEW p \in Procs, Does(p) PROVE ValidInv'
  BY <1>5, TaskKeepsGood
<1>q. QED
  BY <1>1, <1>2, <1>3, <1>4, <1>5 DEF Next, Step, Does

\* Where each restart of sshd and nginx comes after a validation of the file
\* as it then is, no bad version of it, failure or choice of tags takes them
\* down, as long as one run goes on at a time.
THEOREM VitalStayUp == ASSUME OneRun, Validated PROVE Spec => []ValidatedStayUp
<1>1. Init => ValidInv
  BY DEF Init, ValidInv, OnRoute, ToldBehind, GoodSoFar, ValidatedStayUp
<1>2. TypeOK /\ ValidInv /\ [Next]_vars => ValidInv'
  BY ValidStep
<1>3. ValidInv => ValidatedStayUp
  BY DEF ValidInv
<1>q. QED
  BY <1>1, <1>2, <1>3, RunsTypeCorrect, PTL DEF Spec

-----------------------------------------------------------------------------
(* What a success leaves on disk.                                          *)

\* A run knows of a release it fetched until it downloads again.
LEMMA TaskFetches ==
  ASSUME NEW p \in Procs, Does(p), ~Turn(p, "download") PROVE fetched' = fetched
  BY DEF Does, Wait, Install, Write, Push, Check, Allow, Enable, Start, Reload, Once,
         Download, Unpack, Flushed, process

\* A task makes its file, and leaves as they are those made another way.
LEMMA TaskMakes ==
  ASSUME MadeOneWay, DownloadsFirst, TypeOK, WrittenInv, NEW p \in Procs, Does(p),
         NEW n \in Steps, at[p] = n, NEW i \in Behind(p) \cup {n}
  PROVE  AsMade(p, i)'
<1> DEFINE x == Playbook[i].on
<1>1. /\ Running(p) /\ Advance(p) /\ UNCHANGED <<want, tags, asked, seen>>
      /\ Now(p) = Playbook[n]
  BY TaskGoesOn DEF Now
<1>2. /\ tags[p] \in Options /\ n \in Taken[tags[p]] /\ n # 0
      /\ Behind(p) \subseteq Taken[tags[p]] /\ Taken[tags[p]] \subseteq Steps
  BY <1>1, GoesOn, TakenType DEF WrittenInv, Behind
<1>3. i \in Steps /\ i \in Taken[tags[p]] /\ x \in Items
  BY <1>2, TaskType
<1>4. want \in seen[p] /\ (i # n => AsMade(p, i))
  BY <1>2 DEF WrittenInv, MadeSoFar
<1>5. /\ FileTask(i) => Applies(i)
      /\ FileTask(i) /\ FileTask(n) /\ Playbook[n].on = x => Playbook[n].do = Playbook[i].do
  BY <1>2, <1>3 DEF Taken, Selected, Applies, MadeOneWay
<1>6. CASE Playbook[i].do = "write"
  <2>1. disk'[x] = asked[p] \/ (i # n /\ disk'[x] = disk[x])
    BY <1>1, <1>3, <1>5, <1>6, TaskFiles DEF FileTask, Turn
  <2>q. QED
    BY <1>1, <1>4, <1>6, <2>1 DEF AsMade
<1>7. CASE Playbook[i].do = "push"
  <2>1. disk'[x] = want \/ (i # n /\ disk'[x] = disk[x])
    BY <1>1, <1>3, <1>5, <1>7, TaskFiles DEF FileTask, Turn
  <2>q. QED
    BY <1>1, <1>4, <1>7, <2>1 DEF AsMade
<1>8. CASE Playbook[i].do = "unpack"
  <2>1. Playbook[n].do # "download"
    <3>1. SUFFICES ASSUME Playbook[n].do = "download" PROVE FALSE
      OBVIOUS
    <3>2. n < i
      BY <1>2, <1>3, <1>8, <3>1 DEF DownloadsFirst, Takes
    <3>3. i < n
      BY <1>8, <3>1 DEF Behind
    <3>q. QED
      BY <1>3, <3>2, <3>3, TaskType
  <2>2. fetched' = fetched
    BY <1>1, <2>1, TaskFetches DEF Turn
  <2>3. fetched[p] => disk'[x] = asked[p] \/ (i # n /\ disk'[x] = disk[x])
    BY <1>1, <1>3, <1>5, <1>8, TaskFiles DEF FileTask, Turn
  <2>q. QED
    BY <1>1, <1>4, <1>8, <2>2, <2>3 DEF AsMade
<1>q. QED
  BY <1>6, <1>7, <1>8 DEF AsMade

\* What has to be shown of one process, when there is no other.
LEMMA WrittenWithin ==
  ASSUME OneRun, NEW p \in Procs, OnRoute',
         at'[p] # 0 => want' \in seen'[p] /\ \A i \in Behind(p)' : AsMade(p, i)',
         Succeeded(p)' =>
           /\ \A x \in Made("write") : disk'[x] = asked'[p]
           /\ \A x \in Made("push") : disk'[x] \in seen'[p]
           /\ fetched'[p] => \A x \in Made("unpack") : disk'[x] = asked'[p]
  PROVE  WrittenInv'
<1>1. \A q \in Procs : q = p
  BY DEF OneRun
<1>2. MadeSoFar'
  BY <1>1 DEF MadeSoFar
<1>3. SuccessIsOnDisk'
  BY <1>1 DEF SuccessIsOnDisk
<1>q. QED
  BY <1>2, <1>3 DEF WrittenInv

\* A file a whole run has come past is as it made it.
LEMMA AllMade ==
  ASSUME FilesTaken, TypeOK, WrittenInv, NEW p \in Procs, at[p] = End, Whole(p),
         NEW kind \in {"write", "push", "unpack"}, NEW x \in Made(kind)
  PROVE  \E i \in Steps : Playbook[i].do = kind /\ Playbook[i].on = x /\ AsMade(p, i)
<1>1. PICK i \in Steps : Applies(i) /\ Playbook[i].do = kind /\ Playbook[i].on = x
  BY DEF Made
<1>2. tags[p] \in Options /\ at[p] # 0
  BY EndType DEF WrittenInv, OnRoute
<1>3. i \in Taken[tags[p]]
  BY <1>1, <1>2 DEF FilesTaken, FileTask, WholeRuns, Whole
<1>4. i \in Behind(p)
  BY <1>3, TaskType DEF Behind
<1>q. QED
  BY <1>1, <1>2, <1>4 DEF WrittenInv, MadeSoFar

LEMMA WrittenStep ==
  ASSUME OneRun, FilesTaken, MadeOneWay, DownloadsFirst, TypeOK, WrittenInv, [Next]_vars
  PROVE  WrittenInv'
<1>1. CASE Booted \/ Calm \/ UNCHANGED vars
  BY <1>1 DEF Booted, Calm, vars, machine, process, WrittenInv, OnRoute, MadeSoFar, AsMade,
              Behind, SuccessIsOnDisk, Succeeded, Whole
<1>2. CASE Edit
  <2>1. /\ UNCHANGED <<at, tags, asked, disk, result, fetched>>
        /\ \A p \in Procs : /\ at[p] # 0 => want' \in seen'[p]
                            /\ at[p] = 0 => seen'[p] = seen[p]
                            /\ seen[p] \subseteq seen'[p]
    BY <1>2 DEF Edit, machine
  <2>2. OnRoute' /\ MadeSoFar'
    BY <2>1 DEF WrittenInv, OnRoute, MadeSoFar, AsMade, Behind
  <2>3. SuccessIsOnDisk'
    BY <2>1 DEF WrittenInv, SuccessIsOnDisk, Succeeded, Whole
  <2>q. QED
    BY <2>2, <2>3 DEF WrittenInv
<1>3. ASSUME NEW p \in Procs, Begin(p) PROVE WrittenInv'
  <2>1. OnRoute' /\ Behind(p)' = {} /\ at'[p] # 0
    BY <1>3, Begins DEF WrittenInv
  <2>2. want' = want /\ seen'[p] = {want}
    BY <1>3 DEF Begin, TypeOK
  <2>q. QED
    BY <2>1, <2>2, WrittenWithin DEF Succeeded
<1>4. ASSUME NEW p \in Procs, \/ Fault(p) \/ Refuse(p) \/ Contend(p)
                              \/ \E d \in Items : Handle(p, d)
      PROVE  WrittenInv'
  <2>1. /\ at' = at \/ at' = [at EXCEPT ![p] = 0]
        /\ UNCHANGED <<want, disk, tags, asked, seen, fetched>>
    BY <1>4, EndLeaves, HandlerLeaves DEF machine, Handle
  <2>2. /\ OnRoute'
        /\ at'[p] # 0 => at'[p] = at[p] /\ Behind(p)' = Behind(p)
    BY <2>1, Stands DEF WrittenInv
  <2>3. at'[p] = 0 => result'[p] # "ok"
    BY <1>4, TaskType DEF Fault, Refuse, Contend, Handle, Fail, TypeOK, Turn, Running
  <2>4. at'[p] # 0 => want' \in seen'[p] /\ \A i \in Behind(p)' : AsMade(p, i)'
    BY <2>1, <2>2 DEF WrittenInv, MadeSoFar, AsMade
  <2>q. QED
    BY <2>2, <2>3, <2>4, WrittenWithin DEF Succeeded
<1>5. ASSUME NEW p \in Procs, Finish(p) PROVE WrittenInv'
  <2>1. at[p] = End /\ UNCHANGED <<disk, tags, asked, seen, fetched>>
    BY <1>5, EndLeaves DEF Finish, machine
  <2>2. OnRoute' /\ at'[p] = 0
    BY <1>5, Stands DEF WrittenInv, TypeOK, Finish, process
  <2>3. ASSUME Whole(p)
        PROVE  /\ \A x \in Made("write") : disk[x] = asked[p]
               /\ \A x \in Made("push") : disk[x] \in seen[p]
               /\ fetched[p] => \A x \in Made("unpack") : disk[x] = asked[p]
    BY <2>1, <2>3, AllMade DEF AsMade
  <2>q. QED
    BY <2>1, <2>2, <2>3, WrittenWithin DEF Succeeded, Whole
<1>6. ASSUME NEW p \in Procs, Does(p) PROVE WrittenInv'
  <2>1. Running(p) /\ Advance(p) /\ UNCHANGED <<want, tags, asked, seen>>
    BY <1>6, TaskGoesOn
  <2>2. PICK n \in Steps : at[p] = n
    BY <2>1 DEF Running
  <2>3. /\ OnRoute' /\ at[p] # 0 /\ at'[p] # 0 /\ Behind(p)' = Behind(p) \cup {n}
    BY <2>1, <2>2, GoesOn DEF WrittenInv
  <2>4. \A i \in Behind(p)' : AsMade(p, i)'
    BY <1>6, <2>2, <2>3, TaskMakes
  <2>5. want' \in seen'[p]
    BY <2>1, <2>3 DEF WrittenInv, MadeSoFar
  <2>q. QED
    BY <2>3, <2>4, <2>5, WrittenWithin DEF Succeeded
<1>q. QED
  BY <1>1, <1>2, <1>3, <1>4, <1>5, <1>6 DEF Next, Step, Does

\* A run of the whole playbook that succeeds leaves each file made from
\* variables as in the manifest it began with, each file of the filetree as the
\* operator had it at some time since, and each release it fetched installed,
\* whatever failed before it, whichever tags earlier runs took and whatever is
\* edited, forth or back, meanwhile.
THEOREM FilesArrive ==
  ASSUME OneRun, FilesTaken, MadeOneWay, DownloadsFirst
  PROVE  Spec => []SuccessIsOnDisk
<1>1. Init => WrittenInv
  BY DEF Init, WrittenInv, OnRoute, MadeSoFar, SuccessIsOnDisk, Succeeded
<1>2. TypeOK /\ WrittenInv /\ [Next]_vars => WrittenInv'
  BY WrittenStep
<1>3. WrittenInv => SuccessIsOnDisk
  BY DEF WrittenInv
<1>q. QED
  BY <1>1, <1>2, <1>3, RunsTypeCorrect, PTL DEF Spec

-----------------------------------------------------------------------------
(* What a success says of daemons.                                         *)

LEMMA ServedType == Served \subseteq Items
  BY TaskType DEF Served

\* A flush ahead of a task is no nearer than the next task.
LEMMA FlushAhead ==
  ASSUME TypeOK, OnRoute, NEW p \in Procs, Does(p), NEW f \in Taken[tags[p]], at[p] < f
  PROVE  f \in Taken[tags'[p]] /\ at'[p] <= f
<1>1. Running(p) /\ Advance(p) /\ UNCHANGED tags
  BY TaskGoesOn
<1>2. Follows(at[p], at'[p], tags[p]) /\ tags[p] \in Options /\ at[p] \in Nat
  BY <1>1, GoesOn, TaskType DEF Running
<1>3. f \in Nat
  BY <1>2, TakenType, TaskType
<1>q. QED
  BY <1>1, <1>2, <1>3 DEF Follows

\* A task that changes a file tells, and none forgets what was told.
LEMMA ChangeIsTold ==
  ASSUME TypeOK, NEW p \in Procs, Does(p), NEW d \in Items
  PROVE  /\ told[p] \subseteq told'[p]
         /\ disk'[d] # disk[d] /\ ~Turn(p, "push") => Now(p).tell \subseteq told'[p]
         /\ live'[d] = live[d] \/ (live'[d] = disk[d] /\ disk'[d] = disk[d])
         /\ Turn(p, "flush") => told[p] = {}
         /\ down' \subseteq down
<1>1. CASE Write(p) \/ Unpack(p)
  <2>1. \/ told' = told /\ disk' = disk
        \/ told' = [told EXCEPT ![p] = @ \cup Now(p).tell]
        \/ Write(p) /\ told' = told /\ disk[Now(p).on] = asked[p]
    BY <1>1 DEF Write, Unpack
  <2>2. Write(p) => disk' = [disk EXCEPT ![Now(p).on] = asked[p]]
    BY DEF Write
  <2>3. told[p] \subseteq told'[p]
    BY <2>1 DEF TypeOK
  <2>4. disk'[d] # disk[d] => Now(p).tell \subseteq told'[p]
    BY <2>1, <2>2 DEF TypeOK
  <2>5. live' = live /\ down' = down /\ ~Turn(p, "flush")
    BY <1>1 DEF Write, Unpack, Turn
  <2>q. QED
    BY <2>3, <2>4, <2>5
<1>3. CASE Push(p)
  BY <1>3 DEF Push, Turn
<1>4. CASE Start(p) \/ Reload(p)
  <2>1. told' = told /\ disk' = disk /\ ~Turn(p, "flush")
    BY <1>4 DEF Start, Reload, process, Turn
  <2>2. live' = live \/ live' = [live EXCEPT ![Now(p).on] = disk[Now(p).on]]
    BY <1>4 DEF Start, Reload
  <2>3. down' \subseteq down
    BY <1>4 DEF Start, Reload
  <2>q. QED
    BY <2>1, <2>2, <2>3 DEF TypeOK
<1>5. CASE ~(Write(p) \/ Unpack(p) \/ Push(p) \/ Start(p) \/ Reload(p))
  BY <1>5 DEF Does, Wait, Install, Check, Allow, Enable, Once, Download, Flushed, Turn, machine
<1>q. QED
  BY <1>1, <1>3, <1>4, <1>5

LEMMA TaskKeepsLive ==
  ASSUME ChangesTold, TypeOK, LiveInv, OneRun, NEW p \in Procs, Does(p), NEW d \in Served
  PROVE  live'[d] = disk'[d] \/ Awaits(p, d)'
<1>1. Running(p) /\ Advance(p) /\ UNCHANGED tags
  BY TaskGoesOn
<1>2. PICK n \in Steps : at[p] = n
  BY <1>1 DEF Running
<1>3. n \in Taken[tags[p]] /\ tags[p] \in Options /\ at'[p] # 0 /\ Now(p) = Playbook[n]
  BY <1>1, <1>2, GoesOn DEF LiveInv, DoneInv, Now
<1>4. d \in Items
  BY ServedType
<1>5. ASSUME NEW f \in Takes(tags[p], "flush"), n < f, d \in told'[p] PROVE Awaits(p, d)'
  <2>1. f \in Takes(tags'[p], "flush") /\ at'[p] <= f
    BY <1>1, <1>2, <1>5, FlushAhead DEF Takes, LiveInv, DoneInv
  <2>q. QED
    BY <1>3, <1>5, <2>1 DEF Awaits, Takes
<1>6. CASE disk'[d] # disk[d]
  <2>1. FileTask(n) /\ d = Playbook[n].on
    BY <1>2, <1>3, <1>4, <1>6, TaskFiles DEF FileTask, Turn
  <2>2. Playbook[n].do # "push" /\ d \in Playbook[n].tell
    BY <1>3, <2>1 DEF ChangesTold
  <2>3. PICK f \in Takes(tags[p], "flush") : n < f
    BY <1>3, <2>1 DEF ChangesTold
  <2>4. d \in told'[p]
    BY <1>3, <1>4, <1>6, <2>2, ChangeIsTold DEF Turn
  <2>q. QED
    BY <1>5, <2>3, <2>4
<1>7. CASE disk'[d] = disk[d] /\ live[d] = disk[d]
  BY <1>4, <1>7, ChangeIsTold
<1>8. CASE disk'[d] = disk[d] /\ Awaits(p, d)
  <2>1. PICK f \in Takes(tags[p], "flush") : n <= f
    BY <1>2, <1>8 DEF Awaits
  <2>2. d \in told[p]
    BY <1>8 DEF Awaits
  <2>3. f # n
    BY <1>1, <1>2, <1>3, <1>4, <2>2, ChangeIsTold DEF Takes, Turn
  <2>4. n < f
    BY <1>3, <2>1, <2>3, TakenType, TaskType DEF Takes
  <2>q. QED
    BY <1>4, <1>5, <2>2, <2>4, ChangeIsTold
<1>q. QED
  BY <1>6, <1>7, <1>8 DEF LiveInv, OneRun

\* What has to be shown of one process, when there is no other.
LEMMA LiveWithin ==
  ASSUME OneRun, DoneInv', NEW p \in Procs, result'[p] \in {"none", "ok"}, down' = {},
         \A d \in Served : live'[d] = disk'[d] \/ Awaits(p, d)'
  PROVE  LiveInv'
<1>1. \A q \in Procs : result'[q] \in {"none", "ok"}
  BY DEF OneRun
<1>2. ASSUME NEW d \in Served PROVE live'[d] = disk'[d] \/ \E q \in Procs : Awaits(q, d)'
  OBVIOUS
<1>q. QED
  BY <1>1, <1>2 DEF LiveInv

LEMMA LiveStep ==
  ASSUME OneRun, Bad = {}, ~Faults, \A opts \in Options : Provided(opts), ChangesTold,
         TypeOK, LiveInv, [Next]_vars
  PROVE  LiveInv'
<1>1. DoneInv'
  BY DoneStep DEF LiveInv
<1>2. CASE Edit \/ Booted \/ Calm \/ UNCHANGED vars
  <2>1. UNCHANGED <<at, tags, told, disk, live, down, result>>
    BY <1>2 DEF Edit, Booted, Calm, vars, machine, process
  <2>q. QED
    BY <1>1, <2>1 DEF LiveInv, Awaits
<1>3. ASSUME NEW p \in Procs, Begin(p) PROVE LiveInv'
  <2>1. at[p] = 0 /\ UNCHANGED <<disk, live, down>> /\ result'[p] = "none"
    BY <1>3 DEF Begin, machine, TypeOK
  <2>2. \A d \in Served : live[d] = disk[d]
    BY <2>1 DEF LiveInv, Awaits, OneRun
  <2>q. QED
    BY <1>1, <2>1, <2>2, LiveWithin DEF LiveInv
<1>4. ASSUME NEW p \in Procs PROVE ~Fault(p) /\ ~Refuse(p) /\ ~Contend(p)
  <2>1. ASSUME Refuse(p) PROVE FALSE
    <3>1. Running(p) /\ ~Possible(p)
      BY <2>1 DEF Refuse
    <3>2. tags[p] \in Options
      BY <3>1, TaskType DEF Running, LiveInv, DoneInv, OnRoute
    <3>q. QED
      BY <3>1, <3>2, NeverRefused DEF LiveInv
  <2>q. QED
    BY <2>1 DEF Fault, Contend, OneRun
<1>5. ASSUME NEW p \in Procs, Finish(p) PROVE LiveInv'
  <2>1. /\ at[p] = End /\ result'[p] = "ok" /\ UNCHANGED <<disk, live, down>>
    BY <1>5 DEF Finish, machine, TypeOK
  <2>2. tags[p] \in Options
    BY <2>1, EndType DEF LiveInv, DoneInv, OnRoute
  <2>3. \A f \in Taken[tags[p]] : f < End
    BY <2>2, TakenType, TaskType
  <2>4. \A d \in Served : ~Awaits(p, d)
    BY <2>1, <2>2, <2>3, TakenType, TaskType DEF Awaits, Takes
  <2>5. \A d \in Served : live[d] = disk[d]
    BY <2>4 DEF LiveInv, OneRun
  <2>q. QED
    BY <1>1, <2>1, <2>5, LiveWithin DEF LiveInv
<1>6. ASSUME NEW p \in Procs, NEW d \in Items, Handle(p, d) PROVE LiveInv'
  <2>1. /\ down' = down \ {d} /\ live' = [live EXCEPT ![d] = disk[d]]
        /\ told' = [told EXCEPT ![p] = @ \ {d}] /\ UNCHANGED <<at, result, disk, tags>>
    BY <1>6 DEF Handle, process
  <2>2. ASSUME NEW e \in Served PROVE live'[e] = disk'[e] \/ Awaits(p, e)'
    <3>1. live[e] = disk[e] \/ Awaits(p, e)
      BY DEF LiveInv, OneRun
    <3>2. e \in Items
      BY ServedType
    <3>3. CASE e = d
      BY <2>1, <3>3 DEF TypeOK
    <3>4. CASE e # d
      BY <2>1, <3>1, <3>2, <3>4 DEF TypeOK, Awaits
    <3>q. QED
      BY <3>3, <3>4
  <2>3. result'[p] \in {"none", "ok"} /\ down' = {}
    BY <2>1 DEF LiveInv
  <2>q. QED
    BY <1>1, <2>2, <2>3, LiveWithin
<1>7. ASSUME NEW p \in Procs, Does(p) PROVE LiveInv'
  <2>1. result'[p] \in {"none", "ok"}
    BY <1>7, TaskGoesOn DEF LiveInv
  <2>2. down' = {}
    BY <1>7, TaskTells DEF LiveInv
  <2>q. QED
    BY <1>1, <1>7, <2>1, <2>2, TaskKeepsLive, LiveWithin
<1>q. QED
  BY <1>2, <1>3, <1>4, <1>5, <1>6, <1>7 DEF Next, Step, Does

\* Where each task that makes a daemon's file notifies the daemon and its
\* handler comes later in the run, a run that succeeds leaves each daemon up
\* and with the file that is there: those changed by this run, and those by
\* the runs before it, of which none has failed.
THEOREM DaemonsCurrent ==
  ASSUME OneRun, Bad = {}, ~Faults, \A opts \in Options : Provided(opts), ChangesTold
  PROVE  Spec => []SuccessIsLive
<1>1. Init => LiveInv
  BY DoneInit DEF Init, LiveInv
<1>2. TypeOK /\ LiveInv /\ [Next]_vars => LiveInv'
  BY LiveStep
<1>3. LiveInv => SuccessIsLive
  BY DEF LiveInv, SuccessIsLive, Succeeded, Awaits, OneRun
<1>q. QED
  BY <1>1, <1>2, <1>3, RunsTypeCorrect, PTL DEF Spec
=============================================================================
