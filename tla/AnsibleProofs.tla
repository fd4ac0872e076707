--------------------------- MODULE AnsibleProofs ---------------------------
(***************************************************************************)
(* Theorems about playbook runs, for every playbook, every set of          *)
(* processes and every bound.                                              *)
(***************************************************************************)
EXTENDS AnsibleInv, TLAPS

\* The tasks of a playbook are tasks.
LEMMA TaskType == \A i \in Steps : /\ Playbook[i] \in Task
                                   /\ i \in Nat \ {0} /\ i < End /\ End \in Nat
                                   /\ Playbook[i].on \in Items
                                   /\ Playbook[i].tell \subseteq Items
<1>1. Playbook \in Seq(Task)
  BY PlaybookAssumption
<1>2. Len(Playbook) \in Nat /\ Steps = 1 .. Len(Playbook)
  BY <1>1 DEF Steps
<1>3. \A i \in Steps : Playbook[i] \in Task
  BY <1>1, <1>2
<1>4. \A i \in Steps : Playbook[i].on \in Items /\ Playbook[i].tell \subseteq Items
  BY DEF Items
<1>q. QED
  BY <1>2, <1>3, <1>4 DEF End

\* A run that is not over is at a task.
LEMMA EndType == End \in Nat \ {0} /\ Steps = 1 .. End - 1
<1>1. Len(Playbook) \in Nat /\ Steps = 1 .. Len(Playbook)
  BY PlaybookAssumption DEF Steps
<1>q. QED
  BY <1>1 DEF End

\* Going on leaves a process within the playbook.
LEMMA AdvanceType ==
  ASSUME NEW p \in Procs, TypeOK, Advance(p)
  PROVE  at' \in [Procs -> 0 .. End]
<1>1. PICK j \in 1 .. End : at' = [at EXCEPT ![p] = j]
  BY DEF Advance
<1>2. j \in 0 .. End
  BY EndType
<1>q. QED
  BY <1>1, <1>2 DEF TypeOK

LEMMA VersionType == 0 \in Versions /\ 1 \in Versions \ {0}
  BY BoundsAssumption DEF Versions

-----------------------------------------------------------------------------
(* Type correctness.                                                       *)

LEMMA TypeInit == Init => TypeOK
<1> SUFFICES ASSUME Init PROVE TypeOK
  OBVIOUS
<1>1. "sshd" \in Items /\ 0 \in 0 .. End
  BY EndType DEF Items
<1>2. calm \in BOOLEAN /\ booting \in BOOLEAN
  BY BoundsAssumption, Zenon DEF Init
<1>3. disk \in [Items -> Versions] /\ live = disk
  BY VersionType DEF Init
<1>4. /\ want \in Versions \ {0} /\ ufw \in [on : BOOLEAN, allowed : SUBSET Items]
      /\ have \subseteq Items \cup {"ufw"} /\ down \subseteq Items /\ cache \subseteq Versions
  BY <1>1, VersionType DEF Init
<1>5. /\ at \in [Procs -> 0 .. End] /\ tags \in [Procs -> Options \cup {{}}]
      /\ asked \in [Procs -> Versions] /\ told \in [Procs -> SUBSET Items]
      /\ seen \in [Procs -> SUBSET Versions]
  BY <1>1, VersionType DEF Init
<1>6. fetched \in [Procs -> BOOLEAN] /\ result \in [Procs -> Results]
  BY DEF Init, Results
<1>q. QED
  BY <1>2, <1>3, <1>4, <1>5, <1>6 DEF TypeOK

\* What the machine is made of stays so through any task of a run.
LEMMA TaskKeepsType ==
  ASSUME TypeOK, NEW p \in Procs,
         \/ Wait(p) \/ Install(p) \/ Write(p) \/ Push(p) \/ Check(p) \/ Allow(p)
         \/ Enable(p) \/ Start(p) \/ Reload(p) \/ Once(p) \/ Download(p) \/ Unpack(p)
         \/ Flushed(p)
  PROVE  TypeOK'
<1> DEFINE x == Now(p).on
<1>1. Running(p) /\ Advance(p)
  BY DEF Wait, Install, Write, Push, Check, Allow, Enable, Start, Reload, Once, Download,
         Unpack, Flushed, Turn
<1>2. x \in Items /\ Now(p).tell \subseteq Items
  BY <1>1, TaskType DEF Running, Now
<1>3. at' \in [Procs -> 0 .. End]
  BY <1>1, AdvanceType
<1>4. want \in Versions /\ asked[p] \in Versions /\ disk[x] \in Versions
  BY <1>2 DEF TypeOK
<1> HIDE DEF x
<1>5. CASE Wait(p) \/ Check(p) \/ Flushed(p)
  BY <1>3, <1>5 DEF TypeOK, Wait, Check, Flushed, machine, process
<1>6. CASE Install(p) \/ Once(p)
  BY <1>2, <1>3, <1>6 DEF TypeOK, Install, Once, process, x
<1>7. CASE Write(p)
  <2>1. disk' \in [Items -> Versions]
    BY <1>2, <1>4, <1>7 DEF TypeOK, Write, x
  <2>2. told' \in [Procs -> SUBSET Items]
    <3>1. told[p] \cup Now(p).tell \in SUBSET Items
      BY <1>2 DEF TypeOK
    <3>q. QED
      BY <1>7, <3>1 DEF TypeOK, Write
  <2>q. QED
    BY <1>3, <1>7, <2>1, <2>2 DEF TypeOK, Write, process
<1>8. CASE Push(p)
  BY <1>2, <1>3, <1>4, <1>8 DEF TypeOK, Push, process, x
<1>9. CASE Allow(p) \/ Enable(p)
  <2>1. ufw \in [on : BOOLEAN, allowed : SUBSET Items]
    BY DEF TypeOK
  <2>2. CASE Allow(p)
    <3>1. ufw' = [ufw EXCEPT !.allowed = @ \cup {x}]
      BY <2>2 DEF Allow, x
    <3>2. ufw.allowed \cup {x} \in SUBSET Items
      BY <1>2, <2>1
    <3>q. QED
      BY <1>3, <2>1, <2>2, <3>1, <3>2 DEF TypeOK, Allow, process
  <2>3. CASE Enable(p)
    <3>1. ufw' = [ufw EXCEPT !.on = TRUE]
      BY <2>3 DEF Enable
    <3>2. ufw' \in [on : BOOLEAN, allowed : SUBSET Items]
      BY <2>1, <3>1
    <3>q. QED
      BY <1>3, <2>3, <3>2 DEF TypeOK, Enable, process
  <2>q. QED
    BY <1>9, <2>2, <2>3
<1>10. CASE Start(p) \/ Reload(p)
  <2>1. live' \in [Items -> Versions] /\ down' \subseteq Items
    BY <1>2, <1>4, <1>10 DEF TypeOK, Start, Reload, x
  <2>q. QED
    BY <1>3, <1>10, <2>1 DEF TypeOK, Start, Reload, process
<1>11. CASE Download(p)
  BY <1>3, <1>4, <1>11 DEF TypeOK, Download
<1>12. CASE Unpack(p)
  <2>1. told[p] \cup Now(p).tell \in SUBSET Items
    BY <1>2 DEF TypeOK
  <2>2. disk' \in [Items -> Versions] /\ told' \in [Procs -> SUBSET Items]
    BY <1>2, <1>4, <1>12, <2>1 DEF TypeOK, Unpack, x
  <2>q. QED
    BY <1>3, <1>12, <2>2 DEF TypeOK, Unpack, process
<1>q. QED
  BY <1>5, <1>6, <1>7, <1>8, <1>9, <1>10, <1>11, <1>12

LEMMA TypeStep == TypeOK /\ [Next]_vars => TypeOK'
<1> SUFFICES ASSUME TypeOK, [Next]_vars PROVE TypeOK'
  OBVIOUS
<1>1. CASE UNCHANGED vars
  BY <1>1 DEF TypeOK, vars, machine, process
<1>2. CASE Edit
  <2>1. want' \in Versions \ {0}
    BY <1>2 DEF Edit
  <2>2. seen' \in [Procs -> SUBSET Versions]
    BY <1>2, <2>1 DEF TypeOK, Edit
  <2>q. QED
    BY <1>2, <2>1, <2>2 DEF TypeOK, Edit, machine
<1>3. CASE Booted
  BY <1>3 DEF TypeOK, Booted, process
<1>4. CASE Calm
  BY <1>4 DEF TypeOK, Calm, machine, process
<1>5. ASSUME NEW p \in Procs, Begin(p) PROVE TypeOK'
  <2>1. \E opts \in Options : tags' = [tags EXCEPT ![p] = opts]
    BY <1>5 DEF Begin
  <2>2. \E j \in 1 .. End : at' = [at EXCEPT ![p] = j]
    BY <1>5 DEF Begin
  <2>3. at' \in [Procs -> 0 .. End] /\ tags' \in [Procs -> Options \cup {{}}]
    BY <2>1, <2>2, EndType DEF TypeOK
  <2>4. want \in Versions /\ {want} \in SUBSET Versions
    BY DEF TypeOK
  <2>5. result' \in [Procs -> Results]
    BY <1>5 DEF TypeOK, Begin, Results
  <2>6. asked' \in [Procs -> Versions] /\ seen' \in [Procs -> SUBSET Versions]
    BY <1>5, <2>4 DEF TypeOK, Begin
  <2>q. QED
    BY <1>5, <2>3, <2>5, <2>6 DEF TypeOK, Begin, machine
<1>6. ASSUME NEW p \in Procs, Fault(p) \/ Refuse(p) \/ Contend(p) \/ Finish(p) PROVE TypeOK'
  <2>1. 0 \in 0 .. End /\ {} \in SUBSET Items
    BY EndType
  <2>2. at' \in [Procs -> 0 .. End] /\ told' \in [Procs -> SUBSET Items]
    BY <1>6, <2>1 DEF TypeOK, Fault, Refuse, Contend, Finish, Fail
  <2>3. result' \in [Procs -> Results]
    BY <1>6 DEF TypeOK, Fault, Refuse, Contend, Finish, Fail, Results
  <2>4. UNCHANGED <<want, calm, machine, process>>
    BY <1>6 DEF Fault, Refuse, Contend, Finish
  <2>q. QED
    BY <2>2, <2>3, <2>4 DEF TypeOK, machine, process
<1>7. ASSUME NEW p \in Procs, NEW d \in Items, Handle(p, d) PROVE TypeOK'
  <2>1. live' \in [Items -> Versions] /\ down' \subseteq Items
    BY <1>7 DEF TypeOK, Handle
  <2>2. /\ at' \in [Procs -> 0 .. End] /\ told' \in [Procs -> SUBSET Items]
        /\ result' \in [Procs -> Results]
    <3>1. 0 \in 0 .. End /\ told[p] \ {d} \in SUBSET Items
      BY EndType DEF TypeOK
    <3>q. QED
      BY <1>7, <3>1 DEF TypeOK, Handle, Fail, Results
  <2>q. QED
    BY <1>7, <2>1, <2>2 DEF TypeOK, Handle, process
<1>q. QED
  BY <1>1, <1>2, <1>3, <1>4, <1>5, <1>6, <1>7, TaskKeepsType DEF Next, Step

\* The variables have their types in every state.
THEOREM RunsTypeCorrect == Spec => []TypeOK
  BY TypeInit, TypeStep, PTL DEF Spec

-----------------------------------------------------------------------------
(* Where runs are.                                                         *)

LEMMA TakenType == \A opts \in Options : Taken[opts] \subseteq Steps
  BY DEF Taken

\* A run begins at its first task, with none behind it.
LEMMA Begins ==
  ASSUME TypeOK, OnRoute, NEW p \in Procs, Begin(p)
  PROVE  /\ OnRoute' /\ at[p] = 0 /\ at'[p] # 0
         /\ tags'[p] \in Options /\ Follows(0, at'[p], tags'[p]) /\ Behind(p)' = {}
         /\ \A q \in Procs : q # p => at'[q] = at[q] /\ Behind(q)' = Behind(q)
<1>1. PICK opts \in Options :
        /\ tags' = [tags EXCEPT ![p] = opts]
        /\ \E j \in 1 .. End : Follows(0, j, opts) /\ at' = [at EXCEPT ![p] = j]
  BY DEF Begin
<1>2. PICK j \in 1 .. End : Follows(0, j, opts) /\ at' = [at EXCEPT ![p] = j]
  BY <1>1
<1>3. at[p] = 0 /\ at'[p] = j /\ tags'[p] = opts /\ j # 0
  BY <1>1, <1>2, EndType DEF TypeOK, Begin
<1>4. Behind(p)' = {}
  BY <1>2, <1>3, TakenType, TaskType, EndType DEF Follows, Behind
<1>5. \A q \in Procs : q # p => at'[q] = at[q] /\ tags'[q] = tags[q]
  BY <1>1, <1>2 DEF TypeOK
<1>6. OnRoute'
  BY <1>2, <1>3, <1>5 DEF OnRoute, Follows
<1>q. QED
  BY <1>2, <1>3, <1>4, <1>5, <1>6 DEF Behind

\* A run that goes on leaves the task it was at behind it, and no other.
LEMMA GoesOn ==
  ASSUME TypeOK, OnRoute, NEW p \in Procs, Running(p), Advance(p), UNCHANGED tags
  PROVE  /\ OnRoute' /\ tags[p] \in Options /\ at[p] \in Taken[tags[p]] /\ at[p] # 0
         /\ at'[p] # 0 /\ Follows(at[p], at'[p], tags[p])
         /\ Behind(p)' = Behind(p) \cup {at[p]}
         /\ \A q \in Procs : q # p => at'[q] = at[q] /\ Behind(q)' = Behind(q)
<1>1. PICK j \in 1 .. End : Follows(at[p], j, tags[p]) /\ at' = [at EXCEPT ![p] = j]
  BY DEF Advance
<1>2. tags[p] \in Options /\ at[p] \in Taken[tags[p]] /\ at[p] # 0
  BY TaskType, EndType DEF OnRoute, Running
<1>3. at'[p] = j /\ j # 0 /\ j \in Taken[tags[p]] \cup {End}
  BY <1>1, EndType DEF TypeOK, Follows
<1>4. \A q \in Procs : q # p => at'[q] = at[q]
  BY <1>1 DEF TypeOK
<1>5. OnRoute'
  BY <1>2, <1>3, <1>4 DEF OnRoute
<1>6. ASSUME NEW a \in Taken[tags[p]] PROVE a < j <=> a < at[p] \/ a = at[p]
  <2>1. a \in Nat /\ at[p] \in Nat /\ j \in Nat
    BY <1>2, TakenType, TaskType, EndType DEF Running
  <2>q. QED
    BY <1>1, <2>1 DEF Follows
<1>7. Behind(p)' = Behind(p) \cup {at[p]}
  BY <1>2, <1>3, <1>6 DEF Behind
<1>q. QED
  BY <1>1, <1>2, <1>3, <1>4, <1>5, <1>7 DEF Behind

\* A step that leaves every run where it is, or ends one.
LEMMA Stands ==
  ASSUME TypeOK, OnRoute, UNCHANGED tags, NEW p \in Procs,
         at' = at \/ at' = [at EXCEPT ![p] = 0]
  PROVE  /\ OnRoute'
         /\ \A q \in Procs : at'[q] # 0 => at'[q] = at[q] /\ Behind(q)' = Behind(q)
<1>1. \A q \in Procs : at'[q] # 0 => at'[q] = at[q]
  BY DEF TypeOK
<1>q. QED
  BY <1>1 DEF OnRoute, Behind

-----------------------------------------------------------------------------
(* The firewall.                                                           *)

\* Going on, with the rule of the task just done.
LEMMA AdvanceKeeps ==
  ASSUME TypeOK, FirewallInv, NEW p \in Procs, Running(p), Advance(p), UNCHANGED tags,
         ufw.allowed \subseteq ufw'.allowed,
         Now(p).do = "allow" => Now(p).on \in ufw'.allowed
  PROVE  OnRoute' /\ AllowedSoFar'
<1>1. /\ OnRoute' /\ at[p] # 0 /\ Behind(p)' = Behind(p) \cup {at[p]}
      /\ \A q \in Procs : q # p => at'[q] = at[q] /\ Behind(q)' = Behind(q)
  BY GoesOn DEF FirewallInv
<1>2. ASSUME NEW q \in Procs, at'[q] # 0, NEW a \in Behind(q)', Playbook[a].do = "allow"
      PROVE  Playbook[a].on \in ufw'.allowed
  <2>1. CASE a \in Behind(q) /\ at[q] # 0
    BY <1>2, <2>1 DEF FirewallInv, AllowedSoFar
  <2>2. CASE q = p /\ a = at[p]
    BY <1>2, <2>2 DEF Now
  <2>q. QED
    BY <1>1, <1>2, <2>1, <2>2
<1>q. QED
  BY <1>1, <1>2 DEF AllowedSoFar

\* A step that leaves every run where it is, or ends one.
LEMMA StandingKeeps ==
  ASSUME TypeOK, FirewallInv, UNCHANGED <<tags, ufw>>, NEW p \in Procs,
         at' = at \/ at' = [at EXCEPT ![p] = 0]
  PROVE  OnRoute' /\ AllowedSoFar'
<1>1. /\ OnRoute'
      /\ \A q \in Procs : at'[q] # 0 => at'[q] = at[q] /\ Behind(q)' = Behind(q)
  BY Stands DEF FirewallInv
<1>q. QED
  BY <1>1 DEF FirewallInv, AllowedSoFar

LEMMA FirewallStep ==
  ASSUME AllowFirst, TypeOK, FirewallInv, [Next]_vars
  PROVE  FirewallInv'
<1>1. CASE UNCHANGED vars
  BY <1>1 DEF FirewallInv, OnRoute, AllowedSoFar, Behind, NeverLockedOut, vars, machine, process
<1>2. CASE Edit \/ Booted \/ Calm
  BY <1>2 DEF Edit, Booted, Calm, FirewallInv, OnRoute, AllowedSoFar, Behind, NeverLockedOut,
              machine, process
<1>3. ASSUME NEW p \in Procs, Begin(p) PROVE FirewallInv'
  <2>1. /\ OnRoute' /\ Behind(p)' = {}
        /\ \A q \in Procs : q # p => at'[q] = at[q] /\ Behind(q)' = Behind(q)
    BY <1>3, Begins DEF FirewallInv
  <2>2. ufw' = ufw
    BY <1>3 DEF Begin, machine
  <2>q. QED
    BY <2>1, <2>2 DEF FirewallInv, AllowedSoFar, NeverLockedOut
<1>4. ASSUME NEW p \in Procs, Allow(p) PROVE FirewallInv'
  <2>1. /\ ufw'.on = ufw.on /\ ufw'.allowed = ufw.allowed \cup {Now(p).on}
        /\ Running(p) /\ Advance(p) /\ UNCHANGED tags
    BY <1>4 DEF Allow, TypeOK, Turn, process
  <2>q. QED
    BY <2>1, AdvanceKeeps DEF FirewallInv, NeverLockedOut
<1>5. ASSUME NEW p \in Procs, Enable(p) PROVE FirewallInv'
  <2>1. /\ ufw'.allowed = ufw.allowed /\ Running(p) /\ Now(p).do = "enable"
        /\ Advance(p) /\ UNCHANGED tags
    BY <1>5 DEF Enable, TypeOK, Turn, process
  <2>2. tags[p] \in Options /\ at[p] \in Takes(tags[p], "enable") /\ at[p] # 0
    BY <2>1, TaskType, EndType DEF FirewallInv, OnRoute, Running, Takes, Now
  <2>3. "ssh" \in ufw.allowed
    BY <2>1, <2>2 DEF AllowFirst, FirewallInv, AllowedSoFar, Behind, Takes
  <2>q. QED
    BY <2>1, <2>3, AdvanceKeeps DEF FirewallInv, NeverLockedOut
<1>6. ASSUME NEW p \in Procs,
             \/ Wait(p) \/ Install(p) \/ Write(p) \/ Push(p) \/ Check(p) \/ Start(p)
             \/ Reload(p) \/ Once(p) \/ Download(p) \/ Unpack(p) \/ Flushed(p)
      PROVE  FirewallInv'
  <2>1. /\ ufw' = ufw /\ Running(p) /\ Now(p).do # "allow"
        /\ Advance(p) /\ UNCHANGED tags
    BY <1>6 DEF Wait, Install, Write, Push, Check, Start, Reload, Once, Download, Unpack,
                Flushed, Turn, machine, process
  <2>q. QED
    BY <2>1, AdvanceKeeps DEF FirewallInv, NeverLockedOut
<1>7. ASSUME NEW p \in Procs, Fault(p) \/ Refuse(p) \/ Contend(p) \/ Finish(p)
      PROVE  FirewallInv'
  <2>1. at' = [at EXCEPT ![p] = 0] /\ UNCHANGED <<tags, ufw>>
    BY <1>7 DEF Fault, Refuse, Contend, Finish, Fail, machine, process
  <2>q. QED
    BY <2>1, StandingKeeps DEF FirewallInv, NeverLockedOut
<1>8. ASSUME NEW p \in Procs, NEW d \in Items, Handle(p, d) PROVE FirewallInv'
  <2>1. (at' = at \/ at' = [at EXCEPT ![p] = 0]) /\ UNCHANGED <<tags, ufw>>
    BY <1>8 DEF Handle, Fail, process
  <2>q. QED
    BY <2>1, StandingKeeps DEF FirewallInv, NeverLockedOut
<1>q. QED
  BY <1>1, <1>2, <1>3, <1>4, <1>5, <1>6, <1>7, <1>8 DEF Next, Step

\* When every run that enables the firewall allows the SSH port first, no
\* number of overlapping and failing runs locks the machine.
THEOREM NotLockedOut == ASSUME AllowFirst PROVE Spec => []NeverLockedOut
<1>1. Init => FirewallInv
  BY DEF Init, FirewallInv, OnRoute, AllowedSoFar, NeverLockedOut
<1>2. TypeOK /\ FirewallInv /\ [Next]_vars => FirewallInv'
  BY FirewallStep
<1>3. FirewallInv => NeverLockedOut
  BY DEF FirewallInv
<1>q. QED
  BY <1>1, <1>2, <1>3, RunsTypeCorrect, PTL DEF Spec
=============================================================================
