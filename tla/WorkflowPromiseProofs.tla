----------------------- MODULE WorkflowPromiseProofs ------------------------
(***************************************************************************)
(* What commands promise, for all services, processes, manifests and       *)
(* addresses.  What down (DownLeavesNothing) and up (UpEstablishes) leave  *)
(* behind when they exit 0, from an operator who runs one command per      *)
(* service at a time but edits any manifest at any moment; and that no VM  *)
(* is configured with the entry of a host that has another static address, *)
(* nor one with such an address with another's (StaticAsDeclared), from    *)
(* one who runs any commands at once but edits no manifest in use.         *)
(***************************************************************************)
EXTENDS WorkflowCarefulProofs

\* No two commands work on one service.
Alone == \A p, q \in Procs : p # q /\ pc[p] # "idle" /\ pc[q] # "idle" => Svc(p) # Svc(q)

\* Which commands come through a place.
OnWay(p) ==
  /\ pc[p] = "prepared" => job[p].cmd # "converge"
  /\ pc[p] = "applying" => job[p].cmd \in {"up", "down"}
  /\ pc[p] = "applied" => job[p].cmd = "up"
  /\ pc[p] = "destroyed" => job[p].cmd = "down"
  /\ pc[p] \in {"waiting", "ansible", "playing"} => job[p].cmd \in {"up", "converge"}

\* How far a down has come.
Emptied(p) ==
  /\ pc[p] = "applying" => plan[p] = Empty
  /\ pc[p] \in {"destroyed", "ok"} => DOMAIN Resources(Svc(p)) = {} /\ outputs[Svc(p)] = None
  /\ pc[p] = "ok" => inventory[Svc(p)] = None

DownInv ==
  /\ Alone
  /\ \A p \in Procs : pc[p] # "idle" => OnWay(p) /\ (job[p].cmd = "down" => Emptied(p))

-----------------------------------------------------------------------------
(* What a step leaves alone.                                               *)

\* The files of service s that commands write.
FilesOf(s) == <<tfvars[s], tfstate[s], outputs[s], inventory[s]>>

\* A command stands where it stood, with its variables.
Stays(p) ==
  /\ pc'[p] = pc[p] /\ job'[p] = job[p] /\ plan'[p] = plan[p]
  /\ failed'[p] = failed[p] /\ deployed'[p] = deployed[p] /\ playing'[p] = playing[p]

LEMMA OthersStay ==
  ASSUME ProcsTyped, NEW p \in Procs, NEW q \in Procs, q # p,
         Step(p) \/ Call(p) \/ Abort(p)
  PROVE  Stays(q)
  <1>1. DOMAIN pc = Procs /\ DOMAIN job = Procs /\ DOMAIN plan = Procs /\ DOMAIN failed = Procs
        /\ DOMAIN deployed = Procs /\ DOMAIN playing = Procs
    BY DEF ProcsTyped
  <1>2. CASE Call(p) \/ Abort(p)
    BY <1>1, <1>2 DEF Call, Begin, Abort, Forget, Goto, Stays
  <1>3. ASSUME Step(p)
        PROVE failed'[q] = failed[q] /\ deployed'[q] = deployed[q] /\ playing'[q] = playing[q]
    <2>1. ASSUME NEW o \in Services, ReadSibling(p, o) PROVE UNCHANGED <<failed, deployed, playing>>
      BY <2>1 DEF ReadSibling
    <2>2. CASE List(p) \/ Prepare(p) \/ TfPlan(p) \/ Unlink(p) \/ WriteInventory(p)
      BY <2>2 DEF List, Prepare, TfPlan, Unlink, WriteInventory, local
    <2>3. CASE TfStart(p) \/ TfFinish(p) \/ ReadOutputs(p) \/ StartPlay(p)
      BY <1>1, <2>3 DEF TfStart, TfFinish, ReadOutputs, StartPlay
    <2>4. ASSUME NEW k \in Keys,
                 TfDestroy(p, k) \/ TfCreate(p, k) \/ TfUpdate(p, k) \/ TfFail(p, k)
          PROVE  failed'[q] = failed[q] /\ deployed'[q] = deployed[q] /\ playing'[q] = playing[q]
      BY <1>1, <2>4 DEF TfDestroy, TfCreate, TfUpdate, TfFail, local
    <2>5. ASSUME NEW k \in Keys, Connect(p, k) \/ PlayHost(p, k) \/ PlayFail(p, k)
          PROVE  failed'[q] = failed[q] /\ deployed'[q] = deployed[q] /\ playing'[q] = playing[q]
      BY <1>1, <2>5 DEF Connect, PlayHost, PlayFail
    <2>6. CASE WaitTimeout(p) \/ PlayFinish(p) \/ Return(p)
      BY <1>1, <2>6 DEF WaitTimeout, PlayFinish, Return, Forget
    <2> QED BY <1>3, <2>1, <2>2, <2>3, <2>4, <2>5, <2>6 DEF Step
  <1> QED BY <1>2, <1>3, StepLeavesOthers DEF Stays

LEMMA OtherFilesStay ==
  ASSUME TypeOK, NEW p \in Procs, Step(p) \/ Call(p) \/ Abort(p),
         NEW s \in Services, pc[p] # "idle" => s # Svc(p)
  PROVE  UNCHANGED FilesOf(s)
  <1>1. DOMAIN tfvars = Services /\ DOMAIN tfstate = Services
        /\ DOMAIN outputs = Services /\ DOMAIN inventory = Services
    BY DEF TypeOK, FilesOK
  <1>2. CASE Call(p)
    BY <1>2 DEF Call, Begin, files, FilesOf
  <1>3. CASE Abort(p)
    BY <1>1, <1>3 DEF Abort, Running, FilesOf
  <1>4. ASSUME NEW o \in Services, ReadSibling(p, o) PROVE UNCHANGED FilesOf(s)
    BY <1>4 DEF ReadSibling, files, FilesOf
  <1>5. CASE List(p) \/ Prepare(p) \/ TfPlan(p) \/ TfStart(p) \/ TfFinish(p) \/ Unlink(p)
    BY <1>1, <1>5 DEF List, Prepare, TfPlan, TfStart, TfFinish, Unlink, Loaded, files, FilesOf
  <1>6. ASSUME NEW k \in Keys,
               TfDestroy(p, k) \/ TfCreate(p, k) \/ TfUpdate(p, k) \/ TfFail(p, k)
        PROVE  UNCHANGED FilesOf(s)
    BY <1>1, <1>6 DEF TfDestroy, TfCreate, TfUpdate, TfFail, files, FilesOf
  <1>7. CASE ReadOutputs(p) \/ WaitTimeout(p) \/ WriteInventory(p) \/ StartPlay(p)
    BY <1>1, <1>7 DEF ReadOutputs, WaitTimeout, WriteInventory, StartPlay, files, FilesOf
  <1>8. ASSUME NEW k \in Keys, Connect(p, k) \/ PlayHost(p, k) \/ PlayFail(p, k)
        PROVE  UNCHANGED FilesOf(s)
    BY <1>8 DEF Connect, PlayHost, PlayFail, files, FilesOf
  <1>9. CASE PlayFinish(p) \/ Return(p)
    BY <1>9 DEF PlayFinish, Return, files, FilesOf
  <1> QED BY <1>2, <1>3, <1>4, <1>5, <1>6, <1>7, <1>8, <1>9 DEF Step

\* A step of p is a step of a command that stays the one it was, or returns.
LEMMA StepKeepsJob ==
  ASSUME ProcsTyped, NEW p \in Procs, Step(p)
  PROVE  pc[p] # "idle" /\ (pc'[p] = "idle" \/ job'[p] = job[p])
  <1> USE DEF ProcsTyped
  <1>1. CASE Return(p)
    BY <1>1 DEF Return, Goto, Ended
  <1>2. ASSUME NEW o \in Services, ReadSibling(p, o) PROVE pc[p] # "idle" /\ job' = job
    BY <1>2 DEF ReadSibling
  <1>3. CASE List(p) \/ Prepare(p) \/ TfPlan(p) \/ TfStart(p) \/ TfFinish(p) \/ Unlink(p)
    BY <1>3 DEF List, Prepare, TfPlan, TfStart, TfFinish, Unlink, Loaded, local
  <1>4. ASSUME NEW k \in Keys,
               TfDestroy(p, k) \/ TfCreate(p, k) \/ TfUpdate(p, k) \/ TfFail(p, k)
        PROVE  pc[p] # "idle" /\ job' = job
    BY <1>4 DEF TfDestroy, TfCreate, TfUpdate, TfFail, local
  <1>5. CASE ReadOutputs(p) \/ WaitTimeout(p) \/ WriteInventory(p) \/ StartPlay(p) \/ PlayFinish(p)
    BY <1>5 DEF ReadOutputs, WaitTimeout, WriteInventory, StartPlay, PlayFinish, Loaded, local
  <1>6. ASSUME NEW k \in Keys, Connect(p, k) \/ PlayHost(p, k) \/ PlayFail(p, k)
        PROVE  pc[p] # "idle" /\ job' = job
    BY <1>6 DEF Connect, PlayHost, PlayFail
  <1> QED BY <1>1, <1>2, <1>3, <1>4, <1>5, <1>6 DEF Step

LEMMA AloneStep ==
  ASSUME Exclusive, ~HardKills, TypeOK, Alone, [Next]_vars
  PROVE  Alone'
  <1>1. CASE World \/ UNCHANGED vars
    BY <1>1 DEF World, Edit, NewLease, Calm, vars, local, Alone, Svc
  <1>2. ASSUME NEW p \in Procs, Call(p) PROVE Alone'
    <2>1. PICK s \in Services : /\ job'[p].svc = s /\ \A q \in Procs : ~OnService(q, s)
      BY <1>2 DEF Call, Begin, TypeOK, ProcsTyped
    <2>2. \A q \in Procs : q # p => pc'[q] = pc[q] /\ job'[q] = job[q]
      BY <1>2, OthersStay DEF Stays, TypeOK
    <2> QED BY <2>1, <2>2 DEF Alone, Svc, OnService
  <1>3. ASSUME NEW p \in Procs, Step(p) \/ Abort(p) PROVE Alone'
    <2>1. \A q \in Procs : q # p => pc'[q] = pc[q] /\ job'[q] = job[q]
      BY <1>3, OthersStay DEF Stays, TypeOK
    <2>2. pc[p] # "idle" /\ (pc'[p] = "idle" \/ job'[p] = job[p])
      BY <1>3, StepKeepsJob DEF TypeOK, Abort, Running
    <2> QED BY <2>1, <2>2 DEF Alone, Svc
  <1> QED BY <1>1, <1>2, <1>3 DEF Next, Orphan

-----------------------------------------------------------------------------
(* down.                                                                   *)

LEMMA OnWayStep ==
  ASSUME TypeOK, NEW p \in Procs, OnWay(p), Step(p), pc'[p] # "idle"
  PROVE  OnWay(p)'
  <1> USE DEF TypeOK, ProcsTyped, OnWay, Goto, Ended
  <1>0. job[p].cmd \in Commands
    BY StepKeepsJob DEF ProcOK, Jobs
  <1>1. ASSUME NEW o \in Services, ReadSibling(p, o) PROVE OnWay(p)'
    BY <1>1 DEF ReadSibling
  <1>2. CASE List(p) \/ Prepare(p) \/ TfPlan(p) \/ TfStart(p)
    BY <1>2 DEF List, Prepare, TfPlan, TfStart, local
  <1>3. CASE TfFinish(p)
    BY <1>3 DEF TfFinish
  <1>4. ASSUME NEW k \in Keys,
               TfDestroy(p, k) \/ TfCreate(p, k) \/ TfUpdate(p, k) \/ TfFail(p, k)
        PROVE  OnWay(p)'
    BY <1>4 DEF TfDestroy, TfCreate, TfUpdate, TfFail, local
  <1>5. CASE ReadOutputs(p) \/ WriteInventory(p) \/ Unlink(p)
    BY <1>5 DEF ReadOutputs, WriteInventory, Unlink, Loaded, local
  <1>6. CASE WaitTimeout(p) \/ StartPlay(p) \/ PlayFinish(p) \/ Return(p)
    BY <1>6 DEF WaitTimeout, StartPlay, PlayFinish, Return
  <1>7. ASSUME NEW k \in Keys, Connect(p, k) \/ PlayHost(p, k) \/ PlayFail(p, k)
        PROVE  OnWay(p)'
    BY <1>7 DEF Connect, PlayHost, PlayFail
  <1> QED BY <1>1, <1>2, <1>3, <1>4, <1>5, <1>6, <1>7 DEF Step

\* Terraform's destroy is over only when its state names no host.
LEMMA DestroyEmpties ==
  ASSUME TypeOK, NEW p \in Procs, OnWay(p), Emptied(p), job[p].cmd = "down",
         TfFinish(p), pc'[p] = "destroyed"
  PROVE  DOMAIN Resources(Svc(p))' = {} /\ outputs'[Svc(p)] = None
  <1>1. Svc(p) \in Services /\ job' = job
    BY ApplyingPlan DEF TfFinish
  <1>2. failed[p] = {} /\ plan[p] = Empty
    BY DEF TfFinish, Goto, TypeOK, ProcsTyped, Emptied
  <1>3. DOMAIN Resources(Svc(p)) = {}
    BY <1>2 DEF TfFinish, Doomed, Replaces, Empty
  <1>4. tfstate'[Svc(p)] = Resources(Svc(p)) /\ outputs'[Svc(p)] = None
    BY <1>1 DEF TfFinish, TypeOK, FilesOK
  <1> QED BY <1>1, <1>3, <1>4 DEF Resources, Svc, Empty

LEMMA EmptiedStep ==
  ASSUME TypeOK, NEW p \in Procs, OnWay(p), Emptied(p), job[p].cmd = "down", Step(p),
         pc'[p] # "idle"
  PROVE  Emptied(p)'
  <1> USE DEF TypeOK, ProcsTyped, Goto, Ended
  <1>0. Svc(p) \in Services
    BY StepKeepsJob DEF ProcOK, Jobs, Svc
  <1>1. ASSUME NEW o \in Services, ReadSibling(p, o) PROVE Emptied(p)'
    BY <1>1 DEF ReadSibling, Emptied
  <1>2. CASE List(p) \/ Prepare(p) \/ TfPlan(p) \/ TfStart(p)
    BY <1>2 DEF List, Prepare, TfPlan, TfStart, Loaded, local, Emptied
  <1>3. CASE TfFinish(p)
    <2>1. pc'[p] \in {"error", "destroyed"}
      BY <1>3 DEF TfFinish
    <2>2. job' = job
      BY <1>3 DEF TfFinish
    <2> QED BY <1>3, <2>1, <2>2, DestroyEmpties DEF Emptied, Svc
  <1>4. ASSUME NEW k \in Keys,
               TfDestroy(p, k) \/ TfCreate(p, k) \/ TfUpdate(p, k) \/ TfFail(p, k)
        PROVE  Emptied(p)'
    BY <1>4 DEF TfDestroy, TfCreate, TfUpdate, TfFail, local, Emptied
  <1>5. CASE Unlink(p)
    BY <1>0, <1>5 DEF Unlink, local, FilesOK, Emptied, Svc, Resources
  <1>6. CASE ReadOutputs(p) \/ WriteInventory(p) \/ WaitTimeout(p) \/ StartPlay(p) \/ PlayFinish(p)
    BY <1>6 DEF OnWay, ReadOutputs, WriteInventory, WaitTimeout, StartPlay, PlayFinish, Loaded
  <1>7. ASSUME NEW k \in Keys, Connect(p, k) \/ PlayHost(p, k) \/ PlayFail(p, k)
        PROVE  Emptied(p)'
    BY <1>7 DEF OnWay, Connect, PlayHost, PlayFail
  <1> QED BY <1>1, <1>2, <1>3, <1>4, <1>5, <1>6, <1>7 DEF Step, Return

LEMMA DownStep ==
  ASSUME Exclusive, ~HardKills, Inv, DownInv, [Next]_vars
  PROVE  DownInv'
  <1> USE DEF Inv
  <1>1. Alone'
    BY AloneStep DEF DownInv
  <1> DEFINE Good(q) == pc[q] # "idle" => OnWay(q) /\ (job[q].cmd = "down" => Emptied(q))
  <1>2. CASE World \/ UNCHANGED vars
    BY <1>1, <1>2 DEF World, Edit, NewLease, Calm, vars, files, local, DownInv, OnWay, Emptied,
                      Svc, Resources
  <1>3. ASSUME NEW p \in Procs, Step(p) \/ Call(p) \/ Abort(p), NEW q \in Procs, q # p
        PROVE  Good(q)'
    <2>1. Stays(q)
      BY <1>3, OthersStay DEF TypeOK
    <2> SUFFICES ASSUME pc[q] # "idle" PROVE Good(q)'
      BY <2>1 DEF Stays
    <2>2. PICK s \in Services : s = Svc(q) /\ (pc[p] # "idle" => s # Svc(p))
      BY <1>3 DEF TypeOK, ProcOK, Jobs, Svc, DownInv, Alone
    <2>3. UNCHANGED FilesOf(s)
      BY <1>3, <2>2, OtherFilesStay
    <2> QED BY <2>1, <2>2, <2>3 DEF DownInv, Stays, FilesOf, OnWay, Emptied, Svc, Resources
  <1>4. ASSUME NEW p \in Procs, Step(p) PROVE Good(p)'
    BY <1>4, OnWayStep, EmptiedStep, StepKeepsJob DEF DownInv, TypeOK
  <1>5. ASSUME NEW p \in Procs, Call(p) \/ Abort(p) PROVE Good(p)'
    BY <1>5 DEF Call, Begin, Abort, Goto, OnWay, Emptied, TypeOK, ProcsTyped
  <1>6. ASSUME NEW p \in Procs, Step(p) \/ Call(p) \/ Abort(p) PROVE DownInv'
    <2>1. \A q \in Procs : Good(q)'
      BY <1>3, <1>4, <1>5, <1>6
    <2> QED BY <1>1, <2>1 DEF DownInv
  <1> QED BY <1>2, <1>6 DEF Next, Orphan

\* A command that exits 0 on down has removed every VM of its service, the
\* outputs and the inventory (the end of workflows.down), whatever manifest
\* the service was deployed from and whatever other services do meanwhile:
\* destroy works from the state alone, and the state is the whole record.
THEOREM DownIsComplete ==
  ASSUME Exclusive, ~HardKills
  PROVE  Spec => []DownLeavesNothing
  <1> DEFINE I == Inv /\ ExistingRecorded /\ DownInv
  <1>1. Init => I
    BY InitType, InitRecord DEF Inv, DownInv, Alone, Init
  <1>2. I /\ [Next]_vars => I'
    BY TypeStep, RecordStep, DownStep DEF Inv
  <1>3. I => DownLeavesNothing
    <2> SUFFICES ASSUME I, NEW p \in Procs, Succeeded(p, "down")
                 PROVE  /\ VMsOf(Svc(p)) = {}
                        /\ outputs[Svc(p)] = None /\ inventory[Svc(p)] = None
      BY DEF DownLeavesNothing
    <2>1. DOMAIN Resources(Svc(p)) = {} /\ outputs[Svc(p)] = None /\ inventory[Svc(p)] = None
      BY DEF Succeeded, DownInv, Emptied
    <2> QED BY <2>1 DEF ExistingRecorded, Recorded, VMsOf
  <1> HIDE DEF I
  <1> QED BY <1>1, <1>2, <1>3, PTL DEF Spec

-----------------------------------------------------------------------------
(* Addresses.                                                              *)

\* A VM has its host's own address or a lease.
AddressOK(v) ==
  IF cluster[v].host.address # None THEN cluster[v].ip = cluster[v].host.address
  ELSE cluster[v].ip \in Leases

Leased(v) == cluster[v].host.address = None

Addressed ==
  /\ \A v \in VMs : AddressOK(v)
  /\ \A v, w \in VMs : v # w /\ Leased(v) /\ Leased(w) => cluster[v].ip # cluster[w].ip

\* A step changes one VM, which is gone, booted, or has the address it had.
Booted(v) == cluster'[v].ip \in BootAddresses(cluster'[v].host)
SameAddress(v) ==
  /\ cluster[v] # None
  /\ cluster'[v].ip = cluster[v].ip /\ cluster'[v].host.address = cluster[v].host.address
OneVM(v) ==
  /\ \A w \in VmIds : w # v => cluster'[w] = cluster[w]
  /\ cluster'[v] = None \/ Booted(v) \/ SameAddress(v)

LEMMA NewVMIsOne ==
  ASSUME TypeOK, NEW p \in Procs, NEW k \in Keys, TfCreate(p, k) \/ Orphan(p, k)
  PROVE  \E v \in VmIds : OneVM(v)
  <1> DEFINE h == plan[p][k]
  <1>1. h \in Host /\ h.vm_id \in VmIds
    <2>1. pc[p] = "applying" /\ k \in DOMAIN plan[p]
      BY DEF TfCreate, Orphan, Missing
    <2> QED BY <2>1, ApplyingPlan DEF IsPartial, Host
  <1>2. PICK ip \in BootAddresses(h) :
          cluster' = [cluster EXCEPT ![h.vm_id] = NewVM(Svc(p), k, h, ip)]
    BY DEF TfCreate, Orphan
  <1>3. cluster'[h.vm_id] = NewVM(Svc(p), k, h, ip)
    BY <1>1, <1>2 DEF TypeOK, FilesOK
  <1>4. OneVM(h.vm_id)
    BY <1>1, <1>2, <1>3 DEF OneVM, Booted, NewVM, TypeOK, FilesOK
  <1> QED BY <1>1, <1>4

LEMMA UpdatedVM ==
  ASSUME Inv, NEW p \in Procs, NEW k \in Keys, TfUpdate(p, k)
  PROVE  LET v == plan[p][k].vm_id IN
         v \in VmIds /\ cluster[v] # None /\ cluster[v].svc = Svc(p) /\ OneVM(v)
  <1> USE DEF Inv
  <1> DEFINE s == Svc(p)
             h == plan[p][k]
             v == h.vm_id
  <1>1. /\ s \in Services /\ k \in DOMAIN plan[p] /\ IsPartial(plan[p], Host)
        /\ k \in DOMAIN Resources(s) /\ tfstate[s] = Resources(s)
        /\ v = tfstate[s][k].vm_id
    BY ApplyingPlan DEF TfUpdate, Drifted, Replaces, Resources, Empty
  <1>2. h \in Host /\ v \in VmIds
    BY <1>1 DEF IsPartial, Host
  <1>3. cluster[v] # None /\ cluster[v].svc = s /\ cluster[v].host = tfstate[s][k]
    BY <1>1 DEF RecordedExists, Stands
  <1>4. cluster[v] \in VM
    BY <1>2, <1>3 DEF TypeOK, FilesOK
  <1>5. PICK ip \in IF h.address = tfstate[s][k].address THEN {cluster[v].ip} ELSE BootAddresses(h) :
          cluster' = [cluster EXCEPT ![v].host = h, ![v].ip = ip]
    BY DEF TfUpdate
  <1>6. cluster'[v].host = h /\ cluster'[v].ip = ip
    BY <1>2, <1>4, <1>5 DEF TypeOK, FilesOK, VM
  <1>7. \A w \in VmIds : w # v => cluster'[w] = cluster[w]
    BY <1>5 DEF TypeOK, FilesOK
  <1>8. Booted(v) \/ SameAddress(v)
    <2>1. CASE h.address = tfstate[s][k].address
      BY <1>3, <1>5, <1>6, <2>1 DEF SameAddress
    <2>2. CASE h.address # tfstate[s][k].address
      BY <1>5, <1>6, <2>2 DEF Booted
    <2> QED BY <2>1, <2>2
  <1>9. OneVM(v)
    BY <1>7, <1>8 DEF OneVM
  <1> HIDE DEF v
  <1>10. v \in VmIds /\ cluster[v] # None /\ cluster[v].svc = Svc(p) /\ OneVM(v)
    BY <1>2, <1>3, <1>9
  <1> USE DEF v
  <1> QED BY <1>10

LEMMA PlayedVM ==
  ASSUME TypeOK, NEW p \in Procs, NEW k \in Keys, PlayHost(p, k)
  PROVE  \E v \in Reachable(Svc(p), playing[p][k].address) :
           /\ OneVM(v) /\ SameAddress(v) /\ cluster'[v] # None
           /\ cluster'[v].conf = [key |-> k, host |-> playing[p][k].host]
  <1>1. PICK v \in Reachable(Svc(p), playing[p][k].address) :
          cluster' = [cluster EXCEPT ![v].conf = [key |-> k, host |-> playing[p][k].host]]
    BY DEF PlayHost
  <1>2. v \in VmIds /\ cluster[v] # None /\ cluster[v] \in VM
    BY DEF Reachable, VMsOf, VMs, TypeOK, FilesOK
  <1>3. /\ cluster'[v].ip = cluster[v].ip /\ cluster'[v].host = cluster[v].host
        /\ cluster'[v].conf = [key |-> k, host |-> playing[p][k].host]
    BY <1>1, <1>2 DEF TypeOK, FilesOK, VM
  <1>4. \A w \in VmIds : w # v => cluster'[w] = cluster[w]
    BY <1>1 DEF TypeOK, FilesOK
  <1>5. cluster'[v] # None
    BY <1>2, PlayHostAlike DEF Alike
  <1> QED BY <1>2, <1>3, <1>4, <1>5 DEF OneVM, SameAddress

LEMMA NewLeaseIsOne ==
  ASSUME TypeOK, NEW v \in VmIds, NewLease(v)
  PROVE  OneVM(v)
  <1>1. PICK ip \in FreeLeases : cluster' = [cluster EXCEPT ![v].ip = ip]
    BY DEF NewLease
  <1>2. cluster[v] \in VM /\ cluster[v].host.address = None
    BY DEF NewLease, TypeOK, FilesOK
  <1>3. cluster'[v].ip = ip /\ cluster'[v].host = cluster[v].host
    BY <1>1, <1>2 DEF TypeOK, FilesOK, VM
  <1>4. \A w \in VmIds : w # v => cluster'[w] = cluster[w]
    BY <1>1 DEF TypeOK, FilesOK
  <1> QED BY <1>2, <1>3, <1>4 DEF OneVM, Booted, BootAddresses

LEMMA OneVMAtATime ==
  ASSUME Inv, [Next]_vars
  PROVE  UNCHANGED cluster \/ \E v \in VmIds : OneVM(v)
  <1> USE DEF Inv
  <1>1. CASE World
    BY <1>1, NewLeaseIsOne DEF World, Edit, Calm
  <1>2. ASSUME NEW p \in Procs, Call(p) \/ Abort(p) PROVE UNCHANGED cluster
    BY <1>2 DEF Call, Begin, Abort
  <1>3. ASSUME NEW p \in Procs, Step(p)
        PROVE  \/ UNCHANGED cluster
               \/ \E k \in Keys : \/ TfDestroy(p, k) \/ TfCreate(p, k)
                                  \/ TfUpdate(p, k) \/ PlayHost(p, k)
    BY <1>3 DEF Step, List, ReadSibling, Prepare, TfPlan, TfStart, TfFail, TfFinish, Unlink,
                ReadOutputs, Connect, WaitTimeout, WriteInventory, StartPlay, PlayFail,
                PlayFinish, Return
  <1>4. ASSUME NEW p \in Procs, NEW k \in Keys, TfDestroy(p, k)
        PROVE  \E v \in VmIds : OneVM(v)
    <2> DEFINE v == tfstate[Svc(p)][k].vm_id
    <2>1. Svc(p) \in Services /\ k \in DOMAIN Resources(Svc(p))
          /\ tfstate[Svc(p)] = Resources(Svc(p))
      BY <1>4, ApplyingPlan DEF TfDestroy, Doomed, Replaces, Resources, Empty
    <2>2. v \in VmIds
      BY <2>1, ResourcesPartial DEF TypeOK, IsPartial, Host
    <2>3. cluster' = [cluster EXCEPT ![v] = None]
      BY <1>4 DEF TfDestroy
    <2>4. OneVM(v)
      BY <2>2, <2>3 DEF OneVM, TypeOK, FilesOK
    <2> QED BY <2>2, <2>4
  <1>5. ASSUME NEW p \in Procs, NEW k \in Keys,
               TfCreate(p, k) \/ Orphan(p, k) \/ TfUpdate(p, k) \/ PlayHost(p, k)
        PROVE  \E v \in VmIds : OneVM(v)
    <2>1. CASE TfCreate(p, k) \/ Orphan(p, k)
      BY <2>1, NewVMIsOne
    <2>2. CASE TfUpdate(p, k)
      BY <2>2, UpdatedVM
    <2>3. CASE PlayHost(p, k)
      BY <2>3, PlayedVM DEF Reachable, VMsOf, VMs
    <2> QED BY <1>5, <2>1, <2>2, <2>3
  <1>6. CASE UNCHANGED vars
    BY <1>6 DEF vars
  <1> QED BY <1>1, <1>2, <1>3, <1>4, <1>5, <1>6 DEF Next

LEMMA AddressedStep ==
  ASSUME Inv, Addressed, [Next]_vars
  PROVE  Addressed'
  <1>1. CASE UNCHANGED cluster
    BY <1>1 DEF Addressed, AddressOK, Leased, VMs
  <1>2. ASSUME NEW v \in VmIds, OneVM(v) PROVE Addressed'
    <2>1. \A w \in VMs' : w # v => w \in VMs /\ cluster'[w] = cluster[w]
      BY <1>2 DEF OneVM, VMs
    <2>2. CASE cluster'[v] = None
      BY <2>1, <2>2 DEF Addressed, AddressOK, Leased, VMs
    <2>3. CASE SameAddress(v)
      <3>1. v \in VMs /\ cluster'[v].ip = cluster[v].ip
            /\ cluster'[v].host.address = cluster[v].host.address
        BY <2>3 DEF SameAddress, VMs
      <3> QED BY <2>1, <3>1 DEF Addressed, AddressOK, Leased
    <2>4. CASE Booted(v) /\ cluster'[v] # None
      <3>1. AddressOK(v)'
        BY <2>4 DEF Booted, BootAddresses, FreeLeases, AddressOK
      <3>2. ASSUME NEW w \in VMs', w # v, Leased(v)' PROVE cluster'[v].ip # cluster'[w].ip
        BY <2>1, <2>4, <3>2 DEF Booted, BootAddresses, FreeLeases, Leased
      <3> QED BY <2>1, <3>1, <3>2 DEF Addressed, AddressOK, Leased
    <2> QED BY <1>2, <2>2, <2>3, <2>4 DEF OneVM
  <1> QED BY <1>1, <1>2, OneVMAtATime

\* What a step of p may do to a VM of another service: nothing.
LEMMA OtherVMsStay ==
  ASSUME Inv, NEW p \in Procs, Step(p) \/ Call(p) \/ Abort(p),
         NEW v \in VMs, pc[p] # "idle" => cluster[v].svc # Svc(p)
  PROVE  cluster'[v] = cluster[v]
  <1> USE DEF Inv
  <1>0. v \in VmIds /\ cluster[v] # None
    BY DEF VMs
  <1>1. CASE Call(p) \/ Abort(p)
    BY <1>1 DEF Call, Begin, Abort
  <1>2. ASSUME Step(p)
        PROVE  \/ UNCHANGED cluster
               \/ \E k \in Keys : \/ TfDestroy(p, k) \/ TfCreate(p, k)
                                  \/ TfUpdate(p, k) \/ PlayHost(p, k)
    BY <1>2 DEF Step, List, ReadSibling, Prepare, TfPlan, TfStart, TfFail, TfFinish, Unlink,
                ReadOutputs, Connect, WaitTimeout, WriteInventory, StartPlay, PlayFail,
                PlayFinish, Return
  <1>3. ASSUME NEW k \in Keys, TfDestroy(p, k) PROVE cluster'[v] = cluster[v]
    <2>1. /\ Svc(p) \in Services /\ k \in DOMAIN Resources(Svc(p))
          /\ tfstate[Svc(p)] = Resources(Svc(p))
      BY <1>3, ApplyingPlan DEF TfDestroy, Doomed, Replaces, Resources, Empty
    <2>2. cluster[tfstate[Svc(p)][k].vm_id].svc = Svc(p)
      BY <2>1 DEF RecordedExists, Stands
    <2> QED BY <1>0, <1>3, <2>2 DEF TfDestroy, TypeOK, FilesOK
  <1>4. ASSUME NEW k \in Keys, TfCreate(p, k) PROVE cluster'[v] = cluster[v]
    BY <1>0, <1>4 DEF TfCreate, TypeOK, FilesOK
  <1>5. ASSUME NEW k \in Keys, TfUpdate(p, k) PROVE cluster'[v] = cluster[v]
    <2>1. pc[p] = "applying"
      BY <1>5 DEF TfUpdate
    <2> QED BY <1>0, <1>5, <2>1, UpdatedVM DEF OneVM
  <1>6. ASSUME NEW k \in Keys, PlayHost(p, k) PROVE cluster'[v] = cluster[v]
    <2>1. pc[p] = "playing"
      BY <1>6 DEF PlayHost
    <2> QED BY <1>0, <1>6, <2>1, PlayedVM DEF OneVM, Reachable, VMsOf
  <1> QED BY <1>1, <1>2, <1>3, <1>4, <1>5, <1>6

-----------------------------------------------------------------------------
(* up.                                                                     *)

IpOf(h) == cluster[h.vm_id].ip
Entry(m, k) == [host |-> m[k], address |-> IpOf(m[k])]
Configured(m, k) == cluster[m[k].vm_id].conf = [key |-> k, host |-> m[k]]

\* How far an up of service s with manifest m has come, through Terraform ...
Built(p, s, m) ==
  /\ pc[p] = "prepared" => tfvars[s] = m
  /\ pc[p] = "applying" => plan[p] = m
  /\ pc[p] \in {"applied", "waiting", "ansible", "playing", "ok"} =>
       m \in AllDrafts /\ tfstate[s] = m
  /\ pc[p] = "applied" =>
       /\ DOMAIN outputs[s] = DOMAIN m
       /\ \A k \in DOMAIN m :
            \/ outputs[s][k] = IpOf(m[k])
            \/ outputs[s][k] = None /\ m[k].address = None

\* ... and through Ansible.
Played(p, s, m) ==
  /\ pc[p] = "waiting" =>
       DOMAIN deployed[p] = DOMAIN m /\ \A k \in DOMAIN m : deployed[p][k] = IpOf(m[k])
  /\ pc[p] = "ansible" => inventory[s] = [k \in DOMAIN m |-> Entry(m, k)]
  /\ pc[p] = "playing" =>
       /\ \A k \in DOMAIN playing[p] : k \in DOMAIN m /\ playing[p][k] = Entry(m, k)
       /\ \A k \in DOMAIN m \ DOMAIN playing[p] : k \in failed[p] \/ Configured(m, k)
  /\ pc[p] = "ok" => \A k \in DOMAIN m : Configured(m, k)

Raised(p, s, m) == job[p].only = None /\ Built(p, s, m) /\ Played(p, s, m)

UpInv ==
  /\ Addressed
  /\ \A p \in Procs : pc[p] # "idle" /\ job[p].cmd = "up" => Raised(p, Svc(p), job[p].man)

LEMMA DraftNotNone == ASSUME NEW m \in AllDrafts PROVE m # None
  BY DraftsPartial, NoneAssumption DEF IsPartial

\* The VMs of a service whose state records m.
LEMMA HostStands ==
  ASSUME Inv, NEW s \in Services, NEW m \in AllDrafts, tfstate[s] = m, NEW k \in DOMAIN m
  PROVE  /\ m[k] \in Host /\ m[k].vm_id \in VMsOf(s)
         /\ cluster[m[k].vm_id].key = k /\ cluster[m[k].vm_id].host = m[k]
         /\ cluster[m[k].vm_id] \in VM
  <1>1. m[k] \in Host
    BY DraftsPartial DEF IsPartial
  <1>2. Stands(s, k) /\ m[k].vm_id \in VmIds
    BY <1>1, DraftNotNone DEF Inv, RecordedExists, Resources, Host
  <1> QED BY <1>1, <1>2 DEF Stands, VMsOf, VMs, Inv, TypeOK, FilesOK

LEMMA VMIsHost ==
  ASSUME Inv, ExistingRecorded, NEW s \in Services, NEW m \in AllDrafts, tfstate[s] = m,
         NEW v \in VMsOf(s)
  PROVE  cluster[v].key \in DOMAIN m /\ m[cluster[v].key].vm_id = v
  BY DraftNotNone DEF VMsOf, ExistingRecorded, Recorded, Resources

\* Within a service an address leads to one VM.
LEMMA OwnAddress ==
  ASSUME PoolApart, Inv, ExistingRecorded, Addressed,
         NEW s \in Services, NEW m \in AllDrafts, tfstate[s] = m, Resolves(m),
         NEW k \in DOMAIN m, NEW v \in Reachable(s, IpOf(m[k]))
  PROVE  v = m[k].vm_id
  <1> DEFINE w == m[k].vm_id
             j == cluster[v].key
  <1>1. w \in VMs /\ cluster[w].host = m[k] /\ m[k] \in Host
    BY HostStands DEF VMsOf
  <1>2. v \in VMs /\ v \in VMsOf(s) /\ cluster[v].ip = cluster[w].ip
    BY DEF Reachable, VMsOf, IpOf
  <1>3. j \in DOMAIN m /\ m[j].vm_id = v
    BY <1>2, VMIsHost
  <1>4. cluster[v].host = m[j] /\ m[j] \in Host
    BY <1>3, HostStands
  <1>5. AddressOK(v) /\ AddressOK(w)
    BY <1>1, <1>2 DEF Addressed
  <1> SUFFICES ASSUME v # w PROVE FALSE
    OBVIOUS
  <1>6. ~Clash(m[j], m[k])
    BY <1>3 DEF Resolves
  <1>7. ~(Leased(v) /\ Leased(w))
    BY <1>1, <1>2 DEF Addressed
  <1> QED BY <1>1, <1>2, <1>4, <1>5, <1>6, <1>7 DEF AddressOK, Leased, Clash, PoolApart, Host

\* Its own place, files and VMs are all that Raised speaks of.
LEMMA RaisedStays ==
  ASSUME Inv, NEW p \in Procs, NEW s \in Services, NEW m, Raised(p, s, m),
         Stays(p), UNCHANGED FilesOf(s), \A v \in VMsOf(s) : cluster'[v] = cluster[v]
  PROVE  Raised(p, s, m)'
  <1>1. ASSUME m \in AllDrafts, tfstate[s] = m, NEW k \in DOMAIN m
        PROVE  IpOf(m[k])' = IpOf(m[k]) /\ Configured(m, k)' = Configured(m, k)
               /\ Entry(m, k)' = Entry(m, k)
    BY <1>1, HostStands DEF IpOf, Configured, Entry
  <1>2. Built(p, s, m)'
    BY <1>1 DEF Raised, Built, Stays, FilesOf
  <1>3. ASSUME pc[p] \in {"waiting", "ansible", "playing", "ok"}
        PROVE  m \in AllDrafts /\ tfstate[s] = m
    BY <1>3 DEF Raised, Built
  <1>4. Played(p, s, m)'
    <2>1. pc[p] = "waiting" =>
            DOMAIN deployed'[p] = DOMAIN m /\ \A k \in DOMAIN m : deployed'[p][k] = IpOf(m[k])'
      BY <1>1, <1>3 DEF Raised, Played, Stays
    <2>2. pc[p] = "ansible" => inventory'[s] = [k \in DOMAIN m |-> Entry(m, k)']
      BY <1>1, <1>3 DEF Raised, Played, FilesOf
    <2>3. pc[p] = "playing" =>
            /\ \A k \in DOMAIN playing'[p] : k \in DOMAIN m /\ playing'[p][k] = Entry(m, k)'
            /\ \A k \in DOMAIN m \ DOMAIN playing'[p] : k \in failed'[p] \/ Configured(m, k)'
      BY <1>1, <1>3 DEF Raised, Played, Stays
    <2>4. pc[p] = "ok" => \A k \in DOMAIN m : Configured(m, k)'
      BY <1>1, <1>3 DEF Raised, Played
    <2> QED BY <2>1, <2>2, <2>3, <2>4 DEF Played, Stays
  <1> QED BY <1>2, <1>4 DEF Raised, Stays

\* What an up in progress knows of itself.
LEMMA UpFacts ==
  ASSUME TypeOK, NEW p \in Procs, Running(p), pc[p] # "idle"
  PROVE  Svc(p) \in Services /\ job[p].man \in AllDrafts /\ Resolves(job[p].man)
  BY DEF TypeOK, ProcOK, Jobs, Svc, Running

\* An apply that fails on no host leaves the state naming exactly the plan,
\* as it did before its last step.
LEMMA ApplyIsDone ==
  ASSUME Inv, NEW p \in Procs, NEW s \in Services, s = Svc(p), NEW m \in AllDrafts, plan[p] = m,
         TfFinish(p), failed[p] = {}
  PROVE  tfstate[s] = m /\ tfstate'[s] = m
  <1> USE DEF Inv, TypeOK
  <1> DEFINE r == Resources(s)
  <1>1. IsPartial(r, Host) /\ IsPartial(m, Host)
    BY ResourcesPartial, DraftsPartial
  <1>2. DOMAIN r = DOMAIN m
    BY DEF TfFinish, Doomed, Replaces, Missing
  <1>3. ASSUME NEW k \in DOMAIN m PROVE r[k] = m[k]
    <2>1. k \notin Doomed(p) /\ k \notin Drifted(p)
      BY DEF TfFinish
    <2> QED BY <1>2, <2>1 DEF Doomed, Drifted, Replaces
  <1>4. r = m
    <2> HIDE DEF r
    <2> QED BY <1>1, <1>2, <1>3 DEF IsPartial
  <1>5. DOMAIN m # {}
    BY DraftsAssumption DEF AllDrafts
  <1> QED BY <1>4, <1>5 DEF TfFinish, FilesOK, Resources, Empty

\* It reports each VM's address, or nothing for a host on DHCP.
LEMMA ApplyReports ==
  ASSUME Inv, NEW s \in Services, NEW m \in AllDrafts, tfstate[s] = m,
         \A v \in VMs : AddressOK(v), NEW silent, NEW k \in DOMAIN m
  PROVE  \/ Reported(m, silent)[k] = IpOf(m[k])
         \/ Reported(m, silent)[k] = None /\ m[k].address = None
  <1>1. m[k].vm_id \in VMs /\ cluster[m[k].vm_id].host = m[k]
    BY HostStands DEF VMsOf
  <1>2. AddressOK(m[k].vm_id)
    BY <1>1
  <1> QED BY <1>1, <1>2 DEF Reported, AddressOK, IpOf

LEMMA ApplyBuilds ==
  ASSUME Inv, Addressed, NEW p \in Procs, NEW s, NEW m, s = Svc(p), m = job[p].man,
         job[p].cmd = "up", Raised(p, s, m), TfFinish(p)
  PROVE  Raised(p, s, m)'
  <1> USE DEF Inv, TypeOK
  <1>1. s \in Services /\ m \in AllDrafts /\ plan[p] = m /\ job' = job /\ cluster' = cluster
    <2>1. pc[p] = "applying"
      BY DEF TfFinish
    <2> QED BY <2>1, UpFacts DEF Raised, Built, Running, Ended, TfFinish
  <1>2. CASE failed[p] # {}
    <2>1. pc'[p] = "error"
      BY <1>2 DEF TfFinish, Goto, TypeOK, ProcsTyped
    <2> QED BY <1>1, <2>1 DEF Raised, Built, Played, Svc
  <1>3. CASE failed[p] = {}
    <2>1. pc'[p] = "applied"
      BY <1>3 DEF TfFinish, Goto, TypeOK, ProcsTyped
    <2>2. tfstate[s] = m /\ tfstate'[s] = m
      BY <1>1, <1>3, ApplyIsDone
    <2>3. PICK silent : outputs'[s] = Reported(m, silent)
      BY <1>1, <1>3 DEF TfFinish, TypeOK, FilesOK
    <2>4. ASSUME NEW k \in DOMAIN m
          PROVE  \/ outputs'[s][k] = IpOf(m[k])'
                 \/ outputs'[s][k] = None /\ m[k].address = None
      BY <1>1, <2>2, <2>3, ApplyReports DEF Addressed, IpOf
    <2>5. DOMAIN outputs'[s] = DOMAIN m
      BY <2>3 DEF Reported
    <2> QED BY <1>1, <2>1, <2>2, <2>4, <2>5 DEF Raised, Built, Played
  <1> QED BY <1>2, <1>3

\* From the outputs to the playbook's host list.
LEMMA AddressesReach ==
  ASSUME Inv, NEW p \in Procs, NEW s, NEW m, s = Svc(p), m = job[p].man,
         job[p].cmd = "up", Raised(p, s, m),
         ReadOutputs(p) \/ WriteInventory(p) \/ StartPlay(p)
  PROVE  Raised(p, s, m)'
  <1> DEFINE Fns == /\ pc \in [Procs -> Places]
                    /\ DOMAIN inventory = Services
                    /\ DOMAIN deployed = Procs /\ DOMAIN playing = Procs
  <1>0. Fns
    BY DEF Inv, TypeOK, ProcsTyped, FilesOK
  <1> USE DEF Goto
  <1>1. /\ pc[p] \in {"applied", "waiting", "ansible"}
        /\ job' = job /\ cluster' = cluster /\ tfstate' = tfstate
    BY DEF ReadOutputs, WriteInventory, StartPlay, Loaded, local, files
  <1>2. s \in Services /\ m \in AllDrafts /\ tfstate[s] = m
    BY <1>1, UpFacts DEF Inv, Running, Ended, Raised, Built
  <1>3. ASSUME NEW k \in DOMAIN m
        PROVE  IpOf(m[k])' = IpOf(m[k]) /\ Entry(m, k)' = Entry(m, k) /\ IpOf(m[k]) # None
    <2>1. cluster[m[k].vm_id] \in VM
      BY <1>2, HostStands
    <2>2. IpOf(m[k]) # None
      BY <2>1, NoneAssumption DEF IpOf, VM
    <2> QED BY <1>1, <2>2 DEF IpOf, Entry
  <1>4. CASE pc'[p] = "error"
    BY <1>1, <1>4 DEF Raised, Built, Played
  <1>5. CASE ReadOutputs(p) /\ pc'[p] # "error"
    <2>1. pc[p] = "applied" /\ pc'[p] = "waiting" /\ Addressless(outputs[s], m) = {}
          /\ deployed'[p] = outputs[s]
      BY <1>0, <1>5 DEF ReadOutputs, Loaded
    <2>2. \A k \in DOMAIN m : outputs[s][k] = IpOf(m[k])
      BY <2>1 DEF Addressless, Raised, Built
    <2>3. DOMAIN outputs[s] = DOMAIN m
      BY <2>1 DEF Raised, Built
    <2> QED BY <1>1, <1>2, <1>3, <2>1, <2>2, <2>3 DEF Raised, Built, Played
  <1>6. CASE WriteInventory(p) /\ pc'[p] # "error"
    <2>1. pc[p] = "waiting" /\ pc'[p] = "ansible"
          /\ inventory'[s] = [k \in DOMAIN m |-> [host |-> m[k], address |-> Address(p, k)]]
      BY <1>0, <1>2, <1>6 DEF WriteInventory
    <2>2. \A k \in DOMAIN m : Address(p, k) = IpOf(m[k])
      BY <1>3, <2>1 DEF Address, Raised, Played
    <2>3. \A k \in DOMAIN m : [host |-> m[k], address |-> Address(p, k)] = Entry(m, k)'
      BY <1>3, <2>2 DEF Entry
    <2>4. inventory'[s] = [k \in DOMAIN m |-> Entry(m, k)']
      BY <2>1, <2>3
    <2> QED BY <1>1, <1>2, <2>1, <2>4 DEF Raised, Built, Played
  <1>7. CASE StartPlay(p) /\ pc'[p] # "error"
    <2>1. pc[p] = "ansible" /\ pc'[p] = "playing" /\ job[p].only = None
      BY <1>0, <1>7 DEF StartPlay, Raised
    <2>2. inventory[s] = [k \in DOMAIN m |-> Entry(m, k)]
      BY <2>1 DEF Raised, Played
    <2>3. inventory[s] # None
      <3>1. ASSUME NEW k \in DOMAIN m PROVE Entry(m, k) \in Entries
        BY <1>2, <3>1, HostStands DEF Entry, Entries, IpOf, VM
      <3>2. DOMAIN m \subseteq Keys
        BY <1>2, DraftsPartial DEF IsPartial
      <3>3. inventory[s] \in [DOMAIN m -> Entries]
        BY <2>2, <3>1
      <3> QED BY <3>2, <3>3, NoneAssumption
    <2>4. playing'[p] = [k \in DOMAIN m |-> Entry(m, k)]
      <3> DEFINE all == {j \in DOMAIN inventory[s] : job[p].only # None => j = job[p].only}
      <3>1. playing'[p] = [k \in all |-> inventory[s][k]]
        BY <1>0, <1>7, <2>1, <2>3 DEF StartPlay
      <3>2. DOMAIN inventory[s] = DOMAIN m /\ all = DOMAIN m
        BY <2>1, <2>2
      <3>3. \A k \in DOMAIN m : inventory[s][k] = Entry(m, k)
        BY <2>2
      <3> HIDE DEF all
      <3> QED BY <3>1, <3>2, <3>3
    <2> QED BY <1>1, <1>2, <1>3, <2>1, <2>4 DEF Raised, Built, Played
  <1> QED BY <1>4, <1>5, <1>6, <1>7

\* The playbook configures each VM with its own entry.
LEMMA PlayConfigures ==
  ASSUME PoolApart, Inv, ExistingRecorded, Addressed,
         NEW p \in Procs, NEW s, NEW m, s = Svc(p), m = job[p].man,
         Raised(p, s, m), NEW k \in Keys, PlayHost(p, k)
  PROVE  Raised(p, s, m)'
  <1>1. /\ pc[p] = "playing" /\ pc' = pc /\ job' = job /\ failed' = failed
        /\ tfstate' = tfstate /\ k \in DOMAIN playing[p]
    BY DEF PlayHost, files
  <1>2. s \in Services /\ m \in AllDrafts /\ Resolves(m) /\ tfstate[s] = m
    BY <1>1, UpFacts DEF Inv, Running, Ended, Raised, Built
  <1>3. k \in DOMAIN m /\ playing[p][k] = Entry(m, k)
    BY <1>1 DEF Raised, Played
  <1>4. PICK v \in Reachable(s, playing[p][k].address) :
          /\ OneVM(v) /\ SameAddress(v) /\ cluster'[v] # None
          /\ cluster'[v].conf = [key |-> k, host |-> playing[p][k].host]
    BY PlayedVM DEF Inv
  <1>5. v = m[k].vm_id
    BY <1>2, <1>3, <1>4, OwnAddress DEF Entry
  <1>6. Configured(m, k)'
    BY <1>3, <1>4, <1>5 DEF Configured, Entry
  <1>7. ASSUME NEW j \in DOMAIN m
        PROVE  /\ Entry(m, j)' = Entry(m, j)
               /\ Configured(m, j) => Configured(m, j)'
    <2>1. m[j].vm_id \in VmIds
      BY <1>2, HostStands DEF VMsOf, VMs
    <2>2. Entry(m, j)' = Entry(m, j)
      BY <1>4, <2>1 DEF Entry, IpOf, OneVM, SameAddress
    <2>3. CASE j # k
      <3>1. m[j].vm_id # v
        BY <1>2, <1>3, <1>5, <2>3 DEF Resolves, Clash
      <3> QED BY <1>4, <2>1, <2>2, <3>1 DEF Configured, OneVM
    <2> QED BY <1>6, <2>2, <2>3
  <1>8. playing'[p] = Without(playing[p], k)
    BY DEF PlayHost, Inv, TypeOK, ProcsTyped
  <1>9. /\ DOMAIN playing'[p] = DOMAIN playing[p] \ {k}
        /\ \A j \in DOMAIN playing'[p] : playing'[p][j] = playing[p][j]
    BY <1>8 DEF Without
  <1>10. Built(p, s, m)'
    BY <1>1, <1>2 DEF Raised, Built
  <1>11. Played(p, s, m)'
    <2>1. \A j \in DOMAIN playing'[p] : j \in DOMAIN m /\ playing'[p][j] = Entry(m, j)'
      BY <1>1, <1>7, <1>9 DEF Raised, Played
    <2>2. \A j \in DOMAIN m \ DOMAIN playing'[p] : j \in failed'[p] \/ Configured(m, j)'
      BY <1>1, <1>6, <1>7, <1>9 DEF Raised, Played
    <2> QED BY <1>1, <2>1, <2>2 DEF Played
  <1> QED BY <1>1, <1>10, <1>11 DEF Raised

LEMMA PlayEnds ==
  ASSUME Inv, NEW p \in Procs, NEW s, NEW m, s = Svc(p), m = job[p].man, Raised(p, s, m),
         PlayFinish(p) \/ \E k \in Keys : PlayFail(p, k)
  PROVE  Raised(p, s, m)'
  <1>1. pc[p] = "playing" /\ job' = job /\ cluster' = cluster /\ tfstate' = tfstate
    BY DEF PlayFinish, PlayFail, files
  <1>2. \A k \in DOMAIN m : Entry(m, k)' = Entry(m, k) /\ Configured(m, k)' = Configured(m, k)
    BY <1>1 DEF Entry, IpOf, Configured
  <1>3. CASE PlayFinish(p)
    <2>1. pc'[p] = "error" \/ (pc'[p] = "ok" /\ failed[p] = {} /\ DOMAIN playing[p] = {})
      BY <1>3 DEF PlayFinish, Goto, Inv, TypeOK, ProcsTyped
    <2> QED BY <1>1, <1>2, <2>1 DEF Raised, Built, Played
  <1>4. ASSUME NEW k \in Keys, PlayFail(p, k) PROVE Raised(p, s, m)'
    <2>1. playing'[p] = Without(playing[p], k) /\ failed'[p] = failed[p] \cup {k} /\ pc' = pc
      BY <1>4 DEF PlayFail, Inv, TypeOK, ProcsTyped
    <2>2. /\ DOMAIN playing'[p] = DOMAIN playing[p] \ {k}
          /\ \A j \in DOMAIN playing'[p] : playing'[p][j] = playing[p][j]
      BY <2>1 DEF Without
    <2> QED BY <1>1, <1>2, <2>1, <2>2 DEF Raised, Built, Played
  <1> QED BY <1>3, <1>4

LEMMA RaisedStep ==
  ASSUME PoolApart, Inv, ExistingRecorded, Addressed,
         NEW p \in Procs, NEW s, NEW m, s = Svc(p), m = job[p].man,
         job[p].cmd = "up", OnWay(p), Raised(p, s, m), Step(p), pc'[p] # "idle"
  PROVE  Raised(p, s, m)'
  <1> DEFINE Fns == /\ pc \in [Procs -> Places] /\ DOMAIN plan = Procs
                    /\ DOMAIN tfvars = Services
  <1>0. Fns /\ s \in Services
    BY StepKeepsJob DEF Inv, TypeOK, ProcsTyped, FilesOK, ProcOK, Jobs, Svc
  <1> USE DEF Goto, Ended
  <1>1. ASSUME NEW o \in Services, ReadSibling(p, o) PROVE Raised(p, s, m)'
    BY <1>0, <1>1 DEF ReadSibling, Raised, Built, Played
  <1>2. CASE List(p) \/ Prepare(p)
    BY <1>0, <1>2 DEF List, Prepare, local, Raised, Built, Played
  <1>3. CASE TfPlan(p) \/ Unlink(p) \/ Return(p)
    BY <1>0, <1>3 DEF TfPlan, Unlink, Return, OnWay
  <1>4. CASE TfStart(p)
    BY <1>0, <1>4 DEF TfStart, Raised, Built, Played
  <1>5. ASSUME NEW k \in Keys,
               TfDestroy(p, k) \/ TfCreate(p, k) \/ TfUpdate(p, k) \/ TfFail(p, k)
        PROVE  Raised(p, s, m)'
    BY <1>5 DEF TfDestroy, TfCreate, TfUpdate, TfFail, local, Raised, Built, Played
  <1>6. CASE TfFinish(p)
    BY <1>6, ApplyBuilds
  <1>7. CASE ReadOutputs(p) \/ WriteInventory(p) \/ StartPlay(p)
    BY <1>7, AddressesReach
  <1>8. ASSUME NEW k \in Keys, Connect(p, k) PROVE Raised(p, s, m)'
    BY <1>8 DEF Connect, files, Raised, Built, Played, IpOf
  <1>9. CASE WaitTimeout(p)
    BY <1>0, <1>9 DEF WaitTimeout, Raised, Built, Played
  <1>10. ASSUME NEW k \in Keys, PlayHost(p, k) PROVE Raised(p, s, m)'
    BY <1>10, PlayConfigures
  <1>11. CASE PlayFinish(p) \/ \E k \in Keys : PlayFail(p, k)
    BY <1>11, PlayEnds
  <1> QED BY <1>1, <1>2, <1>3, <1>4, <1>5, <1>6, <1>7, <1>8, <1>9, <1>10, <1>11 DEF Step

LEMMA UpStep ==
  ASSUME Exclusive, ~HardKills, ~LeasesMove, PoolApart,
         Inv, ExistingRecorded, DownInv, UpInv, [Next]_vars
  PROVE  UpInv'
  <1>1. Addressed'
    BY AddressedStep DEF UpInv
  <1> DEFINE Good(q) == pc[q] # "idle" /\ job[q].cmd = "up" => Raised(q, Svc(q), job[q].man)
  <1>2. ASSUME World \/ UNCHANGED vars, NEW q \in Procs PROVE Good(q)'
    <2>1. UNCHANGED <<tfvars, tfstate, outputs, inventory, cluster, pc, local>>
      BY <1>2 DEF World, Edit, NewLease, Calm, vars, files
    <2>2. Svc(q)' = Svc(q) /\ job' = job /\ pc' = pc
      BY <2>1 DEF local, Svc
    <2>3. \A s, m : Raised(q, s, m) => Raised(q, s, m)'
      BY <2>1 DEF Raised, Built, Played, local, IpOf, Entry, Configured
    <2> QED BY <2>2, <2>3 DEF UpInv
  <1>3. ASSUME NEW p \in Procs, Step(p) \/ Call(p) \/ Abort(p), NEW q \in Procs, q # p
        PROVE  Good(q)'
    <2>1. Stays(q)
      BY <1>3, OthersStay DEF Inv, TypeOK
    <2> SUFFICES ASSUME pc[q] # "idle", job[q].cmd = "up" PROVE Good(q)'
      BY <2>1 DEF Stays
    <2>2. PICK s \in Services : s = Svc(q) /\ (pc[p] # "idle" => s # Svc(p))
      BY <1>3 DEF Inv, TypeOK, ProcOK, Jobs, Svc, DownInv, Alone
    <2>3. UNCHANGED FilesOf(s)
      BY <1>3, <2>2, OtherFilesStay DEF Inv
    <2>4. \A v \in VMsOf(s) : cluster'[v] = cluster[v]
      BY <1>3, <2>2, OtherVMsStay DEF VMsOf
    <2>5. PICK m : m = job[q].man
      OBVIOUS
    <2>6. Raised(q, s, m)'
      BY <2>1, <2>2, <2>3, <2>4, <2>5, RaisedStays DEF UpInv
    <2> QED BY <2>1, <2>2, <2>5, <2>6 DEF Stays, Svc
  <1>4. ASSUME NEW p \in Procs, Step(p) PROVE Good(p)'
    <2>1. pc[p] # "idle" /\ (pc'[p] = "idle" \/ job'[p] = job[p])
      BY <1>4, StepKeepsJob DEF Inv, TypeOK
    <2>2. PICK s, m : s = Svc(p) /\ m = job[p].man
      OBVIOUS
    <2> SUFFICES ASSUME pc'[p] # "idle", job[p].cmd = "up" PROVE Raised(p, s, m)'
      BY <2>1, <2>2 DEF Svc
    <2> QED BY <1>4, <2>1, <2>2, RaisedStep DEF UpInv, DownInv
  <1>5. ASSUME NEW p \in Procs, Abort(p) PROVE Good(p)'
    <2>1. pc'[p] = "error" /\ job' = job /\ pc[p] # "idle"
      BY <1>5 DEF Abort, Running, Goto, Inv, TypeOK, ProcsTyped
    <2> QED BY <2>1 DEF UpInv, Raised, Built, Played
  <1>6. ASSUME NEW p \in Procs, Call(p) PROVE Good(p)'
    <2>1. pc'[p] \in {"listing", "invalid"} /\ (job'[p].cmd = "up" => job'[p].only = None)
      BY <1>6 DEF Call, Begin, Goto, Inv, TypeOK, ProcsTyped
    <2> QED BY <2>1 DEF Raised, Built, Played
  <1>7. \A q \in Procs : Good(q)'
    BY <1>2, <1>3, <1>4, <1>5, <1>6 DEF Next, Orphan
  <1> QED BY <1>1, <1>7 DEF UpInv

\* An up that exits 0 has brought its service to exactly what the manifest
\* it loaded says (workflows.up: apply, addresses, wait, inventory, playbook),
\* whatever was deployed or half deployed before and whatever is edited or
\* run for other services meanwhile.
THEOREM UpIsComplete ==
  ASSUME Exclusive, ~HardKills, ~LeasesMove, PoolApart
  PROVE  Spec => []UpEstablishes
  <1> DEFINE I == Inv /\ ExistingRecorded /\ DownInv /\ UpInv
  <1>1. Init => I
    BY InitType, InitRecord DEF Inv, DownInv, Alone, UpInv, Addressed, VMs, Init
  <1>2. I /\ [Next]_vars => I'
    BY TypeStep, RecordStep, DownStep, UpStep DEF Inv
  <1>3. I => UpEstablishes
    <2> SUFFICES ASSUME I, NEW p \in Procs, Succeeded(p, "up")
                 PROVE  Matches(Svc(p), job[p].man)
      BY DEF UpEstablishes
    <2> DEFINE s == Svc(p)
               m == job[p].man
    <2>1. s \in Services
      BY DEF Succeeded, Inv, TypeOK, ProcOK, Jobs, Svc
    <2>2. m \in AllDrafts /\ tfstate[s] = m /\ \A k \in DOMAIN m : Configured(m, k)
      BY DEF Succeeded, UpInv, Raised, Built, Played
    <2>3. \A k \in DOMAIN m : m[k].vm_id \in VMsOf(s) /\ cluster[m[k].vm_id].host = m[k]
      BY <2>1, <2>2, HostStands
    <2>4. \A v \in VMsOf(s) : \E k \in DOMAIN m : v = m[k].vm_id
      BY <2>1, <2>2, VMIsHost
    <2> QED BY <2>2, <2>3, <2>4 DEF Matches, Configured
  <1> HIDE DEF I
  <1> QED BY <1>1, <1>2, <1>3, PTL DEF Spec

-----------------------------------------------------------------------------
(* The playbook under any concurrency, from a careful operator.            *)

\* x may be an address of host h.
Fit(h, x) == IF h.address # None THEN x = h.address ELSE x \in Leases

FitOutputs(s, f) ==
  \A k \in DOMAIN f \cap DOMAIN manifest[s] : f[k] = None \/ Fit(manifest[s][k], f[k])

FitEntries(s, f) ==
  \A k \in DOMAIN f :
    k \in DOMAIN manifest[s] /\ f[k].host = manifest[s][k] /\ Fit(manifest[s][k], f[k].address)

\* A service with outputs has VMs: so its manifest is the one they are from.
OutputsFit ==
  \A s \in Services : outputs[s] # None => VMsOf(s) # {} /\ FitOutputs(s, outputs[s])

\* What a command holds on its way to the playbook.
HoldsFit(p) ==
  /\ pc[p] = "applying" => job[p].cmd = "down" \/ plan[p] = manifest[Svc(p)]
  /\ pc[p] = "waiting" => FitOutputs(Svc(p), deployed[p])
  /\ pc[p] = "ansible" /\ inventory[Svc(p)] # None => FitEntries(Svc(p), inventory[Svc(p)])
  /\ pc[p] = "playing" => FitEntries(Svc(p), playing[p])

FitInv == Addressed /\ OutputsFit /\ \A p \in Procs : HoldsFit(p)

\* What a running command knows when no manifest in use is edited.
LEMMA CurrentManifest ==
  ASSUME TypeOK, CopiesCurrent, NEW p \in Procs, Running(p)
  PROVE  /\ Svc(p) \in Services /\ manifest[Svc(p)] \in AllDrafts
         /\ job[p].man = manifest[Svc(p)] /\ Resolves(manifest[Svc(p)])
  <1>1. pc[p] # "idle"
    BY DEF Running
  <1> QED BY <1>1, UpFacts DEF CopiesCurrent, Current

\* An address that fits host k leads to no other VM of the service, or from
\* one leased host to another.
LEMMA FitLeads ==
  ASSUME PoolApart, Inv, CarefulInv, Addressed, NEW s \in Services,
         NEW k \in DOMAIN manifest[s], NEW x, Fit(manifest[s][k], x), NEW v \in Reachable(s, x)
  PROVE  \/ cluster[v].key = k /\ cluster[v].host = manifest[s][k]
         \/ cluster[v].host.address = None /\ manifest[s][k].address = None
  <1> DEFINE m == manifest[s]
             j == cluster[v].key
  <1>1. v \in VMs /\ cluster[v].svc = s /\ cluster[v].ip = x
    BY DEF Reachable, VMsOf
  <1>2. m # None /\ Resolves(m) /\ j \in DOMAIN m /\ cluster[v].host = m[j]
    BY <1>1 DEF CarefulInv, VMsDeclared, Declared
  <1>3. m \in AllDrafts
    BY <1>2 DEF Inv, TypeOK, FilesOK
  <1>4. m[j] \in Host /\ m[k] \in Host
    BY <1>2, <1>3, DraftsPartial DEF IsPartial
  <1>5. AddressOK(v)
    BY <1>1 DEF Addressed
  <1> SUFFICES ASSUME j # k, ~(m[j].address = None /\ m[k].address = None) PROVE FALSE
    BY <1>2
  <1>6. ~Clash(m[j], m[k])
    BY <1>2 DEF Resolves
  <1> QED BY <1>1, <1>2, <1>4, <1>5, <1>6 DEF AddressOK, Fit, Clash, PoolApart, Host

\* An up destroys nothing: each VM is what the manifest, its plan, says.
LEMMA OnlyDownDestroys ==
  ASSUME Inv, CarefulInv, NEW p \in Procs, HoldsFit(p), NEW k \in Keys, TfDestroy(p, k)
  PROVE  job[p].cmd = "down" /\ outputs' = [outputs EXCEPT ![Svc(p)] = None]
  <1> DEFINE s == Svc(p)
             v == tfstate[s][k].vm_id
  <1>1. s \in Services /\ k \in DOMAIN Resources(s) /\ tfstate[s] = Resources(s)
    BY ApplyingPlan DEF TfDestroy, Doomed, Replaces, Resources, Empty, Inv
  <1>2. v \in VmIds
    BY <1>1, ResourcesPartial DEF Inv, TypeOK, IsPartial, Host
  <1>3. v \in VMs /\ cluster[v].svc = s /\ cluster[v].key = k /\ cluster[v].host = tfstate[s][k]
    BY <1>1, <1>2 DEF Inv, RecordedExists, Stands, VMs
  <1>4. k \in DOMAIN manifest[s] /\ tfstate[s][k] = manifest[s][k]
    BY <1>3 DEF CarefulInv, VMsDeclared, Declared
  <1>5. plan[p] # manifest[s]
    BY <1>1, <1>4 DEF TfDestroy, Doomed, Replaces
  <1> QED BY <1>5 DEF HoldsFit, TfDestroy

\* The steps that write outputs or inventories or remove VMs.
LEMMA FewWriters ==
  ASSUME NEW p \in Procs, Step(p)
  PROVE  /\ manifest' = manifest
         /\ outputs' = outputs \/ TfFinish(p) \/ \E k \in Keys : TfDestroy(p, k)
         /\ inventory' = inventory \/ WriteInventory(p) \/ Unlink(p)
  BY DEF Step, List, ReadSibling, Prepare, TfPlan, TfStart, TfCreate, TfUpdate, TfDestroy, TfFail,
         TfFinish, Unlink, ReadOutputs, Connect, WaitTimeout, WriteInventory, StartPlay,
         PlayHost, PlayFail, PlayFinish, Return, files

LEMMA VMsRemain ==
  ASSUME Inv, CarefulInv, NEW p \in Procs,
         \/ Step(p) /\ ~\E k \in Keys : TfDestroy(p, k)
         \/ \E k \in Keys : Orphan(p, k),
         NEW s \in Services, NEW v \in VMsOf(s)
  PROVE  v \in VMsOf(s)'
  <1>0. v \in VmIds /\ cluster[v] # None /\ cluster[v].svc = s
    BY DEF VMsOf, VMs
  <1>1. \/ UNCHANGED cluster
        \/ \E k \in Keys : TfCreate(p, k) \/ Orphan(p, k) \/ PlayHost(p, k) \/ TfUpdate(p, k)
    BY DEF Step, List, ReadSibling, Prepare, TfPlan, TfStart, TfFail, TfFinish, Unlink,
           ReadOutputs, Connect, WaitTimeout, WriteInventory, StartPlay, PlayFail,
           PlayFinish, Return
  <1>2. ASSUME NEW k \in Keys, TfCreate(p, k) \/ Orphan(p, k) PROVE cluster'[v] = cluster[v]
    BY <1>0, <1>2 DEF TfCreate, Orphan, Inv, TypeOK, FilesOK
  <1>3. ASSUME NEW k \in Keys, PlayHost(p, k) PROVE Alike(v)
    BY <1>0, <1>3, PlayHostAlike DEF Inv
  <1> QED BY <1>0, <1>1, <1>2, <1>3, NoUpdate DEF Inv, Alike, VMsOf, VMs

\* The inventory a command writes lists each host with an address that fits.
LEMMA WrittenFits ==
  ASSUME TypeOK, CopiesCurrent, FitInv, NEW p \in Procs, WriteInventory(p), pc'[p] # "error"
  PROVE  FitEntries(Svc(p), inventory'[Svc(p)])
  <1> DEFINE s == Svc(p)
             m == manifest[s]
  <1>1. s \in Services /\ job[p].man = m /\ FitOutputs(s, deployed[p])
    BY CurrentManifest DEF WriteInventory, Running, Ended, FitInv, HoldsFit
  <1>2. /\ inventory'[s] = [k \in DOMAIN m |-> [host |-> m[k], address |-> Address(p, k)]]
        /\ \A k \in DOMAIN m : Address(p, k) # None
    BY <1>1 DEF WriteInventory, Goto, TypeOK, FilesOK, ProcsTyped
  <1>3. ASSUME NEW k \in DOMAIN m PROVE Fit(m[k], Address(p, k))
    <2>1. CASE k \in DOMAIN deployed[p] /\ deployed[p][k] # None
      BY <1>1, <2>1 DEF Address, FitOutputs
    <2>2. CASE ~(k \in DOMAIN deployed[p] /\ deployed[p][k] # None)
      BY <1>1, <1>2, <2>2 DEF Address, Fit
    <2> QED BY <2>1, <2>2
  <1> HIDE DEF s
  <1>4. FitEntries(s, inventory'[s])
    BY <1>2, <1>3 DEF FitEntries
  <1> QED BY <1>4 DEF s

LEMMA ReportFits ==
  ASSUME Inv, CarefulInv, FitInv, NEW p \in Procs, TfFinish(p), NEW s \in Services, s = Svc(p),
         outputs'[s] # None, outputs' # outputs
  PROVE  VMsOf(s) # {} /\ FitOutputs(s, outputs'[s])
  <1> DEFINE m == manifest[s]
  <1>1. Running(p) /\ pc[p] = "applying" /\ CopiesCurrent
    BY DEF TfFinish, Running, Ended, CarefulInv
  <1>2. m \in AllDrafts
    BY <1>1, CurrentManifest DEF Inv
  <1>3. job[p].cmd # "down" /\ failed[p] = {}
    BY DEF TfFinish, Inv, TypeOK, FilesOK
  <1>4. plan[p] = m
    BY <1>1, <1>3 DEF FitInv, HoldsFit
  <1>5. PICK silent : outputs'[s] = Reported(m, silent)
    BY <1>3, <1>4 DEF TfFinish, Inv, TypeOK, FilesOK
  <1>6. tfstate[s] = m
    BY <1>2, <1>3, <1>4, ApplyIsDone
  <1>7. \A k \in DOMAIN m : m[k].vm_id \in VMsOf(s) /\ cluster[m[k].vm_id].host = m[k]
    BY <1>2, <1>6, HostStands
  <1>8. DOMAIN m # {}
    BY <1>2, DraftsAssumption DEF AllDrafts
  <1>9. ASSUME NEW k \in DOMAIN m
        PROVE  Reported(m, silent)[k] = None \/ Fit(m[k], Reported(m, silent)[k])
    <2>1. AddressOK(m[k].vm_id) /\ \A v \in VMs : AddressOK(v)
      BY <1>7 DEF FitInv, Addressed, VMsOf
    <2>2. Fit(m[k], IpOf(m[k]))
      BY <1>7, <2>1 DEF Fit, IpOf, AddressOK
    <2> QED BY <1>2, <1>6, <2>1, <2>2, ApplyReports
  <1> QED BY <1>5, <1>7, <1>8, <1>9 DEF FitOutputs

LEMMA HoldsFitStep ==
  ASSUME Inv, CarefulInv, FitInv, NEW p \in Procs, Step(p)
  PROVE  HoldsFit(p)'
  <1> DEFINE s == Svc(p)
             Fns == /\ pc \in [Procs -> Places] /\ DOMAIN plan = Procs
                    /\ DOMAIN deployed = Procs /\ DOMAIN playing = Procs
                    /\ DOMAIN inventory = Services
  <1>0. Fns /\ manifest' = manifest
    BY FewWriters DEF Inv, TypeOK, FilesOK, ProcsTyped
  <1> USE DEF Goto, Ended
  <1>1. ASSUME pc'[p] \notin {"applying", "waiting", "ansible", "playing"} PROVE HoldsFit(p)'
    BY <1>1 DEF HoldsFit
  <1>2. CASE TfStart(p) /\ pc'[p] = "applying"
    <2>1. Running(p) /\ pc[p] = "prepared" /\ job' = job
      BY <1>2 DEF TfStart, Running
    <2>2. tfvars[s] = manifest[s]
      BY <2>1 DEF CarefulInv, CopiesCurrent, Current
    <2>3. job[p].cmd = "down" \/ plan'[p] = manifest[s]
      BY <1>0, <1>2, <2>1, <2>2 DEF TfStart
    <2> QED BY <1>0, <1>2, <2>1, <2>3 DEF HoldsFit, Svc
  <1>3. CASE ReadOutputs(p) /\ pc'[p] = "waiting"
    <2>1. Running(p) /\ s \in Services /\ job' = job
      BY <1>3, StepKeepsJob
         DEF ReadOutputs, Loaded, Running, Inv, TypeOK, ProcOK, Jobs, Svc
    <2>2. deployed'[p] = outputs[s] /\ outputs[s] # None
      BY <1>0, <1>3 DEF ReadOutputs, Loaded
    <2>3. FitOutputs(s, deployed'[p])
      BY <2>1, <2>2 DEF FitInv, OutputsFit
    <2> QED BY <1>0, <1>3, <2>1, <2>3 DEF HoldsFit, Svc, FitOutputs
  <1>4. CASE WriteInventory(p) /\ pc'[p] = "ansible"
    <2>1. FitEntries(s, inventory'[s]) /\ job' = job
      BY <1>4, WrittenFits DEF Inv, CarefulInv, WriteInventory, local
    <2> QED BY <1>0, <1>4, <2>1 DEF HoldsFit, Svc, FitEntries
  <1>5. CASE StartPlay(p) /\ pc'[p] = "playing"
    <2> DEFINE hosts == IF inventory[s] = None THEN Empty ELSE inventory[s]
               picked == {j \in DOMAIN hosts : job[p].only # None => j = job[p].only}
    <2>1. pc[p] = "ansible" /\ job' = job /\ playing'[p] = [k \in picked |-> hosts[k]]
      BY <1>0, <1>5 DEF StartPlay
    <2>2. FitEntries(s, hosts)
      BY <2>1 DEF FitInv, HoldsFit, FitEntries, Empty
    <2>3. FitEntries(s, playing'[p])
      <3> HIDE DEF hosts
      <3> QED BY <2>1, <2>2 DEF FitEntries
    <2> QED BY <1>0, <1>5, <2>1, <2>3 DEF HoldsFit, Svc, FitEntries
  <1>6. ASSUME NEW k \in Keys, PlayHost(p, k) \/ PlayFail(p, k) PROVE HoldsFit(p)'
    <2>1. pc[p] = "playing" /\ pc' = pc /\ job' = job /\ playing'[p] = Without(playing[p], k)
      BY <1>0, <1>6 DEF PlayHost, PlayFail
    <2>2. FitEntries(s, playing'[p])
      BY <2>1 DEF FitInv, HoldsFit, FitEntries, Without
    <2> QED BY <1>0, <2>1, <2>2 DEF HoldsFit, Svc, FitEntries
  <1>7. ASSUME NEW k \in Keys,
               \/ TfDestroy(p, k) \/ TfCreate(p, k) \/ TfUpdate(p, k) \/ TfFail(p, k)
               \/ Connect(p, k)
        PROVE  HoldsFit(p)'
    BY <1>0, <1>7 DEF TfDestroy, TfCreate, TfUpdate, TfFail, Connect, local, files, HoldsFit,
                      FitInv, Svc, FitOutputs
  <1>8. ASSUME \/ \E o \in Services : ReadSibling(p, o)
               \/ List(p) \/ Prepare(p) \/ TfPlan(p) \/ TfFinish(p) \/ Unlink(p) \/ WaitTimeout(p)
               \/ PlayFinish(p) \/ Return(p)
        PROVE  pc'[p] \notin {"applying", "waiting", "ansible", "playing"}
    BY <1>0, <1>8 DEF List, ReadSibling, Prepare, TfPlan, TfFinish, Unlink, WaitTimeout, PlayFinish,
                      Return, Loaded
  <1>9. /\ TfStart(p) => pc'[p] \in {"applying", "error"}
        /\ ReadOutputs(p) => pc'[p] \in {"waiting", "error"}
        /\ WriteInventory(p) => pc'[p] \in {"ansible", "error"}
        /\ StartPlay(p) => pc'[p] \in {"playing", "error"}
    BY <1>0 DEF TfStart, ReadOutputs, WriteInventory, StartPlay, Loaded
  <1> QED BY <1>1, <1>2, <1>3, <1>4, <1>5, <1>6, <1>7, <1>8, <1>9 DEF Step

LEMMA OutputsFitStep ==
  ASSUME Careful, Inv, CarefulInv, FitInv, [Next]_vars
  PROVE  OutputsFit'
  <1> USE DEF Inv
  <1> DEFINE Good(s) == outputs[s] # None => VMsOf(s) # {} /\ FitOutputs(s, outputs[s])
  <1>1. ASSUME NEW s \in Services, Good(s), outputs'[s] = outputs[s], manifest'[s] = manifest[s],
               \A v \in VMsOf(s) : v \in VMsOf(s)'
        PROVE  Good(s)'
    BY <1>1 DEF FitOutputs
  <1>2. \A s \in Services : Good(s)
    BY DEF FitInv, OutputsFit
  <1>3. ASSUME World \/ UNCHANGED vars, NEW s \in Services PROVE Good(s)'
    <2>1. outputs' = outputs
      BY <1>3 DEF World, Edit, NewLease, Calm, vars, files
    <2>2. \A v \in VMsOf(s) : v \in VMsOf(s)'
      <3>1. ASSUME NEW w \in VmIds, NewLease(w) PROVE \A v \in VMsOf(s) : v \in VMsOf(s)'
        BY <3>1, NewLeaseAlike DEF Alike, VMsOf, VMs
      <3>2. CASE UNCHANGED cluster
        BY <3>2 DEF VMsOf, VMs
      <3> QED BY <1>3, <3>1, <3>2 DEF World, Edit, Calm, vars
    <2>3. CASE manifest'[s] = manifest[s]
      BY <1>1, <1>2, <2>1, <2>2, <2>3
    <2>4. CASE manifest'[s] # manifest[s]
      <3>1. VMsOf(s) = {}
        BY <1>3, <2>4 DEF World, Edit, NewLease, Calm, vars, files, TypeOK, FilesOK
      <3> QED BY <1>2, <2>1, <3>1
    <2> QED BY <2>3, <2>4
  <1>4. ASSUME NEW p \in Procs, Call(p) \/ Abort(p), NEW s \in Services PROVE Good(s)'
    <2>1. /\ UNCHANGED <<cluster, manifest>>
          /\ outputs' = outputs \/ outputs' = [outputs EXCEPT ![Svc(p)] = None]
      BY <1>4 DEF Call, Begin, Abort, files
    <2>2. outputs'[s] = outputs[s] \/ outputs'[s] = None
      BY <2>1 DEF TypeOK, FilesOK
    <2> QED BY <1>1, <1>2, <2>1, <2>2 DEF VMsOf, VMs
  <1>5. ASSUME NEW p \in Procs, NEW k \in Keys, Orphan(p, k), NEW s \in Services PROVE Good(s)'
    <2>1. UNCHANGED files
      BY <1>5 DEF Orphan
    <2> QED BY <1>1, <1>2, <1>5, <2>1, VMsRemain DEF files
  <1>6. ASSUME NEW p \in Procs, Step(p), NEW s \in Services PROVE Good(s)'
    <2>1. manifest' = manifest
      BY <1>6, FewWriters
    <2>2. ASSUME NEW k \in Keys, TfDestroy(p, k) PROVE Good(s)'
      <3>1. outputs' = [outputs EXCEPT ![Svc(p)] = None]
        BY <2>2, OnlyDownDestroys DEF FitInv
      <3>2. CASE s = Svc(p)
        BY <3>1, <3>2 DEF TypeOK, FilesOK
      <3>3. CASE s # Svc(p)
        <4>1. \A v \in VMsOf(s) : cluster'[v] = cluster[v]
          BY <1>6, <3>3, OtherVMsStay DEF VMsOf
        <4>2. outputs'[s] = outputs[s]
          BY <3>1, <3>3 DEF TypeOK, FilesOK
        <4> QED BY <1>1, <1>2, <2>1, <4>1, <4>2 DEF VMsOf, VMs
      <3> QED BY <3>2, <3>3
    <2>3. CASE ~\E k \in Keys : TfDestroy(p, k)
      <3>1. \A v \in VMsOf(s) : v \in VMsOf(s)'
        BY <1>6, <2>3, VMsRemain
      <3>2. CASE outputs'[s] = outputs[s]
        BY <1>1, <1>2, <2>1, <3>1, <3>2
      <3>3. CASE outputs'[s] # outputs[s] /\ outputs'[s] # None
        <4>1. TfFinish(p) /\ outputs' # outputs
          BY <1>6, <2>3, <3>3, FewWriters
        <4>2. s = Svc(p)
          BY <3>3, <4>1 DEF TfFinish, TypeOK, FilesOK
        <4>3. VMsOf(s) # {} /\ FitOutputs(s, outputs'[s])
          BY <3>3, <4>1, <4>2, ReportFits
        <4> QED BY <2>1, <3>1, <4>3 DEF FitOutputs
      <3> QED BY <3>2, <3>3
    <2> QED BY <2>2, <2>3
  <1> QED BY <1>3, <1>4, <1>5, <1>6 DEF Next, OutputsFit

LEMMA OthersHoldFit ==
  ASSUME Inv, CarefulInv, FitInv, NEW p \in Procs, Step(p), NEW q \in Procs, q # p
  PROVE  HoldsFit(q)'
  <1> DEFINE s == Svc(q)
  <1>1. Stays(q) /\ manifest' = manifest
    BY OthersStay, FewWriters DEF Inv, TypeOK
  <1>2. ASSUME pc[q] = "ansible", inventory'[s] # None PROVE FitEntries(s, inventory'[s])
    <2>1. CASE inventory'[s] = inventory[s]
      BY <1>2, <2>1 DEF FitInv, HoldsFit
    <2>2. CASE inventory'[s] # inventory[s]
      <3>1. PICK x : /\ inventory' = [inventory EXCEPT ![Svc(p)] = x]
                     /\ x = None \/ WriteInventory(p)
        <4>1. inventory' # inventory
          BY <2>2
        <4>2. Unlink(p) => inventory' = [inventory EXCEPT ![Svc(p)] = None]
          BY DEF Unlink
        <4>3. WriteInventory(p) => \E x : inventory' = [inventory EXCEPT ![Svc(p)] = x]
          BY <4>1 DEF WriteInventory
        <4> QED BY <4>1, <4>2, <4>3, FewWriters
      <3>2. s = Svc(p) /\ WriteInventory(p)
        <4>1. DOMAIN inventory = Services /\ s \in Services
          BY <1>2, UpFacts DEF Running, Ended, Inv, TypeOK, FilesOK
        <4> QED BY <1>2, <2>2, <3>1, <4>1
      <3>3. pc'[p] # "error"
        BY <2>2, <3>2 DEF WriteInventory, Goto, Inv, TypeOK, ProcsTyped
      <3> QED BY <3>2, <3>3, WrittenFits DEF Inv, CarefulInv
    <2> QED BY <2>1, <2>2
  <1>3. HoldsFit(q)
    BY DEF FitInv
  <1> QED BY <1>1, <1>2, <1>3 DEF HoldsFit, Stays, Svc, FitOutputs, FitEntries

LEMMA FitStep ==
  ASSUME Careful, Inv, CarefulInv, FitInv, [Next]_vars
  PROVE  FitInv'
  <1> DEFINE Busy == {"applying", "waiting", "ansible", "playing"}
  <1>1. Addressed' /\ OutputsFit'
    BY AddressedStep, OutputsFitStep DEF FitInv
  <1>2. ASSUME World \/ UNCHANGED vars, NEW q \in Procs PROVE HoldsFit(q)'
    <2>1. UNCHANGED <<inventory, pc, local>>
      BY <1>2 DEF World, Edit, NewLease, Calm, vars, files
    <2>2. CASE pc[q] \in Busy
      <3>1. Running(q) /\ Svc(q) \in Services
        BY <2>2, UpFacts DEF Running, Ended, Inv
      <3>2. manifest'[Svc(q)] = manifest[Svc(q)]
        BY <1>2, <3>1 DEF World, Edit, NewLease, Calm, vars, files, RunningOn, Svc,
                          Inv, TypeOK, FilesOK
      <3> QED BY <2>1, <3>2 DEF FitInv, HoldsFit, local, Svc, FitOutputs, FitEntries
    <2>3. CASE pc[q] \notin Busy
      BY <2>1, <2>3 DEF HoldsFit
    <2> QED BY <2>2, <2>3
  <1>3. ASSUME NEW p \in Procs, Call(p) \/ Abort(p) \/ \E k \in Keys : Orphan(p, k),
               NEW q \in Procs
        PROVE  HoldsFit(q)'
    <2>1. CASE q = p
      <3>1. pc'[p] \in {"listing", "invalid", "error"}
        BY <1>3 DEF Call, Begin, Abort, Orphan, Goto, Inv, TypeOK, ProcsTyped
      <3> QED BY <2>1, <3>1 DEF HoldsFit
    <2>2. CASE q # p
      <3>1. UNCHANGED <<manifest, inventory>>
        BY <1>3 DEF Call, Begin, Abort, Orphan, files
      <3>2. Stays(q)
        <4>1. CASE Call(p) \/ Abort(p)
          BY <2>2, <4>1, OthersStay DEF Inv, TypeOK
        <4>2. ASSUME NEW k \in Keys, Orphan(p, k) PROVE Stays(q)
          BY <2>2, <4>2 DEF Orphan, Goto, Forget, Stays, Inv, TypeOK, ProcsTyped
        <4> QED BY <1>3, <4>1, <4>2
      <3> QED BY <3>1, <3>2 DEF FitInv, HoldsFit, Stays, Svc, FitOutputs, FitEntries
    <2> QED BY <2>1, <2>2
  <1>4. ASSUME NEW p \in Procs, Step(p), NEW q \in Procs PROVE HoldsFit(q)'
    BY <1>4, HoldsFitStep, OthersHoldFit
  <1>5. \A q \in Procs : HoldsFit(q)'
    BY <1>2, <1>3, <1>4 DEF Next
  <1> QED BY <1>1, <1>5 DEF FitInv

LEMMA ConfiguredStep ==
  ASSUME PoolApart, Inv, CarefulInv, FitInv, StaticAsDeclared, [Next]_vars
  PROVE  StaticAsDeclared'
  <1> USE DEF Inv
  <1> DEFINE Good(v) == \/ cluster[v].conf \in {None, OwnEntry(cluster[v])}
                        \/ /\ cluster[v].host.address = None
                           /\ cluster[v].conf.host.address = None
  <1>1. ASSUME NEW v \in VmIds, \A w \in VmIds : w # v => cluster'[w] = cluster[w],
               cluster'[v] # None => Good(v)'
        PROVE  StaticAsDeclared'
    BY <1>1 DEF StaticAsDeclared, VMs
  <1>2. CASE UNCHANGED cluster
    BY <1>2 DEF StaticAsDeclared, VMs
  <1>3. ASSUME NEW p \in Procs, NEW k \in Keys, TfCreate(p, k) \/ Orphan(p, k)
        PROVE  StaticAsDeclared'
    <2>1. PICK v \in VmIds : v = plan[p][k].vm_id
      <3>1. pc[p] = "applying" /\ k \in DOMAIN plan[p]
        BY <1>3 DEF TfCreate, Orphan, Missing
      <3> QED BY <3>1, ApplyingPlan DEF IsPartial, Host
    <2>2. PICK ip : cluster' = [cluster EXCEPT ![v] = NewVM(Svc(p), k, plan[p][k], ip)]
      BY <1>3, <2>1 DEF TfCreate, Orphan
    <2>3. cluster'[v].conf = None
      BY <2>1, <2>2 DEF TypeOK, FilesOK, NewVM
    <2>4. \A w \in VmIds : w # v => cluster'[w] = cluster[w]
      BY <2>2 DEF TypeOK, FilesOK
    <2> QED BY <1>1, <2>1, <2>3, <2>4
  <1>4. ASSUME NEW p \in Procs, NEW k \in Keys, TfDestroy(p, k) PROVE StaticAsDeclared'
    BY <1>4 DEF TfDestroy, TypeOK, FilesOK, StaticAsDeclared, VMs
  <1>5. ASSUME NEW v \in VmIds, NewLease(v) PROVE StaticAsDeclared'
    <2>1. PICK ip : cluster' = [cluster EXCEPT ![v].ip = ip]
      BY <1>5 DEF NewLease
    <2>2. v \in VMs /\ cluster[v] \in VM
      BY <1>5 DEF NewLease, VMs, TypeOK, FilesOK
    <2>3. /\ cluster'[v].conf = cluster[v].conf
          /\ cluster'[v].key = cluster[v].key /\ cluster'[v].host = cluster[v].host
      BY <2>1, <2>2 DEF TypeOK, FilesOK, VM
    <2>4. \A w \in VmIds : w # v => cluster'[w] = cluster[w]
      BY <2>1 DEF TypeOK, FilesOK
    <2> QED BY <1>1, <2>2, <2>3, <2>4 DEF StaticAsDeclared, OwnEntry
  <1>6. ASSUME NEW p \in Procs, NEW k \in Keys, PlayHost(p, k) PROVE StaticAsDeclared'
    <2>1. /\ Svc(p) \in Services
          /\ k \in DOMAIN manifest[Svc(p)] /\ playing[p][k].host = manifest[Svc(p)][k]
          /\ Fit(manifest[Svc(p)][k], playing[p][k].address)
      <3>1. pc[p] = "playing" /\ k \in DOMAIN playing[p]
        BY <1>6 DEF PlayHost
      <3> QED BY <3>1, UpFacts DEF Running, Ended, FitInv, HoldsFit, FitEntries
    <2>2. PICK v \in Reachable(Svc(p), playing[p][k].address) :
            /\ OneVM(v) /\ cluster'[v] # None
            /\ cluster'[v].conf = [key |-> k, host |-> playing[p][k].host]
      BY <1>6, PlayedVM
    <2>3. /\ v \in VmIds
          /\ \/ cluster[v].key = k /\ cluster[v].host = manifest[Svc(p)][k]
             \/ cluster[v].host.address = None /\ manifest[Svc(p)][k].address = None
      BY <2>1, <2>2, FitLeads DEF FitInv, Reachable, VMsOf, VMs
    <2>4. cluster'[v].key = cluster[v].key /\ cluster'[v].host = cluster[v].host
      BY <1>6, <2>2, <2>3, PlayHostAlike DEF Alike
    <2>5. Good(v)'
      BY <2>1, <2>2, <2>3, <2>4 DEF OwnEntry
    <2> QED BY <1>1, <2>2, <2>3, <2>5 DEF OneVM
  <1>7. ASSUME NEW p \in Procs, Step(p)
        PROVE  \/ UNCHANGED cluster
               \/ \E k \in Keys : \/ TfDestroy(p, k) \/ TfCreate(p, k)
                                  \/ TfUpdate(p, k) \/ PlayHost(p, k)
    BY <1>7 DEF Step, List, ReadSibling, Prepare, TfPlan, TfStart, TfFail, TfFinish, Unlink,
                ReadOutputs, Connect, WaitTimeout, WriteInventory, StartPlay, PlayFail,
                PlayFinish, Return
  <1>8. ASSUME NEW p \in Procs, Step(p) PROVE StaticAsDeclared'
    BY <1>2, <1>3, <1>4, <1>6, <1>7, <1>8, NoUpdate
  <1>9. CASE World \/ UNCHANGED vars
    BY <1>2, <1>5, <1>9 DEF World, Edit, Calm, vars
  <1>10. ASSUME NEW p \in Procs, Call(p) \/ Abort(p) PROVE UNCHANGED cluster
    BY <1>10 DEF Call, Begin, Abort
  <1> QED BY <1>2, <1>3, <1>8, <1>9, <1>10 DEF Next

\* For an operator who edits no manifest in use, and with leases that are no
\* manifest's addresses: however many up, converge and down of one service run
\* at once, fail, die or find outputs and inventories of an earlier time
\* (resolve_deployed_addresses, build_inventory), no VM with a static address
\* gets another host's entry, and a leased VM gets its own or that of a host
\* that is leased too.
THEOREM PlaybooksFindTheirHosts ==
  ASSUME Careful, PoolApart
  PROVE  Spec => []StaticAsDeclared
  <1> DEFINE I == Safe /\ FitInv /\ StaticAsDeclared
  <1>1. Init => I
    <2> SUFFICES ASSUME Init PROVE I
      OBVIOUS
    <2>1. Safe
      BY InitType, InitRecord, CarefulInit DEF Safe, Inv
    <2>2. FitInv /\ StaticAsDeclared
      BY DEF Init, FitInv, Addressed, OutputsFit, HoldsFit, StaticAsDeclared, VMs
    <2> QED BY <2>1, <2>2
  <1>2. I /\ [Next]_vars => I'
    BY TypeStep, RecordStep, CarefulStep, FitStep, ConfiguredStep DEF Safe, Inv
  <1>3. I => StaticAsDeclared
    OBVIOUS
  <1> HIDE DEF I
  <1> QED BY <1>1, <1>2, <1>3, PTL DEF Spec
=============================================================================
