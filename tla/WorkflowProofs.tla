--------------------------- MODULE WorkflowProofs ---------------------------
(***************************************************************************)
(* What holds of Workflow for all services, processes, manifests and       *)
(* addresses.                                                              *)
(***************************************************************************)
EXTENDS WorkflowInv, TLAPS

-----------------------------------------------------------------------------
(* Partial functions.                                                      *)

LEMMA EmptyPartial == ASSUME NEW S PROVE IsPartial(Empty, S)
  BY DEF IsPartial, Empty

LEMMA WithPartial ==
  ASSUME NEW f, NEW S, IsPartial(f, S), NEW k \in Keys, NEW x \in S
  PROVE  IsPartial(With(f, k, x), S)
  BY DEF IsPartial, With

LEMMA WithoutPartial ==
  ASSUME NEW f, NEW S, IsPartial(f, S), NEW k
  PROVE  IsPartial(Without(f, k), S)
  BY DEF IsPartial, Without

LEMMA DraftsPartial ==
  ASSUME NEW m \in AllDrafts
  PROVE  IsPartial(m, Host)
  BY DraftsAssumption DEF AllDrafts

LEMMA ResourcesPartial ==
  ASSUME FilesOK, NEW s \in Services
  PROVE  IsPartial(Resources(s), Host)
  BY EmptyPartial DEF FilesOK, Resources

-----------------------------------------------------------------------------
(* What an applying process finds, and what Terraform's steps write.       *)

LEMMA ApplyingPlan ==
  ASSUME TypeOK, NEW p \in Procs, pc[p] = "applying"
  PROVE  Svc(p) \in Services /\ IsPartial(plan[p], Host)
  <1>1. Svc(p) \in Services
    BY DEF TypeOK, ProcsTyped, ProcOK, Svc, Jobs
  <1>2. plan[p] \in AllDrafts \cup {Empty}
    BY DEF TypeOK, ProcOK
  <1> QED BY <1>1, <1>2, DraftsPartial, EmptyPartial

LEMMA BootAddressTyped ==
  ASSUME NEW h \in Host, NEW ip \in BootAddresses(h)
  PROVE  ip \in IPs
  BY DEF BootAddresses, FreeLeases, IPs, Host

LEMMA NewVMTyped ==
  ASSUME NEW s \in Services, NEW k \in Keys, NEW h \in Host, NEW ip \in BootAddresses(h)
  PROVE  NewVM(s, k, h, ip) \in VM
  BY BootAddressTyped DEF NewVM, VM

LEMMA ReportedTyped ==
  ASSUME FilesOK, NEW m, IsPartial(m, Host), NEW silent,
         \A k \in DOMAIN m : cluster[m[k].vm_id] # None
  PROVE  IsPartial(Reported(m, silent), IPs \cup {None})
  <1>1. ASSUME NEW k \in DOMAIN m
        PROVE  /\ m[k].address \in Addresses \cup {None}
               /\ cluster[m[k].vm_id].ip \in IPs
    BY <1>1 DEF FilesOK, IsPartial, Host, VM
  <1> QED BY <1>1 DEF IsPartial, Reported, IPs

-----------------------------------------------------------------------------
(* Type correctness: one lemma per group of actions.                       *)

Inv == TypeOK /\ RecordedExists

LEMMA InitType == Init => TypeOK
  <1> SUFFICES ASSUME Init PROVE TypeOK
    OBVIOUS
  <1>1. FilesOK
    BY DEF Init, FilesOK, AllDrafts
  <1>2. ProcsTyped
    BY EmptyPartial DEF Init, ProcsTyped, Places
  <1>3. ASSUME NEW p \in Procs PROVE ProcOK(p)
    BY DEF Init, ProcOK, Running
  <1> QED BY <1>1, <1>2, <1>3 DEF TypeOK

LEMMA ForgetTyped ==
  ASSUME ProcsTyped, NEW p \in Procs, Forget(p),
         pc' \in [Procs -> Places], job' \in [Procs -> Jobs \cup {None}]
  PROVE  ProcsTyped'
  <1>1. /\ unread' \in [Procs -> SUBSET Services]
        /\ failed' \in [Procs -> SUBSET Keys]
        /\ waiting' \in [Procs -> SUBSET Keys]
    BY DEF ProcsTyped, Forget
  <1>2. plan' \in [Procs -> AllDrafts \cup {Empty, None}]
    BY DEF ProcsTyped, Forget
  <1>3. /\ DOMAIN deployed' = Procs
        /\ \A q \in Procs : deployed'[q] # None => IsPartial(deployed'[q], IPs \cup {None})
    BY DEF ProcsTyped, Forget
  <1>4. DOMAIN playing' = Procs /\ \A q \in Procs : IsPartial(playing'[q], Entries)
    BY EmptyPartial DEF ProcsTyped, Forget
  <1> QED BY <1>1, <1>2, <1>3, <1>4 DEF ProcsTyped

LEMMA BeginType ==
  ASSUME TypeOK, NEW p \in Procs, NEW cmd \in Commands, NEW s \in Services,
         NEW only \in Keys \cup {None}, Begin(p, cmd, s, only)
  PROVE  TypeOK'
  <1> DEFINE j == [cmd |-> cmd, svc |-> s, only |-> only, man |-> manifest[s]]
  <1>1. FilesOK'
    BY DEF TypeOK, FilesOK, Begin, files, IsPartial
  <1>2. j \in Jobs
    BY DEF TypeOK, FilesOK, Jobs
  <1>3. job' = [job EXCEPT ![p] = j]
    BY DEF Begin
  <1>4. pc' \in [Procs -> Places] /\ unread' \in [Procs -> SUBSET Services]
    BY DEF TypeOK, ProcsTyped, Begin, Goto, Places, Ended
  <1>5. ProcsTyped'
    <2>1. UNCHANGED <<plan, failed, waiting, deployed, playing>>
      BY DEF Begin
    <2> HIDE DEF j
    <2>2. job' \in [Procs -> Jobs \cup {None}]
      BY <1>2, <1>3 DEF TypeOK, ProcsTyped
    <2> QED BY <1>4, <2>1, <2>2 DEF TypeOK, ProcsTyped
  <1>6. ASSUME NEW q \in Procs PROVE ProcOK(q)'
    <2>1. CASE q = p
      BY <1>2, <1>3, <2>1 DEF TypeOK, FilesOK, ProcsTyped, ProcOK, Begin, Goto, Ended, Running
    <2>2. CASE q # p
      BY <2>2 DEF TypeOK, ProcsTyped, ProcOK, Begin, Goto, Ended, Running, Svc, files
    <2> QED BY <2>1, <2>2
  <1> QED BY <1>1, <1>5, <1>6 DEF TypeOK

LEMMA WorldType ==
  ASSUME TypeOK, World
  PROVE  TypeOK'
  <1>1. FilesOK'
    <2>1. ASSUME NEW s \in Services, Edit(s) PROVE FilesOK'
      <3>1. PICK m \in Drafts[s] \cup {None} : manifest' = [manifest EXCEPT ![s] = m]
        BY <2>1 DEF Edit
      <3>2. m \in AllDrafts \cup {None}
        BY DEF AllDrafts
      <3>3. manifest' \in [Services -> AllDrafts \cup {None}]
        BY <3>1, <3>2 DEF TypeOK, FilesOK
      <3>4. UNCHANGED <<tfvars, tfstate, outputs, inventory, cluster, calm>>
        BY <2>1 DEF Edit
      <3> QED BY <3>3, <3>4 DEF TypeOK, FilesOK
    <2>2. ASSUME NEW v \in VmIds, NewLease(v) PROVE FilesOK'
      <3>1. PICK ip \in FreeLeases : cluster' = [cluster EXCEPT ![v].ip = ip]
        BY <2>2 DEF NewLease
      <3>2. ip \in IPs
        BY DEF FreeLeases, IPs
      <3>3. cluster' \in [VmIds -> VM \cup {None}]
        BY <2>2, <3>1, <3>2 DEF NewLease, TypeOK, FilesOK, VM
      <3> QED BY <2>2, <3>3 DEF TypeOK, FilesOK, NewLease, files
    <2>3. ASSUME Calm PROVE FilesOK'
      BY <2>3 DEF TypeOK, FilesOK, Calm, files
    <2> QED BY <2>1, <2>2, <2>3 DEF World
  <1>2. UNCHANGED <<tfvars, pc, local>>
    BY DEF World, Edit, NewLease, Calm, files
  <1>3. ProcsTyped'
    BY <1>2 DEF TypeOK, ProcsTyped, local
  <1>4. ASSUME NEW q \in Procs PROVE ProcOK(q)'
    BY <1>2 DEF TypeOK, ProcOK, local, Running, Svc
  <1> QED BY <1>1, <1>3, <1>4 DEF TypeOK

LEMMA ListType ==
  ASSUME TypeOK, NEW p \in Procs, List(p)
  PROVE  TypeOK'
  <1>1. FilesOK'
    BY DEF TypeOK, FilesOK, List, files
  <1>2. ProcsTyped'
    <2>1. pc' \in [Procs -> Places]
      BY DEF TypeOK, ProcsTyped, List, Goto, Places
    <2>2. unread' \in [Procs -> SUBSET Services]
      BY DEF TypeOK, ProcsTyped, List
    <2>3. UNCHANGED <<job, plan, failed, waiting, deployed, playing>>
      BY DEF List
    <2> QED BY <2>1, <2>2, <2>3 DEF TypeOK, ProcsTyped
  <1>3. ASSUME NEW q \in Procs PROVE ProcOK(q)'
    <2>1. CASE q = p
      BY <2>1 DEF TypeOK, ProcsTyped, ProcOK, List, Goto, Ended, Running, Svc
    <2>2. CASE q # p
      BY <2>2 DEF TypeOK, ProcsTyped, ProcOK, List, Goto, Ended, Running, Svc, files
    <2> QED BY <2>1, <2>2
  <1> QED BY <1>1, <1>2, <1>3 DEF TypeOK

LEMMA ReadSiblingType ==
  ASSUME TypeOK, NEW p \in Procs, NEW o \in Services, ReadSibling(p, o)
  PROVE  TypeOK'
  <1>1. FilesOK'
    BY DEF TypeOK, FilesOK, ReadSibling, files
  <1>2. ProcsTyped'
    <2>1. pc' \in [Procs -> Places]
      BY DEF TypeOK, ProcsTyped, ReadSibling, Goto, Places, Ended
    <2>2. unread' \in [Procs -> SUBSET Services]
      BY DEF TypeOK, ProcsTyped, ReadSibling
    <2>3. UNCHANGED <<job, plan, failed, waiting, deployed, playing>>
      BY DEF ReadSibling
    <2> QED BY <2>1, <2>2, <2>3 DEF TypeOK, ProcsTyped
  <1>3. ASSUME NEW q \in Procs PROVE ProcOK(q)'
    <2>1. CASE q = p
      BY <2>1 DEF TypeOK, ProcsTyped, ProcOK, ReadSibling, Goto, Ended, Running, Svc, files, local
    <2>2. CASE q # p
      BY <2>2 DEF TypeOK, FilesOK, ProcsTyped, ProcOK, ReadSibling, Goto, Ended, Running, Svc, files, local
    <2> QED BY <2>1, <2>2
  <1> QED BY <1>1, <1>2, <1>3 DEF TypeOK

LEMMA PrepareType ==
  ASSUME TypeOK, NEW p \in Procs, Prepare(p)
  PROVE  TypeOK'
  <1>1. FilesOK'
    BY DEF TypeOK, FilesOK, ProcOK, Prepare, Loaded, Running, Ended, Svc, Jobs
  <1>2. ProcsTyped'
    BY DEF TypeOK, ProcsTyped, Prepare, Goto, Places, Ended, local
  <1>3. ASSUME NEW q \in Procs PROVE ProcOK(q)'
    <2>1. CASE q = p
      BY <2>1 DEF TypeOK, ProcsTyped, ProcOK, Prepare, Goto, Ended, Running, Svc, files, local, Loaded, FilesOK, Jobs
    <2>2. CASE q # p
      BY <2>2 DEF TypeOK, FilesOK, ProcsTyped, ProcOK, Prepare, Goto, Ended, Running, Svc, files, local, Loaded
    <2> QED BY <2>1, <2>2
  <1> QED BY <1>1, <1>2, <1>3 DEF TypeOK

LEMMA TfPlanType ==
  ASSUME TypeOK, NEW p \in Procs, TfPlan(p)
  PROVE  TypeOK'
  <1>1. FilesOK'
    BY DEF TypeOK, FilesOK, TfPlan, files
  <1>2. ProcsTyped'
    BY DEF TypeOK, ProcsTyped, TfPlan, Goto, Places, Ended, local
  <1>3. ASSUME NEW q \in Procs PROVE ProcOK(q)'
    <2>1. CASE q = p
      BY <2>1 DEF TypeOK, ProcsTyped, ProcOK, TfPlan, Goto, Ended, Running, Svc, files, local
    <2>2. CASE q # p
      BY <2>2 DEF TypeOK, FilesOK, ProcsTyped, ProcOK, TfPlan, Goto, Ended, Running, Svc, files, local
    <2> QED BY <2>1, <2>2
  <1> QED BY <1>1, <1>2, <1>3 DEF TypeOK

LEMMA TfStartType ==
  ASSUME TypeOK, NEW p \in Procs, TfStart(p)
  PROVE  TypeOK'
  <1>1. FilesOK'
    BY DEF TypeOK, FilesOK, TfStart, files
  <1>2. ProcsTyped'
    <2>1. pc' \in [Procs -> Places]
      BY DEF TypeOK, ProcsTyped, TfStart, Goto, Places, Ended
    <2>2. tfvars[Svc(p)] \in AllDrafts
      BY DEF TypeOK, FilesOK, ProcsTyped, ProcOK, TfStart, Svc, Jobs
    <2>3. plan' \in [Procs -> AllDrafts \cup {Empty, None}]
      BY <2>2 DEF TypeOK, ProcsTyped, TfStart
    <2>4. failed' \in [Procs -> SUBSET Keys]
      BY DEF TypeOK, ProcsTyped, TfStart
    <2>5. UNCHANGED <<job, unread, deployed, waiting, playing>>
      BY DEF TfStart
    <2> QED BY <2>1, <2>3, <2>4, <2>5 DEF TypeOK, ProcsTyped
  <1>3. ASSUME NEW q \in Procs PROVE ProcOK(q)'
    <2>1. CASE q = p
      BY <2>1 DEF TypeOK, ProcsTyped, ProcOK, TfStart, Goto, Ended, Running, Svc, files, local, FilesOK, Jobs
    <2>2. CASE q # p
      BY <2>2 DEF TypeOK, FilesOK, ProcsTyped, ProcOK, TfStart, Goto, Ended, Running, Svc, files, local, FilesOK, Jobs
    <2> QED BY <2>1, <2>2
  <1> QED BY <1>1, <1>2, <1>3 DEF TypeOK

LEMMA UnlinkType ==
  ASSUME TypeOK, NEW p \in Procs, Unlink(p)
  PROVE  TypeOK'
  <1>1. FilesOK'
    BY DEF TypeOK, FilesOK, Unlink, files
  <1>2. ProcsTyped'
    BY DEF TypeOK, ProcsTyped, Unlink, Goto, Places, Ended, local
  <1>3. ASSUME NEW q \in Procs PROVE ProcOK(q)'
    <2>1. CASE q = p
      BY <2>1 DEF TypeOK, ProcsTyped, ProcOK, Unlink, Goto, Ended, Running, Svc, files, local
    <2>2. CASE q # p
      BY <2>2 DEF TypeOK, FilesOK, ProcsTyped, ProcOK, Unlink, Goto, Ended, Running, Svc, files, local
    <2> QED BY <2>1, <2>2
  <1> QED BY <1>1, <1>2, <1>3 DEF TypeOK

LEMMA StartPlayType ==
  ASSUME TypeOK, NEW p \in Procs, StartPlay(p)
  PROVE  TypeOK'
  <1>1. FilesOK'
    BY DEF TypeOK, FilesOK, StartPlay, files
  <1>2. ProcsTyped'
    <2>1. pc' \in [Procs -> Places]
      BY DEF TypeOK, ProcsTyped, StartPlay, Goto, Places, Ended
    <2>2. failed' \in [Procs -> SUBSET Keys]
      BY DEF TypeOK, ProcsTyped, StartPlay
    <2>3. DOMAIN playing' = Procs /\ \A q \in Procs : IsPartial(playing'[q], Entries)
      <3> DEFINE hosts == IF inventory[Svc(p)] = None THEN Empty ELSE inventory[Svc(p)]
                 only == job[p].only
                 picked == [k \in {j \in DOMAIN hosts : only # None => j = only} |-> hosts[k]]
      <3>1. Svc(p) \in Services
        BY DEF TypeOK, ProcsTyped, ProcOK, StartPlay, Svc, Jobs
      <3>2. IsPartial(hosts, Entries)
        BY <3>1, EmptyPartial DEF TypeOK, FilesOK
      <3>3. IsPartial(picked, Entries)
        <4> HIDE DEF hosts, only
        <4> QED BY <3>2 DEF IsPartial
      <3>4. playing' = playing \/ playing' = [playing EXCEPT ![p] = picked]
        BY DEF StartPlay
      <3> HIDE DEF picked
      <3> QED BY <3>3, <3>4 DEF TypeOK, ProcsTyped
    <2>4. UNCHANGED <<job, unread, plan, deployed, waiting>>
      BY DEF StartPlay
    <2> QED BY <2>1, <2>2, <2>3, <2>4 DEF TypeOK, ProcsTyped
  <1>3. ASSUME NEW q \in Procs PROVE ProcOK(q)'
    <2>1. CASE q = p
      BY <2>1 DEF TypeOK, ProcsTyped, ProcOK, StartPlay, Goto, Ended, Running, Svc, files, local
    <2>2. CASE q # p
      BY <2>2 DEF TypeOK, FilesOK, ProcsTyped, ProcOK, StartPlay, Goto, Ended, Running, Svc, files, local
    <2> QED BY <2>1, <2>2
  <1> QED BY <1>1, <1>2, <1>3 DEF TypeOK

LEMMA WaitTimeoutType ==
  ASSUME TypeOK, NEW p \in Procs, WaitTimeout(p)
  PROVE  TypeOK'
  <1>1. FilesOK'
    BY DEF TypeOK, FilesOK, WaitTimeout, files
  <1>2. ProcsTyped'
    <2>1. pc' \in [Procs -> Places]
      BY DEF TypeOK, ProcsTyped, WaitTimeout, Goto, Places, Ended
    <2>2. job' \in [Procs -> Jobs \cup {None}]
      BY DEF TypeOK, ProcsTyped, WaitTimeout
    <2>3. Forget(p)
      BY DEF WaitTimeout
    <2> QED BY <2>1, <2>2, <2>3, ForgetTyped DEF TypeOK
  <1>3. ASSUME NEW q \in Procs PROVE ProcOK(q)'
    <2>1. CASE q = p
      BY <2>1 DEF TypeOK, ProcsTyped, ProcOK, WaitTimeout, Goto, Ended, Running, Svc, files, local, Forget
    <2>2. CASE q # p
      BY <2>2 DEF TypeOK, FilesOK, ProcsTyped, ProcOK, WaitTimeout, Goto, Ended, Running, Svc, files, local, Forget
    <2> QED BY <2>1, <2>2
  <1> QED BY <1>1, <1>2, <1>3 DEF TypeOK

LEMMA PlayFinishType ==
  ASSUME TypeOK, NEW p \in Procs, PlayFinish(p)
  PROVE  TypeOK'
  <1>1. FilesOK'
    BY DEF TypeOK, FilesOK, PlayFinish, files
  <1>2. ProcsTyped'
    <2>1. pc' \in [Procs -> Places]
      BY DEF TypeOK, ProcsTyped, PlayFinish, Goto, Places, Ended
    <2>2. job' \in [Procs -> Jobs \cup {None}]
      BY DEF TypeOK, ProcsTyped, PlayFinish
    <2>3. Forget(p)
      BY DEF PlayFinish
    <2> QED BY <2>1, <2>2, <2>3, ForgetTyped DEF TypeOK
  <1>3. ASSUME NEW q \in Procs PROVE ProcOK(q)'
    <2>1. CASE q = p
      BY <2>1 DEF TypeOK, ProcsTyped, ProcOK, PlayFinish, Goto, Ended, Running, Svc, files, local, Forget
    <2>2. CASE q # p
      BY <2>2 DEF TypeOK, FilesOK, ProcsTyped, ProcOK, PlayFinish, Goto, Ended, Running, Svc, files, local, Forget
    <2> QED BY <2>1, <2>2
  <1> QED BY <1>1, <1>2, <1>3 DEF TypeOK

LEMMA ReturnType ==
  ASSUME TypeOK, NEW p \in Procs, Return(p)
  PROVE  TypeOK'
  <1>1. FilesOK'
    BY DEF TypeOK, FilesOK, Return, files
  <1>2. ProcsTyped'
    <2>1. pc' \in [Procs -> Places]
      BY DEF TypeOK, ProcsTyped, Return, Goto, Places, Ended
    <2>2. job' \in [Procs -> Jobs \cup {None}]
      BY DEF TypeOK, ProcsTyped, Return
    <2>3. Forget(p)
      BY DEF Return
    <2> QED BY <2>1, <2>2, <2>3, ForgetTyped DEF TypeOK
  <1>3. ASSUME NEW q \in Procs PROVE ProcOK(q)'
    <2>1. CASE q = p
      BY <2>1 DEF TypeOK, ProcsTyped, ProcOK, Return, Goto, Ended, Running, Svc, files, local, Forget
    <2>2. CASE q # p
      BY <2>2 DEF TypeOK, FilesOK, ProcsTyped, ProcOK, Return, Goto, Ended, Running, Svc, files, local, Forget
    <2> QED BY <2>1, <2>2
  <1> QED BY <1>1, <1>2, <1>3 DEF TypeOK

LEMMA AbortType ==
  ASSUME TypeOK, NEW p \in Procs, Abort(p)
  PROVE  TypeOK'
  <1>1. FilesOK'
    BY DEF TypeOK, FilesOK, Abort, files
  <1>2. ProcsTyped'
    <2>1. pc' \in [Procs -> Places]
      BY DEF TypeOK, ProcsTyped, Abort, Goto, Places, Ended
    <2>2. job' \in [Procs -> Jobs \cup {None}]
      BY DEF TypeOK, ProcsTyped, Abort
    <2>3. Forget(p)
      BY DEF Abort
    <2> QED BY <2>1, <2>2, <2>3, ForgetTyped DEF TypeOK
  <1>3. ASSUME NEW q \in Procs PROVE ProcOK(q)'
    <2>1. CASE q = p
      BY <2>1 DEF TypeOK, ProcsTyped, ProcOK, Abort, Goto, Ended, Running, Svc, files, local, Forget
    <2>2. CASE q # p
      BY <2>2 DEF TypeOK, FilesOK, ProcsTyped, ProcOK, Abort, Goto, Ended, Running, Svc, files, local, Forget
    <2> QED BY <2>1, <2>2
  <1> QED BY <1>1, <1>2, <1>3 DEF TypeOK

LEMMA ConnectType ==
  ASSUME TypeOK, NEW p \in Procs, NEW k \in Keys, Connect(p, k)
  PROVE  TypeOK'
  <1>1. FilesOK'
    BY DEF TypeOK, FilesOK, Connect, files
  <1>2. ProcsTyped'
    BY DEF TypeOK, ProcsTyped, Connect, Goto, Places, Ended
  <1>3. ASSUME NEW q \in Procs PROVE ProcOK(q)'
    <2>1. CASE q = p
      BY <2>1 DEF TypeOK, ProcsTyped, ProcOK, Connect, Goto, Ended, Running, Svc, files, local
    <2>2. CASE q # p
      BY <2>2 DEF TypeOK, FilesOK, ProcsTyped, ProcOK, Connect, Goto, Ended, Running, Svc, files, local
    <2> QED BY <2>1, <2>2
  <1> QED BY <1>1, <1>2, <1>3 DEF TypeOK

LEMMA ReadOutputsType ==
  ASSUME TypeOK, NEW p \in Procs, ReadOutputs(p)
  PROVE  TypeOK'
  <1>1. FilesOK'
    BY DEF TypeOK, FilesOK, ReadOutputs, files
  <1>2. ProcsTyped'
    <2>1. pc' \in [Procs -> Places]
      BY DEF TypeOK, ProcsTyped, ReadOutputs, Goto, Places, Ended
    <2>2. Svc(p) \in Services /\ job[p].man \in AllDrafts
      BY DEF TypeOK, ProcsTyped, ProcOK, ReadOutputs, Loaded, Running, Ended, Svc, Jobs
    <2>3. waiting' \in [Procs -> SUBSET Keys]
      <3>1. DOMAIN job[p].man \subseteq Keys
        BY <2>2, DraftsPartial DEF IsPartial
      <3> QED BY <3>1 DEF TypeOK, ProcsTyped, ReadOutputs
    <2>4. /\ DOMAIN deployed' = Procs
          /\ \A q \in Procs : deployed'[q] # None => IsPartial(deployed'[q], IPs \cup {None})
      <3>1. deployed' = deployed \/ deployed' = [deployed EXCEPT ![p] = outputs[Svc(p)]]
        BY DEF ReadOutputs
      <3> QED BY <2>2, <3>1 DEF TypeOK, FilesOK, ProcsTyped
    <2>5. UNCHANGED <<job, unread, plan, failed, playing>>
      BY DEF ReadOutputs
    <2> QED BY <2>1, <2>3, <2>4, <2>5 DEF TypeOK, ProcsTyped
  <1>3. ASSUME NEW q \in Procs PROVE ProcOK(q)'
    <2>1. CASE q = p
      BY <2>1 DEF TypeOK, FilesOK, ProcsTyped, ProcOK, ReadOutputs, Goto, Ended, Running, Svc, Jobs, Loaded, files, local
    <2>2. CASE q # p
      BY <2>2 DEF TypeOK, FilesOK, ProcsTyped, ProcOK, ReadOutputs, Goto, Ended, Running, Svc, files, local
    <2> QED BY <2>1, <2>2
  <1> QED BY <1>1, <1>2, <1>3 DEF TypeOK

LEMMA TfFailType ==
  ASSUME TypeOK, NEW p \in Procs, NEW k \in Keys, TfFail(p, k)
  PROVE  TypeOK'
  <1>1. FilesOK'
    BY DEF TypeOK, FilesOK, TfFail, files
  <1>2. ProcsTyped'
    BY DEF TypeOK, ProcsTyped, TfFail, Goto, Places, Ended
  <1>3. ASSUME NEW q \in Procs PROVE ProcOK(q)'
    <2>1. CASE q = p
      BY <2>1 DEF TypeOK, ProcsTyped, ProcOK, TfFail, Goto, Ended, Running, Svc, files, local
    <2>2. CASE q # p
      BY <2>2 DEF TypeOK, FilesOK, ProcsTyped, ProcOK, TfFail, Goto, Ended, Running, Svc, files, local
    <2> QED BY <2>1, <2>2
  <1> QED BY <1>1, <1>2, <1>3 DEF TypeOK

LEMMA PlayFailType ==
  ASSUME TypeOK, NEW p \in Procs, NEW k \in Keys, PlayFail(p, k)
  PROVE  TypeOK'
  <1>1. FilesOK'
    BY DEF TypeOK, FilesOK, PlayFail, files
  <1>2. ProcsTyped'
    <2>1. failed' \in [Procs -> SUBSET Keys]
      BY DEF TypeOK, ProcsTyped, PlayFail
    <2>2. DOMAIN playing' = Procs /\ \A q \in Procs : IsPartial(playing'[q], Entries)
      <3>1. playing' = [playing EXCEPT ![p] = Without(playing[p], k)]
        BY DEF PlayFail
      <3>2. IsPartial(Without(playing[p], k), Entries)
        BY WithoutPartial DEF TypeOK, ProcsTyped
      <3> QED BY <3>1, <3>2 DEF TypeOK, ProcsTyped
    <2>3. UNCHANGED <<pc, job, unread, plan, deployed, waiting>>
      BY DEF PlayFail
    <2> QED BY <2>1, <2>2, <2>3 DEF TypeOK, ProcsTyped
  <1>3. ASSUME NEW q \in Procs PROVE ProcOK(q)'
    <2>1. CASE q = p
      BY <2>1 DEF TypeOK, ProcsTyped, ProcOK, PlayFail, Goto, Ended, Running, Svc, files, local
    <2>2. CASE q # p
      BY <2>2 DEF TypeOK, FilesOK, ProcsTyped, ProcOK, PlayFail, Goto, Ended, Running, Svc, files, local
    <2> QED BY <2>1, <2>2
  <1> QED BY <1>1, <1>2, <1>3 DEF TypeOK

LEMMA TfFinishType ==
  ASSUME Inv, NEW p \in Procs, TfFinish(p)
  PROVE  TypeOK'
  <1> USE DEF Inv
  <1>1. FilesOK'
    <2>1. Svc(p) \in Services /\ IsPartial(plan[p], Host)
      BY ApplyingPlan DEF TfFinish
    <2>2. IsPartial(Resources(Svc(p)), Host)
      BY <2>1, ResourcesPartial DEF TypeOK
    <2>3. /\ DOMAIN outputs' = Services
          /\ \A s \in Services : outputs'[s] # None => IsPartial(outputs'[s], IPs \cup {None})
      <3>1. CASE failed[p] = {} /\ job[p].cmd # "down"
        <4>1. PICK silent : outputs' = [outputs EXCEPT ![Svc(p)] = Reported(plan[p], silent)]
          BY <3>1 DEF TfFinish
        <4>2. ASSUME NEW k \in DOMAIN plan[p] PROVE cluster[plan[p][k].vm_id] # None
          <5>1. /\ k \in DOMAIN Resources(Svc(p))
                /\ plan[p][k].vm_id = Resources(Svc(p))[k].vm_id
            BY <3>1 DEF TfFinish, Doomed, Replaces, Missing
          <5>2. tfstate[Svc(p)] = Resources(Svc(p))
            BY <5>1 DEF Resources, Empty
          <5> QED BY <2>1, <5>1, <5>2 DEF RecordedExists, Stands
        <4>3. IsPartial(Reported(plan[p], silent), IPs \cup {None})
          BY <2>1, <4>2, ReportedTyped DEF TypeOK
        <4> QED BY <2>1, <4>1, <4>3 DEF TypeOK, FilesOK
      <3>2. CASE ~(failed[p] = {} /\ job[p].cmd # "down")
        <4>1. outputs' = outputs \/ outputs' = [outputs EXCEPT ![Svc(p)] = None]
          BY <3>2 DEF TfFinish
        <4> QED BY <2>1, <4>1 DEF TypeOK, FilesOK
      <3> QED BY <3>1, <3>2
    <2>4. tfstate' = [tfstate EXCEPT ![Svc(p)] = Resources(Svc(p))]
      BY DEF TfFinish
    <2>5. UNCHANGED <<manifest, tfvars, inventory, cluster, calm>>
      BY DEF TfFinish
    <2>6. /\ DOMAIN tfstate' = Services
          /\ \A s \in Services : tfstate'[s] # None => IsPartial(tfstate'[s], Host)
      BY <2>1, <2>2, <2>4 DEF TypeOK, FilesOK
    <2> QED BY <2>3, <2>5, <2>6 DEF TypeOK, FilesOK
  <1>2. ProcsTyped'
    BY DEF TypeOK, ProcsTyped, TfFinish, Goto, Places, Ended
  <1>3. ASSUME NEW q \in Procs PROVE ProcOK(q)'
    <2>1. CASE q = p
      BY <2>1 DEF TypeOK, ProcsTyped, ProcOK, TfFinish, Goto, Ended, Running, Svc, files, local
    <2>2. CASE q # p
      BY <2>2 DEF TypeOK, FilesOK, ProcsTyped, ProcOK, TfFinish, Goto, Ended, Running, Svc, files, local
    <2> QED BY <2>1, <2>2
  <1> QED BY <1>1, <1>2, <1>3 DEF TypeOK

LEMMA TfDestroyType ==
  ASSUME TypeOK, NEW p \in Procs, NEW k \in Keys, TfDestroy(p, k)
  PROVE  TypeOK'
  <1>1. FilesOK'
    <2> DEFINE s == Svc(p)
    <2>1. s \in Services /\ k \in DOMAIN Resources(s) /\ IsPartial(Resources(s), Host)
      BY ApplyingPlan, ResourcesPartial DEF TfDestroy, Doomed, Replaces, TypeOK
    <2>2. tfstate[s] = Resources(s)
      BY <2>1 DEF Resources, Empty
    <2>3. IsPartial(Without(tfstate[s], k), Host)
      BY <2>1, <2>2, WithoutPartial
    <2>4. tfstate' = [tfstate EXCEPT ![s] = Without(tfstate[s], k)]
      BY DEF TfDestroy
    <2>5. cluster' \in [VmIds -> VM \cup {None}]
      BY DEF TfDestroy, TypeOK, FilesOK
    <2>6. outputs' = outputs \/ outputs' = [outputs EXCEPT ![s] = None]
      BY DEF TfDestroy
    <2>7. UNCHANGED <<manifest, tfvars, inventory, calm>>
      BY DEF TfDestroy
    <2>8. \A o \in Services : tfstate'[o] # None => IsPartial(tfstate'[o], Host)
      BY <2>1, <2>3, <2>4 DEF TypeOK, FilesOK
    <2>9. /\ DOMAIN outputs' = Services
          /\ \A o \in Services : outputs'[o] # None => IsPartial(outputs'[o], IPs \cup {None})
      BY <2>1, <2>6 DEF TypeOK, FilesOK
    <2> QED BY <2>4, <2>5, <2>7, <2>8, <2>9 DEF TypeOK, FilesOK
  <1>2. ProcsTyped'
    BY DEF TypeOK, ProcsTyped, TfDestroy, Goto, Places, Ended, local
  <1>3. ASSUME NEW q \in Procs PROVE ProcOK(q)'
    <2>1. CASE q = p
      BY <2>1 DEF TypeOK, ProcsTyped, ProcOK, TfDestroy, Goto, Ended, Running, Svc, files, local
    <2>2. CASE q # p
      BY <2>2 DEF TypeOK, FilesOK, ProcsTyped, ProcOK, TfDestroy, Goto, Ended, Running, Svc, files, local
    <2> QED BY <2>1, <2>2
  <1> QED BY <1>1, <1>2, <1>3 DEF TypeOK

LEMMA TfCreateType ==
  ASSUME TypeOK, NEW p \in Procs, NEW k \in Keys, TfCreate(p, k)
  PROVE  TypeOK'
  <1>1. FilesOK'
    <2> DEFINE s == Svc(p)
               h == plan[p][k]
    <2>1. s \in Services /\ k \in DOMAIN plan[p] /\ IsPartial(plan[p], Host)
      BY ApplyingPlan DEF TfCreate, Missing
    <2>2. h \in Host
      BY <2>1 DEF IsPartial
    <2>3. PICK ip \in BootAddresses(h) :
            cluster' = [cluster EXCEPT ![h.vm_id] = NewVM(s, k, h, ip)]
      BY DEF TfCreate
    <2>4. cluster' \in [VmIds -> VM \cup {None}]
      BY <2>1, <2>2, <2>3, NewVMTyped DEF TypeOK, FilesOK
    <2>5. IsPartial(With(Resources(s), k, h), Host)
      BY <2>1, <2>2, ResourcesPartial, WithPartial DEF TypeOK
    <2>6. tfstate' = [tfstate EXCEPT ![s] = With(Resources(s), k, h)]
      BY DEF TfCreate
    <2>7. UNCHANGED <<manifest, tfvars, outputs, inventory, calm>>
      BY DEF TfCreate
    <2> QED BY <2>1, <2>4, <2>5, <2>6, <2>7 DEF TypeOK, FilesOK
  <1>2. ProcsTyped'
    BY DEF TypeOK, ProcsTyped, TfCreate, Goto, Places, Ended, local
  <1>3. ASSUME NEW q \in Procs PROVE ProcOK(q)'
    <2>1. CASE q = p
      BY <2>1 DEF TypeOK, ProcsTyped, ProcOK, TfCreate, Goto, Ended, Running, Svc, files, local
    <2>2. CASE q # p
      BY <2>2 DEF TypeOK, FilesOK, ProcsTyped, ProcOK, TfCreate, Goto, Ended, Running, Svc, files, local
    <2> QED BY <2>1, <2>2
  <1> QED BY <1>1, <1>2, <1>3 DEF TypeOK

LEMMA TfUpdateType ==
  ASSUME Inv, NEW p \in Procs, NEW k \in Keys, TfUpdate(p, k)
  PROVE  TypeOK'
  <1> USE DEF Inv
  <1>1. FilesOK'
    <2> DEFINE s == Svc(p)
               h == plan[p][k]
    <2>1. /\ s \in Services /\ k \in DOMAIN plan[p] /\ IsPartial(plan[p], Host)
          /\ k \in DOMAIN Resources(s) /\ IsPartial(Resources(s), Host)
          /\ h.vm_id = Resources(s)[k].vm_id
      BY ApplyingPlan, ResourcesPartial DEF TfUpdate, Drifted, Replaces, TypeOK
    <2>2. h \in Host
      BY <2>1 DEF IsPartial
    <2>3. tfstate[s] = Resources(s)
      BY <2>1 DEF Resources, Empty
    <2>4. cluster[h.vm_id] \in VM
      <3>1. cluster[h.vm_id] # None
        BY <2>1, <2>3 DEF RecordedExists, Stands
      <3> QED BY <2>2, <3>1 DEF TypeOK, FilesOK, Host
    <2>5. PICK ip \in IPs : cluster' = [cluster EXCEPT ![h.vm_id].host = h, ![h.vm_id].ip = ip]
      <3>1. cluster[h.vm_id].ip \in IPs
        BY <2>4 DEF VM
      <3>2. \A ip \in BootAddresses(h) : ip \in IPs
        BY <2>2, BootAddressTyped
      <3> QED BY <3>1, <3>2 DEF TfUpdate
    <2>6. cluster' \in [VmIds -> VM \cup {None}]
      BY <2>2, <2>4, <2>5 DEF TypeOK, FilesOK, VM
    <2>7. tfstate' = [tfstate EXCEPT ![s] = [tfstate[s] EXCEPT ![k] = h]]
      BY DEF TfUpdate
    <2>8. IsPartial([tfstate[s] EXCEPT ![k] = h], Host)
      BY <2>1, <2>2, <2>3 DEF IsPartial
    <2>9. UNCHANGED <<manifest, tfvars, outputs, inventory, calm>>
      BY DEF TfUpdate
    <2> QED BY <2>1, <2>6, <2>7, <2>8, <2>9 DEF TypeOK, FilesOK
  <1>2. ProcsTyped'
    BY DEF TypeOK, ProcsTyped, TfUpdate, Goto, Places, Ended, local
  <1>3. ASSUME NEW q \in Procs PROVE ProcOK(q)'
    <2>1. CASE q = p
      BY <2>1 DEF TypeOK, ProcsTyped, ProcOK, TfUpdate, Goto, Ended, Running, Svc, files, local
    <2>2. CASE q # p
      BY <2>2 DEF TypeOK, FilesOK, ProcsTyped, ProcOK, TfUpdate, Goto, Ended, Running, Svc, files, local
    <2> QED BY <2>1, <2>2
  <1> QED BY <1>1, <1>2, <1>3 DEF TypeOK

LEMMA PlayHostType ==
  ASSUME TypeOK, NEW p \in Procs, NEW k \in Keys, PlayHost(p, k)
  PROVE  TypeOK'
  <1>1. FilesOK'
    <2>1. playing[p][k] \in Entries
      BY DEF TypeOK, ProcsTyped, PlayHost, IsPartial
    <2>2. PICK v \in VMs : cluster' = [cluster EXCEPT ![v].conf =
                                       [key |-> k, host |-> playing[p][k].host]]
      BY DEF PlayHost, Reachable, VMsOf
    <2>3. cluster' \in [VmIds -> VM \cup {None}]
      BY <2>1, <2>2 DEF TypeOK, FilesOK, VMs, VM, Entries
    <2> QED BY <2>3 DEF TypeOK, FilesOK, PlayHost, files
  <1>2. ProcsTyped'
    <2>1. failed' = failed
      BY DEF PlayHost
    <2>2. DOMAIN playing' = Procs /\ \A q \in Procs : IsPartial(playing'[q], Entries)
      <3>1. playing' = [playing EXCEPT ![p] = Without(playing[p], k)]
        BY DEF PlayHost
      <3>2. IsPartial(Without(playing[p], k), Entries)
        BY WithoutPartial DEF TypeOK, ProcsTyped
      <3> QED BY <3>1, <3>2 DEF TypeOK, ProcsTyped
    <2>3. UNCHANGED <<pc, job, unread, plan, deployed, waiting>>
      BY DEF PlayHost
    <2> QED BY <2>1, <2>2, <2>3 DEF TypeOK, ProcsTyped
  <1>3. ASSUME NEW q \in Procs PROVE ProcOK(q)'
    <2>1. CASE q = p
      BY <2>1 DEF TypeOK, ProcsTyped, ProcOK, PlayHost, Goto, Ended, Running, Svc, files, local
    <2>2. CASE q # p
      BY <2>2 DEF TypeOK, FilesOK, ProcsTyped, ProcOK, PlayHost, Goto, Ended, Running, Svc, files, local
    <2> QED BY <2>1, <2>2
  <1> QED BY <1>1, <1>2, <1>3 DEF TypeOK

LEMMA WriteInventoryType ==
  ASSUME TypeOK, NEW p \in Procs, WriteInventory(p)
  PROVE  TypeOK'
  <1>1. FilesOK'
    <2> DEFINE m == job[p].man
               entries == [k \in DOMAIN m |-> [host |-> m[k], address |-> Address(p, k)]]
    <2>1. Svc(p) \in Services /\ m \in AllDrafts /\ deployed[p] # None
      BY DEF TypeOK, ProcsTyped, ProcOK, WriteInventory, Running, Ended, Svc, Jobs
    <2>2. IsPartial(m, Host)
      BY <2>1, DraftsPartial
    <2>3. CASE inventory' = inventory
      BY <2>3 DEF TypeOK, FilesOK, WriteInventory
    <2>4. CASE inventory' # inventory
      <3>1. /\ \A k \in DOMAIN m : Address(p, k) # None
            /\ inventory' = [inventory EXCEPT ![Svc(p)] = entries]
        BY <2>4 DEF WriteInventory
      <3>2. ASSUME NEW k \in DOMAIN m PROVE m[k] \in Host /\ Address(p, k) \in IPs
        <4>1. IsPartial(deployed[p], IPs \cup {None}) /\ m[k] \in Host
          BY <2>1, <2>2 DEF TypeOK, ProcsTyped, IsPartial
        <4> QED BY <3>1, <4>1 DEF Address, IsPartial, Host, IPs
      <3>3. IsPartial(entries, Entries)
        BY <2>2, <3>2 DEF IsPartial, Entries
      <3>4. UNCHANGED <<manifest, tfvars, tfstate, outputs, cluster, calm>>
        BY DEF WriteInventory
      <3> HIDE DEF m, entries
      <3> QED BY <2>1, <3>1, <3>3, <3>4 DEF TypeOK, FilesOK
    <2> QED BY <2>3, <2>4
  <1>2. ProcsTyped'
    BY DEF TypeOK, ProcsTyped, WriteInventory, Goto, Places, Ended, local
  <1>3. ASSUME NEW q \in Procs PROVE ProcOK(q)'
    <2>1. CASE q = p
      BY <2>1 DEF TypeOK, ProcsTyped, ProcOK, WriteInventory, Goto, Ended, Running, Svc, files, local
    <2>2. CASE q # p
      BY <2>2 DEF TypeOK, FilesOK, ProcsTyped, ProcOK, WriteInventory, Goto, Ended, Running, Svc, files, local
    <2> QED BY <2>1, <2>2
  <1> QED BY <1>1, <1>2, <1>3 DEF TypeOK

LEMMA OrphanType ==
  ASSUME TypeOK, NEW p \in Procs, NEW k \in Keys, Orphan(p, k)
  PROVE  TypeOK'
  <1>1. FilesOK'
    <2> DEFINE s == Svc(p)
               h == plan[p][k]
    <2>1. s \in Services /\ k \in DOMAIN plan[p] /\ IsPartial(plan[p], Host)
      BY ApplyingPlan DEF Orphan, Missing
    <2>2. h \in Host
      BY <2>1 DEF IsPartial
    <2>3. PICK ip \in BootAddresses(h) :
            cluster' = [cluster EXCEPT ![h.vm_id] = NewVM(s, k, h, ip)]
      BY DEF Orphan
    <2>4. cluster' \in [VmIds -> VM \cup {None}]
      BY <2>1, <2>2, <2>3, NewVMTyped DEF TypeOK, FilesOK
    <2>5. UNCHANGED <<manifest, tfvars, tfstate, outputs, inventory, calm>>
      BY DEF Orphan, files
    <2> QED BY <2>4, <2>5 DEF TypeOK, FilesOK
  <1>2. ProcsTyped'
    <2>1. pc' \in [Procs -> Places]
      BY DEF TypeOK, ProcsTyped, Orphan, Goto, Places, Ended
    <2>2. job' \in [Procs -> Jobs \cup {None}]
      BY DEF TypeOK, ProcsTyped, Orphan
    <2>3. Forget(p)
      BY DEF Orphan
    <2> QED BY <2>1, <2>2, <2>3, ForgetTyped DEF TypeOK
  <1>3. ASSUME NEW q \in Procs PROVE ProcOK(q)'
    <2>1. CASE q = p
      BY <2>1 DEF TypeOK, ProcsTyped, ProcOK, Orphan, Goto, Ended, Running, Svc, files, local, Forget
    <2>2. CASE q # p
      BY <2>2 DEF TypeOK, FilesOK, ProcsTyped, ProcOK, Orphan, Goto, Ended, Running, Svc, files, local, Forget
    <2> QED BY <2>1, <2>2
  <1> QED BY <1>1, <1>2, <1>3 DEF TypeOK

-----------------------------------------------------------------------------
(* The record: every host of a Terraform state is a VM of its service, and *)
(* without hard kills every VM is such a host.                             *)

\* The actions that touch neither the Terraform states nor the cluster.
Quiet == UNCHANGED <<tfstate, cluster>>

LEMMA QuietRecord ==
  ASSUME Quiet
  PROVE  /\ RecordedExists => RecordedExists'
         /\ ExistingRecorded => ExistingRecorded'
  BY DEF Quiet, RecordedExists, ExistingRecorded, Stands, Recorded, Resources, VMs

\* The VM w, or its absence, but for its address and configuration.
Alike(w) ==
  /\ (cluster'[w] = None) <=> (cluster[w] = None)
  /\ cluster[w] # None => /\ cluster'[w].svc = cluster[w].svc
                          /\ cluster'[w].key = cluster[w].key
                          /\ cluster'[w].host = cluster[w].host

LEMMA AlikeRecord ==
  ASSUME FilesOK, \A w \in VmIds : Alike(w),
         \A s \in Services : \/ tfstate'[s] = tfstate[s]
                             \/ (tfstate[s] = None /\ tfstate'[s] = Empty)
  PROVE  /\ RecordedExists => RecordedExists'
         /\ ExistingRecorded => ExistingRecorded'
  <1>1. ASSUME RecordedExists, NEW s \in Services, NEW k \in DOMAIN Resources(s)'
        PROVE  Stands(s, k)'
    <2>1. k \in DOMAIN Resources(s) /\ tfstate'[s] = tfstate[s] /\ Stands(s, k)
      BY <1>1 DEF RecordedExists, Resources, Empty
    <2>2. tfstate[s][k].vm_id \in VmIds
      BY <2>1, ResourcesPartial DEF Resources, Empty, IsPartial, Host
    <2> QED BY <2>1, <2>2 DEF Stands, Alike
  <1>2. ASSUME ExistingRecorded, NEW v \in VMs' PROVE Recorded(v)'
    <2>1. v \in VMs /\ v \in VmIds
      BY DEF VMs, Alike
    <2>2. cluster[v].svc \in Services /\ Recorded(v)
      BY <1>2, <2>1 DEF VMs, FilesOK, VM, ExistingRecorded
    <2>3. cluster'[v].svc = cluster[v].svc /\ cluster'[v].key = cluster[v].key
      BY <2>1 DEF VMs, Alike
    <2> QED BY <2>2, <2>3 DEF Recorded, Resources, Empty
  <1> QED BY <1>1, <1>2 DEF RecordedExists, ExistingRecorded

LEMMA NewLeaseAlike ==
  ASSUME TypeOK, NEW v \in VmIds, NewLease(v)
  PROVE  \A w \in VmIds : Alike(w)
  <1>1. PICK ip \in FreeLeases : cluster' = [cluster EXCEPT ![v].ip = ip]
    BY DEF NewLease
  <1>2. cluster'[v] # None
    <2>1. ip \in IPs
      BY DEF FreeLeases, IPs
    <2>2. [cluster[v] EXCEPT !.ip = ip] \in VM
      BY <2>1 DEF TypeOK, FilesOK, VM, NewLease
    <2> QED BY <1>1, <2>2, NoneAssumption DEF TypeOK, FilesOK
  <1>3. ASSUME NEW w \in VmIds PROVE Alike(w)
    BY <1>1, <1>2 DEF TypeOK, FilesOK, VM, NewLease, Alike
  <1> QED BY <1>3

LEMMA NewLeaseRecord ==
  ASSUME TypeOK, NEW v \in VmIds, NewLease(v)
  PROVE  /\ RecordedExists => RecordedExists'
         /\ ExistingRecorded => ExistingRecorded'
  <1>1. tfstate' = tfstate
    BY DEF NewLease, files
  <1> QED BY <1>1, NewLeaseAlike, AlikeRecord DEF TypeOK

LEMMA PlayHostAlike ==
  ASSUME TypeOK, NEW p \in Procs, NEW k \in Keys, PlayHost(p, k)
  PROVE  \A w \in VmIds : Alike(w)
  <1>1. PICK v \in VMs : cluster' = [cluster EXCEPT ![v].conf =
                                     [key |-> k, host |-> playing[p][k].host]]
    BY DEF PlayHost, Reachable, VMsOf
  <1>2. cluster'[v] # None
    <2>1. playing[p][k] \in Entries
      BY DEF TypeOK, ProcsTyped, PlayHost, IsPartial
    <2>2. [cluster[v] EXCEPT !.conf = [key |-> k, host |-> playing[p][k].host]] \in VM
      BY <2>1 DEF TypeOK, FilesOK, VMs, VM, Entries
    <2> QED BY <1>1, <2>2, NoneAssumption DEF TypeOK, FilesOK, VMs
  <1>3. ASSUME NEW w \in VmIds PROVE Alike(w)
    BY <1>1, <1>2 DEF TypeOK, FilesOK, VMs, VM, Alike
  <1> QED BY <1>3

LEMMA PlayHostRecord ==
  ASSUME TypeOK, NEW p \in Procs, NEW k \in Keys, PlayHost(p, k)
  PROVE  /\ RecordedExists => RecordedExists'
         /\ ExistingRecorded => ExistingRecorded'
  <1>1. tfstate' = tfstate
    BY DEF PlayHost, files
  <1> QED BY <1>1, PlayHostAlike, AlikeRecord DEF TypeOK

LEMMA TfFinishRecord ==
  ASSUME TypeOK, NEW p \in Procs, TfFinish(p)
  PROVE  /\ RecordedExists => RecordedExists'
         /\ ExistingRecorded => ExistingRecorded'
  <1>1. ASSUME NEW w \in VmIds PROVE Alike(w)
    BY DEF TfFinish, Alike
  <1>2. ASSUME NEW s \in Services
        PROVE  tfstate'[s] = tfstate[s] \/ (tfstate[s] = None /\ tfstate'[s] = Empty)
    BY DEF TypeOK, FilesOK, TfFinish, Resources
  <1> QED BY <1>1, <1>2, AlikeRecord DEF TypeOK

LEMMA TfDestroyRecord ==
  ASSUME TypeOK, RecordedExists, NEW p \in Procs, NEW k \in Keys, TfDestroy(p, k)
  PROVE  /\ RecordedExists'
         /\ ExistingRecorded => ExistingRecorded'
  <1> DEFINE s == Svc(p)
             v == tfstate[s][k].vm_id
  <1>1. s \in Services /\ k \in DOMAIN Resources(s) /\ tfstate[s] = Resources(s)
    BY ApplyingPlan DEF TfDestroy, Doomed, Replaces, Resources, Empty
  <1>2. v \in VmIds
    BY <1>1, ResourcesPartial DEF TypeOK, IsPartial, Host
  <1>3. /\ cluster' = [cluster EXCEPT ![v] = None]
        /\ tfstate' = [tfstate EXCEPT ![s] = Without(tfstate[s], k)]
    BY DEF TfDestroy
  <1>4. cluster[v].svc = s /\ cluster[v].key = k
    BY <1>1 DEF RecordedExists, Stands
  <1>5. ASSUME NEW o \in Services, NEW j \in DOMAIN Resources(o)'
        PROVE  Stands(o, j)'
    <2>1. /\ j \in DOMAIN Resources(o) /\ (o # s \/ j # k)
          /\ tfstate'[o][j] = tfstate[o][j]
      BY <1>1, <1>3 DEF TypeOK, FilesOK, Resources, Without, Empty
    <2>2. Stands(o, j)
      BY <2>1 DEF RecordedExists
    <2>3. tfstate[o][j].vm_id # v
      BY <1>4, <2>1, <2>2 DEF Stands
    <2>4. tfstate[o][j].vm_id \in VmIds
      BY <2>1, ResourcesPartial DEF TypeOK, Resources, Empty, IsPartial, Host
    <2> QED BY <1>3, <2>1, <2>2, <2>3, <2>4 DEF Stands, TypeOK, FilesOK
  <1>6. ASSUME ExistingRecorded, NEW w \in VMs' PROVE Recorded(w)'
    <2>1. w \in VMs /\ w # v /\ cluster'[w] = cluster[w]
      BY <1>2, <1>3 DEF TypeOK, FilesOK, VMs
    <2>2. Recorded(w) /\ cluster[w].svc \in Services
      BY <1>6, <2>1 DEF ExistingRecorded, VMs, TypeOK, FilesOK, VM
    <2>3. cluster[w].svc # s \/ cluster[w].key # k
      BY <2>1, <2>2 DEF Recorded
    <2>4. Without(tfstate[s], k) # None
      <3>1. Without(tfstate[s], k) \in [DOMAIN tfstate[s] \ {k} -> Host]
        BY <1>1, ResourcesPartial DEF TypeOK, Without, IsPartial
      <3> QED BY <1>1, <3>1, ResourcesPartial, NoneAssumption DEF TypeOK, IsPartial
    <2> QED BY <1>1, <1>3, <2>1, <2>2, <2>3, <2>4
            DEF Recorded, Resources, Without, TypeOK, FilesOK
  <1> QED BY <1>5, <1>6 DEF RecordedExists, ExistingRecorded

LEMMA TfCreateRecord ==
  ASSUME TypeOK, RecordedExists, NEW p \in Procs, NEW k \in Keys, TfCreate(p, k)
  PROVE  /\ RecordedExists'
         /\ ExistingRecorded => ExistingRecorded'
  <1> DEFINE s == Svc(p)
             h == plan[p][k]
             r == Resources(s)
  <1>1. /\ s \in Services /\ k \in DOMAIN plan[p] /\ IsPartial(plan[p], Host)
        /\ k \notin DOMAIN r /\ IsPartial(r, Host)
    BY ApplyingPlan, ResourcesPartial DEF TfCreate, Missing, TypeOK
  <1>2. h \in Host /\ h.vm_id \in VmIds /\ cluster[h.vm_id] = None
    BY <1>1 DEF IsPartial, Host, TfCreate
  <1>3. PICK ip \in BootAddresses(h) :
          cluster' = [cluster EXCEPT ![h.vm_id] = NewVM(s, k, h, ip)]
    BY DEF TfCreate
  <1>4. tfstate' = [tfstate EXCEPT ![s] = With(r, k, h)]
    BY DEF TfCreate
  <1>5. NewVM(s, k, h, ip) # None
    BY <1>1, <1>2, NewVMTyped, NoneAssumption
  <1>6. With(r, k, h) # None
    <2>1. IsPartial(With(r, k, h), Host)
      BY <1>1, <1>2, WithPartial
    <2> QED BY <2>1, NoneAssumption DEF IsPartial
  <1>7. ASSUME NEW o \in Services, NEW j \in DOMAIN Resources(o)'
        PROVE  Stands(o, j)'
    <2>1. CASE o = s /\ j = k
      BY <1>1, <1>2, <1>3, <1>4, <1>5, <2>1 DEF Stands, With, NewVM, TypeOK, FilesOK
    <2>2. CASE ~(o = s /\ j = k)
      <3>1. j \in DOMAIN Resources(o) /\ tfstate'[o][j] = tfstate[o][j]
        BY <1>1, <1>4, <1>6, <2>2 DEF TypeOK, FilesOK, Resources, With, Empty
      <3>2. Stands(o, j)
        BY <3>1 DEF RecordedExists
      <3>3. tfstate[o][j].vm_id # h.vm_id
        BY <1>2, <3>2 DEF Stands
      <3>4. tfstate[o][j].vm_id \in VmIds
        BY <3>1, ResourcesPartial DEF TypeOK, Resources, Empty, IsPartial, Host
      <3> QED BY <1>3, <3>1, <3>2, <3>3, <3>4 DEF Stands, TypeOK, FilesOK
    <2> QED BY <2>1, <2>2
  <1>8. ASSUME ExistingRecorded, NEW w \in VMs' PROVE Recorded(w)'
    <2>1. CASE w = h.vm_id
      BY <1>1, <1>2, <1>3, <1>4, <1>6, <2>1 DEF Recorded, Resources, With, NewVM, TypeOK, FilesOK
    <2>2. CASE w # h.vm_id
      <3>1. w \in VMs /\ cluster'[w] = cluster[w]
        BY <1>2, <1>3, <2>2 DEF TypeOK, FilesOK, VMs
      <3>2. Recorded(w) /\ cluster[w].svc \in Services
        BY <1>8, <3>1 DEF ExistingRecorded, VMs, TypeOK, FilesOK, VM
      <3>3. cluster[w].svc # s \/ cluster[w].key # k
        BY <1>1, <3>2 DEF Recorded
      <3> QED BY <1>1, <1>4, <1>6, <3>1, <3>2, <3>3
              DEF Recorded, Resources, With, Empty, TypeOK, FilesOK
    <2> QED BY <2>1, <2>2
  <1> QED BY <1>7, <1>8 DEF RecordedExists, ExistingRecorded

LEMMA TfUpdateRecord ==
  ASSUME TypeOK, RecordedExists, NEW p \in Procs, NEW k \in Keys, TfUpdate(p, k)
  PROVE  /\ RecordedExists'
         /\ ExistingRecorded => ExistingRecorded'
  <1> DEFINE s == Svc(p)
             h == plan[p][k]
             v == h.vm_id
  <1>1. /\ s \in Services /\ k \in DOMAIN plan[p] /\ IsPartial(plan[p], Host)
        /\ k \in DOMAIN Resources(s) /\ tfstate[s] = Resources(s)
        /\ v = tfstate[s][k].vm_id
    BY ApplyingPlan DEF TfUpdate, Drifted, Replaces, Resources, Empty
  <1>2. h \in Host /\ v \in VmIds /\ IsPartial(tfstate[s], Host)
    BY <1>1, ResourcesPartial DEF IsPartial, Host, TypeOK
  <1>3. cluster[v] \in VM /\ cluster[v].svc = s /\ cluster[v].key = k
    BY <1>1, <1>2 DEF RecordedExists, Stands, TypeOK, FilesOK
  <1>4. PICK ip \in IPs : cluster' = [cluster EXCEPT ![v].host = h, ![v].ip = ip]
    <2>1. cluster[v].ip \in IPs
      BY <1>3 DEF VM
    <2>2. \A ip \in BootAddresses(h) : ip \in IPs
      BY <1>2, BootAddressTyped
    <2> QED BY <2>1, <2>2 DEF TfUpdate
  <1>5. tfstate' = [tfstate EXCEPT ![s] = [tfstate[s] EXCEPT ![k] = h]]
    BY DEF TfUpdate
  <1>6. cluster'[v] \in VM /\ cluster'[v].svc = s /\ cluster'[v].key = k /\ cluster'[v].host = h
    BY <1>2, <1>3, <1>4 DEF TypeOK, FilesOK, VM
  <1>7. ASSUME NEW w \in VmIds, w # v PROVE cluster'[w] = cluster[w]
    BY <1>4, <1>7 DEF TypeOK, FilesOK
  <1>8. [tfstate[s] EXCEPT ![k] = h] # None
    <2>1. [tfstate[s] EXCEPT ![k] = h] \in [DOMAIN tfstate[s] -> Host]
      BY <1>2 DEF IsPartial
    <2> QED BY <1>2, <2>1, NoneAssumption DEF IsPartial
  <1>9. ASSUME NEW o \in Services, NEW j \in DOMAIN Resources(o)'
        PROVE  Stands(o, j)'
    <2>1. CASE o = s /\ j = k
      BY <1>1, <1>5, <1>6, <2>1, NoneAssumption DEF Stands, TypeOK, FilesOK
    <2>2. CASE ~(o = s /\ j = k)
      <3>1. j \in DOMAIN Resources(o) /\ tfstate'[o][j] = tfstate[o][j]
        BY <1>1, <1>5, <1>8, <2>2 DEF TypeOK, FilesOK, Resources, Empty
      <3>2. Stands(o, j)
        BY <3>1 DEF RecordedExists
      <3>3. tfstate[o][j].vm_id # v
        BY <1>3, <2>2, <3>2 DEF Stands
      <3>4. tfstate[o][j].vm_id \in VmIds
        BY <3>1, ResourcesPartial DEF TypeOK, Resources, Empty, IsPartial, Host
      <3> QED BY <1>7, <3>1, <3>2, <3>3, <3>4 DEF Stands
    <2> QED BY <2>1, <2>2
  <1>10. ASSUME ExistingRecorded, NEW w \in VMs' PROVE Recorded(w)'
    <2>1. CASE w = v
      BY <1>1, <1>5, <1>6, <1>8, <2>1 DEF Recorded, Resources, TypeOK, FilesOK
    <2>2. CASE w # v
      <3>1. w \in VMs /\ cluster'[w] = cluster[w]
        BY <1>4, <1>7, <2>2 DEF VMs
      <3>2. Recorded(w) /\ cluster[w].svc \in Services
        BY <1>10, <3>1 DEF ExistingRecorded, VMs, TypeOK, FilesOK, VM
      <3>3. cluster[w].svc # s \/ cluster[w].key # k
        BY <1>1, <2>2, <3>2 DEF Recorded
      <3> QED BY <1>1, <1>5, <1>8, <3>1, <3>2, <3>3
              DEF Recorded, Resources, Empty, TypeOK, FilesOK
    <2> QED BY <2>1, <2>2
  <1> QED BY <1>9, <1>10 DEF RecordedExists, ExistingRecorded

LEMMA OrphanRecord ==
  ASSUME TypeOK, RecordedExists, NEW p \in Procs, NEW k \in Keys, Orphan(p, k)
  PROVE  RecordedExists'
  <1> DEFINE h == plan[p][k]
  <1>1. PICK vm : cluster' = [cluster EXCEPT ![h.vm_id] = vm]
    BY DEF Orphan
  <1>2. tfstate' = tfstate /\ cluster[h.vm_id] = None
    BY DEF Orphan, files
  <1>3. ASSUME NEW o \in Services, NEW j \in DOMAIN Resources(o)'
        PROVE  Stands(o, j)'
    <2>1. j \in DOMAIN Resources(o) /\ tfstate'[o][j] = tfstate[o][j]
      BY <1>2 DEF Resources
    <2>2. Stands(o, j) /\ tfstate[o][j].vm_id # h.vm_id
      BY <1>2, <2>1 DEF RecordedExists, Stands
    <2>3. tfstate[o][j].vm_id \in VmIds
      BY <2>1, ResourcesPartial DEF TypeOK, Resources, Empty, IsPartial, Host
    <2> QED BY <1>1, <2>1, <2>2, <2>3 DEF Stands, TypeOK, FilesOK
  <1> QED BY <1>3 DEF RecordedExists

-----------------------------------------------------------------------------
(* The invariants of every behaviour.                                      *)

LEMMA TypeStep ==
  ASSUME Inv, [Next]_vars
  PROVE  TypeOK'
  <1> USE DEF Inv
  <1>1. CASE World
    BY <1>1, WorldType
  <1>2. ASSUME NEW p \in Procs, Call(p) PROVE TypeOK'
    BY <1>2, BeginType DEF Call
  <1>3. ASSUME NEW p \in Procs, Step(p) PROVE TypeOK'
    BY <1>3, ListType, ReadSiblingType, PrepareType, TfPlanType, TfStartType, TfDestroyType,
       TfCreateType, TfUpdateType, TfFailType, TfFinishType, UnlinkType, ReadOutputsType,
       ConnectType, WaitTimeoutType, WriteInventoryType, StartPlayType, PlayHostType,
       PlayFailType, PlayFinishType, ReturnType DEF Step
  <1>4. ASSUME NEW p \in Procs, Abort(p) PROVE TypeOK'
    BY <1>4, AbortType
  <1>5. ASSUME NEW p \in Procs, NEW k \in Keys, Orphan(p, k) PROVE TypeOK'
    BY <1>5, OrphanType
  <1>6. CASE UNCHANGED vars
    BY <1>6 DEF vars, files, local, TypeOK, FilesOK, ProcsTyped, ProcOK, Running, Svc
  <1> QED BY <1>1, <1>2, <1>3, <1>4, <1>5, <1>6 DEF Next

LEMMA RecordStep ==
  ASSUME Inv, [Next]_vars
  PROVE  /\ RecordedExists'
         /\ ~HardKills /\ ExistingRecorded => ExistingRecorded'
  <1> USE DEF Inv
  <1>1. CASE World
    <2>1. ASSUME NEW s \in Services, Edit(s) PROVE Quiet
      BY <2>1 DEF Edit, Quiet
    <2>2. CASE Calm
      BY <2>2, QuietRecord DEF Calm, Quiet, files
    <2> QED BY <1>1, <2>1, <2>2, QuietRecord, NewLeaseRecord DEF World
  <1>2. ASSUME NEW p \in Procs, Call(p) PROVE Quiet
    BY <1>2 DEF Call, Begin, Quiet, files
  <1>3. ASSUME NEW p \in Procs, Step(p)
        PROVE  \/ Quiet
               \/ TfFinish(p)
               \/ \E k \in Keys : \/ TfDestroy(p, k) \/ TfCreate(p, k)
                                  \/ TfUpdate(p, k) \/ PlayHost(p, k)
    BY <1>3 DEF Step, Quiet, files, List, ReadSibling, Prepare, TfPlan, TfStart, TfFail, Unlink,
                ReadOutputs, Connect, WaitTimeout, WriteInventory, StartPlay, PlayFail,
                PlayFinish, Return
  <1>4. ASSUME NEW p \in Procs, Abort(p) PROVE Quiet
    BY <1>4 DEF Abort, Quiet
  <1>5. ASSUME NEW p \in Procs, NEW k \in Keys, Orphan(p, k) PROVE HardKills /\ RecordedExists'
    BY <1>5, OrphanRecord DEF Orphan
  <1>6. CASE UNCHANGED vars
    BY <1>6, QuietRecord DEF vars, files, Quiet
  <1>7. ASSUME NEW p \in Procs, Step(p)
        PROVE  /\ RecordedExists'
               /\ ExistingRecorded => ExistingRecorded'
    BY <1>3, <1>7, QuietRecord, TfFinishRecord, TfDestroyRecord, TfCreateRecord,
       TfUpdateRecord, PlayHostRecord
  <1> QED BY <1>1, <1>2, <1>4, <1>5, <1>6, <1>7, QuietRecord DEF Next

LEMMA InitRecord == Init => RecordedExists /\ ExistingRecorded
  BY DEF Init, RecordedExists, ExistingRecorded, Resources, Empty, VMs

\* Every reachable state is well typed, and past each step of a command what
\* the next step reads is there: a manifest that resolves, variables for
\* Terraform, outputs for the inventory (the early returns of workflows.py).
THEOREM TypeCorrect == Spec => []TypeOK
  <1>1. Init => Inv
    BY InitType, InitRecord DEF Inv
  <1>2. Inv /\ [Next]_vars => Inv'
    BY TypeStep, RecordStep DEF Inv
  <1>3. Inv => TypeOK
    BY DEF Inv
  <1> QED BY <1>1, <1>2, <1>3, PTL DEF Spec

\* Whatever commands race, fail or are killed, a Terraform state never names
\* a VM that is gone, belongs to another service or differs from its record.
THEOREM RecordSound == Spec => []RecordedExists
  <1>1. Init => Inv
    BY InitType, InitRecord DEF Inv
  <1>2. Inv /\ [Next]_vars => Inv'
    BY TypeStep, RecordStep DEF Inv
  <1>3. Inv => RecordedExists
    BY DEF Inv
  <1> QED BY <1>1, <1>2, <1>3, PTL DEF Spec

\* Unless Terraform dies between creating and recording a VM, the state is
\* the record of what exists: the user guide's "only record".
THEOREM RecordComplete == ASSUME ~HardKills PROVE Spec => []StateIsTheRecord
  <1> DEFINE I == Inv /\ ExistingRecorded
  <1>1. Init => I
    BY InitType, InitRecord DEF Inv
  <1>2. I /\ [Next]_vars => I'
    BY TypeStep, RecordStep DEF Inv
  <1>3. I => StateIsTheRecord
    BY DEF Inv, StateIsTheRecord
  <1> HIDE DEF I
  <1> QED BY <1>1, <1>2, <1>3, PTL DEF Spec
=============================================================================
