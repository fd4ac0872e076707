----------------------- MODULE WorkflowCarefulProofs ------------------------
(***************************************************************************)
(* For an operator who edits no manifest in use, the cross-check of        *)
(* load_service keeps the identities in the cluster apart, although the    *)
(* commands that make it hold no lock and the check is over long before    *)
(* Terraform acts on it.  The invariant is CarefulInv of WorkflowInv.      *)
(***************************************************************************)
EXTENDS WorkflowProofs

LEMMA ClashSymmetric ==
  ASSUME NEW g, NEW h, Clash(g, h)
  PROVE  Clash(h, g)
  BY DEF Clash

LEMMA ConflictSymmetric ==
  ASSUME NEW m, NEW n, Conflict(m, n)
  PROVE  Conflict(n, m)
  BY ClashSymmetric DEF Conflict

LEMMA HolderResolves ==
  ASSUME TypeOK, VMsDeclared, CopiesCurrent, NEW s \in Services, NEW o, Holds(s, o)
  PROVE  manifest[s] # None /\ Resolves(manifest[s])
  <1>1. CASE VMsOf(s) # {}
    BY <1>1 DEF VMsOf, VMsDeclared, Declared
  <1>2. CASE \E p \in Procs : RunningOn(p, s)
    BY <1>2 DEF RunningOn, Svc, CopiesCurrent, Current, TypeOK, ProcOK
  <1> QED BY <1>1, <1>2 DEF Holds

-----------------------------------------------------------------------------
(* The invariant says what it is for.                                      *)

LEMMA CarefulIdentity ==
  ASSUME TypeOK, CarefulInv
  PROVE  NoSharedIdentity
  <1> SUFFICES ASSUME NEW v \in VMs, NEW w \in VMs, v # w
               PROVE  ~Clash(cluster[v].host, cluster[w].host)
    BY DEF NoSharedIdentity
  <1> DEFINE s == cluster[v].svc
             o == cluster[w].svc
  <1>1. Declared(v) /\ Declared(w) /\ s \in Services /\ o \in Services
    BY DEF CarefulInv, VMsDeclared, VMs, TypeOK, FilesOK, VM
  <1>2. CASE s = o
    BY <1>1, <1>2 DEF Declared, Resolves
  <1>3. CASE s # o
    <2>1. Holds(s, o) /\ Holds(o, s)
      BY DEF Holds, VMsOf
    <2>2. ~Conflict(manifest[s], manifest[o])
      BY <1>1, <1>3, <2>1 DEF CarefulInv, Apart, Separate
    <2> QED BY <1>1, <2>2 DEF Declared, Conflict
  <1> QED BY <1>2, <1>3

-----------------------------------------------------------------------------
(* Steps after which no service has more VMs and no command has read more. *)

Fewer == \A v \in VmIds : cluster'[v] # None =>
  /\ cluster[v] # None
  /\ cluster'[v].svc = cluster[v].svc
  /\ cluster'[v].key = cluster[v].key
  /\ cluster'[v].host = cluster[v].host

NoneReads == \A q \in Procs : pc'[q] \notin {"idle"} \cup Ended =>
  Running(q) /\ job'[q] = job[q] /\ unread'[q] = unread[q]

LEMMA EbbDeclared ==
  ASSUME VMsDeclared, Fewer, manifest' = manifest
  PROVE  VMsDeclared'
  <1> SUFFICES ASSUME NEW v \in VMs' PROVE Declared(v)'
    BY DEF VMsDeclared
  <1>1. v \in VMs /\ v \in VmIds
    BY DEF VMs, Fewer
  <1> QED BY <1>1 DEF VMsDeclared, Declared, Fewer, VMs

LEMMA EbbHolds ==
  ASSUME Fewer, NoneReads, NEW s, NEW o, Holds(s, o)'
  PROVE  Holds(s, o)
  <1>1. CASE VMsOf(s)' # {}
    BY <1>1 DEF VMsOf, VMs, Fewer, Holds
  <1>2. CASE \E p \in Procs : RunningOn(p, s)' /\ o \notin unread'[p]
    BY <1>2 DEF RunningOn, Running, NoneReads, Holds
  <1> QED BY <1>1, <1>2 DEF Holds

LEMMA EbbApart ==
  ASSUME Apart, Fewer, NoneReads, manifest' = manifest
  PROVE  Apart'
  <1> SUFFICES ASSUME NEW s \in Services, NEW o \in Services, s # o PROVE Separate(s, o)'
    BY DEF Apart
  <1> QED BY EbbHolds DEF Apart, Separate

-----------------------------------------------------------------------------
(* Copies of the manifest in flight.                                       *)

LEMMA OthersCurrent ==
  ASSUME NEW q, Current(q), manifest' = manifest,
         pc'[q] = pc[q], job'[q] = job[q], unread'[q] = unread[q], plan'[q] = plan[q],
         Running(q) => tfvars'[Svc(q)] \in {tfvars[Svc(q)], manifest[Svc(q)]}
  PROVE  Current(q)'
  BY DEF Current, Running, Svc

LEMMA WorldCurrent ==
  ASSUME TypeOK, CopiesCurrent, Careful, World
  PROVE  CopiesCurrent'
  <1> SUFFICES ASSUME NEW q \in Procs PROVE Current(q)'
    BY DEF CopiesCurrent
  <1>1. Current(q)
    BY DEF CopiesCurrent
  <1>2. UNCHANGED <<tfvars, pc, job, unread, plan>>
    BY DEF World, Edit, NewLease, Calm, files, local
  <1>3. Running(q) => manifest'[Svc(q)] = manifest[Svc(q)]
    <2>1. ASSUME NEW s \in Services, Edit(s), Running(q) PROVE Svc(q) # s
      BY <2>1 DEF Edit, RunningOn, Svc
    <2>2. Running(q) => Svc(q) \in Services
      BY DEF TypeOK, ProcOK, Running, Svc, Jobs
    <2> QED BY <2>1, <2>2 DEF World, Edit, NewLease, Calm, files, TypeOK, FilesOK
  <1> QED BY <1>1, <1>2, <1>3 DEF Current, Running, Svc

LEMMA BeginCurrent ==
  ASSUME TypeOK, CopiesCurrent, NEW p \in Procs, NEW cmd, NEW s, NEW only,
         Begin(p, cmd, s, only)
  PROVE  CopiesCurrent'
  <1>1. Current(p)'
    BY DEF Begin, Goto, Current, Running, Ended, Svc, TypeOK, ProcsTyped, files
  <1>2. ASSUME NEW q \in Procs, q # p PROVE Current(q)'
    BY <1>2, OthersCurrent DEF CopiesCurrent, Begin, Goto, TypeOK, ProcsTyped, files
  <1> QED BY <1>1, <1>2 DEF CopiesCurrent

\* A step of one process leaves the place, the command line and the loaded
\* manifest of every other process alone.
LEMMA StepLeavesOthers ==
  ASSUME ProcsTyped, NEW p \in Procs, NEW q \in Procs, q # p, Step(p)
  PROVE  /\ pc'[q] = pc[q] /\ job'[q] = job[q]
         /\ unread'[q] = unread[q] /\ plan'[q] = plan[q]
  <1> DEFINE Fns == /\ pc \in [Procs -> Places]
                    /\ job \in [Procs -> Jobs \cup {None}]
                    /\ unread \in [Procs -> SUBSET Services]
                    /\ plan \in [Procs -> AllDrafts \cup {Empty, None}]
             Kept == /\ pc'[q] = pc[q] /\ job'[q] = job[q]
                     /\ unread'[q] = unread[q] /\ plan'[q] = plan[q]
  <1>1. Fns
    BY DEF ProcsTyped
  <1>2. ASSUME NEW o \in Services, ReadSibling(p, o) PROVE Kept
    BY <1>1, <1>2 DEF ReadSibling, Goto, Ended, Forget, local
  <1>3. CASE List(p) \/ Prepare(p) \/ TfPlan(p) \/ TfStart(p)
    BY <1>1, <1>3 DEF List, Prepare, TfPlan, TfStart, Goto, Ended, Forget, local
  <1>4. ASSUME NEW k \in Keys,
               TfDestroy(p, k) \/ TfCreate(p, k) \/ TfUpdate(p, k) \/ TfFail(p, k)
        PROVE  Kept
    BY <1>4 DEF TfDestroy, TfCreate, TfUpdate, TfFail, local
  <1>5. CASE TfFinish(p) \/ Unlink(p)
    BY <1>1, <1>5 DEF TfFinish, Unlink, Goto, Ended, Forget, local
  <1>6. CASE ReadOutputs(p)
    BY <1>1, <1>6 DEF ReadOutputs, Goto, Ended, Forget, local
  <1>7. ASSUME NEW k \in Keys, Connect(p, k) \/ PlayHost(p, k) \/ PlayFail(p, k)
        PROVE  Kept
    BY <1>7 DEF Connect, PlayHost, PlayFail, local
  <1>8. CASE WaitTimeout(p) \/ WriteInventory(p) \/ StartPlay(p)
    BY <1>1, <1>8 DEF WaitTimeout, WriteInventory, StartPlay, Goto, Ended, Forget, local
  <1>9. CASE PlayFinish(p) \/ Return(p)
    BY <1>1, <1>9 DEF PlayFinish, Return, Goto, Ended, Forget, local
  <1> QED BY <1>2, <1>3, <1>4, <1>5, <1>6, <1>7, <1>8, <1>9 DEF Step

LEMMA StepCurrent ==
  ASSUME TypeOK, CopiesCurrent, NEW p \in Procs, Step(p)
  PROVE  CopiesCurrent'
  <1>0. ASSUME NEW q \in Procs, q # p
        PROVE  pc'[q] = pc[q] /\ job'[q] = job[q] /\ unread'[q] = unread[q] /\ plan'[q] = plan[q]
    <2>1. ProcsTyped
      BY DEF TypeOK
    <2> QED BY <1>0, <2>1, StepLeavesOthers
  <1> USE DEF TypeOK, ProcsTyped, Goto, Ended
  <1>1. Current(p)
    BY DEF CopiesCurrent
  <1>2. manifest' = manifest
    BY DEF Step, files, List, ReadSibling, Prepare, TfPlan, TfStart, TfDestroy, TfCreate, TfUpdate,
           TfFail, TfFinish, Unlink, ReadOutputs, Connect, WaitTimeout, WriteInventory,
           StartPlay, PlayHost, PlayFail, PlayFinish, Return
  <1>3. tfvars' = tfvars \/ tfvars' = [tfvars EXCEPT ![Svc(p)] = manifest[Svc(p)]]
    BY <1>1 DEF Step, files, List, ReadSibling, Prepare, TfPlan, TfStart, TfDestroy, TfCreate,
           TfUpdate, TfFail, TfFinish, Unlink, ReadOutputs, Connect, WaitTimeout,
           WriteInventory, StartPlay, PlayHost, PlayFail, PlayFinish, Return, Current,
           Running, Loaded
  <1>4. ASSUME NEW q \in Procs, q # p PROVE Current(q)'
    <2>1. pc'[q] = pc[q] /\ job'[q] = job[q] /\ unread'[q] = unread[q] /\ plan'[q] = plan[q]
      BY <1>0, <1>4
    <2>2. Running(q) => Svc(q) \in Services
      BY DEF ProcOK, Running, Svc, Jobs
    <2>3. Running(q) => tfvars'[Svc(q)] \in {tfvars[Svc(q)], manifest[Svc(q)]}
      BY <1>3, <2>2 DEF FilesOK
    <2> QED BY <1>2, <2>1, <2>3, OthersCurrent DEF CopiesCurrent
  <1>5. Current(p)'
    <2>1. ASSUME NEW o \in Services, ReadSibling(p, o) PROVE Current(p)'
      BY <1>1, <2>1 DEF ReadSibling, Current, Running, Svc, files
    <2>2. CASE Prepare(p)
      <3>1. Svc(p) \in Services
        BY <2>2 DEF Prepare, Loaded, ProcOK, Svc, Jobs
      <3> QED BY <1>1, <2>2, <3>1 DEF Prepare, Loaded, Current, Running, Svc, FilesOK, local
    <2>3. CASE List(p) \/ TfPlan(p)
      BY <1>1, <2>3 DEF List, TfPlan, Current, Running, Svc, files
    <2>4. CASE TfStart(p)
      BY <1>1, <2>4 DEF TfStart, Current, Running, Svc, files
    <2>5. ASSUME NEW k \in Keys,
                 TfDestroy(p, k) \/ TfCreate(p, k) \/ TfUpdate(p, k) \/ TfFail(p, k)
          PROVE  Current(p)'
      BY <1>1, <1>2, <2>5 DEF TfDestroy, TfCreate, TfUpdate, TfFail, Current, Running, Svc,
                              files, local
    <2>6. CASE TfFinish(p)
      BY <1>1, <2>6 DEF TfFinish, Current, Running, Svc
    <2>7. CASE Unlink(p)
      BY <2>7 DEF Unlink, Current, Running
    <2>8. CASE ReadOutputs(p)
      BY <1>1, <2>8 DEF ReadOutputs, Loaded, Current, Running, Svc, files
    <2>9. ASSUME NEW k \in Keys, Connect(p, k) \/ PlayHost(p, k) \/ PlayFail(p, k)
          PROVE  Current(p)'
      BY <1>1, <1>2, <2>9 DEF Connect, PlayHost, PlayFail, Current, Running, Svc, files
    <2>10. CASE WaitTimeout(p) \/ PlayFinish(p) \/ Return(p)
      BY <2>10 DEF WaitTimeout, PlayFinish, Return, Current, Running
    <2>11. CASE WriteInventory(p)
      BY <1>1, <2>11 DEF WriteInventory, Current, Running, Svc, local
    <2>12. CASE StartPlay(p)
      BY <1>1, <2>12 DEF StartPlay, Current, Running, Svc, files
    <2> QED BY <2>1, <2>2, <2>3, <2>4, <2>5, <2>6, <2>7, <2>8, <2>9, <2>10, <2>11, <2>12
            DEF Step
  <1> QED BY <1>4, <1>5 DEF CopiesCurrent

LEMMA AbortCurrent ==
  ASSUME TypeOK, CopiesCurrent, NEW p \in Procs, Abort(p)
  PROVE  CopiesCurrent'
  <1>1. Current(p)'
    BY DEF Abort, Goto, Ended, Current, Running, TypeOK, ProcsTyped
  <1>2. ASSUME NEW q \in Procs, q # p PROVE Current(q)'
    BY <1>2, OthersCurrent DEF CopiesCurrent, Abort, Goto, Forget, TypeOK, ProcsTyped, files
  <1> QED BY <1>1, <1>2 DEF CopiesCurrent

LEMMA OrphanCurrent ==
  ASSUME TypeOK, CopiesCurrent, NEW p \in Procs, NEW k \in Keys, Orphan(p, k)
  PROVE  CopiesCurrent'
  <1>1. Current(p)'
    BY DEF Orphan, Goto, Ended, Current, Running, TypeOK, ProcsTyped
  <1>2. ASSUME NEW q \in Procs, q # p PROVE Current(q)'
    BY <1>2, OthersCurrent DEF CopiesCurrent, Orphan, Goto, Forget, TypeOK, ProcsTyped, files
  <1> QED BY <1>1, <1>2 DEF CopiesCurrent

-----------------------------------------------------------------------------
(* The VMs and the services that hold them, action by action.              *)

LEMMA EditApart ==
  ASSUME TypeOK, CarefulInv, Careful, NEW s \in Services, Edit(s)
  PROVE  VMsDeclared' /\ Apart'
  <1>1. VMsOf(s) = {} /\ (\A p \in Procs : ~RunningOn(p, s))
    BY DEF Edit
  <1>2. UNCHANGED <<cluster, pc, job, unread>>
    BY DEF Edit, local
  <1>3. \A o \in Services : o # s => manifest'[o] = manifest[o]
    BY DEF Edit, TypeOK, FilesOK
  <1>4. VMsDeclared'
    <2> SUFFICES ASSUME NEW v \in VMs' PROVE Declared(v)'
      BY DEF VMsDeclared
    <2>1. v \in VMs /\ cluster[v].svc \in Services /\ Declared(v)
      BY <1>2 DEF VMs, CarefulInv, VMsDeclared, TypeOK, FilesOK, VM
    <2>2. cluster[v].svc # s
      BY <1>1, <2>1 DEF VMsOf
    <2> QED BY <1>2, <1>3, <2>1, <2>2 DEF Declared
  <1>5. ASSUME NEW o, NEW a \in Services PROVE Holds(a, o)' => Holds(a, o) /\ a # s
    BY <1>1, <1>2 DEF Holds, VMsOf, VMs, RunningOn, Running
  <1>6. ASSUME NEW a \in Services, NEW o \in Services, a # o PROVE Separate(a, o)'
    BY <1>3, <1>5, <1>6 DEF Separate, CarefulInv, Apart
  <1> QED BY <1>4, <1>6 DEF Apart

LEMMA BeginApart ==
  ASSUME TypeOK, CarefulInv, NEW p \in Procs, NEW cmd \in Commands, NEW s \in Services,
         NEW only \in Keys \cup {None}, Begin(p, cmd, s, only)
  PROVE  VMsDeclared' /\ Apart'
  <1>1. UNCHANGED <<manifest, cluster>>
    BY DEF Begin, files
  <1>2. VMsDeclared'
    BY <1>1, EbbDeclared DEF Fewer, CarefulInv
  <1>3. ASSUME NEW a \in Services, NEW o \in Services, a # o, Holds(a, o)'
        PROVE  Holds(a, o)
    <2>1. CASE VMsOf(a)' # {}
      BY <1>1, <2>1 DEF Holds, VMsOf, VMs
    <2>2. ASSUME NEW q \in Procs, RunningOn(q, a)', o \notin unread'[q]
          PROVE  Holds(a, o)
      <3>1. q # p
        BY <1>3, <2>2 DEF Begin, Goto, RunningOn, Running, Ended, TypeOK, ProcsTyped
      <3> QED BY <2>2, <3>1 DEF Begin, Goto, RunningOn, Running, TypeOK, ProcsTyped, Holds
    <2> QED BY <1>3, <2>1, <2>2 DEF Holds
  <1>4. ASSUME NEW a \in Services, NEW o \in Services, a # o PROVE Separate(a, o)'
    BY <1>1, <1>3, <1>4 DEF Separate, CarefulInv, Apart
  <1> QED BY <1>2, <1>4 DEF Apart

LEMMA ListApart ==
  ASSUME TypeOK, CarefulInv, NEW p \in Procs, List(p)
  PROVE  VMsDeclared' /\ Apart'
  <1>1. UNCHANGED <<manifest, cluster, job>>
    BY DEF List, files
  <1>2. VMsDeclared'
    BY <1>1, EbbDeclared DEF Fewer, CarefulInv
  <1>3. ASSUME NEW a \in Services, NEW o \in Services, Holds(a, o)'
        PROVE  Holds(a, o) \/ (a = Svc(p) /\ manifest[o] = None /\ manifest[a] # None)
    <2>1. CASE VMsOf(a)' # {}
      BY <1>1, <2>1 DEF Holds, VMsOf, VMs
    <2>2. ASSUME NEW q \in Procs, RunningOn(q, a)', o \notin unread'[q]
          PROVE  Holds(a, o) \/ (a = Svc(p) /\ manifest[o] = None /\ manifest[a] # None)
      <3>1. CASE q = p
        <4>1. RunningOn(p, a) /\ (o \in unread[p] => manifest[o] = None)
          BY <1>1, <2>2, <3>1 DEF List, Goto, RunningOn, Running, Ended, Svc, TypeOK, ProcsTyped
        <4>2. a = Svc(p) /\ manifest[a] # None
          BY <4>1 DEF RunningOn, TypeOK, ProcOK, CarefulInv, CopiesCurrent, Current, Svc
        <4> QED BY <4>1, <4>2 DEF Holds
      <3>2. CASE q # p
        BY <1>1, <2>2, <3>2 DEF List, Goto, RunningOn, Running, TypeOK, ProcsTyped, Holds
      <3> QED BY <3>1, <3>2
    <2> QED BY <1>3, <2>1, <2>2 DEF Holds
  <1>4. ASSUME NEW a \in Services, NEW o \in Services, a # o PROVE Separate(a, o)'
    <2> SUFFICES ASSUME Holds(a, o)', Holds(o, a)' PROVE ~Conflict(manifest[a], manifest[o])
      BY <1>1 DEF Separate
    <2>1. Holds(a, o) \/ (a = Svc(p) /\ manifest[o] = None)
      BY <1>3
    <2>2. Holds(o, a) \/ (o = Svc(p) /\ manifest[a] = None)
      BY <1>3
    <2>3. CASE Holds(a, o) /\ Holds(o, a)
      BY <1>4, <2>3 DEF CarefulInv, Apart, Separate
    <2>4. CASE ~(Holds(a, o) /\ Holds(o, a))
      <3>1. Holds(a, o) => manifest[a] # None
        BY HolderResolves DEF CarefulInv
      <3>2. Holds(o, a) => manifest[o] # None
        BY HolderResolves DEF CarefulInv
      <3> QED BY <1>4, <2>1, <2>2, <2>4, <3>1, <3>2
    <2> QED BY <2>3, <2>4
  <1> QED BY <1>2, <1>4 DEF Apart

LEMMA ReadSiblingApart ==
  ASSUME TypeOK, CarefulInv, NEW p \in Procs, NEW r \in Services, ReadSibling(p, r)
  PROVE  VMsDeclared' /\ Apart'
  <1>1. UNCHANGED <<manifest, cluster, job>>
    BY DEF ReadSibling, files
  <1>2. VMsDeclared'
    BY <1>1, EbbDeclared DEF Fewer, CarefulInv
  <1>3. Running(p) /\ job[p].man = manifest[Svc(p)]
    BY DEF ReadSibling, Running, Ended, CarefulInv, CopiesCurrent, Current
  <1>4. ASSUME NEW a \in Services, NEW o \in Services, Holds(a, o)', ~Holds(a, o)
        PROVE  /\ a = Svc(p) /\ o = r
               /\ \/ manifest[r] = None
                  \/ ~Resolves(manifest[r])
                  \/ ~Conflict(job[p].man, manifest[r])
    <2>1. PICK q \in Procs : RunningOn(q, a)' /\ o \notin unread'[q]
      BY <1>1, <1>4 DEF Holds, VMsOf, VMs
    <2>2. q = p
      BY <1>1, <1>4, <2>1 DEF ReadSibling, Goto, RunningOn, Running, Holds, TypeOK, ProcsTyped
    <2> QED BY <1>1, <1>3, <1>4, <2>1, <2>2
            DEF ReadSibling, Goto, RunningOn, Running, Ended, Holds, Svc, TypeOK, ProcsTyped
  <1>5. ASSUME NEW a \in Services, NEW o \in Services, a # o, Holds(a, o)', ~Holds(a, o),
               Holds(o, a)'
        PROVE  ~Conflict(manifest[a], manifest[o])
    <2>1. a = Svc(p) /\ o = r
      BY <1>4, <1>5
    <2>2. Holds(o, a)
      BY <1>4, <1>5, <2>1
    <2>3. manifest[o] # None /\ Resolves(manifest[o])
      BY <2>2, HolderResolves DEF CarefulInv
    <2> QED BY <1>3, <1>4, <1>5, <2>1, <2>3
  <1>6. ASSUME NEW a \in Services, NEW o \in Services, a # o PROVE Separate(a, o)'
    <2> SUFFICES ASSUME Holds(a, o)', Holds(o, a)' PROVE ~Conflict(manifest[a], manifest[o])
      BY <1>1 DEF Separate
    <2>1. CASE Holds(a, o) /\ Holds(o, a)
      BY <1>6, <2>1 DEF CarefulInv, Apart, Separate
    <2>2. CASE ~Holds(a, o)
      BY <1>5, <1>6, <2>2
    <2>3. CASE ~Holds(o, a)
      <3>1. ~Conflict(manifest[o], manifest[a])
        BY <1>5, <1>6, <2>3
      <3> QED BY <3>1, ConflictSymmetric
    <2> QED BY <2>1, <2>2, <2>3
  <1> QED BY <1>2, <1>6 DEF Apart

\* What TfCreate and Orphan do to the cluster, at a vm_id that is free.
NewFor(p, k) ==
  /\ pc[p] = "applying" /\ k \in Missing(p) /\ cluster[plan[p][k].vm_id] = None
  /\ \E ip \in BootAddresses(plan[p][k]) :
       cluster' = [cluster EXCEPT ![plan[p][k].vm_id] = NewVM(Svc(p), k, plan[p][k], ip)]

LEMMA NewForPlan ==
  ASSUME TypeOK, CopiesCurrent, NEW p \in Procs, NEW k \in Keys, NewFor(p, k)
  PROVE  /\ Running(p) /\ unread[p] = {} /\ Svc(p) \in Services
         /\ plan[p] = manifest[Svc(p)] /\ k \in DOMAIN plan[p]
         /\ manifest[Svc(p)] # None /\ Resolves(manifest[Svc(p)])
         /\ plan[p][k] \in Host /\ plan[p][k].vm_id \in VmIds
  <1>1. Running(p) /\ Svc(p) \in Services /\ IsPartial(plan[p], Host)
    BY ApplyingPlan DEF NewFor, Running, Ended
  <1>2. k \in DOMAIN plan[p] /\ plan[p] # Empty
    BY DEF NewFor, Missing, Empty
  <1>3. unread[p] = {} /\ plan[p] = manifest[Svc(p)] /\ job[p].man = manifest[Svc(p)]
    BY <1>1, <1>2 DEF NewFor, CopiesCurrent, Current
  <1>4. job[p].man # None /\ Resolves(job[p].man)
    BY <1>1 DEF TypeOK, ProcOK
  <1>5. plan[p][k] \in Host
    BY <1>1, <1>2 DEF IsPartial
  <1> QED BY <1>1, <1>2, <1>3, <1>4, <1>5 DEF Host

LEMMA NewForApart ==
  ASSUME TypeOK, CarefulInv, NEW p \in Procs, NEW k \in Keys, NewFor(p, k), NoneReads,
         manifest' = manifest
  PROVE  VMsDeclared' /\ Apart'
  <1> DEFINE s == Svc(p)
             h == plan[p][k]
  <1>1. /\ Running(p) /\ unread[p] = {} /\ s \in Services /\ plan[p] = manifest[s]
        /\ k \in DOMAIN manifest[s] /\ manifest[s] # None /\ Resolves(manifest[s])
        /\ h \in Host /\ h.vm_id \in VmIds
    BY NewForPlan DEF CarefulInv
  <1>2. PICK ip \in BootAddresses(h) : cluster' = [cluster EXCEPT ![h.vm_id] = NewVM(s, k, h, ip)]
    BY DEF NewFor
  <1>3. cluster'[h.vm_id] = NewVM(s, k, h, ip)
    BY <1>1, <1>2 DEF TypeOK, FilesOK
  <1>4. \A v \in VmIds : v # h.vm_id => cluster'[v] = cluster[v]
    BY <1>2 DEF TypeOK, FilesOK
  <1>5. ASSUME NEW v \in VMs' PROVE Declared(v)'
    <2>1. CASE v = h.vm_id
      <3>1. /\ cluster'[v].svc = s /\ cluster'[v].key = k /\ cluster'[v].host = h
            /\ manifest'[s] = manifest[s]
        BY <1>3, <2>1 DEF NewVM
      <3>2. h = manifest[s][k]
        BY <1>1
      <3> HIDE DEF h, s
      <3> QED BY <1>1, <2>1, <3>1, <3>2 DEF Declared
    <2>2. CASE v # h.vm_id
      <3>1. v \in VMs /\ cluster'[v] = cluster[v]
        BY <1>4, <2>2 DEF VMs
      <3> QED BY <3>1 DEF CarefulInv, VMsDeclared, Declared
    <2> QED BY <2>1, <2>2
  <1>6. ASSUME NEW a \in Services, NEW o \in Services, Holds(a, o)' PROVE Holds(a, o)
    <2>1. ASSUME NEW v \in VmIds, v \in VMsOf(a)' PROVE Holds(a, o)
      <3>1. CASE v = h.vm_id
        <4>1. a = s
          BY <1>3, <2>1, <3>1 DEF VMsOf, NewVM
        <4> QED BY <1>1, <4>1 DEF Holds, RunningOn, Svc
      <3>2. CASE v # h.vm_id
        BY <1>4, <2>1, <3>2 DEF Holds, VMsOf, VMs
      <3> QED BY <3>1, <3>2
    <2>2. ASSUME NEW q \in Procs, RunningOn(q, a)', o \notin unread'[q] PROVE Holds(a, o)
      BY <2>2 DEF RunningOn, Running, NoneReads, Holds
    <2> QED BY <1>6, <2>1, <2>2 DEF Holds, VMsOf, VMs
  <1>7. ASSUME NEW a \in Services, NEW o \in Services, a # o PROVE Separate(a, o)'
    BY <1>6, <1>7 DEF Separate, CarefulInv, Apart
  <1> QED BY <1>5, <1>7 DEF VMsDeclared, Apart

\* A recorded host already is what the manifest says: nothing to update.
LEMMA NoUpdate ==
  ASSUME TypeOK, RecordedExists, CarefulInv, NEW p \in Procs, NEW k \in Keys
  PROVE  ~TfUpdate(p, k)
  <1> SUFFICES ASSUME TfUpdate(p, k) PROVE FALSE
    OBVIOUS
  <1> DEFINE s == Svc(p)
             v == tfstate[s][k].vm_id
  <1>1. /\ s \in Services /\ k \in DOMAIN plan[p] /\ k \in DOMAIN Resources(s)
        /\ tfstate[s] = Resources(s) /\ plan[p][k] # tfstate[s][k]
    BY ApplyingPlan DEF TfUpdate, Drifted, Replaces, Resources, Empty
  <1>2. plan[p] = manifest[s]
    BY <1>1 DEF TfUpdate, CarefulInv, CopiesCurrent, Current, Running, Ended, Empty
  <1>3. v \in VmIds
    BY <1>1, ResourcesPartial DEF TypeOK, IsPartial, Host
  <1>4. v \in VMs /\ cluster[v].svc = s /\ cluster[v].key = k /\ cluster[v].host = tfstate[s][k]
    BY <1>1, <1>3 DEF RecordedExists, Stands, VMs
  <1>5. Declared(v)
    BY <1>4 DEF CarefulInv, VMsDeclared
  <1> QED BY <1>1, <1>2, <1>4, <1>5 DEF Declared

\* Every other step of a command leaves VMs and readers as they are, or fewer.
LEMMA StepEbbs ==
  ASSUME TypeOK, NEW p \in Procs, Step(p)
  PROVE  \/ Fewer /\ NoneReads /\ manifest' = manifest
         \/ List(p)
         \/ \E o \in Services : ReadSibling(p, o)
         \/ \E k \in Keys : TfUpdate(p, k)
         \/ \E k \in Keys : TfCreate(p, k)
  <1> USE DEF TypeOK, ProcsTyped, Goto, Ended
  <1>1. CASE Prepare(p) \/ TfPlan(p) \/ TfStart(p) \/ Unlink(p) \/ ReadOutputs(p)
    BY <1>1 DEF Prepare, TfPlan, TfStart, Unlink, ReadOutputs, Loaded, Fewer, NoneReads,
                Running, files, local
  <1>2. CASE TfFinish(p) \/ WriteInventory(p) \/ StartPlay(p)
    BY <1>2 DEF TfFinish, WriteInventory, StartPlay, Fewer, NoneReads, Running, files, local
  <1>3. CASE WaitTimeout(p) \/ PlayFinish(p) \/ Return(p)
    BY <1>3 DEF WaitTimeout, PlayFinish, Return, Fewer, NoneReads, Running, Forget, files
  <1>4. ASSUME NEW k \in Keys, TfFail(p, k) \/ Connect(p, k) \/ PlayFail(p, k)
        PROVE  Fewer /\ NoneReads /\ manifest' = manifest
    BY <1>4 DEF TfFail, Connect, PlayFail, Fewer, NoneReads, Running, files
  <1>5. ASSUME NEW k \in Keys, TfDestroy(p, k)
        PROVE  Fewer /\ NoneReads /\ manifest' = manifest
    BY <1>5 DEF TfDestroy, Fewer, NoneReads, Running, local, FilesOK
  <1>6. ASSUME NEW k \in Keys, PlayHost(p, k)
        PROVE  Fewer /\ NoneReads /\ manifest' = manifest
    <2>1. PICK v \in VMs : cluster' = [cluster EXCEPT ![v].conf =
                                       [key |-> k, host |-> playing[p][k].host]]
      BY <1>6 DEF PlayHost, Reachable, VMsOf
    <2>2. Fewer
      BY <2>1 DEF Fewer, FilesOK, VMs, VM
    <2> QED BY <1>6, <2>2 DEF PlayHost, NoneReads, Running, files
  <1> QED BY <1>1, <1>2, <1>3, <1>4, <1>5, <1>6 DEF Step

-----------------------------------------------------------------------------
(* Induction.                                                              *)

Safe == Inv /\ CarefulInv

LEMMA CarefulInit == Init => CarefulInv
  BY DEF Init, CarefulInv, VMsDeclared, VMs, CopiesCurrent, Current, Running, Apart, Separate,
         Holds, VMsOf, RunningOn

LEMMA CarefulStep ==
  ASSUME Careful, Safe, [Next]_vars
  PROVE  CarefulInv'
  <1> USE DEF Safe, Inv
  <1>1. CopiesCurrent /\ VMsDeclared /\ Apart
    BY DEF CarefulInv
  <1>2. CASE World
    <2>1. CopiesCurrent'
      BY <1>1, <1>2, WorldCurrent
    <2>2. ASSUME NEW v \in VmIds, NewLease(v) PROVE Fewer /\ NoneReads /\ manifest' = manifest
      BY <2>2 DEF NewLease, Fewer, NoneReads, Running, files, local, TypeOK, FilesOK, VM
    <2>3. ASSUME Calm PROVE Fewer /\ NoneReads /\ manifest' = manifest
      BY <2>3 DEF Calm, Fewer, NoneReads, Running, files, local
    <2> QED BY <1>1, <1>2, <2>1, <2>2, <2>3, EditApart, EbbDeclared, EbbApart
            DEF World, CarefulInv
  <1>3. ASSUME NEW p \in Procs, Call(p) PROVE CarefulInv'
    BY <1>1, <1>3, BeginCurrent, BeginApart DEF Call, CarefulInv
  <1>4. ASSUME NEW p \in Procs, Step(p) PROVE CarefulInv'
    <2>1. CopiesCurrent'
      BY <1>1, <1>4, StepCurrent
    <2>2. VMsDeclared' /\ Apart'
      <3>1. ASSUME NEW k \in Keys, TfCreate(p, k) PROVE VMsDeclared' /\ Apart'
        <4>1. NewFor(p, k) /\ NoneReads /\ manifest' = manifest
          BY <3>1 DEF TfCreate, NewFor, NoneReads, Running, local
        <4> QED BY <4>1, NewForApart
      <3>2. ASSUME Fewer, NoneReads, manifest' = manifest PROVE VMsDeclared' /\ Apart'
        BY <1>1, <3>2, EbbDeclared, EbbApart
      <3> QED BY <1>4, <3>1, <3>2, StepEbbs, ListApart, ReadSiblingApart, NoUpdate
    <2> QED BY <2>1, <2>2 DEF CarefulInv
  <1>5. ASSUME NEW p \in Procs, Abort(p) PROVE CarefulInv'
    <2>1. Fewer /\ NoneReads /\ manifest' = manifest
      BY <1>5 DEF Abort, Fewer, NoneReads, Running, Goto, Forget, Ended, TypeOK, ProcsTyped
    <2> QED BY <1>1, <1>5, <2>1, EbbDeclared, EbbApart, AbortCurrent DEF CarefulInv
  <1>6. ASSUME NEW p \in Procs, NEW k \in Keys, Orphan(p, k) PROVE CarefulInv'
    <2>1. NewFor(p, k) /\ manifest' = manifest
      BY <1>6 DEF Orphan, NewFor, files
    <2>2. NoneReads
      BY <1>6 DEF Orphan, NoneReads, Running, Goto, Forget, Ended, TypeOK, ProcsTyped
    <2> QED BY <1>1, <1>6, <2>1, <2>2, NewForApart, OrphanCurrent DEF CarefulInv
  <1>7. CASE UNCHANGED vars
    <2>1. Fewer /\ NoneReads /\ manifest' = manifest
      BY <1>7 DEF vars, files, local, Fewer, NoneReads, Running
    <2>2. CopiesCurrent'
      BY <1>1, <1>7 DEF vars, files, local, CopiesCurrent, Current, Running, Svc
    <2> QED BY <1>1, <2>1, <2>2, EbbDeclared, EbbApart DEF CarefulInv
  <1> QED BY <1>2, <1>3, <1>4, <1>5, <1>6, <1>7 DEF Next

LEMMA SafeInvariant == ASSUME Careful PROVE Spec => []Safe
  <1>1. Init => Safe
    BY InitType, InitRecord, CarefulInit DEF Safe, Inv
  <1>2. Safe /\ [Next]_vars => Safe'
    BY TypeStep, RecordStep, CarefulStep DEF Safe, Inv
  <1> QED BY <1>1, <1>2, PTL DEF Spec

\* For an operator who edits no manifest in use: each VM is the host its
\* service's manifest declares, every copy of a manifest that a command goes
\* by is the manifest as it is, and of two services that both passed
\* load_service's check neither claims what the other has.
THEOREM CarefulInvariant == ASSUME Careful PROVE Spec => []CarefulInv
  <1>1. Safe => CarefulInv
    BY DEF Safe, Inv
  <1> QED BY <1>1, SafeInvariant, PTL

\* For an operator who edits no manifest in use, no two VMs ever share a
\* vm_id, name, MAC, address or device, however many commands race, fail or
\* are killed between load_service's check and Terraform's last step.
THEOREM IdentitiesApart == ASSUME Careful PROVE Spec => []NoSharedIdentity
  <1>1. Safe => NoSharedIdentity
    BY CarefulIdentity DEF Safe, Inv
  <1> QED BY <1>1, SafeInvariant, PTL

-----------------------------------------------------------------------------
(* Refinement: every step claims one identity, releases one, or neither.   *)

LEMMA AlikeHosts ==
  ASSUME \A w \in VmIds : Alike(w)
  PROVE  UNCHANGED Hosts
  BY DEF Alike, Hosts

LEMMA DestroyReleases ==
  ASSUME TypeOK, RecordedExists, NEW p \in Procs, NEW k \in Keys, TfDestroy(p, k)
  PROVE  \E v \in VmIds : Identities!Release(v)
  <1> DEFINE s == Svc(p)
             v == tfstate[s][k].vm_id
  <1>1. s \in Services /\ k \in DOMAIN Resources(s) /\ tfstate[s] = Resources(s)
    BY ApplyingPlan DEF TfDestroy, Doomed, Replaces, Resources, Empty
  <1>2. v \in VmIds
    BY <1>1, ResourcesPartial DEF TypeOK, IsPartial, Host
  <1>3. cluster[v] # None /\ cluster[v].host \in Host
    BY <1>1, <1>2 DEF RecordedExists, Stands, TypeOK, FilesOK, VM
  <1>4. cluster' = [cluster EXCEPT ![v] = None]
    BY DEF TfDestroy
  <1>5. Hosts[v] # None
    BY <1>2, <1>3, NoneAssumption DEF Hosts
  <1>6. Hosts' = [Hosts EXCEPT ![v] = None]
    BY <1>2, <1>4 DEF Hosts, TypeOK, FilesOK
  <1> QED BY <1>2, <1>5, <1>6 DEF Identities!Release

LEMMA NewForClaims ==
  ASSUME TypeOK, CarefulInv, NoSharedIdentity', NEW p \in Procs, NEW k \in Keys, NewFor(p, k)
  PROVE  \E v \in VmIds : Identities!Claim(v)
  <1> DEFINE h == plan[p][k]
             v == h.vm_id
  <1>1. h \in Host /\ v \in VmIds /\ Svc(p) \in Services /\ cluster[v] = None
    BY NewForPlan DEF CarefulInv, NewFor
  <1>2. PICK ip \in BootAddresses(h) :
          cluster' = [cluster EXCEPT ![v] = NewVM(Svc(p), k, h, ip)]
    BY DEF NewFor
  <1>3. NewVM(Svc(p), k, h, ip) # None
    BY <1>1, NewVMTyped, NoneAssumption
  <1>4. cluster'[v] # None /\ cluster'[v].host = h
    BY <1>1, <1>2, <1>3 DEF TypeOK, FilesOK, NewVM
  <1>5. \A w \in VmIds : w # v => cluster'[w] = cluster[w]
    BY <1>2 DEF TypeOK, FilesOK
  <1>6. Hosts[v] = None /\ Hosts'[v] = h
    BY <1>1, <1>4 DEF Hosts
  <1>7. Hosts' = [Hosts EXCEPT ![v] = h]
    <2>1. \A w \in VmIds : Hosts'[w] = IF w = v THEN h ELSE Hosts[w]
      BY <1>5, <1>6 DEF Hosts
    <2> HIDE DEF h, v
    <2> QED BY <2>1 DEF Hosts
  <1>8. ASSUME NEW w \in VmIds, Hosts[w] # None PROVE ~Clash(h, Hosts[w])
    <2>1. w # v /\ cluster[w] # None /\ Hosts[w] = cluster[w].host
      BY <1>6, <1>8 DEF Hosts
    <2>2. v \in VMs' /\ w \in VMs' /\ cluster'[w] = cluster[w]
      BY <1>1, <1>4, <1>5, <2>1 DEF VMs
    <2> QED BY <1>4, <2>1, <2>2 DEF NoSharedIdentity
  <1>9. h.vm_id = v
    OBVIOUS
  <1> HIDE DEF h, v
  <1>10. h \in Identities!Host
    BY <1>1 DEF Host, Identities!Host
  <1>11. ASSUME NEW w \in VmIds, Hosts[w] # None PROVE ~Identities!Clash(h, Hosts[w])
    BY <1>8, <1>11 DEF Clash, Identities!Clash
  <1>12. Identities!Claim(v)
    BY <1>6, <1>7, <1>9, <1>10, <1>11 DEF Identities!Claim
  <1> QED BY <1>1, <1>12

LEMMA FleetStep ==
  ASSUME Careful, Safe, NoSharedIdentity', [Next]_vars
  PROVE  [Identities!Next]_Hosts
  <1> USE DEF Safe, Inv
  <1>1. ASSUME UNCHANGED cluster PROVE UNCHANGED Hosts
    BY <1>1 DEF Hosts
  <1>2. CASE World
    <2>1. ASSUME NEW v \in VmIds, NewLease(v) PROVE UNCHANGED Hosts
      BY <2>1, NewLeaseAlike, AlikeHosts
    <2> QED BY <1>1, <1>2, <2>1 DEF World, Edit, Calm
  <1>3. ASSUME NEW p \in Procs, Call(p) \/ Abort(p) PROVE UNCHANGED Hosts
    BY <1>1, <1>3 DEF Call, Begin, Abort
  <1>4. ASSUME NEW p \in Procs, Step(p) PROVE [Identities!Next]_Hosts
    <2>1. ASSUME NEW k \in Keys, TfDestroy(p, k) PROVE Identities!Next
      BY <2>1, DestroyReleases DEF Identities!Next
    <2>2. ASSUME NEW k \in Keys, TfCreate(p, k) PROVE Identities!Next
      <3>1. NewFor(p, k)
        BY <2>2 DEF TfCreate, NewFor
      <3> QED BY <3>1, NewForClaims DEF Identities!Next
    <2>3. ASSUME NEW k \in Keys, PlayHost(p, k) PROVE UNCHANGED Hosts
      BY <2>3, PlayHostAlike, AlikeHosts
    <2>4. \/ UNCHANGED cluster
          \/ \E k \in Keys : \/ TfDestroy(p, k) \/ TfCreate(p, k)
                             \/ TfUpdate(p, k) \/ PlayHost(p, k)
      BY <1>4 DEF Step, List, ReadSibling, Prepare, TfPlan, TfStart, TfFail, TfFinish, Unlink,
                  ReadOutputs, Connect, WaitTimeout, WriteInventory, StartPlay, PlayFail,
                  PlayFinish, Return
    <2> QED BY <1>1, <2>1, <2>2, <2>3, <2>4, NoUpdate
  <1>5. ASSUME NEW p \in Procs, NEW k \in Keys, Orphan(p, k) PROVE Identities!Next
    <2>1. NewFor(p, k)
      BY <1>5 DEF Orphan, NewFor
    <2> QED BY <2>1, NewForClaims DEF Identities!Next
  <1>6. CASE UNCHANGED vars
    BY <1>1, <1>6 DEF vars
  <1> QED BY <1>2, <1>3, <1>4, <1>5, <1>6 DEF Next

\* The four commands implement Fleet: whatever happens, the cluster changes
\* by one VM at a time, each with an identity that no other VM has.
THEOREM WorkflowImplementsFleet == ASSUME Careful PROVE Spec => ImplementsFleet
  <1>1. Init => Identities!Init
    BY DEF Init, Identities!Init, Hosts
  <1>2. Safe => NoSharedIdentity
    BY CarefulIdentity DEF Safe, Inv
  <1>3. Safe /\ NoSharedIdentity' /\ [Next]_vars => [Identities!Next]_Hosts
    BY FleetStep
  <1> QED BY <1>1, <1>2, <1>3, SafeInvariant, PTL DEF Spec, ImplementsFleet, Identities!Spec
=============================================================================
