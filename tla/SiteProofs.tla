----------------------------- MODULE SiteProofs -----------------------------
(***************************************************************************)
(* Theorems about the site commands, for any nodes, images, mappings,      *)
(* processes and drafts of site.yml, and any number of edits and faults.   *)
(* What repeated applies come to (SiteStays) is left to TLC.               *)
(***************************************************************************)
EXTENDS Site, TLAPS

\* A command goes by a site.yml it read.
Reading == \A p \in Procs : pc[p] # "idle" => read[p] \in Drafts

Typed == TypeOK /\ Reading

\* While an apply that met no other site.yml is at work, all applies go by
\* site.yml as it is, and it can only be handed what site.yml asks for.
Agreed ==
  \A p \in alone :
    /\ \A q \in Applies : read[q] = site
    /\ pc[p] \in {"lock", "apply"} => tfvars = Wanted(site)
    /\ pc[p] = "apply" => goal = Wanted(site)

\* While Terraform runs, what its state records is there as it says.
Refreshed ==
  lock # None => \A r \in Resources : state[r] # None => state[r] = real[r]

\* A configure has met what every other one at work reads as its own, and so
\* has what is in the inventory once its own is written.
Met ==
  /\ \A p, q \in Configures : Configurable(read[q]) \subseteq met[p]
  /\ \A p \in Procs :
       /\ pc[p] \in {"wait", "play"} => inventory \subseteq met[p]
       /\ pc[p] # "play" => touched[p] = {}
       /\ touched[p] \subseteq {n \in met[p] : only[p] \in {None, n}}

Inv == Typed /\ Agreed /\ Refreshed /\ Met

-----------------------------------------------------------------------------
LEMMA WantedType == \A f \in Drafts : Wanted(f) \in [Resources -> Arguments]
<1> SUFFICES ASSUME NEW f \in Drafts PROVE Wanted(f) \in [Resources -> Arguments]
  OBVIOUS
<1>1. Wanted(f) = [r \in Resources |-> Wanted(f)[r]]
  BY DEF Wanted
<1>2. \A r \in Resources : Wanted(f)[r] \in Arguments
  BY DEF Arguments
<1>q. QED
  BY <1>1, <1>2

LEMMA ConfigurableType == \A f \in Drafts : Configurable(f) \subseteq Nodes
  BY SiteAssumption DEF Configurable

LEMMA NoneType == None \in Arguments
  BY DEF Arguments

\* A new argument is one there was.
LEMMA AfterType ==
  ASSUME TypeOK, NEW r \in Resources
  PROVE  After(r) \in Arguments
  BY DEF TypeOK, After, Arguments

\* Types, the lock and the mode of every command.
LEMMA TypedStep ==
  ASSUME Typed, [Next]_vars
  PROVE  Typed'
<1>1. ASSUME Edit PROVE Typed'
  BY <1>1, SiteAssumption, WantedType, ConfigurableType, AfterType, NoneType
    DEF Edit, terraform, hosts, Typed, TypeOK, Reading, Applies, Configures
<1>2. ASSUME NEW r \in Resources, Lose(r) PROVE Typed'
  BY <1>2, SiteAssumption, WantedType, ConfigurableType, AfterType, NoneType
    DEF Lose, terraform, hosts, Typed, TypeOK, Reading, Applies, Configures
<1>3. ASSUME NEW m \in Mappings, RemoveOrphan(m) PROVE Typed'
  BY <1>3, SiteAssumption, WantedType, ConfigurableType, AfterType, NoneType
    DEF RemoveOrphan, terraform, hosts, Resources, Typed, TypeOK, Reading,
    Applies, Configures
<1>4. ASSUME NEW p \in Procs, BeginApply(p) PROVE Typed'
  BY <1>4, SiteAssumption, WantedType, ConfigurableType, AfterType, NoneType
    DEF BeginApply, terraform, hosts, Goto, Typed, TypeOK, Reading, Applies,
    Configures
<1>5. ASSUME NEW p \in Procs, WriteTfvars(p) PROVE Typed'
  BY <1>5, SiteAssumption, WantedType, ConfigurableType, AfterType, NoneType
    DEF WriteTfvars, terraform, hosts, Goto, Typed, TypeOK, Reading, Applies,
    Configures
<1>6. ASSUME NEW p \in Procs, Lock(p) PROVE Typed'
  BY <1>6, SiteAssumption, WantedType, ConfigurableType, AfterType, NoneType
    DEF Lock, terraform, hosts, Goto, Typed, TypeOK, Reading, Applies,
    Configures
<1>7. ASSUME NEW p \in Procs, Locked(p) PROVE Typed'
  BY <1>7, SiteAssumption, WantedType, ConfigurableType, AfterType, NoneType
    DEF Locked, terraform, hosts, Over, Nothing, Goto, Typed, TypeOK, Reading,
    Applies, Configures
<1>8. ASSUME NEW p \in Procs, ApplyEnds(p) PROVE Typed'
  BY <1>8, SiteAssumption, WantedType, ConfigurableType, AfterType, NoneType
    DEF ApplyEnds, terraform, hosts, Over, Nothing, Goto, Typed, TypeOK,
    Reading, Applies, Configures
<1>9. ASSUME NEW p \in Procs, NEW r \in Resources, Change(p, r) PROVE Typed'
  BY <1>9, SiteAssumption, WantedType, ConfigurableType, AfterType, NoneType
    DEF Change, terraform, hosts, Typed, TypeOK, Reading, Applies, Configures
<1>10. ASSUME NEW p \in Procs, ApplyFails(p) PROVE Typed'
  BY <1>10, SiteAssumption, WantedType, ConfigurableType, AfterType,
    NoneType DEF ApplyFails, terraform, hosts, Over, Nothing, Goto, Typed,
    TypeOK, Reading, Applies, Configures
<1>11. ASSUME NEW p \in Procs, NEW r \in Resources, CutShort(p, r) PROVE Typed'
  BY <1>11, SiteAssumption, WantedType, ConfigurableType, AfterType,
    NoneType DEF CutShort, terraform, hosts, Over, Nothing, Goto, Typed,
    TypeOK, Reading, Applies, Configures
<1>12. ASSUME NEW p \in Procs, NEW n \in Nodes \cup {None}, BeginConfigure(p, n) PROVE Typed'
  <2>1. /\ pc' = [pc EXCEPT ![p] = "inventory"] /\ read' = [read EXCEPT ![p] = site]
        /\ only' = [only EXCEPT ![p] = n] /\ pc[p] = "idle"
        /\ UNCHANGED <<site, tfvars, goal, state, real, lock, inventory, touched, alone, edits, faults>>
    BY <1>12 DEF BeginConfigure, Goto, terraform
  <2>2. \A q \in Configures : read[q] \in Drafts
    BY DEF Typed, Reading, Configures
  <2>3. met' \in [Procs -> SUBSET Nodes]
    BY <1>12, <2>2, ConfigurableType DEF BeginConfigure, Typed, TypeOK
  <2>q. QED
    BY <2>1, <2>3 DEF Typed, TypeOK, Reading, Applies
<1>13. ASSUME NEW p \in Procs, WriteInventory(p) PROVE Typed'
  BY <1>13, SiteAssumption, WantedType, ConfigurableType, AfterType,
    NoneType DEF WriteInventory, terraform, hosts, Goto, Typed, TypeOK,
    Reading, Applies, Configures
<1>14. ASSUME NEW p \in Procs, Wait(p) PROVE Typed'
  BY <1>14, SiteAssumption, WantedType, ConfigurableType, AfterType,
    NoneType DEF Wait, terraform, hosts, Goto, Typed, TypeOK, Reading,
    Applies, Configures
<1>15. ASSUME NEW p \in Procs, Play(p) PROVE Typed'
  BY <1>15, SiteAssumption, WantedType, ConfigurableType, AfterType,
    NoneType DEF Play, terraform, hosts, Typed, TypeOK, Reading, Applies,
    Configures
<1>16. ASSUME NEW p \in Procs, ConfigureEnds(p) PROVE Typed'
  BY <1>16, SiteAssumption, WantedType, ConfigurableType, AfterType,
    NoneType DEF ConfigureEnds, terraform, hosts, Goto, Typed, TypeOK,
    Reading, Applies, Configures
<1>17. ASSUME UNCHANGED vars PROVE Typed'
  BY <1>17 DEF vars, terraform, hosts, Typed, TypeOK, Reading, Applies,
    Configures
<1>q. QED
  BY <1>1, <1>2, <1>3, <1>4, <1>5, <1>6, <1>7, <1>8, <1>9, <1>10, <1>11,
    <1>12, <1>13, <1>14, <1>15, <1>16, <1>17 DEF Next, Apply

\* Applies that agree on site.yml go on to do so, or are alone no longer.
LEMMA AgreedStep ==
  ASSUME Typed, Agreed, [Next]_vars
  PROVE  Agreed'
<1>1. ASSUME Edit PROVE Agreed'
  BY <1>1, SiteAssumption DEF Edit, terraform, hosts, Agreed, Typed, TypeOK,
    Applies
<1>2. ASSUME NEW r \in Resources, Lose(r) PROVE Agreed'
  BY <1>2, SiteAssumption DEF Lose, terraform, hosts, Agreed, Typed, TypeOK,
    Applies
<1>3. ASSUME NEW m \in Mappings, RemoveOrphan(m) PROVE Agreed'
  BY <1>3, SiteAssumption DEF RemoveOrphan, terraform, hosts, Resources,
    Agreed, Typed, TypeOK, Applies
<1>4. ASSUME NEW p \in Procs, BeginApply(p) PROVE Agreed'
  BY <1>4, SiteAssumption DEF BeginApply, terraform, hosts, Goto, Agreed,
    Typed, TypeOK, Applies
<1>5. ASSUME NEW p \in Procs, WriteTfvars(p) PROVE Agreed'
  BY <1>5, SiteAssumption DEF WriteTfvars, terraform, hosts, Goto, Agreed,
    Typed, TypeOK, Applies
<1>6. ASSUME NEW p \in Procs, Lock(p) PROVE Agreed'
  BY <1>6, SiteAssumption DEF Lock, terraform, hosts, Goto, Agreed, Typed,
    TypeOK, Applies
<1>7. ASSUME NEW p \in Procs, Locked(p) PROVE Agreed'
  BY <1>7, SiteAssumption DEF Locked, terraform, hosts, Over, Nothing, Goto,
    Agreed, Typed, TypeOK, Applies
<1>8. ASSUME NEW p \in Procs, ApplyEnds(p) PROVE Agreed'
  BY <1>8, SiteAssumption DEF ApplyEnds, terraform, hosts, Over, Nothing,
    Goto, Agreed, Typed, TypeOK, Applies
<1>9. ASSUME NEW p \in Procs, NEW r \in Resources, Change(p, r) PROVE Agreed'
  <2>1. /\ lock = p /\ p \in Applies /\ pc' = pc /\ UNCHANGED <<site, tfvars, goal, lock, read, alone>>
    BY <1>9, SiteAssumption DEF Change, Typed, TypeOK, Applies
  <2>q. QED
    BY <2>1 DEF Agreed, Applies
<1>10. ASSUME NEW p \in Procs, ApplyFails(p) PROVE Agreed'
  BY <1>10, SiteAssumption DEF ApplyFails, terraform, hosts, Over, Nothing,
    Goto, Agreed, Typed, TypeOK, Applies
<1>11. ASSUME NEW p \in Procs, NEW r \in Resources, CutShort(p, r) PROVE Agreed'
  BY <1>11, SiteAssumption DEF CutShort, terraform, hosts, Over, Nothing,
    Goto, Agreed, Typed, TypeOK, Applies
<1>12. ASSUME NEW p \in Procs, NEW n \in Nodes \cup {None}, BeginConfigure(p, n) PROVE Agreed'
  BY <1>12, SiteAssumption DEF BeginConfigure, terraform, hosts, Goto,
    Agreed, Typed, TypeOK, Applies
<1>13. ASSUME NEW p \in Procs, WriteInventory(p) PROVE Agreed'
  BY <1>13, SiteAssumption DEF WriteInventory, terraform, hosts, Goto,
    Agreed, Typed, TypeOK, Applies
<1>14. ASSUME NEW p \in Procs, Wait(p) PROVE Agreed'
  BY <1>14, SiteAssumption DEF Wait, terraform, hosts, Goto, Agreed, Typed,
    TypeOK, Applies
<1>15. ASSUME NEW p \in Procs, Play(p) PROVE Agreed'
  BY <1>15, SiteAssumption DEF Play, terraform, hosts, Agreed, Typed,
    TypeOK, Applies
<1>16. ASSUME NEW p \in Procs, ConfigureEnds(p) PROVE Agreed'
  BY <1>16, SiteAssumption DEF ConfigureEnds, terraform, hosts, Goto,
    Agreed, Typed, TypeOK, Applies
<1>17. ASSUME UNCHANGED vars PROVE Agreed'
  BY <1>17 DEF vars, terraform, hosts, Agreed, Typed, TypeOK, Applies
<1>q. QED
  BY <1>1, <1>2, <1>3, <1>4, <1>5, <1>6, <1>7, <1>8, <1>9, <1>10, <1>11,
    <1>12, <1>13, <1>14, <1>15, <1>16, <1>17 DEF Next, Apply

\* The apply that holds the lock has refreshed its state, and no one else changes what it records.
LEMMA RefreshedStep ==
  ASSUME Typed, Refreshed, [Next]_vars
  PROVE  Refreshed'
<1>1. ASSUME Edit PROVE Refreshed'
  BY <1>1, SiteAssumption DEF Edit, terraform, hosts, Refreshed, Typed,
    TypeOK
<1>2. ASSUME NEW r \in Resources, Lose(r) PROVE Refreshed'
  BY <1>2, SiteAssumption DEF Lose, terraform, hosts, Refreshed, Typed,
    TypeOK
<1>3. ASSUME NEW m \in Mappings, RemoveOrphan(m) PROVE Refreshed'
  BY <1>3, SiteAssumption DEF RemoveOrphan, terraform, hosts, Resources,
    Refreshed, Typed, TypeOK
<1>4. ASSUME NEW p \in Procs, BeginApply(p) PROVE Refreshed'
  BY <1>4, SiteAssumption DEF BeginApply, terraform, hosts, Goto, Refreshed,
    Typed, TypeOK
<1>5. ASSUME NEW p \in Procs, WriteTfvars(p) PROVE Refreshed'
  BY <1>5, SiteAssumption DEF WriteTfvars, terraform, hosts, Goto,
    Refreshed, Typed, TypeOK
<1>6. ASSUME NEW p \in Procs, Lock(p) PROVE Refreshed'
  BY <1>6, SiteAssumption DEF Lock, terraform, hosts, Goto, Refreshed,
    Typed, TypeOK
<1>7. ASSUME NEW p \in Procs, Locked(p) PROVE Refreshed'
  BY <1>7, SiteAssumption DEF Locked, terraform, hosts, Over, Nothing, Goto,
    Refreshed, Typed, TypeOK
<1>8. ASSUME NEW p \in Procs, ApplyEnds(p) PROVE Refreshed'
  BY <1>8, SiteAssumption DEF ApplyEnds, terraform, hosts, Over, Nothing,
    Goto, Refreshed, Typed, TypeOK
<1>9. ASSUME NEW p \in Procs, NEW r \in Resources, Change(p, r) PROVE Refreshed'
  BY <1>9, SiteAssumption DEF Change, terraform, hosts, Refreshed, Typed,
    TypeOK
<1>10. ASSUME NEW p \in Procs, ApplyFails(p) PROVE Refreshed'
  BY <1>10, SiteAssumption DEF ApplyFails, terraform, hosts, Over, Nothing,
    Goto, Refreshed, Typed, TypeOK
<1>11. ASSUME NEW p \in Procs, NEW r \in Resources, CutShort(p, r) PROVE Refreshed'
  <2>1. lock = p /\ lock' = None
    BY <1>11, SiteAssumption DEF CutShort, Over, Typed, TypeOK
  <2>q. QED
    BY <2>1 DEF Refreshed
<1>12. ASSUME NEW p \in Procs, NEW n \in Nodes \cup {None}, BeginConfigure(p, n) PROVE Refreshed'
  BY <1>12, SiteAssumption DEF BeginConfigure, terraform, hosts, Goto,
    Refreshed, Typed, TypeOK
<1>13. ASSUME NEW p \in Procs, WriteInventory(p) PROVE Refreshed'
  BY <1>13, SiteAssumption DEF WriteInventory, terraform, hosts, Goto,
    Refreshed, Typed, TypeOK
<1>14. ASSUME NEW p \in Procs, Wait(p) PROVE Refreshed'
  BY <1>14, SiteAssumption DEF Wait, terraform, hosts, Goto, Refreshed,
    Typed, TypeOK
<1>15. ASSUME NEW p \in Procs, Play(p) PROVE Refreshed'
  BY <1>15, SiteAssumption DEF Play, terraform, hosts, Refreshed, Typed,
    TypeOK
<1>16. ASSUME NEW p \in Procs, ConfigureEnds(p) PROVE Refreshed'
  BY <1>16, SiteAssumption DEF ConfigureEnds, terraform, hosts, Goto,
    Refreshed, Typed, TypeOK
<1>17. ASSUME UNCHANGED vars PROVE Refreshed'
  BY <1>17 DEF vars, terraform, hosts, Refreshed, Typed, TypeOK
<1>q. QED
  BY <1>1, <1>2, <1>3, <1>4, <1>5, <1>6, <1>7, <1>8, <1>9, <1>10, <1>11,
    <1>12, <1>13, <1>14, <1>15, <1>16, <1>17 DEF Next, Apply

\* Configures at the same time have met one another.
LEMMA MetStep ==
  ASSUME Typed, Met, [Next]_vars
  PROVE  Met'
<1>1. ASSUME Edit PROVE Met'
  BY <1>1, SiteAssumption DEF Edit, terraform, hosts, Met, Typed, TypeOK,
    Configures
<1>2. ASSUME NEW r \in Resources, Lose(r) PROVE Met'
  BY <1>2, SiteAssumption DEF Lose, terraform, hosts, Met, Typed, TypeOK,
    Configures
<1>3. ASSUME NEW m \in Mappings, RemoveOrphan(m) PROVE Met'
  BY <1>3, SiteAssumption DEF RemoveOrphan, terraform, hosts, Resources,
    Met, Typed, TypeOK, Configures
<1>4. ASSUME NEW p \in Procs, BeginApply(p) PROVE Met'
  BY <1>4, SiteAssumption DEF BeginApply, terraform, hosts, Goto, Met,
    Typed, TypeOK, Configures
<1>5. ASSUME NEW p \in Procs, WriteTfvars(p) PROVE Met'
  BY <1>5, SiteAssumption DEF WriteTfvars, terraform, hosts, Goto, Met,
    Typed, TypeOK, Configures
<1>6. ASSUME NEW p \in Procs, Lock(p) PROVE Met'
  BY <1>6, SiteAssumption DEF Lock, terraform, hosts, Goto, Met, Typed,
    TypeOK, Configures
<1>7. ASSUME NEW p \in Procs, Locked(p) PROVE Met'
  BY <1>7, SiteAssumption DEF Locked, terraform, hosts, Over, Nothing, Goto,
    Met, Typed, TypeOK, Configures
<1>8. ASSUME NEW p \in Procs, ApplyEnds(p) PROVE Met'
  BY <1>8, SiteAssumption DEF ApplyEnds, terraform, hosts, Over, Nothing,
    Goto, Met, Typed, TypeOK, Configures
<1>9. ASSUME NEW p \in Procs, NEW r \in Resources, Change(p, r) PROVE Met'
  BY <1>9, SiteAssumption DEF Change, terraform, hosts, Met, Typed, TypeOK,
    Configures
<1>10. ASSUME NEW p \in Procs, ApplyFails(p) PROVE Met'
  <2>1. /\ pc' = [pc EXCEPT ![p] = "idle"] /\ read' = [read EXCEPT ![p] = None]
        /\ UNCHANGED <<inventory, only, met, touched>> /\ pc[p] \notin {"inventory", "wait", "play"}
    BY <1>10 DEF ApplyFails, Over, Goto, hosts, Applies
  <2>2. Configures' = Configures /\ \A q \in Configures : read'[q] = read[q]
    BY <2>1 DEF Configures, Typed, TypeOK
  <2>q. QED
    BY <2>1, <2>2 DEF Met, Typed, TypeOK
<1>11. ASSUME NEW p \in Procs, NEW r \in Resources, CutShort(p, r) PROVE Met'
  BY <1>11, SiteAssumption DEF CutShort, terraform, hosts, Over, Nothing,
    Goto, Met, Typed, TypeOK, Configures
<1>12. ASSUME NEW p \in Procs, NEW n \in Nodes \cup {None}, BeginConfigure(p, n) PROVE Met'
  <2>1. /\ pc' = [pc EXCEPT ![p] = "inventory"] /\ read' = [read EXCEPT ![p] = site]
        /\ only' = [only EXCEPT ![p] = n] /\ pc[p] = "idle" /\ UNCHANGED <<touched, inventory>>
    BY <1>12 DEF BeginConfigure, Goto, hosts
  <2>2. Configures' = Configures \cup {p} /\ p \notin Configures
    BY <2>1 DEF Configures, Typed, TypeOK
  <2>3. /\ \A c \in Configures : Configurable(read[c]) \subseteq met'[p]
        /\ Configurable(site) \subseteq met'[p]
    BY <1>12 DEF BeginConfigure
  <2>4. \A q \in Configures :
          met'[q] = met[q] \cup Configurable(site) /\ q # p /\ q \in Procs /\ read'[q] = read[q]
    BY <1>12, <2>1, <2>2 DEF BeginConfigure, Configures, Typed, TypeOK
  <2>5. \A q \in Procs \ (Configures \cup {p}) : met'[q] = met[q]
    BY <1>12 DEF BeginConfigure
  <2>6. \A c, q \in Configures' : Configurable(read'[q]) \subseteq met'[c]
    <3>1. read'[p] = site
      BY <2>1 DEF Typed, TypeOK
    <3>2. \A c, q \in Configures : Configurable(read[q]) \subseteq met[c]
      BY DEF Met
    <3>q. QED
      BY <2>2, <2>3, <2>4, <3>1, <3>2
  <2>7. \A q \in Procs \ {p} : pc'[q] = pc[q] /\ only'[q] = only[q] /\ met[q] \subseteq met'[q]
    BY <2>1, <2>4, <2>5 DEF Typed, TypeOK
  <2>8. pc'[p] = "inventory" /\ touched'[p] = {}
    BY <2>1 DEF Typed, TypeOK, Met
  <2>9. \A q \in Procs :
          /\ pc'[q] \in {"wait", "play"} => inventory' \subseteq met'[q]
          /\ pc'[q] # "play" => touched'[q] = {}
          /\ touched'[q] \subseteq {k \in met'[q] : only'[q] \in {None, k}}
    BY <2>1, <2>7, <2>8 DEF Met
  <2>q. QED
    BY <2>6, <2>9 DEF Met
<1>13. ASSUME NEW p \in Procs, WriteInventory(p) PROVE Met'
  BY <1>13, SiteAssumption DEF WriteInventory, terraform, hosts, Goto, Met,
    Typed, TypeOK, Configures
<1>14. ASSUME NEW p \in Procs, Wait(p) PROVE Met'
  BY <1>14, SiteAssumption DEF Wait, terraform, hosts, Goto, Met, Typed,
    TypeOK, Configures
<1>15. ASSUME NEW p \in Procs, Play(p) PROVE Met'
  BY <1>15, SiteAssumption DEF Play, terraform, hosts, Met, Typed, TypeOK,
    Configures
<1>16. ASSUME NEW p \in Procs, ConfigureEnds(p) PROVE Met'
  BY <1>16, SiteAssumption DEF ConfigureEnds, terraform, hosts, Goto, Met,
    Typed, TypeOK, Configures
<1>17. ASSUME UNCHANGED vars PROVE Met'
  BY <1>17 DEF vars, terraform, hosts, Met, Typed, TypeOK, Configures
<1>q. QED
  BY <1>1, <1>2, <1>3, <1>4, <1>5, <1>6, <1>7, <1>8, <1>9, <1>10, <1>11,
    <1>12, <1>13, <1>14, <1>15, <1>16, <1>17 DEF Next, Apply

LEMMA InvInit == Init => Inv
<1> SUFFICES ASSUME Init PROVE Inv
  OBVIOUS
<1>1. Nothing \in [Resources -> Arguments]
  BY NoneType DEF Nothing
<1>2. Typed
  BY <1>1, SiteAssumption DEF Init, Typed, TypeOK, Reading, Applies
<1>3. Agreed /\ Refreshed /\ Met
  BY DEF Init, Agreed, Refreshed, Met, Configures
<1>q. QED
  BY <1>2, <1>3 DEF Inv

LEMMA InvStep == Inv /\ [Next]_vars => Inv'
  BY TypedStep, AgreedStep, RefreshedStep, MetStep DEF Inv

LEMMA Invariance == Spec => []Inv
  BY InvInit, InvStep, PTL DEF Spec

\* The variables keep their types, and an apply is at work exactly while its
\* Terraform holds the state.
THEOREM SiteTypeCorrect == Spec => []TypeOK
<1>1. Inv => TypeOK
  BY DEF Inv, Typed
<1>q. QED
  BY <1>1, Invariance, PTL

\* No playbook of site configure logs in to a node that neither its command
\* nor one at the same time had to configure (configure: false), nor past
\* --node, whichever of them wrote the inventory it reads.
THEOREM OnlyChosenNodes == Spec => []ConfigureTouchesOnlyChosen
<1>1. Inv => ConfigureTouchesOnlyChosen
  BY DEF Inv, Met, ConfigureTouchesOnlyChosen
<1>q. QED
  BY <1>1, Invariance, PTL

-----------------------------------------------------------------------------
\* An apply with nothing left to do has what site.yml asks for.
LEMMA Reached ==
  ASSUME Inv, NEW p \in alone, pc[p] = "apply", state = goal
  PROVE  Serves(site, real)
<1>1. p \in Procs /\ lock = p /\ goal = Wanted(site)
  BY DEF Inv, Typed, TypeOK, Agreed, Applies
<1>2. \A r \in Resources : state[r] # None => state[r] = real[r]
  BY <1>1, SiteAssumption DEF Inv, Refreshed
<1>q. QED
  BY <1>1, <1>2 DEF Serves

\* The step by which an apply succeeds changes nothing in the cluster: it is
\* the end of its own work, for a resource it might still change is due.
LEMMA SuccessIsStill ==
  ASSUME Inv, [Next]_vars, NEW p \in alone, Succeeds(p)
  PROVE  UNCHANGED real
<1> USE DEF Succeeds, Inv, Typed, TypeOK, Applies
<1>1. p \in Procs /\ pc[p] = "apply" /\ pc'[p] = "idle" /\ state = goal
  OBVIOUS
<1>2. \A r \in Resources : ~Due(r)
  BY <1>1 DEF Due, Doomed, Missing, Drifted
<1>3. ~ \E q \in Procs, r \in Resources : CutShort(q, r) \/ Change(q, r)
  BY <1>2 DEF CutShort, Change
<1>4. ~ \E r \in Resources : Lose(r)
  BY <1>1 DEF Lose, hosts
<1>5. ~ \E m \in Mappings : RemoveOrphan(m)
  BY <1>1 DEF RemoveOrphan, hosts
<1>6. ASSUME Next PROVE UNCHANGED real
  BY <1>3, <1>4, <1>5, <1>6
    DEF Next, Apply, Edit, BeginApply, WriteTfvars, Lock, Locked, ApplyEnds, ApplyFails,
        BeginConfigure, WriteInventory, Wait, Play, ConfigureEnds, terraform
<1>q. QED
  BY <1>6 DEF vars, terraform

\* A successful site apply leaves every image and mapping in place as site.yml
\* asks, through any earlier kill or loss and beside any other command, unless
\* site.yml changed meanwhile (Terraform's refresh, overwrite_unmanaged, and
\* its lock on the state).
THEOREM SiteApplyEstablishes == Spec => ApplyEstablishes
<1>1. Inv /\ [Next]_vars => [\A p \in alone : Succeeds(p) => Serves(site, real')]_vars
  <2> SUFFICES ASSUME Inv, [Next]_vars, NEW p \in alone, Succeeds(p)
               PROVE  Serves(site, real')
    OBVIOUS
  <2>1. Serves(site, real)
    BY Reached DEF Succeeds
  <2>2. UNCHANGED real
    BY SuccessIsStill
  <2>q. QED
    BY <2>1, <2>2 DEF Serves
<1>q. QED
  BY <1>1, Invariance, PTL DEF Spec, ApplyEstablishes
=============================================================================
