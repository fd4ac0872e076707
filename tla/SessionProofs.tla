--------------------------- MODULE SessionProofs ---------------------------
(***************************************************************************)
(* Theorems about the commands of Session, for any number of them, any     *)
(* services and setups.  The invariants of a run are not inductive: Held   *)
(* adds whose the agents and password files are, Keys what each stage has   *)
(* established about a keypair that several commands may be after,         *)
(* Collected what an install that stopped leaves.                          *)
(***************************************************************************)
EXTENDS Session, TLAPS

\* Before Terraform a command has the environment it was started in.
Before == {"secrets", "register", "view", "keygen", "sshkeygen", "keyfile", "keypub",
           "public", "derive", "derived", "readkey", "agent"}

\* A command's agent is there from its start to its stop, or for good where
\* the command was cut, and the environment names it as long as it is needed.
AgentHeld(p) ==
  /\ p \in agents =>
       \/ p \in cut \/ pc[p] = "adopt"
       \/ setup.sshKey /\ pc[p] \in {"add", "terraform", "stop"}
  /\ pc[p] \in Before => env[p] = Inherited
  /\ pc[p] \in {"adopt", "add", "stop", "restore"} => setup.sshKey
  /\ setup.sshKey =>
       /\ pc[p] \in {"adopt", "add", "terraform"} => p \in agents
       /\ pc[p] \in {"add", "terraform", "stop"} => env[p] = p
       /\ pc[p] = "terraform" => p \in loaded
  /\ ~setup.sshKey /\ pc[p] = "terraform" => setup.agent /\ env[p] = Operator

\* A command's password file is registered for removal as soon as it may be used.
PasswordHeld(p) ==
  /\ p \in passwords => p \in cut \/ pc[p] = "register" \/ p \in registered
  /\ pc[p] \in {"idle", "exec", "ended"} => p \notin registered /\ password[p] = None
  /\ password[p] \in {None, Operator, p}
  /\ password[p] = p => p \in passwords

Held ==
  /\ Operator \in passwords
  /\ setup.agent => Operator \in agents /\ Operator \in loaded
  /\ \A p \in Procs : AgentHeld(p) /\ PasswordHeld(p)

Busy(p) == pc[p] \notin {"idle", "ended"}

\* Commands on one service know that they are not alone, and only one of
\* them writes a new private key.
Company ==
  \A p, q \in Procs : p # q /\ Busy(p) /\ Busy(q) /\ Svc(p) = Svc(q) =>
    /\ Svc(p) = None \/ (p \in met /\ q \in met)
    /\ ~(pc[p] = "keyfile" /\ pc[q] = "keyfile")

\* A public key belongs to the private key beside it.
Paired(s) ==
  /\ private[s] # Blank
  /\ public[s] # None => private[s] \in KeyNums
  /\ public[s] \in KeyNums => public[s] = private[s]

Ready == {"agent", "adopt", "add", "terraform", "stop", "restore", "collections", "galaxy", "play"}

\* What a command has established about its service's keys at each stage.
Stage(p) ==
  /\ Busy(p) => \/ Cmd(p) \in ServiceCommands /\ Svc(p) \in Services
                \/ Cmd(p) \in SiteCommands /\ Svc(p) = None
  /\ pc[p] = "copy" => Cmd(p) = "init"
  /\ pc[p] \in {"keygen", "sshkeygen", "keyfile", "keypub", "public", "derive",
                "derived", "readkey"} => Cmd(p) \in UsesKeypair
  /\ pc[p] = "keyfile" => private[Svc(p)] = Torn /\ made[Svc(p)] < MaxKeys
  /\ pc[p] \in {"keypub", "derived"} => private[Svc(p)] \in KeyNums
  /\ pc[p] \in {"public", "derive", "readkey"} => private[Svc(p)] # None
  /\ pc[p] = "readkey" => public[Svc(p)] # None
  /\ pc[p] \in Ready /\ Cmd(p) \in UsesKeypair =>
       key[p] \in KeyNums /\ private[Svc(p)] = key[p]
  /\ \/ pc[p] \in {"stop", "restore"} /\ p \notin failed
     \/ pc[p] \in {"collections", "galaxy", "play"}
     => (Cmd(p) = "up" => \/ vmkey[Svc(p)] = key[p]
                          \/ p \in met /\ vmkey[Svc(p)] = None)

Keys == Company /\ (\A s \in Services : Paired(s)) /\ (\A p \in Procs : Stage(p))

\* An install has begun with the one collection that is looked for.
Collected ==
  /\ Marker \in collections /\ collections # Collections =>
       partial \/ \E q \in Procs : pc[q] = "galaxy"
  /\ (\E p \in Procs : pc[p] = "play") => Marker \in collections

-----------------------------------------------------------------------------
(* Facts of every step.                                                    *)

\* Whether an install was left in the middle is known whatever happens.
LEMMA PartialType ==
  ASSUME TypeOK, NEW p \in Procs, Fail(p) \/ Killed(p) \/ Galaxy(p)
  PROVE  partial' \in BOOLEAN
<1>1. partial \in BOOLEAN
  BY DEF TypeOK
<1>2. CASE Fail(p)
  BY <1>1, <1>2, Zenon DEF Fail
<1>3. CASE Killed(p)
  BY <1>1, <1>3, Zenon DEF Killed
<1>4. CASE Galaxy(p)
  BY <1>1, <1>4, Zenon DEF Galaxy
<1>q. QED
  BY <1>2, <1>3, <1>4

\* A command that fails, but for the install it leaves.
FailOnly(p) ==
  /\ Working(p) /\ pc[p] # "exit"
  /\ failed' = failed \cup {p}
  /\ cut' = IF pc[p] \in Exposed THEN cut \cup {p} ELSE cut
  /\ Goto(p, IF Guarded(p) THEN "stop" ELSE "exit")
  /\ UNCHANGED <<setup, secrets, collections, keys, held, job, env, password, registered,
                 key, met>>

LEMMA FailsOnly == ASSUME NEW p, Fail(p) PROVE FailOnly(p)
  BY DEF Fail, FailOnly

-----------------------------------------------------------------------------
(* Type correctness.                                                       *)

\* No key, where half a private key may not be.
LEMMA NoKey == None \in Files \ {Torn}
  BY NamesApart DEF Files

\* A stage of a command keeps the types.
LEMMA TypeStep ==
  ASSUME TypeOK, Keys, NEW p \in Procs, Step(p)
  PROVE  TypeOK'
<1> USE DEF desk, keys, held, own, Goto
<1>1. CASE Fail(p)
  <2>1. partial' \in BOOLEAN /\ FailOnly(p)
    BY <1>1, PartialType, FailsOnly
  <2>q. QED
    BY <2>1 DEF FailOnly, Guarded, Working, TypeOK, Places
<1>2. CASE Killed(p)
  <2>1. partial' \in BOOLEAN
    BY <1>2, PartialType
  <2>2. /\ Working(p) /\ Over(p) /\ cut' = cut \cup {p}
        /\ UNCHANGED <<setup, secrets, collections, keys, held>>
    BY <1>2 DEF Killed
  <2>q. QED
    BY <2>1, <2>2, NamesApart, NoKey DEF Over, Working, TypeOK, Places
<1>3. CASE Exit(p)
  BY <1>3, NamesApart, NoKey DEF Exit, Over, TypeOK, Places
<1>4. CASE Return(p)
  BY <1>4, NamesApart DEF Return, TypeOK, Places
<1>5. CASE SecretsPlain(p)
  BY <1>5, NamesApart DEF SecretsPlain, AfterSecrets, Unneeded, TypeOK, Places, Cmd
<1>6. CASE SecretsByFile(p)
  BY <1>6, NamesApart DEF SecretsByFile, Unneeded, TypeOK, Places
<1>7. CASE SecretsAsked(p)
  BY <1>7, NamesApart DEF SecretsAsked, Unneeded, TypeOK, Places
<1>8. CASE Register(p)
  BY <1>8, NamesApart DEF Register, TypeOK, Places
<1>9. CASE View(p)
  BY <1>9, NamesApart DEF View, AfterSecrets, TypeOK, Places, Cmd
<1>10. CASE Keygen(p)
  BY <1>10, NamesApart DEF Keygen, TypeOK, Places, Keys, Stage, Busy, KeyNums, Files,
     Cmd, Svc, UsesKeypair, ServiceCommands, SiteCommands
<1>11. CASE WritePrivate(p)
  BY <1>11, NamesApart DEF WritePrivate, TypeOK, Places, Keys, Stage, Busy, KeyNums,
     Files, Cmd, Svc, UsesKeypair, ServiceCommands, SiteCommands
<1>12. CASE WritePublic(p)
  BY <1>12, NamesApart DEF WritePublic, TypeOK, Places, Keys, Stage, Busy, KeyNums,
     Files, Cmd, Svc, UsesKeypair, ServiceCommands, SiteCommands
<1>13. CASE Derive(p)
  BY <1>13, NamesApart DEF Derive, TypeOK, Places, Keys, Stage, Busy, KeyNums, Files,
     Cmd, Svc, UsesKeypair, ServiceCommands, SiteCommands
<1>14. CASE ReadKey(p)
  BY <1>14, NamesApart DEF ReadKey, TypeOK, Places, Keys, Stage, Busy, Cmd, Svc, UsesKeypair,
     ServiceCommands, SiteCommands
<1>15. CASE UseAgent(p)
  BY <1>15, NamesApart DEF UseAgent, Inherited, TypeOK, Places
<1>16. CASE StartAgent(p)
  BY <1>16, NamesApart DEF StartAgent, TypeOK, Places
<1>17. CASE AdoptAgent(p)
  BY <1>17, NamesApart DEF AdoptAgent, TypeOK, Places
<1>18. CASE AddKey(p)
  BY <1>18, NamesApart DEF AddKey, TypeOK, Places
<1>19. CASE Terraform(p)
  BY <1>19, NamesApart DEF Terraform, AfterTerraform, TypeOK, Places, Keys, Stage,
     Busy, KeyNums, Files, Cmd, Svc, UsesKeypair, ServiceCommands, SiteCommands
<1>20. CASE TerraformPart(p)
  BY <1>20, NamesApart DEF TerraformPart, TypeOK, Places, Keys, Stage, Busy, KeyNums,
     Files, Cmd, Svc, UsesKeypair, ServiceCommands, SiteCommands
<1>21. CASE StopAgent(p)
  BY <1>21, NamesApart DEF StopAgent, TypeOK, Places
<1>22. CASE Restore(p)
  BY <1>22, NamesApart DEF Restore, AfterTerraform, Inherited, TypeOK, Places, Cmd
<1>23. CASE EnsureCollections(p)
  BY <1>23, NamesApart DEF EnsureCollections, Marker, TypeOK, Places
<1>24. CASE Galaxy(p)
  <2>1. partial' \in BOOLEAN
    BY <1>24, PartialType
  <2>2. /\ pc[p] = "galaxy" /\ collections' \subseteq Collections
        /\ pc' = pc \/ Goto(p, "exit") \/ Goto(p, "play")
        /\ UNCHANGED <<setup, secrets, keys, held, job, own>>
    BY <1>24 DEF Galaxy, TypeOK
  <2>q. QED
    BY <2>1, <2>2 DEF TypeOK, Places
<1>25. CASE Play(p)
  BY <1>25, NamesApart DEF Play, TypeOK, Places
<1>26. CASE Exec(p)
  BY <1>26, NamesApart, NoKey DEF Exec, Over, TypeOK, Places
<1>27. CASE Copy(p)
  BY <1>27, NamesApart DEF Copy, TypeOK, Places
<1>28. CASE OpenPrivate(p)
  BY <1>28, NamesApart DEF OpenPrivate, TypeOK, Places, Keys, Stage, Busy, KeyNums, Files,
     Cmd, Svc, UsesKeypair, ServiceCommands, SiteCommands
<1>29. CASE LookPublic(p)
  BY <1>29, NamesApart DEF LookPublic, TypeOK, Places, Keys, Stage, Busy, KeyNums, Files,
     Cmd, Svc, UsesKeypair, ServiceCommands, SiteCommands
<1>q. QED
  BY <1>1, <1>2, <1>3, <1>4, <1>5, <1>6, <1>7, <1>8, <1>9, <1>10, <1>11, <1>12, <1>13,
     <1>14, <1>15, <1>16, <1>17, <1>18, <1>19, <1>20, <1>21, <1>22, <1>23, <1>24,
     <1>25, <1>26, <1>27, <1>28, <1>29 DEF Step

-----------------------------------------------------------------------------
(* Agents and password files.                                              *)

\* A stage of a command keeps every agent held.
LEMMA AgentStep ==
  ASSUME TypeOK, Held, NEW q \in Procs, NEW p \in Procs, Step(p)
  PROVE  AgentHeld(q)'
<1> USE DEF desk, keys, held, own, Goto
<1>1. CASE Fail(p)
  <2>1. FailOnly(p)
    BY <1>1, FailsOnly
  <2>q. QED
    BY <2>1, NamesApart DEF FailOnly, Guarded, Exposed, Working, TypeOK, Held, AgentHeld,
       Before, Inherited, AllSetups
<1>2. CASE Killed(p)
  BY <1>2, NamesApart DEF Killed, Over, Working, TypeOK, Held, AgentHeld, Before,
     Inherited, AllSetups
<1>3. CASE Exit(p)
  BY <1>3, NamesApart DEF Exit, Over, TypeOK, Held, AgentHeld, Before, Inherited,
     AllSetups
<1>4. CASE Return(p)
  BY <1>4, NamesApart DEF Return, TypeOK, Held, AgentHeld, Before, Inherited,
     AllSetups
<1>5. CASE SecretsPlain(p)
  BY <1>5, NamesApart DEF SecretsPlain, AfterSecrets, Unneeded, TypeOK, Held,
     AgentHeld, Before, Inherited, AllSetups
<1>6. CASE SecretsByFile(p)
  BY <1>6, NamesApart DEF SecretsByFile, Unneeded, TypeOK, Held, AgentHeld, Before,
     Inherited, AllSetups
<1>7. CASE SecretsAsked(p)
  BY <1>7, NamesApart DEF SecretsAsked, Unneeded, TypeOK, Held, AgentHeld, Before,
     Inherited, AllSetups
<1>8. CASE Register(p)
  BY <1>8, NamesApart DEF Register, TypeOK, Held, AgentHeld, Before, Inherited,
     AllSetups
<1>9. CASE View(p)
  BY <1>9, NamesApart DEF View, AfterSecrets, TypeOK, Held, AgentHeld, Before,
     Inherited, AllSetups
<1>10. CASE Keygen(p)
  BY <1>10, NamesApart DEF Keygen, TypeOK, Held, AgentHeld, Before, Inherited,
     AllSetups
<1>11. CASE WritePrivate(p)
  BY <1>11, NamesApart DEF WritePrivate, TypeOK, Held, AgentHeld, Before, Inherited,
     AllSetups
<1>12. CASE WritePublic(p)
  BY <1>12, NamesApart DEF WritePublic, TypeOK, Held, AgentHeld, Before, Inherited,
     AllSetups
<1>13. CASE Derive(p)
  BY <1>13, NamesApart DEF Derive, TypeOK, Held, AgentHeld, Before, Inherited,
     AllSetups
<1>14. CASE ReadKey(p)
  BY <1>14, NamesApart DEF ReadKey, TypeOK, Held, AgentHeld, Before, Inherited,
     AllSetups
<1>15. CASE UseAgent(p)
  BY <1>15, NamesApart DEF UseAgent, Inherited, TypeOK, Held, AgentHeld, Before,
     AllSetups
<1>16. CASE StartAgent(p)
  BY <1>16, NamesApart DEF StartAgent, TypeOK, Held, AgentHeld, Before, Inherited,
     AllSetups
<1>17. CASE AdoptAgent(p)
  BY <1>17, NamesApart DEF AdoptAgent, TypeOK, Held, AgentHeld, Before, Inherited,
     AllSetups
<1>18. CASE AddKey(p)
  BY <1>18, NamesApart DEF AddKey, TypeOK, Held, AgentHeld, Before, Inherited,
     AllSetups
<1>19. CASE Terraform(p)
  BY <1>19, NamesApart DEF Terraform, AfterTerraform, TypeOK, Held, AgentHeld, Before,
     Inherited, AllSetups
<1>20. CASE TerraformPart(p)
  BY <1>20, NamesApart DEF TerraformPart, TypeOK, Held, AgentHeld, Before, Inherited,
     AllSetups
<1>21. CASE StopAgent(p)
  BY <1>21, NamesApart DEF StopAgent, TypeOK, Held, AgentHeld, Before, Inherited,
     AllSetups
<1>22. CASE Restore(p)
  BY <1>22, NamesApart DEF Restore, AfterTerraform, Inherited, TypeOK, Held,
     AgentHeld, Before, AllSetups
<1>23. CASE EnsureCollections(p)
  BY <1>23, NamesApart DEF EnsureCollections, Marker, TypeOK, Held, AgentHeld, Before,
     Inherited, AllSetups
<1>24. CASE Galaxy(p)
  BY <1>24, NamesApart DEF Galaxy, TypeOK, Held, AgentHeld, Before, Inherited,
     AllSetups
<1>25. CASE Play(p)
  BY <1>25, NamesApart DEF Play, TypeOK, Held, AgentHeld, Before, Inherited, AllSetups
<1>26. CASE Exec(p)
  BY <1>26, NamesApart DEF Exec, Over, TypeOK, Held, AgentHeld, Before, Inherited,
     AllSetups
<1>27. CASE Copy(p)
  BY <1>27, NamesApart DEF Copy, TypeOK, Held, AgentHeld, Before, Inherited, AllSetups
<1>28. CASE OpenPrivate(p)
  BY <1>28, NamesApart DEF OpenPrivate, TypeOK, Held, AgentHeld, Before, Inherited,
     AllSetups
<1>29. CASE LookPublic(p)
  BY <1>29, NamesApart DEF LookPublic, TypeOK, Held, AgentHeld, Before, Inherited,
     AllSetups
<1>q. QED
  BY <1>1, <1>2, <1>3, <1>4, <1>5, <1>6, <1>7, <1>8, <1>9, <1>10, <1>11, <1>12, <1>13,
     <1>14, <1>15, <1>16, <1>17, <1>18, <1>19, <1>20, <1>21, <1>22, <1>23, <1>24,
     <1>25, <1>26, <1>27, <1>28, <1>29 DEF Step

\* And every password file.
LEMMA PasswordStep ==
  ASSUME TypeOK, Held, NEW q \in Procs, NEW p \in Procs, Step(p)
  PROVE  PasswordHeld(q)'
<1> USE DEF desk, keys, held, own, Goto
<1>1. CASE Fail(p)
  <2>1. FailOnly(p)
    BY <1>1, FailsOnly
  <2>q. QED
    BY <2>1, NamesApart DEF FailOnly, Guarded, Exposed, Working, TypeOK, Held, PasswordHeld
<1>2. CASE Killed(p)
  BY <1>2, NamesApart DEF Killed, Over, Working, TypeOK, Held, PasswordHeld
<1>3. CASE Exit(p)
  BY <1>3, NamesApart DEF Exit, Over, TypeOK, Held, PasswordHeld
<1>4. CASE Return(p)
  BY <1>4, NamesApart DEF Return, TypeOK, Held, PasswordHeld
<1>5. CASE SecretsPlain(p)
  BY <1>5, NamesApart DEF SecretsPlain, AfterSecrets, Unneeded, TypeOK, Held,
     PasswordHeld
<1>6. CASE SecretsByFile(p)
  BY <1>6, NamesApart DEF SecretsByFile, Unneeded, TypeOK, Held, PasswordHeld
<1>7. CASE SecretsAsked(p)
  BY <1>7, NamesApart DEF SecretsAsked, Unneeded, TypeOK, Held, PasswordHeld
<1>8. CASE Register(p)
  BY <1>8, NamesApart DEF Register, TypeOK, Held, PasswordHeld
<1>9. CASE View(p)
  BY <1>9, NamesApart DEF View, AfterSecrets, TypeOK, Held, PasswordHeld
<1>10. CASE Keygen(p)
  BY <1>10, NamesApart DEF Keygen, TypeOK, Held, PasswordHeld
<1>11. CASE WritePrivate(p)
  BY <1>11, NamesApart DEF WritePrivate, TypeOK, Held, PasswordHeld
<1>12. CASE WritePublic(p)
  BY <1>12, NamesApart DEF WritePublic, TypeOK, Held, PasswordHeld
<1>13. CASE Derive(p)
  BY <1>13, NamesApart DEF Derive, TypeOK, Held, PasswordHeld
<1>14. CASE ReadKey(p)
  BY <1>14, NamesApart DEF ReadKey, TypeOK, Held, PasswordHeld
<1>15. CASE UseAgent(p)
  BY <1>15, NamesApart DEF UseAgent, Inherited, TypeOK, Held, PasswordHeld
<1>16. CASE StartAgent(p)
  BY <1>16, NamesApart DEF StartAgent, TypeOK, Held, PasswordHeld
<1>17. CASE AdoptAgent(p)
  BY <1>17, NamesApart DEF AdoptAgent, TypeOK, Held, PasswordHeld
<1>18. CASE AddKey(p)
  BY <1>18, NamesApart DEF AddKey, TypeOK, Held, PasswordHeld
<1>19. CASE Terraform(p)
  BY <1>19, NamesApart DEF Terraform, AfterTerraform, TypeOK, Held, PasswordHeld
<1>20. CASE TerraformPart(p)
  BY <1>20, NamesApart DEF TerraformPart, TypeOK, Held, PasswordHeld
<1>21. CASE StopAgent(p)
  BY <1>21, NamesApart DEF StopAgent, TypeOK, Held, PasswordHeld
<1>22. CASE Restore(p)
  BY <1>22, NamesApart DEF Restore, AfterTerraform, Inherited, TypeOK, Held,
     PasswordHeld
<1>23. CASE EnsureCollections(p)
  BY <1>23, NamesApart DEF EnsureCollections, Marker, TypeOK, Held, PasswordHeld
<1>24. CASE Galaxy(p)
  BY <1>24, NamesApart DEF Galaxy, TypeOK, Held, PasswordHeld
<1>25. CASE Play(p)
  BY <1>25, NamesApart DEF Play, TypeOK, Held, PasswordHeld
<1>26. CASE Exec(p)
  BY <1>26, NamesApart DEF Exec, Over, TypeOK, Held, PasswordHeld
<1>27. CASE Copy(p)
  BY <1>27, NamesApart DEF Copy, TypeOK, Held, PasswordHeld
<1>28. CASE OpenPrivate(p)
  BY <1>28, NamesApart DEF OpenPrivate, TypeOK, Held, PasswordHeld
<1>29. CASE LookPublic(p)
  BY <1>29, NamesApart DEF LookPublic, TypeOK, Held, PasswordHeld
<1>q. QED
  BY <1>1, <1>2, <1>3, <1>4, <1>5, <1>6, <1>7, <1>8, <1>9, <1>10, <1>11, <1>12, <1>13,
     <1>14, <1>15, <1>16, <1>17, <1>18, <1>19, <1>20, <1>21, <1>22, <1>23, <1>24,
     <1>25, <1>26, <1>27, <1>28, <1>29 DEF Step

\* What is the operator's stays.
LEMMA OperatorStep ==
  ASSUME TypeOK, Held, NEW p \in Procs, Step(p)
  PROVE  Operator \in passwords' /\ (setup'.agent => Operator \in agents' \cap loaded')
<1> USE DEF desk, keys, held, own, Goto
<1>1. CASE Fail(p)
  BY <1>1, NamesApart DEF Fail, Working, Exposed, Guarded, TypeOK, Held, AgentHeld
<1>2. CASE Killed(p)
  BY <1>2, NamesApart DEF Killed, Over, Working, TypeOK, Held, AgentHeld
<1>3. CASE Exit(p)
  BY <1>3, NamesApart DEF Exit, Over, TypeOK, Held, AgentHeld
<1>4. CASE Return(p)
  BY <1>4, NamesApart DEF Return, TypeOK, Held, AgentHeld
<1>5. CASE SecretsPlain(p)
  BY <1>5, NamesApart DEF SecretsPlain, AfterSecrets, Unneeded, TypeOK, Held,
     AgentHeld
<1>6. CASE SecretsByFile(p)
  BY <1>6, NamesApart DEF SecretsByFile, Unneeded, TypeOK, Held, AgentHeld
<1>7. CASE SecretsAsked(p)
  BY <1>7, NamesApart DEF SecretsAsked, Unneeded, TypeOK, Held, AgentHeld
<1>8. CASE Register(p)
  BY <1>8, NamesApart DEF Register, TypeOK, Held, AgentHeld
<1>9. CASE View(p)
  BY <1>9, NamesApart DEF View, AfterSecrets, TypeOK, Held, AgentHeld
<1>10. CASE Keygen(p)
  BY <1>10, NamesApart DEF Keygen, TypeOK, Held, AgentHeld
<1>11. CASE WritePrivate(p)
  BY <1>11, NamesApart DEF WritePrivate, TypeOK, Held, AgentHeld
<1>12. CASE WritePublic(p)
  BY <1>12, NamesApart DEF WritePublic, TypeOK, Held, AgentHeld
<1>13. CASE Derive(p)
  BY <1>13, NamesApart DEF Derive, TypeOK, Held, AgentHeld
<1>14. CASE ReadKey(p)
  BY <1>14, NamesApart DEF ReadKey, TypeOK, Held, AgentHeld
<1>15. CASE UseAgent(p)
  BY <1>15, NamesApart DEF UseAgent, Inherited, TypeOK, Held, AgentHeld
<1>16. CASE StartAgent(p)
  BY <1>16, NamesApart DEF StartAgent, TypeOK, Held, AgentHeld
<1>17. CASE AdoptAgent(p)
  BY <1>17, NamesApart DEF AdoptAgent, TypeOK, Held, AgentHeld
<1>18. CASE AddKey(p)
  BY <1>18, NamesApart DEF AddKey, TypeOK, Held, AgentHeld
<1>19. CASE Terraform(p)
  BY <1>19, NamesApart DEF Terraform, AfterTerraform, TypeOK, Held, AgentHeld
<1>20. CASE TerraformPart(p)
  BY <1>20, NamesApart DEF TerraformPart, TypeOK, Held, AgentHeld
<1>21. CASE StopAgent(p)
  BY <1>21, NamesApart DEF StopAgent, TypeOK, Held, AgentHeld
<1>22. CASE Restore(p)
  BY <1>22, NamesApart DEF Restore, AfterTerraform, Inherited, TypeOK, Held, AgentHeld
<1>23. CASE EnsureCollections(p)
  BY <1>23, NamesApart DEF EnsureCollections, Marker, TypeOK, Held, AgentHeld
<1>24. CASE Galaxy(p)
  BY <1>24, NamesApart DEF Galaxy, TypeOK, Held, AgentHeld
<1>25. CASE Play(p)
  BY <1>25, NamesApart DEF Play, TypeOK, Held, AgentHeld
<1>26. CASE Exec(p)
  BY <1>26, NamesApart DEF Exec, Over, TypeOK, Held, AgentHeld
<1>27. CASE Copy(p)
  BY <1>27, NamesApart DEF Copy, TypeOK, Held, AgentHeld
<1>28. CASE OpenPrivate(p)
  BY <1>28, NamesApart DEF OpenPrivate, TypeOK, Held, AgentHeld
<1>29. CASE LookPublic(p)
  BY <1>29, NamesApart DEF LookPublic, TypeOK, Held, AgentHeld
<1>q. QED
  BY <1>1, <1>2, <1>3, <1>4, <1>5, <1>6, <1>7, <1>8, <1>9, <1>10, <1>11, <1>12, <1>13,
     <1>14, <1>15, <1>16, <1>17, <1>18, <1>19, <1>20, <1>21, <1>22, <1>23, <1>24,
     <1>25, <1>26, <1>27, <1>28, <1>29 DEF Step

-----------------------------------------------------------------------------
(* Keypairs.                                                               *)

\* Commands on one service stay known to one another.
LEMMA CompanyStep ==
  ASSUME TypeOK, Keys, NEW p \in Procs, Step(p)
  PROVE  Company'
<1> USE DEF desk, keys, held, own, Goto
<1>1. CASE Fail(p)
  <2>1. FailOnly(p)
    BY <1>1, FailsOnly
  <2>q. QED
    BY <2>1, NamesApart DEF FailOnly, Guarded, Exposed, Working, TypeOK, Keys, Company, Busy, Svc
<1>2. CASE Killed(p)
  BY <1>2, NamesApart DEF Killed, Over, Working, TypeOK, Keys, Company, Busy, Svc
<1>3. CASE Exit(p)
  BY <1>3, NamesApart DEF Exit, Over, TypeOK, Keys, Company, Busy, Svc
<1>4. CASE Return(p)
  BY <1>4, NamesApart DEF Return, TypeOK, Keys, Company, Busy, Svc
<1>5. CASE SecretsPlain(p)
  BY <1>5, NamesApart DEF SecretsPlain, AfterSecrets, Unneeded, TypeOK, Keys, Company,
     Busy, Svc
<1>6. CASE SecretsByFile(p)
  BY <1>6, NamesApart DEF SecretsByFile, Unneeded, TypeOK, Keys, Company, Busy, Svc
<1>7. CASE SecretsAsked(p)
  BY <1>7, NamesApart DEF SecretsAsked, Unneeded, TypeOK, Keys, Company, Busy, Svc
<1>8. CASE Register(p)
  BY <1>8, NamesApart DEF Register, TypeOK, Keys, Company, Busy, Svc
<1>9. CASE View(p)
  BY <1>9, NamesApart DEF View, AfterSecrets, TypeOK, Keys, Company, Busy, Svc
<1>10. CASE Keygen(p)
  BY <1>10, NamesApart DEF Keygen, TypeOK, Keys, Company, Busy, Svc
<1>11. CASE WritePrivate(p)
  BY <1>11, NamesApart DEF WritePrivate, TypeOK, Keys, Company, Busy, Svc
<1>12. CASE WritePublic(p)
  BY <1>12, NamesApart DEF WritePublic, TypeOK, Keys, Company, Busy, Svc
<1>13. CASE Derive(p)
  BY <1>13, NamesApart DEF Derive, TypeOK, Keys, Company, Busy, Svc
<1>14. CASE ReadKey(p)
  BY <1>14, NamesApart DEF ReadKey, TypeOK, Keys, Company, Busy, Svc
<1>15. CASE UseAgent(p)
  BY <1>15, NamesApart DEF UseAgent, Inherited, TypeOK, Keys, Company, Busy, Svc
<1>16. CASE StartAgent(p)
  BY <1>16, NamesApart DEF StartAgent, TypeOK, Keys, Company, Busy, Svc
<1>17. CASE AdoptAgent(p)
  BY <1>17, NamesApart DEF AdoptAgent, TypeOK, Keys, Company, Busy, Svc
<1>18. CASE AddKey(p)
  BY <1>18, NamesApart DEF AddKey, TypeOK, Keys, Company, Busy, Svc
<1>19. CASE Terraform(p)
  BY <1>19, NamesApart DEF Terraform, AfterTerraform, TypeOK, Keys, Company, Busy, Svc
<1>20. CASE TerraformPart(p)
  BY <1>20, NamesApart DEF TerraformPart, TypeOK, Keys, Company, Busy, Svc
<1>21. CASE StopAgent(p)
  BY <1>21, NamesApart DEF StopAgent, TypeOK, Keys, Company, Busy, Svc
<1>22. CASE Restore(p)
  BY <1>22, NamesApart DEF Restore, AfterTerraform, Inherited, TypeOK, Keys, Company,
     Busy, Svc
<1>23. CASE EnsureCollections(p)
  BY <1>23, NamesApart DEF EnsureCollections, Marker, TypeOK, Keys, Company, Busy, Svc
<1>24. CASE Galaxy(p)
  BY <1>24, NamesApart DEF Galaxy, TypeOK, Keys, Company, Busy, Svc
<1>25. CASE Play(p)
  BY <1>25, NamesApart DEF Play, TypeOK, Keys, Company, Busy, Svc
<1>26. CASE Exec(p)
  BY <1>26, NamesApart DEF Exec, Over, TypeOK, Keys, Company, Busy, Svc
<1>27. CASE Copy(p)
  BY <1>27, NamesApart DEF Copy, TypeOK, Keys, Company, Busy, Svc
<1>28. CASE OpenPrivate(p)
  BY <1>28, NamesApart DEF OpenPrivate, TypeOK, Keys, Company, Stage, Busy, Cmd, Svc
<1>29. CASE LookPublic(p)
  BY <1>29, NamesApart DEF LookPublic, TypeOK, Keys, Company, Busy, Svc
<1>q. QED
  BY <1>1, <1>2, <1>3, <1>4, <1>5, <1>6, <1>7, <1>8, <1>9, <1>10, <1>11, <1>12, <1>13,
     <1>14, <1>15, <1>16, <1>17, <1>18, <1>19, <1>20, <1>21, <1>22, <1>23, <1>24,
     <1>25, <1>26, <1>27, <1>28, <1>29 DEF Step

\* Keypairs stay paired.
LEMMA PairedStep ==
  ASSUME TypeOK, Keys, NEW s \in Services, NEW p \in Procs, Step(p)
  PROVE  Paired(s)'
<1> USE DEF desk, keys, held, own, Goto
<1>1. CASE Fail(p)
  BY <1>1, NamesApart DEF Fail, Working, Exposed, Guarded, TypeOK, Keys, Paired
<1>2. CASE Killed(p)
  BY <1>2, NamesApart DEF Killed, Over, Working, TypeOK, Keys, Paired
<1>3. CASE Exit(p)
  BY <1>3, NamesApart DEF Exit, Over, TypeOK, Keys, Paired
<1>4. CASE Return(p)
  BY <1>4, NamesApart DEF Return, TypeOK, Keys, Paired
<1>5. CASE SecretsPlain(p)
  BY <1>5, NamesApart DEF SecretsPlain, AfterSecrets, Unneeded, TypeOK, Keys, Paired
<1>6. CASE SecretsByFile(p)
  BY <1>6, NamesApart DEF SecretsByFile, Unneeded, TypeOK, Keys, Paired
<1>7. CASE SecretsAsked(p)
  BY <1>7, NamesApart DEF SecretsAsked, Unneeded, TypeOK, Keys, Paired
<1>8. CASE Register(p)
  BY <1>8, NamesApart DEF Register, TypeOK, Keys, Paired
<1>9. CASE View(p)
  BY <1>9, NamesApart DEF View, AfterSecrets, TypeOK, Keys, Paired
<1>10. CASE Keygen(p)
  BY <1>10, NamesApart DEF Keygen, TypeOK, Keys, Paired, Stage, Busy, KeyNums, Files,
     Cmd, Svc, UsesKeypair, ServiceCommands, SiteCommands
<1>11. CASE WritePrivate(p)
  BY <1>11, NamesApart DEF WritePrivate, TypeOK, Keys, Paired, Stage, Busy, KeyNums,
     Files, Cmd, Svc, UsesKeypair, ServiceCommands, SiteCommands
<1>12. CASE WritePublic(p)
  BY <1>12, NamesApart DEF WritePublic, TypeOK, Keys, Paired, Stage, Busy, KeyNums,
     Files, Cmd, Svc, UsesKeypair, ServiceCommands, SiteCommands
<1>13. CASE Derive(p)
  BY <1>13, NamesApart DEF Derive, TypeOK, Keys, Paired, Stage, Busy, KeyNums, Files,
     Cmd, Svc, UsesKeypair, ServiceCommands, SiteCommands
<1>14. CASE ReadKey(p)
  BY <1>14, NamesApart DEF ReadKey, TypeOK, Keys, Paired
<1>15. CASE UseAgent(p)
  BY <1>15, NamesApart DEF UseAgent, Inherited, TypeOK, Keys, Paired
<1>16. CASE StartAgent(p)
  BY <1>16, NamesApart DEF StartAgent, TypeOK, Keys, Paired
<1>17. CASE AdoptAgent(p)
  BY <1>17, NamesApart DEF AdoptAgent, TypeOK, Keys, Paired
<1>18. CASE AddKey(p)
  BY <1>18, NamesApart DEF AddKey, TypeOK, Keys, Paired
<1>19. CASE Terraform(p)
  BY <1>19, NamesApart DEF Terraform, AfterTerraform, TypeOK, Keys, Paired
<1>20. CASE TerraformPart(p)
  BY <1>20, NamesApart DEF TerraformPart, TypeOK, Keys, Paired
<1>21. CASE StopAgent(p)
  BY <1>21, NamesApart DEF StopAgent, TypeOK, Keys, Paired
<1>22. CASE Restore(p)
  BY <1>22, NamesApart DEF Restore, AfterTerraform, Inherited, TypeOK, Keys, Paired
<1>23. CASE EnsureCollections(p)
  BY <1>23, NamesApart DEF EnsureCollections, Marker, TypeOK, Keys, Paired
<1>24. CASE Galaxy(p)
  BY <1>24, NamesApart DEF Galaxy, TypeOK, Keys, Paired
<1>25. CASE Play(p)
  BY <1>25, NamesApart DEF Play, TypeOK, Keys, Paired
<1>26. CASE Exec(p)
  BY <1>26, NamesApart DEF Exec, Over, TypeOK, Keys, Paired
<1>27. CASE Copy(p)
  BY <1>27, NamesApart DEF Copy, TypeOK, Keys, Paired
<1>28. CASE OpenPrivate(p)
  BY <1>28, NamesApart DEF OpenPrivate, TypeOK, Keys, Paired, Stage, Busy, KeyNums, Files,
     Cmd, Svc, UsesKeypair, ServiceCommands, SiteCommands
<1>29. CASE LookPublic(p)
  BY <1>29, NamesApart DEF LookPublic, TypeOK, Keys, Paired, Stage, Busy, KeyNums, Files,
     Cmd, Svc, UsesKeypair, ServiceCommands, SiteCommands
<1>q. QED
  BY <1>1, <1>2, <1>3, <1>4, <1>5, <1>6, <1>7, <1>8, <1>9, <1>10, <1>11, <1>12, <1>13,
     <1>14, <1>15, <1>16, <1>17, <1>18, <1>19, <1>20, <1>21, <1>22, <1>23, <1>24,
     <1>25, <1>26, <1>27, <1>28, <1>29 DEF Step

\* What a command has established stays so, whatever another one does.
LEMMA StageStep ==
  ASSUME TypeOK, Keys, NEW q \in Procs, NEW p \in Procs, Step(p)
  PROVE  Stage(q)'
<1> USE DEF desk, keys, held, own, Goto
<1>1. CASE Fail(p)
  <2>1. FailOnly(p)
    BY <1>1, FailsOnly
  <2>2. CASE q = p
    BY <2>1, <2>2 DEF FailOnly, Guarded, Working, TypeOK, Keys, Stage, Ready, Busy, Cmd, Svc
  <2>3. CASE q # p
    BY <2>1, <2>3 DEF FailOnly, TypeOK, Keys, Stage, Ready, Busy, Cmd, Svc
  <2>q. QED
    BY <2>2, <2>3
<1>2. CASE Killed(p)
  BY <1>2, NamesApart DEF Killed, Over, Working, TypeOK, Keys, Company, Paired, Stage,
     Ready, Busy, KeyNums, Files, Cmd, Svc, UsesKeypair, ServiceCommands, SiteCommands
<1>3. CASE Exit(p)
  BY <1>3, NamesApart DEF Exit, Over, TypeOK, Keys, Company, Paired, Stage, Ready, Busy,
     KeyNums, Files, Cmd, Svc, UsesKeypair, ServiceCommands, SiteCommands
<1>4. CASE Return(p)
  BY <1>4, NamesApart DEF Return, TypeOK, Keys, Company, Paired, Stage, Ready, Busy,
     KeyNums, Files, Cmd, Svc, UsesKeypair, ServiceCommands, SiteCommands
<1>5. CASE SecretsPlain(p)
  BY <1>5, NamesApart DEF SecretsPlain, AfterSecrets, Unneeded, TypeOK, Keys, Company,
     Paired, Stage, Ready, Busy, KeyNums, Files, Cmd, Svc, UsesKeypair,
     ServiceCommands, SiteCommands
<1>6. CASE SecretsByFile(p)
  BY <1>6, NamesApart DEF SecretsByFile, Unneeded, TypeOK, Keys, Company, Paired, Stage,
     Ready, Busy, KeyNums, Files, Cmd, Svc, UsesKeypair, ServiceCommands, SiteCommands
<1>7. CASE SecretsAsked(p)
  BY <1>7, NamesApart DEF SecretsAsked, Unneeded, TypeOK, Keys, Company, Paired, Stage,
     Ready, Busy, KeyNums, Files, Cmd, Svc, UsesKeypair, ServiceCommands, SiteCommands
<1>8. CASE Register(p)
  BY <1>8, NamesApart DEF Register, TypeOK, Keys, Company, Paired, Stage, Ready, Busy,
     KeyNums, Files, Cmd, Svc, UsesKeypair, ServiceCommands, SiteCommands
<1>9. CASE View(p)
  BY <1>9, NamesApart DEF View, AfterSecrets, TypeOK, Keys, Company, Paired, Stage,
     Ready, Busy, KeyNums, Files, Cmd, Svc, UsesKeypair, ServiceCommands, SiteCommands
<1>10. CASE Keygen(p)
  BY <1>10, NamesApart DEF Keygen, TypeOK, Keys, Company, Paired, Stage, Ready, Busy,
     KeyNums, Files, Cmd, Svc, UsesKeypair, ServiceCommands, SiteCommands
<1>11. CASE WritePrivate(p)
  BY <1>11, NamesApart DEF WritePrivate, TypeOK, Keys, Company, Paired, Stage, Ready,
     Busy, KeyNums, Files, Cmd, Svc, UsesKeypair, ServiceCommands, SiteCommands
<1>12. CASE WritePublic(p)
  BY <1>12, NamesApart DEF WritePublic, TypeOK, Keys, Company, Paired, Stage, Ready,
     Busy, KeyNums, Files, Cmd, Svc, UsesKeypair, ServiceCommands, SiteCommands
<1>13. CASE Derive(p)
  BY <1>13, NamesApart DEF Derive, TypeOK, Keys, Company, Paired, Stage, Ready, Busy,
     KeyNums, Files, Cmd, Svc, UsesKeypair, ServiceCommands, SiteCommands
<1>14. CASE ReadKey(p)
  BY <1>14, NamesApart DEF ReadKey, TypeOK, Keys, Company, Paired, Stage, Ready, Busy,
     KeyNums, Files, Cmd, Svc, UsesKeypair, ServiceCommands, SiteCommands
<1>15. CASE UseAgent(p)
  BY <1>15, NamesApart DEF UseAgent, Inherited, TypeOK, Keys, Company, Paired, Stage,
     Ready, Busy, KeyNums, Files, Cmd, Svc, UsesKeypair, ServiceCommands, SiteCommands
<1>16. CASE StartAgent(p)
  BY <1>16, NamesApart DEF StartAgent, TypeOK, Keys, Company, Paired, Stage, Ready,
     Busy, KeyNums, Files, Cmd, Svc, UsesKeypair, ServiceCommands, SiteCommands
<1>17. CASE AdoptAgent(p)
  BY <1>17, NamesApart DEF AdoptAgent, TypeOK, Keys, Company, Paired, Stage, Ready,
     Busy, KeyNums, Files, Cmd, Svc, UsesKeypair, ServiceCommands, SiteCommands
<1>18. CASE AddKey(p)
  BY <1>18, NamesApart DEF AddKey, TypeOK, Keys, Company, Paired, Stage, Ready, Busy,
     KeyNums, Files, Cmd, Svc, UsesKeypair, ServiceCommands, SiteCommands
<1>19. CASE Terraform(p)
  BY <1>19, NamesApart DEF Terraform, AfterTerraform, TypeOK, Keys, Company, Paired,
     Stage, Ready, Busy, KeyNums, Files, Cmd, Svc, UsesKeypair, ServiceCommands,
     SiteCommands
<1>20. CASE TerraformPart(p)
  BY <1>20, NamesApart DEF TerraformPart, TypeOK, Keys, Company, Paired, Stage, Ready,
     Busy, KeyNums, Files, Cmd, Svc, UsesKeypair, ServiceCommands, SiteCommands
<1>21. CASE StopAgent(p)
  BY <1>21, NamesApart DEF StopAgent, TypeOK, Keys, Company, Paired, Stage, Ready, Busy,
     KeyNums, Files, Cmd, Svc, UsesKeypair, ServiceCommands, SiteCommands
<1>22. CASE Restore(p)
  BY <1>22, NamesApart DEF Restore, AfterTerraform, Inherited, TypeOK, Keys, Company,
     Paired, Stage, Ready, Busy, KeyNums, Files, Cmd, Svc, UsesKeypair,
     ServiceCommands, SiteCommands
<1>23. CASE EnsureCollections(p)
  BY <1>23, NamesApart DEF EnsureCollections, Marker, TypeOK, Keys, Company, Paired,
     Stage, Ready, Busy, KeyNums, Files, Cmd, Svc, UsesKeypair, ServiceCommands,
     SiteCommands
<1>24. CASE Galaxy(p)
  BY <1>24, NamesApart DEF Galaxy, TypeOK, Keys, Company, Paired, Stage, Ready, Busy,
     KeyNums, Files, Cmd, Svc, UsesKeypair, ServiceCommands, SiteCommands
<1>25. CASE Play(p)
  BY <1>25, NamesApart DEF Play, TypeOK, Keys, Company, Paired, Stage, Ready, Busy,
     KeyNums, Files, Cmd, Svc, UsesKeypair, ServiceCommands, SiteCommands
<1>26. CASE Exec(p)
  BY <1>26, NamesApart DEF Exec, Over, TypeOK, Keys, Company, Paired, Stage, Ready,
     Busy, KeyNums, Files, Cmd, Svc, UsesKeypair, ServiceCommands, SiteCommands
<1>27. CASE Copy(p)
  BY <1>27, NamesApart DEF Copy, TypeOK, Keys, Company, Paired, Stage, Ready, Busy,
     KeyNums, Files, Cmd, Svc, UsesKeypair, ServiceCommands, SiteCommands
<1>28. CASE OpenPrivate(p)
  BY <1>28, NamesApart DEF OpenPrivate, TypeOK, Keys, Company, Paired, Stage, Ready, Busy,
     KeyNums, Files, Cmd, Svc, UsesKeypair, ServiceCommands, SiteCommands
<1>29. CASE LookPublic(p)
  BY <1>29, NamesApart DEF LookPublic, TypeOK, Keys, Company, Paired, Stage, Ready, Busy,
     KeyNums, Files, Cmd, Svc, UsesKeypair, ServiceCommands, SiteCommands
<1>q. QED
  BY <1>1, <1>2, <1>3, <1>4, <1>5, <1>6, <1>7, <1>8, <1>9, <1>10, <1>11, <1>12, <1>13,
     <1>14, <1>15, <1>16, <1>17, <1>18, <1>19, <1>20, <1>21, <1>22, <1>23, <1>24,
     <1>25, <1>26, <1>27, <1>28, <1>29 DEF Step

-----------------------------------------------------------------------------
(* Collections.                                                            *)

\* An install that stops after it has begun is one that was left in the middle.
LEMMA CollectedStep ==
  ASSUME TypeOK, Collected, NEW p \in Procs, Step(p)
  PROVE  Collected'
<1> USE DEF desk, keys, held, own, Goto
<1>1. CASE Fail(p)
  <2>1. /\ partial => partial'
        /\ pc[p] = "galaxy" /\ Marker \in collections => partial'
    BY <1>1, Zenon DEF Fail
  <2>2. /\ collections' = collections
        /\ pc' = [pc EXCEPT ![p] = pc'[p]] /\ pc'[p] \notin {"galaxy", "play"}
    BY <1>1 DEF Fail, Guarded, TypeOK
  <2>q. QED
    BY <2>1, <2>2 DEF Collected, TypeOK
<1>2. CASE Killed(p)
  <2>1. /\ partial => partial'
        /\ pc[p] = "galaxy" /\ Marker \in collections => partial'
    BY <1>2, Zenon DEF Killed
  <2>2. /\ collections' = collections
        /\ pc' = [pc EXCEPT ![p] = pc'[p]] /\ pc'[p] \notin {"galaxy", "play"}
    BY <1>2 DEF Killed, Over, TypeOK
  <2>q. QED
    BY <2>1, <2>2 DEF Collected, TypeOK
<1>3. CASE Exit(p)
  BY <1>3, NamesApart DEF Exit, Over, TypeOK, Collected
<1>4. CASE Return(p)
  BY <1>4, NamesApart DEF Return, TypeOK, Collected
<1>5. CASE SecretsPlain(p)
  BY <1>5, NamesApart DEF SecretsPlain, AfterSecrets, Unneeded, TypeOK, Collected
<1>6. CASE SecretsByFile(p)
  BY <1>6, NamesApart DEF SecretsByFile, Unneeded, TypeOK, Collected
<1>7. CASE SecretsAsked(p)
  BY <1>7, NamesApart DEF SecretsAsked, Unneeded, TypeOK, Collected
<1>8. CASE Register(p)
  BY <1>8, NamesApart DEF Register, TypeOK, Collected
<1>9. CASE View(p)
  BY <1>9, NamesApart DEF View, AfterSecrets, TypeOK, Collected
<1>10. CASE Keygen(p)
  BY <1>10, NamesApart DEF Keygen, TypeOK, Collected
<1>11. CASE WritePrivate(p)
  BY <1>11, NamesApart DEF WritePrivate, TypeOK, Collected
<1>12. CASE WritePublic(p)
  BY <1>12, NamesApart DEF WritePublic, TypeOK, Collected
<1>13. CASE Derive(p)
  BY <1>13, NamesApart DEF Derive, TypeOK, Collected
<1>14. CASE ReadKey(p)
  BY <1>14, NamesApart DEF ReadKey, TypeOK, Collected
<1>15. CASE UseAgent(p)
  BY <1>15, NamesApart DEF UseAgent, Inherited, TypeOK, Collected
<1>16. CASE StartAgent(p)
  BY <1>16, NamesApart DEF StartAgent, TypeOK, Collected
<1>17. CASE AdoptAgent(p)
  BY <1>17, NamesApart DEF AdoptAgent, TypeOK, Collected
<1>18. CASE AddKey(p)
  BY <1>18, NamesApart DEF AddKey, TypeOK, Collected
<1>19. CASE Terraform(p)
  BY <1>19, NamesApart DEF Terraform, AfterTerraform, TypeOK, Collected
<1>20. CASE TerraformPart(p)
  BY <1>20, NamesApart DEF TerraformPart, TypeOK, Collected
<1>21. CASE StopAgent(p)
  BY <1>21, NamesApart DEF StopAgent, TypeOK, Collected
<1>22. CASE Restore(p)
  BY <1>22, NamesApart DEF Restore, AfterTerraform, Inherited, TypeOK, Collected
<1>23. CASE EnsureCollections(p)
  BY <1>23, NamesApart DEF EnsureCollections, Marker, TypeOK, Collected
<1>24. CASE Galaxy(p)
  <2>1. CASE collections = Collections
    <3>1. collections' = collections /\ pc' = [pc EXCEPT ![p] = pc'[p]]
      BY <1>24, <2>1 DEF Galaxy, TypeOK
    <3>q. QED
      BY <2>1, <3>1 DEF Collected, Marker, Collections
  <2>2. CASE collections # Collections
    <3>1. pc[p] = "galaxy" /\ pc' = pc /\ collections \subseteq collections'
      BY <1>24, <2>2 DEF Galaxy
    <3>q. QED
      BY <3>1 DEF Collected
  <2>q. QED
    BY <2>1, <2>2
<1>25. CASE Play(p)
  BY <1>25, NamesApart DEF Play, TypeOK, Collected
<1>26. CASE Exec(p)
  BY <1>26, NamesApart DEF Exec, Over, TypeOK, Collected
<1>27. CASE Copy(p)
  BY <1>27, NamesApart DEF Copy, TypeOK, Collected
<1>28. CASE OpenPrivate(p)
  BY <1>28, NamesApart DEF OpenPrivate, TypeOK, Collected
<1>29. CASE LookPublic(p)
  BY <1>29, NamesApart DEF LookPublic, TypeOK, Collected
<1>q. QED
  BY <1>1, <1>2, <1>3, <1>4, <1>5, <1>6, <1>7, <1>8, <1>9, <1>10, <1>11, <1>12, <1>13,
     <1>14, <1>15, <1>16, <1>17, <1>18, <1>19, <1>20, <1>21, <1>22, <1>23, <1>24,
     <1>25, <1>26, <1>27, <1>28, <1>29 DEF Step

-----------------------------------------------------------------------------
(* The operator's steps, and the invariant.                                *)

Inv == TypeOK /\ Held /\ Keys /\ Collected

LEMMA InvInit == Init => Inv
<1> SUFFICES ASSUME Init PROVE Inv
  OBVIOUS
<1> USE NamesApart DEF Init
<1>1. TypeOK
  <2>1. agents \subseteq Procs \cup {Operator} /\ loaded \subseteq agents
    OBVIOUS
  <2>2. /\ setup \in Setups /\ secrets \in {"none", "plain", "vault"}
        /\ passwords \subseteq Procs \cup {Operator}
        /\ collections \subseteq Collections /\ partial \in BOOLEAN
    OBVIOUS
  <2>3. /\ private \in [Services -> Files] /\ public \in [Services -> Files \ {Torn}]
        /\ made \in [Services -> 0..MaxKeys] /\ vmkey \in [Services -> Files \ {Torn}]
    BY DEF Files
  <2>q. QED
    BY <2>1, <2>2, <2>3, NoKey DEF TypeOK, Places
<1>2. Held
  BY DEF Held, AgentHeld, PasswordHeld, Before, Inherited
<1>3. Keys
  BY DEF Keys, Company, Paired, Stage, Ready, Busy, KeyNums
<1>4. Collected
  BY DEF Collected, Marker
<1>q. QED
  BY <1>1, <1>2, <1>3, <1>4 DEF Inv

\* Keys may be lost or discarded, and secrets encrypted, between commands.
LEMMA OperatorInv ==
  ASSUME Inv, Encrypt \/ \E s \in Services : LosePublic(s) \/ DiscardKeys(s)
  PROVE  Inv'
<1> USE NamesApart DEF desk, keys, held, own, Inv
<1>1. CASE Encrypt
  <2>1. /\ setup' = setup /\ secrets' = "vault" /\ collections' = collections
        /\ partial' = partial
        /\ UNCHANGED <<keys, held, pc, job, own>>
    BY <1>1 DEF Encrypt
  <2>2. TypeOK'
    BY <2>1 DEF TypeOK
  <2>3. Held'
    BY <2>1 DEF Held, AgentHeld, PasswordHeld, Inherited
  <2>4. Keys'
    BY <2>1 DEF Keys, Company, Paired, Stage, Busy, Svc, Cmd
  <2>5. Collected'
    BY <2>1 DEF Collected
  <2>q. QED
    BY <2>2, <2>3, <2>4, <2>5
<1>2. ASSUME NEW s \in Services, LosePublic(s) \/ DiscardKeys(s)
      PROVE  Inv'
  <2>1. /\ \A p \in Procs : Busy(p) => Svc(p) # s
        /\ private' = [private EXCEPT ![s] = private'[s]]
        /\ (private'[s] = private[s] /\ private[s] \in KeyNums) \/ private'[s] = None
        /\ public' = [public EXCEPT ![s] = None]
        /\ UNCHANGED <<desk, made, vmkey, held, pc, job, own>>
    BY <1>2 DEF LosePublic, DiscardKeys, OnService, Working, Busy, TypeOK
  <2>2. TypeOK'
    BY <2>1 DEF TypeOK, Files
  <2>3. Held'
    BY <2>1 DEF Held, AgentHeld, PasswordHeld, Inherited
  <2>4. Company' /\ \A r \in Services : Paired(r)'
    BY <2>1 DEF Keys, Company, Paired, Busy, Svc, TypeOK, KeyNums
  <2>5. \A p \in Procs : Stage(p)'
    BY <2>1 DEF Keys, Stage, Ready, Busy, Svc, Cmd, TypeOK, UsesKeypair, ServiceCommands, SiteCommands
  <2>6. Collected'
    BY <2>1 DEF Collected
  <2>q. QED
    BY <2>2, <2>3, <2>4, <2>5, <2>6 DEF Keys
<1>q. QED
  BY <1>1, <1>2

\* A command starts with nothing of its own, beside others or not.
LEMMA BeginInv ==
  ASSUME Inv, NEW p \in Procs, NEW cmd \in ServiceCommands \cup SiteCommands,
         NEW s \in Services \cup {None}, Begin(p, cmd, s)
  PROVE  Inv'
<1> USE NamesApart DEF desk, keys, held, own, Inv
<1>1. /\ pc[p] = "idle"
      /\ \/ cmd \in ServiceCommands /\ s \in Services
         \/ cmd \in SiteCommands /\ s = None
      /\ job' = [job EXCEPT ![p] = [cmd |-> cmd, svc |-> s]]
      /\ env' = [env EXCEPT ![p] = Inherited]
      /\ UNCHANGED <<desk, keys, held, password, registered, failed, cut, key>>
      /\ met \subseteq met' /\ met' \subseteq Procs
  BY DEF Begin, TypeOK
<1>a. /\ pc' = [pc EXCEPT ![p] = pc'[p]]
      /\ \/ pc'[p] = "exec" /\ cmd = "ssh"
         \/ pc'[p] = "copy" /\ cmd = "init"
         \/ pc'[p] = "secrets"
  BY DEF Begin, TypeOK
<1>2. TypeOK'
  <2>1. [cmd |-> cmd, svc |-> s] \in Jobs
    BY DEF Jobs
  <2>q. QED
    BY <1>1, <1>a, <2>1 DEF TypeOK, Places, Inherited
<1>3. Held'
  BY <1>1, <1>a DEF Held, AgentHeld, PasswordHeld, Before, Inherited, TypeOK
<1>4. Company' /\ \A r \in Services : Paired(r)'
  <2>1. ASSUME NEW q \in Procs, q # p, Busy(q), Svc(q) = s, s # None
        PROVE  p \in met' /\ q \in met'
    BY <2>1 DEF Begin, OnService, Working, Busy
  <2>2. Company'
    BY <1>1, <1>a, <2>1 DEF Keys, Company, Busy, Svc, TypeOK
  <2>q. QED
    BY <1>1, <2>2 DEF Keys, Paired
<1>5. \A q \in Procs : Stage(q)'
  BY <1>1, <1>a DEF Keys, Stage, Ready, Busy, Svc, Cmd, TypeOK
<1>6. Collected'
  BY <1>1, <1>a DEF Collected, TypeOK
<1>q. QED
  BY <1>2, <1>3, <1>4, <1>5, <1>6 DEF Keys

LEMMA InvStep == Inv /\ [Next]_vars => Inv'
<1> SUFFICES ASSUME Inv, [Next]_vars PROVE Inv'
  OBVIOUS
<1>1. CASE Encrypt \/ \E s \in Services : LosePublic(s) \/ DiscardKeys(s)
  BY <1>1, OperatorInv
<1>2. ASSUME NEW p \in Procs, NEW cmd \in ServiceCommands \cup SiteCommands,
             NEW s \in Services \cup {None}, Begin(p, cmd, s)
      PROVE  Inv'
  BY <1>2, BeginInv
<1>3. ASSUME NEW p \in Procs, Step(p)
      PROVE  Inv'
  <2>1. TypeOK'
    BY <1>3, TypeStep DEF Inv
  <2>2. Held'
    BY <1>3, AgentStep, PasswordStep, OperatorStep DEF Inv, Held
  <2>3. Keys'
    BY <1>3, CompanyStep, PairedStep, StageStep DEF Inv, Keys
  <2>4. Collected'
    BY <1>3, CollectedStep DEF Inv
  <2>q. QED
    BY <2>1, <2>2, <2>3, <2>4 DEF Inv
<1>4. CASE UNCHANGED vars
  BY <1>4 DEF vars, desk, keys, held, own, Inv, TypeOK, Held, AgentHeld, PasswordHeld, Inherited,
              Keys, Company, Paired, Stage, Busy, Svc, Cmd, Collected
<1>q. QED
  BY <1>1, <1>2, <1>3, <1>4 DEF Next

LEMMA Invariance == Spec => []Inv
<1>q. QED
  BY InvInit, InvStep, PTL DEF Spec

-----------------------------------------------------------------------------
(* Theorems.                                                               *)

\* The variables keep their types; in particular no half-written private key
\* ever becomes a public key or reaches a VM.
THEOREM SessionTypeCorrect == Spec => []TypeOK
<1>1. Inv => TypeOK
  BY DEF Inv
<1>q. QED
  BY <1>1, Invariance, PTL

\* A command that was not cut leaves neither agent nor password file
\* (the finally of proxmox_ssh_agent, the atexit of _vault_password_file).
THEOREM NothingIsLeft == Spec => []NothingLeft
<1>1. Inv => NothingLeft
  BY DEF Inv, Held, AgentHeld, PasswordHeld, NothingLeft
<1>q. QED
  BY <1>1, Invariance, PTL

\* Terraform runs with a live agent that holds the Proxmox key, whatever
\* agents other commands stop meanwhile.
THEOREM AgentForTerraform == Spec => []TerraformHasAgent
<1>1. Inv => TerraformHasAgent
  BY NamesApart DEF Inv, Held, AgentHeld, TerraformHasAgent, TypeOK, AllSetups
<1>q. QED
  BY <1>1, Invariance, PTL

\* The vault password file of a playbook is there, whatever commands end
\* meanwhile.
THEOREM SecretsForPlaybook == Spec => []SecretsReadable
<1>1. Inv => SecretsReadable
  BY DEF Inv, Held, PasswordHeld, SecretsReadable
<1>q. QED
  BY <1>1, Invariance, PTL

\* The playbook of an up has the private key of the VM it has just applied, if
\* no other command has destroyed the VM: ensure_keypair before Terraform,
\* through any crash of an earlier command, with any number of commands on
\* the service in it at once.
THEOREM KeyFitsVM == Spec => []KeyOpensVM
<1>1. Inv => KeyOpensVM
  BY NamesApart DEF Inv, Keys, Paired, Stage, Ready, Cmd, Svc, KeyOpensVM, Busy, UsesKeypair,
                    ServiceCommands, SiteCommands
<1>q. QED
  BY <1>1, Invariance, PTL

\* A playbook lacks a collection only behind an install that was left in the
\* middle or is under way (ensure_collections looks for one of them).
THEOREM CollectionsInstalled == Spec => []CollectionsReady
<1>1. Inv => CollectionsReady
  BY DEF Inv, Collected, CollectionsReady
<1>q. QED
  BY <1>1, Invariance, PTL
=============================================================================
