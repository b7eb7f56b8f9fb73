----------------------- MODULE InstallLifecycleProofs -----------------------
(***************************************************************************)
(* Proofs about InstallLifecycle, for any number of agent processes and of  *)
(* tokens.  TokenInv says what a redemption guarantees; AloneInv that a     *)
(* command runs without an agent enrolling beside it; WrittenInv what an    *)
(* enrolment has put on the machine at each of its points; RemovedInv what  *)
(* a removal has taken off; FinishedInv that no agent enrols later and      *)
(* undoes a command that succeeded.                                         *)
(***************************************************************************)
EXTENDS InstallLifecycle, TLAPS

Finished == {"installed", "unlinked", "uninstalled"}

\* an identity on the machine was redeemed; agents redeem only the secret of
\* the configuration they were provisioned with
TokenInv ==
  /\ \A x \in Actors : pc[x] \in Material \union {"save"} => redeeming[x] \in spent
  /\ \A a \in Agents : redeeming[a] = Secret
  /\ config \in Tokens => config \in spent

\* a command has no outcome before it ends, and until the first clash no agent
\* enrols while one runs
AloneInv ==
  /\ pc[User] # "idle" => last = "none"
  /\ pc[User] # "idle" /\ ~clash => ~AgentEnrols

\* what enroll.Enroll has written for an actor at each of its points, and what
\* Install has set up before each of its own
Written == {"save", "protect", "register", "start", "wait"}

WrittenInv ==
  ~clash =>
    /\ \A x \in Actors :
         /\ pc[x] \in {"key", "ca"} \union Written => disk["cert"] = redeeming[x]
         /\ pc[x] \in {"ca"} \union Written => disk["key"] = redeeming[x]
         /\ pc[x] \in Written => disk["ca"] = redeeming[x]
    /\ pc[User] \in {"protect", "register", "start", "wait"} => config = redeeming[User]
    /\ pc[User] \in {"register", "start", "wait"} => keyPrivate
    /\ pc[User] \in {"start", "wait"} => runKey

\* what a removal relies on
RemovedInv ==
  /\ pc[User] = "rmRun" /\ ~clash => config = Absent
  /\ pc[User] = "rmAll" => ~runKey

\* nor does an agent that starts after one that succeeded
FinishedInv ==
  last \in Finished /\ ~clash => ~AgentEnrols /\ config # Provisioned

----------------------------------------------------------------------------
(* A step is one of enroll.Enroll for some actor, of the user's command, or *)
(* of an agent process.                                                     *)
LEMMA NextCases ==
  ASSUME Next
  PROVE  \/ \E a \in Actors : \/ Redeem(a) \/ RedeemFails(a)
                              \/ \E f \in Material : pc[a] = f /\ WriteMaterial(a, f)
                              \/ SaveConfig(a) \/ WriteFails(a)
         \/ \E t \in Tokens \ {Secret} : BeginInstall(t)
         \/ VerifyAgent \/ ProtectKey \/ RegisterStartup
         \/ \E a \in Agents : StartAgent(a)
         \/ SeesConnected \/ InstallFails
         \/ \E whole \in BOOLEAN : BeginRemoval(whole)
         \/ LoadForUnlink \/ RemoveMaterial \/ RemoveConfig \/ RemoveRunEntry \/ UnlinkFails
         \/ WriteTombstone \/ RemoveTask \/ RemoveAll \/ RemoveAllFails \/ UninstallFails
         \/ CommandAborted
         \/ \E a \in Agents : Launch(a) \/ Connects(a) \/ LinkDrops(a) \/ AgentDies(a)
BY DEF Next, Installs, Removes, AgentRuns, Enrols, Actors

(* The points of enroll.Enroll follow one another in this order.            *)
LEMMA EnrolOrder ==
  /\ Then("redeem") = "cert" /\ Then("cert") = "key"
  /\ Then("key") = "ca" /\ Then("ca") = "save"
BY DEF Then

(* Every file, token and process stays what it is named to be.              *)
THEOREM TypeInvariant == Spec => []TypeOK
<1>1. Init => TypeOK
  BY TokensAssumption, ActorsAssumption
     DEF Init, TypeOK, Actors, Material, Enrolling, UserPoints, AgentPoints, Outcomes
<1>2. TypeOK /\ [Next]_vars => TypeOK'
  <2> SUFFICES ASSUME TypeOK, [Next]_vars
               PROVE  TypeOK'
    OBVIOUS
  <2> USE TokensAssumption, ActorsAssumption
      DEF TypeOK, onDisk, command, server, Goto, Step, GiveUp,
          Actors, Enrolling, UserPoints, AgentPoints, Outcomes
  <2>1. ASSUME NEW a \in Actors, Redeem(a) PROVE TypeOK'
    BY <2>1, EnrolOrder DEF Redeem, Material
  <2>2. ASSUME NEW a \in Actors, RedeemFails(a) PROVE TypeOK'
    BY <2>2 DEF RedeemFails
  <2>3. ASSUME NEW a \in Actors, NEW f \in Material, pc[a] = f, WriteMaterial(a, f) PROVE TypeOK'
    BY <2>3, EnrolOrder DEF WriteMaterial, Material
  <2>4. ASSUME NEW a \in Actors, SaveConfig(a) PROVE TypeOK'
    BY <2>4 DEF SaveConfig
  <2>5. ASSUME NEW a \in Actors, WriteFails(a) PROVE TypeOK'
    BY <2>5 DEF WriteFails
  <2>6. ASSUME NEW t \in Tokens \ {Secret}, BeginInstall(t) PROVE TypeOK'
    BY <2>6 DEF BeginInstall, AgentEnrols
  <2>7. CASE VerifyAgent \/ ProtectKey \/ RegisterStartup
    BY <2>7 DEF VerifyAgent, ProtectKey, RegisterStartup
  <2>8. ASSUME NEW a \in Agents, StartAgent(a) PROVE TypeOK'
    BY <2>8 DEF StartAgent, Boot, AgentEnrols
  <2>9. CASE SeesConnected \/ InstallFails
    BY <2>9 DEF SeesConnected, InstallFails
  <2>10. ASSUME NEW whole \in BOOLEAN, BeginRemoval(whole) PROVE TypeOK'
    BY <2>10 DEF BeginRemoval, AgentEnrols
  <2>11. CASE LoadForUnlink \/ RemoveConfig \/ RemoveRunEntry \/ UnlinkFails
    BY <2>11 DEF LoadForUnlink, RemoveConfig, RemoveRunEntry, UnlinkFails
  <2>12. CASE RemoveMaterial
    BY <2>12 DEF RemoveMaterial
  <2>13. CASE WriteTombstone \/ RemoveTask
    BY <2>13 DEF WriteTombstone, RemoveTask
  <2>14. CASE UninstallFails \/ CommandAborted
    BY <2>14 DEF UninstallFails, CommandAborted
  <2>15. CASE RemoveAll
    BY <2>15 DEF RemoveAll
  <2>16. CASE RemoveAllFails
    BY <2>16 DEF RemoveAllFails
  <2>17. ASSUME NEW a \in Agents, Launch(a) PROVE TypeOK'
    BY <2>17 DEF Launch, Boot, AgentEnrols
  <2>18. ASSUME NEW a \in Agents, Connects(a) \/ LinkDrops(a) \/ AgentDies(a) PROVE TypeOK'
    BY <2>18 DEF Connects, LinkDrops, AgentDies
  <2>19. CASE UNCHANGED vars
    BY <2>19 DEF vars
  <2> QED
    BY <2>1, <2>2, <2>3, <2>4, <2>5, <2>6, <2>7, <2>8, <2>9, <2>10, <2>11, <2>12,
       <2>13, <2>15, <2>16, <2>17, <2>18, <2>19, <2>14, NextCases
<1> QED
  BY <1>1, <1>2, PTL DEF Spec

----------------------------------------------------------------------------
(* The user's command moves without moving an agent.                        *)
LEMMA UserMoves ==
  ASSUME TypeOK, NEW point, Goto(User, point)
  PROVE  /\ pc'[User] = point
         /\ \A a \in Agents : pc'[a] = pc[a]
         /\ AgentEnrols' <=> AgentEnrols
<1>1. pc'[User] = point /\ \A a \in Agents : pc'[a] = pc[a]
  BY ActorsAssumption DEF TypeOK, Goto, Actors
<1> QED
  BY <1>1 DEF AgentEnrols

(* An agent moves without moving the user's command or another agent.       *)
LEMMA AgentMoves ==
  ASSUME TypeOK, NEW a \in Agents, NEW point, Goto(a, point)
  PROVE  /\ pc'[User] = pc[User] /\ pc'[a] = point
         /\ \A b \in Agents \ {a} : pc'[b] = pc[b]
         /\ AgentEnrols' => AgentEnrols \/ point \in Enrolling
<1>1. /\ pc'[User] = pc[User] /\ pc'[a] = point
      /\ \A b \in Agents \ {a} : pc'[b] = pc[b]
  BY ActorsAssumption DEF TypeOK, Goto, Actors
<1> QED
  BY <1>1 DEF AgentEnrols

(* Who enrols moves one of the two ways.                                    *)
LEMMA EnrolMoves ==
  ASSUME NEW x \in Actors,
         \/ Redeem(x) \/ RedeemFails(x) \/ SaveConfig(x) \/ WriteFails(x)
         \/ \E f \in Material : pc[x] = f /\ WriteMaterial(x, f)
  PROVE  /\ pc[x] \in Enrolling
         /\ \E point : Goto(x, point)
         /\ clash' = clash
         /\ last' = last \/ (x = User /\ last' = "failed" /\ Goto(User, "idle"))
BY DEF Redeem, RedeemFails, SaveConfig, WriteFails, WriteMaterial, Step, GiveUp, Enrolling, command

(* Until an agent and a command clash, nothing but the command touches the  *)
(* install directory while it runs.                                         *)
THEOREM AloneInvariant == Spec => []AloneInv
<1>1. Init => AloneInv
  BY ActorsAssumption DEF Init, AloneInv, Actors
<1>2. TypeOK /\ AloneInv /\ [Next]_vars => AloneInv'
  <2> SUFFICES ASSUME TypeOK, AloneInv, [Next]_vars
               PROVE  AloneInv'
    OBVIOUS
  <2> USE DEF AloneInv, command
  <2>1. ASSUME NEW point, Goto(User, point), clash' = clash, pc[User] # "idle",
               point = "idle" \/ last' = last
        PROVE  AloneInv'
    BY <2>1, UserMoves
  <2>2. ASSUME NEW a \in Agents, NEW point, Goto(a, point), clash' = clash, last' = last,
               point \in Enrolling => pc[a] \in Enrolling
        PROVE  AloneInv'
    BY <2>2, AgentMoves DEF AgentEnrols
  <2>3. ASSUME NEW x \in Actors,
               \/ Redeem(x) \/ RedeemFails(x) \/ SaveConfig(x) \/ WriteFails(x)
               \/ \E f \in Material : pc[x] = f /\ WriteMaterial(x, f)
        PROVE  AloneInv'
    <3>1. CASE x = User
      <4>1. pc[User] # "idle"
        BY <2>3, <3>1, EnrolMoves DEF Enrolling, Material
      <4>2. last' = last \/ Goto(User, "idle")
        BY <2>3, <3>1, EnrolMoves
      <4> QED
        BY <2>1, <2>3, <3>1, <4>1, <4>2, EnrolMoves, UserMoves
    <3>2. CASE x # User
      BY <2>2, <2>3, <3>2, EnrolMoves DEF Actors
    <3> QED
      BY <3>1, <3>2
  <2>4. ASSUME NEW t \in Tokens \ {Secret}, BeginInstall(t) PROVE AloneInv'
    BY <2>4, UserMoves DEF BeginInstall, Step
  <2>5. ASSUME NEW whole \in BOOLEAN, BeginRemoval(whole) PROVE AloneInv'
    BY <2>5, UserMoves DEF BeginRemoval, Step
  <2>6. CASE VerifyAgent \/ ProtectKey \/ RegisterStartup
    BY <2>1, <2>6 DEF VerifyAgent, ProtectKey, RegisterStartup, Step
  <2>7. ASSUME NEW a \in Agents, StartAgent(a) PROVE AloneInv'
    BY <2>7 DEF StartAgent
  <2>8. CASE SeesConnected \/ InstallFails \/ CommandAborted
    BY <2>1, <2>8 DEF SeesConnected, InstallFails, CommandAborted, Step, GiveUp
  <2>9. CASE LoadForUnlink \/ RemoveMaterial \/ RemoveConfig
    BY <2>1, <2>9 DEF LoadForUnlink, RemoveMaterial, RemoveConfig, Step
  <2>10. CASE RemoveRunEntry \/ UnlinkFails
    BY <2>1, <2>10 DEF RemoveRunEntry, UnlinkFails
  <2>11. CASE WriteTombstone \/ RemoveTask
    BY <2>1, <2>11 DEF WriteTombstone, RemoveTask, Step
  <2>12. CASE RemoveAll \/ RemoveAllFails \/ UninstallFails
    BY <2>1, <2>12 DEF RemoveAll, RemoveAllFails, UninstallFails, Step, GiveUp
  <2>13. ASSUME NEW a \in Agents, Launch(a) PROVE AloneInv'
    BY <2>13, AgentMoves DEF Launch, Step
  <2>14. ASSUME NEW a \in Agents, AgentDies(a) PROVE AloneInv'
    BY <2>2, <2>14 DEF AgentDies, Enrolling, Material
  <2>15. ASSUME UNCHANGED <<pc, last, clash>> PROVE AloneInv'
    BY <2>15 DEF AgentEnrols
  <2>16. ASSUME NEW a \in Agents, Connects(a) \/ LinkDrops(a) PROVE AloneInv'
    BY <2>15, <2>16 DEF Connects, LinkDrops
  <2>17. CASE UNCHANGED vars
    BY <2>15, <2>17 DEF vars
  <2> QED
    BY <2>3, <2>4, <2>5, <2>6, <2>7, <2>8, <2>9, <2>10, <2>11, <2>12,
       <2>13, <2>14, <2>16, <2>17, NextCases
<1> QED
  BY <1>1, <1>2, TypeInvariant, PTL DEF Spec

----------------------------------------------------------------------------
(* Whatever identity is being written, or is configured, was redeemed; and  *)
(* all agents redeem the same secret.                                       *)
THEOREM TokenInvariant == Spec => []TokenInv
<1>1. Init => TokenInv
  BY TokensAssumption, ActorsAssumption DEF Init, TokenInv, Actors, Material
<1>2. TypeOK /\ TokenInv /\ [Next]_vars => TokenInv'
  <2> SUFFICES ASSUME TypeOK, TokenInv, [Next]_vars
               PROVE  TokenInv'
    OBVIOUS
  <2> USE TokensAssumption, ActorsAssumption
      DEF TokenInv, onDisk, server, Material, Actors
  <2>1. ASSUME UNCHANGED <<redeeming, spent>>, config' \in {config, Absent},
               \A x \in Actors : pc'[x] \in Material \union {"save"} => pc'[x] = pc[x]
        PROVE  TokenInv'
    BY <2>1
  <2>2. ASSUME NEW x \in Actors, GiveUp(x), spent \subseteq spent', config' \in {config, Absent}
        PROVE  TokenInv'
    BY <2>2 DEF TypeOK, GiveUp, Goto
  <2>3. ASSUME NEW x \in Actors, Redeem(x) PROVE TokenInv'
    BY <2>3, EnrolOrder DEF TypeOK, Redeem, Step, Goto
  <2>4. ASSUME NEW x \in Actors, RedeemFails(x) \/ WriteFails(x) PROVE TokenInv'
    BY <2>2, <2>4 DEF RedeemFails, WriteFails
  <2>5. ASSUME NEW x \in Actors, NEW f \in Material, pc[x] = f, WriteMaterial(x, f) PROVE TokenInv'
    BY <2>5, EnrolOrder DEF TypeOK, WriteMaterial, Step, Goto
  <2>6. ASSUME NEW x \in Actors, SaveConfig(x) PROVE TokenInv'
    BY <2>6 DEF TypeOK, SaveConfig, Step, Goto
  <2>7. ASSUME NEW t \in Tokens \ {Secret}, BeginInstall(t) PROVE TokenInv'
    BY <2>7 DEF TypeOK, BeginInstall, Step, Goto
  <2>8. CASE VerifyAgent \/ ProtectKey \/ RegisterStartup \/ SeesConnected
    BY <2>1, <2>8 DEF TypeOK, VerifyAgent, ProtectKey, RegisterStartup, SeesConnected, Step, Goto
  <2>9. ASSUME NEW a \in Agents, StartAgent(a) PROVE TokenInv'
    BY <2>1, <2>9 DEF TypeOK, StartAgent, Boot
  <2>10. CASE InstallFails \/ RemoveAllFails \/ UninstallFails \/ CommandAborted
    BY <2>2, <2>10 DEF InstallFails, RemoveAllFails, UninstallFails, CommandAborted
  <2>11. ASSUME NEW whole \in BOOLEAN, BeginRemoval(whole) PROVE TokenInv'
    BY <2>1, <2>11 DEF TypeOK, BeginRemoval, Step, Goto
  <2>12. CASE LoadForUnlink \/ RemoveMaterial \/ RemoveConfig
    BY <2>1, <2>12 DEF TypeOK, LoadForUnlink, RemoveMaterial, RemoveConfig, Step, Goto
  <2>13. CASE RemoveRunEntry \/ UnlinkFails
    BY <2>1, <2>13 DEF TypeOK, RemoveRunEntry, UnlinkFails, Goto
  <2>14. CASE WriteTombstone \/ RemoveTask \/ RemoveAll
    BY <2>1, <2>14 DEF TypeOK, WriteTombstone, RemoveTask, RemoveAll, Step, Goto
  <2>15. ASSUME NEW a \in Agents, Launch(a) PROVE TokenInv'
    BY <2>1, <2>15 DEF TypeOK, Launch, Boot, Step, Goto
  <2>16. ASSUME NEW a \in Agents, AgentDies(a) PROVE TokenInv'
    BY <2>1, <2>16 DEF TypeOK, AgentDies, Goto
  <2>17. ASSUME NEW a \in Agents, Connects(a) \/ LinkDrops(a) PROVE TokenInv'
    BY <2>1, <2>17 DEF Connects, LinkDrops
  <2>18. CASE UNCHANGED vars
    BY <2>18 DEF vars
  <2> QED
    BY <2>3, <2>4, <2>5, <2>6, <2>7, <2>8, <2>9, <2>10, <2>11, <2>12,
       <2>13, <2>14, <2>15, <2>16, <2>17, <2>18, NextCases
<1> QED
  BY <1>1, <1>2, TypeInvariant, PTL DEF Spec

----------------------------------------------------------------------------
(* Under a running command the agents are either down or running: only the  *)
(* command itself is writing.                                               *)
LEMMA OnlyTheCommandWrites ==
  ASSUME TypeOK, AloneInv, ~clash, pc[User] # "idle", NEW a \in Agents
  PROVE  pc[a] \in {"down", "running"}
BY DEF TypeOK, AloneInv, AgentEnrols, AgentPoints

(* Each file on disk is the one the enrolment in progress wrote, until an    *)
(* agent enrols under a command: no earlier attempt's file is left in place. *)
THEOREM WrittenInvariant == Spec => []WrittenInv
<1>1. Init => WrittenInv
  BY ActorsAssumption DEF Init, WrittenInv, Written, Actors
<1>2. TypeOK /\ TokenInv /\ AloneInv /\ WrittenInv /\ [Next]_vars => WrittenInv'
  <2> SUFFICES ASSUME TypeOK, TokenInv, AloneInv, WrittenInv, [Next]_vars, ~clash'
               PROVE  WrittenInv'
    BY DEF WrittenInv
  <2> USE ActorsAssumption DEF WrittenInv, Written, onDisk, server, command, Material, Actors
  \* what changes no file, or only ends an enrolment
  <2>1. ASSUME ~clash, UNCHANGED <<disk, config, keyPrivate, runKey>>,
               \A x \in Actors :
                 \/ pc'[x] \notin {"key", "ca"} \union Written
                 \/ pc'[x] = pc[x] /\ redeeming'[x] = redeeming[x]
        PROVE  WrittenInv'
    BY <2>1
  \* what the command does to the files outside its enrolment
  <2>2. ASSUME ~clash, pc[User] # "idle", NEW point, Goto(User, point),
               point \notin {"key", "ca"} \union Written
        PROVE  WrittenInv'
    BY <2>2, UserMoves, OnlyTheCommandWrites
  <2>3. ASSUME NEW x \in Actors, GiveUp(x), ~clash, UNCHANGED <<disk, config, keyPrivate, runKey>>
        PROVE  WrittenInv'
    BY <2>1, <2>3 DEF TypeOK, GiveUp, Goto
  <2>4. ASSUME NEW x \in Actors, Redeem(x) PROVE WrittenInv'
    BY <2>1, <2>4, EnrolOrder DEF TypeOK, Redeem, Step, Goto
  <2>5. ASSUME NEW x \in Actors, RedeemFails(x) \/ WriteFails(x) PROVE WrittenInv'
    BY <2>3, <2>5 DEF RedeemFails, WriteFails
  \* an agent that writes does so alone, or beside agents with the same secret
  <2>6. ASSUME NEW x \in Actors, pc[x] \in Enrolling, ~clash,
               NEW y \in Actors, y # x, pc[y] \notin {"idle", "down", "running"}
        PROVE  y # User /\ redeeming[y] = redeeming[x]
    <3>1. CASE x = User
      BY <2>6, <3>1, OnlyTheCommandWrites DEF Enrolling
    <3>2. CASE x # User
      BY <2>6, <3>2 DEF AloneInv, AgentEnrols, TokenInv
    <3> QED
      BY <3>1, <3>2
  <2>7. ASSUME NEW x \in Actors, NEW f \in Material, pc[x] = f, WriteMaterial(x, f) PROVE WrittenInv'
    <3>1. /\ ~clash /\ pc[x] \in Enrolling /\ UNCHANGED <<redeeming, config, runKey>>
          /\ disk' = [disk EXCEPT ![f] = redeeming[x]]
          /\ pc'[x] = Then(f) /\ \A y \in Actors \ {x} : pc'[y] = pc[y]
      BY <2>7 DEF TypeOK, WriteMaterial, Step, Goto, Enrolling
    <3>2. \A y \in Actors \ {x} : pc[y] \notin {"idle", "down", "running"} =>
             y # User /\ redeeming[y] = redeeming[x]
      BY <2>6, <3>1
    <3>3. pc'[User] \notin {"protect", "register", "start", "wait"}
      BY <2>7, <3>1, <3>2, EnrolOrder
    <3>4. \A y \in Actors :
            /\ pc'[y] \in {"key", "ca"} \union Written => disk'["cert"] = redeeming[y]
            /\ pc'[y] \in {"ca"} \union Written => disk'["key"] = redeeming[y]
            /\ pc'[y] \in Written => disk'["ca"] = redeeming[y]
      BY <2>7, <3>1, <3>2, EnrolOrder DEF TypeOK
    <3> QED
      BY <3>1, <3>3, <3>4
  <2>8. ASSUME NEW x \in Actors, SaveConfig(x) PROVE WrittenInv'
    <3>1. /\ ~clash /\ pc[x] = "save" /\ pc[x] \in Enrolling /\ UNCHANGED <<redeeming, disk>>
          /\ config' = redeeming[x]
          /\ pc'[x] = (IF x = User THEN "protect" ELSE "running")
          /\ \A y \in Actors \ {x} : pc'[y] = pc[y]
      BY <2>8 DEF TypeOK, SaveConfig, Step, Goto, Enrolling
    <3>2. x # User => pc[User] \in {"idle", "down", "running"}
      BY <2>6, <3>1
    <3> QED
      BY <3>1, <3>2
  <2>9. ASSUME NEW t \in Tokens \ {Secret}, BeginInstall(t) PROVE WrittenInv'
    BY <2>1, <2>9 DEF TypeOK, BeginInstall, Step, Goto
  <2>10. CASE VerifyAgent
    BY <2>1, <2>10 DEF TypeOK, VerifyAgent, Step, Goto
  <2>11. CASE ProtectKey \/ RegisterStartup
    BY <2>11 DEF TypeOK, ProtectKey, RegisterStartup, Step, Goto
  <2>12. ASSUME NEW a \in Agents, StartAgent(a) PROVE WrittenInv'
    BY <2>12 DEF TypeOK, StartAgent, Boot
  <2>13. CASE SeesConnected
    BY <2>1, <2>13 DEF TypeOK, SeesConnected, Step, Goto
  <2>14. CASE InstallFails \/ UninstallFails \/ CommandAborted
    BY <2>3, <2>14 DEF InstallFails, UninstallFails, CommandAborted
  <2>15. ASSUME NEW whole \in BOOLEAN, BeginRemoval(whole) PROVE WrittenInv'
    BY <2>1, <2>15 DEF TypeOK, BeginRemoval, Step, Goto
  <2>16. CASE LoadForUnlink \/ RemoveMaterial \/ RemoveConfig
    BY <2>2, <2>16 DEF LoadForUnlink, RemoveMaterial, RemoveConfig, Step
  <2>17. CASE RemoveRunEntry \/ UnlinkFails
    BY <2>2, <2>17 DEF RemoveRunEntry, UnlinkFails
  <2>18. CASE WriteTombstone \/ RemoveTask \/ RemoveAll
    BY <2>2, <2>18 DEF WriteTombstone, RemoveTask, RemoveAll, Step
  <2>19. CASE RemoveAllFails
    BY <2>2, <2>19 DEF RemoveAllFails, GiveUp
  <2>20. ASSUME NEW a \in Agents, Launch(a) PROVE WrittenInv'
    BY <2>1, <2>20 DEF TypeOK, Launch, Boot, Step, Goto
  <2>21. ASSUME NEW a \in Agents, AgentDies(a) PROVE WrittenInv'
    BY <2>1, <2>21 DEF TypeOK, AgentDies, Goto
  <2>22. ASSUME NEW a \in Agents, Connects(a) \/ LinkDrops(a) PROVE WrittenInv'
    BY <2>1, <2>22 DEF Connects, LinkDrops
  <2>23. CASE UNCHANGED vars
    BY <2>23 DEF vars
  <2> QED
    BY <2>4, <2>5, <2>7, <2>8, <2>9, <2>10, <2>11, <2>12, <2>13, <2>14, <2>15, <2>16,
       <2>17, <2>18, <2>19, <2>20, <2>21, <2>22, <2>23, NextCases
<1> QED
  BY <1>1, <1>2, TypeInvariant, TokenInvariant, AloneInvariant, PTL DEF Spec

----------------------------------------------------------------------------
(* A removal goes on from its last step to the next: nothing it deleted has *)
(* come back meanwhile.                                                     *)
THEOREM RemovedInvariant == Spec => []RemovedInv
<1>1. Init => RemovedInv
  BY ActorsAssumption DEF Init, RemovedInv, Actors
<1>2. TypeOK /\ AloneInv /\ RemovedInv /\ [Next]_vars => RemovedInv'
  <2> SUFFICES ASSUME TypeOK, AloneInv, RemovedInv, [Next]_vars
               PROVE  RemovedInv'
    OBVIOUS
  <2> USE ActorsAssumption DEF RemovedInv, onDisk, command, server, Actors
  <2>1. ASSUME NEW point, Goto(User, point), point \notin {"rmRun", "rmAll"} PROVE RemovedInv'
    BY <2>1, UserMoves
  <2>3. ASSUME NEW x \in Actors,
               \/ Redeem(x) \/ RedeemFails(x) \/ WriteFails(x)
               \/ \E f \in Material : pc[x] = f /\ WriteMaterial(x, f)
        PROVE  RemovedInv'
    <3>1. pc'[User] = pc[User] \/ pc'[User] \in {"idle", "cert", "key", "ca", "save"}
      BY <2>3, EnrolOrder
         DEF TypeOK, Redeem, RedeemFails, WriteFails, WriteMaterial, Step, GiveUp, Goto, Material
    <3>2. UNCHANGED <<config, runKey, clash>>
      BY <2>3 DEF Redeem, RedeemFails, WriteFails, WriteMaterial
    <3> QED
      BY <3>1, <3>2
  <2>4. ASSUME NEW x \in Actors, SaveConfig(x) PROVE RemovedInv'
    <3>1. CASE x = User
      BY <2>1, <2>4, <3>1 DEF SaveConfig, Step
    <3>2. CASE x # User
      <4>1. AgentEnrols
        BY <2>4, <3>2 DEF SaveConfig, Step, AgentEnrols, Enrolling
      <4> QED
        BY <2>4, <3>2, <4>1, AgentMoves DEF SaveConfig, Step, AloneInv
    <3> QED
      BY <3>1, <3>2
  <2>5. ASSUME NEW t \in Tokens \ {Secret}, BeginInstall(t) PROVE RemovedInv'
    BY <2>1, <2>5 DEF BeginInstall, Step
  <2>6. CASE VerifyAgent \/ ProtectKey \/ RegisterStartup \/ SeesConnected
    BY <2>1, <2>6 DEF VerifyAgent, ProtectKey, RegisterStartup, SeesConnected, Step
  <2>7. ASSUME NEW a \in Agents, StartAgent(a) PROVE RemovedInv'
    BY <2>7 DEF TypeOK, StartAgent
  <2>8. CASE InstallFails \/ RemoveAllFails \/ UninstallFails \/ CommandAborted
    BY <2>1, <2>8 DEF InstallFails, RemoveAllFails, UninstallFails, CommandAborted, GiveUp
  <2>9. ASSUME NEW whole \in BOOLEAN, BeginRemoval(whole) PROVE RemovedInv'
    BY <2>1, <2>9 DEF BeginRemoval, Step
  <2>10. CASE LoadForUnlink \/ RemoveMaterial
    BY <2>1, <2>10 DEF LoadForUnlink, RemoveMaterial, Step
  <2>11. CASE RemoveConfig
    BY <2>11, UserMoves DEF RemoveConfig, Step
  <2>12. CASE RemoveRunEntry \/ UnlinkFails
    BY <2>1, <2>12 DEF RemoveRunEntry, UnlinkFails
  <2>13. CASE WriteTombstone \/ RemoveAll
    BY <2>1, <2>13 DEF WriteTombstone, RemoveAll, Step
  <2>14. CASE RemoveTask
    BY <2>14, UserMoves DEF RemoveTask, Step
  <2>15. ASSUME NEW a \in Agents, Launch(a) PROVE RemovedInv'
    BY <2>15, AgentMoves DEF Launch, Step
  <2>16. ASSUME NEW a \in Agents, AgentDies(a) PROVE RemovedInv'
    BY <2>16, AgentMoves DEF AgentDies
  <2>17. ASSUME NEW a \in Agents, Connects(a) \/ LinkDrops(a) PROVE RemovedInv'
    BY <2>17 DEF Connects, LinkDrops
  <2>18. CASE UNCHANGED vars
    BY <2>18 DEF vars
  <2> QED
    BY <2>3, <2>4, <2>5, <2>6, <2>7, <2>8, <2>9, <2>10, <2>11, <2>12, <2>13, <2>14,
       <2>15, <2>16, <2>17, <2>18, NextCases
<1> QED
  BY <1>1, <1>2, TypeInvariant, AloneInvariant, PTL DEF Spec

----------------------------------------------------------------------------
(* After a command that succeeded no agent enrols: there is nothing left to *)
(* enrol with, or the identity it would get is already there.               *)
THEOREM FinishedInvariant == Spec => []FinishedInv
<1>1. Init => FinishedInv
  BY DEF Init, FinishedInv, Finished
<1>2. TypeOK /\ AloneInv /\ WrittenInv /\ RemovedInv /\ FinishedInv /\ [Next]_vars => FinishedInv'
  <2> SUFFICES ASSUME TypeOK, AloneInv, WrittenInv, RemovedInv, FinishedInv, [Next]_vars
               PROVE  FinishedInv'
    OBVIOUS
  <2> USE TokensAssumption, ActorsAssumption DEF FinishedInv, Finished, onDisk, command, server
  <2>1. ASSUME last' \notin Finished PROVE FinishedInv'
    BY <2>1
  <2>2. ASSUME UNCHANGED <<last, config>>, clash' = clash,
               \A a \in Agents : pc'[a] \in Enrolling => pc[a] \in Enrolling
        PROVE  FinishedInv'
    BY <2>2 DEF AgentEnrols
  <2>3. ASSUME pc[User] # "idle", last' = last PROVE FinishedInv'
    BY <2>1, <2>3 DEF AloneInv
  <2>4. ASSUME NEW x \in Actors,
               \/ Redeem(x) \/ RedeemFails(x) \/ SaveConfig(x) \/ WriteFails(x)
               \/ \E f \in Material : pc[x] = f /\ WriteMaterial(x, f)
        PROVE  FinishedInv'
    <3>1. CASE x = User
      <4>1. pc[User] # "idle"
        BY <2>4, <3>1, EnrolMoves DEF Enrolling, Material
      <4> QED
        BY <2>1, <2>3, <2>4, <3>1, <4>1, EnrolMoves
    <3>2. CASE x # User
      <4>1. AgentEnrols /\ last' = last /\ clash' = clash
        BY <2>4, <3>2, EnrolMoves DEF AgentEnrols, Actors
      <4> QED
        BY <4>1
    <3> QED
      BY <3>1, <3>2
  <2>5. ASSUME NEW t \in Tokens \ {Secret}, BeginInstall(t) PROVE FinishedInv'
    BY <2>1, <2>5 DEF BeginInstall
  <2>6. CASE VerifyAgent \/ ProtectKey \/ RegisterStartup
    BY <2>3, <2>6 DEF VerifyAgent, ProtectKey, RegisterStartup, Step
  <2>7. ASSUME NEW a \in Agents, StartAgent(a) PROVE FinishedInv'
    BY <2>3, <2>7 DEF StartAgent
  <2>8. CASE SeesConnected
    <3>1. ~clash => config \in Tokens /\ ~AgentEnrols
      BY <2>8 DEF SeesConnected, Step, WrittenInv, AloneInv, TypeOK, Actors
    <3> QED
      BY <2>8, <3>1, UserMoves DEF SeesConnected, Step
  <2>9. CASE InstallFails \/ RemoveAllFails \/ UninstallFails \/ CommandAborted
    BY <2>1, <2>9 DEF InstallFails, RemoveAllFails, UninstallFails, CommandAborted, GiveUp
  <2>10. ASSUME NEW whole \in BOOLEAN, BeginRemoval(whole) PROVE FinishedInv'
    BY <2>1, <2>10 DEF BeginRemoval
  <2>11. CASE LoadForUnlink \/ RemoveMaterial \/ RemoveConfig \/ WriteTombstone \/ RemoveTask
    BY <2>3, <2>11 DEF LoadForUnlink, RemoveMaterial, RemoveConfig, WriteTombstone, RemoveTask, Step
  <2>12. CASE RemoveRunEntry
    <3>1. ~clash => config = Absent /\ ~AgentEnrols
      BY <2>12 DEF RemoveRunEntry, RemovedInv, AloneInv
    <3>2. AgentEnrols' <=> AgentEnrols
      BY <2>12, UserMoves DEF RemoveRunEntry
    <3> QED
      BY <2>12, <3>1, <3>2 DEF RemoveRunEntry
  <2>13. CASE UnlinkFails
    BY <2>1, <2>3, <2>13 DEF UnlinkFails
  <2>14. CASE RemoveAll
    <3>1. ~clash => ~AgentEnrols
      BY <2>14 DEF RemoveAll, Step, AloneInv
    <3> QED
      BY <2>14, <3>1, UserMoves DEF RemoveAll, Step
  <2>15. ASSUME NEW a \in Agents, Launch(a) PROVE FinishedInv'
    <3>1. config # Provisioned => Boot \notin Enrolling
      BY DEF Boot, Enrolling, Material
    <3>2. UNCHANGED <<last, config>> /\ (~clash' => ~clash) /\ Goto(a, Boot)
      BY <2>15 DEF Launch, Step
    <3> QED
      BY <3>1, <3>2, AgentMoves
  <2>16. ASSUME NEW a \in Agents, AgentDies(a) PROVE FinishedInv'
    BY <2>2, <2>16, AgentMoves DEF AgentDies, Enrolling, Material
  <2>17. ASSUME NEW a \in Agents, Connects(a) \/ LinkDrops(a) PROVE FinishedInv'
    BY <2>2, <2>17 DEF Connects, LinkDrops
  <2>18. CASE UNCHANGED vars
    BY <2>2, <2>18 DEF vars
  <2> QED
    BY <2>4, <2>5, <2>6, <2>7, <2>8, <2>9, <2>10, <2>11, <2>12, <2>13, <2>14,
       <2>15, <2>16, <2>17, <2>18, NextCases
<1> QED
  BY <1>1, <1>2, TypeInvariant, AloneInvariant, WrittenInvariant, RemovedInvariant, PTL DEF Spec

----------------------------------------------------------------------------
\* what a finished command has left on the machine
Outcome == InstalledIsWhole /\ RemovalIsComplete

(* An agent changes no file and no setting after a command that succeeded.  *)
LEMMA OutcomeKept ==
  ASSUME Outcome, UNCHANGED <<last, disk, config, keyPrivate, runKey>>,
         ~clash' => ~clash, spent \subseteq spent'
  PROVE  Outcome'
BY DEF Outcome, InstalledIsWhole, RemovalIsComplete

(* A command that reports success has done all of its work, however often   *)
(* and wherever earlier ones were aborted.                                  *)
THEOREM OutcomeInvariant == Spec => []Outcome
<1>1. Init => Outcome
  BY DEF Init, Outcome, InstalledIsWhole, RemovalIsComplete
<1> DEFINE Inv == TypeOK /\ TokenInv /\ AloneInv /\ WrittenInv /\ RemovedInv /\ FinishedInv
<1>2. Inv /\ Outcome /\ [Next]_vars => Outcome'
  <2> SUFFICES ASSUME Inv, Outcome, [Next]_vars
               PROVE  Outcome'
    OBVIOUS
  <2> USE TokensAssumption, ActorsAssumption DEF onDisk, command, server
  <2>1. ASSUME last' \notin Finished PROVE Outcome'
    BY <2>1 DEF Outcome, InstalledIsWhole, RemovalIsComplete, Finished
  <2>2. ASSUME pc[User] # "idle", last' = last PROVE Outcome'
    BY <2>1, <2>2 DEF AloneInv, Finished
  <2>3. ASSUME NEW x \in Actors,
               \/ Redeem(x) \/ RedeemFails(x) \/ SaveConfig(x) \/ WriteFails(x)
               \/ \E f \in Material : pc[x] = f /\ WriteMaterial(x, f)
        PROVE  Outcome'
    <3>1. CASE x = User
      <4>1. pc[User] # "idle"
        BY <2>3, <3>1, EnrolMoves DEF Enrolling, Material
      <4> QED
        BY <2>1, <2>2, <2>3, <3>1, <4>1, EnrolMoves DEF Finished
    <3>2. CASE x # User
      <4>1. AgentEnrols /\ last' = last /\ clash' = clash
        BY <2>3, <3>2, EnrolMoves DEF AgentEnrols, Actors
      <4> QED
        BY <4>1 DEF FinishedInv, Finished, Outcome, InstalledIsWhole, RemovalIsComplete
    <3> QED
      BY <3>1, <3>2
  <2>4. ASSUME NEW t \in Tokens \ {Secret}, BeginInstall(t) PROVE Outcome'
    BY <2>1, <2>4 DEF BeginInstall, Finished
  <2>5. CASE VerifyAgent \/ ProtectKey \/ RegisterStartup
    BY <2>2, <2>5 DEF VerifyAgent, ProtectKey, RegisterStartup, Step
  <2>6. ASSUME NEW a \in Agents, StartAgent(a) PROVE Outcome'
    BY <2>2, <2>6 DEF StartAgent
  <2>7. CASE SeesConnected
    <3>1. pc[User] = "wait" /\ last' = "installed" /\ clash' = clash
          /\ UNCHANGED <<disk, config, keyPrivate, runKey, spent>>
      BY <2>7 DEF SeesConnected, Step
    <3>2. ~clash => /\ config = redeeming[User] /\ keyPrivate /\ runKey
                    /\ \A f \in Material : disk[f] = config
      BY <3>1 DEF WrittenInv, Written, Material, Actors
    <3>3. ~clash => config \in spent
      BY <3>2 DEF TypeOK, TokenInv, Actors
    <3> QED
      BY <3>1, <3>2, <3>3 DEF Outcome, InstalledIsWhole, RemovalIsComplete
  <2>8. CASE InstallFails \/ RemoveAllFails \/ UninstallFails \/ CommandAborted
    BY <2>1, <2>8 DEF InstallFails, RemoveAllFails, UninstallFails, CommandAborted, GiveUp, Finished
  <2>9. ASSUME NEW whole \in BOOLEAN, BeginRemoval(whole) PROVE Outcome'
    BY <2>1, <2>9 DEF BeginRemoval, Finished
  <2>10. CASE LoadForUnlink \/ RemoveMaterial \/ RemoveConfig \/ WriteTombstone \/ RemoveTask
    BY <2>2, <2>10 DEF LoadForUnlink, RemoveMaterial, RemoveConfig, WriteTombstone, RemoveTask, Step
  <2>11. CASE RemoveRunEntry
    <3>1. CASE uninstall
      BY <2>2, <2>11, <3>1 DEF RemoveRunEntry
    <3>2. CASE ~uninstall
      BY <2>11, <3>2 DEF RemoveRunEntry, RemovedInv, Outcome, InstalledIsWhole, RemovalIsComplete
    <3> QED
      BY <3>1, <3>2
  <2>12. CASE UnlinkFails
    BY <2>1, <2>2, <2>12 DEF UnlinkFails, Finished
  <2>13. CASE RemoveAll
    BY <2>13 DEF RemoveAll, Step, RemovedInv, Outcome, InstalledIsWhole, RemovalIsComplete
  <2>14. ASSUME NEW a \in Agents, Launch(a) \/ Connects(a) \/ LinkDrops(a) \/ AgentDies(a)
         PROVE  Outcome'
    <3>1. UNCHANGED <<last, disk, config, keyPrivate, runKey, spent>>
      BY <2>14 DEF Launch, Connects, LinkDrops, AgentDies
    <3>2. ~clash' => ~clash
      BY <2>14 DEF Launch, Connects, LinkDrops, AgentDies
    <3> QED
      BY <3>1, <3>2, OutcomeKept
  <2>15. CASE UNCHANGED vars
    BY <2>15, OutcomeKept DEF vars
  <2> QED
    BY <2>3, <2>4, <2>5, <2>6, <2>7, <2>8, <2>9, <2>10, <2>11, <2>12, <2>13, <2>14,
       <2>15, NextCases
<1>3. Spec => []Inv
  BY TypeInvariant, TokenInvariant, AloneInvariant, WrittenInvariant, RemovedInvariant,
     FinishedInvariant, PTL DEF Inv
<1> QED
  BY <1>1, <1>2, <1>3, PTL DEF Spec

(* After an Install that reports success the machine holds one redeemed     *)
(* identity, its key is private and the startup entry is there.             *)
THEOREM InstallIsWhole == Spec => []InstalledIsWhole
<1>1. Outcome => InstalledIsWhole
  BY DEF Outcome
<1> QED
  BY <1>1, OutcomeInvariant, PTL

(* After an unlink that reports success there is neither a configuration nor *)
(* a startup entry; after an uninstall no credential either.                 *)
THEOREM RemovalLeavesNothing == Spec => []RemovalIsComplete
<1>1. Outcome => RemovalIsComplete
  BY DEF Outcome
<1> QED
  BY <1>1, OutcomeInvariant, PTL

(* No agent connects again after an uninstall that reports success: each     *)
(* attempt reads the certificate from disk, and there is none.               *)
THEOREM RemovalEndsConnections == Spec => RemovalCutsOff
<1>1. TypeOK /\ Outcome /\ [Next]_vars => [last = "uninstalled" /\ ~clash => online' \subseteq online]_vars
  <2> SUFFICES ASSUME TypeOK, Outcome, [Next]_vars, last = "uninstalled", ~clash
               PROVE  online' \subseteq online
    OBVIOUS
  <2> USE DEF server
  <2>1. disk["cert"] \notin spent
    BY TokensAssumption DEF TypeOK, Outcome, RemovalIsComplete, Material
  <2>2. ASSUME NEW a \in Agents, Launch(a) \/ Connects(a) \/ LinkDrops(a) \/ AgentDies(a)
        PROVE  online' \subseteq online
    BY <2>1, <2>2 DEF Launch, Connects, LinkDrops, AgentDies
  <2>3. ASSUME NEW x \in Actors,
               \/ Redeem(x) \/ RedeemFails(x) \/ SaveConfig(x) \/ WriteFails(x)
               \/ \E f \in Material : pc[x] = f /\ WriteMaterial(x, f)
        PROVE  online' \subseteq online
    BY <2>3 DEF Redeem, RedeemFails, SaveConfig, WriteFails, WriteMaterial
  <2>4. CASE \/ \E t \in Tokens \ {Secret} : BeginInstall(t)
             \/ VerifyAgent \/ ProtectKey \/ RegisterStartup
             \/ \E a \in Agents : StartAgent(a)
             \/ SeesConnected \/ InstallFails \/ CommandAborted
    BY <2>4 DEF BeginInstall, VerifyAgent, ProtectKey, RegisterStartup, StartAgent,
                SeesConnected, InstallFails, CommandAborted
  <2>5. CASE \/ \E whole \in BOOLEAN : BeginRemoval(whole)
             \/ LoadForUnlink \/ RemoveMaterial \/ RemoveConfig \/ RemoveRunEntry \/ UnlinkFails
    BY <2>5 DEF BeginRemoval, LoadForUnlink, RemoveMaterial, RemoveConfig, RemoveRunEntry,
                UnlinkFails
  <2>6. CASE WriteTombstone \/ RemoveTask \/ RemoveAll \/ RemoveAllFails \/ UninstallFails
    BY <2>6 DEF WriteTombstone, RemoveTask, RemoveAll, RemoveAllFails, UninstallFails
  <2>7. CASE UNCHANGED vars
    BY <2>7 DEF vars
  <2> QED
    BY <2>2, <2>3, <2>4, <2>5, <2>6, <2>7, NextCases
<1> QED
  BY <1>1, TypeInvariant, OutcomeInvariant, PTL DEF Spec, RemovalCutsOff

----------------------------------------------------------------------------
(* What the startup entry launches has an identity to connect with.         *)
THEOREM StartupStaysBacked == Spec => []StartupEntryIsBacked
<1>1. Init => StartupEntryIsBacked
  BY DEF Init, StartupEntryIsBacked
<1>2. TypeOK /\ WrittenInv /\ RemovedInv /\ StartupEntryIsBacked /\ [Next]_vars => StartupEntryIsBacked'
  <2> SUFFICES ASSUME TypeOK, WrittenInv, RemovedInv, StartupEntryIsBacked, [Next]_vars
               PROVE  StartupEntryIsBacked'
    OBVIOUS
  <2> USE TokensAssumption, ActorsAssumption DEF onDisk, command, server, StartupEntryIsBacked
  <2>0. \A x \in Actors : redeeming[x] # Absent
    BY DEF TypeOK
  <2>1. ASSUME NEW x \in Actors, Redeem(x) \/ RedeemFails(x) \/ WriteFails(x)
        PROVE  StartupEntryIsBacked'
    BY <2>1 DEF Redeem, RedeemFails, WriteFails
  <2>2. ASSUME NEW x \in Actors, NEW f \in Material, WriteMaterial(x, f)
        PROVE  StartupEntryIsBacked'
    BY <2>0, <2>2 DEF WriteMaterial, TypeOK
  <2>3. ASSUME NEW x \in Actors, SaveConfig(x) PROVE StartupEntryIsBacked'
    <3>1. ~clash => \A f \in Material : disk[f] = redeeming[x]
      BY <2>3 DEF SaveConfig, Step, WrittenInv, Written, Material
    <3> QED
      BY <2>0, <2>3, <3>1 DEF SaveConfig, TypeOK
  <2>4. CASE RegisterStartup
    <3>1. ~clash => config = redeeming[User] /\ \A f \in Material : disk[f] = redeeming[User]
      BY <2>4 DEF RegisterStartup, Step, WrittenInv, Written, Material, Actors
    <3> QED
      BY <2>0, <2>4, <3>1 DEF RegisterStartup, TypeOK, Actors
  <2>5. CASE \/ \E t \in Tokens \ {Secret} : BeginInstall(t)
             \/ \E a \in Agents : StartAgent(a)
             \/ \E whole \in BOOLEAN : BeginRemoval(whole)
             \/ \E a \in Agents : Launch(a)
    BY <2>5 DEF BeginInstall, StartAgent, BeginRemoval, Launch
  <2>6. CASE VerifyAgent \/ ProtectKey \/ SeesConnected \/ InstallFails \/ CommandAborted
             \/ LoadForUnlink \/ UnlinkFails \/ WriteTombstone \/ UninstallFails
    BY <2>6 DEF VerifyAgent, ProtectKey, SeesConnected, InstallFails, CommandAborted,
                LoadForUnlink, UnlinkFails, WriteTombstone, UninstallFails
  <2>7. CASE RemoveMaterial \/ RemoveConfig
    <3>1. tearing' = runKey /\ runKey' = runKey
      BY <2>7 DEF RemoveMaterial, RemoveConfig
    <3> QED
      BY <3>1
  <2>8. CASE RemoveRunEntry \/ RemoveTask
    BY <2>8 DEF RemoveRunEntry, RemoveTask
  <2>9. CASE RemoveAll \/ RemoveAllFails
    BY <2>9 DEF RemoveAll, RemoveAllFails, Step, RemovedInv
  <2>10. ASSUME NEW a \in Agents, Connects(a) \/ LinkDrops(a) \/ AgentDies(a)
         PROVE  StartupEntryIsBacked'
    BY <2>10 DEF Connects, LinkDrops, AgentDies
  <2>11. CASE UNCHANGED vars
    BY <2>11 DEF vars
  <2> QED
    BY <2>1, <2>2, <2>3, <2>4, <2>5, <2>6, <2>7, <2>8, <2>9, <2>10, <2>11, NextCases
<1> QED
  BY <1>1, <1>2, TypeInvariant, WrittenInvariant, RemovedInvariant, PTL DEF Spec
=============================================================================
