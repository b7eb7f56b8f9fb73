-------------------------- MODULE InstallLifecycle --------------------------
(***************************************************************************)
(* What puts the agent on a machine and takes it off: enroll.Enroll,        *)
(* lightinstall.Manager's Install and Uninstall, `lightagent unlink`, and   *)
(* the agent's own start (load the configuration, enrol if it holds a       *)
(* secret, connect).  The user runs one command at a time and may repeat or *)
(* abort it; agent processes start, connect and die meanwhile.  Nothing     *)
(* locks the install directory.                                            *)
(*                                                                         *)
(* A token stands for the identity its redemption gives: a certificate, a   *)
(* key, a CA file or a configuration is named after the token it came with. *)
(***************************************************************************)
EXTENDS Naturals, FiniteSets

CONSTANTS Agents,        \* agent processes
          User,          \* the command the user runs: Install, unlink, Uninstall
          Tokens,        \* single-use enrolment tokens
          Secret,        \* the one a provisioned config.json carries
          Provisioned,   \* a configuration with a secret and no identity
          Absent         \* file not there

ASSUME TokensAssumption ==
  Secret \in Tokens /\ {Provisioned, Absent} \intersect Tokens = {} /\ Provisioned # Absent
ASSUME ActorsAssumption == User \notin Agents

VARIABLES
  pc,         \* where each process is
  redeeming,  \* the token it uses
  spent,      \* tokens the server has redeemed
  online,     \* agents with a connection
  disk,       \* client.crt, client.key, ca.crt
  keyPrivate, \* the key file carries the user-only ACL
  config,     \* config.json
  runKey,     \* the HKCU Run entry
  tombstone,  \* pending-unlink.tombstone
  marker,     \* the log holds an "agent connected" line
  uninstall,  \* the command is Uninstall
  last,       \* how the last command ended
  proved,     \* history: an agent connected since the last Install began
  tearing,    \* history: a removal deleted files and left the Run entry
  clash       \* history: an agent enrolled while a command ran

onDisk   == <<disk, keyPrivate, config, runKey, tombstone, marker>>
command  == <<uninstall, last>>
server   == <<spent, online>>
vars     == <<pc, redeeming, server, onDisk, command, proved, tearing, clash>>

Actors    == Agents \union {User}
Material  == {"cert", "key", "ca"}
Enrolling == {"redeem", "save"} \union Material
UserPoints  == Enrolling \union
               {"idle", "verify", "protect", "register", "start", "wait",
                "load", "rmMaterial", "rmConfig", "rmRun", "tombstone", "rmTask", "rmAll"}
AgentPoints == Enrolling \union {"down", "running"}
Outcomes    == {"none", "failed", "installed", "unlinked", "uninstalled"}

AgentEnrols == \E a \in Agents : pc[a] \in Enrolling

Goto(a, point) == pc' = [pc EXCEPT ![a] = point]
Step(a, from, to) == pc[a] = from /\ Goto(a, to)

Init ==
  /\ pc = [a \in Actors |-> IF a = User THEN "idle" ELSE "down"]
  /\ redeeming = [a \in Actors |-> Secret]
  /\ spent = {} /\ online = {}
  /\ disk = [f \in Material |-> Absent]
  /\ keyPrivate = FALSE
  /\ config \in {Absent, Provisioned}
  /\ runKey = FALSE /\ tombstone = FALSE /\ marker = FALSE
  /\ uninstall = FALSE
  /\ last = "none"
  /\ proved = FALSE /\ tearing = FALSE /\ clash = FALSE

\* slip: an agent whose enrolment fails goes on as if it had been a command
GiveUpAsCommand(a) ==
  /\ Goto(a, "idle")
  /\ last' = IF a = User THEN "failed" ELSE last
  /\ redeeming' = [redeeming EXCEPT ![a] = Secret]

\* an agent that gives up exits, a command reports the error
GiveUp(a) ==
  /\ Goto(a, IF a = User THEN "idle" ELSE "down")
  /\ last' = IF a = User THEN "failed" ELSE last
  /\ redeeming' = [redeeming EXCEPT ![a] = Secret]

----------------------------------------------------------------------------
(* enroll.Enroll, for a first Install and for an agent with a secret.      *)

Then(point) == CASE point = "redeem" -> "cert"
                 [] point = "cert"   -> "key"
                 [] point = "key"    -> "ca"
                 [] point = "ca"     -> "save"

\* a token works once; its answer may be lost after it has worked
Redeem(a) ==
  /\ Step(a, "redeem", Then("redeem"))
  /\ redeeming[a] \notin spent
  /\ spent' = spent \union {redeeming[a]}
  /\ UNCHANGED <<redeeming, online, onDisk, command, proved, tearing, clash>>

RedeemFails(a) ==
  /\ pc[a] = "redeem" /\ GiveUp(a)
  /\ spent' \in {spent, spent \union {redeeming[a]}}
  /\ UNCHANGED <<online, onDisk, uninstall, proved, tearing, clash>>

\* slip: a retry keeps the key it finds, with a certificate for a new one
KeepKey(a, f) ==
  /\ Step(a, f, Then(f))
  /\ disk' = IF f = "key" /\ disk["key"] # Absent THEN disk
             ELSE [disk EXCEPT ![f] = redeeming[a]]
  /\ keyPrivate' = (keyPrivate /\ f # "key")
  /\ UNCHANGED <<redeeming, server, config, runKey, tombstone, marker, command, proved, tearing, clash>>

\* writeRestricted: a temporary file renamed into place, with the default ACL
WriteMaterial(a, f) ==
  /\ Step(a, f, Then(f))
  /\ disk' = [disk EXCEPT ![f] = redeeming[a]]
  /\ keyPrivate' = (keyPrivate /\ f # "key")
  /\ UNCHANGED <<redeeming, server, config, runKey, tombstone, marker, command, proved, tearing, clash>>

\* config.Save, atomic: the identity's paths in, the secret out
SaveConfig(a) ==
  /\ Step(a, "save", IF a = User THEN "protect" ELSE "running")
  /\ config' = redeeming[a]
  /\ tearing' = FALSE
  /\ UNCHANGED <<redeeming, server, disk, keyPrivate, runKey, tombstone, marker, command, proved, clash>>

WriteFails(a) ==
  /\ pc[a] \in Material \union {"save"} /\ GiveUp(a)
  /\ UNCHANGED <<server, onDisk, uninstall, proved, tearing, clash>>

----------------------------------------------------------------------------
(* Manager.Install.                                                        *)

BeginInstall(t) ==
  /\ Step(User, "idle", "verify")
  /\ redeeming' = [redeeming EXCEPT ![User] = t]
  /\ last' = "none" /\ uninstall' = FALSE
  /\ proved' = FALSE
  /\ clash' = (clash \/ AgentEnrols)
  /\ UNCHANGED <<server, onDisk, tearing>>

\* slip: the startup entry first, so that a failed enrolment can be retried at logon
RegisterFirst ==
  /\ Step(User, "verify", "redeem")
  /\ runKey' = TRUE
  /\ UNCHANGED <<redeeming, server, disk, keyPrivate, config, tombstone, marker, command, proved, tearing, clash>>

VerifyAgent ==
  /\ Step(User, "verify", "redeem")
  /\ UNCHANGED <<redeeming, server, onDisk, command, proved, tearing, clash>>

ProtectKey ==
  /\ Step(User, "protect", "register")
  /\ disk["key"] # Absent
  /\ keyPrivate' = TRUE
  /\ UNCHANGED <<redeeming, server, disk, config, runKey, tombstone, marker, command, proved, tearing, clash>>

RegisterStartup ==
  /\ Step(User, "register", "start")
  /\ runKey' = TRUE
  /\ UNCHANGED <<redeeming, server, disk, keyPrivate, config, tombstone, marker, command, proved, tearing, clash>>

\* what a new agent process does with the configuration it loads
Boot == CASE config = Absent      -> "down"
          [] config = Provisioned -> "redeem"
          [] OTHER                -> "running"

StartAgent(a) ==
  /\ pc[User] = "start" /\ pc[a] = "down"
  /\ pc' = [pc EXCEPT ![User] = "wait", ![a] = Boot]
  /\ clash' = (clash \/ AgentEnrols')
  /\ UNCHANGED <<redeeming, server, onDisk, command, proved, tearing>>

\* waitForAgentConnected: any "agent connected" line will do
SeesConnected ==
  /\ marker
  /\ Step(User, "wait", "idle")
  /\ last' = "installed"
  /\ UNCHANGED <<redeeming, server, onDisk, uninstall, proved, tearing, clash>>

InstallFails ==
  /\ pc[User] \in {"verify", "protect", "register", "start", "wait"} /\ GiveUp(User)
  /\ UNCHANGED <<server, onDisk, uninstall, proved, tearing, clash>>

----------------------------------------------------------------------------
(* `lightagent unlink`, on its own or as the first step of Uninstall.      *)

BeginRemoval(whole) ==
  /\ Step(User, "idle", "load")
  /\ uninstall' = whole
  /\ last' = "none"
  /\ clash' = (clash \/ AgentEnrols)
  /\ UNCHANGED <<redeeming, server, onDisk, proved, tearing>>

LoadForUnlink ==
  /\ Step(User, "load", IF config \in Tokens THEN "rmMaterial" ELSE "rmConfig")
  /\ UNCHANGED <<redeeming, server, onDisk, command, proved, tearing, clash>>

\* the files the configuration names; errors are ignored
RemoveMaterial ==
  /\ Step(User, "rmMaterial", "rmConfig")
  /\ \E gone \in SUBSET Material :
       disk' = [f \in Material |-> IF f \in gone THEN Absent ELSE disk[f]]
  /\ keyPrivate' = (keyPrivate /\ disk'["key"] # Absent)
  /\ tearing' = runKey
  /\ UNCHANGED <<redeeming, server, config, runKey, tombstone, marker, command, proved, clash>>

RemoveConfig ==
  /\ Step(User, "rmConfig", "rmRun")
  /\ config' = Absent
  /\ tearing' = runKey
  /\ UNCHANGED <<redeeming, server, disk, keyPrivate, runKey, tombstone, marker, command, proved, clash>>

\* slip: the registry's error is ignored
RunEntryStays ==
  /\ pc[User] = "rmRun"
  /\ tearing' = runKey
  /\ Goto(User, IF uninstall THEN "rmTask" ELSE "idle")
  /\ last' = IF uninstall THEN last ELSE "unlinked"
  /\ UNCHANGED <<redeeming, server, onDisk, uninstall, proved, clash>>

RemoveRunEntry ==
  /\ pc[User] = "rmRun"
  /\ runKey' = FALSE /\ tearing' = FALSE
  /\ Goto(User, IF uninstall THEN "rmTask" ELSE "idle")
  /\ last' = IF uninstall THEN last ELSE "unlinked"
  /\ UNCHANGED <<redeeming, server, disk, keyPrivate, config, tombstone, marker, uninstall, proved, clash>>

UnlinkFails ==
  /\ pc[User] \in {"load", "rmConfig", "rmRun"}
  /\ Goto(User, IF uninstall THEN "tombstone" ELSE "idle")
  /\ last' = IF uninstall THEN last ELSE "failed"
  /\ UNCHANGED <<redeeming, server, onDisk, uninstall, proved, tearing, clash>>

----------------------------------------------------------------------------
(* Manager.Uninstall, after the unlink.                                    *)

WriteTombstone ==
  /\ Step(User, "tombstone", "rmTask")
  /\ tombstone' = TRUE
  /\ UNCHANGED <<redeeming, server, disk, keyPrivate, config, runKey, marker, command, proved, tearing, clash>>

RemoveTask ==
  /\ Step(User, "rmTask", "rmAll")
  /\ runKey' = FALSE /\ tearing' = FALSE
  /\ UNCHANGED <<redeeming, server, disk, keyPrivate, config, tombstone, marker, command, proved, clash>>

RemoveAll ==
  /\ Step(User, "rmAll", "idle")
  /\ disk' = [f \in Material |-> Absent] /\ config' = Absent
  /\ keyPrivate' = FALSE /\ tombstone' = FALSE /\ marker' = FALSE
  /\ last' = "uninstalled"
  /\ UNCHANGED <<redeeming, server, runKey, uninstall, proved, tearing, clash>>

\* files in use stay, the running executable among them
RemoveAllFails ==
  /\ pc[User] = "rmAll" /\ GiveUp(User)
  /\ \E gone \in SUBSET Material :
       disk' = [f \in Material |-> IF f \in gone THEN Absent ELSE disk[f]]
  /\ config' \in {config, Absent}
  /\ keyPrivate' = (keyPrivate /\ disk'["key"] # Absent)
  /\ tombstone' \in {FALSE, tombstone} /\ marker' \in {FALSE, marker}
  /\ UNCHANGED <<server, runKey, uninstall, proved, tearing, clash>>

UninstallFails ==
  /\ pc[User] \in {"tombstone", "rmTask"} /\ GiveUp(User)
  /\ UNCHANGED <<server, onDisk, uninstall, proved, tearing, clash>>

\* closed, killed, logged off
CommandAborted ==
  /\ pc[User] # "idle" /\ GiveUp(User)
  /\ UNCHANGED <<server, onDisk, uninstall, proved, tearing, clash>>

----------------------------------------------------------------------------
(* Agent processes.                                                        *)

\* at a logon, or by hand
Launch(a) ==
  /\ config # Absent
  /\ Step(a, "down", Boot)
  /\ clash' = (clash \/ (pc[User] # "idle" /\ AgentEnrols'))
  /\ UNCHANGED <<redeeming, server, onDisk, command, proved, tearing>>

\* slip: the key pair is loaded once, when the agent starts
ConnectsFromMemory(a) ==
  /\ pc[a] = "running" /\ a \notin online
  /\ online' = online \union {a}
  /\ marker' = TRUE
  /\ proved' = (proved \/ pc[User] # "idle")
  /\ UNCHANGED <<pc, redeeming, spent, disk, keyPrivate, config, runKey, tombstone, command, tearing, clash>>

\* the key pair is read from disk at every attempt to connect
Connects(a) ==
  /\ pc[a] = "running" /\ a \notin online
  /\ disk["cert"] \in spent /\ disk["key"] = disk["cert"] /\ disk["ca"] # Absent
  /\ online' = online \union {a}
  /\ marker' = TRUE
  /\ proved' = (proved \/ pc[User] # "idle")
  /\ UNCHANGED <<pc, redeeming, spent, disk, keyPrivate, config, runKey, tombstone, command, tearing, clash>>

LinkDrops(a) ==
  /\ a \in online /\ online' = online \ {a}
  /\ UNCHANGED <<pc, redeeming, spent, onDisk, command, proved, tearing, clash>>

AgentDies(a) ==
  /\ pc[a] # "down" /\ Goto(a, "down")
  /\ online' = online \ {a}
  /\ UNCHANGED <<redeeming, spent, onDisk, command, proved, tearing, clash>>

Enrols(a) ==
  \/ Redeem(a) \/ RedeemFails(a)
  \/ \E f \in Material : pc[a] = f /\ WriteMaterial(a, f)
  \/ SaveConfig(a) \/ WriteFails(a)

Installs ==
  \/ \E t \in Tokens \ {Secret} : BeginInstall(t)
  \/ VerifyAgent \/ Enrols(User) \/ ProtectKey \/ RegisterStartup
  \/ \E a \in Agents : StartAgent(a)
  \/ SeesConnected \/ InstallFails

Removes ==
  \/ \E whole \in BOOLEAN : BeginRemoval(whole)
  \/ LoadForUnlink \/ RemoveMaterial \/ RemoveConfig \/ RemoveRunEntry \/ UnlinkFails
  \/ WriteTombstone \/ RemoveTask \/ RemoveAll \/ RemoveAllFails \/ UninstallFails

AgentRuns(a) ==
  Launch(a) \/ Enrols(a) \/ Connects(a) \/ LinkDrops(a) \/ AgentDies(a)

Next ==
  \/ Installs \/ Removes \/ CommandAborted
  \/ \E a \in Agents : AgentRuns(a)

Spec == Init /\ [][Next]_vars

----------------------------------------------------------------------------
(* Properties.                                                             *)

TypeOK ==
  /\ pc \in [Actors -> UserPoints \union AgentPoints]
  /\ pc[User] \in UserPoints /\ \A a \in Agents : pc[a] \in AgentPoints
  /\ redeeming \in [Actors -> Tokens]
  /\ spent \subseteq Tokens /\ online \subseteq Agents
  /\ disk \in [Material -> Tokens \union {Absent}]
  /\ config \in Tokens \union {Provisioned, Absent}
  /\ {keyPrivate, runKey, tombstone, marker, uninstall, proved, tearing, clash} \subseteq BOOLEAN
  /\ last \in Outcomes

\* After an Install that reports success, whatever earlier attempts left
\* behind, the machine holds one identity: certificate, key, CA and
\* configuration come from the same redemption, the key is private and the
\* startup entry is there.  (An agent that enrols by itself meanwhile writes the
\* same files under no lock: clash.)
InstalledIsWhole ==
  last = "installed" /\ ~clash =>
    /\ config \in spent
    /\ \A f \in Material : disk[f] = config
    /\ keyPrivate /\ runKey

\* The startup entry never launches an agent that has nothing to connect with:
\* it is set after the material and removed with it, and only a removal that
\* was cut short can leave it dangling.
StartupEntryIsBacked ==
  runKey /\ ~tearing /\ ~clash => config \in Tokens /\ \A f \in Material : disk[f] # Absent

\* A removal that reports success leaves no configuration and no startup entry,
\* and Uninstall none of the credentials either, although it goes on when its
\* unlink fails half way.
RemovalIsComplete ==
  /\ last \in {"unlinked", "uninstalled"} /\ ~clash => config = Absent /\ ~runKey
  /\ last = "uninstalled" /\ ~clash => \A f \in Material : disk[f] = Absent

\* Nobody tells the agents of a removed installation, so a connection outlives
\* its removal; but none of them gets another one, although all still run with
\* the configuration they loaded, until the user installs again.
RemovalCutsOff ==
  [][last = "uninstalled" /\ ~clash => online' \subseteq online]_vars

\* What Install is documented to wait for: a real, live connection of the agent
\* it has just set up.  (Expected to fail: the log still holds the line of an
\* earlier run.)
InstallProvesConnection == last = "installed" => proved
=============================================================================
