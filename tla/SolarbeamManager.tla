-------------------------- MODULE SolarbeamManager --------------------------
(***************************************************************************)
(* solarbeam.Manager in ModeInteractive, the mode of the light agent:      *)
(* commands from the server start and stop a session (a bridge process and *)
(* an engine process) and update the engine's files, the tray asks for its *)
(* status, and processes and the agent itself may die at any point.        *)
(*                                                                         *)
(* A job is one call: the goroutine dispatch started for a command, or a   *)
(* Status call.  Manager.mu serializes the calls, so one job at a time has *)
(* steps of its own; the environment steps in between.  An engine or a     *)
(* bridge process carries the name of the Start that launched it, a file   *)
(* the name of the Update whose package it came from.                      *)
(***************************************************************************)
EXTENDS Naturals, FiniteSets

CONSTANTS Jobs,         \* calls of Start, Stop, Update and Status
          Files,        \* what the engine package holds
          Exe,          \* the engine binary, one of Files
          Nobody,       \* no job, no process
          Base,         \* package installed before the agent started
          Absent,       \* file not there
          Torn,         \* file half written
          MaxRestarts   \* bound: crashes or restarts of the agent

ASSUME ExeAssumption == Exe \in Files
ASSUME RestartsAssumption == MaxRestarts \in Nat
ASSUME NamesAssumption ==
  /\ Jobs \intersect {Nobody, Base, Absent, Torn} = {}
  /\ Base # Absent /\ Base # Torn /\ Absent # Torn
  /\ Nobody \notin Files

VARIABLES
  kind,         \* what each job asks for
  pc,           \* where it is
  mu,           \* Manager.mu: the job inside, or Nobody
  handle,       \* interactiveEngineProc
  engines,      \* engine processes alive on the machine
  mine,         \* those this run of the agent launched
  bridge,       \* the bridge process, or Nobody
  listening,    \* it accepts connections on bridgeWSAddr
  installed,    \* the files of the install directory
  todo,         \* entries the running update has yet to extract
  tmp,          \* the entry whose temporary file is being written
  lastUpdated,  \* lastUpdatedVersion
  session,      \* history: the Start whose session should be running
  restarts

calls     == <<kind, pc, mu>>
processes == <<handle, engines, mine, bridge, listening, session>>
package   == <<installed, todo, tmp, lastUpdated>>
vars      == <<calls, processes, package, restarts>>

Kinds  == {"start", "stop", "update", "status"}
Inside == {"prepare", "bridge", "await", "oldEngine", "newEngine",
           "stopEngine", "stopBridge", "check", "download", "extract",
           "status", "release"}
Ended  == {"done", "lost"}
Points == Inside \union Ended \union {"idle", "waiting"}

\* engineProcessRunning: the tracked process, if it is alive
Tracked == handle \in engines

Goto(j, point) == pc' = [pc EXCEPT ![j] = point]
Step(j, from, to) == pc[j] = from /\ Goto(j, to) /\ UNCHANGED <<kind, mu>>

Init ==
  /\ kind = [j \in Jobs |-> "status"]
  /\ pc = [j \in Jobs |-> "idle"]
  /\ mu = Nobody
  /\ handle = Nobody /\ engines = {} /\ mine = {}
  /\ bridge = Nobody /\ listening = FALSE /\ session = Nobody
  /\ installed \in {[f \in Files |-> p] : p \in {Base, Absent}}
  /\ todo = {} /\ tmp = Nobody /\ lastUpdated = Nobody
  /\ restarts = 0

----------------------------------------------------------------------------
(* Calls arrive, wait for the mutex and leave it.                          *)

Arrive(j, k) ==
  /\ pc[j] = "idle"
  /\ kind' = [kind EXCEPT ![j] = k]
  /\ Goto(j, "waiting")
  /\ UNCHANGED <<mu, processes, package, restarts>>

\* arguments missing or malformed: answered before the mutex is taken
Reject(j) ==
  /\ pc[j] = "waiting" /\ kind[j] # "status"
  /\ Goto(j, "done")
  /\ UNCHANGED <<kind, mu, processes, package, restarts>>

Entry(k) == CASE k = "start"  -> "prepare"
              [] k = "stop"   -> "stopEngine"
              [] k = "update" -> "check"
              [] k = "status" -> "status"

Acquire(j) ==
  /\ pc[j] = "waiting"
  /\ mu' = j
  /\ Goto(j, Entry(kind[j]))
  /\ session' = IF kind[j] \in {"start", "stop"} THEN Nobody ELSE session
  /\ UNCHANGED <<kind, handle, engines, mine, bridge, listening, package, restarts>>

\* slip: no mutex
LockFree(j) == Acquire(j)

Lock(j) == mu = Nobody /\ Acquire(j)

\* slip: an early return without the deferred unlock
UnlockForgotten(j) ==
  /\ pc[j] = "release"
  /\ mu' = IF kind[j] = "update" /\ lastUpdated # j THEN mu ELSE Nobody
  /\ Goto(j, "done")
  /\ UNCHANGED <<kind, processes, package, restarts>>

Unlock(j) ==
  /\ pc[j] = "release"
  /\ mu' = Nobody
  /\ Goto(j, "done")
  /\ UNCHANGED <<kind, processes, package, restarts>>

----------------------------------------------------------------------------
(* Start: prepare, launch the bridge, replace the engine.                  *)

Prepare(j) ==
  /\ Step(j, "prepare", IF installed[Exe] = Absent THEN "release" ELSE "bridge")
  /\ UNCHANGED <<processes, package, restarts>>

\* terminateByName, then a fresh process
LaunchBridge(j) ==
  /\ Step(j, "bridge", "await")
  /\ bridge' = j /\ listening' = FALSE
  /\ UNCHANGED <<handle, engines, mine, session, package, restarts>>

LaunchBridgeFails(j) ==
  /\ Step(j, "bridge", "release")
  /\ bridge' = Nobody /\ listening' = FALSE
  /\ UNCHANGED <<handle, engines, mine, session, package, restarts>>

BridgeReady(j) ==
  /\ listening
  /\ Step(j, "await", "oldEngine")
  /\ UNCHANGED <<processes, package, restarts>>

\* 30s without a listener; the bridge process is left as it is
BridgeTimesOut(j) ==
  /\ ~listening
  /\ Step(j, "await", "release")
  /\ UNCHANGED <<processes, package, restarts>>

\* slip: the old engine is forgotten instead of killed
ForgetOldEngine(j) ==
  /\ Step(j, "oldEngine", "newEngine")
  /\ handle' = Nobody
  /\ UNCHANGED <<engines, mine, bridge, listening, session, package, restarts>>

KillOldEngine(j) ==
  /\ Step(j, "oldEngine", "newEngine")
  /\ engines' = engines \ {handle}
  /\ handle' = Nobody
  /\ UNCHANGED <<mine, bridge, listening, session, package, restarts>>

LaunchEngine(j) ==
  /\ Step(j, "newEngine", "release")
  /\ handle' = j
  /\ engines' = engines \union {j}
  /\ mine' = mine \union {j}
  /\ session' = j
  /\ UNCHANGED <<bridge, listening, package, restarts>>

LaunchEngineFails(j) ==
  /\ Step(j, "newEngine", "release")
  /\ UNCHANGED <<processes, package, restarts>>

----------------------------------------------------------------------------
(* Stop, whatever session it names; Status.                                *)

StopEngine(j) ==
  /\ Step(j, "stopEngine", "stopBridge")
  /\ engines' = engines \ {handle}
  /\ handle' = Nobody
  /\ UNCHANGED <<mine, bridge, listening, session, package, restarts>>

\* slip: the bridge is only killed along with an engine
StopBridgeWithEngine(j) ==
  /\ Step(j, "stopBridge", "release")
  /\ bridge' = IF mine = {} THEN bridge ELSE Nobody
  /\ listening' = FALSE
  /\ UNCHANGED <<handle, engines, mine, session, package, restarts>>

StopBridge(j) ==
  /\ Step(j, "stopBridge", "release")
  /\ bridge' = Nobody /\ listening' = FALSE
  /\ UNCHANGED <<handle, engines, mine, session, package, restarts>>

StatusReads(j) ==
  /\ Step(j, "status", "release")
  /\ UNCHANGED <<processes, package, restarts>>

----------------------------------------------------------------------------
(* Update: refuse under a running engine, download, extract over the       *)
(* install directory entry by entry, then verify the engine's signer.      *)

\* slip: the engine is checked for by the files it would replace
CheckFilesOnly(j) ==
  /\ Step(j, "check", IF Tracked /\ installed[Exe] = Base THEN "release" ELSE "download")
  /\ UNCHANGED <<processes, package, restarts>>

CheckIdle(j) ==
  /\ Step(j, "check", IF Tracked THEN "release" ELSE "download")
  /\ UNCHANGED <<processes, package, restarts>>

DownloadFails(j) ==
  /\ Step(j, "download", "release")
  /\ UNCHANGED <<processes, package, restarts>>

Downloaded(j) ==
  /\ Step(j, "download", "extract")
  /\ todo' = Files
  /\ UNCHANGED <<processes, installed, tmp, lastUpdated, restarts>>

\* slip: entries are written in place
WriteInPlace(j, f) ==
  /\ pc[j] = "extract" /\ tmp = Nobody /\ f \in todo
  /\ tmp' = f
  /\ installed' = [installed EXCEPT ![f] = Torn]
  /\ UNCHANGED <<calls, processes, todo, lastUpdated, restarts>>

\* the entry goes to a sibling temporary file first
WriteTemp(j, f) ==
  /\ pc[j] = "extract" /\ tmp = Nobody /\ f \in todo
  /\ tmp' = f
  /\ UNCHANGED <<calls, processes, installed, todo, lastUpdated, restarts>>

RenameIntoPlace(j) ==
  /\ pc[j] = "extract" /\ tmp # Nobody
  /\ installed' = [installed EXCEPT ![tmp] = j]
  /\ todo' = todo \ {tmp}
  /\ tmp' = Nobody
  /\ UNCHANGED <<calls, processes, lastUpdated, restarts>>

\* a write, a close or a rename fails: entries already in place stay
ExtractFails(j) ==
  /\ tmp # Nobody
  /\ Step(j, "extract", "release")
  /\ todo' = {} /\ tmp' = Nobody
  /\ UNCHANGED <<processes, installed, lastUpdated, restarts>>

\* slip: the wrong field is recorded as the installed version
VerifiedWrongField(j) ==
  /\ todo = {} /\ tmp = Nobody
  /\ Step(j, "extract", "release")
  /\ lastUpdated' = Exe
  /\ UNCHANGED <<processes, installed, todo, tmp, restarts>>

\* VerifyAuthenticode looks at the binary already in place
Verified(j) ==
  /\ todo = {} /\ tmp = Nobody
  /\ Step(j, "extract", "release")
  /\ lastUpdated' = j
  /\ UNCHANGED <<processes, installed, todo, tmp, restarts>>

VerifyFails(j) ==
  /\ todo = {} /\ tmp = Nobody
  /\ Step(j, "extract", "release")
  /\ UNCHANGED <<processes, package, restarts>>

----------------------------------------------------------------------------
(* Processes and the agent.                                                *)

BridgeListens ==
  /\ bridge # Nobody /\ ~listening
  /\ listening' = TRUE
  /\ UNCHANGED <<calls, handle, engines, mine, bridge, session, package, restarts>>

BridgeDies ==
  /\ bridge # Nobody
  /\ bridge' = Nobody /\ listening' = FALSE
  /\ UNCHANGED <<calls, handle, engines, mine, session, package, restarts>>

EngineDies(e) ==
  /\ e \in engines
  /\ engines' = engines \ {e}
  /\ UNCHANGED <<calls, handle, mine, bridge, listening, session, package, restarts>>

\* a crash, a logoff, a self-update: memory is lost, children and files stay
AgentRestarts ==
  /\ restarts < MaxRestarts
  /\ restarts' = restarts + 1
  /\ pc' = [j \in Jobs |-> IF pc[j] = "waiting" \/ pc[j] \in Inside
                           THEN "lost" ELSE pc[j]]
  /\ mu' = Nobody /\ handle' = Nobody /\ mine' = {} /\ session' = Nobody
  /\ todo' = {} /\ tmp' = Nobody /\ lastUpdated' = Nobody
  /\ UNCHANGED <<kind, engines, bridge, listening, installed>>

----------------------------------------------------------------------------
StartStep(j) ==
  \/ Prepare(j) \/ LaunchBridge(j) \/ LaunchBridgeFails(j)
  \/ BridgeReady(j) \/ BridgeTimesOut(j)
  \/ KillOldEngine(j) \/ LaunchEngine(j) \/ LaunchEngineFails(j)
UpdateStep(j) ==
  \/ CheckIdle(j) \/ DownloadFails(j) \/ Downloaded(j)
  \/ (\E f \in Files : WriteTemp(j, f)) \/ RenameIntoPlace(j) \/ ExtractFails(j)
  \/ Verified(j) \/ VerifyFails(j)
Work(j) == \/ StartStep(j) \/ UpdateStep(j)
           \/ StopEngine(j) \/ StopBridge(j) \/ StatusReads(j) \/ Unlock(j)
Environment == \/ BridgeListens \/ BridgeDies \/ AgentRestarts
               \/ \E e \in Jobs : EngineDies(e)

Next == \/ Environment
        \/ \E j \in Jobs : \/ \E k \in Kinds : Arrive(j, k)
                           \/ Reject(j) \/ Lock(j) \/ Work(j)

Spec == Init /\ [][Next]_vars

\* Every step inside the mutex is bounded: 30s for the bridge, 5 minutes for
\* a download; sync.Mutex hands over to a waiter that keeps missing out.
FairSpec == Spec /\ \A j \in Jobs : WF_vars(Work(j)) /\ SF_vars(Lock(j))

----------------------------------------------------------------------------
TypeOK ==
  /\ kind \in [Jobs -> Kinds] /\ pc \in [Jobs -> Points]
  /\ mu \in Jobs \union {Nobody} /\ handle \in Jobs \union {Nobody}
  /\ engines \subseteq Jobs /\ mine \subseteq Jobs
  /\ bridge \in Jobs \union {Nobody} /\ listening \in BOOLEAN
  /\ session \in Jobs \union {Nobody}
  /\ installed \in [Files -> Jobs \union {Base, Absent, Torn}]
  /\ todo \subseteq Files /\ tmp \in Files \union {Nobody}
  /\ lastUpdated \in Jobs \union {Nobody}
  /\ restarts \in 0..MaxRestarts

(* No engine this agent launched escapes it: Status and Stop see every one.*)
NoLeakedEngine == mine \intersect engines \subseteq {handle}

(* A session that started stays wired as its Start left it until the next  *)
(* Start or Stop: its own engine is the tracked one, and the bridge, if it *)
(* is still there, is its own, whatever other calls were waiting.          *)
SessionIsWired ==
  session # Nobody => handle = session /\ bridge \in {Nobody, session}

(* When Stop returns, nothing this agent launched is left of the session:  *)
(* no Start can slip in between its two kills.                             *)
StopEndsSession ==
  \A j \in Jobs : pc[j] = "release" /\ kind[j] = "stop"
    => mine \intersect engines = {} /\ bridge = Nobody

(* No file of the engine changes under an engine this agent runs, and an   *)
(* Update in the middle of its files keeps every Start out.                *)
UpdateKeepsOffEngine ==
  [][installed' # installed => mine \intersect engines = {}]_vars

(* What Start would launch is whole.  A crash or an error in the middle of *)
(* an entry leaves no partly written file (extractZipFile), and an Update   *)
(* that reports success has left every file of its package in place.        *)
PackageIsSound ==
  /\ \A f \in Files : installed[f] # Torn
  /\ \A j \in Jobs : pc[j] = "release" /\ lastUpdated = j
       => \A f \in Files : installed[f] = j

(* Whoever waits for the manager gets in and out, or dies with the agent.  *)
CallsReturn == \A j \in Jobs : pc[j] = "waiting" ~> pc[j] \in Ended

----------------------------------------------------------------------------
(* What the documentation says and the code does not do.                   *)

(* manager.go:72 "Running is a live query (...), always accurate."         *)
StatusIsAccurate == Tracked <=> engines # {}
=============================================================================
