----------------------- MODULE SolarbeamManagerProofs -----------------------
(***************************************************************************)
(* Proofs about SolarbeamManager, for any number of calls and of restarts. *)
(* Everything rests on the mutex: MutexInv says that a job with steps of   *)
(* its own to take is the one in Manager.mu.                               *)
(***************************************************************************)
EXTENDS SolarbeamManager, TLAPS

\* the steps of a job, with Work flattened out
JobStep(j) ==
  \/ Reject(j) \/ Lock(j) \/ Unlock(j) \/ Prepare(j)
  \/ LaunchBridge(j) \/ LaunchBridgeFails(j) \/ BridgeReady(j) \/ BridgeTimesOut(j)
  \/ KillOldEngine(j) \/ LaunchEngine(j) \/ LaunchEngineFails(j)
  \/ StopEngine(j) \/ StopBridge(j) \/ StatusReads(j)
  \/ CheckIdle(j) \/ DownloadFails(j) \/ Downloaded(j)
  \/ RenameIntoPlace(j) \/ ExtractFails(j) \/ Verified(j) \/ VerifyFails(j)

(* A step is one of a call of the Manager, or the death of a process or a   *)
(* restart of the agent.                                                    *)
LEMMA NextCases ==
  ASSUME Next
  PROVE  \/ BridgeListens \/ BridgeDies \/ AgentRestarts
         \/ \E e \in Jobs : EngineDies(e)
         \/ \E j \in Jobs : \/ \E k \in Kinds : Arrive(j, k)
                            \/ \E f \in Files : WriteTemp(j, f)
                            \/ JobStep(j)
BY DEF Next, Environment, Work, StartStep, UpdateStep, JobStep

(* The manager, the machine's processes and the package keep their types.  *)
THEOREM TypeCorrect == Spec => []TypeOK
<1>1. Init => TypeOK
  <2> SUFFICES ASSUME Init PROVE TypeOK
    OBVIOUS
  <2>1. kind \in [Jobs -> Kinds] /\ pc \in [Jobs -> Points]
    BY DEF Init, Kinds, Points
  <2>2. installed \in [Files -> Jobs \union {Base, Absent, Torn}]
    <3>1. PICK p \in {Base, Absent} : installed = [f \in Files |-> p]
      BY DEF Init
    <3> QED BY <3>1
  <2>3. restarts \in 0..MaxRestarts
    BY RestartsAssumption DEF Init
  <2> QED
    BY <2>1, <2>2, <2>3 DEF Init, TypeOK
<1>2. TypeOK /\ [Next]_vars => TypeOK'
  <2> SUFFICES ASSUME TypeOK, [Next]_vars
               PROVE  TypeOK'
    OBVIOUS
  <2> USE NamesAssumption DEF TypeOK, Points, Inside, Ended, Kinds, calls, processes, package, Goto, Step
  <2>1. CASE BridgeListens \/ BridgeDies
    BY <2>1 DEF BridgeListens, BridgeDies
  <2>2. CASE AgentRestarts
    BY <2>2, RestartsAssumption DEF AgentRestarts
  <2>3. ASSUME NEW e \in Jobs, EngineDies(e) PROVE TypeOK'
    BY <2>3 DEF EngineDies
  <2>4. ASSUME NEW j \in Jobs, NEW k \in Kinds, Arrive(j, k) PROVE TypeOK'
    BY <2>4 DEF Arrive
  <2>5. ASSUME NEW j \in Jobs, NEW f \in Files, WriteTemp(j, f) PROVE TypeOK'
    BY <2>5 DEF WriteTemp
  <2>6. ASSUME NEW j \in Jobs, JobStep(j) PROVE TypeOK'
    <3>1. CASE Reject(j)
      BY <3>1 DEF Reject
    <3>2. CASE Lock(j)
      BY <3>2 DEF Lock, Acquire, Entry, Kinds
    <3>3. CASE Unlock(j)
      BY <3>3 DEF Unlock
    <3>4. CASE Prepare(j)
      BY <3>4 DEF Prepare
    <3>5. CASE LaunchBridge(j) \/ LaunchBridgeFails(j)
      BY <3>5 DEF LaunchBridge, LaunchBridgeFails
    <3>6. CASE BridgeReady(j) \/ BridgeTimesOut(j)
      BY <3>6 DEF BridgeReady, BridgeTimesOut
    <3>7. CASE KillOldEngine(j)
      BY <3>7 DEF KillOldEngine
    <3>8. CASE LaunchEngine(j) \/ LaunchEngineFails(j)
      BY <3>8 DEF LaunchEngine, LaunchEngineFails
    <3>9. CASE StopEngine(j)
      BY <3>9 DEF StopEngine
    <3>10. CASE StopBridge(j)
      BY <3>10 DEF StopBridge
    <3>11. CASE StatusReads(j)
      BY <3>11 DEF StatusReads
    <3>12. CASE CheckIdle(j)
      BY <3>12 DEF CheckIdle, Tracked
    <3>13. CASE DownloadFails(j) \/ Downloaded(j)
      BY <3>13 DEF DownloadFails, Downloaded
    <3>14. CASE RenameIntoPlace(j) \/ ExtractFails(j)
      BY <3>14 DEF RenameIntoPlace, ExtractFails
    <3>15. CASE Verified(j) \/ VerifyFails(j)
      BY <3>15 DEF Verified, VerifyFails
    <3> QED
      BY <2>6, <3>1, <3>2, <3>3, <3>4, <3>5, <3>6, <3>7, <3>8, <3>9, <3>10, <3>11, <3>12, <3>13, <3>14, <3>15 DEF JobStep
  <2>7. CASE UNCHANGED vars
    BY <2>7 DEF vars
  <2> QED
    BY <2>1, <2>2, <2>3, <2>4, <2>5, <2>6, <2>7, NextCases
<1> QED
  BY <1>1, <1>2, PTL DEF Spec

----------------------------------------------------------------------------
\* which of its steps a job is at tells what it was asked to do
StartPoints  == {"prepare", "bridge", "await", "oldEngine", "newEngine"}
StopPoints   == {"stopEngine", "stopBridge"}
UpdatePoints == {"check", "download", "extract"}

MutexInv ==
  \A j \in Jobs :
    /\ pc[j] \in Inside => mu = j
    /\ pc[j] \in StartPoints => kind[j] = "start"
    /\ pc[j] \in StopPoints => kind[j] = "stop"
    /\ pc[j] \in UpdatePoints => kind[j] = "update"
    /\ pc[j] = "status" => kind[j] = "status"

\* engines: every one this agent launched is tracked, and none is there when
\* a Start is about to launch, a Stop has killed, or an Update writes
EngineInv ==
  /\ NoLeakedEngine
  /\ \A j \in Jobs :
       /\ pc[j] \in {"newEngine", "stopBridge"} => handle = Nobody
       /\ pc[j] \in {"download", "extract"} => mine \intersect engines = {}

\* the bridge belongs to the Start that waits for it, and no session is
\* recorded while a Start or a Stop is at work
SessionInv ==
  /\ SessionIsWired
  /\ \A j \in Jobs :
       /\ pc[j] \in {"await", "oldEngine", "newEngine"} => bridge \in {Nobody, j}
       /\ pc[j] \in StartPoints \union StopPoints => session = Nobody

(* A job with steps of its own to take holds Manager.mu, and what it does   *)
(* there is what it was asked to do.                                       *)
THEOREM MutexInvariant == Spec => []MutexInv
<1>1. Init => MutexInv
  BY NamesAssumption, ExeAssumption, RestartsAssumption DEF Init, MutexInv, TypeOK, Inside, StartPoints, StopPoints, UpdatePoints, Ended, Points, Kinds
<1>2. TypeOK /\ MutexInv /\ [Next]_vars => MutexInv'
  <2> SUFFICES ASSUME TypeOK, MutexInv, [Next]_vars
               PROVE  MutexInv'
    OBVIOUS
  <2> USE NamesAssumption DEF MutexInv, TypeOK, Inside, StartPoints, StopPoints, UpdatePoints, Ended, Points, Kinds, calls, processes, package, Goto, Step
  <2>1. CASE BridgeListens \/ BridgeDies
    BY <2>1 DEF BridgeListens, BridgeDies
  <2>2. CASE AgentRestarts
    BY <2>2 DEF AgentRestarts
  <2>3. ASSUME NEW e \in Jobs, EngineDies(e) PROVE MutexInv'
    BY <2>3 DEF EngineDies
  <2>4. ASSUME NEW j \in Jobs, NEW k \in Kinds, Arrive(j, k) PROVE MutexInv'
    BY <2>4 DEF Arrive
  <2>5. ASSUME NEW j \in Jobs, NEW f \in Files, WriteTemp(j, f) PROVE MutexInv'
    BY <2>5 DEF WriteTemp
  <2>6. ASSUME NEW j \in Jobs, JobStep(j) PROVE MutexInv'
    <3>1. CASE Reject(j)
      BY <3>1 DEF Reject
    <3>2. CASE Lock(j)
      BY <3>2 DEF Lock, Acquire, Entry, Kinds
    <3>3. CASE Unlock(j)
      BY <3>3 DEF Unlock
    <3>4. CASE Prepare(j)
      BY <3>4 DEF Prepare
    <3>5. CASE LaunchBridge(j) \/ LaunchBridgeFails(j)
      BY <3>5 DEF LaunchBridge, LaunchBridgeFails
    <3>6. CASE BridgeReady(j) \/ BridgeTimesOut(j)
      BY <3>6 DEF BridgeReady, BridgeTimesOut
    <3>7. CASE KillOldEngine(j)
      BY <3>7 DEF KillOldEngine
    <3>8. CASE LaunchEngine(j) \/ LaunchEngineFails(j)
      BY <3>8 DEF LaunchEngine, LaunchEngineFails
    <3>9. CASE StopEngine(j)
      BY <3>9 DEF StopEngine
    <3>10. CASE StopBridge(j)
      BY <3>10 DEF StopBridge
    <3>11. CASE StatusReads(j)
      BY <3>11 DEF StatusReads
    <3>12. CASE CheckIdle(j)
      BY <3>12 DEF CheckIdle, Tracked
    <3>13. CASE DownloadFails(j) \/ Downloaded(j)
      BY <3>13 DEF DownloadFails, Downloaded
    <3>14. CASE RenameIntoPlace(j) \/ ExtractFails(j)
      BY <3>14 DEF RenameIntoPlace, ExtractFails
    <3>15. CASE Verified(j) \/ VerifyFails(j)
      BY <3>15 DEF Verified, VerifyFails
    <3> QED
      BY <2>6, <3>1, <3>2, <3>3, <3>4, <3>5, <3>6, <3>7, <3>8, <3>9, <3>10, <3>11, <3>12, <3>13, <3>14, <3>15 DEF JobStep
  <2>7. CASE UNCHANGED vars
    BY <2>7 DEF vars
  <2> QED
    BY <2>1, <2>2, <2>3, <2>4, <2>5, <2>6, <2>7, NextCases
<1> QED
  BY <1>1, <1>2, TypeCorrect, PTL DEF Spec

(* Every engine process this agent launched is the tracked one.            *)
THEOREM EngineInvariant == Spec => []EngineInv
<1>1. Init => EngineInv
  BY NamesAssumption, ExeAssumption, RestartsAssumption DEF Init, EngineInv, NoLeakedEngine, MutexInv, TypeOK, Inside, StartPoints, StopPoints, UpdatePoints
<1>2. TypeOK /\ MutexInv /\ EngineInv /\ [Next]_vars => EngineInv'
  <2> SUFFICES ASSUME TypeOK, MutexInv, EngineInv, [Next]_vars
               PROVE  EngineInv'
    OBVIOUS
  <2> USE NamesAssumption DEF EngineInv, NoLeakedEngine, MutexInv, TypeOK, Inside, StartPoints, StopPoints, UpdatePoints, calls, processes, package, Goto, Step
  <2>1. CASE BridgeListens \/ BridgeDies
    BY <2>1 DEF BridgeListens, BridgeDies
  <2>2. CASE AgentRestarts
    BY <2>2 DEF AgentRestarts
  <2>3. ASSUME NEW e \in Jobs, EngineDies(e) PROVE EngineInv'
    BY <2>3 DEF EngineDies
  <2>4. ASSUME NEW j \in Jobs, NEW k \in Kinds, Arrive(j, k) PROVE EngineInv'
    BY <2>4 DEF Arrive
  <2>5. ASSUME NEW j \in Jobs, NEW f \in Files, WriteTemp(j, f) PROVE EngineInv'
    BY <2>5 DEF WriteTemp
  <2>6. ASSUME NEW j \in Jobs, JobStep(j) PROVE EngineInv'
    <3>1. CASE Reject(j)
      BY <3>1 DEF Reject
    <3>2. CASE Lock(j)
      BY <3>2 DEF Lock, Acquire, Entry, Kinds
    <3>3. CASE Unlock(j)
      BY <3>3 DEF Unlock
    <3>4. CASE Prepare(j)
      BY <3>4 DEF Prepare
    <3>5. CASE LaunchBridge(j) \/ LaunchBridgeFails(j)
      BY <3>5 DEF LaunchBridge, LaunchBridgeFails
    <3>6. CASE BridgeReady(j) \/ BridgeTimesOut(j)
      BY <3>6 DEF BridgeReady, BridgeTimesOut
    <3>7. CASE KillOldEngine(j)
      BY <3>7 DEF KillOldEngine
    <3>8. CASE LaunchEngine(j) \/ LaunchEngineFails(j)
      BY <3>8 DEF LaunchEngine, LaunchEngineFails
    <3>9. CASE StopEngine(j)
      BY <3>9 DEF StopEngine
    <3>10. CASE StopBridge(j)
      BY <3>10 DEF StopBridge
    <3>11. CASE StatusReads(j)
      BY <3>11 DEF StatusReads
    <3>12. CASE CheckIdle(j)
      BY <3>12 DEF CheckIdle, Tracked
    <3>13. CASE DownloadFails(j) \/ Downloaded(j)
      BY <3>13 DEF DownloadFails, Downloaded
    <3>14. CASE RenameIntoPlace(j) \/ ExtractFails(j)
      BY <3>14 DEF RenameIntoPlace, ExtractFails
    <3>15. CASE Verified(j) \/ VerifyFails(j)
      BY <3>15 DEF Verified, VerifyFails
    <3> QED
      BY <2>6, <3>1, <3>2, <3>3, <3>4, <3>5, <3>6, <3>7, <3>8, <3>9, <3>10, <3>11, <3>12, <3>13, <3>14, <3>15 DEF JobStep
  <2>7. CASE UNCHANGED vars
    BY <2>7 DEF vars
  <2> QED
    BY <2>1, <2>2, <2>3, <2>4, <2>5, <2>6, <2>7, NextCases
<1> QED
  BY <1>1, <1>2, TypeCorrect, MutexInvariant, PTL DEF Spec

(* A started session keeps its own engine and its own bridge.              *)
THEOREM SessionInvariant == Spec => []SessionInv
<1>1. Init => SessionInv
  BY NamesAssumption, ExeAssumption, RestartsAssumption DEF Init, SessionInv, SessionIsWired, MutexInv, TypeOK, Inside, StartPoints, StopPoints, UpdatePoints
<1>2. TypeOK /\ MutexInv /\ SessionInv /\ [Next]_vars => SessionInv'
  <2> SUFFICES ASSUME TypeOK, MutexInv, SessionInv, [Next]_vars
               PROVE  SessionInv'
    OBVIOUS
  <2> USE NamesAssumption DEF SessionInv, SessionIsWired, MutexInv, TypeOK, Inside, StartPoints, StopPoints, UpdatePoints, calls, processes, package, Goto, Step
  <2>1. CASE BridgeListens \/ BridgeDies
    BY <2>1 DEF BridgeListens, BridgeDies
  <2>2. CASE AgentRestarts
    BY <2>2 DEF AgentRestarts
  <2>3. ASSUME NEW e \in Jobs, EngineDies(e) PROVE SessionInv'
    BY <2>3 DEF EngineDies
  <2>4. ASSUME NEW j \in Jobs, NEW k \in Kinds, Arrive(j, k) PROVE SessionInv'
    BY <2>4 DEF Arrive
  <2>5. ASSUME NEW j \in Jobs, NEW f \in Files, WriteTemp(j, f) PROVE SessionInv'
    BY <2>5 DEF WriteTemp
  <2>6. ASSUME NEW j \in Jobs, JobStep(j) PROVE SessionInv'
    <3>1. CASE Reject(j)
      BY <3>1 DEF Reject
    <3>2. CASE Lock(j)
      BY <3>2 DEF Lock, Acquire, Entry, Kinds
    <3>3. CASE Unlock(j)
      BY <3>3 DEF Unlock
    <3>4. CASE Prepare(j)
      BY <3>4 DEF Prepare
    <3>5. CASE LaunchBridge(j) \/ LaunchBridgeFails(j)
      BY <3>5 DEF LaunchBridge, LaunchBridgeFails
    <3>6. CASE BridgeReady(j) \/ BridgeTimesOut(j)
      BY <3>6 DEF BridgeReady, BridgeTimesOut
    <3>7. CASE KillOldEngine(j)
      BY <3>7 DEF KillOldEngine
    <3>8. CASE LaunchEngine(j) \/ LaunchEngineFails(j)
      BY <3>8 DEF LaunchEngine, LaunchEngineFails
    <3>9. CASE StopEngine(j)
      BY <3>9 DEF StopEngine
    <3>10. CASE StopBridge(j)
      BY <3>10 DEF StopBridge
    <3>11. CASE StatusReads(j)
      BY <3>11 DEF StatusReads
    <3>12. CASE CheckIdle(j)
      BY <3>12 DEF CheckIdle, Tracked
    <3>13. CASE DownloadFails(j) \/ Downloaded(j)
      BY <3>13 DEF DownloadFails, Downloaded
    <3>14. CASE RenameIntoPlace(j) \/ ExtractFails(j)
      BY <3>14 DEF RenameIntoPlace, ExtractFails
    <3>15. CASE Verified(j) \/ VerifyFails(j)
      BY <3>15 DEF Verified, VerifyFails
    <3> QED
      BY <2>6, <3>1, <3>2, <3>3, <3>4, <3>5, <3>6, <3>7, <3>8, <3>9, <3>10, <3>11, <3>12, <3>13, <3>14, <3>15 DEF JobStep
  <2>7. CASE UNCHANGED vars
    BY <2>7 DEF vars
  <2> QED
    BY <2>1, <2>2, <2>3, <2>4, <2>5, <2>6, <2>7, NextCases
<1> QED
  BY <1>1, <1>2, TypeCorrect, MutexInvariant, PTL DEF Spec

(* When Stop returns, no engine this agent launched and no bridge is left. *)
THEOREM StopInvariant == Spec => []StopEndsSession
<1>1. Init => StopEndsSession
  BY NamesAssumption, ExeAssumption, RestartsAssumption DEF Init, StopEndsSession, EngineInv, NoLeakedEngine, MutexInv, TypeOK, Inside, StartPoints, StopPoints, UpdatePoints
<1>2. TypeOK /\ MutexInv /\ EngineInv /\ StopEndsSession /\ [Next]_vars => StopEndsSession'
  <2> SUFFICES ASSUME TypeOK, MutexInv, EngineInv, StopEndsSession, [Next]_vars
               PROVE  StopEndsSession'
    OBVIOUS
  <2> USE NamesAssumption DEF StopEndsSession, EngineInv, NoLeakedEngine, MutexInv, TypeOK, Inside, StartPoints, StopPoints, UpdatePoints, calls, processes, package, Goto, Step
  <2>1. CASE BridgeListens \/ BridgeDies
    BY <2>1 DEF BridgeListens, BridgeDies
  <2>2. CASE AgentRestarts
    BY <2>2 DEF AgentRestarts
  <2>3. ASSUME NEW e \in Jobs, EngineDies(e) PROVE StopEndsSession'
    BY <2>3 DEF EngineDies
  <2>4. ASSUME NEW j \in Jobs, NEW k \in Kinds, Arrive(j, k) PROVE StopEndsSession'
    BY <2>4 DEF Arrive
  <2>5. ASSUME NEW j \in Jobs, NEW f \in Files, WriteTemp(j, f) PROVE StopEndsSession'
    BY <2>5 DEF WriteTemp
  <2>6. ASSUME NEW j \in Jobs, JobStep(j) PROVE StopEndsSession'
    <3>1. CASE Reject(j)
      BY <3>1 DEF Reject
    <3>2. CASE Lock(j)
      BY <3>2 DEF Lock, Acquire, Entry, Kinds
    <3>3. CASE Unlock(j)
      BY <3>3 DEF Unlock
    <3>4. CASE Prepare(j)
      BY <3>4 DEF Prepare
    <3>5. CASE LaunchBridge(j) \/ LaunchBridgeFails(j)
      BY <3>5 DEF LaunchBridge, LaunchBridgeFails
    <3>6. CASE BridgeReady(j) \/ BridgeTimesOut(j)
      BY <3>6 DEF BridgeReady, BridgeTimesOut
    <3>7. CASE KillOldEngine(j)
      BY <3>7 DEF KillOldEngine
    <3>8. CASE LaunchEngine(j) \/ LaunchEngineFails(j)
      BY <3>8 DEF LaunchEngine, LaunchEngineFails
    <3>9. CASE StopEngine(j)
      BY <3>9 DEF StopEngine
    <3>10. CASE StopBridge(j)
      BY <3>10 DEF StopBridge
    <3>11. CASE StatusReads(j)
      BY <3>11 DEF StatusReads
    <3>12. CASE CheckIdle(j)
      BY <3>12 DEF CheckIdle, Tracked
    <3>13. CASE DownloadFails(j) \/ Downloaded(j)
      BY <3>13 DEF DownloadFails, Downloaded
    <3>14. CASE RenameIntoPlace(j) \/ ExtractFails(j)
      BY <3>14 DEF RenameIntoPlace, ExtractFails
    <3>15. CASE Verified(j) \/ VerifyFails(j)
      BY <3>15 DEF Verified, VerifyFails
    <3> QED
      BY <2>6, <3>1, <3>2, <3>3, <3>4, <3>5, <3>6, <3>7, <3>8, <3>9, <3>10, <3>11, <3>12, <3>13, <3>14, <3>15 DEF JobStep
  <2>7. CASE UNCHANGED vars
    BY <2>7 DEF vars
  <2> QED
    BY <2>1, <2>2, <2>3, <2>4, <2>5, <2>6, <2>7, NextCases
<1> QED
  BY <1>1, <1>2, TypeCorrect, MutexInvariant, EngineInvariant, PTL DEF Spec

(* No engine of this agent escapes Status and Stop.                        *)
THEOREM NoEngineLeaks == Spec => []NoLeakedEngine
<1>1. EngineInv => NoLeakedEngine
  BY DEF EngineInv
<1> QED BY <1>1, EngineInvariant, PTL

(* What a Start wired stays wired until the next Start or Stop.            *)
THEOREM SessionStaysWired == Spec => []SessionIsWired
<1>1. SessionInv => SessionIsWired
  BY DEF SessionInv
<1> QED BY <1>1, SessionInvariant, PTL

(* An Update changes files only while no engine of this agent runs.        *)
THEOREM UpdateIsSafe == Spec => UpdateKeepsOffEngine
<1>1. TypeOK /\ EngineInv /\ [Next]_vars
        => [installed' # installed => mine \intersect engines = {}]_vars
  <2> SUFFICES ASSUME TypeOK, EngineInv, [Next]_vars, installed' # installed
               PROVE  mine \intersect engines = {}
    OBVIOUS
  <2> USE DEF calls, processes, package, Goto, Step
  <2>1. PICK j \in Jobs : RenameIntoPlace(j)
    <3>1. CASE UNCHANGED vars
      BY <3>1 DEF vars
    <3>2. CASE Environment
      BY <3>2 DEF Environment, BridgeListens, BridgeDies, EngineDies, AgentRestarts
    <3>3. ASSUME NEW j \in Jobs, NEW k \in Kinds, Arrive(j, k) PROVE FALSE
      BY <3>3 DEF Arrive
    <3>4. ASSUME NEW j \in Jobs, Reject(j) \/ Lock(j) \/ Unlock(j) PROVE FALSE
      BY <3>4 DEF Reject, Lock, Acquire, Unlock
    <3>5. ASSUME NEW j \in Jobs, StartStep(j) PROVE FALSE
      BY <3>5 DEF StartStep, Prepare, LaunchBridge, LaunchBridgeFails, BridgeReady,
                  BridgeTimesOut, KillOldEngine, LaunchEngine, LaunchEngineFails
    <3>6. ASSUME NEW j \in Jobs, StopEngine(j) \/ StopBridge(j) \/ StatusReads(j)
          PROVE  FALSE
      BY <3>6 DEF StopEngine, StopBridge, StatusReads
    <3>7. ASSUME NEW j \in Jobs, UpdateStep(j) PROVE RenameIntoPlace(j)
      BY <3>7 DEF UpdateStep, CheckIdle, DownloadFails, Downloaded, WriteTemp,
                  ExtractFails, Verified, VerifyFails
    <3> QED
      BY <3>1, <3>2, <3>3, <3>4, <3>5, <3>6, <3>7 DEF Next, Work
  <2>2. pc[j] = "extract"
    BY <2>1 DEF RenameIntoPlace
  <2> QED BY <2>2 DEF EngineInv
<1> QED
  BY <1>1, TypeCorrect, EngineInvariant, PTL DEF Spec, UpdateKeepsOffEngine

----------------------------------------------------------------------------
\* what an Update has taken out of its package is in place, no file is ever half
\* written, and only a call that is over or on its way out is recorded as the
\* last update
PackageInv ==
  /\ \A f \in Files : installed[f] # Torn
  /\ \A j \in Jobs :
       /\ pc[j] = "extract" => \A f \in Files \ todo : installed[f] = j
       /\ lastUpdated = j => pc[j] \in {"release", "done"}
       /\ pc[j] = "release" /\ lastUpdated = j => \A f \in Files : installed[f] = j

(* Entry by entry, an Update fills the directory with its own package and   *)
(* nobody else's (updateEngine under Manager.mu).                           *)
THEOREM PackageInvariant == Spec => []PackageInv
<1>1. Init => PackageInv
  BY NamesAssumption, ExeAssumption, RestartsAssumption DEF Init, PackageInv, MutexInv, TypeOK, Inside, StartPoints, StopPoints, UpdatePoints
<1>2. TypeOK /\ MutexInv /\ PackageInv /\ [Next]_vars => PackageInv'
  <2> SUFFICES ASSUME TypeOK, MutexInv, PackageInv, [Next]_vars
               PROVE  PackageInv'
    OBVIOUS
  <2> USE NamesAssumption DEF PackageInv, MutexInv, TypeOK, Inside, StartPoints, StopPoints, UpdatePoints, calls, processes, package, Goto, Step
  <2>1. CASE BridgeListens \/ BridgeDies
    BY <2>1 DEF BridgeListens, BridgeDies
  <2>2. CASE AgentRestarts
    BY <2>2 DEF AgentRestarts
  <2>3. ASSUME NEW e \in Jobs, EngineDies(e) PROVE PackageInv'
    BY <2>3 DEF EngineDies
  <2>4. ASSUME NEW j \in Jobs, NEW k \in Kinds, Arrive(j, k) PROVE PackageInv'
    BY <2>4 DEF Arrive
  <2>5. ASSUME NEW j \in Jobs, NEW f \in Files, WriteTemp(j, f) PROVE PackageInv'
    BY <2>5 DEF WriteTemp
  <2>6. ASSUME NEW j \in Jobs, JobStep(j) PROVE PackageInv'
    <3>1. CASE Reject(j)
      BY <3>1 DEF Reject
    <3>2. CASE Lock(j)
      BY <3>2 DEF Lock, Acquire, Entry, Kinds
    <3>3. CASE Unlock(j)
      BY <3>3 DEF Unlock
    <3>4. CASE Prepare(j)
      BY <3>4 DEF Prepare
    <3>5. CASE LaunchBridge(j) \/ LaunchBridgeFails(j)
      BY <3>5 DEF LaunchBridge, LaunchBridgeFails
    <3>6. CASE BridgeReady(j) \/ BridgeTimesOut(j)
      BY <3>6 DEF BridgeReady, BridgeTimesOut
    <3>7. CASE KillOldEngine(j)
      BY <3>7 DEF KillOldEngine
    <3>8. CASE LaunchEngine(j) \/ LaunchEngineFails(j)
      BY <3>8 DEF LaunchEngine, LaunchEngineFails
    <3>9. CASE StopEngine(j)
      BY <3>9 DEF StopEngine
    <3>10. CASE StopBridge(j)
      BY <3>10 DEF StopBridge
    <3>11. CASE StatusReads(j)
      BY <3>11 DEF StatusReads
    <3>12. CASE CheckIdle(j)
      BY <3>12 DEF CheckIdle, Tracked
    <3>13. CASE DownloadFails(j) \/ Downloaded(j)
      BY <3>13 DEF DownloadFails, Downloaded
    <3>14. CASE RenameIntoPlace(j) \/ ExtractFails(j)
      BY <3>14 DEF RenameIntoPlace, ExtractFails
    <3>15. CASE Verified(j) \/ VerifyFails(j)
      BY <3>15 DEF Verified, VerifyFails
    <3> QED
      BY <2>6, <3>1, <3>2, <3>3, <3>4, <3>5, <3>6, <3>7, <3>8, <3>9, <3>10, <3>11, <3>12, <3>13, <3>14, <3>15 DEF JobStep
  <2>7. CASE UNCHANGED vars
    BY <2>7 DEF vars
  <2> QED
    BY <2>1, <2>2, <2>3, <2>4, <2>5, <2>6, <2>7, NextCases
<1> QED
  BY <1>1, <1>2, TypeCorrect, MutexInvariant, PTL DEF Spec

(* What Start launches is whole: no torn file, and no file of another       *)
(* package after an Update that reports success.                           *)
THEOREM PackageStaysSound == Spec => []PackageIsSound
<1>1. PackageInv => PackageIsSound
  BY DEF PackageInv, PackageIsSound
<1> QED BY <1>1, PackageInvariant, PTL
=============================================================================
