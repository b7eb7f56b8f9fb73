-------------------------- MODULE SelfUpdateProofs --------------------------
(***************************************************************************)
(* Proofs about SelfUpdate, for any number of commands and of restarts.     *)
(* SlotInv is what SingleFlight is for; BinaryInv follows the two files     *)
(* through the swap and ties them to the image the process runs from;       *)
(* SessionInv follows a session past the last check.                        *)
(***************************************************************************)
EXTENDS SelfUpdate, TLAPS

\* the steps of a command that has been decoded, Validate apart
CommandStep(c) ==
  \/ Undecodable(c) \/ TryBegin(c) \/ AlreadyInProgress(c)
  \/ CheckSession(c) \/ CreateTemp(c) \/ DownloadFails(c) \/ DownloadVerified(c)
  \/ RecheckSession(c)
  \/ VerifySigner(c) \/ ClearOld(c) \/ MoveOut(c) \/ MoveOutFails(c)
  \/ MoveIn(c) \/ MoveInFails(c) \/ RollBack(c) \/ Tidy(c)
  \/ End(c) \/ EmitResult(c)

(* A step is one of an update command, or a session begins or ends, or the  *)
(* process goes (DelayedExit, Killed) or comes back (Logon).                *)
LEMMA NextCases ==
  ASSUME Next
  PROVE  \/ StartSession \/ StopSession \/ DelayedExit \/ Killed \/ Logon
         \/ \E c \in Calls : \/ \E accepted \in BOOLEAN : Validate(c, accepted)
                             \/ CommandStep(c)
BY DEF Next, UpdateStep, CommandStep

(* The commands, the files and the process keep their types.               *)
THEOREM TypeCorrect == Spec => []TypeOK
<1>1. Init => TypeOK
  <2> SUFFICES ASSUME Init PROVE TypeOK
    OBVIOUS
  <2>1. pc \in [Calls -> Points] /\ ok \in [Calls -> BOOLEAN] /\ verdict \in [Calls -> Verdicts]
    BY DEF Init, Points, Updating, Verdicts
  <2>2. {inFlight, up, leaving, session, late} \subseteq BOOLEAN
    BY DEF Init
  <2>3. kills \in 0 .. MaxKills
    BY KillsAssumption DEF Init
  <2> QED
    BY <2>1, <2>2, <2>3 DEF Init, TypeOK
<1>2. TypeOK /\ [Next]_vars => TypeOK'
  <2> SUFFICES ASSUME TypeOK, [Next]_vars
               PROVE  TypeOK'
    OBVIOUS
  <2> USE NamesAssumption DEF TypeOK, Points, Updating, Verdicts, command, binary, process, Goto, Step
  <2>1. CASE StartSession \/ StopSession
    <3>1. Committed \in BOOLEAN
      BY DEF Committed
    <3>2. session' \in BOOLEAN /\ late' \in BOOLEAN
      BY <2>1, <3>1 DEF StartSession, StopSession
    <3>3. UNCHANGED <<command, binary, process>>
      BY <2>1 DEF StartSession, StopSession
    <3> QED
      BY <3>2, <3>3
  <2>2. CASE DelayedExit
    BY <2>2 DEF DelayedExit, Down
  <2>3. CASE Killed
    <3>1. kills' \in 0 .. MaxKills
      BY <2>3, KillsAssumption DEF Killed
    <3> QED
      BY <2>3, <3>1 DEF Killed, Down
  <2>4. CASE Logon
    BY <2>4 DEF Logon
  <2>5. ASSUME NEW c \in Calls, NEW accepted \in BOOLEAN, Validate(c, accepted) PROVE TypeOK'
    BY <2>5 DEF Validate
  <2>6. ASSUME NEW c \in Calls, CommandStep(c) PROVE TypeOK'
    <3>1. CASE Undecodable(c) \/ AlreadyInProgress(c)
      BY <3>1 DEF Undecodable, AlreadyInProgress
    <3>2. CASE TryBegin(c)
      BY <3>2 DEF TryBegin
    <3>3. CASE CheckSession(c) \/ CreateTemp(c)
      BY <3>3 DEF CheckSession, CreateTemp
    <3>4. CASE DownloadFails(c)
      BY <3>4 DEF DownloadFails, RemoveStaged
    <3>5. CASE DownloadVerified(c)
      BY <3>5 DEF DownloadVerified
    <3>6. CASE RecheckSession(c)
      BY <3>6 DEF RecheckSession, RemoveStaged
    <3>7. CASE VerifySigner(c)
      BY <3>7 DEF VerifySigner, ApplyFails, RemoveStaged
    <3>8. CASE ClearOld(c)
      BY <3>8 DEF ClearOld, RemoveOld
    <3>9. CASE MoveOut(c)
      BY <3>9 DEF MoveOut
    <3>10. CASE MoveOutFails(c)
      BY <3>10 DEF MoveOutFails, ApplyFails, RemoveStaged
    <3>11. CASE MoveIn(c)
      BY <3>11 DEF MoveIn
    <3>12. CASE MoveInFails(c)
      BY <3>12 DEF MoveInFails
    <3>13. CASE RollBack(c)
      BY <3>13 DEF RollBack, ApplyFails, RemoveStaged
    <3>14. CASE Tidy(c)
      BY <3>14 DEF Tidy, RemoveOld
    <3>15. CASE End(c)
      BY <3>15 DEF End
    <3>16. CASE EmitResult(c)
      BY <3>16 DEF EmitResult
    <3> QED
      BY <2>6, <3>1, <3>2, <3>3, <3>4, <3>5, <3>6, <3>7, <3>8, <3>9, <3>10, <3>11, <3>12, <3>13, <3>14, <3>15, <3>16 DEF CommandStep
  <2>7. CASE UNCHANGED vars
    BY <2>7 DEF vars
  <2> QED
    BY <2>1, <2>2, <2>3, <2>4, <2>5, <2>6, <2>7, NextCases
<1> QED
  BY <1>1, <1>2, PTL DEF Spec

----------------------------------------------------------------------------
\* a command inside Update holds the slot, alone, and only in a process that runs
SlotInv ==
  /\ OneAtATime
  /\ \A c \in Calls : pc[c] \in Updating => inFlight
  /\ ~up => ~leaving /\ ~session /\ image = "none" /\ \A c \in Calls : pc[c] \in {"idle", "done", "lost"}
  /\ up => image # "none"

(* One command at a time is inside Update, and none is when the agent is    *)
(* down.                                                                    *)
THEOREM SlotInvariant == Spec => []SlotInv
<1>1. Init => SlotInv
  BY DEF Init, SlotInv, OneAtATime, Updating
<1>2. TypeOK /\ SlotInv /\ [Next]_vars => SlotInv'
  <2> SUFFICES ASSUME TypeOK, SlotInv, [Next]_vars
               PROVE  SlotInv'
    OBVIOUS
  <2> USE NamesAssumption DEF TypeOK, SlotInv, OneAtATime, Updating, Points, command, binary, process, Goto, Step
  <2>1. CASE StartSession \/ StopSession
    BY <2>1 DEF StartSession, StopSession
  <2>2. CASE DelayedExit
    BY <2>2 DEF DelayedExit, Down
  <2>3. CASE Killed
    BY <2>3, KillsAssumption DEF Killed, Down
  <2>4. CASE Logon
    BY <2>4 DEF Logon
  <2>5. ASSUME NEW c \in Calls, NEW accepted \in BOOLEAN, Validate(c, accepted) PROVE SlotInv'
    BY <2>5 DEF Validate
  <2>6. ASSUME NEW c \in Calls, CommandStep(c) PROVE SlotInv'
    <3>1. CASE Undecodable(c) \/ AlreadyInProgress(c)
      BY <3>1 DEF Undecodable, AlreadyInProgress
    <3>2. CASE TryBegin(c)
      BY <3>2 DEF TryBegin
    <3>3. CASE CheckSession(c) \/ CreateTemp(c)
      BY <3>3 DEF CheckSession, CreateTemp
    <3>4. CASE DownloadFails(c)
      BY <3>4 DEF DownloadFails, RemoveStaged
    <3>5. CASE DownloadVerified(c)
      BY <3>5 DEF DownloadVerified
    <3>6. CASE RecheckSession(c)
      BY <3>6 DEF RecheckSession, RemoveStaged
    <3>7. CASE VerifySigner(c)
      BY <3>7 DEF VerifySigner, ApplyFails, RemoveStaged
    <3>8. CASE ClearOld(c)
      BY <3>8 DEF ClearOld, RemoveOld
    <3>9. CASE MoveOut(c)
      BY <3>9 DEF MoveOut
    <3>10. CASE MoveOutFails(c)
      BY <3>10 DEF MoveOutFails, ApplyFails, RemoveStaged
    <3>11. CASE MoveIn(c)
      BY <3>11 DEF MoveIn
    <3>12. CASE MoveInFails(c)
      BY <3>12 DEF MoveInFails
    <3>13. CASE RollBack(c)
      BY <3>13 DEF RollBack, ApplyFails, RemoveStaged
    <3>14. CASE Tidy(c)
      BY <3>14 DEF Tidy, RemoveOld
    <3>15. CASE End(c)
      BY <3>15 DEF End
    <3>16. CASE EmitResult(c)
      BY <3>16 DEF EmitResult
    <3> QED
      BY <2>6, <3>1, <3>2, <3>3, <3>4, <3>5, <3>6, <3>7, <3>8, <3>9, <3>10, <3>11, <3>12, <3>13, <3>14, <3>15, <3>16 DEF CommandStep
  <2>7. CASE UNCHANGED vars
    BY <2>7 DEF vars
  <2> QED
    BY <2>1, <2>2, <2>3, <2>4, <2>5, <2>6, <2>7, NextCases
<1> QED
  BY <1>1, <1>2, TypeCorrect, PTL DEF Spec

(* verify.SingleFlight: at most one command validates, downloads or applies *)
(* at any time.                                                             *)
THEOREM SingleFlight == Spec => []OneAtATime
<1>1. SlotInv => OneAtATime
  BY DEF SlotInv
<1> QED
  BY <1>1, SlotInvariant, PTL

----------------------------------------------------------------------------
Signed     == {"clear", "moveOut", "moveIn", "rollback", "tidy"}
NotYetIn   == {"idle", "validate", "check", "download", "recheck", "verify",
               "clear", "moveOut", "moveIn", "rollback"}

\* where the binaries are: the running image is always at its place, a binary
\* that was installed was signed, one that is still staged is not installed
BinaryInv ==
  /\ image = "exe" => exe # Absent
  /\ image = "old" => old # Absent
  /\ exe # Absent \/ old # Absent
  /\ \A c \in Calls :
       /\ exe = c \/ old = c => verdict[c] = "good"
       /\ pc[c] \in Signed => verdict[c] = "good"
       /\ pc[c] \in NotYetIn => exe # c /\ old # c
       /\ pc[c] \in {"moveIn", "rollback"} => image = "old" /\ exe = Absent
       /\ pc[c] = "tidy" => image = "old" /\ exe = c
       /\ ok[c] => up /\ image = "old" /\ exe = c

(* The swap never loses the running image, and only what was verified ever  *)
(* reaches the path the Run entry starts.                                   *)
THEOREM BinaryInvariant == Spec => []BinaryInv
<1>1. Init => BinaryInv
  BY NamesAssumption DEF Init, BinaryInv, Signed, NotYetIn
<1>2. TypeOK /\ SlotInv /\ BinaryInv /\ [Next]_vars => BinaryInv'
  <2> SUFFICES ASSUME TypeOK, SlotInv, BinaryInv, [Next]_vars
               PROVE  BinaryInv'
    OBVIOUS
  <2> USE NamesAssumption DEF TypeOK, SlotInv, OneAtATime, BinaryInv, Signed, NotYetIn, Updating, Points, Verdicts, command, binary, process, Goto, Step
  <2>1. CASE StartSession \/ StopSession
    BY <2>1 DEF StartSession, StopSession
  <2>2. CASE DelayedExit
    BY <2>2 DEF DelayedExit, Down
  <2>3. CASE Killed
    BY <2>3, KillsAssumption DEF Killed, Down
  <2>4. CASE Logon
    BY <2>4 DEF Logon
  <2>5. ASSUME NEW c \in Calls, NEW accepted \in BOOLEAN, Validate(c, accepted) PROVE BinaryInv'
    BY <2>5 DEF Validate
  <2>6. ASSUME NEW c \in Calls, CommandStep(c) PROVE BinaryInv'
    <3>1. CASE Undecodable(c) \/ AlreadyInProgress(c)
      BY <3>1 DEF Undecodable, AlreadyInProgress
    <3>2. CASE TryBegin(c)
      BY <3>2 DEF TryBegin
    <3>3. CASE CheckSession(c) \/ CreateTemp(c)
      BY <3>3 DEF CheckSession, CreateTemp
    <3>4. CASE DownloadFails(c)
      BY <3>4 DEF DownloadFails, RemoveStaged
    <3>5. CASE DownloadVerified(c)
      BY <3>5 DEF DownloadVerified
    <3>6. CASE RecheckSession(c)
      BY <3>6 DEF RecheckSession, RemoveStaged
    <3>7. CASE VerifySigner(c)
      BY <3>7 DEF VerifySigner, ApplyFails, RemoveStaged
    <3>8. CASE ClearOld(c)
      BY <3>8 DEF ClearOld, RemoveOld
    <3>9. CASE MoveOut(c)
      BY <3>9 DEF MoveOut
    <3>10. CASE MoveOutFails(c)
      BY <3>10 DEF MoveOutFails, ApplyFails, RemoveStaged
    <3>11. CASE MoveIn(c)
      BY <3>11 DEF MoveIn
    <3>12. CASE MoveInFails(c)
      BY <3>12 DEF MoveInFails
    <3>13. CASE RollBack(c)
      BY <3>13 DEF RollBack, ApplyFails, RemoveStaged
    <3>14. CASE Tidy(c)
      BY <3>14 DEF Tidy, RemoveOld
    <3>15. CASE End(c)
      BY <3>15 DEF End
    <3>16. CASE EmitResult(c)
      BY <3>16 DEF EmitResult
    <3> QED
      BY <2>6, <3>1, <3>2, <3>3, <3>4, <3>5, <3>6, <3>7, <3>8, <3>9, <3>10, <3>11, <3>12, <3>13, <3>14, <3>15, <3>16 DEF CommandStep
  <2>7. CASE UNCHANGED vars
    BY <2>7 DEF vars
  <2> QED
    BY <2>1, <2>2, <2>3, <2>4, <2>5, <2>6, <2>7, NextCases
<1> QED
  BY <1>1, <1>2, TypeCorrect, SlotInvariant, PTL DEF Spec

(* Whatever fails and whenever the agent is killed, a verified binary is on *)
(* the disk (applyLightUpdate's two renames and rollback).                  *)
THEOREM BinarySurvives == Spec => []ABinarySurvives
<1>1. BinaryInv => ABinarySurvives
  BY DEF BinaryInv, ABinarySurvives
<1> QED
  BY <1>1, BinaryInvariant, PTL

(* A successful update stays installed until the agent exits, whatever other *)
(* commands arrive (the two seconds before os.Exit).                        *)
THEOREM AppliedStays == Spec => []AppliedIsNextToRun
<1>1. BinaryInv => AppliedIsNextToRun
  BY DEF BinaryInv, AppliedIsNextToRun
<1> QED
  BY <1>1, BinaryInvariant, PTL

----------------------------------------------------------------------------
\* a session running past the last check started after it
SessionInv == Committed /\ session => late

(* Past the last check, only a session that started after it can be running. *)
THEOREM SessionInvariant == Spec => []SessionInv
<1>1. Init => SessionInv
  BY DEF Init, SessionInv, Committed
<1>2. TypeOK /\ SlotInv /\ SessionInv /\ [Next]_vars => SessionInv'
  <2> SUFFICES ASSUME TypeOK, SlotInv, SessionInv, [Next]_vars
               PROVE  SessionInv'
    OBVIOUS
  <2> USE NamesAssumption DEF TypeOK, SlotInv, OneAtATime, SessionInv, Committed, Updating, Points, command, binary, process, Goto, Step
  <2>1. CASE StartSession \/ StopSession
    BY <2>1 DEF StartSession, StopSession
  <2>2. CASE DelayedExit
    BY <2>2 DEF DelayedExit, Down
  <2>3. CASE Killed
    BY <2>3, KillsAssumption DEF Killed, Down
  <2>4. CASE Logon
    BY <2>4 DEF Logon
  <2>5. ASSUME NEW c \in Calls, NEW accepted \in BOOLEAN, Validate(c, accepted) PROVE SessionInv'
    BY <2>5 DEF Validate
  <2>6. ASSUME NEW c \in Calls, CommandStep(c) PROVE SessionInv'
    <3>1. CASE Undecodable(c) \/ AlreadyInProgress(c)
      BY <3>1 DEF Undecodable, AlreadyInProgress
    <3>2. CASE TryBegin(c)
      BY <3>2 DEF TryBegin
    <3>3. CASE CheckSession(c) \/ CreateTemp(c)
      BY <3>3 DEF CheckSession, CreateTemp
    <3>4. CASE DownloadFails(c)
      BY <3>4 DEF DownloadFails, RemoveStaged
    <3>5. CASE DownloadVerified(c)
      BY <3>5 DEF DownloadVerified
    <3>6. CASE RecheckSession(c)
      BY <3>6 DEF RecheckSession, RemoveStaged
    <3>7. CASE VerifySigner(c)
      BY <3>7 DEF VerifySigner, ApplyFails, RemoveStaged
    <3>8. CASE ClearOld(c)
      BY <3>8 DEF ClearOld, RemoveOld
    <3>9. CASE MoveOut(c)
      BY <3>9 DEF MoveOut
    <3>10. CASE MoveOutFails(c)
      BY <3>10 DEF MoveOutFails, ApplyFails, RemoveStaged
    <3>11. CASE MoveIn(c)
      BY <3>11 DEF MoveIn
    <3>12. CASE MoveInFails(c)
      BY <3>12 DEF MoveInFails
    <3>13. CASE RollBack(c)
      BY <3>13 DEF RollBack, ApplyFails, RemoveStaged
    <3>14. CASE Tidy(c)
      BY <3>14 DEF Tidy, RemoveOld
    <3>15. CASE End(c)
      BY <3>15 DEF End
    <3>16. CASE EmitResult(c)
      BY <3>16 DEF EmitResult
    <3> QED
      BY <2>6, <3>1, <3>2, <3>3, <3>4, <3>5, <3>6, <3>7, <3>8, <3>9, <3>10, <3>11, <3>12, <3>13, <3>14, <3>15, <3>16 DEF CommandStep
  <2>7. CASE UNCHANGED vars
    BY <2>7 DEF vars
  <2> QED
    BY <2>1, <2>2, <2>3, <2>4, <2>5, <2>6, <2>7, NextCases
<1> QED
  BY <1>1, <1>2, TypeCorrect, SlotInvariant, PTL DEF Spec

(* The restart an update causes spares every session Update could see when   *)
(* it last asked SessionActiveFn.                                           *)
THEOREM SeenSessionsAreSpared == Spec => SparesSeenSessions
<1>1. SessionInv => (leaving /\ session => late)
  BY DEF SessionInv, Committed
<1>2. SessionInv /\ [Next]_vars =>
        [leaving /\ up /\ ~up' /\ kills' = kills /\ session => late]_vars
  BY <1>1
<1> QED
  BY <1>2, SessionInvariant, PTL DEF Spec, SparesSeenSessions
=============================================================================
