------------------------- MODULE AgentClientProofs -------------------------
(***************************************************************************)
(* Proofs about AgentClient, for every set of runners and every bound.     *)
(***************************************************************************)
EXTENDS AgentClient, TLAPS

\* the steps of a runner, flattened out of Loop and Serve
RunnerStep(r) ==
  \/ RunStart(r) \/ RunRefused(r) \/ LoopTop(r) \/ SnapshotPause(r)
  \/ ParkedWakes(r) \/ ParkedCancelled(r) \/ RegisterAttempt(r)
  \/ DialSucceeds(r) \/ DialFails(r) \/ DialCancelled(r)
  \/ HelloQueued(r) \/ HelloCancelled(r) \/ PublishConnected(r)
  \/ PumpFails(r) \/ PumpCancelled(r) \/ CloseConn(r)
  \/ UnregisterAttempt(r) \/ ClassifyError(r) \/ RecordOutcome(r)
  \/ BackoffElapses(r) \/ BackoffCancelled(r) \/ RunReturns(r)

(* Every step of the client is a toggle, a cancelled context, or one step  *)
(* of one runner.                                                          *)
LEMMA NextCases ==
  ASSUME Next
  PROVE  \/ \E p \in BOOLEAN : SetPaused(p)
         \/ \E r \in Runners : CancelCtx(r) \/ RunnerStep(r)
BY DEF Next, Loop, Serve, DialReturns, HelloStep, RunnerStep

(* Backoff.Next: fresh or already in Min..Max, the next delay is in        *)
(* Min..Max, and it never shrinks.                                         *)
LEMMA NextDelayBounded ==
  ASSUME NEW d \in Delays
  PROVE  NextDelay(d) \in MinDelay..MaxDelay /\ NextDelay(d) >= d
BY DelayAssumption DEF NextDelay, Delays

(* The delay Run starts with (Backoff.next before the first Next).          *)
LEMMA ZeroIsDelay == 0 \in Delays
BY DEF Delays

(* The fields of Client and of its runners keep their types.               *)
THEOREM TypeCorrect == Spec => []TypeOK
<1>1. Init => TypeOK
  <2> SUFFICES ASSUME Init PROVE TypeOK
    OBVIOUS
  <2>1. pc \in [Runners -> Points]
    BY DEF Init, Points
  <2>2. attempt \in [Runners -> Causes] /\ retErr \in [Runners -> Errors]
    BY DEF Init, Causes, Errors
  <2>3. cur \in [Runners -> Delays]
    BY ZeroIsDelay DEF Init
  <2> QED
    BY <2>1, <2>2, <2>3 DEF Init, TypeOK, Errors
<1>2. TypeOK /\ [Next]_vars => TypeOK'
  <2> SUFFICES ASSUME TypeOK, [Next]_vars
               PROVE  TypeOK'
    OBVIOUS
  <2> USE DEF TypeOK, Points, Looping, Attempting, Dialled, Causes, Errors,
              shared, stats, Goto
  <2>1. ASSUME NEW p \in BOOLEAN, SetPaused(p) PROVE TypeOK'
    BY <2>1 DEF SetPaused
  <2>2. ASSUME NEW r \in Runners, CancelCtx(r) PROVE TypeOK'
    BY <2>2 DEF CancelCtx
  <2>3. ASSUME NEW r \in Runners, RunnerStep(r) PROVE TypeOK'
    <3>1. CASE RunStart(r) \/ RunRefused(r) \/ LoopTop(r)
      BY <3>1, ZeroIsDelay DEF RunStart, RunRefused, LoopTop
    <3>2. CASE SnapshotPause(r) \/ ParkedWakes(r) \/ ParkedCancelled(r)
      BY <3>2 DEF SnapshotPause, ParkedWakes, ParkedCancelled
    <3>3. CASE RegisterAttempt(r)
      BY <3>3 DEF RegisterAttempt
    <3>4. CASE DialSucceeds(r) \/ DialFails(r) \/ DialCancelled(r)
      BY <3>4 DEF DialSucceeds, DialFails, DialCancelled
    <3>5. CASE HelloQueued(r) \/ HelloCancelled(r)
      BY <3>5 DEF HelloQueued, HelloCancelled
    <3>10. CASE PublishConnected(r)
      BY <3>10 DEF PublishConnected
    <3>6. CASE PumpFails(r) \/ PumpCancelled(r) \/ CloseConn(r)
      BY <3>6 DEF PumpFails, PumpCancelled, CloseConn
    <3>7. CASE UnregisterAttempt(r) \/ ClassifyError(r)
      BY <3>7 DEF UnregisterAttempt, ClassifyError
    <3>8. CASE RecordOutcome(r)
      <4>1. NextDelay(cur[r]) \in Delays
        BY NextDelayBounded DEF Delays
      <4> QED BY <3>8, <4>1 DEF RecordOutcome
    <3>9. CASE BackoffElapses(r) \/ BackoffCancelled(r) \/ RunReturns(r)
      BY <3>9 DEF BackoffElapses, BackoffCancelled, RunReturns
    <3> QED
      BY <2>3, <3>1, <3>2, <3>3, <3>4, <3>5, <3>6, <3>7, <3>8, <3>9, <3>10 DEF RunnerStep
  <2>4. CASE UNCHANGED vars
    BY <2>4 DEF vars, local
  <2> QED
    BY <2>1, <2>2, <2>3, <2>4, NextCases
<1> QED
  BY <1>1, <1>2, PTL DEF Spec

----------------------------------------------------------------------------
\* c.running is set for as long as some runner is in its loop
RunningCoversLoop == \A r \in Runners : pc[r] \in Looping => running

\* an open socket belongs to the attempt that dialled it
SocketIsDialled == \A r \in Runners : conn[r] = "open" => pc[r] \in Dialled

\* what an attempt that is being torn down, or an ended one, will return
ErrorIsReal(r) ==
  /\ pc[r] \in {"closing", "unregister", "classify"}
       => retErr[r] \in {"failure", "canceled"}
  /\ pc[r] = "record" /\ retErr[r] \in {"none", "canceled"} => ctxDone[r]

\* the part of the control flow that concerns one call of Run
RunInv ==
  /\ \A r \in Runners : ErrorIsReal(r)
  /\ ReturnsOnlyWhenCancelled

\* the part that makes the runners exclude each other
OwnerInv ==
  /\ RunningCoversLoop
  /\ AtMostOneLoop
  /\ PauseReachesAttempt

\* the part that ties the published state to the attempt
LinkInv ==
  /\ SocketIsDialled
  /\ ConnectedIsCurrent

(* Run ends only because its context did: what connectAndServe returns     *)
(* under a live context never makes the loop return.                       *)
THEOREM RunInvariant == Spec => []RunInv
<1>1. Init => RunInv
  BY DEF Init, RunInv, ErrorIsReal, ReturnsOnlyWhenCancelled
<1>2. TypeOK /\ RunInv /\ [Next]_vars => RunInv'
  <2> SUFFICES ASSUME TypeOK, RunInv, [Next]_vars
               PROVE  RunInv'
    OBVIOUS
  <2> USE DEF RunInv, ErrorIsReal, ReturnsOnlyWhenCancelled, TypeOK, shared, stats, Goto, Errors, Causes, AttemptDone
  <2>1. ASSUME NEW p \in BOOLEAN, SetPaused(p) PROVE RunInv'
    BY <2>1 DEF SetPaused
  <2>2. ASSUME NEW r \in Runners, CancelCtx(r) PROVE RunInv'
    BY <2>2 DEF CancelCtx
  <2>3. ASSUME NEW r \in Runners, RunnerStep(r) PROVE RunInv'
    <3>1. CASE RunStart(r) \/ RunRefused(r) \/ LoopTop(r)
      BY <3>1 DEF RunStart, RunRefused, LoopTop
    <3>2. CASE SnapshotPause(r) \/ ParkedWakes(r) \/ ParkedCancelled(r)
      BY <3>2 DEF SnapshotPause, ParkedWakes, ParkedCancelled
    <3>3. CASE RegisterAttempt(r)
      BY <3>3 DEF RegisterAttempt
    <3>4. CASE DialSucceeds(r) \/ DialFails(r) \/ DialCancelled(r)
      BY <3>4 DEF DialSucceeds, DialFails, DialCancelled
    <3>5. CASE HelloQueued(r) \/ HelloCancelled(r)
      BY <3>5 DEF HelloQueued, HelloCancelled
    <3>6. CASE PublishConnected(r)
      BY <3>6 DEF PublishConnected
    <3>7. CASE PumpFails(r) \/ PumpCancelled(r)
      BY <3>7 DEF PumpFails, PumpCancelled
    <3>8. CASE CloseConn(r)
      BY <3>8 DEF CloseConn
    <3>9. CASE UnregisterAttempt(r)
      BY <3>9 DEF UnregisterAttempt
    <3>10. CASE ClassifyError(r)
      BY <3>10 DEF ClassifyError
    <3>11. CASE RecordOutcome(r)
      BY <3>11 DEF RecordOutcome
    <3>12. CASE BackoffElapses(r) \/ BackoffCancelled(r)
      BY <3>12 DEF BackoffElapses, BackoffCancelled
    <3>13. CASE RunReturns(r)
      BY <3>13 DEF RunReturns
    <3> QED
      BY <2>3, <3>1, <3>2, <3>3, <3>4, <3>5, <3>6, <3>7, <3>8, <3>9, <3>10, <3>11, <3>12, <3>13 DEF RunnerStep
  <2>4. CASE UNCHANGED vars
    BY <2>4 DEF vars, local
  <2> QED
    BY <2>1, <2>2, <2>3, <2>4, NextCases
<1> QED
  BY <1>1, <1>2, TypeCorrect, PTL DEF Spec

(* The running flag makes the runners exclude each other, so the one       *)
(* cancelCurrent field always reaches the one attempt there is.            *)
THEOREM OwnerInvariant == Spec => []OwnerInv
<1>1. Init => OwnerInv
  BY DEF Init, OwnerInv, RunningCoversLoop, AtMostOneLoop, PauseReachesAttempt, Looping, Attempting, Dialled
<1>2. TypeOK /\ OwnerInv /\ [Next]_vars => OwnerInv'
  <2> SUFFICES ASSUME TypeOK, OwnerInv, [Next]_vars
               PROVE  OwnerInv'
    OBVIOUS
  <2> USE DEF OwnerInv, RunningCoversLoop, AtMostOneLoop, PauseReachesAttempt, Looping, Attempting, Dialled, TypeOK, shared, stats, Goto
  <2>1. ASSUME NEW p \in BOOLEAN, SetPaused(p) PROVE OwnerInv'
    BY <2>1 DEF SetPaused
  <2>2. ASSUME NEW r \in Runners, CancelCtx(r) PROVE OwnerInv'
    BY <2>2 DEF CancelCtx
  <2>3. ASSUME NEW r \in Runners, RunnerStep(r) PROVE OwnerInv'
    <3>1. CASE RunStart(r) \/ RunRefused(r) \/ LoopTop(r)
      BY <3>1 DEF RunStart, RunRefused, LoopTop
    <3>2. CASE SnapshotPause(r) \/ ParkedWakes(r) \/ ParkedCancelled(r)
      BY <3>2 DEF SnapshotPause, ParkedWakes, ParkedCancelled
    <3>3. CASE RegisterAttempt(r)
      BY <3>3 DEF RegisterAttempt
    <3>4. CASE DialSucceeds(r) \/ DialFails(r) \/ DialCancelled(r)
      BY <3>4 DEF DialSucceeds, DialFails, DialCancelled
    <3>5. CASE HelloQueued(r) \/ HelloCancelled(r)
      BY <3>5 DEF HelloQueued, HelloCancelled
    <3>6. CASE PublishConnected(r)
      BY <3>6 DEF PublishConnected
    <3>7. CASE PumpFails(r) \/ PumpCancelled(r)
      BY <3>7 DEF PumpFails, PumpCancelled
    <3>8. CASE CloseConn(r)
      BY <3>8 DEF CloseConn
    <3>9. CASE UnregisterAttempt(r)
      BY <3>9 DEF UnregisterAttempt
    <3>10. CASE ClassifyError(r)
      BY <3>10 DEF ClassifyError
    <3>11. CASE RecordOutcome(r)
      BY <3>11 DEF RecordOutcome
    <3>12. CASE BackoffElapses(r) \/ BackoffCancelled(r)
      BY <3>12 DEF BackoffElapses, BackoffCancelled
    <3>13. CASE RunReturns(r)
      BY <3>13 DEF RunReturns
    <3> QED
      BY <2>3, <3>1, <3>2, <3>3, <3>4, <3>5, <3>6, <3>7, <3>8, <3>9, <3>10, <3>11, <3>12, <3>13 DEF RunnerStep
  <2>4. CASE UNCHANGED vars
    BY <2>4 DEF vars, local
  <2> QED
    BY <2>1, <2>2, <2>3, <2>4, NextCases
<1> QED
  BY <1>1, <1>2, TypeCorrect, PTL DEF Spec

(* The reported link and the open socket belong to a current attempt.      *)
THEOREM LinkInvariant == Spec => []LinkInv
<1>1. Init => LinkInv
  BY DEF Init, LinkInv, OwnerInv, SocketIsDialled, ConnectedIsCurrent, AtMostOneLoop, Looping, Attempting, Dialled
<1>2. TypeOK /\ OwnerInv /\ LinkInv /\ [Next]_vars => LinkInv'
  <2> SUFFICES ASSUME TypeOK, OwnerInv, LinkInv, [Next]_vars
               PROVE  LinkInv'
    OBVIOUS
  <2> USE DEF LinkInv, OwnerInv, SocketIsDialled, ConnectedIsCurrent, AtMostOneLoop, Looping, Attempting, Dialled, TypeOK, shared, stats, Goto
  <2>1. ASSUME NEW p \in BOOLEAN, SetPaused(p) PROVE LinkInv'
    BY <2>1 DEF SetPaused
  <2>2. ASSUME NEW r \in Runners, CancelCtx(r) PROVE LinkInv'
    BY <2>2 DEF CancelCtx
  <2>3. ASSUME NEW r \in Runners, RunnerStep(r) PROVE LinkInv'
    <3>1. CASE RunStart(r) \/ RunRefused(r) \/ LoopTop(r)
      BY <3>1 DEF RunStart, RunRefused, LoopTop
    <3>2. CASE SnapshotPause(r) \/ ParkedWakes(r) \/ ParkedCancelled(r)
      BY <3>2 DEF SnapshotPause, ParkedWakes, ParkedCancelled
    <3>3. CASE RegisterAttempt(r)
      BY <3>3 DEF RegisterAttempt
    <3>4. CASE DialSucceeds(r) \/ DialFails(r) \/ DialCancelled(r)
      BY <3>4 DEF DialSucceeds, DialFails, DialCancelled
    <3>5. CASE HelloQueued(r) \/ HelloCancelled(r)
      BY <3>5 DEF HelloQueued, HelloCancelled
    <3>6. CASE PublishConnected(r)
      BY <3>6 DEF PublishConnected
    <3>7. CASE PumpFails(r) \/ PumpCancelled(r)
      BY <3>7 DEF PumpFails, PumpCancelled
    <3>8. CASE CloseConn(r)
      BY <3>8 DEF CloseConn
    <3>9. CASE UnregisterAttempt(r)
      BY <3>9 DEF UnregisterAttempt
    <3>10. CASE ClassifyError(r)
      BY <3>10 DEF ClassifyError
    <3>11. CASE RecordOutcome(r)
      BY <3>11 DEF RecordOutcome
    <3>12. CASE BackoffElapses(r) \/ BackoffCancelled(r)
      BY <3>12 DEF BackoffElapses, BackoffCancelled
    <3>13. CASE RunReturns(r)
      BY <3>13 DEF RunReturns
    <3> QED
      BY <2>3, <3>1, <3>2, <3>3, <3>4, <3>5, <3>6, <3>7, <3>8, <3>9, <3>10, <3>11, <3>12, <3>13 DEF RunnerStep
  <2>4. CASE UNCHANGED vars
    BY <2>4 DEF vars, local
  <2> QED
    BY <2>1, <2>2, <2>3, <2>4, NextCases
<1> QED
  BY <1>1, <1>2, TypeCorrect, OwnerInvariant, PTL DEF Spec

(* SetPaused(false) is never a lost wake-up of a parked runner.            *)
THEOREM WakeInvariant == Spec => []NoLostWake
<1>1. Init => NoLostWake
  BY DEF Init, NoLostWake
<1>2. TypeOK /\ NoLostWake /\ [Next]_vars => NoLostWake'
  <2> SUFFICES ASSUME TypeOK, NoLostWake, [Next]_vars
               PROVE  NoLostWake'
    OBVIOUS
  <2> USE DEF NoLostWake, TypeOK, shared, stats, Goto
  <2>1. ASSUME NEW p \in BOOLEAN, SetPaused(p) PROVE NoLostWake'
    BY <2>1 DEF SetPaused
  <2>2. ASSUME NEW r \in Runners, CancelCtx(r) PROVE NoLostWake'
    BY <2>2 DEF CancelCtx
  <2>3. ASSUME NEW r \in Runners, RunnerStep(r) PROVE NoLostWake'
    <3>1. CASE RunStart(r) \/ RunRefused(r) \/ LoopTop(r)
      BY <3>1 DEF RunStart, RunRefused, LoopTop
    <3>2. CASE SnapshotPause(r) \/ ParkedWakes(r) \/ ParkedCancelled(r)
      BY <3>2 DEF SnapshotPause, ParkedWakes, ParkedCancelled
    <3>3. CASE RegisterAttempt(r)
      BY <3>3 DEF RegisterAttempt
    <3>4. CASE DialSucceeds(r) \/ DialFails(r) \/ DialCancelled(r)
      BY <3>4 DEF DialSucceeds, DialFails, DialCancelled
    <3>5. CASE HelloQueued(r) \/ HelloCancelled(r)
      BY <3>5 DEF HelloQueued, HelloCancelled
    <3>6. CASE PublishConnected(r)
      BY <3>6 DEF PublishConnected
    <3>7. CASE PumpFails(r) \/ PumpCancelled(r)
      BY <3>7 DEF PumpFails, PumpCancelled
    <3>8. CASE CloseConn(r)
      BY <3>8 DEF CloseConn
    <3>9. CASE UnregisterAttempt(r)
      BY <3>9 DEF UnregisterAttempt
    <3>10. CASE ClassifyError(r)
      BY <3>10 DEF ClassifyError
    <3>11. CASE RecordOutcome(r)
      BY <3>11 DEF RecordOutcome
    <3>12. CASE BackoffElapses(r) \/ BackoffCancelled(r)
      BY <3>12 DEF BackoffElapses, BackoffCancelled
    <3>13. CASE RunReturns(r)
      BY <3>13 DEF RunReturns
    <3> QED
      BY <2>3, <3>1, <3>2, <3>3, <3>4, <3>5, <3>6, <3>7, <3>8, <3>9, <3>10, <3>11, <3>12, <3>13 DEF RunnerStep
  <2>4. CASE UNCHANGED vars
    BY <2>4 DEF vars, local
  <2> QED
    BY <2>1, <2>2, <2>3, <2>4, NextCases
<1> QED
  BY <1>1, <1>2, TypeCorrect, PTL DEF Spec

(* The running flag guards the whole loop: ErrAlreadyRunning is all a      *)
(* second, simultaneous call of Run ever gets.                             *)
THEOREM MutualExclusion == Spec => []AtMostOneLoop
<1>1. OwnerInv => AtMostOneLoop
  BY DEF OwnerInv
<1> QED BY <1>1, OwnerInvariant, PTL

(* While an attempt has a dial or a socket to drop, SetPaused(true) reaches *)
(* that attempt through c.cancelCurrent.                                    *)
THEOREM DisconnectReaches == Spec => []PauseReachesAttempt
<1>1. OwnerInv => PauseReachesAttempt
  BY DEF OwnerInv
<1> QED BY <1>1, OwnerInvariant, PTL

(* Run never ends by itself: not for a pause, a failed dial or a lost link. *)
THEOREM NeverStopsByItself == Spec => []ReturnsOnlyWhenCancelled
<1>1. RunInv => ReturnsOnlyWhenCancelled
  BY DEF RunInv
<1> QED BY <1>1, RunInvariant, PTL

(* Every path out of connectAndServe closes its socket, and no two sockets *)
(* are ever open at once.                                                  *)
THEOREM SocketsAreClosed == Spec => []NoLeakedConn
<1>1. OwnerInv /\ LinkInv => NoLeakedConn
  BY DEF OwnerInv, LinkInv, NoLeakedConn, SocketIsDialled, AtMostOneLoop,
         Looping, Attempting
<1> QED BY <1>1, OwnerInvariant, LinkInvariant, PTL

(* Stats().Connected does not survive the attempt that set it.             *)
THEOREM ConnectedIsHonest == Spec => []ConnectedIsCurrent
<1>1. LinkInv => ConnectedIsCurrent
  BY DEF LinkInv
<1> QED BY <1>1, LinkInvariant, PTL

----------------------------------------------------------------------------
(* The refinement.  Mutual exclusion makes the CHOOSE in holder harmless.  *)

(* The runner in the loop of Run is the one the refinement calls holder.    *)
LEMMA HolderIsLooper ==
  ASSUME AtMostOneLoop, NEW r \in Runners, pc[r] \in Looping
  PROVE  holder = r
BY DEF AtMostOneLoop, holder

(* The same after a step: whoever is in the loop then is the holder then.   *)
LEMMA HolderAfter ==
  ASSUME AtMostOneLoop', NEW r \in Runners, pc'[r] \in Looping
  PROVE  holder' = r
BY DEF AtMostOneLoop, holder, Looping, Attempting, Dialled

(* With no call of Run in its loop the lease has no holder.                 *)
LEMMA HolderNobody ==
  ASSUME \A r \in Runners : pc[r] \notin Looping
  PROVE  holder = NoRunner
BY DEF holder

(* The same after a step, as when Run returns.                              *)
LEMMA HolderNobodyAfter ==
  ASSUME \A r \in Runners : pc'[r] \notin Looping
  PROVE  holder' = NoRunner
BY DEF holder, Looping, Attempting, Dialled

(* A step that keeps every runner in, or out of, its loop keeps the holder. *)
LEMMA HolderKept ==
  ASSUME AtMostOneLoop, AtMostOneLoop',
         \A q \in Runners : pc[q] \in Looping <=> pc'[q] \in Looping
  PROVE  holder' = holder
<1>1. CASE \E q \in Runners : pc[q] \in Looping
  <2> PICK q \in Runners : pc[q] \in Looping
    BY <1>1
  <2> QED BY HolderIsLooper, HolderAfter
<1>2. CASE \A q \in Runners : pc[q] \notin Looping
  BY <1>2, HolderNobody, HolderNobodyAfter
<1> QED BY <1>1, <1>2

(* Every step of the client is a step of the lease, or changes nothing in  *)
(* it: the client implements LinkLease.                                    *)
THEOREM ClientImplementsLease == Spec => ImplementsLease
<1> DEFINE Inv == TypeOK /\ OwnerInv /\ LinkInv
<1>1. Init => Lease!LInit
  <2> SUFFICES ASSUME Init PROVE Lease!LInit
    OBVIOUS
  <2>1. \A r \in Runners : pc[r] \notin Looping
    BY DEF Init, Looping, Attempting, Dialled
  <2> QED BY <2>1, HolderNobody DEF Init, Lease!LInit
<1>2. Inv /\ Inv' /\ [Next]_vars => [Lease!LNext]_(Lease!leaseVars)
  <2> SUFFICES ASSUME Inv, Inv', [Next]_vars
               PROVE  Lease!LNext \/ UNCHANGED Lease!leaseVars
    OBVIOUS
  <2>0. AtMostOneLoop /\ AtMostOneLoop' /\ RunningCoversLoop /\ ConnectedIsCurrent
    BY DEF OwnerInv, LinkInv
  <2> USE DEF Lease!leaseVars, TypeOK, shared, stats, Goto,
              Looping, Attempting, Dialled
  <2>1. ASSUME NEW p \in BOOLEAN, SetPaused(p) PROVE UNCHANGED Lease!leaseVars
    BY <2>0, <2>1, HolderKept DEF SetPaused
  <2>2. ASSUME NEW r \in Runners, CancelCtx(r) PROVE UNCHANGED Lease!leaseVars
    BY <2>0, <2>2, HolderKept DEF CancelCtx
  <2>3. ASSUME NEW r \in Runners, RunnerStep(r)
        PROVE  Lease!LNext \/ UNCHANGED Lease!leaseVars
    <3>1. CASE RunStart(r)
      <4>1. \A q \in Runners : pc[q] \notin Looping
        BY <3>1, <2>0 DEF RunStart, RunningCoversLoop
      <4>2. pc'[r] \in Looping
        BY <3>1 DEF RunStart
      <4>3. holder = NoRunner /\ holder' = r
        BY <4>1, <4>2, <2>0, HolderNobody, HolderAfter
      <4> QED BY <3>1, <4>3 DEF RunStart, Lease!LNext, Lease!Claim
    <3>2. CASE PublishConnected(r)
      <4>1. pc[r] \in Looping /\ pc'[r] \in Looping
        BY <3>2 DEF PublishConnected
      <4>2. holder = r /\ holder' = r
        BY <4>1, <2>0, HolderIsLooper, HolderAfter
      <4>3. ~connected
        BY <3>2, <2>0 DEF PublishConnected, ConnectedIsCurrent, AtMostOneLoop
      <4> QED BY <3>2, <4>2, <4>3 DEF PublishConnected, Lease!LNext, Lease!LinkUp
    <3>3. CASE RecordOutcome(r)
      <4>1. pc[r] \in Looping /\ pc'[r] \in Looping
        BY <3>3 DEF RecordOutcome
      <4>2. holder = r /\ holder' = r
        BY <4>1, <2>0, HolderIsLooper, HolderAfter
      <4> QED BY <3>3, <4>2 DEF RecordOutcome, Lease!LNext, Lease!LinkDown
    <3>4. CASE RunReturns(r)
      <4>1. \A q \in Runners : pc'[q] \notin Looping
        BY <3>4, <2>0 DEF RunReturns, AtMostOneLoop
      <4>2. holder = r /\ holder' = NoRunner
        BY <3>4, <4>1, <2>0, HolderIsLooper, HolderNobodyAfter DEF RunReturns
      <4>3. ~connected
        BY <3>4, <2>0 DEF RunReturns, ConnectedIsCurrent, AtMostOneLoop
      <4> QED BY <3>4, <4>2, <4>3 DEF RunReturns, Lease!LNext, Lease!Release
    <3>5. CASE RunRefused(r) \/ LoopTop(r) \/ SnapshotPause(r)
               \/ ParkedWakes(r) \/ ParkedCancelled(r)
      BY <3>5, <2>0, HolderKept
         DEF RunRefused, LoopTop, SnapshotPause, ParkedWakes, ParkedCancelled
    <3>6. CASE RegisterAttempt(r) \/ DialSucceeds(r) \/ DialFails(r) \/ DialCancelled(r)
      BY <3>6, <2>0, HolderKept
         DEF RegisterAttempt, DialSucceeds, DialFails, DialCancelled
    <3>7. CASE HelloQueued(r) \/ HelloCancelled(r) \/ PumpFails(r) \/ PumpCancelled(r)
      BY <3>7, <2>0, HolderKept
         DEF HelloQueued, HelloCancelled, PumpFails, PumpCancelled
    <3>8. CASE CloseConn(r) \/ UnregisterAttempt(r) \/ ClassifyError(r)
               \/ BackoffElapses(r) \/ BackoffCancelled(r)
      BY <3>8, <2>0, HolderKept
         DEF CloseConn, UnregisterAttempt, ClassifyError, BackoffElapses, BackoffCancelled
    <3> QED
      BY <2>3, <3>1, <3>2, <3>3, <3>4, <3>5, <3>6, <3>7, <3>8 DEF RunnerStep
  <2>4. CASE UNCHANGED vars
    BY <2>0, <2>4, HolderKept DEF vars, local
  <2> QED
    BY <2>1, <2>2, <2>3, <2>4, NextCases
<1>3. Spec => []Inv
  BY TypeCorrect, OwnerInvariant, LinkInvariant, PTL
<1> QED
  BY <1>1, <1>2, <1>3, PTL DEF Spec, ImplementsLease, Lease!LSpec
=============================================================================
