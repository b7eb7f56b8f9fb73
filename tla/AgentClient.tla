---------------------------- MODULE AgentClient ----------------------------
(***************************************************************************)
(* transport.Client: the reconnect loop Run, one connection attempt        *)
(* connectAndServe, and the tray's SetPaused toggle, which races with both.*)
(*                                                                         *)
(* A runner is one call of Run with a context of its own.  A section of    *)
(* code under c.mu is one action; everything between two such sections is  *)
(* at least one action of its own, so SetPaused can land in every gap.     *)
(* What happens inside a live connection (queue, pumps, dispatch) is       *)
(* module AgentConn; here it is the one step that ends "serving".          *)
(***************************************************************************)
EXTENDS Naturals

CONSTANTS Runners,      \* calls of Client.Run, each made once
          NoRunner,     \* value of cancelCurrent when it is nil
          MaxConnects,  \* bound: the server accepts this many dials in all
          MinDelay,     \* Backoff.Min, in seconds
          MaxDelay      \* Backoff.Max, in seconds

ASSUME NoRunnerOutside == NoRunner \notin Runners
ASSUME BoundAssumption == MaxConnects \in Nat
ASSUME DelayAssumption == /\ MinDelay \in Nat \ {0}
                          /\ MaxDelay \in Nat
                          /\ MinDelay <= MaxDelay

VARIABLES
  running,        \* c.running
  paused,         \* c.paused
  cancelCurrent,  \* c.cancelCurrent: whose attempt it cancels, or NoRunner
  connected,      \* c.stats.Connected
  connectCount,   \* c.stats.ConnectCount
  lastError,      \* c.stats.LastError: "" or the error's class
  pc,             \* where each runner is
  ctxDone,        \* the context given to Run is cancelled
  woken,          \* the pauseWake channel the runner holds is closed
  attempt,        \* attemptCtx: "live", or who cancelled it first
  conn,           \* the attempt's socket
  retErr,         \* what connectAndServe is about to return
  cur             \* Backoff.cur of the runner

shared == <<running, paused, cancelCurrent>>
stats  == <<connected, connectCount, lastError>>
local  == <<pc, ctxDone, woken, attempt, conn, retErr, cur>>
vars   == <<shared, stats, local>>

----------------------------------------------------------------------------
(* The control points of a runner.                                         *)

\* connectAndServe's body, from the moment cancelCurrent is set
Dialled   == {"hello", "publish", "serving", "closing"}
Attempting == Dialled \union {"dialing", "unregister"}
\* inside Run, holding c.running
Looping   == Attempting \union {"top", "snapshot", "parked", "register",
                                "classify", "record", "backoff", "release"}
Points    == Looping \union {"idle", "refused", "returned"}

Causes == {"live", "pause", "exit"}
Errors == {"none", "failure", "canceled", "paused"}

\* attemptCtx.Err() # nil: cancelled itself, or through its parent
AttemptDone(r) == attempt[r] # "live" \/ ctxDone[r]

Delays == {0} \union (MinDelay..MaxDelay)

\* slip: the cap is forgotten on the first delay
NextDelayUncapped(d) == IF d = 0 THEN MinDelay + MaxDelay ELSE 2 * d

\* Backoff.Next: its result is also the new cur
NextDelay(d) == IF d = 0 THEN MinDelay
                ELSE IF 2 * d > MaxDelay THEN MaxDelay ELSE 2 * d

Goto(r, point) == pc' = [pc EXCEPT ![r] = point]

----------------------------------------------------------------------------
Init == /\ running = FALSE
        /\ paused = FALSE
        /\ cancelCurrent = NoRunner
        /\ connected = FALSE
        /\ connectCount = 0
        /\ lastError = "none"
        /\ pc      = [r \in Runners |-> "idle"]
        /\ ctxDone = [r \in Runners |-> FALSE]
        /\ woken   = [r \in Runners |-> FALSE]
        /\ attempt = [r \in Runners |-> "live"]
        /\ conn    = [r \in Runners |-> "none"]
        /\ retErr  = [r \in Runners |-> "none"]
        /\ cur     = [r \in Runners |-> 0]

----------------------------------------------------------------------------
(* The callers: the tray toggle and the owner of the context.              *)

\* slip: the wake channel is closed only when pausing
SetPausedSilent(p) ==
  /\ paused' = p
  /\ attempt' = IF p /\ cancelCurrent # NoRunner
                   /\ attempt[cancelCurrent] = "live"
                THEN [attempt EXCEPT ![cancelCurrent] = "pause"]
                ELSE attempt
  /\ woken' = [r \in Runners |-> woken[r] \/ p]
  /\ UNCHANGED <<running, cancelCurrent, stats, pc, ctxDone, conn, retErr, cur>>

\* the whole body runs under c.mu
SetPaused(p) ==
  /\ paused' = p
  /\ attempt' = IF p /\ cancelCurrent # NoRunner
                   /\ attempt[cancelCurrent] = "live"
                THEN [attempt EXCEPT ![cancelCurrent] = "pause"]
                ELSE attempt
  /\ woken' = [r \in Runners |-> TRUE]
  /\ UNCHANGED <<running, cancelCurrent, stats, pc, ctxDone, conn, retErr, cur>>

CancelCtx(r) ==
  /\ ~ctxDone[r]
  /\ ctxDone' = [ctxDone EXCEPT ![r] = TRUE]
  /\ UNCHANGED <<shared, stats, pc, woken, attempt, conn, retErr, cur>>

----------------------------------------------------------------------------
(* Run, up to the call of connectAndServe.                                 *)

\* slip: the running flag is set but not tested
RunStartUnguarded(r) ==
  /\ pc[r] = "idle"
  /\ running' = TRUE
  /\ cur' = [cur EXCEPT ![r] = 0]
  /\ Goto(r, "top")
  /\ UNCHANGED <<paused, cancelCurrent, stats, ctxDone, woken, attempt, conn, retErr>>

RunStart(r) ==
  /\ pc[r] = "idle"
  /\ ~running
  /\ running' = TRUE
  /\ cur' = [cur EXCEPT ![r] = 0]
  /\ Goto(r, "top")
  /\ UNCHANGED <<paused, cancelCurrent, stats, ctxDone, woken, attempt, conn, retErr>>

RunRefused(r) ==  \* ErrAlreadyRunning
  /\ pc[r] = "idle"
  /\ running
  /\ Goto(r, "refused")
  /\ UNCHANGED <<shared, stats, ctxDone, woken, attempt, conn, retErr, cur>>

LoopTop(r) ==
  /\ pc[r] = "top"
  /\ Goto(r, IF ctxDone[r] THEN "release" ELSE "snapshot")
  /\ UNCHANGED <<shared, stats, ctxDone, woken, attempt, conn, retErr, cur>>

\* paused and pauseWake are read together under c.mu; the decision that
\* follows uses the copies, not the fields
SnapshotPause(r) ==
  /\ pc[r] = "snapshot"
  /\ woken' = [woken EXCEPT ![r] = FALSE]
  /\ Goto(r, IF paused THEN "parked" ELSE "register")
  /\ UNCHANGED <<shared, stats, ctxDone, attempt, conn, retErr, cur>>

ParkedWakes(r) ==
  /\ pc[r] = "parked"
  /\ woken[r]
  /\ Goto(r, "top")
  /\ UNCHANGED <<shared, stats, ctxDone, woken, attempt, conn, retErr, cur>>

\* slip: a parked runner waits for the wake channel alone
ParkedIgnoresCtx(r) ==
  /\ pc[r] = "parked"
  /\ ctxDone[r]
  /\ woken[r]
  /\ Goto(r, "release")
  /\ UNCHANGED <<shared, stats, ctxDone, woken, attempt, conn, retErr, cur>>

ParkedCancelled(r) ==
  /\ pc[r] = "parked"
  /\ ctxDone[r]
  /\ Goto(r, "release")
  /\ UNCHANGED <<shared, stats, ctxDone, woken, attempt, conn, retErr, cur>>

----------------------------------------------------------------------------
(* connectAndServe.                                                        *)

RegisterAttempt(r) ==
  /\ pc[r] = "register"
  /\ cancelCurrent' = r
  /\ attempt' = [attempt EXCEPT ![r] = "live"]
  /\ retErr' = [retErr EXCEPT ![r] = "none"]
  /\ Goto(r, "dialing")
  /\ UNCHANGED <<running, paused, stats, ctxDone, woken, conn, cur>>

\* A dial that completes before the cancellation is seen as completing before
\* it; DialContext fails once attemptCtx is done.
DialSucceeds(r) ==
  /\ pc[r] = "dialing"
  /\ ~AttemptDone(r)
  /\ connectCount < MaxConnects
  /\ conn' = [conn EXCEPT ![r] = "open"]
  /\ Goto(r, "hello")
  /\ UNCHANGED <<shared, stats, ctxDone, woken, attempt, retErr, cur>>

\* unreadable certificate files, a bad URL, or the dial itself (10s at most)
DialFails(r) ==
  /\ pc[r] = "dialing"
  /\ retErr' = [retErr EXCEPT ![r] = "failure"]
  /\ Goto(r, "unregister")
  /\ UNCHANGED <<shared, stats, ctxDone, woken, attempt, conn, cur>>

DialCancelled(r) ==
  /\ pc[r] = "dialing"
  /\ AttemptDone(r)
  /\ retErr' = [retErr EXCEPT ![r] = "canceled"]
  /\ Goto(r, "unregister")
  /\ UNCHANGED <<shared, stats, ctxDone, woken, attempt, conn, cur>>

\* Send's select: the new queue always has room, so a cancelled attempt may
\* still enqueue its hello
HelloQueued(r) ==
  /\ pc[r] = "hello"
  /\ Goto(r, "publish")
  /\ UNCHANGED <<shared, stats, ctxDone, woken, attempt, conn, retErr, cur>>

\* slip: the socket is closed only once the hello went out
HelloCancelledLeaks(r) ==
  /\ pc[r] = "hello"
  /\ AttemptDone(r)
  /\ retErr' = [retErr EXCEPT ![r] = "canceled"]
  /\ Goto(r, "unregister")
  /\ UNCHANGED <<shared, stats, ctxDone, woken, attempt, conn, cur>>

HelloCancelled(r) ==
  /\ pc[r] = "hello"
  /\ AttemptDone(r)
  /\ retErr' = [retErr EXCEPT ![r] = "canceled"]
  /\ Goto(r, "closing")
  /\ UNCHANGED <<shared, stats, ctxDone, woken, attempt, conn, cur>>

PublishConnected(r) ==
  /\ pc[r] = "publish"
  /\ connected' = TRUE
  /\ connectCount' = connectCount + 1
  /\ Goto(r, "serving")
  /\ UNCHANGED <<shared, lastError, ctxDone, woken, attempt, conn, retErr, cur>>

\* a read, write or ping error reaches the select of connectAndServe
PumpFails(r) ==
  /\ pc[r] = "serving"
  /\ retErr' = [retErr EXCEPT ![r] = "failure"]
  /\ Goto(r, "closing")
  /\ UNCHANGED <<shared, stats, ctxDone, woken, attempt, conn, cur>>

\* slip: a pump returns nil when its context is done
PumpReturnsNil(r) ==
  /\ pc[r] = "serving"
  /\ AttemptDone(r)
  /\ Goto(r, "closing")
  /\ UNCHANGED <<shared, stats, ctxDone, woken, attempt, conn, retErr, cur>>

\* slip: the pumps watch Run's context instead of the attempt's
PumpIgnoresPause(r) ==
  /\ pc[r] = "serving"
  /\ ctxDone[r]
  /\ retErr' = [retErr EXCEPT ![r] = "canceled"]
  /\ Goto(r, "closing")
  /\ UNCHANGED <<shared, stats, ctxDone, woken, attempt, conn, cur>>

\* writeLoop, pingLoop and telemetryLoop return ctx.Err() once attemptCtx is
\* done, and the select itself watches the outer context
PumpCancelled(r) ==
  /\ pc[r] = "serving"
  /\ AttemptDone(r)
  /\ retErr' = [retErr EXCEPT ![r] = "canceled"]
  /\ Goto(r, "closing")
  /\ UNCHANGED <<shared, stats, ctxDone, woken, attempt, conn, cur>>

CloseConn(r) ==
  /\ pc[r] = "closing"
  /\ conn' = [conn EXCEPT ![r] = "none"]
  /\ Goto(r, "unregister")
  /\ UNCHANGED <<shared, stats, ctxDone, woken, attempt, retErr, cur>>

UnregisterAttempt(r) ==
  /\ pc[r] = "unregister"
  /\ cancelCurrent' = NoRunner
  /\ Goto(r, "classify")
  /\ UNCHANGED <<running, paused, stats, ctxDone, woken, attempt, conn, retErr, cur>>

\* The deferred function cancels attemptCtx itself before it asks whether
\* attemptCtx is cancelled.
ClassifyError(r) ==
  /\ pc[r] = "classify"
  /\ attempt' = [attempt EXCEPT ![r] = IF @ = "live" THEN "exit" ELSE @]
  /\ retErr' = [retErr EXCEPT
       ![r] = IF @ # "none" /\ ~ctxDone[r] /\ attempt'[r] # "live"
              THEN "paused" ELSE @]
  /\ Goto(r, "record")
  /\ UNCHANGED <<shared, stats, ctxDone, woken, conn, cur>>

----------------------------------------------------------------------------
(* Run, after connectAndServe returned.                                    *)

\* slip: a deliberate pause leaves the reported state alone
RecordKeepsConnected(r) ==
  /\ pc[r] = "record"
  /\ connected' = (connected /\ retErr[r] = "paused")
  /\ lastError' = IF retErr[r] # "none" THEN retErr[r] ELSE lastError
  /\ Goto(r, CASE retErr[r] \in {"none", "canceled"} -> "release"
               [] retErr[r] = "paused"               -> "top"
               [] OTHER                              -> "backoff")
  /\ cur' = IF retErr[r] = "failure"
            THEN [cur EXCEPT ![r] = NextDelay(@)] ELSE cur
  /\ UNCHANGED <<shared, connectCount, ctxDone, woken, attempt, conn, retErr>>

RecordOutcome(r) ==
  /\ pc[r] = "record"
  /\ connected' = FALSE
  /\ lastError' = IF retErr[r] # "none" THEN retErr[r] ELSE lastError
  /\ Goto(r, CASE retErr[r] \in {"none", "canceled"} -> "release"
               [] retErr[r] = "paused"               -> "top"
               [] OTHER                              -> "backoff")
  /\ cur' = IF retErr[r] = "failure"
            THEN [cur EXCEPT ![r] = NextDelay(@)] ELSE cur
  /\ UNCHANGED <<shared, connectCount, ctxDone, woken, attempt, conn, retErr>>

BackoffElapses(r) ==
  /\ pc[r] = "backoff"
  /\ Goto(r, "top")
  /\ UNCHANGED <<shared, stats, ctxDone, woken, attempt, conn, retErr, cur>>

BackoffCancelled(r) ==
  /\ pc[r] = "backoff"
  /\ ctxDone[r]
  /\ Goto(r, "release")
  /\ UNCHANGED <<shared, stats, ctxDone, woken, attempt, conn, retErr, cur>>

RunReturns(r) ==
  /\ pc[r] = "release"
  /\ running' = FALSE
  /\ Goto(r, "returned")
  /\ UNCHANGED <<paused, cancelCurrent, stats, ctxDone, woken, attempt, conn, retErr, cur>>

----------------------------------------------------------------------------
DialReturns(r) == DialSucceeds(r) \/ DialFails(r) \/ DialCancelled(r)
HelloStep(r)   == HelloQueued(r) \/ HelloCancelled(r)

Loop(r) ==
  \/ RunStart(r) \/ RunRefused(r) \/ LoopTop(r) \/ SnapshotPause(r)
  \/ ParkedWakes(r) \/ ParkedCancelled(r)
  \/ RecordOutcome(r) \/ BackoffElapses(r) \/ BackoffCancelled(r)
  \/ RunReturns(r)

Serve(r) ==
  \/ RegisterAttempt(r) \/ DialReturns(r) \/ HelloStep(r)
  \/ PublishConnected(r) \/ PumpFails(r) \/ PumpCancelled(r)
  \/ CloseConn(r) \/ UnregisterAttempt(r) \/ ClassifyError(r)

Next == \/ \E p \in BOOLEAN : SetPaused(p)
        \/ \E r \in Runners : CancelCtx(r) \/ Loop(r) \/ Serve(r)

Spec == Init /\ [][Next]_vars

\* Goroutines that can run do run; a dial ends within its timeout; a pump
\* notices its cancelled context.  Nothing makes a healthy link fail, the user
\* toggle the tray, the owner cancel the context, or Run be called.
RunnerFairness(r) ==
  /\ WF_vars(Loop(r) /\ pc[r] # "idle")
  /\ WF_vars(Serve(r) /\ pc[r] # "serving")
  /\ WF_vars(PumpCancelled(r))

FairSpec == Spec /\ \A r \in Runners : RunnerFairness(r)

----------------------------------------------------------------------------
TypeOK ==
  /\ running \in BOOLEAN
  /\ paused \in BOOLEAN
  /\ cancelCurrent \in Runners \union {NoRunner}
  /\ connected \in BOOLEAN
  /\ connectCount \in Nat
  /\ lastError \in Errors
  /\ pc \in [Runners -> Points]
  /\ ctxDone \in [Runners -> BOOLEAN]
  /\ woken \in [Runners -> BOOLEAN]
  /\ attempt \in [Runners -> Causes]
  /\ conn \in [Runners -> {"none", "open"}]
  /\ retErr \in [Runners -> Errors]
  /\ cur \in [Runners -> Delays]

(* Two calls of Run never drive the client at once, whatever their         *)
(* contexts: the running flag guards the whole loop (ErrAlreadyRunning).   *)
AtMostOneLoop ==
  \A q, r \in Runners : pc[q] \in Looping /\ pc[r] \in Looping => q = r

(* As long as an attempt has a dial or a socket to drop, c.cancelCurrent   *)
(* reaches that very attempt, so a disconnect of the tray cannot miss it.  *)
PauseReachesAttempt ==
  \A r \in Runners : pc[r] \in Attempting => cancelCurrent = r

(* Nobody holds an open socket outside the attempt that dialled it: every  *)
(* error path of connectAndServe closes, and at most one socket is open.   *)
NoLeakedConn ==
  /\ \A r \in Runners : conn[r] = "open" => pc[r] \in Dialled
  /\ \A q, r \in Runners : conn[q] = "open" /\ conn[r] = "open" => q = r

(* A runner parked on pauseWake while the client is not paused has a       *)
(* closed channel in its hand: SetPaused(false) is never a lost wake-up.   *)
NoLostWake ==
  \A r \in Runners : pc[r] = "parked" /\ ~paused => woken[r]

(* Run ends only because its own context ended.  A pause, a failed dial or *)
(* a dropped link never ends the reconnect loop for good.                  *)
ReturnsOnlyWhenCancelled ==
  \A r \in Runners : pc[r] \in {"release", "returned"} => ctxDone[r]

(* Stats().Connected is true only while the attempt that published it is   *)
(* still being served or torn down, so it cannot survive the loop.         *)
ConnectedIsCurrent ==
  connected => \E r \in Runners :
    pc[r] \in {"serving", "closing", "unregister", "classify", "record"}

\* the lease this client implements
holder == IF \E r \in Runners : pc[r] \in Looping
          THEN CHOOSE r \in Runners : pc[r] \in Looping ELSE NoRunner

Lease == INSTANCE LinkLease WITH up <- connected, ups <- connectCount

(* The client keeps the promise of LinkLease: one holder, every rise of    *)
(* the reported link counted once, handed back only when reported down.    *)
ImplementsLease == Lease!LSpec

(* An attempt that a disconnect cancelled closes its socket and leaves.    *)
PauseDropsAttempt ==
  \A r \in Runners : attempt[r] = "pause" /\ pc[r] \in Attempting
                     ~> pc[r] \notin Attempting

(* A client that is unpaused and stays unpaused leaves the parked state,   *)
(* and does not merely go back to it.                                      *)
UnpauseResumes ==
  \A r \in Runners : <>[]~paused => <>[](pc[r] # "parked")

(* Cancelling the context of a Run that is in its loop makes it return.    *)
CancelStopsRun ==
  \A r \in Runners : ctxDone[r] /\ pc[r] \in Looping ~> pc[r] = "returned"

----------------------------------------------------------------------------
(* What the documentation says and the code does not do.                   *)

(* client.go:15 "On disconnect the loop sleeps with exponential backoff":  *)
(* an attempt nobody cancelled that ends under a live context is followed  *)
(* by a backoff, not by the next dial.                                     *)
FailureBacksOff ==
  [][\A r \in Runners :
       pc[r] = "record" /\ attempt[r] = "exit" /\ ~ctxDone[r]
         => pc'[r] # "top"]_vars

(* client.go:224 SetPaused(true) "drops any live or in-flight connection   *)
(* attempt immediately and stops the reconnect loop from dialing again     *)
(* until set back to false": while it stays paused, the link goes down.    *)
PauseDropsLink ==
  paused ~> (~connected \/ ~paused)
=============================================================================
