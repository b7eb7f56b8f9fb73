---------------------------- MODULE TaskDialogs ----------------------------
(***************************************************************************)
(* installerui.Wizard and the connection request prompt built on it.  A     *)
(* dialog involves up to three goroutines: the caller, which registers a    *)
(* callback token and waits; the thread inside TaskDialogIndirect, whose    *)
(* creation callback finds the dialog by that token; and, for               *)
(* RunWithProgress, the driver, which waits to be handed the window, does   *)
(* the work and clicks the dialog's button.  Several dialogs may be up.     *)
(*                                                                         *)
(* A window is named after the dialog it belongs to.                        *)
(***************************************************************************)
EXTENDS Naturals

CONSTANTS Questions,  \* ShowWelcome and ShowResult, the prompt among them
          Works,      \* RunWithProgress
          NoDialog

ASSUME DialogsAssumption ==
  Questions \intersect Works = {} /\ NoDialog \notin Questions \union Works

Dialogs == Questions \union Works

VARIABLES
  caller,    \* where each call is
  issued,    \* nextCallbackToken
  token,     \* the one each dialog has
  callbacks, \* callbackHandles: the dialogs whose token is registered
  thread,    \* where each call of TaskDialogIndirect is
  handle,    \* the window each dialogHandle was given
  driver,    \* where each driver is
  locked,    \* dialogs whose placeholder button is disabled
  runDone,   \* closed when the work of a dialog is over
  button,    \* what ended each dialog
  trayGone   \* Tray.Run has returned, its thread back in the pool

dialogVars == <<caller, issued, token, callbacks, thread, handle, driver,
                locked, runDone, button, trayGone>>

CallerPoints == {"idle", "register", "store", "wait", "drain", "returned"}
ThreadPoints == {"none", "calling", "up", "ended"}
DriverPoints == {"none", "await", "lock", "work", "done", "click", "ended"}
Buttons      == {"none", "yes", "no", "ok", "error", "quit"}

Call(d, from, to)  == caller[d] = from /\ caller' = [caller EXCEPT ![d] = to]
Drive(d, from, to) == driver[d] = from /\ driver' = [driver EXCEPT ![d] = to]

\* the dialog d is up and goes away because of b
Ends(d, b) ==
  /\ thread' = [thread EXCEPT ![d] = "ended"]
  /\ button' = [button EXCEPT ![d] = b]

DInit ==
  /\ caller = [d \in Dialogs |-> "idle"]
  /\ issued = 0 /\ token = [d \in Dialogs |-> 0] /\ callbacks = {}
  /\ thread = [d \in Dialogs |-> "none"]
  /\ handle = [d \in Dialogs |-> NoDialog]
  /\ driver = [d \in Dialogs |-> "none"]
  /\ locked = {} /\ runDone = {}
  /\ button = [d \in Dialogs |-> "none"]
  /\ trayGone = FALSE

----------------------------------------------------------------------------
(* runTaskDialog, and its callers' waits.                                  *)

\* an installer's screen, or a connection request in a goroutine of its own
Ask(d) ==
  /\ Call(d, "idle", "register")
  /\ UNCHANGED <<issued, token, callbacks, thread, handle, driver, locked, runDone, button, trayGone>>

TakeToken(d) ==
  /\ Call(d, "register", "store")
  /\ issued' = issued + 1
  /\ token' = [token EXCEPT ![d] = issued + 1]
  /\ UNCHANGED <<callbacks, thread, handle, driver, locked, runDone, button, trayGone>>

\* the token is known before the driver and the dialog's thread start
RegisterAndStart(d) ==
  /\ Call(d, "store", "wait")
  /\ callbacks' = callbacks \union {d}
  /\ thread' = [thread EXCEPT ![d] = "calling"]
  /\ driver' = [driver EXCEPT ![d] = IF d \in Works THEN "await" ELSE "none"]
  /\ UNCHANGED <<issued, token, handle, locked, runDone, button, trayGone>>

\* a prompt answered "yes" opens its link after this
DialogReturns(d) ==
  /\ thread[d] = "ended"
  /\ Call(d, "wait", IF d \in Works THEN "drain" ELSE "returned")
  /\ callbacks' = callbacks \ {d}
  /\ UNCHANGED <<issued, token, thread, handle, driver, locked, runDone, button, trayGone>>

\* `<-runDone`: for ever if the dialog never came up
ProgressReturns(d) ==
  /\ d \in runDone
  /\ Call(d, "drain", "returned")
  /\ UNCHANGED <<issued, token, callbacks, thread, handle, driver, locked, runDone, button, trayGone>>

----------------------------------------------------------------------------
(* The thread inside TaskDialogIndirect, and the mentor.                   *)

\* slip: one dialog at a time, so the callback's reference data is not looked at
CreatedLatest(d) ==
  /\ thread[d] = "calling"
  /\ thread' = [thread EXCEPT ![d] = "up"]
  /\ handle' = [e \in Dialogs |->
       IF e \in callbacks /\ token[e] = issued THEN d ELSE handle[e]]
  /\ UNCHANGED <<caller, issued, token, callbacks, driver, locked, runDone, button, trayGone>>

\* TDN_CREATED, in the callback all dialogs share
Created(d) ==
  /\ thread[d] = "calling"
  /\ thread' = [thread EXCEPT ![d] = "up"]
  /\ handle' = [e \in Dialogs |->
       IF e \in callbacks /\ token[e] = token[d] THEN d ELSE handle[e]]
  /\ UNCHANGED <<caller, issued, token, callbacks, driver, locked, runDone, button, trayGone>>

\* an HRESULT other than S_OK: nobody hands the driver a window
NotCreated(d) ==
  /\ thread[d] = "calling" /\ Ends(d, "error")
  /\ UNCHANGED <<caller, issued, token, callbacks, handle, driver, locked, runDone, trayGone>>

\* Continue, or Cancel, Esc and the close button
Answered(d) ==
  /\ d \in Questions /\ thread[d] = "up"
  /\ \E b \in {"yes", "no"} : Ends(d, b)
  /\ UNCHANGED <<caller, issued, token, callbacks, handle, driver, locked, runDone, trayGone>>

\* the progress screen's placeholder button works until it is disabled
PlaceholderClicked(d) ==
  /\ d \in Works \ locked /\ thread[d] = "up"
  /\ Ends(d, "ok")
  /\ UNCHANGED <<caller, issued, token, callbacks, handle, driver, locked, runDone, trayGone>>

\* Run's last DestroyWindow posts a second WM_QUIT, which stays in the queue of
\* a thread that Go gives to other goroutines
TrayEnds ==
  /\ ~trayGone /\ trayGone' = TRUE
  /\ UNCHANGED <<caller, issued, token, callbacks, thread, handle, driver, locked, runDone, button>>

\* the dialog happens to run on that thread
StrayQuit(d) ==
  /\ trayGone /\ thread[d] = "up" /\ Ends(d, "quit")
  /\ UNCHANGED <<caller, issued, token, callbacks, handle, driver, locked, runDone, trayGone>>

----------------------------------------------------------------------------
(* RunWithProgress's driver and the goroutine with the work.               *)

WindowGiven(d) ==
  /\ handle[d] # NoDialog
  /\ Drive(d, "await", "lock")
  /\ UNCHANGED <<caller, issued, token, callbacks, thread, handle, locked, runDone, button, trayGone>>

LockButton(d) ==
  /\ Drive(d, "lock", "work")
  /\ locked' = locked \union {handle[d]}
  /\ UNCHANGED <<caller, issued, token, callbacks, thread, handle, runDone, button, trayGone>>

\* its reports go to the window, if that still exists
WorkEnds(d) ==
  /\ Drive(d, "work", "done")
  /\ UNCHANGED <<caller, issued, token, callbacks, thread, handle, locked, runDone, button, trayGone>>

CloseRunDone(d) ==
  /\ Drive(d, "done", "click")
  /\ runDone' = runDone \union {d}
  /\ UNCHANGED <<caller, issued, token, callbacks, thread, handle, locked, button, trayGone>>

ClickButton(d) ==
  /\ Drive(d, "click", "ended")
  /\ IF thread[handle[d]] = "up" THEN Ends(handle[d], "ok") ELSE UNCHANGED <<thread, button>>
  /\ UNCHANGED <<caller, issued, token, callbacks, handle, locked, runDone, trayGone>>

----------------------------------------------------------------------------
CallStep(d)   == TakeToken(d) \/ RegisterAndStart(d) \/ DialogReturns(d) \/ ProgressReturns(d)
ThreadStep(d) == Created(d) \/ NotCreated(d)
DriverStep(d) == WindowGiven(d) \/ LockButton(d) \/ WorkEnds(d) \/ CloseRunDone(d) \/ ClickButton(d)

DNext ==
  \/ TrayEnds
  \/ \E d \in Dialogs :
       \/ Ask(d) \/ CallStep(d) \/ ThreadStep(d) \/ DriverStep(d)
       \/ Answered(d) \/ PlaceholderClicked(d) \/ StrayQuit(d)

DSpec == DInit /\ [][DNext]_dialogVars

\* goroutines run and the work ends; the mentor may never answer
DFairSpec ==
  /\ DSpec
  /\ \A d \in Dialogs :
       WF_dialogVars(CallStep(d)) /\ WF_dialogVars(ThreadStep(d)) /\ WF_dialogVars(DriverStep(d))

----------------------------------------------------------------------------
(* Properties.                                                             *)

DialogTypeOK ==
  /\ caller \in [Dialogs -> CallerPoints]
  /\ issued \in Nat /\ token \in [Dialogs -> 0 .. issued]
  /\ callbacks \subseteq Dialogs
  /\ thread \in [Dialogs -> ThreadPoints]
  /\ handle \in [Dialogs -> Dialogs \union {NoDialog}]
  /\ driver \in [Dialogs -> DriverPoints]
  /\ locked \subseteq Dialogs /\ runDone \subseteq Works
  /\ button \in [Dialogs -> Buttons]
  /\ trayGone \in BOOLEAN

\* However many dialogs are up, a driver disables, fills and clicks the window
\* of its own dialog only, and RunWithProgress returns the result of a work that
\* has ended, also when the mentor is quick enough to click the placeholder.
ProgressIsItsOwn ==
  \A d \in Dialogs :
    /\ handle[d] \in {NoDialog, d}
    /\ d \in locked => d \in Works
    /\ d \in Works /\ caller[d] = "returned" => driver[d] \in {"click", "ended"}

Settled(d) == caller[d] = "returned" \/ (d \in Works /\ button[d] = "error")

\* A progress screen that came up goes away by itself and its caller returns; a
\* question that was answered, or could not be put, returns too.  (Each is put
\* once, so that all are settled again and again when none stays unsettled.)
DialogsReturn ==
  []<>(/\ \A d \in Works : thread[d] \in {"up", "ended"} => Settled(d)
       /\ \A d \in Questions : thread[d] = "ended" => Settled(d))
=============================================================================
