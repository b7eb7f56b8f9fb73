--------------------------- MODULE HiddenBrowser ---------------------------
(***************************************************************************)
(* hiddenbrowser.Launcher: the ReadyApp window that is kept out of screen   *)
(* captures.  Every click on the tray's menu item is a goroutine calling    *)
(* Open; every window has a goroutine of its own, locked to its thread,     *)
(* that creates it, pumps its messages until the mentor closes it, and then *)
(* makes the launcher forget it.  Open keeps l.mu for as long as the        *)
(* creation takes; the window's goroutine needs l.mu only at the end.       *)
(***************************************************************************)

CONSTANTS Openers,   \* goroutines of clicks: bound on the calls of Open at once
          Windows,   \* bound on the windows at once, those torn down included
          Nobody,    \* l.mu is free
          NoWindow   \* l.wv is nil

ASSUME OwnersAssumption ==
  /\ Nobody \notin Openers \union Windows /\ NoWindow \notin Windows
  /\ Openers \intersect Windows = {}

VARIABLES
  mu,      \* who holds l.mu
  wv,      \* l.wv
  open,    \* where each Open is
  made,    \* the window each Open has asked for
  window   \* where each window's goroutine is

browserVars == <<mu, wv, open, made, window>>

OpenPoints   == {"idle", "lock", "check", "create", "exclude", "track",
                 "trackBare", "notify", "unlock"}
WindowPoints == {"none", "creating", "refused", "shown", "closed", "forget", "destroy"}

Open(o, from, to) == open[o] = from /\ open' = [open EXCEPT ![o] = to]
Pump(w, from, to) == window[w] = from /\ window' = [window EXCEPT ![w] = to]

BInit ==
  /\ mu = Nobody /\ wv = NoWindow
  /\ open = [o \in Openers |-> "idle"]
  /\ made = [o \in Openers |-> NoWindow]
  /\ window = [w \in Windows |-> "none"]

----------------------------------------------------------------------------
(* Open, in the goroutine of a click.                                      *)

Click(o) == Open(o, "idle", "lock") /\ UNCHANGED <<mu, wv, made, window>>

LockOpen(o) ==
  /\ Open(o, "lock", "check")
  /\ mu = Nobody /\ mu' = o
  /\ UNCHANGED <<wv, made, window>>

\* what l.wv names comes to the front, if there still is a window behind it
FocusExisting(o) ==
  /\ Open(o, "check", "unlock")
  /\ wv # NoWindow
  /\ UNCHANGED <<mu, wv, made, window>>

\* the goroutine and the thread that will own the window
SpawnWindow(o) ==
  /\ Open(o, "check", "create")
  /\ wv = NoWindow
  /\ \E w \in Windows :
       Pump(w, "none", "creating") /\ made' = [made EXCEPT ![o] = w]
  /\ UNCHANGED <<mu, wv>>

\* resultCh has the window, which its goroutine has begun to pump
CreationSucceeded(o) ==
  /\ Open(o, "create", "exclude")
  /\ window[made[o]] \notin {"creating", "refused"}
  /\ UNCHANGED <<mu, wv, made, window>>

CreationRefused(o) ==
  /\ Open(o, "create", "notify")
  /\ Pump(made[o], "refused", "none")
  /\ made' = [made EXCEPT ![o] = NoWindow]
  /\ UNCHANGED <<mu, wv>>

\* SetWindowDisplayAffinity, which fails on a window already closed
Exclude(o) ==
  /\ \/ Open(o, "exclude", "track") /\ window[made[o]] = "shown"
     \/ Open(o, "exclude", "trackBare")
  /\ UNCHANGED <<mu, wv, made, window>>

\* slip: a window that could not be hidden is not tracked
TrackHiddenOnly(o) ==
  /\ \/ Open(o, "track", "unlock") /\ wv' = made[o]
     \/ Open(o, "trackBare", "notify") /\ wv' = wv
  /\ made' = [made EXCEPT ![o] = NoWindow]
  /\ UNCHANGED <<mu, window>>

TrackWindow(o) ==
  /\ Open(o, "track", "unlock") \/ Open(o, "trackBare", "notify")
  /\ wv' = made[o]
  /\ made' = [made EXCEPT ![o] = NoWindow]
  /\ UNCHANGED <<mu, window>>

\* Tray.Notify, which returns within its wait for the tray
NotifyFailure(o) == Open(o, "notify", "unlock") /\ UNCHANGED <<mu, wv, made, window>>

OpenReturns(o) ==
  /\ Open(o, "unlock", "idle")
  /\ mu' = Nobody
  /\ UNCHANGED <<wv, made, window>>

----------------------------------------------------------------------------
(* The goroutine of a window.                                              *)

\* no WebView2 runtime, a profile that cannot be written, or no control
WindowCreated(w) ==
  /\ Pump(w, "creating", "shown") \/ Pump(w, "creating", "refused")
  /\ UNCHANGED <<mu, wv, open, made>>

MentorCloses(w) == Pump(w, "shown", "closed") /\ UNCHANGED <<mu, wv, open, made>>

LockForget(w) ==
  /\ Pump(w, "closed", "forget")
  /\ mu = Nobody /\ mu' = w
  /\ UNCHANGED <<wv, open, made>>

\* slip: no unlock
ForgetKeepsLock(w) ==
  /\ Pump(w, "forget", "destroy")
  /\ wv' = NoWindow
  /\ UNCHANGED <<mu, open, made>>

Forget(w) ==
  /\ Pump(w, "forget", "destroy")
  /\ wv' = NoWindow /\ mu' = Nobody
  /\ UNCHANGED <<open, made>>

WindowDestroyed(w) == Pump(w, "destroy", "none") /\ UNCHANGED <<mu, wv, open, made>>

----------------------------------------------------------------------------
OpenStep(o) ==
  \/ FocusExisting(o) \/ SpawnWindow(o) \/ CreationSucceeded(o) \/ CreationRefused(o)
  \/ Exclude(o) \/ TrackWindow(o) \/ NotifyFailure(o) \/ OpenReturns(o)

WindowStep(w) == WindowCreated(w) \/ Forget(w) \/ WindowDestroyed(w)

BNext ==
  \/ \E o \in Openers : Click(o) \/ LockOpen(o) \/ OpenStep(o)
  \/ \E w \in Windows : WindowStep(w) \/ MentorCloses(w) \/ LockForget(w)

BSpec == BInit /\ [][BNext]_browserVars

\* Goroutines run, WebView2 comes to a result, and sync.Mutex does not starve a
\* waiter; nobody has to click or to close a window.
BFairSpec ==
  /\ BSpec
  /\ \A o \in Openers : WF_browserVars(OpenStep(o)) /\ SF_browserVars(LockOpen(o))
  /\ \A w \in Windows : WF_browserVars(WindowStep(w)) /\ SF_browserVars(LockForget(w))

----------------------------------------------------------------------------
(* Properties.                                                             *)

BrowserTypeOK ==
  /\ mu \in Openers \union Windows \union {Nobody}
  /\ wv \in Windows \union {NoWindow}
  /\ open \in [Openers -> OpenPoints]
  /\ made \in [Openers -> Windows \union {NoWindow}]
  /\ window \in [Windows -> WindowPoints]

\* At most one window is on the screen, and the launcher can bring it to the
\* front: it is l.wv, or its Open still holds l.mu and will make it so, even
\* when it could not be hidden.  And l.wv never names a window that is gone for
\* good, also when the mentor closes it before Open has stored it: otherwise no
\* window would ever open again.
WindowIsTracked ==
  /\ \A w \in Windows : window[w] = "shown" =>
       wv = w \/ \E o \in Openers : made[o] = w /\ mu = o
  /\ \A v, w \in Windows : window[v] = "shown" /\ window[w] = "shown" => v = w
  /\ wv # NoWindow => window[wv] \in {"shown", "closed", "forget"}

\* Open returns to the click that called it however long windows stay open, and
\* a window that was closed is forgotten, so the clicks that find it dead are not
\* the last ones.
OpensReturn ==
  /\ \A o \in Openers : []<>(open[o] = "idle")
  /\ []<>(wv # NoWindow => window[wv] = "shown")
=============================================================================
