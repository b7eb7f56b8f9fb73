---------------------------- MODULE DesktopProofs ----------------------------
(***************************************************************************)
(* Proofs about the mentor's desktop: the hidden browser, for any number of *)
(* clicks and of windows; the dialogs, for any number of them; and that     *)
(* what holds of each part, the icon's theorems included, holds of Desktop. *)
(* BrowserInv says what the holder of l.mu has in its hands, DialogInv how  *)
(* a dialog, its token, its thread and its driver find one another.         *)
(***************************************************************************)
EXTENDS Desktop, TrayIconProofs

\* Open holds the lock from here to its end, and has a window of its own while
\* it is being created, hidden and stored
Holding == {"check", "create", "exclude", "track", "trackBare", "notify", "unlock"}
Making  == {"create", "exclude", "track", "trackBare"}

\* every window belongs to l.wv or to the Open that is making it, and an Open
\* that is making one found none
BrowserInv ==
  /\ \A o \in Openers : mu = o <=> open[o] \in Holding
  /\ \A w \in Windows : mu = w <=> window[w] = "forget"
  /\ \A o \in Openers : made[o] # NoWindow <=> open[o] \in Making
  /\ \A o \in Openers : open[o] \in Making => wv = NoWindow
  /\ \A o \in Openers : open[o] = "create" =>
       window[made[o]] \in {"creating", "refused", "shown", "closed"}
  /\ \A o \in Openers : open[o] \in {"exclude", "track", "trackBare"} =>
       window[made[o]] \in {"shown", "closed"}
  /\ \A w \in Windows : window[w] \in {"creating", "refused"} => \E o \in Openers : made[o] = w
  /\ \A w \in Windows : window[w] \in {"shown", "closed", "forget"} =>
       wv = w \/ \E o \in Openers : made[o] = w
  /\ wv # NoWindow => window[wv] \in {"shown", "closed", "forget"}

\* a token names one dialog, and is registered while that dialog's window may be
\* created; a driver that got past its wait has the window of its own dialog
DialogInv ==
  /\ \A d \in Dialogs : caller[d] \in {"idle", "register"} => token[d] = 0
  /\ \A d, e \in Dialogs : token[d] = token[e] /\ token[d] # 0 => d = e
  /\ \A d \in callbacks : token[d] # 0 /\ caller[d] = "wait"
  /\ \A d \in Dialogs : caller[d] = "store" => token[d] # 0
  /\ \A d \in Dialogs : thread[d] = "calling" => d \in callbacks
  /\ \A d \in Dialogs : handle[d] \in {NoDialog, d}
  /\ \A d \in Dialogs : caller[d] \in {"idle", "register", "store"} => driver[d] = "none"
  /\ \A d \in Dialogs : driver[d] # "none" => d \in Works
  /\ \A d \in Dialogs : driver[d] \notin {"none", "await"} => handle[d] = d
  /\ \A d \in runDone : driver[d] \in {"click", "ended"}
  /\ locked \subseteq Works
  /\ \A d \in Works : caller[d] = "returned" => d \in runDone

----------------------------------------------------------------------------
(* The hidden browser.                                                     *)

(* A step is one of an Open (the goroutine of a click) or of the goroutine  *)
(* that serves a window.                                                    *)
LEMMA BrowserCases ==
  ASSUME BNext
  PROVE  \/ \E o \in Openers :
              \/ Click(o) \/ LockOpen(o) \/ FocusExisting(o) \/ SpawnWindow(o)
              \/ CreationSucceeded(o) \/ CreationRefused(o) \/ Exclude(o) \/ TrackWindow(o)
              \/ NotifyFailure(o) \/ OpenReturns(o)
         \/ \E w \in Windows :
              \/ WindowCreated(w) \/ MentorCloses(w) \/ LockForget(w) \/ Forget(w)
              \/ WindowDestroyed(w)
BY DEF BNext, OpenStep, WindowStep

(* l.mu, l.wv and the windows keep their types.                             *)
THEOREM BrowserTypeCorrect == BSpec => []BrowserTypeOK
<1>1. BInit => BrowserTypeOK
  BY DEF BInit, BrowserTypeOK, OpenPoints, WindowPoints
<1>2. BrowserTypeOK /\ [BNext]_browserVars => BrowserTypeOK'
  <2> SUFFICES ASSUME BrowserTypeOK, [BNext]_browserVars
               PROVE  BrowserTypeOK'
    OBVIOUS
  <2> USE DEF BrowserTypeOK, OpenPoints, WindowPoints, Open, Pump
  <2>1. ASSUME NEW o \in Openers, \/ Click(o) \/ LockOpen(o) \/ FocusExisting(o)
                                  \/ CreationSucceeded(o) \/ Exclude(o)
                                  \/ NotifyFailure(o) \/ OpenReturns(o)
        PROVE  BrowserTypeOK'
    BY <2>1 DEF Click, LockOpen, FocusExisting, CreationSucceeded, Exclude, NotifyFailure, OpenReturns
  <2>2. ASSUME NEW o \in Openers, SpawnWindow(o) PROVE BrowserTypeOK'
    BY <2>2 DEF SpawnWindow
  <2>3. ASSUME NEW o \in Openers, CreationRefused(o) PROVE BrowserTypeOK'
    BY <2>3 DEF CreationRefused
  <2>4. ASSUME NEW o \in Openers, TrackWindow(o) PROVE BrowserTypeOK'
    BY <2>4 DEF TrackWindow
  <2>5. ASSUME NEW w \in Windows, \/ WindowCreated(w) \/ MentorCloses(w) \/ LockForget(w)
                                  \/ Forget(w) \/ WindowDestroyed(w)
        PROVE  BrowserTypeOK'
    BY <2>5 DEF WindowCreated, MentorCloses, LockForget, Forget, WindowDestroyed
  <2>6. CASE UNCHANGED browserVars
    BY <2>6 DEF browserVars
  <2> QED
    BY <2>1, <2>2, <2>3, <2>4, <2>5, <2>6, BrowserCases
<1> QED
  BY <1>1, <1>2, PTL DEF BSpec

(* Whoever holds the lock, no window is in nobody's hands.                  *)
THEOREM BrowserInvariant == BSpec => []BrowserInv
<1>1. BInit => BrowserInv
  BY OwnersAssumption DEF BInit, BrowserInv, Holding, Making
<1>2. BrowserTypeOK /\ BrowserInv /\ [BNext]_browserVars => BrowserInv'
  <2> SUFFICES ASSUME BrowserTypeOK, BrowserInv, [BNext]_browserVars
               PROVE  BrowserInv'
    OBVIOUS
  <2> USE OwnersAssumption
      DEF BrowserTypeOK, BrowserInv, Holding, Making, OpenPoints, WindowPoints, Open, Pump
  <2>1. ASSUME NEW o \in Openers, Click(o) PROVE BrowserInv'
    BY <2>1 DEF Click
  <2>2. ASSUME NEW o \in Openers, LockOpen(o) PROVE BrowserInv'
    BY <2>2 DEF LockOpen
  <2>3. ASSUME NEW o \in Openers, FocusExisting(o) PROVE BrowserInv'
    BY <2>3 DEF FocusExisting
  <2>4. ASSUME NEW o \in Openers, SpawnWindow(o) PROVE BrowserInv'
    BY <2>4 DEF SpawnWindow
  <2>5. ASSUME NEW o \in Openers, CreationSucceeded(o) PROVE BrowserInv'
    BY <2>5 DEF CreationSucceeded
  <2>6. ASSUME NEW o \in Openers, CreationRefused(o) PROVE BrowserInv'
    BY <2>6 DEF CreationRefused
  <2>7. ASSUME NEW o \in Openers, Exclude(o) PROVE BrowserInv'
    BY <2>7 DEF Exclude
  <2>8. ASSUME NEW o \in Openers, TrackWindow(o) PROVE BrowserInv'
    BY <2>8 DEF TrackWindow
  <2>9. ASSUME NEW o \in Openers, NotifyFailure(o) PROVE BrowserInv'
    BY <2>9 DEF NotifyFailure
  <2>10. ASSUME NEW o \in Openers, OpenReturns(o) PROVE BrowserInv'
    BY <2>10 DEF OpenReturns
  <2>11. ASSUME NEW w \in Windows, WindowCreated(w) PROVE BrowserInv'
    BY <2>11 DEF WindowCreated
  <2>12. ASSUME NEW w \in Windows, MentorCloses(w) PROVE BrowserInv'
    BY <2>12 DEF MentorCloses
  <2>13. ASSUME NEW w \in Windows, LockForget(w) PROVE BrowserInv'
    BY <2>13 DEF LockForget
  <2>14. ASSUME NEW w \in Windows, Forget(w) PROVE BrowserInv'
    BY <2>14 DEF Forget
  <2>15. ASSUME NEW w \in Windows, WindowDestroyed(w) PROVE BrowserInv'
    BY <2>15 DEF WindowDestroyed
  <2>16. CASE UNCHANGED browserVars
    BY <2>16 DEF browserVars
  <2> QED
    BY <2>1, <2>2, <2>3, <2>4, <2>5, <2>6, <2>7, <2>8, <2>9, <2>10, <2>11, <2>12,
       <2>13, <2>14, <2>15, <2>16, BrowserCases
<1> QED
  BY <1>1, <1>2, BrowserTypeCorrect, PTL DEF BSpec

(* One window at most is on the screen, and the next click finds it.        *)
THEOREM WindowStaysTracked == BSpec => []WindowIsTracked
<1>1. BrowserTypeOK /\ BrowserInv => WindowIsTracked
  <2> SUFFICES ASSUME BrowserTypeOK, BrowserInv
               PROVE  WindowIsTracked
    OBVIOUS
  <2>1. \A o \in Openers : made[o] # NoWindow => mu = o /\ wv = NoWindow
    BY DEF BrowserInv, Holding, Making
  <2>2. \A w \in Windows : window[w] = "shown" => wv = w \/ \E o \in Openers : made[o] = w /\ mu = o
    BY <2>1, OwnersAssumption DEF BrowserInv
  <2>3. \A v, w \in Windows : window[v] = "shown" /\ window[w] = "shown" => v = w
    BY <2>1, <2>2, OwnersAssumption
  <2> QED
    BY <2>2, <2>3 DEF WindowIsTracked, BrowserInv
<1> QED
  BY <1>1, BrowserTypeCorrect, BrowserInvariant, PTL

----------------------------------------------------------------------------
(* The dialogs.                                                            *)

(* A step is the tray's PostQuitMessage, or one of a dialog's caller, thread*)
(* or driver.                                                               *)
LEMMA DialogCases ==
  ASSUME DNext
  PROVE  \/ TrayEnds
         \/ \E d \in Dialogs :
              \/ Ask(d) \/ TakeToken(d) \/ RegisterAndStart(d) \/ DialogReturns(d)
              \/ ProgressReturns(d) \/ Created(d) \/ NotCreated(d)
              \/ Answered(d) \/ PlaceholderClicked(d) \/ StrayQuit(d)
              \/ WindowGiven(d) \/ LockButton(d) \/ WorkEnds(d) \/ CloseRunDone(d)
              \/ ClickButton(d)
BY DEF DNext, CallStep, ThreadStep, DriverStep

(* Tokens, windows and drivers belong to dialogs.                           *)
THEOREM DialogInvariant == DSpec => [](DialogTypeOK /\ DialogInv)
<1>1. DInit => DialogTypeOK /\ DialogInv
  <2> SUFFICES ASSUME DInit PROVE DialogTypeOK /\ DialogInv
    OBVIOUS
  <2>1. issued \in Nat /\ token \in [Dialogs -> 0 .. issued]
    BY DEF DInit
  <2>2. DialogTypeOK
    BY <2>1 DEF DInit, DialogTypeOK, CallerPoints, ThreadPoints, DriverPoints, Buttons
  <2>3. DialogInv
    BY DEF DInit, DialogInv, Dialogs
  <2> QED
    BY <2>2, <2>3
<1>2. DialogTypeOK /\ DialogInv /\ [DNext]_dialogVars => (DialogTypeOK /\ DialogInv)'
  <2> SUFFICES ASSUME DialogTypeOK, DialogInv, [DNext]_dialogVars
               PROVE  DialogTypeOK' /\ DialogInv'
    OBVIOUS
  <2> USE DialogsAssumption
      DEF DialogTypeOK, DialogInv, CallerPoints, ThreadPoints, DriverPoints, Buttons,
          Call, Drive, Ends
  <2>1. ASSUME NEW d \in Dialogs, Ask(d) PROVE DialogTypeOK' /\ DialogInv'
    BY <2>1 DEF Ask
  <2>2. ASSUME NEW d \in Dialogs, TakeToken(d) PROVE DialogTypeOK' /\ DialogInv'
    BY <2>2 DEF TakeToken
  <2>3. ASSUME NEW d \in Dialogs, RegisterAndStart(d) PROVE DialogTypeOK' /\ DialogInv'
    BY <2>3 DEF RegisterAndStart
  <2>4. ASSUME NEW d \in Dialogs, DialogReturns(d) PROVE DialogTypeOK' /\ DialogInv'
    BY <2>4 DEF DialogReturns
  <2>5. ASSUME NEW d \in Dialogs, ProgressReturns(d) PROVE DialogTypeOK' /\ DialogInv'
    BY <2>5 DEF ProgressReturns
  <2>6. ASSUME NEW d \in Dialogs, Created(d) PROVE DialogTypeOK' /\ DialogInv'
    BY <2>6 DEF Created
  <2>7. ASSUME NEW d \in Dialogs,
               NotCreated(d) \/ Answered(d) \/ PlaceholderClicked(d) \/ StrayQuit(d)
        PROVE  DialogTypeOK' /\ DialogInv'
    BY <2>7 DEF NotCreated, Answered, PlaceholderClicked, StrayQuit
  <2>8. ASSUME NEW d \in Dialogs, WindowGiven(d) PROVE DialogTypeOK' /\ DialogInv'
    BY <2>8 DEF WindowGiven
  <2>9. ASSUME NEW d \in Dialogs, LockButton(d) PROVE DialogTypeOK' /\ DialogInv'
    BY <2>9 DEF LockButton
  <2>10. ASSUME NEW d \in Dialogs, WorkEnds(d) \/ CloseRunDone(d) PROVE DialogTypeOK' /\ DialogInv'
    <3>1. CASE WorkEnds(d)
      BY <3>1 DEF WorkEnds
    <3>2. CASE CloseRunDone(d)
      <4>1. d \in Works
        BY <3>2 DEF CloseRunDone
      <4> QED
        BY <3>2, <4>1 DEF CloseRunDone
    <3> QED
      BY <2>10, <3>1, <3>2
  <2>11. ASSUME NEW d \in Dialogs, ClickButton(d) PROVE DialogTypeOK' /\ DialogInv'
    BY <2>11 DEF ClickButton
  <2>12. CASE TrayEnds
    BY <2>12 DEF TrayEnds
  <2>13. CASE UNCHANGED dialogVars
    BY <2>13 DEF dialogVars
  <2> QED
    BY <2>1, <2>2, <2>3, <2>4, <2>5, <2>6, <2>7, <2>8, <2>9, <2>10, <2>11, <2>12,
       <2>13, DialogCases
<1> QED
  BY <1>1, <1>2, PTL DEF DSpec

(* A driver disables and clicks the window of its own dialog only, and the   *)
(* result RunWithProgress returns is that of a work that has ended.          *)
THEOREM ProgressStaysItsOwn == DSpec => []ProgressIsItsOwn
<1>1. DialogTypeOK /\ DialogInv => ProgressIsItsOwn
  BY DEF DialogTypeOK, DialogInv, ProgressIsItsOwn
<1> QED
  BY <1>1, DialogInvariant, PTL

----------------------------------------------------------------------------
(* The desktop.  Its steps are steps of one part while the others rest, so  *)
(* it is each of its parts, and what was proved of them holds of it.        *)

(* A behaviour of the desktop is one of the icon, of the browser and of the *)
(* dialogs.                                                                 *)
THEOREM DesktopIsItsParts == DesktopFairSpec => Spec /\ BSpec /\ DSpec /\ [](scene \in Scenes)
<1> DEFINE Safe == DesktopInit /\ [][DesktopNext]_desktopVars
<1>1. DesktopFairSpec => Safe
  BY PTL DEF DesktopFairSpec
<1>2. DesktopInit => Init /\ BInit /\ DInit /\ scene \in Scenes
  BY DEF DesktopInit
<1>3. [DesktopNext]_desktopVars => [Next]_vars
  BY DEF DesktopNext, desktopVars
<1>4. [DesktopNext]_desktopVars => [BNext]_browserVars
  BY DEF DesktopNext, desktopVars
<1>5. [DesktopNext]_desktopVars => [DNext]_dialogVars
  BY DEF DesktopNext, desktopVars
<1>6. scene \in Scenes /\ [DesktopNext]_desktopVars => (scene \in Scenes)'
  BY DEF DesktopNext, desktopVars
<1>7. Safe => Spec /\ BSpec /\ DSpec /\ [](scene \in Scenes)
  BY <1>2, <1>3, <1>4, <1>5, <1>6, PTL DEF Spec, BSpec, DSpec
<1> QED
  BY <1>1, <1>7

(* Type correctness of the whole desktop.                                   *)
THEOREM DesktopTypeCorrect == DesktopFairSpec => []DesktopTypeOK
<1>1. TypeOK /\ BrowserTypeOK /\ DialogTypeOK /\ scene \in Scenes => DesktopTypeOK
  BY DEF DesktopTypeOK
<1> QED
  BY <1>1, DesktopIsItsParts, TypeCorrect, BrowserTypeCorrect, DialogInvariant, PTL

(* On the mentor's desktop every icon is freed once, every link opened at    *)
(* most once, one hidden window at most is shown and can be found again, and *)
(* every progress screen minds its own dialog.                               *)
THEOREM DesktopIsSafe ==
  DesktopFairSpec => [](IconsFreedOnce /\ HandlerFiresOnce /\ WindowIsTracked /\ ProgressIsItsOwn)
BY DesktopIsItsParts, IconsAreFreedOnce, LinkOpensOnce, WindowStaysTracked, ProgressStaysItsOwn, PTL
=============================================================================
