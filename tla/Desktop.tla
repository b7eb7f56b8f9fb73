------------------------------ MODULE Desktop ------------------------------
(***************************************************************************)
(* What the mentor sees of the light agent: the icon and its balloons, the  *)
(* hidden browser its menu opens, and the dialogs.  The three share no      *)
(* state, so a behaviour follows one of them, chosen at the start, and the  *)
(* others rest.                                                             *)
(***************************************************************************)
EXTENDS TrayIcon, HiddenBrowser, TaskDialogs

VARIABLE scene  \* the one that is followed

Scenes == {"icon", "browser", "dialogs"}

desktopVars == <<vars, browserVars, dialogVars, scene>>

DesktopInit == Init /\ BInit /\ DInit /\ scene \in Scenes

DesktopNext ==
  /\ scene' = scene
  /\ \/ scene = "icon" /\ Next /\ UNCHANGED <<browserVars, dialogVars>>
     \/ scene = "browser" /\ BNext /\ UNCHANGED <<vars, dialogVars>>
     \/ scene = "dialogs" /\ DNext /\ UNCHANGED <<vars, browserVars>>

IconStep(A)    == scene = "icon" /\ A
BrowserStep(A) == scene = "browser" /\ A
DialogStep(A)  == scene = "dialogs" /\ A

\* the fairness of FairSpec, BFairSpec and DFairSpec, each where it is followed
DesktopFairSpec ==
  /\ DesktopInit /\ [][DesktopNext]_desktopVars
  /\ WF_vars(IconStep(RunSteps)) /\ WF_vars(IconStep(TickSteps))
  /\ \A n \in Notes : WF_vars(IconStep(NotifySteps(n)))
  /\ \A o \in Openers : /\ WF_browserVars(BrowserStep(OpenStep(o)))
                        /\ SF_browserVars(BrowserStep(LockOpen(o)))
  /\ \A w \in Windows : /\ WF_browserVars(BrowserStep(WindowStep(w)))
                        /\ SF_browserVars(BrowserStep(LockForget(w)))
  /\ \A d \in Dialogs : /\ WF_dialogVars(DialogStep(CallStep(d)))
                        /\ WF_dialogVars(DialogStep(ThreadStep(d)))
                        /\ WF_dialogVars(DialogStep(DriverStep(d)))

----------------------------------------------------------------------------
DesktopTypeOK == TypeOK /\ BrowserTypeOK /\ DialogTypeOK /\ scene \in Scenes

\* Nobody who waits for the desktop waits for ever: a show_notification command
\* is answered, Open returns to the click that called it and forgets the window
\* the mentor closed, and the caller of a dialog that was answered or could not
\* be shown, or whose work is over, goes on.
DesktopAnswers == NotifyReturns /\ OpensReturn /\ DialogsReturn
=============================================================================
