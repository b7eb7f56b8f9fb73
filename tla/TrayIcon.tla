------------------------------ MODULE TrayIcon ------------------------------
(***************************************************************************)
(* The notification-area icon of the light agent.  Four parties share it:   *)
(* Tray.Run, which creates the window and the icon, pumps messages and      *)
(* tears both down; runTrayIcon's ticker, which refreshes the tooltip and   *)
(* swaps the icon when the link goes up or down; show_notification          *)
(* handlers calling Notify, one goroutine each; and the user, whose clicks  *)
(* arrive as messages in the order Windows posted them.                     *)
(*                                                                         *)
(* A handle is loaded once and has the art of its file for good; the stock  *)
(* icon, the system's, is whatever Run falls back to (its load is taken not *)
(* to fail) and is never to be destroyed, hence the ownership flags.        *)
(* Windows keeps a copy of the handle's image when it is given one, and     *)
(* refuses a destroyed handle and any change while no icon is there.        *)
(***************************************************************************)
EXTENDS Naturals, Sequences, FiniteSets

CONSTANTS Notes,      \* show_notification commands
          None,       \* no note
          MaxLoads    \* bound: icon handles loaded, numbered from 1

ASSUME NoneAssumption == None \notin Notes
ASSUME LoadsAssumption == MaxLoads \in Nat \ {0}

VARIABLES
  run,        \* where Tray.Run is
  published,  \* t.state is set
  quit,       \* WM_DESTROY posted
  stopped,    \* ctx cancelled
  final,      \* the handle Run is about to free
  finalOwned, \* and whether it may be
  staged,     \* writeTrayIcons succeeded: both paths are there
  icon,       \* trayState.hIcon, 0 before the first is loaded
  owned,      \* trayState.ownsHIcon
  art,        \* what each loaded handle shows
  freed,      \* how often each handle was destroyed
  refused,    \* history: the handles a refused swap has left to nobody
  inTray,     \* the shell shows the icon
  shown,      \* and this is its art
  tick,       \* where the ticker is
  seen,       \* the Stats().Connected it read
  lastConnected,
  previous,   \* the handle SetIconPath replaced, 0 for none
  previousOwned,
  note,       \* where each Notify is
  carried,    \* the handle in its NOTIFYICONDATA
  balloon,    \* the note whose balloon is up
  messages,   \* posted and not yet dispatched
  handler,    \* trayState.notifyClickHandler
  fired       \* how often each note's onClick ran

runner  == <<run, published, final, finalOwned>>
image   == <<icon, owned, art, freed, refused>>
shell   == <<inTray, shown>>
ticker  == <<tick, seen, lastConnected, previous, previousOwned>>
notify  == <<note, carried, handler>>
user    == <<balloon, messages>>
control == <<quit, stopped, staged>>
vars    == <<runner, control, image, shell, ticker, notify, user, fired>>

Arts       == {"", "stock", "connected", "offline"}
RunPoints  == {"create", "add", "pump", "delete", "read", "free", "ended"}
TickPoints == {"idle", "tooltip", "swap", "modify", "destroy", "ended"}
NotePoints == {"idle", "wait", "build", "modify", "done"}

Live(h) == h \in DOMAIN art /\ freed[h] = 0

\* slip: a loaded handle nobody is recorded as owning
LoadUnowned(what) ==
  /\ Len(art) < MaxLoads
  /\ art' = Append(art, what) /\ freed' = freed
  /\ icon' = Len(art) + 1 /\ refused' = refused

\* LoadImageW: a handle of its own for every call; LoadIconW: the shared one
Load(what) ==
  /\ Len(art) < MaxLoads
  /\ art' = Append(art, what) /\ freed' = Append(freed, 0)
  /\ icon' = Len(art) + 1 /\ refused' = refused

DestroyIfOwned(h, owns) ==
  freed' = IF owns /\ h # 0 THEN [freed EXCEPT ![h] = @ + 1] ELSE freed

Init ==
  /\ run = "create" /\ published = FALSE /\ final = 0 /\ finalOwned = FALSE
  /\ quit = FALSE /\ stopped = FALSE /\ staged \in BOOLEAN
  /\ icon = 0 /\ owned = FALSE /\ art = <<>> /\ freed = <<>> /\ refused = {}
  /\ inTray = FALSE /\ shown = ""
  /\ tick = "idle" /\ seen = FALSE /\ lastConnected = FALSE
  /\ previous = 0 /\ previousOwned = FALSE
  /\ note = [n \in Notes |-> "idle"]
  /\ carried = [n \in Notes |-> 0]
  /\ balloon = None /\ messages = <<>>
  /\ handler = None
  /\ fired = [n \in Notes |-> 0]

----------------------------------------------------------------------------
(* Tray.Run.                                                               *)

\* the window class, the window, and the stock icon unless the file whose art says
\* connected can be loaded; the state is published before the icon is added
CreateWindow ==
  /\ run = "create" /\ run' = "add"
  /\ \/ Load("stock") /\ owned' = FALSE
     \/ staged /\ Load("connected") /\ owned' = TRUE
  /\ published' = TRUE
  /\ UNCHANGED <<final, finalOwned, control, shell, ticker, notify, user, fired>>

CreateFails ==
  /\ run = "create" /\ run' = "ended"
  /\ UNCHANGED <<published, final, finalOwned, control, image, shell, ticker, notify, user, fired>>

AddIcon ==
  /\ run = "add" /\ run' = "pump"
  /\ inTray' = TRUE /\ shown' = art[icon]
  /\ UNCHANGED <<published, final, finalOwned, control, image, ticker, notify, user, fired>>

\* the window goes, t.state and the handle stay
AddFails ==
  /\ run = "add" /\ run' = "ended"
  /\ UNCHANGED <<published, final, finalOwned, control, image, shell, ticker, notify, user, fired>>

PumpEnds ==
  /\ run = "pump" /\ quit
  /\ run' = "delete"
  /\ UNCHANGED <<published, final, finalOwned, control, image, shell, ticker, notify, user, fired>>

DeleteIcon ==
  /\ run = "delete" /\ run' = "read"
  /\ inTray' = FALSE /\ shown' = "" /\ balloon' = None
  /\ UNCHANGED <<published, final, finalOwned, control, image, ticker, notify, messages, fired>>

\* slip: the locals Run started with, not what SetIconPath left
FreeFirstIcon ==
  /\ run = "read" /\ run' = "free"
  /\ final' = 1 /\ finalOwned' = (art[1] = "connected")
  /\ UNCHANGED <<published, control, image, shell, ticker, notify, user, fired>>

ReadFinalIcon ==
  /\ run = "read" /\ run' = "free"
  /\ final' = icon /\ finalOwned' = owned
  /\ UNCHANGED <<published, control, image, shell, ticker, notify, user, fired>>

FreeFinalIcon ==
  /\ run = "free" /\ run' = "ended"
  /\ DestroyIfOwned(final, finalOwned) /\ final' = 0 /\ finalOwned' = FALSE
  /\ UNCHANGED <<published, control, icon, owned, art, refused, shell, ticker, notify, user, fired>>

\* the menu's Quit item
Quit ==
  /\ published /\ quit' = TRUE
  /\ UNCHANGED <<runner, stopped, staged, image, shell, ticker, notify, user, fired>>

Cancel ==
  /\ ~stopped /\ stopped' = TRUE
  /\ quit' = (quit \/ published)
  /\ UNCHANGED <<runner, staged, image, shell, ticker, notify, user, fired>>

----------------------------------------------------------------------------
(* The ticker: tooltip and menu every time, the icon when the link changed. *)

ReadStats ==
  /\ tick = "idle" /\ ~stopped
  /\ tick' = "tooltip" /\ seen' \in BOOLEAN
  /\ UNCHANGED <<runner, control, image, shell, lastConnected, previous, previousOwned, notify, user, fired>>

\* SetTooltip sends the current icon along; then lastConnected is compared, if
\* there are files to swap
SetTooltip ==
  /\ tick = "tooltip"
  /\ tick' = IF seen # lastConnected /\ staged THEN "swap" ELSE "idle"
  /\ lastConnected' = IF staged THEN seen ELSE lastConnected
  /\ seen' = FALSE
  /\ shown' = IF published /\ inTray /\ Live(icon) THEN art[icon] ELSE shown
  /\ UNCHANGED <<runner, control, image, inTray, previous, previousOwned, notify, user, fired>>

\* SetIconPath before Run has published its state, or LoadImageW failing
IconNotSet ==
  /\ tick = "swap" /\ tick' = "idle"
  /\ UNCHANGED <<runner, control, image, shell, seen, lastConnected, previous, previousOwned, notify, user, fired>>

SwapIcon ==
  /\ tick = "swap" /\ tick' = "modify"
  /\ published
  /\ Load(IF lastConnected THEN "connected" ELSE "offline")
  /\ previous' = icon /\ previousOwned' = owned /\ owned' = TRUE
  /\ UNCHANGED <<runner, control, shell, seen, lastConnected, notify, user, fired>>

ModifyIcon ==
  /\ tick = "modify" /\ tick' = "destroy"
  /\ inTray /\ Live(icon)
  /\ shown' = art[icon]
  /\ UNCHANGED <<runner, control, image, inTray, seen, lastConnected, previous, previousOwned, notify, user, fired>>

\* the replaced handle is then destroyed by nobody
ModifyFails ==
  /\ tick = "modify" /\ tick' = "idle" /\ previous' = 0 /\ previousOwned' = FALSE
  /\ refused' = refused \union {previous}
  /\ UNCHANGED <<runner, control, icon, owned, art, freed, shell, seen, lastConnected, notify, user, fired>>

DestroyPrevious ==
  /\ tick = "destroy" /\ tick' = "idle" /\ previous' = 0 /\ previousOwned' = FALSE
  /\ DestroyIfOwned(previous, previousOwned)
  /\ UNCHANGED <<runner, control, icon, owned, art, refused, shell, seen, lastConnected, notify, user, fired>>

TickerEnds ==
  /\ tick = "idle" /\ stopped
  /\ tick' = "ended"
  /\ UNCHANGED <<runner, control, image, shell, seen, lastConnected, previous, previousOwned, notify, user, fired>>

----------------------------------------------------------------------------
(* Notify, in the goroutine of its command.                                *)

Begin(n) ==
  /\ note[n] = "idle"
  /\ note' = [note EXCEPT ![n] = "wait"]
  /\ UNCHANGED <<runner, control, image, shell, ticker, carried, handler, user, fired>>

\* waitForState, then the handler is installed
InstallHandler(n) ==
  /\ note[n] = "wait" /\ published
  /\ note' = [note EXCEPT ![n] = "build"]
  /\ handler' = n
  /\ UNCHANGED <<runner, control, image, shell, ticker, carried, user, fired>>

TimesOut(n) ==
  /\ note[n] = "wait" /\ ~published
  /\ note' = [note EXCEPT ![n] = "done"]
  /\ UNCHANGED <<runner, control, image, shell, ticker, carried, handler, user, fired>>

BuildNotifyNID(n) ==
  /\ note[n] = "build"
  /\ note' = [note EXCEPT ![n] = "modify"]
  /\ carried' = [carried EXCEPT ![n] = icon]
  /\ UNCHANGED <<runner, control, image, shell, ticker, handler, user, fired>>

\* a balloon that was up is replaced, and its window may hear of its end
ShowBalloon(n) ==
  /\ note[n] = "modify" /\ inTray /\ Live(carried[n])
  /\ note' = [note EXCEPT ![n] = "done"]
  /\ carried' = [carried EXCEPT ![n] = 0]
  /\ shown' = art[carried[n]]
  /\ balloon' = n
  /\ \/ messages' = messages
     \/ balloon # None /\ messages' = Append(messages, "hide")
  /\ UNCHANGED <<runner, control, image, inTray, ticker, handler, fired>>

\* no icon, or a handle SetIconPath has destroyed since: the error is reported
NotifyFails(n) ==
  /\ note[n] = "modify"
  /\ note' = [note EXCEPT ![n] = "done"]
  /\ carried' = [carried EXCEPT ![n] = 0]
  /\ UNCHANGED <<runner, control, image, shell, ticker, handler, user, fired>>

----------------------------------------------------------------------------
(* The user, the balloon's end, and wndProc.                               *)

BalloonEnds(how) ==
  /\ balloon # None
  /\ balloon' = None
  /\ messages' = Append(messages, how)
  /\ UNCHANGED <<runner, control, image, shell, ticker, notify, fired>>

\* slip: the handler stays installed after it fired
ClickKeepsHandler ==
  /\ run = "pump" /\ messages # <<>> /\ Head(messages) = "click"
  /\ messages' = Tail(messages)
  /\ fired' = [n \in Notes |-> IF n = handler THEN fired[n] + 1 ELSE fired[n]]
  /\ UNCHANGED <<runner, control, image, shell, ticker, notify, balloon>>

DispatchClick ==
  /\ run = "pump" /\ messages # <<>> /\ Head(messages) = "click"
  /\ messages' = Tail(messages)
  /\ fired' = [n \in Notes |-> IF n = handler THEN fired[n] + 1 ELSE fired[n]]
  /\ handler' = None
  /\ UNCHANGED <<runner, control, image, shell, ticker, note, carried, balloon>>

DispatchHide ==
  /\ run = "pump" /\ messages # <<>> /\ Head(messages) = "hide"
  /\ messages' = Tail(messages)
  /\ handler' = None
  /\ UNCHANGED <<runner, control, image, shell, ticker, note, carried, balloon, fired>>

RunSteps ==
  \/ CreateWindow \/ CreateFails \/ AddIcon \/ AddFails \/ PumpEnds
  \/ DeleteIcon \/ ReadFinalIcon \/ FreeFinalIcon
  \/ DispatchClick \/ DispatchHide

TickSteps ==
  \/ ReadStats \/ SetTooltip \/ IconNotSet
  \/ SwapIcon \/ ModifyIcon \/ ModifyFails \/ DestroyPrevious \/ TickerEnds

NotifySteps(n) ==
  InstallHandler(n) \/ TimesOut(n) \/ BuildNotifyNID(n) \/ ShowBalloon(n) \/ NotifyFails(n)

Next ==
  \/ RunSteps \/ Quit \/ Cancel \/ TickSteps
  \/ \E n \in Notes : Begin(n) \/ NotifySteps(n)
  \/ \E how \in {"click", "hide"} : BalloonEnds(how)

Spec == Init /\ [][Next]_vars

\* Goroutines run and the message loop pumps; nobody has to click, to cancel or
\* to send a command.
FairSpec ==
  /\ Spec
  /\ WF_vars(RunSteps)
  /\ WF_vars(TickSteps)
  /\ \A n \in Notes : WF_vars(NotifySteps(n))

----------------------------------------------------------------------------
(* Properties.                                                             *)

TypeOK ==
  /\ run \in RunPoints /\ tick \in TickPoints
  /\ {published, quit, stopped, staged, inTray, seen, lastConnected} \subseteq BOOLEAN
  /\ owned \in BOOLEAN /\ previousOwned \in BOOLEAN /\ finalOwned \in BOOLEAN
  /\ art \in Seq(Arts) /\ Len(art) <= MaxLoads /\ shown \in Arts
  /\ freed \in Seq(Nat) /\ Len(freed) = Len(art)
  /\ {icon, final, previous} \subseteq 0 .. Len(art) /\ refused \subseteq DOMAIN art
  /\ note \in [Notes -> NotePoints] /\ carried \in [Notes -> 0 .. Len(art)]
  /\ balloon \in Notes \union {None} /\ handler \in Notes \union {None}
  /\ messages \in Seq({"click", "hide"})
  /\ fired \in [Notes -> Nat]

\* However SetIconPath and the end of Run interleave, no icon handle is
\* destroyed twice and the stock icon never, and none that the shell will be
\* asked to show next is gone while Run pumps: this is why Run deletes the icon
\* before it reads which handle to free.  Nor is one lost: a handle to destroy
\* that was not is the current one, is about to be, or was replaced when the
\* shell refused the new one.
IconsFreedOnce ==
  /\ \A h \in DOMAIN freed : freed[h] <= 1 /\ (art[h] = "stock" => freed[h] = 0)
  /\ run = "pump" => Live(icon)
  /\ \A h \in DOMAIN art :
       Live(h) => art[h] = "stock" \/ h \in {icon, previous, final} \union refused

\* A notification's link opens at most once, also when a click meant for an
\* earlier balloon is dispatched after a later Notify installed its handler.
HandlerFiresOnce == \A n \in Notes : fired[n] <= 1

\* Every show_notification command is answered: the tray may never come up, be
\* torn down at any moment or lose the icon under the call.  (Each is called
\* once, so that nobody is waiting again and again when nobody waits for ever.)
NotifyReturns == []<>(\A n \in Notes : note[n] \in {"idle", "done"})

\* What the icon is for: an agent that stays offline does not go on showing the
\* connected art.  (Expected to fail: the tray starts with the connected art, the
\* ticker as if it showed the offline one.)
OfflineIsShown ==
  /\ staged
  /\ [](tick = "tooltip" => ~seen)
  /\ <>[](run = "pump" /\ ~stopped)
  => []<>(shown # "connected")
=============================================================================
