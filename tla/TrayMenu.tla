------------------------------ MODULE TrayMenu ------------------------------
(***************************************************************************)
(* The tray menu's Disconnect/Reconnect item over transport.Client.  A      *)
(* click is a goroutine that flips runTrayIcon's own flag and then calls    *)
(* SetPaused: three steps, and nothing keeps two clicks apart.  The label   *)
(* is computed from the flag by the ticker, so what the mentor reads is     *)
(* neither the client's state nor up to date.                               *)
(*                                                                         *)
(* The client is also a library: without the tray, as in its tests, anyone  *)
(* calls Run and SetPaused.  The light agent has one Run and one caller of  *)
(* SetPaused, the goroutines of clicks, which nothing but the point they    *)
(* have reached tells apart: the model counts them.                         *)
(***************************************************************************)
EXTENDS AgentClient

CONSTANTS Main,       \* runLightAgent's call of client.Run
          MaxClicks   \* bound: clicks in flight at once

ASSUME MainAssumption == Main \in Runners
ASSUME ClicksAssumption == MaxClicks \in Nat

VARIABLES
  tray,       \* the client runs under the tray, not as a library
  flag,       \* runTrayIcon's paused
  items,      \* the toggle's label in trayState.items
  computed,   \* the label menuItems() gave the ticker, until it is set
  clicks,     \* how many goroutines are at each point
  overlapped  \* history: the last click shared its time with another

menu     == <<tray, flag, items, computed, clicks, overlapped>>
menuVars == <<vars, menu>>

\* load the flag, store its negation, call SetPaused with it
StoreAt(p)  == IF p THEN "store true" ELSE "store false"
CallAt(p)   == IF p THEN "call true" ELSE "call false"
ClickPoints == {"load"} \union {StoreAt(p) : p \in BOOLEAN} \union {CallAt(p) : p \in BOOLEAN}

LabelFor(p) == IF p THEN "Reconnect" ELSE "Disconnect"
Labels == {LabelFor(p) : p \in BOOLEAN}

AllDone == \A point \in ClickPoints : clicks[point] = 0

MenuInit ==
  /\ Init
  /\ tray \in BOOLEAN
  /\ flag = FALSE /\ items = LabelFor(FALSE) /\ computed = LabelFor(FALSE)
  /\ clicks = [point \in ClickPoints |-> 0]
  /\ overlapped = FALSE

----------------------------------------------------------------------------
(* The click: wndProc starts OnClick in a goroutine of its own.            *)

Move(from, to) ==
  /\ clicks[from] > 0
  /\ clicks' = [clicks EXCEPT ![from] = @ - 1, ![to] = @ + 1]

InFlight == clicks["load"]
            + clicks[StoreAt(TRUE)] + clicks[StoreAt(FALSE)]
            + clicks[CallAt(TRUE)] + clicks[CallAt(FALSE)]

ClickToggle ==
  /\ InFlight < MaxClicks
  /\ clicks' = [clicks EXCEPT !["load"] = @ + 1]
  /\ overlapped' = ~AllDone
  /\ UNCHANGED <<vars, tray, flag, items, computed>>

LoadFlag ==
  /\ Move("load", StoreAt(~flag))
  /\ UNCHANGED <<vars, tray, flag, items, computed, overlapped>>

StoreFlag(p) ==
  /\ Move(StoreAt(p), CallAt(p))
  /\ flag' = p
  /\ UNCHANGED <<vars, tray, items, computed, overlapped>>

Return(p) ==
  /\ clicks[CallAt(p)] > 0
  /\ clicks' = [clicks EXCEPT ![CallAt(p)] = @ - 1]

\* slip: the flag is negated once more instead of passing the local on
CallWithFlag(p) ==
  /\ Return(p)
  /\ SetPaused(~flag)
  /\ UNCHANGED <<tray, flag, items, computed, overlapped>>

CallSetPaused(p) ==
  /\ Return(p)
  /\ SetPaused(p)
  /\ UNCHANGED <<tray, flag, items, computed, overlapped>>

----------------------------------------------------------------------------
(* The ticker's part in the menu; a label that would not change is skipped. *)
(* Once the context is done a tick may still win the ticker's select.      *)

ComputeItems ==
  /\ computed = items /\ computed' = LabelFor(flag)
  /\ UNCHANGED <<vars, tray, flag, items, clicks, overlapped>>

SetMenuItems ==
  /\ items # computed /\ items' = computed
  /\ UNCHANGED <<vars, tray, flag, computed, clicks, overlapped>>

----------------------------------------------------------------------------
ClickStep  == LoadFlag \/ \E p \in BOOLEAN : StoreFlag(p) \/ CallSetPaused(p)
TickerStep == ComputeItems \/ SetMenuItems
Client     == CancelCtx(Main) \/ Loop(Main) \/ Serve(Main)

MenuNext ==
  \/ ~tray /\ Next /\ UNCHANGED menu
  \/ tray /\ (ClickToggle \/ ClickStep \/ TickerStep)
  \/ tray /\ Client /\ UNCHANGED menu

MenuSpec == MenuInit /\ [][MenuNext]_menuVars

\* as in AgentClient; clicked goroutines run, and the ticker ticks until the
\* context of the agent is done, but nobody has to click
MenuFairSpec ==
  /\ MenuSpec
  /\ \A r \in Runners : RunnerFairness(r)
  /\ WF_menuVars(tray /\ LoadFlag)
  /\ \A p \in BOOLEAN : WF_menuVars(tray /\ StoreFlag(p)) /\ WF_menuVars(tray /\ CallSetPaused(p))
  /\ WF_menuVars(tray /\ ~ctxDone[Main] /\ ComputeItems)
  /\ WF_menuVars(tray /\ SetMenuItems)

----------------------------------------------------------------------------
(* Properties.                                                             *)

MenuTypeOK ==
  /\ TypeOK
  /\ {tray, flag, overlapped} \subseteq BOOLEAN
  /\ {items, computed} \subseteq Labels
  /\ clicks \in [ClickPoints -> Nat]

\* What the mentor reads in the menu becomes what the client does.  Clicks that
\* overlap may leave the flag and the client opposite, so that the item does the
\* reverse of what it says; but one click made on its own puts them in agreement
\* again, whatever the ones before it left, and the label follows for as long as
\* the agent is not being stopped.
LabelSettles ==
  <>[](tray /\ AllDone /\ ~overlapped)
    => <>[](ctxDone[Main] \/ items = LabelFor(paused))
=============================================================================
