--------------------------- MODULE TrayMenuProofs ---------------------------
(***************************************************************************)
(* Proofs about TrayMenu: whatever the clicks do, the client under the      *)
(* tray is the client of AgentClient, and keeps all that is proved of it.   *)
(***************************************************************************)
EXTENDS TrayMenu, AgentClientProofs

(* Every step under the tray is one of the client's own, or leaves the      *)
(* client alone: a click reaches it through SetPaused only.                 *)
LEMMA MenuStepIsClientStep ==
  ASSUME [MenuNext]_menuVars
  PROVE  [Next]_vars
<1>1. CASE UNCHANGED menuVars
  BY <1>1 DEF menuVars
<1>2. CASE ~tray /\ Next /\ UNCHANGED menu
  BY <1>2
<1>3. CASE ClickToggle \/ TickerStep
  BY <1>3 DEF ClickToggle, TickerStep, ComputeItems, SetMenuItems
<1>4. CASE LoadFlag \/ \E p \in BOOLEAN : StoreFlag(p)
  BY <1>4 DEF LoadFlag, StoreFlag
<1>5. CASE \E p \in BOOLEAN : CallSetPaused(p)
  BY <1>5 DEF CallSetPaused, Next
<1>6. CASE Client
  BY <1>6, MainAssumption DEF Client, Next
<1> QED
  BY <1>1, <1>2, <1>3, <1>4, <1>5, <1>6 DEF MenuNext, ClickStep

(* The light agent's client implements the client as a library: every       *)
(* theorem about Spec holds of MenuSpec.                                    *)
THEOREM MenuImplementsClient == MenuSpec => Spec
<1>1. MenuInit => Init
  BY DEF MenuInit
<1>2. [MenuNext]_menuVars => [Next]_vars
  BY MenuStepIsClientStep
<1> QED
  BY <1>1, <1>2, PTL DEF MenuSpec, Spec

----------------------------------------------------------------------------
(* The clicks.                                                             *)

(* The label menuItems gives the toggle is one of its two texts.            *)
LEMMA LabelsAreTwo == \A p : LabelFor(p) \in Labels
BY DEF LabelFor, Labels

(* A click moves through load, store and call, which are all its points.    *)
LEMMA ThesePoints ==
  /\ "load" \in ClickPoints
  /\ \A p \in BOOLEAN : StoreAt(p) \in ClickPoints /\ CallAt(p) \in ClickPoints
  /\ \A p, q \in BOOLEAN : "load" # StoreAt(p) /\ StoreAt(p) # CallAt(q)
BY DEF ClickPoints, StoreAt, CallAt

(* A goroutine that moves on is not counted twice, nor below zero.          *)
LEMMA MoveKeepsClicks ==
  ASSUME clicks \in [ClickPoints -> Nat], NEW from \in ClickPoints,
         NEW to \in ClickPoints, from # to, Move(from, to)
  PROVE  clicks' \in [ClickPoints -> Nat]
BY DEF Move

(* Type correctness of the menu and of the client under it.                 *)
THEOREM MenuTypeCorrect == MenuSpec => []MenuTypeOK
<1> DEFINE MenuOK == /\ {tray, flag, overlapped} \subseteq BOOLEAN
                     /\ {items, computed} \subseteq Labels
                     /\ clicks \in [ClickPoints -> Nat]
<1>1. MenuInit => MenuOK
  <2> SUFFICES ASSUME MenuInit PROVE MenuOK
    OBVIOUS
  <2>1. tray \in BOOLEAN /\ flag \in BOOLEAN /\ overlapped \in BOOLEAN
    BY DEF MenuInit
  <2>2. items \in Labels /\ computed \in Labels
    BY LabelsAreTwo DEF MenuInit
  <2>3. clicks \in [ClickPoints -> Nat]
    BY DEF MenuInit
  <2> QED BY <2>1, <2>2, <2>3
<1>2. MenuOK /\ [MenuNext]_menuVars => MenuOK'
  <2> SUFFICES ASSUME MenuOK, [MenuNext]_menuVars PROVE MenuOK'
    OBVIOUS
  <2>1. CASE UNCHANGED menu
    BY <2>1 DEF menu
  <2>2. CASE ClickToggle
    <3>1. clicks' = [clicks EXCEPT !["load"] = @ + 1]
      BY <2>2 DEF ClickToggle
    <3>3. clicks' \in [ClickPoints -> Nat]
      BY <3>1, ThesePoints
    <3>2. overlapped' \in BOOLEAN
      BY <2>2 DEF ClickToggle, AllDone
    <3> QED BY <2>2, <3>2, <3>3 DEF ClickToggle
  <2>3. CASE LoadFlag
    <3>1. clicks' \in [ClickPoints -> Nat]
      BY <2>3, ThesePoints, MoveKeepsClicks DEF LoadFlag
    <3> QED BY <2>3, <3>1 DEF LoadFlag
  <2>4. ASSUME NEW p \in BOOLEAN, StoreFlag(p) PROVE MenuOK'
    <3>1. clicks' \in [ClickPoints -> Nat]
      BY <2>4, ThesePoints, MoveKeepsClicks DEF StoreFlag
    <3> QED BY <2>4, <3>1 DEF StoreFlag
  <2>5. ASSUME NEW p \in BOOLEAN, CallSetPaused(p) PROVE MenuOK'
    <3>1. clicks' \in [ClickPoints -> Nat]
      BY <2>5, ThesePoints DEF CallSetPaused, Return
    <3> QED BY <2>5, <3>1 DEF CallSetPaused
  <2>6. CASE TickerStep
    BY <2>6, LabelsAreTwo DEF TickerStep, ComputeItems, SetMenuItems
  <2> QED
    BY <2>1, <2>2, <2>3, <2>4, <2>5, <2>6 DEF MenuNext, ClickStep, menuVars
<1>3. MenuSpec => []TypeOK
  BY MenuImplementsClient, TypeCorrect, PTL
<1>4. TypeOK /\ MenuOK => MenuTypeOK
  BY DEF MenuTypeOK
<1> QED
  BY <1>1, <1>2, <1>3, <1>4, PTL DEF MenuSpec
=============================================================================
