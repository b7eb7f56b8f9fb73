--------------------------- MODULE TrayIconProofs ---------------------------
(***************************************************************************)
(* Proofs about TrayIcon, for any number of notifications and of handles.   *)
(* IconInv says who is to destroy which handle while Run, the ticker and    *)
(* Notify share the icon, and that the flags tell the stock icon from what  *)
(* was loaded from a file; HandlerInv when a note's handler may still run.          *)
(***************************************************************************)
EXTENDS TrayIcon, SequenceTheorems, TLAPS

\* one party owns each handle that is to be destroyed: the ticker the replaced
\* one, which it destroys only if the shell took the new one and so before Run
\* deleted the icon, and Run the last
IconInv ==
  /\ run = "create" => ~published /\ art = <<>>
  /\ published => icon # 0
  /\ run \notin {"create", "ended"} => published /\ Live(icon)
  /\ inTray => run \in {"pump", "delete"}
  /\ run # "free" => final = 0
  /\ run = "free" => Live(final)
  /\ tick \in {"modify", "destroy"} => published /\ previous # 0 /\ previous # icon
  /\ tick \notin {"modify", "destroy"} => previous = 0
  /\ tick = "modify" /\ run \in {"add", "pump", "delete"} => Live(previous)
  /\ tick = "destroy" => Live(previous) /\ previous # final
  /\ icon # 0     => (owned <=> art[icon] # "stock")
  /\ previous # 0 => (previousOwned <=> art[previous] # "stock")
  /\ final # 0    => (finalOwned <=> art[final] # "stock")

\* a handler is installed once, before it ever fired
HandlerInv ==
  \A n \in Notes :
    /\ note[n] \in {"idle", "wait"} => fired[n] = 0 /\ handler # n
    /\ handler = n => fired[n] = 0
    /\ fired[n] <= 1

----------------------------------------------------------------------------
(* A step is one of Run on its window thread, of the 3 s ticker, of a Notify,*)
(* or of the mentor.                                                        *)
LEMMA NextCases ==
  ASSUME Next
  PROVE  \/ CreateWindow \/ CreateFails \/ AddIcon \/ AddFails \/ PumpEnds
         \/ DeleteIcon \/ ReadFinalIcon \/ FreeFinalIcon \/ DispatchClick \/ DispatchHide
         \/ Quit \/ Cancel
         \/ ReadStats \/ SetTooltip \/ IconNotSet
         \/ SwapIcon \/ ModifyIcon \/ ModifyFails \/ DestroyPrevious \/ TickerEnds
         \/ \E n \in Notes : \/ Begin(n) \/ InstallHandler(n) \/ TimesOut(n)
                             \/ BuildNotifyNID(n) \/ ShowBalloon(n) \/ NotifyFails(n)
         \/ \E how \in {"click", "hide"} : BalloonEnds(how)
BY DEF Next, RunSteps, TickSteps, NotifySteps

(* LoadImageW gives a handle nobody had before and leaves the others alone. *)
LEMMA LoadAddsHandle ==
  ASSUME TypeOK, NEW what \in Arts, Load(what)
  PROVE  /\ art' \in Seq(Arts) /\ freed' \in Seq(Nat) /\ Len(art') <= MaxLoads
         /\ Len(art') = Len(art) + 1 /\ Len(freed') = Len(art')
         /\ icon' = Len(art') /\ icon' \notin DOMAIN art
         /\ DOMAIN art' = 1 .. Len(art) + 1 /\ DOMAIN art = 1 .. Len(art)
         /\ DOMAIN freed' = DOMAIN art' /\ DOMAIN freed = DOMAIN art
         /\ \A h \in DOMAIN art : /\ freed'[h] = freed[h] /\ (Live(h)' <=> Live(h))
                                  /\ art'[h] = art[h]
         /\ freed'[icon'] = 0 /\ Live(icon)' /\ art'[icon'] = what
<1>1. /\ art \in Seq(Arts) /\ freed \in Seq(Nat) /\ Len(freed) = Len(art) /\ Len(art) \in Nat
      /\ Len(art) < MaxLoads /\ MaxLoads \in Nat
      /\ art' = Append(art, what) /\ freed' = Append(freed, 0) /\ icon' = Len(art) + 1
  BY LoadsAssumption DEF TypeOK, Load
<1>2. /\ art' \in Seq(Arts) /\ Len(art') = Len(art) + 1
      /\ DOMAIN art' = 1 .. Len(art) + 1 /\ DOMAIN art = 1 .. Len(art)
      /\ \A h \in 1 .. Len(art) : art'[h] = art[h]
      /\ art'[Len(art) + 1] = what
  BY <1>1
<1>3. /\ freed' \in Seq(Nat) /\ Len(freed') = Len(art) + 1
      /\ DOMAIN freed' = 1 .. Len(art) + 1 /\ DOMAIN freed = 1 .. Len(art)
      /\ \A h \in 1 .. Len(art) : freed'[h] = freed[h]
      /\ freed'[Len(art) + 1] = 0
  BY <1>1
<1>4. Len(art') <= MaxLoads /\ icon' \notin 1 .. Len(art) /\ icon' \in 1 .. Len(art) + 1
  BY <1>1, <1>2
<1>5. \A h \in DOMAIN art : h \in DOMAIN art'
  BY <1>1, <1>2
<1> QED
  BY <1>1, <1>2, <1>3, <1>4, <1>5 DEF Live

(* DestroyIcon frees its handle if that was owned and leaves the others alone. *)
LEMMA DestroyFrees ==
  ASSUME TypeOK, NEW h, NEW owns \in BOOLEAN, Live(h), DestroyIfOwned(h, owns), UNCHANGED art
  PROVE  /\ freed' \in Seq(Nat) /\ Len(freed') = Len(art)
         /\ h \in DOMAIN art /\ DOMAIN freed' = DOMAIN art /\ DOMAIN freed = DOMAIN art
         /\ freed'[h] = IF owns THEN 1 ELSE 0
         /\ \A g \in DOMAIN art \ {h} : freed'[g] = freed[g]
         /\ \A g : g # h => (Live(g)' <=> Live(g))
         /\ owns => ~Live(h)'
<1>1. /\ freed \in Seq(Nat) /\ Len(freed) = Len(art) /\ Len(art) \in Nat
      /\ DOMAIN art = 1 .. Len(art) /\ DOMAIN freed = 1 .. Len(art)
      /\ h \in 1 .. Len(art) /\ h # 0 /\ freed[h] = 0
      /\ freed' = IF owns THEN [freed EXCEPT ![h] = freed[h] + 1] ELSE freed
  BY DEF TypeOK, Live, DestroyIfOwned
<1>2. freed' \in Seq(Nat) /\ Len(freed') = Len(freed)
  BY <1>1, ExceptSeq
<1>3. /\ DOMAIN freed' = DOMAIN freed /\ freed'[h] = IF owns THEN 1 ELSE 0
      /\ \A g \in DOMAIN freed \ {h} : freed'[g] = freed[g]
  BY <1>1
<1> QED
  BY <1>1, <1>2, <1>3 DEF Live

(* A new handle is one more number for everybody who holds one.             *)
LEMMA LoadKeepsTypes ==
  ASSUME TypeOK, NEW what \in Arts, Load(what)
  PROVE  /\ art' \in Seq(Arts) /\ Len(art') <= MaxLoads
         /\ freed' \in Seq(Nat) /\ Len(freed') = Len(art')
         /\ {icon', icon, final, previous} \subseteq 0 .. Len(art')
         /\ refused' = refused /\ refused \subseteq DOMAIN art'
         /\ carried \in [Notes -> 0 .. Len(art')]
<1>1. Len(art) \in Nat /\ Len(art') = Len(art) + 1 /\ icon' = Len(art') /\ refused' = refused
  BY LoadAddsHandle DEF TypeOK, Load
<1>2. 0 .. Len(art) \subseteq 0 .. Len(art') /\ Len(art') \in 0 .. Len(art')
  BY <1>1
<1>3. {icon, final, previous} \subseteq 0 .. Len(art) /\ carried \in [Notes -> 0 .. Len(art)]
      /\ refused \subseteq DOMAIN art
  BY DEF TypeOK
<1>4. DOMAIN art \subseteq DOMAIN art'
  BY <1>1, LoadAddsHandle
<1>5. carried \in [Notes -> 0 .. Len(art')]
  BY <1>2, <1>3
<1> QED
  BY <1>1, <1>2, <1>3, <1>4, <1>5, LoadAddsHandle

(* A live handle shows the art of its file.                                 *)
LEMMA LiveHasArt ==
  ASSUME TypeOK, NEW h, Live(h)
  PROVE  art[h] \in Arts
<1>1. art \in Seq(Arts) /\ h \in 1 .. Len(art)
  BY DEF TypeOK, Live
<1> QED
  BY <1>1, ElementOfSeq

(* What leaves Run, the ticker and the handles alone keeps who owns which.  *)
LEMMA IconKept ==
  ASSUME IconInv,
         UNCHANGED <<run, published, final, finalOwned, icon, owned, art, freed, inTray,
                     tick, previous, previousOwned>>
  PROVE  IconInv'
BY DEF IconInv, Live

(* Handles stay the numbers of loads, and loads within the bound.           *)
THEOREM TypeInvariant == Spec => [](TypeOK /\ IconInv)
<1>1. Init => TypeOK /\ IconInv
  <2> SUFFICES ASSUME Init PROVE TypeOK /\ IconInv
    OBVIOUS
  <2>1. TypeOK
    <3>1. Len(art) = 0 /\ Len(freed) = 0
          /\ art \in Seq(Arts) /\ freed \in Seq(Nat) /\ messages \in Seq({"click", "hide"})
      BY EmptySeq DEF Init
    <3>2. 0 \in 0 .. Len(art) /\ Len(art) <= MaxLoads
      BY <3>1, LoadsAssumption
    <3>3. {icon, final, previous} \subseteq 0 .. Len(art) /\ carried \in [Notes -> 0 .. Len(art)]
      BY <3>2 DEF Init
    <3>4. /\ run \in RunPoints /\ tick \in TickPoints
          /\ {published, quit, stopped, staged, inTray, seen, lastConnected} \subseteq BOOLEAN
          /\ owned \in BOOLEAN /\ previousOwned \in BOOLEAN /\ finalOwned \in BOOLEAN
          /\ shown \in Arts /\ refused \subseteq DOMAIN art
      BY DEF Init, Arts, RunPoints, TickPoints
    <3>5. /\ note \in [Notes -> NotePoints] /\ fired \in [Notes -> Nat]
          /\ balloon \in Notes \union {None} /\ handler \in Notes \union {None}
      BY DEF Init, NotePoints
    <3> QED
      BY <3>1, <3>2, <3>3, <3>4, <3>5 DEF TypeOK
  <2>2. IconInv
    BY DEF Init, IconInv
  <2> QED
    BY <2>1, <2>2
<1>2. TypeOK /\ IconInv /\ [Next]_vars => (TypeOK /\ IconInv)'
  <2> SUFFICES ASSUME TypeOK, IconInv, [Next]_vars
               PROVE  TypeOK' /\ IconInv'
    OBVIOUS
  <2> USE NoneAssumption, LoadsAssumption
      DEF RunPoints, TickPoints, NotePoints, runner, image, shell, ticker, notify, user, control
  <2>1. CASE CreateWindow
    <3>1. PICK what \in Arts : Load(what) /\ owned' = (what # "stock")
      BY <2>1 DEF CreateWindow, Arts
    <3>2. /\ owned' \in BOOLEAN /\ published' \in BOOLEAN /\ run' \in RunPoints
          /\ UNCHANGED <<final, finalOwned, control, shell, ticker, notify, user, fired>>
      BY <2>1, <3>1 DEF CreateWindow
    <3>3. /\ art' \in Seq(Arts) /\ Len(art') <= MaxLoads
          /\ freed' \in Seq(Nat) /\ Len(freed') = Len(art')
          /\ {icon', final, previous} \subseteq 0 .. Len(art') /\ refused' \subseteq DOMAIN art'
          /\ carried \in [Notes -> 0 .. Len(art')]
      BY <3>1, LoadKeepsTypes
    <3>4. TypeOK'
      BY <3>2, <3>3 DEF TypeOK
    <3>5. Live(icon)' /\ icon' # 0 /\ art'[icon'] = what
      BY <3>1, LoadAddsHandle DEF TypeOK
    <3>6. Live(icon)' /\ icon' # 0 /\ (owned' <=> art'[icon'] # "stock")
      BY <3>1, <3>5
    <3>7. run = "create" /\ run' = "add" /\ published' = TRUE /\ tick \notin {"modify", "destroy"}
          /\ previous = 0 /\ final = 0
          /\ UNCHANGED <<final, inTray, tick, previous>>
      BY <2>1 DEF CreateWindow, IconInv
    <3>8. IconInv'
      BY <3>6, <3>7 DEF IconInv
    <3> QED
      BY <3>4, <3>8
  <2>2. CASE CreateFails \/ AddFails \/ PumpEnds
    BY <2>2 DEF CreateFails, AddFails, PumpEnds, TypeOK, IconInv, Live
  <2>3. CASE AddIcon
    BY <2>3 DEF AddIcon, TypeOK, IconInv, Live
  <2>4. CASE DeleteIcon
    BY <2>4 DEF DeleteIcon, TypeOK, IconInv, Live, Arts
  <2>5. CASE ReadFinalIcon
    BY <2>5 DEF ReadFinalIcon, TypeOK, IconInv, Live
  <2>6. CASE FreeFinalIcon
    <3>1. Live(final) /\ finalOwned \in BOOLEAN /\ DestroyIfOwned(final, finalOwned) /\ UNCHANGED art
      BY <2>6 DEF FreeFinalIcon, IconInv, TypeOK
    <3>2. freed' \in Seq(Nat) /\ Len(freed') = Len(art)
      BY <3>1, DestroyFrees
    <3>3. /\ finalOwned' \in BOOLEAN /\ final' = 0 /\ run' \in RunPoints
          /\ UNCHANGED <<published, control, icon, owned, art, refused, shell, ticker, notify, user, fired>>
      BY <2>6 DEF FreeFinalIcon
    <3>4. TypeOK'
      BY <3>2, <3>3 DEF TypeOK
    <3>5. IconInv'
      BY <2>6, <3>1, DestroyFrees DEF FreeFinalIcon, IconInv, TypeOK
    <3> QED
      BY <3>4, <3>5
  <2>7. CASE DispatchClick
    BY <2>7 DEF DispatchClick, TypeOK, IconInv, Live
  <2>8. CASE DispatchHide
    BY <2>8 DEF DispatchHide, TypeOK, IconInv, Live
  <2>9. CASE Quit \/ Cancel
    <3>1. quit' \in BOOLEAN /\ stopped' \in BOOLEAN
      BY <2>9 DEF Quit, Cancel, TypeOK
    <3> QED
      BY <2>9, <3>1 DEF Quit, Cancel, TypeOK, IconInv, Live
  <2>10. CASE ReadStats \/ IconNotSet \/ TickerEnds
    BY <2>10 DEF ReadStats, IconNotSet, TickerEnds, TypeOK, IconInv, Live
  <2>11. CASE SetTooltip
    <3>1. /\ shown' \in Arts
          /\ tick' \in {"idle", "swap"} /\ seen' \in BOOLEAN /\ lastConnected' \in BOOLEAN
      BY <2>11, LiveHasArt DEF SetTooltip, TypeOK
    <3>2. tick \notin {"modify", "destroy"}
          /\ UNCHANGED <<runner, control, image, inTray, previous, previousOwned, notify, user, fired>>
      BY <2>11 DEF SetTooltip
    <3>3. TypeOK'
      BY <3>1, <3>2 DEF TypeOK
    <3>4. IconInv'
      BY <3>1, <3>2 DEF IconInv, Live
    <3> QED
      BY <3>3, <3>4
  <2>12. CASE SwapIcon
    <3>1. PICK what \in Arts \ {"stock"} : Load(what)
      BY <2>12 DEF SwapIcon, Arts
    <3>2. TypeOK'
      BY <2>12, <3>1, LoadKeepsTypes DEF SwapIcon, TypeOK
    <3>3. published /\ icon \in DOMAIN art /\ icon # 0 /\ run # "create"
          /\ tick' = "modify" /\ previous' = icon /\ previousOwned' = owned /\ owned' = TRUE
          /\ UNCHANGED <<run, published, final, finalOwned, inTray>>
      BY <2>12 DEF SwapIcon, TypeOK, IconInv
    <3>4. Live(icon)' /\ icon' # 0 /\ icon' # icon
          /\ \A h \in DOMAIN art : /\ Live(h) => h \in DOMAIN art' /\ freed'[h] = 0
                                   /\ art'[h] = art[h]
          /\ art'[icon'] # "stock"
      BY <3>1, <3>3, LoadAddsHandle DEF Live
    <3>5. run \notin {"create", "ended"} => Live(previous)'
      BY <3>3, <3>4 DEF IconInv, Live
    <3>6. run = "free" => Live(final)'
      BY <3>3, <3>4 DEF IconInv, Live
    <3>7. /\ previous' # 0 => (previousOwned' <=> art'[previous'] # "stock")
          /\ final' # 0 => (finalOwned' <=> art'[final'] # "stock")
      <4>1. final # 0 => final \in DOMAIN art
        BY DEF TypeOK, IconInv, Live
      <4>2. /\ final # 0 => (finalOwned <=> art[final] # "stock")
            /\ final # 0 => art'[final] = art[final]
        <5>1. final # 0 => (finalOwned <=> art[final] # "stock")
          BY DEF IconInv
        <5>2. final # 0 => art'[final] = art[final]
          BY <3>4, <4>1
        <5> QED
          BY <5>1, <5>2
      <4>3. (owned <=> art[icon] # "stock") /\ art'[icon] = art[icon]
        BY <3>3, <3>4 DEF IconInv
      <4>4. previous' # 0 => (previousOwned' <=> art'[previous'] # "stock")
        BY <3>3, <4>3
      <4>5. final' # 0 => (finalOwned' <=> art'[final'] # "stock")
        BY <3>3, <4>2
      <4> QED
        BY <4>4, <4>5
    <3>8. IconInv'
      BY <3>3, <3>4, <3>5, <3>6, <3>7 DEF IconInv
    <3> QED
      BY <3>2, <3>8
  <2>13. CASE ModifyIcon
    BY <2>13 DEF ModifyIcon, TypeOK, IconInv, Live
  <2>14. CASE ModifyFails
    <3>1. TypeOK'
      <4>1. previous \in DOMAIN art
        BY <2>14 DEF ModifyFails, TypeOK, IconInv
      <4>2. refused' \subseteq DOMAIN art
        BY <2>14, <4>1 DEF ModifyFails, TypeOK
      <4>3. /\ previousOwned' \in BOOLEAN /\ previous' = 0 /\ tick' \in TickPoints
            /\ UNCHANGED <<runner, control, icon, owned, art, freed, shell, seen, lastConnected,
                          notify, user, fired>>
        BY <2>14 DEF ModifyFails
      <4> QED
        BY <4>2, <4>3 DEF TypeOK
    <3>2. IconInv'
      BY <2>14 DEF ModifyFails, IconInv, Live
    <3> QED
      BY <3>1, <3>2
  <2>15. CASE DestroyPrevious
    <3>1. Live(previous) /\ previousOwned \in BOOLEAN
          /\ DestroyIfOwned(previous, previousOwned) /\ UNCHANGED art
      BY <2>15 DEF DestroyPrevious, IconInv, TypeOK
    <3>2. freed' \in Seq(Nat) /\ Len(freed') = Len(art)
      BY <3>1, DestroyFrees
    <3>3. /\ previousOwned' \in BOOLEAN /\ previous' = 0 /\ tick' \in TickPoints
          /\ UNCHANGED <<runner, control, icon, owned, art, refused, shell, seen, lastConnected,
                        notify, user, fired>>
      BY <2>15 DEF DestroyPrevious
    <3>4. TypeOK'
      BY <3>2, <3>3 DEF TypeOK
    <3>5. IconInv'
      BY <2>15, <3>1, DestroyFrees DEF DestroyPrevious, IconInv, TypeOK
    <3> QED
      BY <3>4, <3>5
  <2>16. ASSUME NEW n \in Notes,
                Begin(n) \/ InstallHandler(n) \/ TimesOut(n) \/ BuildNotifyNID(n) \/ NotifyFails(n)
         PROVE  TypeOK' /\ IconInv'
    <3>1. note' \in [Notes -> NotePoints] /\ carried' \in [Notes -> 0 .. Len(art)]
          /\ handler' \in Notes \union {None}
      <4>1. CASE Begin(n) \/ TimesOut(n)
        BY <4>1 DEF Begin, TimesOut, TypeOK
      <4>2. CASE InstallHandler(n)
        BY <4>2 DEF InstallHandler, TypeOK
      <4>3. CASE BuildNotifyNID(n)
        BY <4>3 DEF BuildNotifyNID, TypeOK
      <4>4. CASE NotifyFails(n)
        <5>1. 0 \in 0 .. Len(art)
          BY DEF TypeOK
        <5> QED
          BY <4>4, <5>1 DEF NotifyFails, TypeOK
      <4> QED
        BY <2>16, <4>1, <4>2, <4>3, <4>4
    <3>2. UNCHANGED <<runner, control, image, shell, ticker, user, fired>>
      BY <2>16 DEF Begin, InstallHandler, TimesOut, BuildNotifyNID, NotifyFails
    <3> QED
      BY <3>1, <3>2, IconKept DEF TypeOK
  <2>17. ASSUME NEW n \in Notes, ShowBalloon(n) PROVE TypeOK' /\ IconInv'
    <3>1. note' \in [Notes -> NotePoints] /\ carried' \in [Notes -> 0 .. Len(art)]
      <4>1. 0 \in 0 .. Len(art)
        BY DEF TypeOK
      <4> QED
        BY <2>17, <4>1 DEF ShowBalloon, TypeOK
    <3>2. shown' \in Arts
      BY <2>17, LiveHasArt DEF ShowBalloon
    <3>4. messages' \in Seq({"click", "hide"})
      <4>1. messages \in Seq({"click", "hide"}) /\ messages' \in {messages, Append(messages, "hide")}
        BY <2>17 DEF ShowBalloon, TypeOK
      <4> QED
        BY <4>1, AppendProperties
    <3>3. balloon' = n /\ UNCHANGED <<runner, control, image, inTray, ticker, handler, fired>>
      BY <2>17 DEF ShowBalloon
    <3> QED
      BY <3>1, <3>2, <3>3, <3>4, IconKept DEF TypeOK
  <2>18. ASSUME NEW how \in {"click", "hide"}, BalloonEnds(how) PROVE TypeOK' /\ IconInv'
    BY <2>18 DEF BalloonEnds, TypeOK, IconInv, Live
  <2>19. CASE UNCHANGED vars
    BY <2>19 DEF vars, TypeOK, IconInv, Live
  <2> QED
    BY <2>1, <2>2, <2>3, <2>4, <2>5, <2>6, <2>7, <2>8, <2>9, <2>10, <2>11, <2>12,
       <2>13, <2>14, <2>15, <2>16, <2>17, <2>18, <2>19, NextCases
<1> QED
  BY <1>1, <1>2, PTL DEF Spec

(* Type correctness, and each handle named by anybody one that was loaded.  *)
THEOREM TypeCorrect == Spec => []TypeOK
BY TypeInvariant, PTL

----------------------------------------------------------------------------
(* Nothing is freed twice, the stock icon never, and nothing that is the     *)
(* tray's own is lost.                                                       *)
THEOREM IconsAreFreedOnce == Spec => []IconsFreedOnce
<1>1. Init => IconsFreedOnce
  <2> SUFFICES ASSUME Init PROVE IconsFreedOnce
    OBVIOUS
  <2>1. art = <<>> /\ freed = <<>> /\ run = "create"
    BY DEF Init
  <2>2. DOMAIN art = {} /\ DOMAIN freed = {}
    BY <2>1
  <2> QED
    BY <2>1, <2>2 DEF IconsFreedOnce
<1>2. TypeOK /\ IconInv /\ TypeOK' /\ IconInv' /\ IconsFreedOnce /\ [Next]_vars => IconsFreedOnce'
  <2> SUFFICES ASSUME TypeOK, IconInv, TypeOK', IconInv', IconsFreedOnce, [Next]_vars
               PROVE  IconsFreedOnce'
    OBVIOUS
  <2> USE DEF runner, image, shell, ticker, notify, user, control
  <2>0. DOMAIN freed = DOMAIN art /\ 0 \notin DOMAIN art
    BY DEF TypeOK
  <2>1. (run = "pump" => Live(icon))'
    BY DEF IconInv
  <2>2. ASSUME UNCHANGED <<art, freed>>, {icon, previous, final} \union refused \subseteq
                 {icon', previous', final', 0} \union refused'
        PROVE  IconsFreedOnce'
    BY <2>0, <2>1, <2>2 DEF IconsFreedOnce, Live
  <2>3. ASSUME NEW what \in Arts, Load(what), final' = final,
               icon # 0 => previous' = icon, previous = 0
        PROVE  IconsFreedOnce'
    <3>1. refused' = refused
      BY <2>3 DEF Load
    <3>2. \A h \in DOMAIN freed' : freed'[h] <= 1 /\ (art'[h] = "stock" => freed'[h] = 0)
      <4> SUFFICES ASSUME NEW h \in DOMAIN freed'
                   PROVE  freed'[h] <= 1 /\ (art'[h] = "stock" => freed'[h] = 0)
        OBVIOUS
      <4>1. CASE h \in DOMAIN art
        BY <2>0, <2>3, <4>1, LoadAddsHandle DEF IconsFreedOnce
      <4>2. CASE h = icon'
        BY <2>3, <4>2, LoadAddsHandle
      <4>3. h \in DOMAIN art \/ h = icon'
        <5>1. /\ Len(art) \in Nat /\ icon' = Len(art) + 1 /\ DOMAIN art = 1 .. Len(art)
              /\ DOMAIN freed' = 1 .. Len(art) + 1
          BY <2>3, LoadAddsHandle DEF TypeOK, Load
        <5> QED
          BY <5>1
      <4> QED
        BY <4>1, <4>2, <4>3
    <3>3. ASSUME NEW h \in DOMAIN art', Live(h)'
          PROVE  art'[h] = "stock" \/ h \in {icon', previous', final'} \union refused'
      <4>1. CASE h \in DOMAIN art
        BY <2>0, <2>3, <3>1, <3>3, <4>1, LoadAddsHandle DEF IconsFreedOnce
      <4>2. CASE h \notin DOMAIN art
        <5>1. Len(art) \in Nat /\ icon' = Len(art) + 1
          BY <2>3 DEF TypeOK, Load
        <5>2. DOMAIN art' = 1 .. Len(art) + 1 /\ DOMAIN art = 1 .. Len(art)
          BY <2>3, LoadAddsHandle
        <5>3. h \in 1 .. Len(art) + 1 /\ h \notin 1 .. Len(art)
          BY <3>3, <4>2, <5>2
        <5> QED
          BY <5>1, <5>3
      <4> QED
        BY <4>1, <4>2
    <3> QED
      BY <2>1, <3>2, <3>3 DEF IconsFreedOnce
  <2>4. ASSUME NEW h, NEW owns \in BOOLEAN, Live(h), DestroyIfOwned(h, owns),
               owns <=> art[h] # "stock", UNCHANGED <<art, icon, refused>>,
               {previous, final} \subseteq {previous', final', h, 0}
        PROVE  IconsFreedOnce'
    <3>1. \A g \in DOMAIN freed' : freed'[g] <= 1 /\ (art'[g] = "stock" => freed'[g] = 0)
      BY <2>4, DestroyFrees DEF IconsFreedOnce
    <3>2. \A g \in DOMAIN art' :
            Live(g)' => art'[g] = "stock" \/ g \in {icon', previous', final'} \union refused'
      BY <2>0, <2>4, DestroyFrees DEF IconsFreedOnce
    <3> QED
      BY <2>1, <3>1, <3>2 DEF IconsFreedOnce
  <2>5. CASE CreateWindow
    <3>1. (Load("connected") \/ Load("stock")) /\ final' = final /\ previous' = previous
      BY <2>5 DEF CreateWindow
    <3>2. previous = 0
      BY <2>5 DEF CreateWindow, IconInv
    <3>3. icon = 0
      <4>1. Len(art) = 0
        BY <2>5, EmptySeq DEF CreateWindow, IconInv
      <4>2. icon \in 0 .. Len(art)
        BY DEF TypeOK
      <4> QED
        BY <4>1, <4>2
    <3> QED
      BY <2>3, <3>1, <3>2, <3>3 DEF Arts
  <2>6. CASE SwapIcon
    <3>1. PICK what \in Arts : Load(what)
      BY <2>6 DEF SwapIcon, Arts
    <3> QED
      BY <2>3, <2>6, <3>1 DEF SwapIcon, IconInv
  <2>7. CASE ReadFinalIcon
    BY <2>2, <2>7 DEF ReadFinalIcon, IconInv
  <2>8. CASE FreeFinalIcon
    <3>1. /\ Live(final) /\ finalOwned \in BOOLEAN /\ DestroyIfOwned(final, finalOwned)
          /\ final # 0 /\ (finalOwned <=> art[final] # "stock")
      BY <2>0, <2>8 DEF FreeFinalIcon, IconInv, TypeOK, Live
    <3> QED
      BY <2>4, <2>8, <3>1 DEF FreeFinalIcon
  <2>9. CASE ModifyFails
    BY <2>2, <2>9 DEF ModifyFails
  <2>10. CASE DestroyPrevious
    <3>1. /\ Live(previous) /\ previousOwned \in BOOLEAN
          /\ DestroyIfOwned(previous, previousOwned)
          /\ previous # 0 /\ (previousOwned <=> art[previous] # "stock")
      BY <2>0, <2>10 DEF DestroyPrevious, IconInv, TypeOK, Live
    <3> QED
      BY <2>4, <2>10, <3>1 DEF DestroyPrevious
  <2>11. CASE \/ CreateFails \/ AddIcon \/ AddFails \/ PumpEnds \/ DeleteIcon
              \/ DispatchClick \/ DispatchHide \/ Quit \/ Cancel
              \/ \E how \in {"click", "hide"} : BalloonEnds(how)
    BY <2>2, <2>11 DEF CreateFails, AddIcon, AddFails, PumpEnds, DeleteIcon,
                       DispatchClick, DispatchHide, Quit, Cancel, BalloonEnds
  <2>12. CASE ReadStats \/ SetTooltip \/ IconNotSet \/ ModifyIcon \/ TickerEnds
    BY <2>2, <2>12 DEF ReadStats, SetTooltip, IconNotSet, ModifyIcon, TickerEnds
  <2>13. ASSUME NEW n \in Notes, \/ Begin(n) \/ InstallHandler(n) \/ TimesOut(n)
                                 \/ BuildNotifyNID(n) \/ ShowBalloon(n) \/ NotifyFails(n)
         PROVE  IconsFreedOnce'
    BY <2>2, <2>13 DEF Begin, InstallHandler, TimesOut, BuildNotifyNID, ShowBalloon, NotifyFails
  <2>14. CASE UNCHANGED vars
    BY <2>2, <2>14 DEF vars
  <2> QED
    BY <2>5, <2>6, <2>7, <2>8, <2>9, <2>10, <2>11, <2>12, <2>13, <2>14, NextCases
<1> QED
  BY <1>1, <1>2, TypeInvariant, PTL DEF Spec

----------------------------------------------------------------------------
(* A note's handler is installed before it fires and removed as it does.    *)
THEOREM HandlerInvariant == Spec => []HandlerInv
<1>1. Init => HandlerInv
  <2> SUFFICES ASSUME Init, NEW n \in Notes
               PROVE  fired[n] = 0 /\ handler # n
    BY DEF HandlerInv
  <2> QED
    BY NoneAssumption DEF Init
<1>2. TypeOK /\ HandlerInv /\ [Next]_vars => HandlerInv'
  <2> SUFFICES ASSUME TypeOK, HandlerInv, [Next]_vars
               PROVE  HandlerInv'
    OBVIOUS
  <2> USE NoneAssumption
      DEF runner, image, shell, ticker, notify, user, control
  <2>1. ASSUME UNCHANGED <<handler, fired>>,
               \A n \in Notes : note'[n] \in {"idle", "wait"} => note[n] \in {"idle", "wait"}
        PROVE  HandlerInv'
    BY <2>1 DEF HandlerInv
  <2>2. ASSUME NEW n \in Notes, Begin(n) \/ TimesOut(n) \/ BuildNotifyNID(n) \/ ShowBalloon(n) \/ NotifyFails(n)
        PROVE  HandlerInv'
    BY <2>1, <2>2 DEF Begin, TimesOut, BuildNotifyNID, ShowBalloon, NotifyFails, TypeOK
  <2>3. ASSUME NEW n \in Notes, InstallHandler(n) PROVE HandlerInv'
    BY <2>3 DEF InstallHandler, HandlerInv, TypeOK
  <2>4. CASE DispatchClick
    <3>1. \A n \in Notes : fired'[n] = IF n = handler THEN fired[n] + 1 ELSE fired[n]
      BY <2>4 DEF DispatchClick
    <3>2. handler' = None /\ note' = note
      BY <2>4 DEF DispatchClick
    <3> QED
      BY <3>1, <3>2 DEF HandlerInv, TypeOK
  <2>5. CASE DispatchHide
    BY <2>5 DEF DispatchHide, HandlerInv
  <2>6. CASE \/ CreateWindow \/ CreateFails \/ AddIcon \/ AddFails \/ PumpEnds \/ DeleteIcon
             \/ ReadFinalIcon \/ FreeFinalIcon \/ Quit \/ Cancel
             \/ \E how \in {"click", "hide"} : BalloonEnds(how)
    BY <2>1, <2>6 DEF CreateWindow, CreateFails, AddIcon, AddFails, PumpEnds, DeleteIcon,
                      ReadFinalIcon, FreeFinalIcon, Quit, Cancel, BalloonEnds
  <2>7. CASE \/ ReadStats \/ SetTooltip \/ IconNotSet \/ SwapIcon \/ ModifyIcon \/ ModifyFails
             \/ DestroyPrevious \/ TickerEnds
    BY <2>1, <2>7 DEF ReadStats, SetTooltip, IconNotSet, SwapIcon, ModifyIcon, ModifyFails,
                      DestroyPrevious, TickerEnds
  <2>8. CASE UNCHANGED vars
    BY <2>1, <2>8 DEF vars
  <2> QED
    BY <2>2, <2>3, <2>4, <2>5, <2>6, <2>7, <2>8, NextCases
<1> QED
  BY <1>1, <1>2, TypeInvariant, PTL DEF Spec

(* However clicks and notifications interleave, a link is opened once.      *)
THEOREM LinkOpensOnce == Spec => []HandlerFiresOnce
<1>1. HandlerInv => HandlerFiresOnce
  BY DEF HandlerInv, HandlerFiresOnce
<1> QED
  BY <1>1, HandlerInvariant, PTL
=============================================================================
