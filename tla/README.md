# TLA+ models of the ReadyFleet light agent

The light agent is a per-user Windows program. It keeps a WebSocket to a
control server, starts and stops a SolarBeam streaming session on command, shows
a tray icon with a disconnect toggle, and installs, enrols, updates and removes
itself. This directory models that program in TLA+, checks the models with TLC
and proves with TLAPS, for every value of the constants, all they claim but the
liveness properties. Paths below are relative to
`src/agent/` unless they begin with `src/`.

## 1. Inventory

| Component | State | Operations | Talks to | What is hard |
|---|---|---|---|---|
| Connection client, `internal/transport/client.go` | `running`, `paused`, `pauseWake`, `cancelCurrent`, `stats`, the backoff delay, the attempt's contexts and socket | `Run`, `connectAndServe`, `SetPaused`, `Stats`, `Backoff.Next` | the tray (toggle, `Stats`), `runtime.Run`, the pumps | the toggle races with every gap between two critical sections of `Run`; nested contexts; an error must be told from a pause |
| Pumps and queue, same file | `persistentConn.send_` (32 frames), four pump goroutines, the read deadline | `Send`, `dispatch`, `readLoop`, `writeLoop`, `pingLoop`, `telemetryLoop`, `sendInventory` | the server; a goroutine per command | a full queue; a path that dies silently; every goroutine must end when one does |
| Command runtime, `internal/runtime` | none | `Dispatch` | pumps and handlers | commands run concurrently and answer in any order |
| Session manager, `internal/solarbeam/manager*.go` | `mu`, `interactiveEngineProc`, `lastUpdatedVersion`, two child processes | `Start`, `Stop`, `Status`, `Update` | handlers, tray, inventory, self-update | long steps under one mutex; children that die; memory lost at a restart while the children live on |
| Engine package update, `internal/solarbeam/update_windows.go` | the install directory | `updateEngine`, `extractEngineZip` | inside `Manager.Update` | partial extraction; verification after the fact |
| Self-update, `internal/update`, `internal/verify/download.go`, `cmd/lightagent/update_apply_windows.go` | `SingleFlight`, a staged file, `exe`, `exe.old`, a delayed `os.Exit` | `Update`, `DownloadVerified`, `applyLightUpdate` | `Status` of the session manager; the Run entry at the next logon | two renames that may be cut apart; the process that exits two seconds later |
| Enrolment and installation, `internal/enroll`, `internal/lightinstall`, `internal/config`, `cmd/lightagent/main.go` | certificate, key, CA, `config.json`, the Run entry, a tombstone, the log | `Enroll`, `Install`, `Uninstall`, `unlink`, the agent's start | server (single-use tokens), registry, agent processes | no step is undone when a later one fails; old and new agents share the files |
| Tray icon, `internal/trayicon`, `cmd/lightagent/tray.go` | `t.state` with the icon handle and the click handler | `Run`, `SetTooltip`, `SetIconPath`, `Notify`, `Quit`, the 3 s ticker | client `Stats`, `show_notification` | handles swapped while the icon is torn down; messages about an older balloon |
| Tray menu, same files | the toggle's own flag, the label the ticker last set | the toggle's `OnClick`, `SetMenuItems` | client `SetPaused` | one goroutine per click, three steps each; a label up to a tick old |
| Hidden browser window, `internal/hiddenbrowser` | `mu`, `wv`, a thread per window | `Open` | tray menu, `Tray.Notify` | the window's thread outlives `Open`; the mentor closes the window at any point |
| Installer dialogs, `internal/installerui` | callback tokens, a dialog handle each | `RunWithProgress`, `ShowWelcome`, `ShowResult` | `Install`, `Uninstall`, the prompt | hand-over between the caller, the dialog's thread and the work |
| Connection request prompt, `cmd/lightagent/prompt.go` | none | `Prompt` | the dialogs | a dialog per command, next to any other |
| Inventory, signature check, `svc`, `src/proto` | none | pure reads, one-shot calls | | not stateful |

What makes each correct:

- **client**: one `Run` at a time; a disconnect drops whatever attempt is under
  way and is undone by a reconnect; a failure never ends the loop; what `Stats`
  reports is the state of the current attempt; no socket outlives its attempt.
- **connection**: the server sees a gapless, duplicate-free prefix of what `Send`
  accepted; the two frames of an inventory refresh tell it the same story; a dead path
  is noticed; nothing stays blocked once the attempt ends.
- **session manager**: a session is wired to its own engine and bridge; `Stop`
  leaves nothing; files never change under a running engine; every call returns.
- **self-update**: one at a time, never under a visible session, and whatever
  fails the disk keeps a binary that was verified.
- **installation**: success means one whole identity; the Run entry never
  launches an agent that has nothing to connect with; removal is complete.
- **tray**: no icon handle is freed twice, while shown, or never, and the stock icon is
  not freed at all; a link opens once;
  what the menu says becomes what the client does.
- **hidden browser**: at most one window, always one the launcher can find again,
  and never a dead one it would find for ever.
- **dialogs**: each is driven by its own goroutine only, and its caller goes on
  with the answer, or with the result of work that has ended.

The file `PROJECT.json` lists the hazards behind these, each at its line, with
the properties that would catch it.

## 2. Modules

| Module | Models | Kind |
|---|---|---|
| `LinkLease` | what the client promises the rest of the agent | abstract |
| `AgentClient` | `Run`, `connectAndServe`, `SetPaused`, `Backoff.Next` | component |
| `AgentClientProofs` | its theorems | proofs |
| `TrayMenu` | the toggle's clicks and label over `AgentClient` | composition |
| `TrayMenuProofs` | its theorems | proofs |
| `OrderedLink` | what `Send` promises about the frames it accepts | abstract |
| `AgentConn` | one connection: pumps, queue, dispatch, handlers' replies | component |
| `AgentConnProofs` | its theorems | proofs |
| `SolarbeamManager` | `Start`, `Stop`, `Status`, `Update` and the engine package | component |
| `SolarbeamManagerProofs` | its theorems | proofs |
| `SelfUpdate` | update command, download, file swap, exit, next logon | component |
| `SelfUpdateProofs` | its theorems | proofs |
| `InstallLifecycle` | enrol, install, unlink, uninstall, agent start | component |
| `InstallLifecycleProofs` | its theorems | proofs |
| `TrayIcon` | the tray's window thread, ticker, notifications, user | component |
| `TrayIconProofs` | its theorems | proofs |
| `HiddenBrowser` | `Launcher.Open` and the goroutine of each window | component |
| `TaskDialogs` | `runTaskDialog` and the three screens built on it, the prompt | component |
| `Desktop` | `TrayIcon`, `HiddenBrowser` and `TaskDialogs` side by side | composition |
| `DesktopProofs` | the theorems of the two last and of `Desktop` itself | proofs |
| `MC_*` | names for the model values of the runs | instances |

A definition whose comment begins with `slip:` is not part of any specification.
It is a plausible bug, placed before the definition it would replace; with it in
place the property it is paired with in `PROJECT.json` fails.

### AgentClient

A *runner* is one call of `Run`, and `pc` follows it through the loop. A section
under `c.mu` is one action and everything between two such sections is at least
one more, so `SetPaused` and a context cancellation land in every gap.

- `SnapshotPause` reads `paused` and `pauseWake` together, as the code does; the
  decision then uses the copies. `woken[r]` says the channel the runner holds has
  been closed: `SetPaused` closes the current channel and makes a new one.
- `attempt[r]` records who cancelled `attemptCtx` first: `"pause"` (through
  `cancelCurrent`) or `"exit"` (the deferred `cancel()`); `ctxDone[r]` is the
  parent context. `AttemptDone` is `attemptCtx.Err() != nil`.
- Errors are classes: `failure`, `canceled` (what `errors.Is(err,
  context.Canceled)` accepts) and `paused` (`errPausedMidConnection`). `ClassifyError` is the
  deferred function, run after `cancel()`; `RecordOutcome` is the switch in `Run`.
- What happens inside a live connection is one step here, `PumpFails` or
  `PumpCancelled`, and `AgentConn` elsewhere.

`LinkLease` has a holder, a link reported up or down, and a count of rises.
`ImplementsLease` maps the runner inside the loop to the holder, `Stats().Connected`
to the link and `ConnectCount` to the count.

### TrayMenu

`TrayMenu` extends `AgentClient` and adds what stands between the mentor and
`SetPaused`. A click is a goroutine: `LoadFlag`, `StoreFlag`, `CallSetPaused` are the
atomic load, the atomic store and the call of `OnClick`, and nothing keeps two
clicks apart. The goroutines are alike, so `clicks` counts how many stand at each
point. `ComputeItems` and `SetMenuItems` are the ticker's `menuItems()` and the
assignment under the tray's lock; between the two the flag may change again. A tick
that would change nothing is left out.

`tray` is chosen at the start. FALSE is the client as a library, as its tests use
it: any runner, `SetPaused` called by anybody at any time. TRUE is the light agent:
one call of `Run` (`Main`), and clicks as the only callers of `SetPaused`. One
module and one run so check the same client in both uses.

### AgentConn

From the queued hello to the end of `connectAndServe`. `inbox` holds the kinds of
the frames the server sent; what is sent back for frame *n* is `<<n, part>>`. `queue` is
`send_`, `held` the frame the write pump has taken off it, `wire` what the server
received, and `accepted` the history of `Send`s that returned nil. A `link` that is
`silent` swallows writes and delivers nothing more; only the read deadline, or a
write deadline, ends it. The select in `Send` may take either branch when both
are ready. `persistentConn.closed` is closed by nobody, so no select offers it.

`worker[n]` follows the goroutine of frame *n*. A task (any command but a refresh, or an
ack that asks for inventory) sends one frame, or none when the command does not decode or
an ack's inventory cannot be collected. A `refresh` is `runInventoryRefresh`, which calls
`Send` twice: the inventory, then a result. If it has no inventory, or its first `Send`
returned an error, it sends an `error` in place of the result, and that `Send` may succeed,
since the select takes either branch. The handler contract (`runtime.go:26-28`) would
let a handler stream output before its result as well; none of `LightHandlers` does.

`OrderedLink` accepts each reply once, the two parts of a refresh being two replies, and
delivers the accepted sequence in order without gaps; `ImplementsOrderedLink` maps `wire`
to what it delivered. That nothing is accepted twice is proved of the goroutines
(`ReplyInvariant`).

### SolarbeamManager

A *job* is one call. `mu` is the mutex; the job inside takes one step per
operation with an effect of its own: launching the bridge, waiting up to 30 s
for it, killing the old engine, launching the new one, writing one entry of the
package. Processes carry the name of the `Start` that launched them and files the
name of the `Update` they came from, so the properties can say *whose* engine,
bridge or file is there. `handle` is `interactiveEngineProc`. `AgentRestarts`
clears memory and leaves processes and files.

### SelfUpdate

A *call* is one update command. `exe`, `old` and `image` are the file at the
agent's path, the file next to it with `.old`, and which of the two the running
process was loaded from; Windows lets a running image be renamed and not deleted
or replaced. Each rename, and the failure of each, is an action. `leaving` is the goroutine
that sleeps two seconds and exits. `Killed` is logoff or power loss, `Logon` what
the Run entry starts next. `verdict` says who signed a download; it is drawn
when the digest has been checked and only `VerifySigner` looks at it. `temp` is what lies
in the download directory. Every failure after the download calls `os.Remove` on the staged
file and ignores its error, so `RemoveStaged` may leave it, as `RemoveOld` may the `.old`.

### InstallLifecycle

A token names the identity its redemption yields: certificate, key, CA file and
configuration carry it, so that "these files belong together" is an equality.
The user runs one command at a time and may abort it anywhere; agents run meanwhile.
`online` says which of them have a connection: an agent connects with the
configuration it loaded when it started and the key pair that is on disk at that
moment, as `connectAndServe`'s callback does, and the link may drop at any time.
`Redeem` uses up a token, and `RedeemFails` may do so too, since the answer
can be lost. `marker` is the "agent connected" line `waitForAgentConnected` looks
for. `clash` is history: an agent was enrolling by itself, from a provisioned
configuration, while a command ran. The code has nothing against the two writing
over each other, and the properties that compare files are stated for
behaviours without it (see section 7).

### TrayIcon

An icon handle is a number with the art it was loaded from and a count of how
often it was destroyed. `staged` says that `writeTrayIcons` succeeded, which makes both paths
non-empty: without it `Run` has the stock icon and the ticker swaps nothing, and with it `Run` may
still fall back to the stock icon when the file does not load. The stock icon is the
system's and must not be destroyed; `owned`, `previousOwned` and `finalOwned` are `ownsHIcon`
and the two copies of it that `SetIconPath` and the end of `Run` decide by
(`DestroyIfOwned`). That `LoadIconW` finds the stock icon is taken for granted. `Run` publishes its state before the icon is added, as in
the code, and so lets the ticker and `Notify` act early. Windows messages are a
queue in the order posted. A call that passes a destroyed handle, or comes when
there is no icon, fails. What `Stats` says at a tick is any Boolean. `refused` is
history: the handles `SetIconPath` left to nobody because the shell refused the new
one, which the code does and the property must not blame on something else.

### HiddenBrowser

An *opener* is a goroutine of a click on the menu item; `open` follows it through
`Open`, which holds `mu` for as long as the creation takes. `window` follows the
goroutine of each window, on its locked thread: it creates, or is refused by one of
the checks of `newRealWebView`, pumps until the mentor closes the window, takes `mu` to
clear `wv`, and destroys. `made[o]` is what `resultCh` gave `o`. The mentor may close
the window before `Open` has hidden it from captures or stored it, and
`SetWindowDisplayAffinity` may then fail or not.

### TaskDialogs

A *question* is `ShowWelcome` or `ShowResult`, and the connection request prompt; a
*work* is `RunWithProgress`. `caller` is `runTaskDialog` and the wait for `runDone`
after it, `thread` the goroutine inside `TaskDialogIndirect`, `driver` the one that
waits for the window, does the work and clicks the placeholder button. `Created` is
the callback all dialogs share; it finds the handle by its token. `NotCreated` is an
error of `TaskDialogIndirect`, which `RunWithProgress` drops. `TrayEnds` and
`StrayQuit` are a hazard between modules: the end of `Tray.Run` destroys its window a
second time after the message loop, the `WM_QUIT` this posts stays in the queue of
a thread given back to Go, and a dialog that later runs there is closed by it.

### Desktop

`TrayIcon`, `HiddenBrowser` and `TaskDialogs` share no variable, and what one does to
another is a choice in the other (`NotifyFailure`, `TrayEnds`). `Desktop` puts them
into one specification with `scene` saying which of them a behaviour follows, so that
one run checks all three without the product of their states.

## 3. Runs

| Run | Expect | What it asks |
|---|---|---|
| `client` | pass | `PauseReachesAttempt`, `NoLeakedConn`, `ReturnsOnlyWhenCancelled`, `ImplementsLease`; live: `PauseDropsAttempt`, `UnpauseResumes`, `CancelStopsRun`, `LabelSettles` |
| `client_backoff` | violation | `FailureBacksOff` |
| `client_pause_race` | violation | `PauseDropsLink` |
| `conn` | pass | `EndsAsClientExpects`, `PongsInOrder`, `RefreshTellsTruth`, `ImplementsOrderedLink`; live: `DeadLinkSurfaces`, `NoGoroutineStuck` |
| `solar` | pass | `NoLeakedEngine`, `SessionIsWired`, `StopEndsSession`, `PackageIsSound`, `UpdateKeepsOffEngine`; live: `CallsReturn` |
| `solar_status` | violation | `StatusIsAccurate` |
| `update` | pass | `OneAtATime`, `ABinarySurvives`, `AppliedIsNextToRun`, `SparesSeenSessions`; live: `UpdatesReturn` |
| `update_session` | violation | `NeverRestartsMidSession` |
| `install` | pass | `InstalledIsWhole`, `StartupEntryIsBacked`, `RemovalIsComplete`, `RemovalCutsOff` |
| `install_probe` | violation | `InstallProvesConnection` |
| `tray` | pass | `IconsFreedOnce`, `HandlerFiresOnce`, `WindowIsTracked`, `ProgressIsItsOwn`; live: `DesktopAnswers` |
| `tray_offline` | violation | `OfflineIsShown` |

Every passing run checks a type invariant too (`TypeOK`, `MenuTypeOK`,
`DesktopTypeOK`). Each property is stated in words above its definition.

What three of the passing runs show that the code's reader might not expect:

- **`RefreshTellsTruth`** The server never gets a refresh's success without its inventory,
  nor its error with it, although the two frames are two `Send`s, other replies leave
  between them and the attempt may end there. A handler that dropped the first error
  would report success for an inventory that was never queued, as its second `Send` may
  still find room.
- **`LabelSettles`** Overlapping clicks can leave the menu and the client opposite,
  so that *Disconnect* connects. The property says what is left: one click made on
  its own puts them in agreement again, whatever happened before it, and the
  label follows. Asked without `~overlapped`, it fails.
- **`DesktopAnswers`** needs two exceptions, which are in it by name. The caller of a
  progress screen that could not be shown waits for ever (`Settled`), and a question
  waits for as long as the mentor does.

### What the violations show

1. **`client_backoff`** The deferred function of `connectAndServe` calls `cancel()`
   before it asks `attemptCtx.Err() != nil`. The answer is always yes, so every
   failed dial under a live context becomes `errPausedMidConnection` and is redialled at once.
   The package comment (`client.go:15`) promises exponential backoff. The backoff
   branch of `Run` is reached only when the context itself is already cancelled.
2. **`client_pause_race`** `Run` decides on a copy of `paused` and registers
   `cancelCurrent` later. A toggle in that gap cancels nothing: the link comes up
   while paused and stays up, against `SetPaused`'s comment (`client.go:224-226`).
3. **`solar_status`** The engine's handle lives in memory. After a restart of the
   agent a running engine is reported stopped, although `manager.go:72-73` calls
   the query "always accurate"; `Stop` and the idle check of `Update` are blind to
   it as well.
4. **`update_session`** The last look at the session comes before the apply and
   the exit two seconds after it. A session may start in between, and the restart
   falls into it, which `update/manager.go:44-46` says `Update` refuses. Its engine and bridge
   outlive the agent, as in `SolarbeamManager.AgentRestarts`, and the next agent does not
   know them (see `solar_status`).
5. **`install_probe`** `waitForAgentConnected` accepts any "agent connected" line
   in the log at `Paths.LogPath` (the agent's is `logs/lightagent.log`), which earlier
   runs wrote to and nothing truncates. A second `Install` succeeds on the line of
   the first, although `install.go:103-104` asks for proof of a live connection.
6. **`tray_offline`** The tray starts with the connected art while the ticker
   starts from `lastConnected = false`. With the icon files staged, an agent that
   comes up without a network shows the connected icon until its first connection has come and gone.

### Bounds

| Bound | Value | Why it is enough |
|---|---|---|
| `Runners` | 2 | `ErrAlreadyRunning`, and a second `Run` after the first returned; the proofs cover any number |
| `MaxConnects` | 2 | a second connection after the first; failed dials, pauses and retries are not bounded |
| `MinDelay`, `MaxDelay` | 1, 60 | the values `Run` uses |
| `MaxFrames` | 2 | two pings for their order, a ping and a command for the full queue; `StreamInvariant` and `ReplyInvariant` cover any number |
| `MaxRefreshes` | 1 | one frame pair, with a ping, a task or nothing on either side of it; `RefreshesTellTruth` covers any number |
| `QueueCap` | 1 (32 in the code) | with the hello in it the queue is full at once, so every sender meets it full; the proofs cover any capacity |
| `Jobs`, `Files`, `MaxRestarts` | 3, 2, 1 | two sessions with a `Stop` or `Update` between them; an update half done; memory lost once |
| `Calls`, `MaxKills` | 3, 1 | an update, one that meets the exit under way, one for the next run of the agent; exits of the agent's own are not counted |
| `Tokens`, `Agents` | 2 and the secret, 2 | an install and its retry; the agent a retry starts next to the one still running. Attempts are not bounded. The two agents and the two tokens are symmetric |
| `Main`, `MaxClicks` | a runner, 2 | the light agent has one call of `Run`; two clicks that overlap, and any number one after the other or overlapping the last. `MenuTypeCorrect` and `MenuImplementsClient` cover any number |
| `Notes`, `MaxLoads` | 2, 2 | a balloon replaced by another; the first icon, stock or loaded, and one swap, after which loading fails; `IconsAreFreedOnce` covers any number |
| `Openers`, `Windows` | 2, 2 | a click while another is in `Open` or a window is being torn down; each is used again and again |
| `Questions`, `Works` | 1, 1 | a prompt next to a progress screen, in any order |

`CHECK_DEADLOCK FALSE` stands where the modelled system ends: one connection
(`conn`), all jobs answered (`solar`), all commands answered or no binary left at the
path the Run entry starts (`update`), every notification and dialog over and the icon gone
(`tray`, `tray_offline`). The other runs check deadlock.

## 4. Fairness

Fairness is assumed of code that runs by itself, never of the environment. No
specification assumes that a link stays up or fails, that the user clicks or a
command arrives, that a handler finishes or that a process lives or dies.

| Assumed | Because |
|---|---|
| `AgentClient`: a runner's steps, except out of `serving` | goroutines run; a dial has a 10 s handshake timeout; a backoff is a timer |
| `AgentClient`: `PumpCancelled` | all pumps select on the attempt's context |
| `AgentConn`: the pumps, the select, a reply being sent | goroutines run; reads and writes have deadlines |
| `SolarbeamManager`: `Work`, and strongly `Lock` | the bridge wait is 30 s, the download 5 minutes; `sync.Mutex` goes to starvation mode for a waiter that keeps missing out |
| `SelfUpdate`: a call that has arrived, `DelayedExit`, `Logon` | the HTTP client has a timeout, the exit is a timer, users log on again |
| `TrayMenu`: a click that has been made, and the ticker until the agent's context is done | goroutines run; `SetPaused` takes a mutex held for moments only; after `ctx` is done the ticker returns |
| `HiddenBrowser`: `Open` and a window's goroutine, and strongly the two that take `mu` | WebView2 comes to a result; `sync.Mutex` does not starve a waiter |
| `TaskDialogs`: callers, threads, drivers and the work | goroutines run, and `Install` and `Uninstall` end; nobody has to answer |
| `TrayIcon`: the window thread, the ticker, a `Notify` that has begun | the message loop pumps, the ticker ticks, the wait for the state is at most 3 s |

`InstallLifecycle` has no liveness property and no fairness.

Where each waiter waits once (`NotifyReturns`, `DialogsReturn`), "everyone who waits
goes on" is written `[]<>(nobody waits)`: a single waiter left behind makes it false.
`OpensReturn` says the same of each opener alone, as these click again.

## 5. Proofs

TLAPS checks these for every value of the constants that meets the named
assumptions. Those are of two kinds. The sentinel values differ from the real ones and
from each other, and the two sets of names a module keeps apart are disjoint
(`NoRunnerOutside`, `NamesAssumption`, `TokensAssumption`, `ActorsAssumption`,
`NoneAssumption`, `OwnersAssumption`, `DialogsAssumption`, `MainAssumption`). And the numbers are
what the code makes them: bounds are naturals, the queue holds at least one frame
(`QueueAssumption`; 32 in the code), the tray loads at least one icon
(`LoadsAssumption`), `0 < MinDelay <= MaxDelay`, and the engine binary is one of the package's
files (`ExeAssumption`). TLC evaluates each of them in a run.

No argument uses that a set of processes, tokens or files is finite. The bounds that
remain in the modules (`MaxFrames`, `MaxRefreshes`, `MaxLoads`, `MaxConnects`, `MaxRestarts`, `MaxKills`,
`MaxClicks`) are arbitrary numbers here. A safety property that fails fails in finitely
many steps, which some value of the bound allows; so these theorems say of the code, which has
no such bounds, what they say of the models.

Each module proves type correctness first; the other invariants rest on it. In
`AgentConnProofs`, `TrayIconProofs` and for the dialogs it is inductive only together with a second
invariant, and `TypeInvariant` (`DialogInvariant`) proves the two as one.

**AgentClientProofs.** None of the client's properties is inductive alone.
- `RunInv`: `ReturnsOnlyWhenCancelled` with `ErrorIsReal`, which says what
  `connectAndServe` can be about to return at each point of the way out. From it
  `NeverStopsByItself`: it needs that an error of class `canceled` under a live
  parent is always reclassified.
- `OwnerInv`: `running` is set whenever someone is in the loop, so there is at most
  one (`MutualExclusion`), and only that one registers itself in `cancelCurrent`
  (`DisconnectReaches`, for `PauseReachesAttempt`).
- `LinkInv`: who holds a socket at which point, and that `Stats().Connected` belongs
  to an attempt not yet recorded. From it `SocketsAreClosed` (`NoLeakedConn`) and
  `ConnectedIsHonest`.
- `WakeInvariant` (`NoLostWake`: closing `pauseWake` is never missed by a parked `Run`;
  the run checks its live form, `UnpauseResumes`), and `NextDelayBounded` about `Backoff.Next`.
- `ClientImplementsLease` (`ImplementsLease`): initial states map to initial states
  and every step to a claim, a rise, a fall, a release or a stutter. `MutualExclusion`
  makes the `CHOOSE` in the mapping deterministic.

**TrayMenuProofs.** `MenuImplementsClient`: a step under the tray is a step of the
client or leaves the client alone, since a click reaches it through `SetPaused` only. It
gives `MenuSpec => Spec`, so every theorem above holds of the light agent with any number of
overlapping clicks. `MenuTypeCorrect` takes the client's part of `MenuTypeOK` from there
and adds the count of clicks (`MoveKeepsClicks`).

**SolarbeamManagerProofs.** `MutexInv`: a job at a point inside holds `mu`, and the
point fits what the job was asked. On it rest `EngineInv` (every engine of this
agent is tracked, and none is alive while an update downloads or writes) and
`SessionInv` (the bridge belongs to the `Start` that waits for it, and no session is
recorded during a `Start` or `Stop`). From these `NoEngineLeaks`, `SessionStaysWired`,
`StopInvariant` (`StopEndsSession`) and `UpdateIsSafe` (`UpdateKeepsOffEngine`). `PackageInv`
says that the entries an update has dealt with are its own and that
`lastUpdatedVersion` is written on the way out only; with the mutex, two updates
cannot mix their files under one recorded version: `PackageStaysSound`
(`PackageIsSound`).

**SelfUpdateProofs.** `SlotInv`: whoever is inside `Update` holds the slot, so at
most one is, and nobody is while the agent is down. `BinaryInv` says what `exe`,
`old` and `image` are at every point of the swap: a second update after an
applied one cannot get through `MoveOut`, because `.old` is then the running
image. From it `BinarySurvives` (`ABinarySurvives`) and `AppliedStays`
(`AppliedIsNextToRun`). `SessionInv`: past the last check, a running session started
after it; from it `SeenSessionsAreSpared` (`SparesSeenSessions`).

**AgentConnProofs.** A client's view of one connection and the server's.
- `EndInv`: a pump says `canceled` only under a cancelled context, and contexts stay
  cancelled. `EndIsExpected` (`EndsAsClientExpects`) follows, and is what `AgentClient` assumes
  where it takes the end of a connection for `PumpFails` or `PumpCancelled`.
- `StreamInv`: what the server has is a prefix of what `Send` accepted; and as long as the
  link is up and the write pump runs, the rest is the frame the pump holds followed by the
  queue. The condition is needed: a silent link swallows frames, and after a failed
  write the held frame is gone. It is harmless since after either nothing arrives.
- `ReplyInv`: a goroutine is at a part its kind of command sends (`WorkersSound`); a frame in
  `accepted` answers one that was read and whoever sent it is past that part, so an accepted
  inventory may be followed by its result but nothing is sent twice (`AcceptedAnswers`). The read pump answers a ping
  before it reads on, so pongs are accepted in order, and with `StreamInv` they arrive in order:
  `PongsStayInOrder` (`PongsInOrder`). Replies to different commands have no such theorem,
  because they have no such order.
- `RefreshInv`: a refresh about to send its result has had its inventory accepted, an
  accepted result stands behind its inventory, and an accepted error means that there is none.
  `RefreshesTellTruth`
  (`RefreshTellsTruth`) follows with `StreamInv`: the wire is a prefix of it.
- `ConnImplementsOrderedLink` (`ImplementsOrderedLink`): each `Send` maps to an acceptance (that
  it is of a reply not accepted before is `ReplyInv`), each successful write on a live link to the delivery
  of the next accepted frame (`StreamInv`), every other step to a stutter.

**InstallLifecycleProofs.** Six invariants in layers, each inductive given the ones before.
- `TokenInv`: an identity that is being written, or is configured, was redeemed; agents
  redeem the provisioned secret only.
- `AloneInv`: until the first `clash`, no agent enrols while a command runs. It makes
  the rest provable at all, and shows what `clash` must record.
- `WrittenInv`: at each point of `enroll.Enroll`, and then of `Install`, what the earlier
  points wrote is still there and is of this redemption. `RemovedInv`: the same of what
  `unlink` and `Uninstall` took away.
- `FinishedInv`: once a command has succeeded, no agent starts to enrol: there is an
  identity, or there is nothing to enrol with. Without it the files a command reported could
  change under its result.
- `Outcome`, the conjunction of `InstalledIsWhole` and `RemovalIsComplete`, is then inductive:
  `InstallIsWhole`, `RemovalLeavesNothing`.

From these `RemovalEndsConnections` (`RemovalCutsOff`: a connection needs the certificate on
disk) and `StartupStaysBacked` (`StartupEntryIsBacked`: the Run entry is written after
the identity and removed after it). Any number of attempts, agents, aborts and dropped links is covered.

**TrayIconProofs.** `IconInv` names one owner for each icon handle that is still to be
destroyed: the published state, the ticker between its swap and `DestroyIcon`, or `Run` after
`NIM_DELETE`; and it says that each of the three ownership flags is false for the stock icon
and for nothing else. The hard case is a swap that overtakes the end of `Run`: what `Run` reads as
the final icon is never the one the ticker is about to destroy, because `NIM_MODIFY`
succeeds only while the icon is in the tray. From it `IconsAreFreedOnce` (`IconsFreedOnce`), for
any number of swaps and from either first icon. `HandlerInv`: the handler of a note is installed once and
cleared as it fires; from it `LinkOpensOnce` (`HandlerFiresOnce`).

**DesktopProofs.** `BrowserInv`: who holds `l.mu` at which point, and that every window is
`l.wv` or in the hands of the one `Open` that is making it, which found `wv` empty and holds the
lock. From it `WindowStaysTracked` (`WindowIsTracked`), for any number of clicks and windows.
`DialogInv`: tokens are distinct, so the shared callback gives each driver the window of its
own dialog; from it `ProgressStaysItsOwn` (`ProgressIsItsOwn`). `DesktopIsItsParts`
shows that a behaviour of `Desktop` is one of each of its three parts, and `DesktopTypeCorrect` and
`DesktopIsSafe` carry all four properties of the run `tray` over to it.

Every invariant, every action property and both refinements of the passing runs
are so proved. What only TLC checks:
- the liveness properties `PauseDropsAttempt`, `UnpauseResumes`, `CancelStopsRun`,
  `LabelSettles`, `DeadLinkSurfaces`, `NoGoroutineStuck`, `CallsReturn`, `UpdatesReturn` and
  `DesktopAnswers`: they rest on fairness and so on `ENABLED`, which the prover has no rules for;
- the six violations, whose counterexamples are TLC's.

## 6. Not modelled, and why

- `Backoff.Reset` has no caller outside tests. The telemetry provider is nil in
  the light agent, so of `telemetryLoop` only the wait for the context is there.
- The managed (service) mode of the session manager: the light agent selects
  `ModeInteractive`.
- `terminateByName` and killing a process are best-effort calls to the system; both
  are taken to work and to be immediate.
- Real time. The model allows the update's exit before or after its reply is sent,
  and says nothing on whether two seconds are enough.
- Key generation, CSR, JSON, ZIP and Authenticode formats: the models have their
  verdict as a choice at the place where the code asks for it. Malformed
  arguments are rejected as one class.
- How the tray's popup menu is put up, drawn and dismissed: a click on an item is
  taken as delivered to the window. Fonts, colours, texts, Win32 structures.
- The WebView2 control behind the hidden browser. `go-webview2` ends the process on some
  failures of the creation (`hiddenbrowser_windows.go:90-99`); these are not modelled.
- The installers that call `RunWithProgress` with `Install` and `Uninstall`: their
  commands are not in this repository. The work is a step that ends.
- `svc` (log files; the service wrapper is unused here), `src/proto` (types) and
  `lightinventory` (reads `Status`) keep no state.

## 7. Limits of the claims

- `InstalledIsWhole`, `StartupEntryIsBacked` and `RemovalIsComplete` exclude `clash`:
  an agent that enrols from a provisioned configuration while an install or removal
  runs may save over its result. The code has no lock between the two. The
  behaviours are in the model and type-checked, and the hazard is listed.
- `RemovalIsComplete` says nothing about a live connection: `unlink` does not
  stop a running agent. `RemovalCutsOff` says that no agent gets a new one after an
  uninstall. After a failed unlink the tombstone lies in the directory that the last
  step of `Uninstall` deletes, so an uninstall that succeeds leaves no record.
- No property says that the download directory is clean after an update: every removal there
  ignores its error, so it would be false of the code. Nor is one update's package rolled back when a later
  entry fails; `PackageIsSound` is about torn files and about updates that report success.
- `UpdatesReturn` counts a call that dies with the process as over, so it does not say that the
  controller hears of a successful update. `HandlerFiresOnce` does not say that a click opens
  the link of its own balloon: one left over from an earlier balloon opens the newer link.
- `WindowIsTracked` does not say that a click is answered by a window: one that comes
  between the close of a window and the clearing of `wv` brings nothing forward. Nor
  does any property forbid the moment between the creation of the window and its
  exclusion from captures, in which a stream shows it.
- `StartupEntryIsBacked` excludes `tearing`, a removal cut short between the files and
  the Run entry, which the code cannot undo.
- `ABinarySurvives` speaks of `exe` and `.old` together: a kill between the two
  renames leaves the path the Run entry starts empty, and nothing moves `.old` back.

## 8. Plan

Done, in the order of importance and each with proofs: `LinkLease`, `AgentClient`,
`OrderedLink`, `AgentConn`, `SolarbeamManager`, `SelfUpdate`, `InstallLifecycle` with the agents'
connections, `TrayIcon`, `TrayMenu`, `HiddenBrowser`, `TaskDialogs`, `Desktop`.

To extend the model:
1. An abstract specification of an atomic update of the binary, with `SelfUpdate`
   shown to implement it up to the kill between the two renames.
2. `AgentConn` as what happens inside `AgentClient`'s `serving`, composed over several
   connections. `EndIsExpected` is the half of the argument that concerns its end.

To prove more:
1. What progress there is without fairness: that a waiter always has somebody to wait for,
   as `WakeInvariant` says of a parked `Run`. For `SolarbeamManager`, that a call waiting for `mu`
   has a holder inside; for `HiddenBrowser` the same of `l.mu`; for `TaskDialogs`, that
   the caller of a progress screen that was shown has a live driver; for `AgentConn`,
   that a goroutine blocked in `Send` has the context or the write pump to free it.
2. The abstract update, when it is there, from `BinaryInv`.

## 9. Running it

```
tlc -workers 2 -config client.cfg MC_TrayMenu.tla      # likewise the other runs
tlapm AgentClientProofs.tla                            # likewise the other proofs
```

`PROJECT.json` has the module of each run, the source lines of each definition,
the findings, the hazards and the theorems.
