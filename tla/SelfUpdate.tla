----------------------------- MODULE SelfUpdate -----------------------------
(***************************************************************************)
(* The agent replacing itself: runSelfUpdate, update.Manager.Update,        *)
(* verify.DownloadVerified and applyLightUpdate, with SolarBeam sessions    *)
(* that start and stop meanwhile, file operations that fail, and an agent   *)
(* that may be killed (logoff, power loss) at any point and is launched     *)
(* again at a later logon from whatever file its path then holds.           *)
(*                                                                         *)
(* A call is one update command, handled by the goroutine dispatch started  *)
(* for it.  A binary carries the name of the call that downloaded it.       *)
(* Windows keeps the file of a running image from being deleted or          *)
(* replaced, and allows renaming it: image says which file that is.         *)
(***************************************************************************)
EXTENDS Naturals, FiniteSets

CONSTANTS Calls,      \* update commands
          Shipped,    \* binary installed before
          Absent,     \* file not there
          MaxKills    \* bound: the agent killed from outside

ASSUME KillsAssumption == MaxKills \in Nat
ASSUME NamesAssumption == Shipped # Absent /\ {Shipped, Absent} \intersect Calls = {}

VARIABLES
  pc,         \* where each call is
  ok,         \* ApplyFn returned nil to the call, in this run of the agent
  temp,       \* calls whose staged download is on disk
  verdict,    \* who signed what each call downloaded
  inFlight,   \* SingleFlight
  exe, old,   \* binaries at exePath and exePath + ".old"
  image,      \* the file the running process was loaded from
  up,         \* the agent process runs
  leaving,    \* the delayed os.Exit is under way
  session,    \* solarbeamMgr.Status reports a running session
  late,       \* history: it started after an update's last check
  kills

command == <<pc, ok, temp, verdict, inFlight>>
binary  == <<exe, old, image>>
process == <<up, leaving, kills>>
vars    == <<command, binary, process, session, late>>

Verdicts == {"unknown", "unsigned", "good"}
Updating == {"validate", "check", "download", "recheck", "verify", "clear",
             "moveOut", "moveIn", "rollback", "tidy", "end"}
Points   == Updating \union {"idle", "reply", "done", "lost"}

\* past the last look at the session, with the restart still to come
Committed == \/ leaving
             \/ \E c \in Calls : pc[c] \in {"verify", "clear", "moveOut", "moveIn", "tidy"}

Goto(c, point) == pc' = [pc EXCEPT ![c] = point]
Step(c, from, to) == up /\ pc[c] = from /\ Goto(c, to)

Init ==
  /\ pc = [c \in Calls |-> "idle"]
  /\ ok = [c \in Calls |-> FALSE]
  /\ temp = {}
  /\ verdict = [c \in Calls |-> "unknown"]
  /\ inFlight = FALSE
  /\ exe = Shipped /\ old = Absent /\ image = "exe"
  /\ up = TRUE /\ leaving = FALSE
  /\ session \in BOOLEAN /\ late = FALSE
  /\ kills = 0

----------------------------------------------------------------------------
(* Update: one at a time, refused while a session runs.                    *)

\* arguments that do not decode are answered before Update is called
Undecodable(c) ==
  /\ Step(c, "idle", "reply")
  /\ UNCHANGED <<ok, temp, verdict, inFlight, binary, process, session, late>>

TryBegin(c) ==
  /\ ~inFlight
  /\ inFlight' = TRUE
  /\ Step(c, "idle", "validate")
  /\ UNCHANGED <<ok, temp, verdict, binary, process, session, late>>

\* slip: the deferred End also runs for the call that was turned away
AlreadyInProgressEnds(c) ==
  /\ inFlight
  /\ inFlight' = FALSE
  /\ Step(c, "idle", "reply")
  /\ UNCHANGED <<ok, temp, verdict, binary, process, session, late>>

AlreadyInProgress(c) ==
  /\ inFlight
  /\ Step(c, "idle", "reply")
  /\ UNCHANGED <<ok, temp, verdict, inFlight, binary, process, session, late>>

\* required fields, hex forms, ProductPolicy, the URL's host
Validate(c, accepted) ==
  /\ Step(c, "validate", IF accepted THEN "check" ELSE "end")
  /\ UNCHANGED <<ok, temp, verdict, inFlight, binary, process, session, late>>

CheckSession(c) ==
  /\ Step(c, "check", IF session THEN "end" ELSE "download")
  /\ UNCHANGED <<ok, temp, verdict, inFlight, binary, process, session, late>>

\* os.Remove of the staged file: its error is ignored wherever it is called
RemoveStaged(c) == temp' = temp \ {c} \/ temp' = temp

CreateTemp(c) ==
  /\ up /\ pc[c] = "download" /\ c \notin temp
  /\ temp' = temp \union {c}
  /\ UNCHANGED <<pc, ok, verdict, inFlight, binary, process, session, late>>

\* no connection, bad status, copy error, over the size cap, digest mismatch
DownloadFails(c) ==
  /\ Step(c, "download", "end")
  /\ RemoveStaged(c)
  /\ UNCHANGED <<ok, verdict, inFlight, binary, process, session, late>>

\* the staged bytes have the commanded digest; who signed them is not known yet
DownloadVerified(c) ==
  /\ Step(c, "download", "recheck") /\ c \in temp
  /\ \E v \in {"unsigned", "good"} : verdict' = [verdict EXCEPT ![c] = v]
  /\ UNCHANGED <<ok, temp, inFlight, binary, process, session, late>>

\* slip: only the check before the download is made
RecheckSkipped(c) ==
  /\ Step(c, "recheck", "verify")
  /\ UNCHANGED <<ok, temp, verdict, inFlight, binary, process, session, late>>

RecheckSession(c) ==
  /\ Step(c, "recheck", IF session THEN "end" ELSE "verify")
  /\ IF session THEN RemoveStaged(c) ELSE temp' = temp
  /\ UNCHANGED <<ok, verdict, inFlight, binary, process, session, late>>

----------------------------------------------------------------------------
(* applyLightUpdate: verify, move the running exe aside, move the new one  *)
(* in, exit two seconds later.                                             *)

\* Update tries to remove the staged file whenever ApplyFn fails
ApplyFails(c) ==
  /\ RemoveStaged(c)
  /\ UNCHANGED <<ok, verdict, inFlight, process, session, late>>

\* slip: the signature is not looked at
AnySigner(c) ==
  /\ Step(c, "verify", "clear")
  /\ UNCHANGED <<ok, temp, verdict, inFlight, binary, process, session, late>>

\* VerifyAuthenticode may also fail on a good file
VerifySigner(c) ==
  \/ /\ verdict[c] = "good"
     /\ Step(c, "verify", "clear")
     /\ UNCHANGED <<ok, temp, verdict, inFlight, binary, process, session, late>>
  \/ /\ Step(c, "verify", "end")
     /\ ApplyFails(c) /\ UNCHANGED binary

\* os.Remove(oldPath), errors ignored: impossible for the running image
RemoveOld == \/ image # "old" /\ old' = Absent
             \/ old' = old

ClearOld(c) ==
  /\ Step(c, "clear", "moveOut")
  /\ RemoveOld
  /\ UNCHANGED <<ok, temp, verdict, inFlight, exe, image, process, session, late>>

MoveOut(c) ==
  /\ exe # Absent /\ image # "old"
  /\ Step(c, "moveOut", "moveIn")
  /\ old' = exe /\ exe' = Absent
  /\ image' = "old"
  /\ UNCHANGED <<ok, temp, verdict, inFlight, process, session, late>>

MoveOutFails(c) ==
  /\ Step(c, "moveOut", "end")
  /\ ApplyFails(c) /\ UNCHANGED binary

MoveIn(c) ==
  /\ Step(c, "moveIn", "tidy")
  /\ exe' = c /\ temp' = temp \ {c}
  /\ UNCHANGED <<ok, verdict, inFlight, old, image, process, session, late>>

\* slip: the failure is not noticed
MoveInSwallowed(c) ==
  /\ Step(c, "moveIn", "tidy")
  /\ UNCHANGED <<ok, temp, verdict, inFlight, binary, process, session, late>>

MoveInFails(c) ==
  /\ Step(c, "moveIn", "rollback")
  /\ UNCHANGED <<ok, temp, verdict, inFlight, binary, process, session, late>>

\* the rename back may fail too, and its error is ignored
RollBack(c) ==
  /\ Step(c, "rollback", "end")
  /\ \/ exe' = old /\ old' = Absent /\ image' = "exe"
     \/ UNCHANGED binary
  /\ ApplyFails(c)

\* slip: the exit is not scheduled
TidyOnly(c) ==
  /\ Step(c, "tidy", "end")
  /\ RemoveOld
  /\ ok' = [ok EXCEPT ![c] = TRUE]
  /\ UNCHANGED <<temp, verdict, inFlight, exe, image, process, session, late>>

Tidy(c) ==
  /\ Step(c, "tidy", "end")
  /\ RemoveOld
  /\ ok' = [ok EXCEPT ![c] = TRUE]
  /\ leaving' = TRUE
  /\ UNCHANGED <<temp, verdict, inFlight, exe, image, up, kills, session, late>>

End(c) ==
  /\ Step(c, "end", "reply")
  /\ inFlight' = FALSE
  /\ UNCHANGED <<ok, temp, verdict, binary, process, session, late>>

EmitResult(c) ==
  /\ Step(c, "reply", "done")
  /\ UNCHANGED <<ok, temp, verdict, inFlight, binary, process, session, late>>

----------------------------------------------------------------------------
(* The rest of the process, and its end.                                   *)

\* solarbeam Start and Stop run in goroutines of their own and do not know of updates
StartSession ==
  /\ up /\ ~session
  /\ session' = TRUE
  /\ late' = Committed
  /\ UNCHANGED <<command, binary, process>>

StopSession ==
  /\ up /\ session
  /\ session' = FALSE /\ late' = FALSE
  /\ UNCHANGED <<command, binary, process>>

Down ==
  /\ up' = FALSE /\ leaving' = FALSE
  /\ image' = "none" /\ inFlight' = FALSE
  /\ session' = FALSE /\ late' = FALSE
  /\ pc' = [c \in Calls |-> IF pc[c] \in {"idle", "done"} THEN pc[c] ELSE "lost"]
  /\ ok' = [c \in Calls |-> FALSE]
  /\ UNCHANGED <<temp, verdict, exe, old>>

\* the goroutine applyLightUpdate leaves behind
DelayedExit == leaving /\ Down /\ UNCHANGED kills

Killed ==
  /\ up /\ kills < MaxKills
  /\ kills' = kills + 1
  /\ Down

\* slip: the path confused with what it holds
LogonWithoutImage ==
  /\ ~up /\ exe # Absent
  /\ up' = TRUE /\ image' = exe
  /\ UNCHANGED <<command, exe, old, leaving, kills, session, late>>

\* the HKCU Run entry, at the next logon
Logon ==
  /\ ~up /\ exe # Absent
  /\ up' = TRUE /\ image' = "exe"
  /\ UNCHANGED <<command, exe, old, leaving, kills, session, late>>

UpdateStep(c) ==
  \/ Undecodable(c) \/ TryBegin(c) \/ AlreadyInProgress(c)
  \/ \E accepted \in BOOLEAN : Validate(c, accepted)
  \/ CheckSession(c) \/ CreateTemp(c) \/ DownloadFails(c) \/ DownloadVerified(c)
  \/ RecheckSession(c)
  \/ VerifySigner(c) \/ ClearOld(c) \/ MoveOut(c) \/ MoveOutFails(c)
  \/ MoveIn(c) \/ MoveInFails(c) \/ RollBack(c) \/ Tidy(c)
  \/ End(c) \/ EmitResult(c)

Next ==
  \/ \E c \in Calls : UpdateStep(c)
  \/ StartSession \/ StopSession
  \/ DelayedExit \/ Killed \/ Logon

Spec == Init /\ [][Next]_vars

\* A call's goroutine keeps running (the HTTP client gives up after
\* downloadTimeout), commands that have not arrived need not, and the timer fires.
Moving(c) == pc[c] # "idle" /\ UpdateStep(c)

FairSpec ==
  /\ Spec
  /\ \A c \in Calls : WF_vars(Moving(c))
  /\ WF_vars(DelayedExit)
  /\ WF_vars(Logon)

----------------------------------------------------------------------------
(* Properties.                                                             *)

TypeOK ==
  /\ pc \in [Calls -> Points]
  /\ ok \in [Calls -> BOOLEAN]
  /\ temp \subseteq Calls
  /\ verdict \in [Calls -> Verdicts]
  /\ {inFlight, up, leaving, session, late} \subseteq BOOLEAN
  /\ exe \in Calls \union {Shipped, Absent}
  /\ old \in Calls \union {Shipped, Absent}
  /\ image \in {"exe", "old", "none"}
  /\ kills \in 0 .. MaxKills

\* SingleFlight lets one call at a time validate, download and apply, and one
\* that was turned away does not open the door to a third.
OneAtATime ==
  \A c, d \in Calls : pc[c] \in Updating /\ pc[d] \in Updating => c = d

\* Wherever the agent is killed, and whichever rename fails, a verified binary
\* is left on the disk: at the path the Run entry starts, or next to it as the
\* .old file the swap had moved there.
ABinarySurvives ==
  /\ {exe, old} # {Absent}
  /\ \A b \in {exe, old} \intersect Calls : verdict[b] = "good"

\* An update reported as applied is the binary the next logon starts: no later
\* command can undo it in the seconds before the agent exits, although nothing
\* tells a second Update that an exit is under way.
AppliedIsNextToRun ==
  \A c \in Calls : ok[c] => exe = c

\* The update never ends the process under a session that was already running
\* when it last looked.
SparesSeenSessions == [][leaving /\ up /\ ~up' /\ kills' = kills /\ session => late]_vars

\* Each command is answered or dies with the process, and an applied update
\* does end the process.
UpdatesReturn ==
  /\ \A c \in Calls : (pc[c] # "idle") ~> (pc[c] \in {"done", "lost"})
  /\ \A c \in Calls : ok[c] ~> ~up

\* What SessionActiveFn is documented to give: the restart that an update
\* causes never falls into a session.  (Expected to fail: a session may start
\* between the last check and the exit.)
NeverRestartsMidSession == [][leaving /\ up /\ ~up' /\ kills' = kills => ~session]_vars
=============================================================================
