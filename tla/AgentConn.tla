----------------------------- MODULE AgentConn -----------------------------
(***************************************************************************)
(* One live connection of transport.Client, from the queued hello to the   *)
(* end of connectAndServe: the read pump with its dispatch, the write pump *)
(* behind a bounded queue, the control-ping and telemetry pumps, and the   *)
(* goroutines that run command handlers and collect inventory.             *)
(*                                                                         *)
(* Frame n is the n-th frame the server sent, and <<n, part>> is a part of *)
(* what is sent back for it: an inventory refresh sends two.  Nothing ever *)
(* closes persistentConn.closed (persistentConn.Close has no caller), so   *)
(* no select here offers it.                                               *)
(***************************************************************************)
EXTENDS Naturals, Sequences, FiniteSets

CONSTANTS MaxFrames,     \* bound: frames the server sends on this connection
          MaxRefreshes,  \* bound: inventory refreshes among them
          QueueCap       \* capacity of persistentConn.send_

ASSUME FramesAssumption == MaxFrames \in Nat
ASSUME QueueAssumption  == QueueCap \in Nat \ {0}

VARIABLES
  inbox,      \* kinds of the frames the server sent
  read,       \* how many of them the read pump has taken
  reader,     \* "reading" | "ponging", blocked in Send | "ended"
  worker,     \* the goroutine dispatch started for a frame: "none" | "running" |
              \* the part it is blocked sending | "done"
  queue,      \* persistentConn.send_
  held,       \* the frame the write pump took off the queue: at most one
  wire,       \* what the server received
  pump,       \* what each pump has reported to connectAndServe
  phase,      \* connectAndServe: its select, its deferred calls, its end
  retErr,     \* what connectAndServe returns
  link,       \* the network path
  socket,     \* our end of it
  ctx,        \* attemptCtx: "live", or cancelled as "attempt" or by its parent
  accepted    \* history: frames for which Send returned nil

inbound  == <<inbox, read>>
outbound == <<queue, held, wire, accepted>>
ending   == <<pump, phase, retErr>>
world    == <<link, socket, ctx>>
vars     == <<inbound, reader, worker, outbound, ending, world>>

Frames == 1..MaxFrames

\* "refresh": CmdInventoryRefresh; "task": any other command, or an ack that asks
\* for inventory; "plain": what dispatch only logs, a malformed frame included
Kinds  == {"ping", "task", "refresh", "plain"}

\* "answer": the only frame of a task; a refresh sends its inventory and then a
\* result, or an error (a result with exit code -1) for what went wrong
Parts   == {"pong", "answer", "inventory", "result", "error"}
Replies == Frames \X Parts
Hello   == <<0, "hello">>

Pumps  == {"read", "write", "ping", "telemetry"}

Done   == ctx # "live"
Broken == socket = "closed" \/ link = "reset"

Init ==
  /\ inbox = <<>> /\ read = 0
  /\ reader = "reading"
  /\ worker = [n \in Frames |-> "none"]
  /\ queue = <<Hello>> /\ held = <<>> /\ wire = <<>>
  /\ accepted = <<Hello>>
  /\ pump = [p \in Pumps |-> "running"]
  /\ phase = "serving" /\ retErr = "none"
  /\ link = "up" /\ socket = "open"
  /\ ctx = "live"

----------------------------------------------------------------------------
(* The server, the network and the callers of SetPaused and of Run.        *)

ServerSends(k) ==
  /\ link = "up" /\ socket = "open" /\ Len(inbox) < MaxFrames
  /\ k = "refresh" => Cardinality({n \in DOMAIN inbox : inbox[n] = k}) < MaxRefreshes
  /\ inbox' = Append(inbox, k)
  /\ UNCHANGED <<read, reader, worker, outbound, ending, world>>

\* the path dies without a word, or with a reset
LinkDies(how) ==
  /\ link = "up"
  /\ link' = how
  /\ UNCHANGED <<inbound, reader, worker, outbound, ending, socket, ctx>>

\* SetPaused(true) while registered, or the context of Run
ContextEnds(cause) ==
  /\ ctx = "live"
  /\ ctx' = cause
  /\ UNCHANGED <<inbound, reader, worker, outbound, ending, link, socket>>

----------------------------------------------------------------------------
(* Send: a select between a cancelled context and room in the queue, with  *)
(* either taken when both are ready.                                       *)

\* slip: off by one
HasRoomForOneMore == Len(queue) <= QueueCap

HasRoom == Len(queue) < QueueCap

\* slip: the write pump's queue is bypassed
WriteThrough(f) ==
  /\ HasRoom
  /\ wire' = IF link = "up" /\ socket = "open" THEN Append(wire, f) ELSE wire
  /\ accepted' = Append(accepted, f)
  /\ UNCHANGED <<queue, held>>

Enqueue(f) ==
  /\ HasRoom
  /\ queue' = Append(queue, f)
  /\ accepted' = Append(accepted, f)
  /\ UNCHANGED <<held, wire>>

----------------------------------------------------------------------------
(* The read pump.                                                          *)

\* slip: every answer is left to a goroutine of its own
ReadFrameAllAsync ==
  /\ reader = "reading"
  /\ socket = "open" /\ read < Len(inbox)
  /\ read' = read + 1
  /\ worker' = CASE inbox[read'] = "ping"  -> [worker EXCEPT ![read'] = "pong"]
               [] inbox[read'] = "plain" -> worker
               [] OTHER                  -> [worker EXCEPT ![read'] = "running"]
  /\ UNCHANGED <<inbox, reader, outbound, ending, world>>

\* dispatch answers a ping itself; a command and an ack's inventory get a
\* goroutine each; all else is logged
ReadFrame ==
  /\ reader = "reading"
  /\ socket = "open" /\ read < Len(inbox)
  /\ read' = read + 1
  /\ reader' = IF inbox[read'] = "ping" THEN "ponging" ELSE "reading"
  /\ worker' = IF inbox[read'] \in {"task", "refresh"}
               THEN [worker EXCEPT ![read'] = "running"] ELSE worker
  /\ UNCHANGED <<inbox, outbound, ending, world>>

PongQueued ==
  /\ reader = "ponging"
  /\ Enqueue(<<read, "pong">>)
  /\ reader' = "reading"
  /\ UNCHANGED <<inbound, worker, ending, world>>

\* slip: a full queue is waited out even when the connection has ended
PongWaits ==
  /\ reader = "ponging" /\ Done /\ HasRoom
  /\ reader' = "reading"
  /\ UNCHANGED <<inbound, worker, outbound, ending, world>>

\* dispatch's error is only logged: the pump reads on
PongCancelled ==
  /\ reader = "ponging" /\ Done
  /\ reader' = "reading"
  /\ UNCHANGED <<inbound, worker, outbound, ending, world>>

\* slip: no read deadline
ReadFailsOnReset ==
  /\ reader = "reading"
  /\ Broken
  /\ reader' = "ended"
  /\ pump' = [pump EXCEPT !["read"] = "failure"]
  /\ UNCHANGED <<inbound, worker, outbound, phase, retErr, world>>

\* ReadMessage fails: a closed socket, a reset, or a read deadline that no
\* frame and no control pong refreshed
ReadFails ==
  /\ reader = "reading"
  /\ Broken \/ (link = "silent" /\ read = Len(inbox))
  /\ reader' = "ended"
  /\ pump' = [pump EXCEPT !["read"] = "failure"]
  /\ UNCHANGED <<inbound, worker, outbound, phase, retErr, world>>

----------------------------------------------------------------------------
(* The goroutines dispatch starts: Dispatch of a command, sendInventory.   *)

\* the handler has a result, or the inventory an ack asked for was collected
WorkerReplies(n) ==
  /\ worker[n] = "running" /\ inbox[n] = "task"
  /\ worker' = [worker EXCEPT ![n] = "answer"]
  /\ UNCHANGED <<inbound, reader, outbound, ending, world>>

\* an inventory refresh reports its collection, or that it failed
RefreshCollects(n) ==
  /\ worker[n] = "running" /\ inbox[n] = "refresh"
  /\ \E part \in {"inventory", "error"} : worker' = [worker EXCEPT ![n] = part]
  /\ UNCHANGED <<inbound, reader, outbound, ending, world>>

\* an undecodable command and a failed collection for an ack send nothing
WorkerSilent(n) ==
  /\ worker[n] = "running" /\ inbox[n] = "task"
  /\ worker' = [worker EXCEPT ![n] = "done"]
  /\ UNCHANGED <<inbound, reader, outbound, ending, world>>

WorkerQueued(n) ==
  /\ worker[n] \in Parts
  /\ Enqueue(<<n, worker[n]>>)
  /\ worker' = [worker EXCEPT ![n] = IF @ = "inventory" THEN "result" ELSE "done"]
  /\ UNCHANGED <<inbound, reader, ending, world>>

\* slip: the error of the first Send is dropped
WorkerIgnoresError(n) ==
  /\ worker[n] \in Parts /\ Done
  /\ worker' = [worker EXCEPT ![n] = IF @ = "inventory" THEN "result" ELSE "done"]
  /\ UNCHANGED <<inbound, reader, outbound, ending, world>>

\* the frame is lost, nothing carries it over to the next connection; a refresh
\* that could not send its inventory still tries to say so
WorkerCancelled(n) ==
  /\ worker[n] \in Parts /\ Done
  /\ worker' = [worker EXCEPT ![n] = IF @ = "inventory" THEN "error" ELSE "done"]
  /\ UNCHANGED <<inbound, reader, outbound, ending, world>>

----------------------------------------------------------------------------
(* The write pump, the ping pump and the telemetry pump.                   *)

WriterTakes ==
  /\ pump["write"] = "running" /\ held = <<>> /\ queue # <<>>
  /\ held' = <<Head(queue)>>
  /\ queue' = Tail(queue)
  /\ UNCHANGED <<wire, accepted, inbound, reader, worker, ending, world>>

\* a write into a silent path succeeds and is lost
WriterWrites ==
  /\ held # <<>> /\ ~Broken
  /\ wire' = IF link = "up" THEN wire \o held ELSE wire
  /\ held' = <<>>
  /\ UNCHANGED <<queue, accepted, inbound, reader, worker, ending, world>>

\* an error, or the 10s write deadline on a path that takes no more
WriterFails ==
  /\ held # <<>> /\ (Broken \/ link = "silent")
  /\ held' = <<>>
  /\ pump' = [pump EXCEPT !["write"] = "failure"]
  /\ UNCHANGED <<queue, wire, accepted, inbound, reader, worker, phase, retErr, world>>

PumpStops(p, result) ==
  /\ pump[p] = "running"
  /\ pump' = [pump EXCEPT ![p] = result]
  /\ UNCHANGED <<inbound, reader, worker, outbound, phase, retErr, world>>

WriterStops    == held = <<>> /\ Done /\ PumpStops("write", "canceled")
PingFails      == Broken /\ PumpStops("ping", "failure")
PingStops      == Done /\ PumpStops("ping", "canceled")
\* slip: telemetryLoop without a provider has nothing to report
TelemetryNil   == Done /\ PumpStops("telemetry", "none")
TelemetryStops == Done /\ PumpStops("telemetry", "canceled")

----------------------------------------------------------------------------
(* connectAndServe's select with the deferred close, then the deferred     *)
(* cancel.                                                                 *)

StopServing(err) ==
  /\ phase = "serving"
  /\ phase' = "closed"
  /\ retErr' = err
  /\ socket' = "closed"
  /\ UNCHANGED <<inbound, reader, worker, outbound, pump, link, ctx>>

SelectPump(p) == pump[p] # "running" /\ StopServing(pump[p])
SelectOuter   == ctx = "parent" /\ StopServing("canceled")

CancelAttempt ==
  /\ phase = "closed"
  /\ ctx' = IF ctx = "live" THEN "attempt" ELSE ctx
  /\ phase' = "over"
  /\ UNCHANGED <<inbound, reader, worker, outbound, pump, retErr, link, socket>>

----------------------------------------------------------------------------
Environment == \/ \E k \in Kinds : ServerSends(k)
               \/ \E how \in {"silent", "reset"} : LinkDies(how)
               \/ \E cause \in {"attempt", "parent"} : ContextEnds(cause)
ReaderStep  == ReadFrame \/ PongQueued \/ PongCancelled \/ ReadFails
HandlerStep(n) == WorkerReplies(n) \/ RefreshCollects(n) \/ WorkerSilent(n)
ReplyStep(n)   == WorkerQueued(n) \/ WorkerCancelled(n)
WriterStep  == WriterTakes \/ WriterWrites \/ WriterFails \/ WriterStops
PingStep    == PingFails \/ PingStops
ServeStep   == (\E p \in Pumps : SelectPump(p)) \/ SelectOuter
               \/ CancelAttempt

Next == \/ Environment \/ ReaderStep \/ WriterStep \/ PingStep
        \/ TelemetryStops \/ ServeStep
        \/ \E n \in Frames : HandlerStep(n) \/ ReplyStep(n)

Spec == Init /\ [][Next]_vars

\* Every goroutine that can run does, and reads and writes end by their
\* deadlines.  No handler is assumed ever to finish, no link to stay up.
FairSpec ==
  /\ Spec
  /\ WF_vars(ReaderStep) /\ WF_vars(WriterStep) /\ WF_vars(WriterStops)
  /\ WF_vars(PingStep) /\ WF_vars(TelemetryStops) /\ WF_vars(ServeStep)
  /\ \A n \in Frames : WF_vars(ReplyStep(n))

----------------------------------------------------------------------------
TypeOK ==
  /\ inbox \in Seq(Kinds) /\ read \in 0..Len(inbox)
  /\ reader \in {"reading", "ponging", "ended"}
  /\ worker \in [Frames -> {"none", "running", "done"} \union Parts]
  /\ queue \in Seq(Replies \union {Hello}) /\ Len(queue) <= QueueCap
  /\ held \in Seq(Replies \union {Hello}) /\ Len(held) <= 1
  /\ wire \in Seq(Replies \union {Hello})
  /\ pump \in [Pumps -> {"running", "failure", "canceled"}]
  /\ phase \in {"serving", "closed", "over"}
  /\ retErr \in {"none", "failure", "canceled"}
  /\ link \in {"up", "silent", "reset"} /\ socket \in {"open", "closed"}
  /\ ctx \in {"live", "attempt", "parent"}
  /\ accepted \in Seq(Replies \union {Hello})

(* connectAndServe never returns nil, which Run takes for a graceful exit: *)
(* this is what lets a pause end a connection without ending the agent (the *)
(* comment of telemetryLoop rests on it).  And it says canceled, which ends *)
(* Run for good, only when its context is: what AgentClient takes it to do. *)
EndsAsClientExpects ==
  phase # "serving" => retErr = "failure" \/ (retErr = "canceled" /\ Done)

(* Pongs leave in the order of their pings: the read pump answers inline.  *)
(* Replies to commands have no such order, each has its own goroutine.     *)
PongsInOrder ==
  \A i, j \in DOMAIN wire :
    i < j /\ wire[i][2] = "pong" /\ wire[j][2] = "pong" => wire[i][1] < wire[j][1]

(* What a refresh tells the server is so: success comes after the inventory *)
(* it is about, and a failure means that no inventory is on the wire, before *)
(* or after it, whatever the other goroutines send in between.              *)
RefreshTellsTruth ==
  \A j \in DOMAIN wire, n \in Frames :
    /\ wire[j] = <<n, "result">> =>
         \E i \in DOMAIN wire : i < j /\ wire[i] = <<n, "inventory">>
    /\ wire[j] = <<n, "error">> =>
         \A i \in DOMAIN wire : wire[i] # <<n, "inventory">>

Link == INSTANCE OrderedLink WITH delivered <- wire

(* What the server receives is a prefix of what Send accepted, hello first, *)
(* and no frame is accepted twice: a handler's second Send is another frame. *)
ImplementsOrderedLink == Link!OSpec

(* A path that died, silently or not, ends the connection.                 *)
DeadLinkSurfaces == link # "up" ~> phase = "over"

(* The read pump answers pings itself, into a bounded queue that only the  *)
(* write pump drains: it never stays blocked there.  And once an attempt is *)
(* cancelled, all four pumps and everyone in Send end.                      *)
NoGoroutineStuck ==
  /\ []<>(reader # "ponging")
  /\ Done ~> /\ phase = "over"
             /\ \A p \in Pumps : pump[p] # "running"
             /\ \A n \in Frames : worker[n] \notin Parts
=============================================================================
