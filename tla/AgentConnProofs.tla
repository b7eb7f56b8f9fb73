--------------------------- MODULE AgentConnProofs ---------------------------
(***************************************************************************)
(* Proofs about AgentConn, for any number of frames and any queue.          *)
(* FrameInv follows the frame the read pump is answering; EndInv says where *)
(* a canceled can come from; StreamInv relates what Send accepted to what   *)
(* the queue, the write pump and the server hold of it; ReplyInv says how   *)
(* far what was accepted has brought the goroutine that sent it, and in     *)
(* what order pongs were accepted; RefreshInv follows the two frames of an  *)
(* inventory refresh.                                                       *)
(***************************************************************************)
EXTENDS AgentConn, SequenceTheorems, TLAPS

Messages == Replies \union {Hello}

(* A step is the server, the network, a context, a pump, a handler or the   *)
(* select of connectAndServe: one action of one of them.                    *)
LEMMA NextCases ==
  ASSUME Next
  PROVE  \/ \E k \in Kinds : ServerSends(k)
         \/ \E how \in {"silent", "reset"} : LinkDies(how)
         \/ \E cause \in {"attempt", "parent"} : ContextEnds(cause)
         \/ ReadFrame \/ PongQueued \/ PongCancelled \/ ReadFails
         \/ \E n \in Frames : \/ WorkerReplies(n) \/ RefreshCollects(n) \/ WorkerSilent(n)
                              \/ WorkerQueued(n) \/ WorkerCancelled(n)
         \/ WriterTakes \/ WriterWrites \/ WriterFails
         \/ WriterStops \/ PingFails \/ PingStops \/ TelemetryStops
         \/ \E p \in Pumps : SelectPump(p)
         \/ SelectOuter \/ CancelAttempt
BY DEF Next, Environment, ReaderStep, HandlerStep, ReplyStep, WriterStep, PingStep, ServeStep

(* The hello connectAndServe queues first is told from every reply, and a   *)
(* reply is a frame of the server with a part.                              *)
LEMMA HelloIsNoReply ==
  /\ Hello \notin Replies /\ Hello[2] = "hello"
  /\ Frames \subseteq Nat \ {0}
  /\ \A f \in Replies : f[1] \in Frames /\ f[2] \in Parts /\ f = <<f[1], f[2]>>
  /\ \A n \in Frames, part \in Parts : <<n, part>> \in Replies
<1>1. Frames \subseteq Nat \ {0}
  BY FramesAssumption DEF Frames
<1> QED
  BY <1>1 DEF Hello, Replies

----------------------------------------------------------------------------
\* the server stays within the bound, and the read pump is blocked only on the
\* answer to a ping it has taken
FrameInv ==
  /\ Len(inbox) <= MaxFrames
  /\ reader = "ponging" => read # 0 /\ inbox[read] = "ping"

(* The connection keeps its types, the queue its capacity, and the pong the *)
(* read pump is sending answers the frame it took last.                     *)
THEOREM TypeInvariant == Spec => [](TypeOK /\ FrameInv)
<1>1. Init => TypeOK /\ FrameInv
  BY FramesAssumption, QueueAssumption DEF Init, TypeOK, FrameInv, Hello, Pumps
<1>2. TypeOK /\ FrameInv /\ [Next]_vars => (TypeOK /\ FrameInv)'
  <2> SUFFICES ASSUME TypeOK, FrameInv, [Next]_vars
               PROVE  TypeOK' /\ FrameInv'
    OBVIOUS
  <2> USE FramesAssumption, QueueAssumption
      DEF TypeOK, FrameInv, inbound, outbound, ending, world
  <2>1. ASSUME NEW k \in Kinds, ServerSends(k) PROVE TypeOK' /\ FrameInv'
    BY <2>1 DEF ServerSends
  <2>2. ASSUME NEW how \in {"silent", "reset"}, LinkDies(how) PROVE TypeOK' /\ FrameInv'
    BY <2>2 DEF LinkDies
  <2>3. ASSUME NEW cause \in {"attempt", "parent"}, ContextEnds(cause) PROVE TypeOK' /\ FrameInv'
    BY <2>3 DEF ContextEnds
  <2>4. CASE ReadFrame
    <3>1. read' \in 1 .. Len(inbox) /\ read' \in Frames
      BY <2>4 DEF ReadFrame, Frames
    <3> QED
      BY <2>4, <3>1 DEF ReadFrame
  <2>5. CASE PongQueued
    <3>1. <<read, "pong">> \in Replies
      BY <2>5 DEF PongQueued, Frames, Replies, Parts
    <3> QED
      BY <2>5, <3>1 DEF PongQueued, Enqueue, HasRoom
  <2>6. CASE PongCancelled
    BY <2>6 DEF PongCancelled
  <2>7. CASE ReadFails
    BY <2>7 DEF ReadFails
  <2>8. ASSUME NEW n \in Frames,
               WorkerReplies(n) \/ RefreshCollects(n) \/ WorkerSilent(n) \/ WorkerCancelled(n)
        PROVE  TypeOK' /\ FrameInv'
    <3>1. worker' \in [Frames -> {"none", "running", "done"} \union Parts]
      BY <2>8 DEF WorkerReplies, RefreshCollects, WorkerSilent, WorkerCancelled, Parts
    <3> QED
      BY <2>8, <3>1 DEF WorkerReplies, RefreshCollects, WorkerSilent, WorkerCancelled
  <2>9. ASSUME NEW n \in Frames, WorkerQueued(n) PROVE TypeOK' /\ FrameInv'
    <3>1. <<n, worker[n]>> \in Replies
      BY <2>9 DEF WorkerQueued, Replies
    <3>2. worker' \in [Frames -> {"none", "running", "done"} \union Parts]
      BY <2>9 DEF WorkerQueued, Parts
    <3> QED
      BY <2>9, <3>1, <3>2 DEF WorkerQueued, Enqueue, HasRoom
  <2>10. CASE WriterTakes
    BY <2>10 DEF WriterTakes
  <2>11. CASE WriterWrites
    BY <2>11 DEF WriterWrites
  <2>12. CASE WriterFails
    BY <2>12 DEF WriterFails, Pumps
  <2>13. CASE WriterStops \/ PingFails \/ PingStops \/ TelemetryStops
    <3>1. pump' \in [Pumps -> {"running", "failure", "canceled"}]
      BY <2>13 DEF WriterStops, PingFails, PingStops, TelemetryStops, PumpStops
    <3> QED
      BY <2>13, <3>1 DEF WriterStops, PingFails, PingStops, TelemetryStops, PumpStops
  <2>14. ASSUME NEW p \in Pumps, SelectPump(p) PROVE TypeOK' /\ FrameInv'
    BY <2>14 DEF SelectPump, StopServing
  <2>15. CASE SelectOuter
    BY <2>15 DEF SelectOuter, StopServing
  <2>16. CASE CancelAttempt
    BY <2>16 DEF CancelAttempt
  <2>17. CASE UNCHANGED vars
    BY <2>17 DEF vars
  <2> QED
    BY <2>1, <2>2, <2>3, <2>4, <2>5, <2>6, <2>7, <2>8, <2>9, <2>10, <2>11, <2>12,
       <2>13, <2>14, <2>15, <2>16, <2>17, NextCases
<1> QED
  BY <1>1, <1>2, PTL DEF Spec

(* Type correctness, the capacity of the send queue included.               *)
THEOREM TypeCorrect == Spec => []TypeOK
BY TypeInvariant, PTL

----------------------------------------------------------------------------
\* a pump says canceled only under a cancelled context, and a context that was
\* cancelled stays so
EndInv ==
  /\ \A p \in Pumps : pump[p] = "canceled" => Done
  /\ EndsAsClientExpects

(* connectAndServe ends with a failure, or with a cancellation that really  *)
(* happened: never with nil.                                                *)
THEOREM EndInvariant == Spec => []EndInv
<1>1. Init => EndInv
  BY DEF Init, EndInv, EndsAsClientExpects
<1>2. TypeOK /\ EndInv /\ [Next]_vars => EndInv'
  <2> SUFFICES ASSUME TypeOK, EndInv, [Next]_vars
               PROVE  EndInv'
    OBVIOUS
  <2> USE DEF TypeOK, EndInv, EndsAsClientExpects, Done, Pumps, inbound, outbound, ending, world
  <2>1. ASSUME NEW k \in Kinds, ServerSends(k) PROVE EndInv'
    BY <2>1 DEF ServerSends
  <2>2. ASSUME NEW how \in {"silent", "reset"}, LinkDies(how) PROVE EndInv'
    BY <2>2 DEF LinkDies
  <2>3. ASSUME NEW cause \in {"attempt", "parent"}, ContextEnds(cause) PROVE EndInv'
    BY <2>3 DEF ContextEnds
  <2>4. CASE ReadFrame \/ PongQueued \/ PongCancelled
    BY <2>4 DEF ReadFrame, PongQueued, PongCancelled
  <2>5. CASE ReadFails
    BY <2>5 DEF ReadFails
  <2>6. ASSUME NEW n \in Frames,
               \/ WorkerReplies(n) \/ RefreshCollects(n) \/ WorkerSilent(n)
               \/ WorkerCancelled(n) \/ WorkerQueued(n)
        PROVE  EndInv'
    BY <2>6 DEF WorkerReplies, RefreshCollects, WorkerSilent, WorkerCancelled, WorkerQueued
  <2>7. CASE WriterTakes \/ WriterWrites
    BY <2>7 DEF WriterTakes, WriterWrites
  <2>8. CASE WriterFails
    BY <2>8 DEF WriterFails
  <2>9. CASE WriterStops \/ PingFails \/ PingStops \/ TelemetryStops
    BY <2>9 DEF WriterStops, PingFails, PingStops, TelemetryStops, PumpStops
  <2>10. ASSUME NEW p \in Pumps, SelectPump(p) PROVE EndInv'
    BY <2>10 DEF SelectPump, StopServing
  <2>11. CASE SelectOuter
    BY <2>11 DEF SelectOuter, StopServing
  <2>12. CASE CancelAttempt
    BY <2>12 DEF CancelAttempt
  <2>13. CASE UNCHANGED vars
    BY <2>13 DEF vars
  <2> QED
    BY <2>1, <2>2, <2>3, <2>4, <2>5, <2>6, <2>7, <2>8, <2>9, <2>10, <2>11, <2>12,
       <2>13, NextCases
<1> QED
  BY <1>1, <1>2, TypeInvariant, PTL DEF Spec

(* What AgentClient takes the end of a connection to be: this is the step   *)
(* its PumpFails and PumpCancelled stand for.                               *)
THEOREM EndIsExpected == Spec => []EndsAsClientExpects
<1>1. EndInv => EndsAsClientExpects
  BY DEF EndInv
<1> QED
  BY <1>1, EndInvariant, PTL

----------------------------------------------------------------------------
\* while the path is up and the write pump runs, what Send accepted is what the
\* server received, then the frame in the pump's hands, then the queue; once
\* either ends the server receives no more
Flowing == link = "up" /\ pump["write"] = "running"

StreamInv ==
  /\ Len(wire) <= Len(accepted)
  /\ \A i \in 1 .. Len(wire) : wire[i] = accepted[i]
  /\ held # <<>> => pump["write"] = "running"
  /\ Flowing =>
       /\ Len(accepted) = Len(wire) + Len(held) + Len(queue)
       /\ held # <<>> => held[1] = accepted[Len(wire) + 1]
       /\ \A i \in 1 .. Len(queue) : queue[i] = accepted[Len(wire) + Len(held) + i]

\* where the sender of a part is once Send has accepted it: past it, so that it
\* cannot send it again
Answered(n, part) ==
  /\ n <= read
  /\ \/ part = "pong"      /\ inbox[n] = "ping"    /\ (n < read \/ reader # "ponging")
     \/ part = "answer"    /\ inbox[n] = "task"    /\ worker[n] = "done"
     \/ part = "inventory" /\ inbox[n] = "refresh" /\ worker[n] \in {"result", "done"}
     \/ part \in {"result", "error"} /\ inbox[n] = "refresh" /\ worker[n] = "done"

WorkersSound ==
  \A n \in Frames :
    /\ worker[n] # "none" => n <= read
    /\ worker[n] \in {"running", "done"} => inbox[n] \in {"task", "refresh"}
    /\ worker[n] \in Parts =>
         \/ worker[n] = "answer" /\ inbox[n] = "task"
         \/ worker[n] \in {"inventory", "result", "error"} /\ inbox[n] = "refresh"

AcceptedAnswers ==
  \A i \in DOMAIN accepted, n \in Frames, part \in Parts :
    accepted[i] = <<n, part>> => Answered(n, part)

PongsAccepted ==
  \A i, j \in DOMAIN accepted, m, n \in Frames :
    i < j /\ accepted[i] = <<m, "pong">> /\ accepted[j] = <<n, "pong">> => m < n

ReplyInv == WorkersSound /\ AcceptedAnswers /\ PongsAccepted

\* RefreshTellsTruth of what was accepted, with the result still to be sent
InventoryAccepted(n, before) ==
  \E i \in DOMAIN accepted : i < before /\ accepted[i] = <<n, "inventory">>

RefreshInv ==
  \A n \in Frames :
    /\ worker[n] = "result" => InventoryAccepted(n, Len(accepted) + 1)
    /\ \A j \in DOMAIN accepted :
         /\ accepted[j] = <<n, "result">> => InventoryAccepted(n, j)
         /\ accepted[j] = <<n, "error">> => ~InventoryAccepted(n, Len(accepted) + 1)

----------------------------------------------------------------------------
(* The write pump holds nothing, or the one frame it is writing.            *)
LEMMA HeldLength ==
  ASSUME TypeOK
  PROVE  /\ held = <<>> => Len(held) = 0
         /\ held # <<>> => Len(held) = 1
<1>0. Len(held) <= 1
  BY DEF TypeOK
<1>1. held \in Seq(Messages)
  BY DEF TypeOK, Messages
<1>2. held # <<>> => Len(held) \in Nat \ {0}
  BY <1>1, EmptySeq, Zenon
<1>3. held = <<>> => Len(held) = 0
  BY <1>1, EmptySeq, Zenon
<1>4. ASSUME held # <<>> PROVE Len(held) = 1
  <2>1. Len(held) \in Nat \ {0}
    BY <1>2, <1>4
  <2> QED
    BY <1>0, <2>1
<1> QED
  BY <1>3, <1>4

(* Send, by whoever calls it, appends to both ends of the stream.           *)
LEMMA EnqueueKeepsStream ==
  ASSUME TypeOK, StreamInv, NEW f \in Replies, Enqueue(f), UNCHANGED <<pump, link>>
  PROVE  StreamInv'
<1>1. /\ Len(accepted) \in Nat /\ Len(accepted') = Len(accepted) + 1
      /\ \A i \in 1 .. Len(accepted) : accepted'[i] = accepted[i]
      /\ accepted'[Len(accepted) + 1] = f
  BY DEF TypeOK, Enqueue
<1>2. /\ Len(queue) \in Nat /\ Len(queue') = Len(queue) + 1
      /\ \A i \in 1 .. Len(queue) : queue'[i] = queue[i]
      /\ queue'[Len(queue) + 1] = f
  BY DEF TypeOK, Enqueue
<1>3. /\ wire' = wire /\ Len(wire) \in Nat
      /\ held' = held /\ Len(held) \in Nat
      /\ held # <<>> => Len(held) = 1
  BY HeldLength DEF TypeOK, Enqueue
<1>4. /\ Len(wire') <= Len(accepted')
      /\ \A i \in 1 .. Len(wire') : wire'[i] = accepted'[i]
      /\ held' # <<>> => pump'["write"] = "running"
  BY <1>1, <1>3 DEF StreamInv
<1>5. ASSUME Flowing'
      PROVE  /\ Len(accepted') = Len(wire') + Len(held') + Len(queue')
             /\ held' # <<>> => held'[1] = accepted'[Len(wire') + 1]
             /\ \A i \in 1 .. Len(queue') :
                  queue'[i] = accepted'[Len(wire') + Len(held') + i]
  <2>1. Flowing
    BY <1>5 DEF Flowing
  <2>2. /\ Len(accepted) = Len(wire) + Len(held) + Len(queue)
        /\ held # <<>> => held[1] = accepted[Len(wire) + 1]
        /\ \A i \in 1 .. Len(queue) : queue[i] = accepted[Len(wire) + Len(held) + i]
    BY <2>1 DEF StreamInv
  <2>3. held # <<>> => held[1] = accepted'[Len(wire) + 1]
    <3> SUFFICES ASSUME held # <<>> PROVE held[1] = accepted'[Len(wire) + 1]
      OBVIOUS
    <3>1. Len(wire) + 1 \in 1 .. Len(accepted)
      BY <1>2, <1>3, <2>2
    <3> QED
      BY <1>1, <2>2, <3>1
  <2>4. ASSUME NEW i \in 1 .. Len(queue) + 1
        PROVE  queue'[i] = accepted'[Len(wire) + Len(held) + i]
    <3>1. CASE i = Len(queue) + 1
      <4>1. Len(wire) + Len(held) + i = Len(accepted) + 1
        BY <1>1, <1>2, <1>3, <2>2, <3>1
      <4> QED
        BY <1>1, <1>2, <3>1, <4>1
    <3>2. CASE i \in 1 .. Len(queue)
      <4>1. Len(wire) + Len(held) + i \in 1 .. Len(accepted)
        BY <1>2, <1>3, <2>2, <3>2
      <4> QED
        BY <1>1, <1>2, <2>2, <3>2, <4>1
    <3> QED
      BY <1>2, <3>1, <3>2
  <2>5. Len(accepted') = Len(wire') + Len(held') + Len(queue')
    BY <1>1, <1>2, <1>3, <2>2
  <2> QED
    BY <1>2, <1>3, <2>3, <2>4, <2>5
<1> QED
  BY <1>4, <1>5 DEF StreamInv

(* The frame the write pump takes was the oldest in the queue.              *)
LEMMA WriterTakesKeepsStream ==
  ASSUME TypeOK, StreamInv, WriterTakes
  PROVE  StreamInv'
<1> USE DEF WriterTakes, world, ending
<1>1. /\ Len(queue) \in Nat \ {0} /\ Len(queue') = Len(queue) - 1
      /\ \A i \in 1 .. Len(queue') : queue'[i] = queue[i + 1]
      /\ held' = <<queue[1]>> /\ Len(held') = 1 /\ held'[1] = queue[1]
  BY EmptySeq, HeadTailProperties DEF TypeOK
<1>2. /\ Len(held) = 0 /\ wire' = wire /\ accepted' = accepted /\ Flowing' = Flowing
      /\ pump' = pump /\ pump["write"] = "running" /\ Len(wire) \in Nat
  BY DEF TypeOK, Flowing
<1>3. ASSUME Flowing
      PROVE  /\ Len(accepted) = Len(wire) + Len(held) + Len(queue)
             /\ \A i \in 1 .. Len(queue) : queue[i] = accepted[Len(wire) + i]
  <2>1. /\ Len(accepted) = Len(wire) + Len(held) + Len(queue)
        /\ \A i \in 1 .. Len(queue) : queue[i] = accepted[Len(wire) + Len(held) + i]
    BY <1>3 DEF StreamInv
  <2>2. Len(wire) + Len(held) = Len(wire)
    BY <1>2
  <2> QED
    BY <2>1, <2>2
<1>4. ASSUME Flowing, NEW i \in 1 .. Len(queue')
      PROVE  queue'[i] = accepted[Len(wire) + Len(held') + i]
  <2>1. i + 1 \in 1 .. Len(queue) /\ Len(wire) + (i + 1) = Len(wire) + Len(held') + i
    BY <1>1, <1>2
  <2> QED
    BY <1>1, <1>3, <1>4, <2>1
<1>5. ASSUME Flowing
      PROVE  /\ Len(accepted) = Len(wire) + Len(held') + Len(queue')
             /\ held'[1] = accepted[Len(wire) + 1]
  <2>1. 1 \in 1 .. Len(queue)
    BY <1>1
  <2>2. queue[1] = accepted[Len(wire) + 1]
    BY <1>3, <1>5, <2>1
  <2>3. Len(accepted) = Len(wire) + Len(held') + Len(queue')
    <3>1. Len(accepted) = Len(wire) + 0 + Len(queue)
      BY <1>2, <1>3, <1>5
    <3>2. Len(held') = 1 /\ Len(queue') = Len(queue) - 1
      BY <1>1
    <3> QED
      BY <1>1, <1>2, <3>1, <3>2
  <2> QED
    BY <1>1, <2>2, <2>3
<1> QED
  BY <1>1, <1>2, <1>4, <1>5 DEF StreamInv

(* What the server received is what Send accepted first, and nothing between *)
(* that and the frame the write pump holds is missing.                       *)
THEOREM StreamInvariant == Spec => []StreamInv
<1>1. Init => StreamInv
  BY DEF Init, StreamInv, Flowing, Pumps
<1>2. TypeOK /\ FrameInv /\ StreamInv /\ [Next]_vars => StreamInv'
  <2> SUFFICES ASSUME TypeOK, FrameInv, StreamInv, [Next]_vars
               PROVE  StreamInv'
    OBVIOUS
  <2> USE DEF inbound, outbound, ending, world
  <2>1. ASSUME UNCHANGED outbound, pump'["write"] = pump["write"], link' \in {link, "silent", "reset"}
        PROVE  StreamInv'
    BY <2>1 DEF StreamInv, Flowing
  <2>2. ASSUME NEW k \in Kinds, ServerSends(k) PROVE StreamInv'
    BY <2>1, <2>2 DEF ServerSends
  <2>3. ASSUME NEW how \in {"silent", "reset"}, LinkDies(how) PROVE StreamInv'
    BY <2>1, <2>3 DEF LinkDies
  <2>4. ASSUME NEW cause \in {"attempt", "parent"}, ContextEnds(cause) PROVE StreamInv'
    BY <2>1, <2>4 DEF ContextEnds
  <2>5. CASE ReadFrame \/ PongCancelled
    BY <2>1, <2>5 DEF ReadFrame, PongCancelled
  <2>6. CASE PongQueued
    <3>1. <<read, "pong">> \in Replies
      BY <2>6, FramesAssumption DEF PongQueued, TypeOK, FrameInv, Frames, Replies, Parts
    <3> QED
      BY <2>6, <3>1, EnqueueKeepsStream DEF PongQueued
  <2>7. CASE ReadFails
    BY <2>1, <2>7 DEF ReadFails, TypeOK, Pumps
  <2>8. ASSUME NEW n \in Frames,
               WorkerReplies(n) \/ RefreshCollects(n) \/ WorkerSilent(n) \/ WorkerCancelled(n)
        PROVE  StreamInv'
    BY <2>1, <2>8 DEF WorkerReplies, RefreshCollects, WorkerSilent, WorkerCancelled
  <2>9. ASSUME NEW n \in Frames, WorkerQueued(n) PROVE StreamInv'
    <3>1. <<n, worker[n]>> \in Replies
      BY <2>9 DEF WorkerQueued, Replies
    <3> QED
      BY <2>9, <3>1, EnqueueKeepsStream DEF WorkerQueued
  <2>10. CASE WriterTakes
    BY <2>10, WriterTakesKeepsStream
  <2>11. CASE WriterWrites
    BY <2>11 DEF WriterWrites, TypeOK, StreamInv, Flowing
  <2>12. CASE WriterFails
    BY <2>12 DEF WriterFails, TypeOK, StreamInv, Flowing, Pumps
  <2>13. CASE WriterStops \/ PingFails \/ PingStops \/ TelemetryStops
    BY <2>13 DEF WriterStops, PingFails, PingStops, TelemetryStops, PumpStops,
                 TypeOK, StreamInv, Flowing, Pumps
  <2>14. ASSUME NEW p \in Pumps, SelectPump(p) PROVE StreamInv'
    BY <2>1, <2>14 DEF SelectPump, StopServing
  <2>15. CASE SelectOuter \/ CancelAttempt
    BY <2>1, <2>15 DEF SelectOuter, StopServing, CancelAttempt
  <2>16. CASE UNCHANGED vars
    BY <2>1, <2>16 DEF vars
  <2> QED
    BY <2>2, <2>3, <2>4, <2>5, <2>6, <2>7, <2>8, <2>9, <2>10, <2>11, <2>12,
       <2>13, <2>14, <2>15, <2>16, NextCases
<1> QED
  BY <1>1, <1>2, TypeInvariant, PTL DEF Spec

----------------------------------------------------------------------------
(* Send keeps the replies sound when its caller is past the frame it had     *)
(* accepted and, for a pong, answers a later frame than every pong before.   *)
LEMMA EnqueueKeepsReplies ==
  ASSUME TypeOK, NEW n \in Frames, NEW part \in Parts, Enqueue(<<n, part>>), PongsAccepted,
         \A i \in DOMAIN accepted, m \in Frames, p \in Parts :
           accepted[i] = <<m, p>> => Answered(m, p)',
         Answered(n, part)',
         part = "pong" =>
           \A i \in DOMAIN accepted, m \in Frames : accepted[i] = <<m, "pong">> => m < n
  PROVE  AcceptedAnswers' /\ PongsAccepted'
<1>1. /\ Len(accepted) \in Nat
      /\ DOMAIN accepted = 1 .. Len(accepted)
      /\ DOMAIN accepted' = 1 .. Len(accepted) + 1
      /\ \A i \in 1 .. Len(accepted) : accepted'[i] = accepted[i]
      /\ accepted'[Len(accepted) + 1] = <<n, part>>
  BY DEF TypeOK, Enqueue
<1>2. ASSUME NEW i \in DOMAIN accepted', NEW m \in Frames, NEW p \in Parts,
             accepted'[i] = <<m, p>>
      PROVE  Answered(m, p)'
  <2>1. CASE i = Len(accepted) + 1
    <3>1. m = n /\ p = part
      BY <1>1, <1>2, <2>1
    <3> QED
      BY <3>1
  <2>2. CASE i \in 1 .. Len(accepted)
    BY <1>1, <1>2, <2>2
  <2> QED
    BY <1>1, <2>1, <2>2
<1>3. ASSUME NEW i \in DOMAIN accepted', NEW j \in DOMAIN accepted', i < j,
             NEW l \in Frames, NEW m \in Frames,
             accepted'[i] = <<l, "pong">>, accepted'[j] = <<m, "pong">>
      PROVE  l < m
  <2>1. i \in DOMAIN accepted /\ accepted[i] = <<l, "pong">>
    BY <1>1, <1>3
  <2>2. CASE j = Len(accepted) + 1
    <3>1. m = n /\ part = "pong"
      BY <1>1, <1>3, <2>2
    <3> QED
      BY <2>1, <3>1
  <2>3. CASE j \in 1 .. Len(accepted)
    BY <1>1, <1>3, <2>1, <2>3 DEF PongsAccepted
  <2> QED
    BY <1>1, <2>2, <2>3
<1> QED
  BY <1>2, <1>3 DEF AcceptedAnswers, PongsAccepted

(* Every frame Send accepted answers one that was read, whoever sent it is   *)
(* past it, a goroutine sends only what its kind of command calls for, and   *)
(* pongs are accepted in the order of their pings.                           *)
THEOREM ReplyInvariant == Spec => []ReplyInv
<1>1. Init => ReplyInv
  BY HelloIsNoReply DEF Init, ReplyInv, WorkersSound, AcceptedAnswers, PongsAccepted, Hello, Parts
<1>2. TypeOK /\ FrameInv /\ ReplyInv /\ [Next]_vars => ReplyInv'
  <2> SUFFICES ASSUME TypeOK, FrameInv, ReplyInv, [Next]_vars
               PROVE  ReplyInv'
    OBVIOUS
  <2> USE DEF inbound, outbound, ending, world
  <2>0. /\ read \in Nat
        /\ Frames \subseteq Nat \ {0}
        /\ \A n \in 1 .. read : n \in 1 .. Len(inbox) /\ inbox[n] \in Kinds
    BY HelloIsNoReply DEF TypeOK
  <2>1. ASSUME UNCHANGED <<inbound, reader, worker, accepted>> PROVE ReplyInv'
    BY <2>1 DEF ReplyInv, WorkersSound, AcceptedAnswers, PongsAccepted, Answered
  <2>2. ASSUME NEW k \in Kinds, ServerSends(k) PROVE ReplyInv'
    <3>1. \A n \in Frames : n <= read => inbox'[n] = inbox[n]
      BY <2>0, <2>2 DEF ServerSends, TypeOK
    <3>2. WorkersSound'
      BY <2>2, <3>1 DEF ServerSends, ReplyInv, WorkersSound
    <3>3. AcceptedAnswers'
      <4> SUFFICES ASSUME NEW i \in DOMAIN accepted, NEW n \in Frames, NEW part \in Parts,
                          accepted[i] = <<n, part>>
                   PROVE  Answered(n, part)'
        BY <2>2 DEF ServerSends, AcceptedAnswers
      <4>1. Answered(n, part)
        BY DEF ReplyInv, AcceptedAnswers
      <4> QED
        BY <2>2, <3>1, <4>1 DEF ServerSends, Answered
    <3> QED
      BY <2>2, <3>2, <3>3 DEF ServerSends, ReplyInv, PongsAccepted
  <2>3. ASSUME NEW how \in {"silent", "reset"}, LinkDies(how) PROVE ReplyInv'
    BY <2>1, <2>3 DEF LinkDies
  <2>4. ASSUME NEW cause \in {"attempt", "parent"}, ContextEnds(cause) PROVE ReplyInv'
    BY <2>1, <2>4 DEF ContextEnds
  <2>5. CASE ReadFrame
    <3>1. /\ read' = read + 1 /\ reader # "ponging" /\ inbox' = inbox /\ accepted' = accepted
          /\ \A m \in Frames : m # read' => worker'[m] = worker[m]
          /\ read' \in Frames => worker'[read'] \in {worker[read'], "running"}
          /\ worker'[read'] = worker[read'] \/ inbox[read'] \in {"task", "refresh"}
      BY <2>5 DEF ReadFrame, TypeOK
    <3>2. WorkersSound'
      BY <2>0, <3>1 DEF ReplyInv, WorkersSound, Parts
    <3>3. AcceptedAnswers'
      <4> SUFFICES ASSUME NEW i \in DOMAIN accepted, NEW n \in Frames, NEW part \in Parts,
                          accepted[i] = <<n, part>>
                   PROVE  Answered(n, part)'
        BY <3>1 DEF AcceptedAnswers
      <4>1. Answered(n, part)
        BY DEF ReplyInv, AcceptedAnswers
      <4>2. n <= read /\ n < read' /\ n # read' /\ n <= read'
        BY <2>0, <3>1, <4>1 DEF Answered
      <4> QED
        BY <3>1, <4>1, <4>2 DEF Answered
    <3> QED
      BY <3>1, <3>2, <3>3 DEF ReplyInv, PongsAccepted
  <2>6. CASE PongQueued
    <3>1. read \in Frames /\ inbox[read] = "ping"
      BY <2>6, FramesAssumption DEF PongQueued, TypeOK, FrameInv, Frames
    <3>2. \A i \in DOMAIN accepted, m \in Frames : accepted[i] = <<m, "pong">> => m < read
      BY <2>6 DEF PongQueued, ReplyInv, AcceptedAnswers, Answered, Parts
    <3>3. \A i \in DOMAIN accepted, m \in Frames, p \in Parts :
            accepted[i] = <<m, p>> => Answered(m, p)'
      BY <2>6 DEF PongQueued, ReplyInv, AcceptedAnswers, Answered
    <3>4. Answered(read, "pong")'
      BY <2>0, <2>6, <3>1 DEF PongQueued, Answered
    <3>5. AcceptedAnswers' /\ PongsAccepted'
      BY <2>6, <3>1, <3>2, <3>3, <3>4, EnqueueKeepsReplies DEF PongQueued, ReplyInv, Parts
    <3> QED
      BY <2>6, <3>5 DEF PongQueued, ReplyInv, WorkersSound
  <2>7. CASE PongCancelled \/ ReadFails
    BY <2>7 DEF PongCancelled, ReadFails, ReplyInv, WorkersSound, AcceptedAnswers, PongsAccepted, Answered
  <2>8. ASSUME NEW n \in Frames,
               WorkerReplies(n) \/ RefreshCollects(n) \/ WorkerSilent(n) \/ WorkerCancelled(n)
        PROVE  ReplyInv'
    <3>1. /\ UNCHANGED <<inbox, read, reader, accepted>>
          /\ \A m \in Frames : m # n => worker'[m] = worker[m]
          /\ worker[n] \in {"running"} \union Parts
      BY <2>8 DEF WorkerReplies, RefreshCollects, WorkerSilent, WorkerCancelled, TypeOK
    <3>2. /\ worker'[n] \in {"answer", "inventory", "error", "done"}
          /\ worker'[n] = "answer" => inbox[n] = "task"
          /\ worker'[n] \in {"inventory", "error"} => inbox[n] = "refresh"
      BY <2>8 DEF WorkerReplies, RefreshCollects, WorkerSilent, WorkerCancelled, TypeOK,
                  ReplyInv, WorkersSound, Parts
    <3>3. WorkersSound'
      BY <3>1, <3>2 DEF ReplyInv, WorkersSound, Parts
    <3>4. worker[n] = "result" => worker'[n] = "done"
      BY <2>8 DEF WorkerReplies, RefreshCollects, WorkerSilent, WorkerCancelled, TypeOK, Parts
    <3>5. AcceptedAnswers'
      BY <3>1, <3>2, <3>4 DEF ReplyInv, AcceptedAnswers, Answered, Parts
    <3> QED
      BY <3>1, <3>3, <3>5 DEF ReplyInv, PongsAccepted
  <2>9. ASSUME NEW n \in Frames, WorkerQueued(n) PROVE ReplyInv'
    <3>1. /\ UNCHANGED <<inbox, read, reader>> /\ n <= read /\ worker[n] \in Parts
          /\ \A m \in Frames : m # n => worker'[m] = worker[m]
          /\ worker'[n] = IF worker[n] = "inventory" THEN "result" ELSE "done"
          /\ \/ worker[n] = "answer" /\ inbox[n] = "task"
             \/ worker[n] \in {"inventory", "result", "error"} /\ inbox[n] = "refresh"
      BY <2>9 DEF WorkerQueued, TypeOK, ReplyInv, WorkersSound, Parts
    <3>2. WorkersSound'
      BY <3>1 DEF ReplyInv, WorkersSound, Parts
    <3>3. \A i \in DOMAIN accepted, m \in Frames, p \in Parts :
            accepted[i] = <<m, p>> => Answered(m, p)'
      BY <3>1 DEF ReplyInv, AcceptedAnswers, Answered
    <3>4. PICK part \in Parts : part = worker[n]
      BY <3>1
    <3>5. part # "pong" /\ Enqueue(<<n, part>>)
      BY <2>9, <3>1, <3>4 DEF WorkerQueued
    <3>6. Answered(n, part)'
      BY <3>1, <3>4 DEF Answered
    <3>7. AcceptedAnswers' /\ PongsAccepted'
      BY <3>3, <3>5, <3>6, EnqueueKeepsReplies DEF ReplyInv
    <3> QED
      BY <3>2, <3>7 DEF ReplyInv
  <2>10. CASE WriterTakes \/ WriterWrites \/ WriterFails
    BY <2>1, <2>10 DEF WriterTakes, WriterWrites, WriterFails
  <2>11. CASE WriterStops \/ PingFails \/ PingStops \/ TelemetryStops
    BY <2>1, <2>11 DEF WriterStops, PingFails, PingStops, TelemetryStops, PumpStops
  <2>12. ASSUME NEW p \in Pumps, SelectPump(p) PROVE ReplyInv'
    BY <2>1, <2>12 DEF SelectPump, StopServing
  <2>13. CASE SelectOuter \/ CancelAttempt
    BY <2>1, <2>13 DEF SelectOuter, StopServing, CancelAttempt
  <2>14. CASE UNCHANGED vars
    BY <2>1, <2>14 DEF vars
  <2> QED
    BY <2>2, <2>3, <2>4, <2>5, <2>6, <2>7, <2>8, <2>9, <2>10, <2>11, <2>12,
       <2>13, <2>14, NextCases
<1> QED
  BY <1>1, <1>2, TypeInvariant, PTL DEF Spec

(* The server sees the pongs in the order of its pings, whatever the command *)
(* handlers and the write pump do meanwhile.                                 *)
THEOREM PongsStayInOrder == Spec => []PongsInOrder
<1>1. TypeOK /\ StreamInv /\ ReplyInv => PongsInOrder
  <2> SUFFICES ASSUME TypeOK, StreamInv, ReplyInv,
                      NEW i \in DOMAIN wire, NEW j \in DOMAIN wire, i < j,
                      wire[i][2] = "pong", wire[j][2] = "pong"
               PROVE  wire[i][1] < wire[j][1]
    BY DEF PongsInOrder
  <2>1. /\ DOMAIN wire = 1 .. Len(wire) /\ Len(wire) \in Nat
        /\ DOMAIN accepted = 1 .. Len(accepted) /\ Len(accepted) \in Nat
    BY DEF TypeOK
  <2>2. Len(wire) <= Len(accepted) /\ \A k \in 1 .. Len(wire) : wire[k] = accepted[k]
    BY DEF StreamInv
  <2>3. wire[i] \in Replies /\ wire[j] \in Replies
    BY HelloIsNoReply DEF TypeOK
  <2>4. i \in DOMAIN accepted /\ j \in DOMAIN accepted
    BY <2>1, <2>2
  <2>5. /\ accepted[i] = <<wire[i][1], "pong">> /\ wire[i][1] \in Frames
        /\ accepted[j] = <<wire[j][1], "pong">> /\ wire[j][1] \in Frames
    BY <2>1, <2>2, <2>3, HelloIsNoReply
  <2> QED
    BY <2>4, <2>5 DEF ReplyInv, PongsAccepted
<1> QED
  BY <1>1, TypeCorrect, StreamInvariant, ReplyInvariant, PTL

----------------------------------------------------------------------------
(* A goroutine's Send leaves the refreshes sound: its own as its handler     *)
(* orders the two frames, the others because it sends nothing for them.      *)
LEMMA EnqueueKeepsRefreshes ==
  ASSUME TypeOK, ReplyInv, RefreshInv, NEW n \in Frames, NEW part \in Parts,
         Enqueue(<<n, part>>),
         part = worker[n] \/ part = "pong",
         \A m \in Frames : worker'[m] = "result" =>
           worker[m] = "result" \/ (m = n /\ part = "inventory")
  PROVE  RefreshInv'
<1>1. /\ Len(accepted) \in Nat /\ Len(accepted') = Len(accepted) + 1
      /\ DOMAIN accepted = 1 .. Len(accepted)
      /\ DOMAIN accepted' = 1 .. Len(accepted) + 1
      /\ \A i \in 1 .. Len(accepted) : accepted'[i] = accepted[i]
      /\ accepted'[Len(accepted) + 1] = <<n, part>>
  BY DEF TypeOK, Enqueue
<1>2. ASSUME NEW m \in Frames, NEW b \in Nat, InventoryAccepted(m, b)
      PROVE  \A c \in Nat : b <= c => InventoryAccepted(m, c)'
  BY <1>1, <1>2 DEF InventoryAccepted
<1>3. ASSUME NEW m \in Frames, worker'[m] = "result"
      PROVE  InventoryAccepted(m, Len(accepted) + 1)'
  <2>1. CASE worker[m] = "result"
    <3>1. InventoryAccepted(m, Len(accepted) + 1)
      BY <2>1 DEF RefreshInv
    <3> QED
      BY <1>1, <1>2, <3>1
  <2>2. CASE m = n /\ part = "inventory"
    BY <1>1, <2>2 DEF InventoryAccepted
  <2> QED
    BY <1>3, <2>1, <2>2
<1>4. ASSUME NEW m \in Frames, NEW j \in DOMAIN accepted', accepted'[j] = <<m, "result">>
      PROVE  InventoryAccepted(m, j)'
  <2>1. CASE j \in DOMAIN accepted
    <3>1. InventoryAccepted(m, j)
      BY <1>1, <1>4, <2>1 DEF RefreshInv
    <3> QED
      BY <1>1, <1>2, <2>1, <3>1
  <2>2. CASE j = Len(accepted) + 1
    <3>1. m = n /\ worker[m] = "result"
      BY <1>1, <1>4, <2>2
    <3>2. InventoryAccepted(m, j)
      BY <2>2, <3>1 DEF RefreshInv
    <3> QED
      BY <1>1, <1>2, <2>2, <3>2
  <2> QED
    BY <1>1, <2>1, <2>2
<1>5. ASSUME NEW m \in Frames, NEW j \in DOMAIN accepted', accepted'[j] = <<m, "error">>,
             NEW i \in DOMAIN accepted', accepted'[i] = <<m, "inventory">>
      PROVE  FALSE
  <2>1. CASE j \in DOMAIN accepted /\ i \in DOMAIN accepted
    BY <1>1, <1>5, <2>1 DEF RefreshInv, InventoryAccepted
  <2>2. CASE j \in DOMAIN accepted /\ i = Len(accepted) + 1
    <3>1. m = n /\ worker[m] = "inventory"
      BY <1>1, <1>5, <2>2
    <3>2. Answered(m, "error")
      BY <1>1, <1>5, <2>2 DEF ReplyInv, AcceptedAnswers, Parts
    <3> QED
      BY <3>1, <3>2 DEF Answered
  <2>3. CASE j = Len(accepted) + 1 /\ i \in DOMAIN accepted
    <3>1. m = n /\ worker[m] = "error"
      BY <1>1, <1>5, <2>3
    <3>2. Answered(m, "inventory")
      BY <1>1, <1>5, <2>3 DEF ReplyInv, AcceptedAnswers, Parts
    <3> QED
      BY <3>1, <3>2 DEF Answered
  <2>4. CASE j = Len(accepted) + 1 /\ i = Len(accepted) + 1
    BY <1>1, <1>5, <2>4
  <2> QED
    BY <1>1, <2>1, <2>2, <2>3, <2>4
<1> QED
  BY <1>1, <1>3, <1>4, <1>5 DEF RefreshInv, InventoryAccepted

(* Of an inventory refresh, the result is accepted after the inventory, and  *)
(* an error only when the inventory was not and never will be.               *)
THEOREM RefreshInvariant == Spec => []RefreshInv
<1>1. Init => RefreshInv
  BY DEF Init, RefreshInv, Hello
<1>2. TypeOK /\ FrameInv /\ ReplyInv /\ RefreshInv /\ [Next]_vars => RefreshInv'
  <2> SUFFICES ASSUME TypeOK, FrameInv, ReplyInv, RefreshInv, [Next]_vars
               PROVE  RefreshInv'
    OBVIOUS
  <2> USE DEF inbound, outbound, ending, world
  <2>1. ASSUME accepted' = accepted,
               \A m \in Frames : worker'[m] = "result" => worker[m] = "result"
        PROVE  RefreshInv'
    BY <2>1 DEF RefreshInv, InventoryAccepted
  <2>2. CASE \/ \E k \in Kinds : ServerSends(k)
             \/ \E how \in {"silent", "reset"} : LinkDies(how)
             \/ \E cause \in {"attempt", "parent"} : ContextEnds(cause)
             \/ PongCancelled \/ ReadFails
    BY <2>1, <2>2 DEF ServerSends, LinkDies, ContextEnds, PongCancelled, ReadFails
  <2>3. CASE ReadFrame
    BY <2>1, <2>3 DEF ReadFrame, TypeOK
  <2>4. CASE PongQueued
    <3>1. read \in Frames
      BY <2>4, FramesAssumption DEF PongQueued, TypeOK, FrameInv, Frames
    <3> QED
      BY <2>4, <3>1, EnqueueKeepsRefreshes DEF PongQueued, Parts
  <2>5. ASSUME NEW n \in Frames,
               WorkerReplies(n) \/ RefreshCollects(n) \/ WorkerSilent(n) \/ WorkerCancelled(n)
        PROVE  RefreshInv'
    BY <2>1, <2>5 DEF WorkerReplies, RefreshCollects, WorkerSilent, WorkerCancelled, TypeOK
  <2>6. ASSUME NEW n \in Frames, WorkerQueued(n) PROVE RefreshInv'
    <3>1. worker[n] \in Parts /\ Enqueue(<<n, worker[n]>>)
      BY <2>6 DEF WorkerQueued
    <3>2. \A m \in Frames : worker'[m] = "result" =>
            worker[m] = "result" \/ (m = n /\ worker[n] = "inventory")
      BY <2>6 DEF WorkerQueued, TypeOK
    <3> QED
      BY <3>1, <3>2, EnqueueKeepsRefreshes
  <2>7. CASE WriterTakes \/ WriterWrites \/ WriterFails
    BY <2>1, <2>7 DEF WriterTakes, WriterWrites, WriterFails
  <2>8. CASE WriterStops \/ PingFails \/ PingStops \/ TelemetryStops
    BY <2>1, <2>8 DEF WriterStops, PingFails, PingStops, TelemetryStops, PumpStops
  <2>9. CASE (\E p \in Pumps : SelectPump(p)) \/ SelectOuter \/ CancelAttempt
    BY <2>1, <2>9 DEF SelectPump, SelectOuter, StopServing, CancelAttempt
  <2>10. CASE UNCHANGED vars
    BY <2>1, <2>10 DEF vars
  <2> QED
    BY <2>2, <2>3, <2>4, <2>5, <2>6, <2>7, <2>8, <2>9, <2>10, NextCases
<1> QED
  BY <1>1, <1>2, TypeInvariant, ReplyInvariant, PTL DEF Spec

(* The server never sees a refresh succeed without its inventory, nor fail   *)
(* with it, however the connection ends around the two frames.               *)
THEOREM RefreshesTellTruth == Spec => []RefreshTellsTruth
<1>1. TypeOK /\ StreamInv /\ RefreshInv => RefreshTellsTruth
  <2> SUFFICES ASSUME TypeOK, StreamInv, RefreshInv
               PROVE  RefreshTellsTruth
    OBVIOUS
  <2>1. /\ DOMAIN wire = 1 .. Len(wire) /\ Len(wire) \in Nat
        /\ DOMAIN accepted = 1 .. Len(accepted) /\ Len(accepted) \in Nat
    BY DEF TypeOK
  <2>2. Len(wire) <= Len(accepted) /\ \A k \in 1 .. Len(wire) : wire[k] = accepted[k]
    BY DEF StreamInv
  <2>3. ASSUME NEW j \in DOMAIN wire, NEW n \in Frames, wire[j] = <<n, "result">>
        PROVE  \E i \in DOMAIN wire : i < j /\ wire[i] = <<n, "inventory">>
    <3>1. InventoryAccepted(n, j)
      BY <2>1, <2>2, <2>3 DEF RefreshInv
    <3>2. PICK i \in DOMAIN accepted : i < j /\ accepted[i] = <<n, "inventory">>
      BY <3>1 DEF InventoryAccepted
    <3>3. i \in DOMAIN wire
      BY <2>1, <2>3, <3>2
    <3> QED
      BY <2>1, <2>2, <3>2, <3>3
  <2>4. ASSUME NEW j \in DOMAIN wire, NEW n \in Frames, wire[j] = <<n, "error">>,
               NEW i \in DOMAIN wire, wire[i] = <<n, "inventory">>
        PROVE  FALSE
    <3>1. /\ j \in DOMAIN accepted /\ accepted[j] = <<n, "error">>
          /\ i \in DOMAIN accepted /\ accepted[i] = <<n, "inventory">> /\ i < Len(accepted) + 1
      BY <2>1, <2>2, <2>4
    <3> QED
      BY <3>1 DEF RefreshInv, InventoryAccepted
  <2> QED
    BY <2>3, <2>4 DEF RefreshTellsTruth
<1> QED
  BY <1>1, TypeCorrect, StreamInvariant, RefreshInvariant, PTL

----------------------------------------------------------------------------
(* Every step of the connection is a step of the ordered link, or leaves    *)
(* what was accepted and what arrived alone: the connection implements      *)
(* OrderedLink, so no frame is duplicated, reordered or skipped.            *)
THEOREM ConnImplementsOrderedLink == Spec => ImplementsOrderedLink
<1> DEFINE Inv == TypeOK /\ FrameInv /\ StreamInv /\ ReplyInv
<1>1. Init => Link!OInit
  BY DEF Init, Link!OInit
<1>2. Inv /\ [Next]_vars => [Link!ONext]_(Link!linkVars)
  <2> SUFFICES ASSUME TypeOK, FrameInv, StreamInv, ReplyInv, [Next]_vars
               PROVE  Link!ONext \/ UNCHANGED Link!linkVars
    BY DEF Inv
  <2> USE DEF Link!linkVars, inbound, outbound, ending, world
  <2>1. ASSUME NEW f \in Replies, Enqueue(f), \A i \in DOMAIN accepted : accepted[i] # f
        PROVE  Link!ONext
    BY <2>1 DEF Enqueue, Link!ONext, Link!Accept
  <2>2. CASE PongQueued
    <3>1. read \in Frames /\ <<read, "pong">> \in Replies
      BY <2>2, FramesAssumption DEF PongQueued, TypeOK, FrameInv, Frames, Replies, Parts
    <3>2. ~Answered(read, "pong")
      BY <2>2, <3>1, HelloIsNoReply DEF PongQueued, FrameInv, Answered
    <3>3. \A i \in DOMAIN accepted : accepted[i] # <<read, "pong">>
      BY <3>1, <3>2 DEF ReplyInv, AcceptedAnswers, Parts
    <3> QED
      BY <2>1, <2>2, <3>1, <3>3 DEF PongQueued
  <2>3. ASSUME NEW n \in Frames, WorkerQueued(n) PROVE Link!ONext
    <3>1. worker[n] \in Parts /\ <<n, worker[n]>> \in Replies
      BY <2>3 DEF WorkerQueued, Replies
    <3>2. ~Answered(n, worker[n])
      BY <3>1 DEF ReplyInv, WorkersSound, Answered, Parts
    <3>3. \A i \in DOMAIN accepted : accepted[i] # <<n, worker[n]>>
      BY <3>1, <3>2 DEF ReplyInv, AcceptedAnswers
    <3> QED
      BY <2>1, <2>3, <3>1, <3>3 DEF WorkerQueued
  <2>4. CASE WriterWrites
    <3>1. CASE link = "up"
      <4>1. Len(held) = 1 /\ Flowing
        BY <2>4, <3>1, HeldLength DEF WriterWrites, StreamInv, Flowing
      <4>2. /\ Len(accepted) = Len(wire) + Len(held) + Len(queue)
            /\ held[1] = accepted[Len(wire) + 1]
        BY <2>4, <4>1 DEF WriterWrites, StreamInv
      <4>3. /\ Len(wire) \in Nat /\ Len(queue) \in Nat
            /\ wire' = Append(wire, held[1])
        <5>1. wire \in Seq(Messages) /\ held \in Seq(Messages)
              /\ Len(wire) \in Nat /\ Len(queue) \in Nat
          BY DEF TypeOK, Messages
        <5>2. held[1] \in Messages /\ <<held[1]>> \in Seq(Messages)
          <6>1. 1 \in 1 .. Len(held)
            BY <4>1
          <6>2. held[1] \in Messages
            BY <5>1, <6>1, ElementOfSeq
          <6> QED
            BY <6>2
        <5>3. held = <<held[1]>>
          BY <4>1, <5>1, <5>2, SeqEqual
        <5>4. Append(wire, held[1]) = wire \o held
          BY <5>1, <5>2, <5>3, AppendIsConcat
        <5> QED
          BY <2>4, <3>1, <5>1, <5>4 DEF WriterWrites
      <4>4. Len(wire) < Len(accepted)
        BY <4>1, <4>2, <4>3
      <4> QED
        BY <2>4, <4>2, <4>3, <4>4 DEF WriterWrites, Link!ONext, Link!Deliver
    <3>2. CASE link # "up"
      BY <2>4, <3>2 DEF WriterWrites
    <3> QED
      BY <3>1, <3>2
  <2>5. ASSUME UNCHANGED <<wire, accepted>> PROVE UNCHANGED Link!linkVars
    BY <2>5
  <2>6. CASE \/ \E k \in Kinds : ServerSends(k)
             \/ \E how \in {"silent", "reset"} : LinkDies(how)
             \/ \E cause \in {"attempt", "parent"} : ContextEnds(cause)
             \/ ReadFrame \/ PongCancelled \/ ReadFails
    BY <2>5, <2>6 DEF ServerSends, LinkDies, ContextEnds, ReadFrame, PongCancelled, ReadFails
  <2>7. ASSUME NEW n \in Frames,
               WorkerReplies(n) \/ RefreshCollects(n) \/ WorkerSilent(n) \/ WorkerCancelled(n)
        PROVE  UNCHANGED Link!linkVars
    BY <2>5, <2>7 DEF WorkerReplies, RefreshCollects, WorkerSilent, WorkerCancelled
  <2>8. CASE WriterTakes \/ WriterFails \/ WriterStops \/ PingFails \/ PingStops
             \/ TelemetryStops
    BY <2>5, <2>8 DEF WriterTakes, WriterFails, WriterStops, PingFails, PingStops,
                      TelemetryStops, PumpStops
  <2>9. CASE (\E p \in Pumps : SelectPump(p)) \/ SelectOuter \/ CancelAttempt
    BY <2>5, <2>9 DEF SelectPump, SelectOuter, StopServing, CancelAttempt
  <2>10. CASE UNCHANGED vars
    BY <2>5, <2>10 DEF vars
  <2> QED
    BY <2>2, <2>3, <2>4, <2>6, <2>7, <2>8, <2>9, <2>10, NextCases
<1>3. Spec => []Inv
  BY TypeInvariant, StreamInvariant, ReplyInvariant, PTL DEF Inv
<1> QED
  BY <1>1, <1>2, <1>3, PTL DEF Spec, ImplementsOrderedLink, Link!OSpec
=============================================================================
