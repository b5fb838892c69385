------------------------------- MODULE Session -------------------------------
(* One ISession (Common/Net/Session.cpp) from the moment the acceptor has    *)
(* made it to the moment nothing of it is left: the coroutines ReadLoop and  *)
(* WriteLoop on the network thread, the tick of IServer::Update and the      *)
(* HttpSession's read handler on the logic thread, the two locked queues     *)
(* between the threads, the timer the writer sleeps on, and the peer.        *)
(*                                                                           *)
(* A packet is what one async_read_some returned; packets are numbered in    *)
(* the order they are read and an answer carries its packet's number.        *)
(*                                                                           *)
(* The network thread runs one coroutine at a time, from one suspension to   *)
(* the next; the logic thread interleaves at every access to shared state.   *)
EXTENDS Integers, Sequences

CONSTANTS
  MaxPackets,   \* bound on the packets the peer sends
  SpawnModes    \* how asio may start a coroutine spawned on the executor that
                \* is running the caller: "inline" (dispatch), "posted" (post)

ASSUME MaxPacketsAssumption == MaxPackets \in Nat
ASSUME SpawnModesAssumption ==
  SpawnModes # {} /\ SpawnModes \subseteq {"inline", "posted"}

VARIABLES
  peer,       \* the peer's end: "open", "fin" (no more data), "reset"
  sent,       \* packets the peer has sent
  nread,      \* packets read from the socket
  got,        \* answers the connection has taken, in order
  life,       \* the object: "new", "listed" in _sessions, "erased"
  closed,     \* _closed
  shutdowns,  \* calls of _socket.shutdown(shutdown_send)
  readQ,      \* _readBufferQueue
  writeQ,     \* _writeBufferQueue
  net,        \* what the network thread is inside: "free" between handlers
  rpc,        \* where ReadLoop is
  wpc,        \* where WriteLoop is
  wpkt,       \* the part of WriteLoop's packet the socket has not taken
  lpc,        \* where the logic thread is
  lpkt,       \* the answer being built by CoReadHandler
  posted,     \* a spawned CoReadHandler is queued or was resumed from the queue
  stray       \* some code has used the session after its destruction

netVars   == <<net, rpc, wpc, wpkt>>
logicVars == <<lpc, lpkt, posted>>
peerVars  == <<peer, sent>>
vars == <<peer, sent, nread, got, life, closed, shutdowns, readQ, writeQ,
          net, rpc, wpc, wpkt, lpc, lpkt, posted, stray>>

NoPacket == 0
Packets == 1 .. MaxPackets

alive == life # "erased"

(* OnScoketAccepted and StartSession: the read is pending, the writer's      *)
(* first segment runs, and AddNewSession follows once the writer suspends.   *)
Init ==
  /\ peer = "open" /\ sent = 0 /\ nread = 0 /\ got = <<>>
  /\ life = "new" /\ closed = FALSE /\ shutdowns = 0
  /\ readQ = <<>> /\ writeQ = <<>>
  /\ net = "writer" /\ rpc = "reading" /\ wpc = "pop" /\ wpkt = NoPacket
  /\ lpc = "idle" /\ lpkt = NoPacket /\ posted = FALSE
  /\ stray = FALSE

-----------------------------------------------------------------------------
(* The peer. *)

PeerSend ==
  /\ peer = "open"
  /\ sent < MaxPackets
  /\ sent' = sent + 1
  /\ UNCHANGED <<peer, nread, got, life, closed, shutdowns, readQ, writeQ,
                 netVars, logicVars, stray>>

PeerFin ==
  /\ peer = "open"
  /\ peer' = "fin"
  /\ UNCHANGED <<sent, nread, got, life, closed, shutdowns, readQ, writeQ,
                 netVars, logicVars, stray>>

PeerReset ==
  /\ peer # "reset"
  /\ peer' = "reset"
  /\ UNCHANGED <<sent, nread, got, life, closed, shutdowns, readQ, writeQ,
                 netVars, logicVars, stray>>

-----------------------------------------------------------------------------
(* ReadLoop.  A read completes with the next packet, or with an error when   *)
(* the peer has reset or has finished and everything was read.               *)

ReadPacket ==
  /\ net = "free" /\ alive
  /\ rpc = "reading"
  /\ peer # "reset" /\ nread < sent
  /\ nread' = nread + 1
  /\ rpc' = "push" /\ net' = "reader"
  /\ UNCHANGED <<peerVars, got, life, closed, shutdowns, readQ, writeQ,
                 wpc, wpkt, logicVars, stray>>

(* _readBufferQueue.Push, then the loop starts the next read and suspends.   *)
PushRead ==
  /\ alive
  /\ rpc = "push"
  /\ readQ' = Append(readQ, nread)
  /\ rpc' = "reading" /\ net' = "free"
  /\ UNCHANGED <<peerVars, nread, got, life, closed, shutdowns, writeQ,
                 wpc, wpkt, logicVars, stray>>

(* Mutant: CloseSession without its early return. *)
ExchangeAlways(pc, owner) ==
  /\ closed' = TRUE
  /\ pc' = "closing"
  /\ net' = owner

(* CloseSession's exchange: the first caller goes on to the shutdown.        *)
Exchange(pc, owner) ==
  /\ closed' = TRUE
  /\ pc' = IF closed THEN "done" ELSE "closing"
  /\ net' = IF closed THEN "free" ELSE owner

(* Mutant: the reader ends without closing the session. *)
ReadFailsSilently ==
  /\ net = "free" /\ alive
  /\ rpc = "reading"
  /\ peer = "reset" \/ (peer = "fin" /\ nread = sent)
  /\ rpc' = "done"
  /\ UNCHANGED <<peerVars, nread, got, life, closed, shutdowns, readQ, writeQ,
                 net, wpc, wpkt, logicVars, stray>>

ReadFails ==
  /\ net = "free" /\ alive
  /\ rpc = "reading"
  /\ peer = "reset" \/ (peer = "fin" /\ nread = sent)
  /\ Exchange(rpc, "reader")
  /\ UNCHANGED <<peerVars, nread, got, life, shutdowns, readQ, writeQ,
                 wpc, wpkt, logicVars, stray>>

ReaderShutdown ==
  /\ alive
  /\ rpc = "closing"
  /\ shutdowns' = shutdowns + 1
  /\ rpc' = "done" /\ net' = "free"
  /\ UNCHANGED <<peerVars, nread, got, life, closed, readQ, writeQ,
                 wpc, wpkt, logicVars, stray>>

(* The session was destroyed under the coroutine: its pending read completes *)
(* with operation_aborted, and the frame goes on to use the dead session.    *)
StrayReader ==
  /\ ~alive
  /\ rpc # "done"
  /\ net \in {"free", "reader"}
  /\ rpc' = "done" /\ net' = "free"
  /\ stray' = TRUE
  /\ UNCHANGED <<peerVars, nread, got, life, closed, shutdowns, readQ, writeQ,
                 wpc, wpkt, logicVars>>

Reader == ReadPacket \/ PushRead \/ ReadFails \/ ReaderShutdown \/ StrayReader

-----------------------------------------------------------------------------
(* WriteLoop. *)

(* Mutant: the newest packet is taken first. *)
PopWriteNewest ==
  /\ alive
  /\ net = "writer" /\ wpc = "pop"
  /\ IF writeQ = <<>>
     THEN wpc' = "arm" /\ UNCHANGED <<wpkt, writeQ>>
     ELSE /\ wpkt' = writeQ[Len(writeQ)]
          /\ writeQ' = SubSeq(writeQ, 1, Len(writeQ) - 1)
          /\ wpc' = "check"
  /\ UNCHANGED <<peerVars, nread, got, life, closed, shutdowns, readQ,
                 net, rpc, logicVars, stray>>

(* The head of the loop: take a packet, or find the queue empty and go and   *)
(* wait.                                                                     *)
PopWrite ==
  /\ alive
  /\ net = "writer" /\ wpc = "pop"
  /\ IF writeQ = <<>>
     THEN wpc' = "arm" /\ UNCHANGED <<wpkt, writeQ>>
     ELSE /\ wpkt' = Head(writeQ)
          /\ writeQ' = Tail(writeQ)
          /\ wpc' = "check"
  /\ UNCHANGED <<peerVars, nread, got, life, closed, shutdowns, readQ,
                 net, rpc, logicVars, stray>>

(* _timer.async_wait on a timer that never expires.  The first suspension    *)
(* returns to StartSession, and the acceptor goes on to list the session.    *)
ArmTimer ==
  /\ alive
  /\ wpc = "arm"
  /\ wpc' = "waiting"
  /\ net' = IF life = "new" THEN "acceptor" ELSE "free"
  /\ UNCHANGED <<peerVars, nread, got, life, closed, shutdowns, readQ, writeQ,
                 rpc, wpkt, logicVars, stray>>

(* AddNewSession. *)
AddNewSession ==
  /\ net = "acceptor"
  /\ life' = "listed" /\ net' = "free"
  /\ UNCHANGED <<peerVars, nread, got, closed, shutdowns, readQ, writeQ,
                 rpc, wpc, wpkt, logicVars, stray>>

(* Mutant: the woken writer waits again before it looks at the queue. *)
WakeUpWaits ==
  /\ net = "free" /\ alive
  /\ wpc = "woken"
  /\ wpc' = "arm" /\ net' = "writer"
  /\ UNCHANGED <<peerVars, nread, got, life, closed, shutdowns, readQ, writeQ,
                 rpc, wpkt, logicVars, stray>>

(* The cancelled wait resumes; the packet in hand is the empty one.          *)
WakeUp ==
  /\ net = "free" /\ alive
  /\ wpc = "woken"
  /\ wpc' = "check" /\ net' = "writer"
  /\ UNCHANGED <<peerVars, nread, got, life, closed, shutdowns, readQ, writeQ,
                 rpc, wpkt, logicVars, stray>>

(* Mutant: the test of _closed is missing. *)
CheckNothing ==
  /\ alive
  /\ wpc = "check"
  /\ wpc' = "start"
  /\ UNCHANGED <<peerVars, nread, got, life, closed, shutdowns, readQ, writeQ,
                 net, rpc, wpkt, logicVars, stray>>

(* if (_closed) co_return: a packet in hand is dropped with the frame.       *)
CheckClosed ==
  /\ alive
  /\ wpc = "check"
  /\ IF closed
     THEN wpc' = "done" /\ wpkt' = NoPacket /\ net' = "free"
     ELSE wpc' = "start" /\ UNCHANGED <<wpkt, net>>
  /\ UNCHANGED <<peerVars, nread, got, life, closed, shutdowns, readQ, writeQ,
                 rpc, logicVars, stray>>

StartWrite ==
  /\ alive
  /\ wpc = "start"
  /\ wpc' = "writing" /\ net' = "free"
  /\ UNCHANGED <<peerVars, nread, got, life, closed, shutdowns, readQ, writeQ,
                 rpc, wpkt, logicVars, stray>>

(* The operating system takes the packet; an empty one needs nothing of it.  *)
SocketTakes ==
  /\ alive
  /\ wpc = "writing"
  /\ wpkt # NoPacket => peer # "reset" /\ shutdowns = 0
  /\ got' = IF wpkt = NoPacket THEN got ELSE Append(got, wpkt)
  /\ wpkt' = NoPacket
  /\ wpc' = "written"
  /\ UNCHANGED <<peerVars, nread, life, closed, shutdowns, readQ, writeQ,
                 net, rpc, logicVars, stray>>

SocketRefuses ==
  /\ alive
  /\ wpc = "writing" /\ wpkt # NoPacket
  /\ peer = "reset" \/ shutdowns > 0
  /\ wpc' = "failed"
  /\ UNCHANGED <<peerVars, nread, got, life, closed, shutdowns, readQ, writeQ,
                 net, rpc, wpkt, logicVars, stray>>

WriteSucceeds ==
  /\ net = "free" /\ alive
  /\ wpc = "written"
  /\ wpc' = "pop" /\ net' = "writer"
  /\ UNCHANGED <<peerVars, nread, got, life, closed, shutdowns, readQ, writeQ,
                 rpc, wpkt, logicVars, stray>>

WriteFails ==
  /\ net = "free" /\ alive
  /\ wpc = "failed"
  /\ Exchange(wpc, "writer")
  /\ wpkt' = NoPacket
  /\ UNCHANGED <<peerVars, nread, got, life, shutdowns, readQ, writeQ,
                 rpc, logicVars, stray>>

WriterShutdown ==
  /\ alive
  /\ wpc = "closing"
  /\ shutdowns' = shutdowns + 1
  /\ wpc' = "done" /\ net' = "free"
  /\ UNCHANGED <<peerVars, nread, got, life, closed, readQ, writeQ,
                 rpc, wpkt, logicVars, stray>>

(* As StrayReader: the wait or the write is aborted by the destruction.      *)
StrayWriter ==
  /\ ~alive
  /\ wpc # "done"
  /\ net \in {"free", "writer"}
  /\ wpc' = "done" /\ wpkt' = NoPacket /\ net' = "free"
  /\ stray' = TRUE
  /\ UNCHANGED <<peerVars, nread, got, life, closed, shutdowns, readQ, writeQ,
                 rpc, logicVars>>

Writer == \/ PopWrite \/ ArmTimer \/ AddNewSession \/ WakeUp \/ CheckClosed
          \/ StartWrite \/ WriteSucceeds \/ WriteFails \/ WriterShutdown
          \/ StrayWriter

Socket == SocketTakes \/ SocketRefuses

-----------------------------------------------------------------------------
(* The logic thread: IServer::Update over this session. *)

(* ISession::Update calls ReadHandler, which spawns CoReadHandler.  A posted *)
(* handler runs before the next tick: the logic io_context is a queue and    *)
(* the tick's timer is queued behind it.                                     *)
Tick ==
  /\ life = "listed"
  /\ lpc = "idle" /\ ~posted
  /\ \E mode \in SpawnModes:
       IF mode = "inline"
       THEN lpc' = "pop" /\ UNCHANGED posted
       ELSE lpc' = "closed?" /\ posted' = TRUE
  /\ UNCHANGED <<peerVars, nread, got, life, closed, shutdowns, readQ, writeQ,
                 netVars, lpkt, stray>>

RunPosted ==
  /\ lpc = "idle" /\ posted /\ alive
  /\ lpc' = "pop"
  /\ UNCHANGED <<peerVars, nread, got, life, closed, shutdowns, readQ, writeQ,
                 netVars, lpkt, posted, stray>>

(* The tick that spawned the handler erased the session before it ran.       *)
StrayHandler ==
  /\ lpc = "idle" /\ posted /\ ~alive
  /\ posted' = FALSE
  /\ stray' = TRUE
  /\ UNCHANGED <<peerVars, nread, got, life, closed, shutdowns, readQ, writeQ,
                 netVars, lpc, lpkt>>

(* CoReadHandler is over: back to Update, or to the io_context.              *)
HandlerReturns ==
  /\ lpc' = IF posted THEN "idle" ELSE "closed?"
  /\ posted' = FALSE

(* Mutants: an empty queue is answered too; the front is read but not        *)
(* removed; the next packet waits until the last answer has gone.            *)
PopReadEmpty ==
  /\ lpc = "pop"
  /\ lpkt' = IF readQ = <<>> THEN NoPacket ELSE Head(readQ)
  /\ readQ' = IF readQ = <<>> THEN <<>> ELSE Tail(readQ)
  /\ lpc' = "push"
  /\ UNCHANGED <<peerVars, nread, got, life, closed, shutdowns, writeQ,
                 netVars, posted, stray>>

PopReadKeeps ==
  /\ lpc = "pop"
  /\ Len(writeQ) <= MaxPackets
  /\ IF readQ = <<>>
     THEN HandlerReturns /\ UNCHANGED lpkt
     ELSE lpkt' = Head(readQ) /\ lpc' = "push" /\ UNCHANGED posted
  /\ UNCHANGED <<peerVars, nread, got, life, closed, shutdowns, readQ, writeQ,
                 netVars, stray>>

PopReadAfterWrite ==
  /\ lpc = "pop"
  /\ IF readQ = <<>> \/ writeQ # <<>>
     THEN HandlerReturns /\ UNCHANGED <<lpkt, readQ>>
     ELSE /\ lpkt' = Head(readQ)
          /\ readQ' = Tail(readQ)
          /\ lpc' = "push" /\ UNCHANGED posted
  /\ UNCHANGED <<peerVars, nread, got, life, closed, shutdowns, writeQ,
                 netVars, stray>>

PopRead ==
  /\ lpc = "pop"
  /\ IF readQ = <<>>
     THEN HandlerReturns /\ UNCHANGED <<lpkt, readQ>>
     ELSE /\ lpkt' = Head(readQ)
          /\ readQ' = Tail(readQ)
          /\ lpc' = "push" /\ UNCHANGED posted
  /\ UNCHANGED <<peerVars, nread, got, life, closed, shutdowns, writeQ,
                 netVars, stray>>

(* SendMsg: Push ... *)
PushWrite ==
  /\ lpc = "push"
  /\ writeQ' = Append(writeQ, lpkt)
  /\ lpkt' = NoPacket
  /\ lpc' = "cancel"
  /\ UNCHANGED <<peerVars, nread, got, life, closed, shutdowns, readQ,
                 netVars, posted, stray>>

(* ... and _timer.cancel_one, which does nothing unless a wait is pending.   *)
CancelOne ==
  /\ lpc = "cancel"
  /\ wpc' = IF wpc = "waiting" THEN "woken" ELSE wpc
  /\ HandlerReturns
  /\ UNCHANGED <<peerVars, nread, got, life, closed, shutdowns, readQ, writeQ,
                 net, rpc, wpkt, lpkt, stray>>

(* Mutant: Update returns _closed instead of its negation. *)
ReadClosedInverted ==
  /\ lpc = "closed?"
  /\ lpc' = IF closed THEN "idle" ELSE "erase"
  /\ UNCHANGED <<peerVars, nread, got, life, closed, shutdowns, readQ, writeQ,
                 netVars, lpkt, posted, stray>>

(* return !_closed *)
ReadClosed ==
  /\ lpc = "closed?"
  /\ lpc' = IF closed THEN "erase" ELSE "idle"
  /\ UNCHANGED <<peerVars, nread, got, life, closed, shutdowns, readQ, writeQ,
                 netVars, lpkt, posted, stray>>

(* CloseSession, then erase: _sessions held the only reference, so the       *)
(* session is destroyed.                                                     *)
Erase ==
  /\ lpc = "erase"
  /\ closed' = TRUE
  /\ shutdowns' = IF closed THEN shutdowns ELSE shutdowns + 1
  /\ life' = "erased"
  /\ lpc' = "idle"
  /\ UNCHANGED <<peerVars, nread, got, readQ, writeQ, netVars, lpkt, posted,
                 stray>>

Logic == \/ Tick \/ RunPosted \/ StrayHandler \/ PopRead \/ PushWrite
         \/ CancelOne \/ ReadClosed \/ Erase

-----------------------------------------------------------------------------
(* Nothing of the session is left to run. *)
Gone ==
  /\ ~alive
  /\ rpc = "done" /\ wpc = "done" /\ lpc = "idle" /\ ~posted
  /\ UNCHANGED vars

Next == PeerSend \/ PeerFin \/ PeerReset \/ Reader \/ Writer \/ Socket \/ Logic
        \/ Gone

Spec == Init /\ [][Next]_vars

(* The network thread runs every handler that is ready, the logic thread     *)
(* ticks for ever (its timer is re-armed before anything else), and the      *)
(* peer's side takes or refuses what is written.                             *)
Fairness ==
  /\ WF_vars(Reader) /\ WF_vars(Writer) /\ WF_vars(Logic) /\ WF_vars(Socket)

FairSpec == Spec /\ Fairness

-----------------------------------------------------------------------------
(* The state has the shape the declarations give it. *)
TypeOK ==
  /\ peer \in {"open", "fin", "reset"}
  /\ sent \in 0 .. MaxPackets
  /\ nread \in 0 .. sent
  /\ got \in Seq(Packets)
  /\ life \in {"new", "listed", "erased"}
  /\ closed \in BOOLEAN
  /\ shutdowns \in Nat
  /\ readQ \in Seq(Packets)
  /\ writeQ \in Seq(Packets)
  /\ net \in {"free", "reader", "writer", "acceptor"}
  /\ rpc \in {"reading", "push", "closing", "done"}
  /\ wpc \in {"pop", "arm", "waiting", "woken", "check", "start", "writing",
              "written", "failed", "closing", "done"}
  /\ wpkt \in Packets \cup {NoPacket}
  /\ lpc \in {"idle", "pop", "push", "cancel", "closed?", "erase"}
  /\ lpkt \in Packets \cup {NoPacket}
  /\ posted \in BOOLEAN
  /\ stray \in BOOLEAN

Held(packet) == IF packet = NoPacket THEN 0 ELSE 1

(* The packets between the socket's two directions, counted from the last    *)
(* answer taken: where each hand-over place begins.                          *)
WriteBase  == Len(got) + Held(wpkt)
LogicBase  == WriteBase + Len(writeQ)
ReadBase   == LogicBase + Held(lpkt)
JustRead   == IF rpc = "push" THEN 1 ELSE 0

Numbered(q, base) == \A i \in 1 .. Len(q): q[i] = base + i

(* The answers taken by the connection, the writer's packet, the write       *)
(* queue, the answer being built, the read queue and the packet just read    *)
(* are together 1, 2, ..., nread.                                            *)
InOrder ==
  /\ Numbered(got, 0)
  /\ wpkt # NoPacket => wpkt = Len(got) + 1
  /\ Numbered(writeQ, WriteBase)
  /\ lpkt # NoPacket => lpkt = LogicBase + 1
  /\ Numbered(readQ, ReadBase)
  /\ nread = ReadBase + Len(readQ) + JustRead

(* Until the session closes, no packet is lost, answered twice or overtaken, *)
(* although two threads and two queues move the packets and a woken writer   *)
(* goes round its loop with an empty packet.                                 *)
NothingLostWhileOpen == ~closed => InOrder

(* The sending side is shut down at most once, although the reader, the      *)
(* writer and the tick all call CloseSession.                                *)
ShutdownAtMostOnce == shutdowns <= 1

(* A write is never started on a closed session: between the test of _closed *)
(* and async_write nobody can close it, because every close that does        *)
(* something runs on the network thread.                                     *)
NoWriteAfterClose ==
  [][wpc # "writing" /\ wpc' = "writing" => ~closed]_vars

(* The tick never closes a session: it only removes one that the network     *)
(* thread has closed, so shutdown is never called from the logic thread.     *)
OnlyNetworkCloses ==
  [][closed' # closed => UNCHANGED <<logicVars, life>>]_vars

(* A session that the peer leaves, or that fails to write, is closed, erased *)
(* from _sessions, and both coroutines come to an end.                       *)
PeerLeaves == peer # "open"
CleanedUp  == ~alive /\ rpc = "done" /\ wpc = "done" /\ ~posted
LeavingCleansUp == PeerLeaves ~> CleanedUp

(* A packet that was read is answered or the session closes: the read queue  *)
(* empties.                                                                  *)
ReadsAreHandled == readQ # <<>> ~> (readQ = <<>> \/ closed)

(* A wake-up is never for nothing: a woken writer drains the write queue,    *)
(* or the session closes.                                                    *)
WakeUpDrains == wpc = "woken" ~> (writeQ = <<>> \/ closed)

(* Every answer goes out unless the session closes: what the writer's wait   *)
(* for a notification is for (Tests/TestCoroutine.cpp:158).                  *)
EveryAnswerGoesOut == writeQ # <<>> ~> (writeQ = <<>> \/ closed)

(* Nothing uses a session after its destruction: what shared_from_this in    *)
(* the coroutines of Tests/TestCoroutine.cpp:87 and 94 ensures.              *)
NoUseAfterDestruction == ~stray

(* The session implements the packet pipeline: a packet is handled when its   *)
(* answer enters the write queue, and the answer a closed session may still *)
(* send is the one its last write is busy with.                              *)
Handled == nread - Len(readQ) - Held(lpkt) - JustRead
Credit == IF closed /\ (wpc # "writing" \/ wpkt = NoPacket) THEN 0 ELSE 1

Pipeline == INSTANCE PacketPipeline WITH
  inbox <- nread, handled <- Handled, out <- got, open <- ~closed,
  credit <- Credit

ImplementsPipeline == Pipeline!Spec
=============================================================================
