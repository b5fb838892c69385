---------------------------- MODULE SessionProofs ----------------------------
(* What MCSession checks for three packets, for any number of them: the      *)
(* types, that no packet is lost, doubled or overtaken while the session is  *)
(* open, the single shutdown, the action properties, and the refinement of   *)
(* PacketPipeline.                                                           *)
EXTENDS Session, SequenceTheorems, TLAPS

(* Who has the network thread, and what each place of a coroutine implies.   *)
Turns ==
  /\ net = "reader" <=> rpc \in {"push", "closing"}
  /\ net = "writer" <=> wpc \in {"pop", "arm", "check", "start", "closing"}
  /\ net = "acceptor" => life = "new"
  /\ life = "new" => lpc = "idle" /\ ~posted
  /\ lpc # "idle" => alive
  /\ wpkt # NoPacket => wpc \in {"check", "start", "writing", "failed"}
  /\ lpkt # NoPacket <=> lpc = "push"
  /\ rpc = "push" => nread > 0

(* Which places can only be reached once the session is closed, and how many *)
(* shutdowns are done or still to come.                                      *)
Closing ==
  /\ lpc = "erase" \/ ~alive => closed
  /\ rpc \in {"closing", "done"} \/ wpc \in {"closing", "done"} => closed
  /\ closed => rpc \in {"closing", "done"} \/ wpc \in {"closing", "done"}
  /\ wpc = "start" => ~closed
  /\ ~closed => shutdowns = 0
  /\ rpc = "closing" \/ wpc = "closing" => shutdowns = 0
  /\ ~(rpc = "closing" /\ wpc = "closing")
  /\ shutdowns <= 1

(* The order survives the close, until the writer drops what it has.         *)
Flow == wpc \notin {"closing", "done"} => InOrder

IInv == TypeOK /\ Turns /\ Closing /\ Flow

USE MaxPacketsAssumption, SpawnModesAssumption

(* Taking the first packet of a queue.                                       *)
LEMMA QueuePop ==
  ASSUME NEW S, NEW q \in Seq(S), q # <<>>
  PROVE  /\ Len(q) \in Nat /\ Len(q) > 0
         /\ Head(q) \in S /\ Head(q) = q[1]
         /\ Tail(q) \in Seq(S) /\ Len(Tail(q)) = Len(q) - 1
         /\ \A i \in 1 .. Len(q) - 1: Tail(q)[i] = q[i + 1]
PROOF
<1>1. Len(q) \in Nat /\ Len(q) > 0
  BY EmptySeq, LenProperties
<1>2. QED
  BY <1>1, HeadTailProperties

(* Adding a packet to a queue.                                               *)
LEMMA QueuePush ==
  ASSUME NEW S, NEW q \in Seq(S), NEW e \in S
  PROVE  /\ Len(q) \in Nat
         /\ Append(q, e) \in Seq(S) /\ Len(Append(q, e)) = Len(q) + 1
         /\ \A i \in 1 .. Len(q): Append(q, e)[i] = q[i]
         /\ Append(q, e)[Len(q) + 1] = e
  BY AppendProperties, LenProperties

(* Taking the first of a row of consecutive packets: the rest is consecutive *)
(* from the next number.                                                     *)
LEMMA NumberedPop ==
  ASSUME NEW S, NEW q \in Seq(S), q # <<>>, NEW base \in Nat, Numbered(q, base)
  PROVE  Head(q) = base + 1 /\ Numbered(Tail(q), base + 1)
PROOF
<1>1. Len(q) \in Nat /\ Len(q) > 0 /\ Head(q) = q[1]
      /\ Len(Tail(q)) = Len(q) - 1
  BY QueuePop
<1>2. Head(q) = base + 1
  BY <1>1 DEF Numbered
<1>3. ASSUME NEW i \in 1 .. Len(Tail(q))
      PROVE  Tail(q)[i] = base + 1 + i
  <2>1. i \in 1 .. Len(q) - 1 /\ i + 1 \in 1 .. Len(q)
    BY <1>1
  <2>2. Tail(q)[i] = q[i + 1]
    BY <2>1, QueuePop
  <2>3. q[i + 1] = base + (i + 1)
    BY <2>1 DEF Numbered
  <2>4. QED
    BY <2>1, <2>2, <2>3
<1>4. QED
  BY <1>2, <1>3 DEF Numbered

(* Adding the next of a row of consecutive packets keeps them consecutive.   *)
LEMMA NumberedPush ==
  ASSUME NEW S, NEW q \in Seq(S), NEW base \in Nat, Numbered(q, base),
         NEW e \in S, e = base + Len(q) + 1
  PROVE  Numbered(Append(q, e), base)
PROOF
<1>1. Len(q) \in Nat /\ Len(Append(q, e)) = Len(q) + 1
  BY QueuePush
<1>2. ASSUME NEW i \in 1 .. Len(Append(q, e))
      PROVE  Append(q, e)[i] = base + i
  <2>1. CASE i = Len(q) + 1
    <3>1. Append(q, e)[i] = e
      BY <2>1, QueuePush
    <3>2. QED
      BY <1>1, <2>1, <3>1
  <2>2. CASE i # Len(q) + 1
    <3>1. i \in 1 .. Len(q)
      BY <1>1, <2>2
    <3>2. QED
      BY <3>1, QueuePush DEF Numbered
  <2>3. QED
    BY <2>1, <2>2
<1>3. QED
  BY <1>2 DEF Numbered

(* CoReadHandler's Pop takes the oldest packet of the read queue.            *)
LEMMA PopReadQueue ==
  ASSUME PopRead, readQ # <<>>, readQ \in Seq(Packets)
  PROVE  /\ Len(readQ) \in Nat /\ Len(readQ) > 0
         /\ lpkt' \in Packets /\ lpkt' = readQ[1]
         /\ readQ' \in Seq(Packets) /\ Len(readQ') = Len(readQ) - 1
         /\ \A i \in 1 .. Len(readQ) - 1: readQ'[i] = readQ[i + 1]
PROOF
<1>1. lpkt' = Head(readQ) /\ readQ' = Tail(readQ)
  BY DEF PopRead
<1>2. QED
  BY <1>1, QueuePop, Zenon

(* WriteLoop's Pop takes the oldest packet of the write queue.               *)
LEMMA PopWriteQueue ==
  ASSUME PopWrite, writeQ # <<>>, writeQ \in Seq(Packets)
  PROVE  /\ Len(writeQ) \in Nat /\ Len(writeQ) > 0
         /\ wpkt' \in Packets /\ wpkt' = writeQ[1]
         /\ writeQ' \in Seq(Packets) /\ Len(writeQ') = Len(writeQ) - 1
         /\ \A i \in 1 .. Len(writeQ) - 1: writeQ'[i] = writeQ[i + 1]
PROOF
<1>1. wpkt' = Head(writeQ) /\ writeQ' = Tail(writeQ)
  BY DEF PopWrite
<1>2. QED
  BY <1>1, QueuePop, Zenon

(* The invariant holds when the session has just been made.                  *)
LEMMA InitInv == Init => IInv
PROOF
<1> SUFFICES ASSUME Init PROVE IInv
  OBVIOUS
<1>1. TypeOK
  <2>1. <<>> \in Seq(Packets)
    BY EmptySeq
  <2>2. 0 \in 0 .. MaxPackets /\ 0 \in 0 .. 0
    BY MaxPacketsAssumption
  <2>3. QED
    BY <2>1, <2>2 DEF Init, TypeOK, NoPacket
<1>2. Turns
  BY DEF Init, Turns, NoPacket, alive
<1>3. Closing
  BY DEF Init, Closing, alive
<1>4. Flow
  BY DEF Init, Flow, InOrder, WriteBase, LogicBase, ReadBase, JustRead, Held,
              NoPacket, Numbered
<1>5. QED
  BY <1>1, <1>2, <1>3, <1>4 DEF IInv

(* Every step keeps the types. *)
LEMMA TypeStep ==
  ASSUME TypeOK, Turns, [Next]_vars
  PROVE  TypeOK'
PROOF
<1> USE DEF TypeOK, Turns, alive, netVars, logicVars, peerVars
<1>1. CASE PeerSend
  BY <1>1 DEF PeerSend
<1>2. CASE PeerFin
  BY <1>2 DEF PeerFin
<1>3. CASE PeerReset
  BY <1>3 DEF PeerReset
<1>4. CASE ReadPacket
  BY <1>4 DEF ReadPacket, NoPacket
<1>5. CASE PushRead
  <2>1. nread \in Packets
    BY <1>5 DEF PushRead, Packets
  <2>2. readQ' \in Seq(Packets)
    BY <1>5, <2>1, QueuePush DEF PushRead
  <2>3. QED
    BY <1>5, <2>2 DEF PushRead
<1>6. CASE ReadFails
  BY <1>6 DEF ReadFails, Exchange
<1>7. CASE ReaderShutdown
  BY <1>7 DEF ReaderShutdown
<1>8. CASE StrayReader
  BY <1>8 DEF StrayReader
<1>9. CASE PopWrite
  <2>1. CASE writeQ = <<>>
    BY <1>9, <2>1 DEF PopWrite
  <2>2. CASE writeQ # <<>>
    <3>1. writeQ' \in Seq(Packets) /\ wpkt' \in Packets
      BY <1>9, <2>2, PopWriteQueue
    <3>2. QED
      BY <1>9, <2>2, <3>1 DEF PopWrite
  <2>3. QED
    BY <2>1, <2>2
<1>10. CASE ArmTimer
  BY <1>10 DEF ArmTimer
<1>11. CASE AddNewSession
  BY <1>11 DEF AddNewSession
<1>12. CASE WakeUp
  BY <1>12 DEF WakeUp
<1>13. CASE CheckClosed
  BY <1>13 DEF CheckClosed
<1>14. CASE StartWrite
  BY <1>14 DEF StartWrite
<1>15. CASE WriteSucceeds
  BY <1>15 DEF WriteSucceeds
<1>16. CASE WriteFails
  BY <1>16 DEF WriteFails, Exchange
<1>17. CASE WriterShutdown
  BY <1>17 DEF WriterShutdown
<1>18. CASE StrayWriter
  BY <1>18 DEF StrayWriter
<1>19. CASE SocketTakes
  <2>1. got' \in Seq(Packets)
    BY <1>19, QueuePush DEF SocketTakes
  <2>2. QED
    BY <1>19, <2>1 DEF SocketTakes
<1>20. CASE SocketRefuses
  BY <1>20 DEF SocketRefuses
<1>21. CASE Tick
  BY <1>21 DEF Tick
<1>22. CASE RunPosted
  BY <1>22 DEF RunPosted
<1>23. CASE StrayHandler
  BY <1>23 DEF StrayHandler
<1>24. CASE PopRead
  <2>1. CASE readQ = <<>>
    <3>1. /\ lpc' = (IF posted THEN "idle" ELSE "closed?") /\ posted' = FALSE
          /\ UNCHANGED <<lpkt, readQ>>
      BY <1>24, <2>1 DEF PopRead, HandlerReturns
    <3>2. lpc' \in {"idle", "closed?"} /\ posted' \in BOOLEAN
      BY <3>1
    <3>3. /\ UNCHANGED <<peerVars, nread, got, life, closed, shutdowns, writeQ, netVars, stray>>
          /\ UNCHANGED <<lpkt, readQ>>
      BY <1>24, <3>1 DEF PopRead
    <3>4. QED
      BY <3>2, <3>3
  <2>2. CASE readQ # <<>>
    <3>1. readQ' \in Seq(Packets) /\ lpkt' \in Packets
      BY <1>24, <2>2, PopReadQueue
    <3>2. QED
      BY <1>24, <2>2, <3>1 DEF PopRead
  <2>3. QED
    BY <2>1, <2>2
<1>25. CASE PushWrite
  <2>1. writeQ' \in Seq(Packets)
    BY <1>25, QueuePush DEF PushWrite
  <2>2. QED
    BY <1>25, <2>1 DEF PushWrite
<1>26. CASE CancelOne
  BY <1>26 DEF CancelOne, HandlerReturns
<1>27. CASE ReadClosed
  BY <1>27 DEF ReadClosed
<1>28. CASE Erase
  BY <1>28 DEF Erase
<1>29. CASE Gone \/ UNCHANGED vars
  BY <1>29 DEF Gone, vars, netVars, logicVars, peerVars
<1>30. QED
  BY <1>1, <1>2, <1>3, <1>4, <1>5, <1>6, <1>7, <1>8, <1>9, <1>10, <1>11, <1>12, <1>13, <1>14, <1>15, <1>16, <1>17, <1>18, <1>19, <1>20, <1>21, <1>22, <1>23, <1>24, <1>25, <1>26, <1>27, <1>28, <1>29
     DEF Next, Reader, Writer, Socket, Logic

(* Every step keeps the turns. *)
LEMMA TurnsStep ==
  ASSUME TypeOK, Turns, [Next]_vars
  PROVE  Turns'
PROOF
<1> USE DEF TypeOK, Turns, Packets, NoPacket, alive, netVars, logicVars, peerVars
<1>1. CASE PeerSend
  BY <1>1 DEF PeerSend
<1>2. CASE PeerFin
  BY <1>2 DEF PeerFin
<1>3. CASE PeerReset
  BY <1>3 DEF PeerReset
<1>4. CASE ReadPacket
  BY <1>4 DEF ReadPacket
<1>5. CASE PushRead
  BY <1>5 DEF PushRead
<1>6. CASE ReadFails
  BY <1>6 DEF ReadFails, Exchange
<1>7. CASE ReaderShutdown
  BY <1>7 DEF ReaderShutdown
<1>8. CASE StrayReader
  BY <1>8 DEF StrayReader
<1>9. CASE PopWrite
  BY <1>9 DEF PopWrite
<1>10. CASE ArmTimer
  BY <1>10 DEF ArmTimer
<1>11. CASE AddNewSession
  BY <1>11 DEF AddNewSession
<1>12. CASE WakeUp
  BY <1>12 DEF WakeUp
<1>13. CASE CheckClosed
  BY <1>13 DEF CheckClosed
<1>14. CASE StartWrite
  BY <1>14 DEF StartWrite
<1>15. CASE WriteSucceeds
  BY <1>15 DEF WriteSucceeds
<1>16. CASE WriteFails
  BY <1>16 DEF WriteFails, Exchange
<1>17. CASE WriterShutdown
  BY <1>17 DEF WriterShutdown
<1>18. CASE StrayWriter
  BY <1>18 DEF StrayWriter
<1>19. CASE SocketTakes
  BY <1>19 DEF SocketTakes
<1>20. CASE SocketRefuses
  BY <1>20 DEF SocketRefuses
<1>21. CASE Tick
  BY <1>21 DEF Tick
<1>22. CASE RunPosted
  BY <1>22 DEF RunPosted
<1>23. CASE StrayHandler
  BY <1>23 DEF StrayHandler
<1>24. CASE PopRead
  BY <1>24 DEF PopRead, HandlerReturns
<1>25. CASE PushWrite
  BY <1>25 DEF PushWrite
<1>26. CASE CancelOne
  BY <1>26 DEF CancelOne, HandlerReturns
<1>27. CASE ReadClosed
  BY <1>27 DEF ReadClosed
<1>28. CASE Erase
  BY <1>28 DEF Erase
<1>29. CASE Gone \/ UNCHANGED vars
  BY <1>29 DEF Gone, vars, netVars, logicVars, peerVars
<1>30. QED
  BY <1>1, <1>2, <1>3, <1>4, <1>5, <1>6, <1>7, <1>8, <1>9, <1>10, <1>11, <1>12, <1>13, <1>14, <1>15, <1>16, <1>17, <1>18, <1>19, <1>20, <1>21, <1>22, <1>23, <1>24, <1>25, <1>26, <1>27, <1>28, <1>29
     DEF Next, Reader, Writer, Socket, Logic

(* Every step keeps what closing implies. *)
LEMMA ClosingStep ==
  ASSUME TypeOK, Turns, Closing, [Next]_vars
  PROVE  Closing'
PROOF
<1> USE DEF TypeOK, Turns, Closing, alive, netVars, logicVars, peerVars
<1>1. CASE PeerSend
  BY <1>1 DEF PeerSend
<1>2. CASE PeerFin
  BY <1>2 DEF PeerFin
<1>3. CASE PeerReset
  BY <1>3 DEF PeerReset
<1>4. CASE ReadPacket
  BY <1>4 DEF ReadPacket
<1>5. CASE PushRead
  BY <1>5 DEF PushRead
<1>6. CASE ReadFails
  BY <1>6 DEF ReadFails, Exchange
<1>7. CASE ReaderShutdown
  BY <1>7 DEF ReaderShutdown
<1>8. CASE StrayReader
  BY <1>8 DEF StrayReader
<1>9. CASE PopWrite
  BY <1>9 DEF PopWrite
<1>10. CASE ArmTimer
  BY <1>10 DEF ArmTimer
<1>11. CASE AddNewSession
  BY <1>11 DEF AddNewSession
<1>12. CASE WakeUp
  BY <1>12 DEF WakeUp
<1>13. CASE CheckClosed
  BY <1>13 DEF CheckClosed
<1>14. CASE StartWrite
  BY <1>14 DEF StartWrite
<1>15. CASE WriteSucceeds
  BY <1>15 DEF WriteSucceeds
<1>16. CASE WriteFails
  BY <1>16 DEF WriteFails, Exchange
<1>17. CASE WriterShutdown
  BY <1>17 DEF WriterShutdown
<1>18. CASE StrayWriter
  BY <1>18 DEF StrayWriter
<1>19. CASE SocketTakes
  BY <1>19 DEF SocketTakes
<1>20. CASE SocketRefuses
  BY <1>20 DEF SocketRefuses
<1>21. CASE Tick
  BY <1>21 DEF Tick
<1>22. CASE RunPosted
  BY <1>22 DEF RunPosted
<1>23. CASE StrayHandler
  BY <1>23 DEF StrayHandler
<1>24. CASE PopRead
  BY <1>24 DEF PopRead, HandlerReturns
<1>25. CASE PushWrite
  BY <1>25 DEF PushWrite
<1>26. CASE CancelOne
  BY <1>26 DEF CancelOne, HandlerReturns
<1>27. CASE ReadClosed
  BY <1>27 DEF ReadClosed
<1>28. CASE Erase
  BY <1>28 DEF Erase
<1>29. CASE Gone \/ UNCHANGED vars
  BY <1>29 DEF Gone, vars, netVars, logicVars, peerVars
<1>30. QED
  BY <1>1, <1>2, <1>3, <1>4, <1>5, <1>6, <1>7, <1>8, <1>9, <1>10, <1>11, <1>12, <1>13, <1>14, <1>15, <1>16, <1>17, <1>18, <1>19, <1>20, <1>21, <1>22, <1>23, <1>24, <1>25, <1>26, <1>27, <1>28, <1>29
     DEF Next, Reader, Writer, Socket, Logic

(* Every step keeps the order of the packets. *)
LEMMA FlowStep ==
  ASSUME TypeOK, Turns, Closing, Flow, [Next]_vars
  PROVE  Flow'
PROOF
<1>a. /\ got \in Seq(Packets) /\ writeQ \in Seq(Packets) /\ readQ \in Seq(Packets)
      /\ Len(got) \in Nat /\ Len(writeQ) \in Nat /\ Len(readQ) \in Nat
      /\ nread \in Nat /\ wpkt \in Nat /\ lpkt \in Nat
      /\ wpkt # NoPacket => wpkt \in Packets
      /\ lpkt # NoPacket => lpkt \in Packets
  BY LenProperties DEF TypeOK, Packets, NoPacket
<1>b. /\ Held(wpkt) \in Nat /\ Held(lpkt) \in Nat
      /\ WriteBase \in Nat /\ LogicBase \in Nat /\ ReadBase \in Nat
  <2>1. Held(wpkt) \in Nat /\ Held(lpkt) \in Nat
    BY DEF Held
  <2>2. WriteBase \in Nat
    BY <1>a, <2>1 DEF WriteBase
  <2>3. LogicBase \in Nat
    BY <1>a, <2>2 DEF LogicBase
  <2>4. QED
    BY <2>1, <2>2, <2>3 DEF ReadBase
<1> USE DEF Turns, Flow, InOrder, WriteBase, LogicBase, ReadBase, JustRead, Held,
            NoPacket, alive, netVars, logicVars, peerVars
<1>1. CASE PeerSend
  BY <1>a, <1>1 DEF PeerSend
<1>2. CASE PeerFin
  BY <1>a, <1>2 DEF PeerFin
<1>3. CASE PeerReset
  BY <1>a, <1>3 DEF PeerReset
<1>4. CASE ReadPacket
  <2> SUFFICES ASSUME wpc' \notin {"closing", "done"} PROVE InOrder'
    OBVIOUS
  <2>1. /\ InOrder /\ rpc # "push" /\ rpc' = "push" /\ nread' = nread + 1
        /\ UNCHANGED <<got, wpkt, writeQ, lpkt, readQ>>
    BY <1>4 DEF ReadPacket
  <2>2. /\ JustRead = 0 /\ JustRead' = 1
        /\ UNCHANGED <<WriteBase, LogicBase, ReadBase>>
    BY <2>1
  <2> HIDE DEF Turns, Flow, WriteBase, LogicBase, ReadBase, JustRead, Held
  <2>3. QED
    BY <1>a, <1>b, <2>1, <2>2
<1>5. CASE PushRead
  <2> SUFFICES ASSUME wpc' \notin {"closing", "done"} PROVE InOrder'
    OBVIOUS
  <2>1. /\ InOrder /\ readQ' = Append(readQ, nread)
        /\ JustRead = 1 /\ JustRead' = 0
        /\ UNCHANGED <<got, wpkt, writeQ, lpkt, nread>>
        /\ UNCHANGED <<WriteBase, LogicBase, ReadBase>>
    BY <1>5 DEF PushRead
  <2>2. nread \in Packets
    <3>1. nread > 0
      BY <1>5 DEF PushRead
    <3>2. nread \in 0 .. sent /\ sent \in 0 .. MaxPackets
      BY DEF TypeOK
    <3>3. QED
      BY <3>1, <3>2 DEF Packets
  <2> HIDE DEF Turns, Flow, WriteBase, LogicBase, ReadBase, JustRead, Held
  <2>3. Numbered(readQ', ReadBase)
    BY <1>a, <1>b, <2>1, <2>2, NumberedPush
  <2>4. Len(readQ') = Len(readQ) + 1
    BY <1>a, <2>1, <2>2, QueuePush
  <2>5. QED
    BY <1>a, <1>b, <2>1, <2>3, <2>4
<1>6. CASE ReadFails
  BY <1>a, <1>6 DEF ReadFails, Exchange
<1>7. CASE ReaderShutdown
  BY <1>a, <1>7 DEF ReaderShutdown
<1>8. CASE StrayReader
  BY <1>a, <1>8 DEF StrayReader, Closing
<1>9. CASE PopWrite
  <2>1. CASE writeQ = <<>>
    BY <1>a, <1>9, <2>1 DEF PopWrite
  <2>2. CASE writeQ # <<>>
    <3> SUFFICES ASSUME wpc' \notin {"closing", "done"} PROVE InOrder'
      OBVIOUS
    <3>1. /\ InOrder /\ wpkt' = Head(writeQ) /\ writeQ' = Tail(writeQ)
          /\ Held(wpkt) = 0
          /\ UNCHANGED <<got, lpkt, readQ, nread>>
          /\ UNCHANGED <<JustRead, Held(lpkt)>>
      BY <1>9, <2>2 DEF PopWrite
    <3> HIDE DEF Turns, Flow, WriteBase, LogicBase, ReadBase, JustRead, Held
    <3>2. WriteBase = Len(got)
      BY <1>a, <3>1 DEF WriteBase
    <3>3. wpkt' = Len(got) + 1 /\ Numbered(writeQ', Len(got) + 1)
      BY <1>a, <2>2, <3>1, <3>2, NumberedPop
    <3>4. Len(writeQ) > 0 /\ Len(writeQ') = Len(writeQ) - 1
      BY <1>a, <2>2, <3>1, QueuePop
    <3>5. WriteBase' = Len(got) + 1
      BY <1>a, <3>1, <3>3 DEF WriteBase, Held
    <3>6. LogicBase' = LogicBase
      BY <1>a, <3>2, <3>4, <3>5 DEF LogicBase
    <3>7. ReadBase' = ReadBase
      BY <3>1, <3>6 DEF ReadBase
    <3>8. QED
      BY <3>1, <3>3, <3>5, <3>6, <3>7
  <2>3. QED
    BY <2>1, <2>2
<1>10. CASE ArmTimer
  BY <1>a, <1>10 DEF ArmTimer
<1>11. CASE AddNewSession
  BY <1>a, <1>11 DEF AddNewSession
<1>12. CASE WakeUp
  BY <1>a, <1>12 DEF WakeUp
<1>13. CASE CheckClosed
  BY <1>a, <1>13 DEF CheckClosed
<1>14. CASE StartWrite
  BY <1>a, <1>14 DEF StartWrite
<1>15. CASE WriteSucceeds
  BY <1>a, <1>15 DEF WriteSucceeds
<1>16. CASE WriteFails
  BY <1>a, <1>16 DEF WriteFails, Exchange
<1>17. CASE WriterShutdown
  BY <1>a, <1>17 DEF WriterShutdown
<1>18. CASE StrayWriter
  BY <1>a, <1>18 DEF StrayWriter
<1>19. CASE SocketTakes
  <2>1. CASE wpkt = NoPacket
    BY <1>a, <1>19, <2>1 DEF SocketTakes
  <2>2. CASE wpkt # NoPacket
    <3> SUFFICES ASSUME wpc' \notin {"closing", "done"} PROVE InOrder'
      OBVIOUS
    <3>1. /\ InOrder /\ got' = Append(got, wpkt)
          /\ Held(wpkt) = 1 /\ wpkt' = NoPacket /\ Held(wpkt') = 0
          /\ UNCHANGED <<lpkt, writeQ, readQ, nread>>
          /\ UNCHANGED <<JustRead, Held(lpkt)>>
      BY <1>19, <2>2 DEF SocketTakes
    <3> HIDE DEF Turns, Flow, WriteBase, LogicBase, ReadBase, JustRead, Held
    <3>2. Numbered(got', 0)
      BY <1>a, <2>2, <3>1, NumberedPush
    <3>3. Len(got') = Len(got) + 1
      BY <1>a, <2>2, <3>1, QueuePush
    <3>4. WriteBase' = WriteBase
      BY <1>a, <3>1, <3>3 DEF WriteBase
    <3>5. LogicBase' = LogicBase /\ ReadBase' = ReadBase
      BY <3>1, <3>4 DEF LogicBase, ReadBase
    <3>6. QED
      BY <3>1, <3>2, <3>4, <3>5
  <2>3. QED
    BY <2>1, <2>2
<1>20. CASE SocketRefuses
  BY <1>a, <1>20 DEF SocketRefuses
<1>21. CASE Tick
  BY <1>a, <1>21 DEF Tick
<1>22. CASE RunPosted
  BY <1>a, <1>22 DEF RunPosted
<1>23. CASE StrayHandler
  BY <1>a, <1>23 DEF StrayHandler
<1>24. CASE PopRead
  <2>1. CASE readQ = <<>>
    BY <1>a, <1>24, <2>1 DEF PopRead, HandlerReturns
  <2>2. CASE readQ # <<>>
    <3> SUFFICES ASSUME wpc' \notin {"closing", "done"} PROVE InOrder'
      OBVIOUS
    <3>1. /\ InOrder /\ lpkt' = Head(readQ) /\ readQ' = Tail(readQ)
          /\ Held(lpkt) = 0
          /\ UNCHANGED <<got, wpkt, writeQ, nread>>
          /\ UNCHANGED <<JustRead, WriteBase, LogicBase>>
      BY <1>24, <2>2 DEF PopRead
    <3> HIDE DEF Turns, Flow, WriteBase, LogicBase, ReadBase, JustRead, Held
    <3>2. ReadBase = LogicBase
      BY <1>b, <3>1 DEF ReadBase
    <3>3. lpkt' = LogicBase + 1 /\ Numbered(readQ', LogicBase + 1)
      BY <1>a, <1>b, <2>2, <3>1, <3>2, NumberedPop
    <3>4. Len(readQ) > 0 /\ Len(readQ') = Len(readQ) - 1
      BY <1>a, <2>2, <3>1, QueuePop
    <3>5. ReadBase' = LogicBase + 1
      BY <1>b, <3>1, <3>3 DEF ReadBase, Held
    <3>6. JustRead \in Nat
      BY DEF JustRead
    <3>7. nread' = ReadBase' + Len(readQ') + JustRead'
      <4>1. nread = ReadBase + Len(readQ) + JustRead
        BY <3>1
      <4>2. /\ nread' = nread /\ JustRead' = JustRead
            /\ ReadBase' = ReadBase + 1 /\ Len(readQ') = Len(readQ) - 1
        BY <3>1, <3>2, <3>4, <3>5
      <4> HIDE DEF InOrder
      <4>3. QED
        BY <1>a, <1>b, <3>6, <4>1, <4>2
    <3>8. QED
      BY <3>1, <3>3, <3>5, <3>7
  <2>3. QED
    BY <2>1, <2>2
<1>25. CASE PushWrite
  <2> SUFFICES ASSUME wpc' \notin {"closing", "done"} PROVE InOrder'
    OBVIOUS
  <2>1. /\ InOrder /\ writeQ' = Append(writeQ, lpkt)
        /\ lpkt # NoPacket /\ lpkt' = NoPacket
        /\ Held(lpkt) = 1 /\ Held(lpkt') = 0
        /\ UNCHANGED <<got, wpkt, readQ, nread>>
        /\ UNCHANGED <<WriteBase, JustRead>>
    BY <1>25 DEF PushWrite
  <2> HIDE DEF Turns, Flow, WriteBase, LogicBase, ReadBase, JustRead, Held
  <2>2. lpkt \in Packets /\ lpkt = WriteBase + Len(writeQ) + 1
    BY <1>a, <2>1 DEF LogicBase
  <2>3. Numbered(writeQ', WriteBase)
    BY <1>a, <1>b, <2>1, <2>2, NumberedPush
  <2>4. Len(writeQ') = Len(writeQ) + 1
    BY <1>a, <2>1, <2>2, QueuePush
  <2>5. ReadBase' = ReadBase
    BY <1>a, <1>b, <2>1, <2>4 DEF ReadBase, LogicBase
  <2>6. QED
    BY <2>1, <2>3, <2>5
<1>26. CASE CancelOne
  BY <1>a, <1>26 DEF CancelOne, HandlerReturns
<1>27. CASE ReadClosed
  BY <1>a, <1>27 DEF ReadClosed
<1>28. CASE Erase
  BY <1>a, <1>28 DEF Erase
<1>29. CASE Gone \/ UNCHANGED vars
  BY <1>a, <1>29 DEF Gone, vars, netVars, logicVars, peerVars
<1>30. QED
  BY <1>1, <1>2, <1>3, <1>4, <1>5, <1>6, <1>7, <1>8, <1>9, <1>10, <1>11, <1>12, <1>13, <1>14, <1>15, <1>16, <1>17, <1>18, <1>19, <1>20, <1>21, <1>22, <1>23, <1>24, <1>25, <1>26, <1>27, <1>28, <1>29
     DEF Next, Reader, Writer, Socket, Logic

(* Every step of every thread keeps the inductive invariant.                 *)
LEMMA InvStep == IInv /\ [Next]_vars => IInv'
PROOF
<1> SUFFICES ASSUME TypeOK, Turns, Closing, Flow, [Next]_vars PROVE IInv'
  BY DEF IInv
<1>1. TypeOK' /\ Turns'
  BY TypeStep, TurnsStep
<1>2. Closing' /\ Flow'
  BY ClosingStep, FlowStep
<1>3. QED
  BY <1>1, <1>2 DEF IInv

(* The inductive invariant holds of every session.                           *)
THEOREM Invariance == Spec => []IInv
PROOF
<1>1. Init => IInv
  BY InitInv
<1>2. IInv /\ [Next]_vars => IInv'
  BY InvStep
<1>3. QED
  BY <1>1, <1>2, PTL DEF Spec

-----------------------------------------------------------------------------
(* The state has its types in every session, whatever the number of packets. *)
THEOREM TypeCorrect == Spec => []TypeOK
PROOF
<1>1. IInv => TypeOK
  BY DEF IInv
<1>2. QED
  BY <1>1, Invariance, PTL

(* While a session is open, the packets in the two queues, in the hands of   *)
(* the threads and already answered are 1, 2, ..., nread in order: neither   *)
(* the hand-over of ReadLoop to the logic nor that of SendMsg to WriteLoop   *)
(* loses, doubles or reorders one.                                           *)
THEOREM NothingLost == Spec => []NothingLostWhileOpen
PROOF
<1>1. IInv => NothingLostWhileOpen
  BY DEF IInv, Closing, Flow, NothingLostWhileOpen
<1>2. QED
  BY <1>1, Invariance, PTL

(* CloseSession shuts the sending side down at most once.                    *)
THEOREM SingleShutdown == Spec => []ShutdownAtMostOnce
PROOF
<1>1. IInv => ShutdownAtMostOnce
  BY DEF IInv, Closing, ShutdownAtMostOnce
<1>2. QED
  BY <1>1, Invariance, PTL

(* WriteLoop never starts a write on a closed session: its test of _closed   *)
(* still holds when it calls async_write.                                    *)
THEOREM NoLateWrite == Spec => NoWriteAfterClose
PROOF
<1>1. IInv /\ [Next]_vars => [wpc # "writing" /\ wpc' = "writing" => ~closed]_vars
  <2> SUFFICES ASSUME IInv, Next, wpc # "writing", wpc' = "writing"
               PROVE  ~closed
    OBVIOUS
  <2>1. StartWrite
    BY DEF Next, PeerSend, PeerFin, PeerReset, Reader, ReadPacket, PushRead,
           ReadFails, Exchange, ReaderShutdown, StrayReader, Writer, PopWrite,
           ArmTimer, AddNewSession, WakeUp, CheckClosed, WriteSucceeds,
           WriteFails, WriterShutdown, StrayWriter, Socket, SocketTakes,
           SocketRefuses, Logic, Tick, RunPosted, StrayHandler, PopRead,
           PushWrite, CancelOne, ReadClosed, Erase, Gone, vars, netVars
  <2>2. QED
    BY <2>1 DEF StartWrite, IInv, Closing
<1>2. QED
  BY <1>1, Invariance, PTL DEF Spec, NoWriteAfterClose

(* The tick closes nothing: when it erases a session, the network thread has *)
(* closed it, so shutdown is never called from the logic thread.             *)
THEOREM TickClosesNothing == Spec => OnlyNetworkCloses
PROOF
<1>1. IInv /\ [Next]_vars
        => [closed' # closed => UNCHANGED <<logicVars, life>>]_vars
  <2> SUFFICES ASSUME IInv, Next, closed' # closed
               PROVE  UNCHANGED <<logicVars, life>>
    OBVIOUS
  <2>1. closed \in BOOLEAN /\ (lpc = "erase" => closed)
    BY DEF IInv, TypeOK, Closing
  <2>2. ReadFails \/ WriteFails \/ Erase
    BY DEF Next, PeerSend, PeerFin, PeerReset, Reader, ReadPacket, PushRead,
           ReaderShutdown, StrayReader, Writer, PopWrite,
           ArmTimer, AddNewSession, WakeUp, CheckClosed, StartWrite,
           WriteSucceeds, WriterShutdown, StrayWriter, Socket, SocketTakes,
           SocketRefuses, Logic, Tick, RunPosted, StrayHandler, PopRead,
           PushWrite, CancelOne, ReadClosed, Gone, vars
  <2>3. ~Erase
    BY <2>1 DEF Erase
  <2>4. QED
    BY <2>2, <2>3 DEF ReadFails, WriteFails
<1>2. QED
  BY <1>1, Invariance, PTL DEF Spec, OnlyNetworkCloses

-----------------------------------------------------------------------------
(* A new session shows the pipeline's initial state.                         *)
LEMMA RefinementInit == Init => Pipeline!Init
PROOF
<1> SUFFICES ASSUME Init PROVE Pipeline!Init
  OBVIOUS
<1>1. Handled = 0
  <2>1. nread = 0 /\ Len(readQ) = 0 /\ Held(lpkt) = 0 /\ JustRead = 0
    BY EmptySeq DEF Init, Held, JustRead, NoPacket
  <2>2. QED
    BY <2>1 DEF Handled
<1>2. Credit = 1
  BY DEF Init, Credit
<1>3. QED
  BY <1>1, <1>2 DEF Init, Pipeline!Init

(* Every step of a session is a step of the pipeline or changes nothing it   *)
(* shows.                                                                    *)
LEMMA RefinementStep ==
  ASSUME IInv, [Next]_vars
  PROVE  [Pipeline!Next]_(Pipeline!vars)
PROOF
<1>a. /\ Len(got) \in Nat /\ Len(readQ) \in Nat /\ Len(writeQ) \in Nat
      /\ nread \in Nat /\ closed \in BOOLEAN
      /\ readQ \in Seq(Packets) /\ writeQ \in Seq(Packets)
      /\ lpkt # NoPacket <=> lpc = "push"
  BY LenProperties DEF IInv, TypeOK, Turns
<1>b. /\ wpc = "start" => ~closed
      /\ lpc = "erase" \/ ~alive => closed
      /\ wpc \in {"closing", "done"} \/ rpc \in {"closing", "done"} => closed
  BY DEF IInv, Closing
<1>d. /\ Held(lpkt) \in Nat /\ JustRead \in Nat
      /\ nread - Len(readQ) - Held(lpkt) - JustRead = Handled
  BY DEF Held, JustRead, Handled
<1> DEFINE Unseen == UNCHANGED <<nread, Handled, got, closed, Credit>>
<1>c. ASSUME Unseen PROVE [Pipeline!Next]_(Pipeline!vars)
  BY <1>c DEF Pipeline!vars
<1> USE DEF Handled, Credit, Held, JustRead, NoPacket, netVars, logicVars, peerVars
<1>1. CASE PeerSend
  BY <1>1, <1>a, <1>b, <1>c DEF PeerSend
<1>2. CASE PeerFin
  BY <1>2, <1>a, <1>b, <1>c DEF PeerFin
<1>3. CASE PeerReset
  BY <1>3, <1>a, <1>b, <1>c DEF PeerReset
<1>4. CASE ReaderShutdown
  BY <1>4, <1>a, <1>b, <1>c DEF ReaderShutdown
<1>5. CASE ArmTimer
  BY <1>5, <1>a, <1>b, <1>c DEF ArmTimer
<1>6. CASE AddNewSession
  BY <1>6, <1>a, <1>b, <1>c DEF AddNewSession
<1>7. CASE WakeUp
  BY <1>7, <1>a, <1>b, <1>c DEF WakeUp
<1>8. CASE CheckClosed
  BY <1>8, <1>a, <1>b, <1>c DEF CheckClosed
<1>9. CASE StartWrite
  BY <1>9, <1>a, <1>b, <1>c DEF StartWrite
<1>10. CASE WriteSucceeds
  BY <1>10, <1>a, <1>b, <1>c DEF WriteSucceeds
<1>11. CASE WriterShutdown
  BY <1>11, <1>a, <1>b, <1>c DEF WriterShutdown
<1>12. CASE Tick
  BY <1>12, <1>a, <1>b, <1>c DEF Tick
<1>13. CASE RunPosted
  BY <1>13, <1>a, <1>b, <1>c DEF RunPosted
<1>14. CASE StrayHandler
  BY <1>14, <1>a, <1>b, <1>c DEF StrayHandler
<1>15. CASE CancelOne
  BY <1>15, <1>a, <1>b, <1>c DEF CancelOne, HandlerReturns
<1>16. CASE ReadClosed
  BY <1>16, <1>a, <1>b, <1>c DEF ReadClosed
<1>17. CASE Erase
  BY <1>17, <1>a, <1>b, <1>c DEF Erase
<1>18. CASE ReadPacket
  BY <1>18, <1>a DEF ReadPacket, Pipeline!Next, Pipeline!Receive
<1>19. CASE PushRead
  BY <1>19, <1>a, <1>c DEF PushRead
<1>20. CASE ReadFails
  <2>1. CASE closed
    BY <1>20, <1>a, <1>c, <2>1 DEF ReadFails, Exchange
  <2>2. CASE ~closed
    <3>1. UNCHANGED <<nread, Handled, got>> /\ closed' = TRUE /\ Credit' \in {0, 1}
      BY <1>20 DEF ReadFails, Exchange
    <3>2. QED
      BY <2>2, <3>1 DEF Pipeline!Next, Pipeline!Close
  <2>3. QED
    BY <1>a, <2>1, <2>2
<1>21. CASE StrayReader
  <2>1. CASE rpc = "push"
    BY <1>21, <1>a, <1>d, <2>1 DEF StrayReader, Pipeline!Next, Pipeline!Handle
  <2>2. CASE rpc # "push"
    BY <1>21, <1>a, <1>c, <2>2 DEF StrayReader
  <2>3. QED
    BY <2>1, <2>2
<1>22. CASE PopWrite
  BY <1>22, <1>a, <1>c DEF PopWrite
<1>23. CASE SocketTakes
  <2>1. CASE wpkt = NoPacket
    BY <1>23, <1>a, <1>c, <2>1 DEF SocketTakes
  <2>2. CASE wpkt # NoPacket
    <3>1. /\ wpc = "writing" /\ wpc' = "written" /\ got' = Append(got, wpkt)
          /\ UNCHANGED <<nread, Handled, closed>>
      BY <1>23, <2>2 DEF SocketTakes
    <3>2. InOrder
      BY <3>1 DEF IInv, Flow
    <3>3. wpkt = Len(got) + 1
      BY <2>2, <3>2 DEF InOrder
    <3>4. Len(got) < Handled
      BY <1>a, <2>2, <3>2 DEF InOrder, ReadBase, LogicBase, WriteBase
    <3>5. Credit = 1 /\ Credit' = IF ~closed THEN 1 ELSE 0
      BY <2>2, <3>1
    <3> HIDE DEF Handled, Credit
    <3>6. QED
      BY <1>a, <3>1, <3>3, <3>4, <3>5 DEF Pipeline!Next, Pipeline!Deliver
  <2>3. QED
    BY <2>1, <2>2
<1>24. CASE SocketRefuses
  <2>1. UNCHANGED <<nread, Handled, got, closed>> /\ Credit = 1
    BY <1>24 DEF SocketRefuses
  <2>2. Credit' = IF closed THEN 0 ELSE 1
    BY <1>24, <1>a DEF SocketRefuses
  <2> HIDE DEF Handled, Credit
  <2>3. QED
    BY <1>a, <1>c, <2>1, <2>2 DEF Pipeline!Next, Pipeline!Forfeit
<1>25. CASE WriteFails
  <2>1. /\ UNCHANGED <<nread, Handled, got>>
        /\ closed' = TRUE /\ Credit' = 0
        /\ closed => Credit = 0
    BY <1>25 DEF WriteFails, Exchange
  <2> HIDE DEF Handled, Credit
  <2>2. CASE closed
    BY <1>c, <2>1, <2>2
  <2>3. CASE ~closed
    BY <2>1, <2>3 DEF Pipeline!Next, Pipeline!Close
  <2>4. QED
    BY <1>a, <2>2, <2>3
<1>26. CASE StrayWriter
  <2>1. /\ UNCHANGED <<nread, Handled, got, closed>>
        /\ closed /\ Credit \in {0, 1} /\ Credit' = 0
    BY <1>26, <1>a, <1>b DEF StrayWriter
  <2> HIDE DEF Handled, Credit
  <2>2. QED
    BY <1>c, <2>1 DEF Pipeline!Next, Pipeline!Forfeit
<1>27. CASE PopRead
  <2>1. CASE readQ = <<>>
    BY <1>27, <1>a, <1>c, <2>1 DEF PopRead
  <2>2. CASE readQ # <<>>
    <3>1. /\ lpkt = NoPacket /\ lpkt' \in Packets
          /\ Len(readQ') = Len(readQ) - 1
          /\ UNCHANGED <<nread, JustRead, got, closed, Credit>>
      BY <1>27, <1>a, <2>2, PopReadQueue DEF PopRead
    <3>2. Held(lpkt) = 0 /\ Held(lpkt') = 1
      BY <3>1 DEF Packets
    <3>3. JustRead \in Nat
      OBVIOUS
    <3> HIDE DEF Held, JustRead, Credit
    <3>4. Handled' = Handled
      BY <1>a, <3>1, <3>2, <3>3
    <3>5. QED
      BY <1>c, <3>1, <3>4
  <2>3. QED
    BY <2>1, <2>2
<1>28. CASE PushWrite
  BY <1>28, <1>a DEF PushWrite, Pipeline!Next, Pipeline!Handle
<1>29. CASE Gone \/ UNCHANGED vars
  BY <1>29, <1>c DEF Gone, vars
<1>30. QED
  BY <1>1, <1>2, <1>3, <1>4, <1>5, <1>6, <1>7, <1>8, <1>9, <1>10, <1>11, <1>12, <1>13, <1>14, <1>15, <1>16, <1>17, <1>18, <1>19, <1>20, <1>21, <1>22, <1>23, <1>24, <1>25, <1>26, <1>27, <1>28, <1>29
     DEF Next, Reader, Writer, Socket, Logic

(* The session implements PacketPipeline: it answers the packets in the      *)
(* order they arrived, each at most once, and after it closes at most the    *)
(* one answer being written still goes out.                                  *)
THEOREM Refinement == Spec => ImplementsPipeline
PROOF
<1>1. Init => Pipeline!Init
  BY RefinementInit
<1>2. IInv /\ [Next]_vars => [Pipeline!Next]_(Pipeline!vars)
  BY RefinementStep
<1>3. QED
  BY <1>1, <1>2, Invariance, PTL DEF Spec, ImplementsPipeline, Pipeline!Spec
=============================================================================
