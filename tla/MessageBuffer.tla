----------------------------- MODULE MessageBuffer -----------------------------
(* Net::MessageBuffer (Common/Net/Buffer.h): a growing array with a read and *)
(* a write index.  A buffer is a record, and each member function an         *)
(* operator from the buffer before to the buffer after.                      *)
EXTENDS Naturals, Sequences

CONSTANTS
  Byte,          \* the values of a byte
  Zero,          \* the value std::vector gives new elements
  InitialSize,   \* INITIAL_BUFFER_SIZE
  Pieces,        \* what a caller may write in one call
  MaxReserve,    \* bound on the argument of Shrink
  MaxSize        \* bound on the storage

ASSUME ByteAssumption == Zero \in Byte
ASSUME SizeAssumption ==
  InitialSize \in Nat /\ MaxReserve \in Nat /\ MaxSize \in Nat
ASSUME PiecesAssumption == Pieces \subseteq Seq(Byte)

VARIABLES
  buf,        \* the buffer
  result      \* what the last operation returned

vars == <<buf, result>>

Buffer == [read: Nat, write: Nat, bytes: Seq(Byte)]

Readable(m) == m.write - m.read
Writable(m) == Len(m.bytes) - m.write
Content(m)  == SubSeq(m.bytes, m.read + 1, m.write)

(* A buffer of a given size, as the constructor makes it.                    *)
Fresh(size) == [read |-> 0, write |-> 0, bytes |-> [i \in 1 .. size |-> Zero]]

(* std::vector::resize to a larger size. *)
Resized(bytes, size) ==
  [i \in 1 .. size |-> IF i <= Len(bytes) THEN bytes[i] ELSE Zero]

(* memcpy or std::copy of s to the offset at. *)
Overwritten(bytes, at, s) ==
  [i \in 1 .. Len(bytes) |->
     IF at < i /\ i <= at + Len(s) THEN s[i - at] ELSE bytes[i]]

(* Mutant: the new size forgets what is already written. *)
MakeTooLittleSpace(m, len) ==
  IF Writable(m) < len
  THEN [m EXCEPT !.bytes = Resized(@, len)]
  ELSE [m EXCEPT !.bytes = Overwritten(@, 0, Content(m)),
                 !.read = 0, !.write = Readable(m)]

MakeSpace(m, len) ==
  IF Writable(m) < len
  THEN [m EXCEPT !.bytes = Resized(@, m.write + len)]
  ELSE [m EXCEPT !.bytes = Overwritten(@, 0, Content(m)),
                 !.read = 0, !.write = Readable(m)]

EnsureWritableBytes(m, len) ==
  IF Writable(m) < len THEN MakeSpace(m, len) ELSE m

(* The bytes go to GetWritPointer, and the write index past them. *)
Stored(m, s) ==
  [m EXCEPT !.bytes = Overwritten(@, m.write, s), !.write = @ + Len(s)]

Written(m, s) == Stored(EnsureWritableBytes(m, Len(s)), s)

(* Mutant: the indices start again as soon as the end is read, read or not. *)
ConsumeBytesResets(m, len) == [m EXCEPT !.read = 0, !.write = 0]

ConsumeBytes(m, len) ==
  IF len < Readable(m)
  THEN [m EXCEPT !.read = @ + len]
  ELSE [m EXCEPT !.read = 0, !.write = 0]

Shrunk(m, reserve) ==
  Written(EnsureWritableBytes(Fresh(InitialSize), Readable(m) + reserve),
          Content(m))

-----------------------------------------------------------------------------
Init == buf = Fresh(InitialSize) /\ result = <<>>

(* The bound on the storage. *)
InBound == Len(buf'.bytes) <= MaxSize

(* Write, in all its forms. *)
Write(s) ==
  /\ buf' = Written(buf, s) /\ InBound
  /\ result' = <<>>

(* ISession::ReadLoop: the socket writes through GetWritPointer into what is *)
(* writable, and WriteDone follows.                                          *)
Receive(s) ==
  /\ Len(s) <= Writable(buf)
  /\ buf' = Stored(buf, s)
  /\ result' = <<>>

(* Read and ReadAsString, with what their assertion asks of the caller. *)
Read(n) ==
  /\ n <= Readable(buf)
  /\ result' = SubSeq(buf.bytes, buf.read + 1, buf.read + n)
  /\ buf' = ConsumeBytes(buf, n)

(* BufferToProto: everything was parsed in place, ReadDone(ReadableBytes()). *)
ReadDone ==
  /\ buf' = [buf EXCEPT !.read = @ + Readable(buf)]
  /\ result' = <<>>

EnsureFreeSpace ==
  /\ buf' = MakeSpace(buf, (Len(buf.bytes) * 3) \div 2) /\ InBound
  /\ result' = <<>>

Shrink(reserve) ==
  /\ buf' = Shrunk(buf, reserve) /\ InBound
  /\ result' = <<>>

(* The move constructor takes the storage and leaves an empty buffer. *)
MovedFrom ==
  /\ buf' = [read |-> 0, write |-> 0, bytes |-> <<>>]
  /\ result' = <<>>

Next ==
  \/ \E s \in Pieces: Write(s) \/ Receive(s)
  \/ \E n \in 0 .. Readable(buf): Read(n)
  \/ ReadDone \/ EnsureFreeSpace \/ MovedFrom
  \/ \E reserve \in 0 .. MaxReserve: Shrink(reserve)

Spec == Init /\ [][Next]_vars

-----------------------------------------------------------------------------
(* The buffer is a record of its type, and the indices delimit a part of its *)
(* storage: unsigned differences of them never wrap.                         *)
TypeOK ==
  /\ buf \in Buffer
  /\ buf.read <= buf.write /\ buf.write <= Len(buf.bytes)
  /\ result \in Seq(Byte)

(* After EnsureFreeSpace no consumed byte is left in front of the readable   *)
(* ones: "tidies the memory and extends the capacity", as its comment says.  *)
(* The branch of MakeSpace that moves them to the front is never reached     *)
(* with something to move, since both callers ask for more than is writable. *)
FreeSpaceIsTidied == [][EnsureFreeSpace => buf'.read = 0]_vars

(* The buffer is a first-in first-out queue of bytes through every growth,   *)
(* reset, shrink and move.                                                   *)
Fifo == INSTANCE ByteFifo WITH content <- Content(buf)

ImplementsFifo == Fifo!Spec
=============================================================================
