------------------------- MODULE MessageBufferProofs -------------------------
(* What MCMessageBuffer checks for a storage of a few bytes, for every size  *)
(* and every piece: the indices stay in the storage and the buffer is a      *)
(* first-in first-out queue.                                                 *)
EXTENDS MessageBuffer, SequenceTheorems, TLAPS

(* A well-formed buffer.                                                     *)
Ok(m) ==
  /\ m \in Buffer
  /\ m.read <= m.write /\ m.write <= Len(m.bytes)

(* A function on 1 .. n is a sequence of length n.                           *)
LEMMA FunctionIsSeq ==
  ASSUME NEW S, NEW n \in Nat, NEW f \in [1 .. n -> S]
  PROVE  f \in Seq(S) /\ Len(f) = n
PROOF
<1>1. f \in Seq(S)
  BY SeqDef
<1>2. Len(f) \in Nat /\ DOMAIN f = 1 .. Len(f)
  BY <1>1, LenProperties
<1>3. 1 .. Len(f) = 1 .. n
  BY <1>2
<1>4. QED
  BY <1>1, <1>2, <1>3

(* The readable bytes are as many as the indices say, and each is found in   *)
(* the storage at its distance from the read index.                          *)
LEMMA ContentProperties ==
  ASSUME NEW m, Ok(m)
  PROVE  /\ Len(m.bytes) \in Nat /\ m.bytes \in Seq(Byte)
         /\ Readable(m) \in Nat /\ Writable(m) \in Nat
         /\ Content(m) \in Seq(Byte)
         /\ Len(Content(m)) = Readable(m)
         /\ \A i \in 1 .. Readable(m): Content(m)[i] = m.bytes[m.read + i]
PROOF
<1>1. /\ m.read \in Nat /\ m.write \in Nat /\ m.bytes \in Seq(Byte)
      /\ m.read <= m.write /\ m.write <= Len(m.bytes)
  BY DEF Ok, Buffer
<1>2. Len(m.bytes) \in Nat
  BY <1>1, LenProperties
<1>3. \A i \in m.read + 1 .. m.write: m.bytes[i] \in Byte
  BY <1>1, <1>2, ElementOfSeq
<1>4. /\ Content(m) \in Seq(Byte)
      /\ Len(Content(m)) = IF m.read + 1 <= m.write THEN m.write - (m.read + 1) + 1 ELSE 0
      /\ \A i \in 1 .. m.write - (m.read + 1) + 1:
            Content(m)[i] = m.bytes[(m.read + 1) + i - 1]
  <2>1. m.read + 1 \in Int /\ m.write \in Int
    BY <1>1
  <2> DEFINE first == m.read + 1
             last == m.write
             bytes == m.bytes
  <2>2. Content(m) = SubSeq(bytes, first, last)
    BY DEF Content
  <2>3. first \in Int /\ last \in Int /\ \A i \in first .. last: bytes[i] \in Byte
    BY <1>3, <2>1
  <2> HIDE DEF first, last, bytes
  <2>4. /\ SubSeq(bytes, first, last) \in Seq(Byte)
        /\ Len(SubSeq(bytes, first, last)) = IF first <= last THEN last - first + 1 ELSE 0
        /\ \A i \in 1 .. last - first + 1:
              SubSeq(bytes, first, last)[i] = bytes[first + i - 1]
    BY <2>3, SubSeqProperties
  <2>5. QED
    BY <2>2, <2>4 DEF first, last, bytes
<1>5. Readable(m) \in Nat /\ Writable(m) \in Nat
  BY <1>1, <1>2 DEF Readable, Writable
<1>6. Len(Content(m)) = Readable(m)
  BY <1>1, <1>4 DEF Readable
<1>7. \A i \in 1 .. Readable(m): Content(m)[i] = m.bytes[m.read + i]
  <2>1. ASSUME NEW i \in 1 .. Readable(m)
        PROVE  Content(m)[i] = m.bytes[m.read + i]
    <3>1. i \in 1 .. m.write - (m.read + 1) + 1
      BY <1>1 DEF Readable
    <3>2. (m.read + 1) + i - 1 = m.read + i
      BY <1>1, <3>1
    <3>3. QED
      BY <1>4, <3>1, <3>2
  <2>2. QED
    BY <2>1
<1>8. QED
  BY <1>1, <1>2, <1>4, <1>5, <1>6, <1>7

(* Buffers with the same bytes after their read indices have the same        *)
(* contents.                                                                 *)
LEMMA SameContent ==
  ASSUME NEW m, Ok(m), NEW k, Ok(k), Readable(k) = Readable(m),
         \A i \in 1 .. Readable(m): k.bytes[k.read + i] = m.bytes[m.read + i]
  PROVE  Content(k) = Content(m)
PROOF
<1>1. Content(m) \in Seq(Byte) /\ Content(k) \in Seq(Byte)
  BY ContentProperties
<1>2. Len(Content(m)) = Readable(m) /\ Len(Content(k)) = Readable(m)
  BY ContentProperties
<1>3. \A i \in 1 .. Len(Content(m)): Content(m)[i] = Content(k)[i]
  BY <1>2, ContentProperties
<1>4. QED
  BY <1>1, <1>2, <1>3, SeqEqual

(* Growing the storage keeps what was in it.                                 *)
LEMMA ResizedProperties ==
  ASSUME NEW bytes \in Seq(Byte), NEW size \in Nat, Len(bytes) <= size
  PROVE  /\ Resized(bytes, size) \in Seq(Byte)
         /\ Len(Resized(bytes, size)) = size
         /\ \A i \in 1 .. Len(bytes): Resized(bytes, size)[i] = bytes[i]
PROOF
<1>1. Len(bytes) \in Nat /\ \A i \in 1 .. Len(bytes): bytes[i] \in Byte
  BY LenProperties, ElementOfSeq
<1>2. Resized(bytes, size) \in [1 .. size -> Byte]
  BY <1>1, ByteAssumption DEF Resized
<1>3. \A i \in 1 .. Len(bytes): Resized(bytes, size)[i] = bytes[i]
  BY <1>1 DEF Resized
<1>4. QED
  BY <1>2, <1>3, FunctionIsSeq

(* Overwriting a part of the storage puts the piece there and keeps the rest.*)
LEMMA OverwrittenProperties ==
  ASSUME NEW bytes \in Seq(Byte), NEW s \in Seq(Byte),
         NEW at \in Nat, at + Len(s) <= Len(bytes)
  PROVE  /\ Overwritten(bytes, at, s) \in Seq(Byte)
         /\ Len(Overwritten(bytes, at, s)) = Len(bytes)
         /\ \A i \in 1 .. at: Overwritten(bytes, at, s)[i] = bytes[i]
         /\ \A i \in 1 .. Len(s): Overwritten(bytes, at, s)[at + i] = s[i]
PROOF
<1>1. /\ Len(bytes) \in Nat /\ \A i \in 1 .. Len(bytes): bytes[i] \in Byte
      /\ Len(s) \in Nat /\ \A i \in 1 .. Len(s): s[i] \in Byte
  BY LenProperties, ElementOfSeq
<1>2. Overwritten(bytes, at, s) \in [1 .. Len(bytes) -> Byte]
  <2>1. ASSUME NEW i \in 1 .. Len(bytes)
        PROVE  (IF at < i /\ i <= at + Len(s) THEN s[i - at] ELSE bytes[i]) \in Byte
    <3>1. CASE at < i /\ i <= at + Len(s)
      <4>1. i - at \in 1 .. Len(s)
        BY <1>1, <3>1
      <4>2. QED
        BY <1>1, <3>1, <4>1
    <3>2. CASE ~(at < i /\ i <= at + Len(s))
      BY <1>1, <3>2
    <3>3. QED
      BY <3>1, <3>2
  <2>2. QED
    BY <2>1 DEF Overwritten
<1>3. \A i \in 1 .. at: Overwritten(bytes, at, s)[i] = bytes[i]
  BY <1>1 DEF Overwritten
<1>4. \A i \in 1 .. Len(s): Overwritten(bytes, at, s)[at + i] = s[i]
  <2>1. ASSUME NEW i \in 1 .. Len(s)
        PROVE  Overwritten(bytes, at, s)[at + i] = s[i]
    <3>1. /\ at + i \in 1 .. Len(bytes) /\ at < at + i /\ at + i <= at + Len(s)
          /\ (at + i) - at = i
      BY <1>1
    <3>2. QED
      BY <3>1 DEF Overwritten
  <2>2. QED
    BY <2>1
<1>5. QED
  BY <1>1, <1>2, <1>3, <1>4, FunctionIsSeq

(* A new buffer is well formed and empty.                                    *)
LEMMA FreshOk ==
  ASSUME NEW size \in Nat
  PROVE  /\ Ok(Fresh(size)) /\ Readable(Fresh(size)) = 0
         /\ Fresh(size).read = 0
PROOF
<1>1. /\ Fresh(size).bytes \in Seq(Byte) /\ Len(Fresh(size).bytes) = size
  <2>1. Fresh(size).bytes \in [1 .. size -> Byte]
    BY ByteAssumption DEF Fresh
  <2>2. QED
    BY <2>1, FunctionIsSeq
<1>2. Fresh(size).read = 0 /\ Fresh(size).write = 0
  BY DEF Fresh
<1>3. Fresh(size) \in Buffer
  BY <1>1, <1>2 DEF Fresh, Buffer
<1>4. QED
  BY <1>1, <1>2, <1>3 DEF Ok, Readable

(* MakeSpace keeps the contents; where the room was too small, it is now     *)
(* exactly what was asked for, and the read index has not moved.             *)
LEMMA MakeSpaceProperties ==
  ASSUME NEW m, Ok(m), NEW len \in Nat
  PROVE  /\ Ok(MakeSpace(m, len))
         /\ Content(MakeSpace(m, len)) = Content(m)
         /\ Readable(MakeSpace(m, len)) = Readable(m)
         /\ Writable(m) < len => /\ Writable(MakeSpace(m, len)) = len
                                 /\ MakeSpace(m, len).read = m.read
PROOF
<1> DEFINE k == MakeSpace(m, len)
<1>1. /\ m.read \in Nat /\ m.write \in Nat /\ m.bytes \in Seq(Byte)
      /\ m.read <= m.write /\ m.write <= Len(m.bytes) /\ Len(m.bytes) \in Nat
      /\ m = [read |-> m.read, write |-> m.write, bytes |-> m.bytes]
  BY LenProperties DEF Ok, Buffer
<1>2. CASE Writable(m) < len
  <2>1. /\ k.read = m.read /\ k.write = m.write
        /\ k.bytes = Resized(m.bytes, m.write + len)
        /\ k = [read |-> k.read, write |-> k.write, bytes |-> k.bytes]
    BY <1>1, <1>2 DEF MakeSpace
  <2>2. m.write + len \in Nat /\ Len(m.bytes) <= m.write + len
    BY <1>1, <1>2 DEF Writable
  <2>3. /\ k.bytes \in Seq(Byte) /\ Len(k.bytes) = m.write + len
        /\ \A i \in 1 .. Len(m.bytes): k.bytes[i] = m.bytes[i]
    BY <1>1, <2>1, <2>2, ResizedProperties
  <2> HIDE DEF k
  <2>4. Ok(k)
    BY <1>1, <2>1, <2>3 DEF Ok, Buffer
  <2>5. Readable(k) = Readable(m) /\ Writable(k) = len
    BY <1>1, <2>1, <2>3 DEF Readable, Writable
  <2>6. ASSUME NEW i \in 1 .. Readable(m)
        PROVE  k.bytes[k.read + i] = m.bytes[m.read + i]
    <3>1. m.read + i \in 1 .. Len(m.bytes)
      BY <1>1 DEF Readable
    <3>2. QED
      BY <2>1, <2>3, <3>1
  <2>7. Content(k) = Content(m)
    BY <2>4, <2>5, <2>6, SameContent
  <2>8. QED
    BY <2>1, <2>4, <2>5, <2>7 DEF k
<1>3. CASE ~(Writable(m) < len)
  <2>1. /\ k.read = 0 /\ k.write = Readable(m)
        /\ k.bytes = Overwritten(m.bytes, 0, Content(m))
        /\ k = [read |-> k.read, write |-> k.write, bytes |-> k.bytes]
    BY <1>1, <1>3 DEF MakeSpace
  <2>2. /\ Content(m) \in Seq(Byte) /\ Len(Content(m)) = Readable(m)
        /\ Readable(m) \in Nat /\ Readable(m) <= Len(m.bytes)
        /\ \A i \in 1 .. Readable(m): Content(m)[i] = m.bytes[m.read + i]
    BY <1>1, ContentProperties DEF Readable
  <2>3. /\ k.bytes \in Seq(Byte) /\ Len(k.bytes) = Len(m.bytes)
        /\ \A i \in 1 .. Readable(m): k.bytes[0 + i] = Content(m)[i]
    BY <1>1, <2>1, <2>2, OverwrittenProperties
  <2> HIDE DEF k
  <2>4. Ok(k)
    BY <1>1, <2>1, <2>2, <2>3 DEF Ok, Buffer
  <2>5. Readable(k) = Readable(m)
    BY <2>1, <2>2 DEF Readable
  <2>6. \A i \in 1 .. Readable(m): k.bytes[k.read + i] = m.bytes[m.read + i]
    BY <2>1, <2>2, <2>3
  <2>7. Content(k) = Content(m)
    BY <2>4, <2>5, <2>6, SameContent
  <2>8. QED
    BY <1>3, <2>4, <2>5, <2>7 DEF k
<1>4. QED
  BY <1>2, <1>3

(* EnsureWritableBytes makes the room it is asked for and moves nothing.     *)
LEMMA EnsureProperties ==
  ASSUME NEW m, Ok(m), NEW len \in Nat
  PROVE  /\ Ok(EnsureWritableBytes(m, len))
         /\ Content(EnsureWritableBytes(m, len)) = Content(m)
         /\ Readable(EnsureWritableBytes(m, len)) = Readable(m)
         /\ len <= Writable(EnsureWritableBytes(m, len))
         /\ EnsureWritableBytes(m, len).read = m.read
PROOF
<1>1. Writable(m) \in Nat
  BY ContentProperties
<1>2. CASE Writable(m) < len
  BY <1>1, <1>2, MakeSpaceProperties DEF EnsureWritableBytes
<1>3. CASE ~(Writable(m) < len)
  BY <1>1, <1>3 DEF EnsureWritableBytes
<1>4. QED
  BY <1>2, <1>3

(* Storing a piece that fits appends it to the contents.                     *)
LEMMA StoredProperties ==
  ASSUME NEW m, Ok(m), NEW s \in Seq(Byte), Len(s) <= Writable(m)
  PROVE  /\ Ok(Stored(m, s))
         /\ Content(Stored(m, s)) = Content(m) \o s
         /\ Stored(m, s).read = m.read
PROOF
<1> DEFINE k == Stored(m, s)
<1>1. /\ m.read \in Nat /\ m.write \in Nat /\ m.bytes \in Seq(Byte)
      /\ m.read <= m.write /\ m.write <= Len(m.bytes) /\ Len(m.bytes) \in Nat
      /\ m = [read |-> m.read, write |-> m.write, bytes |-> m.bytes]
      /\ Len(s) \in Nat
  BY LenProperties DEF Ok, Buffer
<1>2. /\ k.read = m.read /\ k.write = m.write + Len(s)
      /\ k.bytes = Overwritten(m.bytes, m.write, s)
      /\ k = [read |-> k.read, write |-> k.write, bytes |-> k.bytes]
  <2>1. k = [read |-> m.read, write |-> m.write + Len(s),
             bytes |-> Overwritten(m.bytes, m.write, s)]
    <3> DEFINE b == Overwritten(m.bytes, m.write, s)
               w == m.write + Len(s)
    <3>1. k = [m EXCEPT !.bytes = b, !.write = w]
      BY DEF Stored
    <3> HIDE DEF b, w, k
    <3>2. k = [read |-> m.read, write |-> w, bytes |-> b]
      BY <1>1, <3>1
    <3>3. QED
      BY <3>2 DEF b, w
  <2> HIDE DEF k
  <2>2. QED
    BY <2>1
<1>3. m.write + Len(s) <= Len(m.bytes)
  BY <1>1 DEF Writable
<1>4. /\ k.bytes \in Seq(Byte) /\ Len(k.bytes) = Len(m.bytes)
      /\ \A i \in 1 .. m.write: k.bytes[i] = m.bytes[i]
      /\ \A i \in 1 .. Len(s): k.bytes[m.write + i] = s[i]
  BY <1>1, <1>2, <1>3, OverwrittenProperties
<1> HIDE DEF k
<1>5. Ok(k)
  BY <1>1, <1>2, <1>3, <1>4 DEF Ok, Buffer
<1>6. /\ Readable(k) = Readable(m) + Len(s) /\ Readable(m) \in Nat
      /\ m.write = m.read + Readable(m)
  BY <1>1, <1>2 DEF Readable
<1>7. /\ Content(m) \in Seq(Byte) /\ Len(Content(m)) = Readable(m)
      /\ \A i \in 1 .. Readable(m): Content(m)[i] = m.bytes[m.read + i]
  BY ContentProperties
<1>8. /\ Content(k) \in Seq(Byte) /\ Len(Content(k)) = Readable(k)
      /\ \A i \in 1 .. Readable(k): Content(k)[i] = k.bytes[k.read + i]
  BY <1>5, ContentProperties
<1>9. /\ Content(m) \o s \in Seq(Byte) /\ Len(Content(m) \o s) = Readable(m) + Len(s)
      /\ \A i \in 1 .. Len(Content(m)) + Len(s):
            (Content(m) \o s)[i] =
              IF i <= Len(Content(m)) THEN Content(m)[i] ELSE s[i - Len(Content(m))]
  BY <1>7, ConcatProperties
<1>10. ASSUME NEW i \in 1 .. Len(Content(k))
       PROVE  Content(k)[i] = (Content(m) \o s)[i]
  <2>1. i \in 1 .. Readable(m) + Len(s) /\ Content(k)[i] = k.bytes[m.read + i]
    BY <1>2, <1>6, <1>8
  <2>2. CASE i <= Readable(m)
    <3>1. i \in 1 .. Readable(m) /\ m.read + i \in 1 .. m.write
      BY <1>1, <1>6, <2>1, <2>2 DEF Readable
    <3>2. (Content(m) \o s)[i] = Content(m)[i]
      BY <1>7, <1>9, <2>1, <2>2
    <3>3. QED
      BY <1>4, <1>7, <2>1, <3>1, <3>2
  <2>3. CASE ~(i <= Readable(m))
    <3>1. /\ i - Readable(m) \in 1 .. Len(s)
          /\ m.read + i = m.write + (i - Readable(m))
      BY <1>1, <1>6, <2>1, <2>3
    <3>2. (Content(m) \o s)[i] = s[i - Readable(m)]
      BY <1>7, <1>9, <2>1, <2>3
    <3>3. QED
      BY <1>4, <2>1, <3>1, <3>2
  <2>4. QED
    BY <2>2, <2>3
<1>11. Content(k) = Content(m) \o s
  BY <1>6, <1>8, <1>9, <1>10, SeqEqual
<1>12. QED
  BY <1>2, <1>5, <1>11 DEF k

(* Writing a piece of any length appends it to the contents.                 *)
LEMMA WrittenProperties ==
  ASSUME NEW m, Ok(m), NEW s \in Seq(Byte)
  PROVE  /\ Ok(Written(m, s))
         /\ Content(Written(m, s)) = Content(m) \o s
         /\ Written(m, s).read = m.read
PROOF
<1>1. Len(s) \in Nat
  BY LenProperties
<1>2. QED
  BY <1>1, EnsureProperties, StoredProperties DEF Written

(* Half as much again, the space EnsureFreeSpace asks for: more than is      *)
(* writable unless nothing is written at all.                                *)
LEMMA HalfAgain ==
  ASSUME NEW size \in Nat
  PROVE  /\ (size * 3) \div 2 \in Nat
         /\ \A w \in Nat: w <= size /\ ~(size - w < (size * 3) \div 2) => w = 0
  OBVIOUS

(* A part of the contents is the corresponding part of the storage.          *)
LEMMA PartOfContent ==
  ASSUME NEW m, Ok(m), NEW a \in Nat, 1 <= a, NEW b \in Nat, b <= Readable(m)
  PROVE  SubSeq(Content(m), a, b) = SubSeq(m.bytes, m.read + a, m.read + b)
PROOF
<1>1. /\ m.read \in Nat /\ m.write \in Nat /\ m.bytes \in Seq(Byte)
      /\ m.read <= m.write /\ m.write <= Len(m.bytes) /\ Len(m.bytes) \in Nat
  BY LenProperties DEF Ok, Buffer
<1>2. CASE b < a
  <2>1. m.read + a \in Int /\ m.read + b \in Int /\ m.read + b < m.read + a
    BY <1>1, <1>2
  <2> DEFINE x == m.read + a
             y == m.read + b
  <2>2. SubSeq(m.bytes, x, y) = <<>>
    <3>1. x \in Int /\ y \in Int /\ y < x
      BY <2>1
    <3> HIDE DEF x, y
    <3>2. QED
      BY <3>1, SubSeqEmpty
  <2>3. SubSeq(Content(m), a, b) = <<>>
    BY <1>2, SubSeqEmpty
  <2>4. QED
    BY <2>2, <2>3
<1>3. CASE ~(b < a)
  <2> DEFINE i == m.read + 1
             j == m.write
  <2>1. /\ i \in 1 .. Len(m.bytes) /\ j \in 1 .. Len(m.bytes)
        /\ a \in 1 .. j - i + 1 /\ b \in 1 .. j - i + 1
        /\ i + a - 1 = m.read + a /\ i + b - 1 = m.read + b
    <3>1. /\ Readable(m) \in Nat /\ m.write = m.read + Readable(m)
          /\ a <= Readable(m) /\ 1 <= b
      BY <1>1, <1>3 DEF Readable
    <3>2. j - i + 1 = Readable(m)
      BY <1>1, <3>1
    <3>3. a \in 1 .. Readable(m) /\ b \in 1 .. Readable(m)
      BY <3>1
    <3>4. i \in 1 .. Len(m.bytes) /\ j \in 1 .. Len(m.bytes)
      BY <1>1, <3>1
    <3>5. i + a - 1 = m.read + a /\ i + b - 1 = m.read + b
      BY <1>1
    <3>6. QED
      BY <3>2, <3>3, <3>4, <3>5
  <2>2. Content(m) = SubSeq(m.bytes, i, j)
    BY DEF Content
  <2> HIDE DEF i, j
  <2>3. SubSeq(SubSeq(m.bytes, i, j), a, b) = SubSeq(m.bytes, i + a - 1, i + b - 1)
    BY <1>1, <2>1, SubSeqOfSubSeq
  <2>4. QED
    BY <2>1, <2>2, <2>3
<1>4. QED
  BY <1>2, <1>3

(* A buffer whose indices meet has no contents.                              *)
LEMMA EmptyContent ==
  ASSUME NEW m, Ok(m), m.read = m.write
  PROVE  Content(m) = <<>>
PROOF
<1>1. m.read + 1 \in Int /\ m.write \in Int /\ m.write < m.read + 1
  BY DEF Ok, Buffer
<1> DEFINE x == m.read + 1
           y == m.write
<1>2. x \in Int /\ y \in Int /\ y < x /\ Content(m) = SubSeq(m.bytes, x, y)
  BY <1>1 DEF Content
<1> HIDE DEF x, y
<1>3. QED
  BY <1>2, SubSeqEmpty

(* Reading n bytes leaves the rest; a buffer read to its end starts again.   *)
LEMMA ConsumeProperties ==
  ASSUME NEW m, Ok(m), NEW n \in 0 .. Readable(m)
  PROVE  /\ Ok(ConsumeBytes(m, n))
         /\ Content(ConsumeBytes(m, n)) = SubSeq(Content(m), n + 1, Len(Content(m)))
         /\ ConsumeBytes(m, n).read < m.read => Readable(ConsumeBytes(m, n)) = 0
PROOF
<1> DEFINE k == ConsumeBytes(m, n)
<1>1. /\ m.read \in Nat /\ m.write \in Nat /\ m.bytes \in Seq(Byte)
      /\ m.read <= m.write /\ m.write <= Len(m.bytes) /\ Len(m.bytes) \in Nat
      /\ m = [read |-> m.read, write |-> m.write, bytes |-> m.bytes]
  BY LenProperties DEF Ok, Buffer
<1>2. /\ Readable(m) \in Nat /\ Len(Content(m)) = Readable(m)
      /\ m.write = m.read + Readable(m)
  BY <1>1, ContentProperties DEF Readable
<1>3. CASE n < Readable(m)
  <2>1. /\ k.read = m.read + n /\ k.write = m.write /\ k.bytes = m.bytes
        /\ k = [read |-> k.read, write |-> k.write, bytes |-> k.bytes]
    BY <1>1, <1>3 DEF ConsumeBytes
  <2>2. n + 1 \in Nat /\ 1 <= n + 1
    OBVIOUS
  <2>3. SubSeq(Content(m), n + 1, Readable(m))
          = SubSeq(m.bytes, m.read + (n + 1), m.read + Readable(m))
    <3> DEFINE a == n + 1
               b == Readable(m)
    <3>1. a \in Nat /\ 1 <= a /\ b \in Nat /\ b <= Readable(m)
      BY <1>2, <2>2
    <3> HIDE DEF a, b
    <3>2. SubSeq(Content(m), a, b) = SubSeq(m.bytes, m.read + a, m.read + b)
      BY <3>1, PartOfContent
    <3>3. QED
      BY <3>2 DEF a, b
  <2> HIDE DEF k
  <2>4. Ok(k)
    BY <1>1, <1>2, <1>3, <2>1 DEF Ok, Buffer
  <2>5. Content(k) = SubSeq(m.bytes, m.read + (n + 1), m.read + Readable(m))
    <3>1. k.read + 1 = m.read + (n + 1)
      BY <1>1, <2>1
    <3>2. QED
      BY <1>2, <2>1, <3>1 DEF Content
  <2>6. ~(k.read < m.read)
    BY <1>1, <2>1
  <2>7. QED
    BY <1>2, <2>3, <2>4, <2>5, <2>6 DEF k
<1>4. CASE ~(n < Readable(m))
  <2>1. /\ k.read = 0 /\ k.write = 0 /\ k.bytes = m.bytes
        /\ k = [read |-> k.read, write |-> k.write, bytes |-> k.bytes]
    BY <1>1, <1>4 DEF ConsumeBytes
  <2> HIDE DEF k
  <2>2. Ok(k) /\ Readable(k) = 0
    BY <1>1, <2>1 DEF Ok, Buffer, Readable
  <2>3. Content(k) = <<>>
    BY <2>1, <2>2, EmptyContent
  <2>4. n = Readable(m) /\ n + 1 \in Int /\ n \in Int /\ n < n + 1
    BY <1>2, <1>4
  <2>5. SubSeq(Content(m), n + 1, n) = <<>>
    BY <2>4, SubSeqEmpty
  <2>6. QED
    BY <1>2, <2>2, <2>3, <2>4, <2>5 DEF k
<1>5. QED
  BY <1>3, <1>4

(* Shrink keeps the contents.                                                *)
LEMMA ShrunkProperties ==
  ASSUME NEW m, Ok(m), NEW reserve \in Nat
  PROVE  Ok(Shrunk(m, reserve)) /\ Content(Shrunk(m, reserve)) = Content(m)
PROOF
<1>1. Content(m) \in Seq(Byte) /\ Readable(m) + reserve \in Nat
  BY ContentProperties
<1> DEFINE other == EnsureWritableBytes(Fresh(InitialSize), Readable(m) + reserve)
<1>2. Ok(Fresh(InitialSize)) /\ Readable(Fresh(InitialSize)) = 0
  BY FreshOk, SizeAssumption
<1>3. Ok(other) /\ Readable(other) = 0
  BY <1>1, <1>2, EnsureProperties
<1> HIDE DEF other
<1>4. Content(other) = <<>>
  <2>1. other.read = other.write
    BY <1>3 DEF Ok, Buffer, Readable
  <2>2. QED
    BY <1>3, <2>1, EmptyContent
<1>5. Ok(Written(other, Content(m))) /\ Content(Written(other, Content(m))) = <<>> \o Content(m)
  BY <1>1, <1>3, <1>4, WrittenProperties
<1>6. <<>> \o Content(m) = Content(m)
  BY <1>1, ConcatEmptySeq
<1>7. QED
  BY <1>5, <1>6 DEF Shrunk, other

-----------------------------------------------------------------------------
(* Every operation keeps the buffer well formed.                             *)
LEMMA TypeStep ==
  ASSUME TypeOK, [Next]_vars
  PROVE  TypeOK'
PROOF
<1>a. Ok(buf) /\ result \in Seq(Byte) /\ Readable(buf) \in Nat /\ Writable(buf) \in Nat
  BY ContentProperties DEF TypeOK, Ok
<1>b. <<>> \in Seq(Byte)
  BY EmptySeq
<1>c. ASSUME Ok(buf'), result' \in Seq(Byte) PROVE TypeOK'
  BY <1>c DEF TypeOK, Ok
<1>1. ASSUME NEW s \in Pieces, Write(s) PROVE TypeOK'
  BY <1>1, <1>a, <1>b, <1>c, PiecesAssumption, WrittenProperties DEF Write
<1>2. ASSUME NEW s \in Pieces, Receive(s) PROVE TypeOK'
  BY <1>2, <1>a, <1>b, <1>c, PiecesAssumption, StoredProperties DEF Receive
<1>3. ASSUME NEW n \in 0 .. Readable(buf), Read(n) PROVE TypeOK'
  <2>1. Ok(buf')
    BY <1>3, <1>a, ConsumeProperties DEF Read
  <2>2. result' = SubSeq(Content(buf), 1, n)
    <3>1. buf.read \in Nat /\ n \in Nat /\ n <= Readable(buf) /\ 1 \in Nat /\ 1 <= 1
      BY <1>a DEF Ok, Buffer
    <3>2. QED
      BY <1>3, <1>a, <3>1, PartOfContent DEF Read
  <2>3. Content(buf) \in Seq(Byte) /\ Len(Content(buf)) = Readable(buf)
    BY <1>a, ContentProperties
  <2>4. \A i \in 1 .. n: Content(buf)[i] \in Byte
    BY <1>a, <2>3, ElementOfSeq
  <2>5. result' \in Seq(Byte)
    BY <2>2, <2>4, SubSeqProperties
  <2>6. QED
    BY <1>c, <2>1, <2>5
<1>4. CASE ReadDone
  <2>1. buf' = [read |-> buf.write, write |-> buf.write, bytes |-> buf.bytes]
    BY <1>4, <1>a DEF ReadDone, Ok, Buffer, Readable
  <2>2. Ok(buf')
    BY <1>a, <2>1 DEF Ok, Buffer
  <2>3. QED
    BY <1>4, <1>b, <1>c, <2>2 DEF ReadDone
<1>5. CASE EnsureFreeSpace
  <2>1. (Len(buf.bytes) * 3) \div 2 \in Nat
    BY <1>a, HalfAgain, LenProperties DEF Ok, Buffer
  <2>2. QED
    BY <1>5, <1>a, <1>b, <1>c, <2>1, MakeSpaceProperties DEF EnsureFreeSpace
<1>6. CASE MovedFrom
  <2>1. Ok(buf')
    <3>1. Len(<<>>) = 0
      BY EmptySeq
    <3>2. QED
      BY <1>6, <1>b, <3>1 DEF MovedFrom, Ok, Buffer
  <2>2. QED
    BY <1>6, <1>b, <1>c, <2>1 DEF MovedFrom
<1>7. ASSUME NEW reserve \in 0 .. MaxReserve, Shrink(reserve) PROVE TypeOK'
  BY <1>7, <1>a, <1>b, <1>c, ShrunkProperties DEF Shrink
<1>8. CASE UNCHANGED vars
  BY <1>8 DEF vars, TypeOK
<1>9. QED
  BY <1>1, <1>2, <1>3, <1>4, <1>5, <1>6, <1>7, <1>8 DEF Next

(* The indices delimit a part of the storage in every reachable state, for   *)
(* every initial size and every sequence of writes, reads and shrinks.       *)
THEOREM TypeCorrect == Spec => []TypeOK
PROOF
<1>1. Init => TypeOK
  BY FreshOk, SizeAssumption, EmptySeq DEF Init, TypeOK, Ok
<1>2. TypeOK /\ [Next]_vars => TypeOK'
  BY TypeStep
<1>3. QED
  BY <1>1, <1>2, PTL DEF Spec

(* Every operation is an operation of the queue of bytes.                    *)
LEMMA FifoStep ==
  ASSUME TypeOK, [Next]_vars
  PROVE  [Fifo!Next]_<<Content(buf), result>>
PROOF
<1>a. /\ Ok(buf) /\ Readable(buf) \in Nat
      /\ Content(buf) \in Seq(Byte) /\ Len(Content(buf)) = Readable(buf)
  BY ContentProperties DEF TypeOK, Ok
<1>b. Ok(buf')
  BY TypeStep DEF TypeOK, Ok
<1>c. ASSUME Content(buf') = Content(buf), result' = <<>>
      PROVE  Fifo!Next
  BY <1>c DEF Fifo!Next, Fifo!Tidy
<1>1. ASSUME NEW s \in Pieces, Write(s) PROVE Fifo!Next
  BY <1>1, <1>a, PiecesAssumption, WrittenProperties DEF Write, Fifo!Next, Fifo!Put
<1>2. ASSUME NEW s \in Pieces, Receive(s) PROVE Fifo!Next
  BY <1>2, <1>a, PiecesAssumption, StoredProperties DEF Receive, Fifo!Next, Fifo!Put
<1>3. ASSUME NEW n \in 0 .. Readable(buf), Read(n) PROVE Fifo!Next
  <2>1. Content(buf') = SubSeq(Content(buf), n + 1, Len(Content(buf)))
    BY <1>3, <1>a, ConsumeProperties DEF Read
  <2>2. result' = SubSeq(Content(buf), 1, n)
    <3>1. n \in Nat /\ n <= Readable(buf) /\ 1 \in Nat /\ 1 <= 1
      BY <1>a
    <3>2. QED
      BY <1>3, <1>a, <3>1, PartOfContent DEF Read
  <2>3. QED
    BY <1>a, <2>1, <2>2 DEF Fifo!Next, Fifo!Take
<1>4. CASE ReadDone
  <2>1. buf'.read = buf'.write
    BY <1>4, <1>a DEF ReadDone, Ok, Buffer, Readable
  <2>2. QED
    BY <1>4, <1>b, <2>1, EmptyContent DEF ReadDone, Fifo!Next, Fifo!Drop
<1>5. CASE EnsureFreeSpace
  <2>1. (Len(buf.bytes) * 3) \div 2 \in Nat
    BY <1>a, HalfAgain, LenProperties DEF Ok, Buffer
  <2>2. QED
    BY <1>5, <1>a, <1>c, <2>1, MakeSpaceProperties DEF EnsureFreeSpace
<1>6. CASE MovedFrom
  BY <1>6, <1>b, EmptyContent DEF MovedFrom, Fifo!Next, Fifo!Drop
<1>7. ASSUME NEW reserve \in 0 .. MaxReserve, Shrink(reserve) PROVE Fifo!Next
  BY <1>7, <1>a, <1>c, ShrunkProperties DEF Shrink
<1>8. CASE UNCHANGED vars
  BY <1>8 DEF vars, Content
<1>9. QED
  BY <1>1, <1>2, <1>3, <1>4, <1>5, <1>6, <1>7, <1>8 DEF Next

(* Bytes leave a message buffer in the order they entered it, none lost, and *)
(* none invented, however the storage grows, restarts, shrinks or moves.     *)
THEOREM FirstInFirstOut == Spec => ImplementsFifo
PROOF
<1>1. Init => Fifo!Init
  <2>1. Init => Ok(buf) /\ buf.read = buf.write
    BY FreshOk, SizeAssumption DEF Init, Fresh
  <2>2. QED
    BY <2>1, EmptyContent DEF Init, Fifo!Init
<1>2. TypeOK /\ [Next]_vars => [Fifo!Next]_<<Content(buf), result>>
  BY FifoStep
<1>3. QED
  BY <1>1, <1>2, TypeCorrect, PTL DEF Spec, ImplementsFifo, Fifo!Spec
=============================================================================
