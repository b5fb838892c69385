------------------------------- MODULE ByteFifo -------------------------------
(* What a message buffer promises: bytes come out in the order they went in, *)
(* whatever room the buffer makes for them.                                  *)
EXTENDS Naturals, Sequences

CONSTANT Pieces   \* what a caller may write in one call

VARIABLES
  content,    \* the bytes written and not yet read
  result      \* what the last operation returned

Init == content = <<>> /\ result = <<>>

Put(s) ==
  /\ content' = content \o s
  /\ result' = <<>>

Take(n) ==
  /\ result' = SubSeq(content, 1, n)
  /\ content' = SubSeq(content, n + 1, Len(content))

(* The contents are skipped, or moved to another buffer.                     *)
Drop ==
  /\ content' = <<>>
  /\ result' = <<>>

(* Storage is rearranged.                                                    *)
Tidy == result' = <<>> /\ UNCHANGED content

Next ==
  \/ \E s \in Pieces: Put(s)
  \/ \E n \in 0 .. Len(content): Take(n)
  \/ Drop
  \/ Tidy

Spec == Init /\ [][Next]_<<content, result>>
=============================================================================
