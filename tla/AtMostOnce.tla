----------------------------- MODULE AtMostOnce -----------------------------
(* What a caller of a database connection is promised: a statement takes     *)
(* effect at most once, one that succeeds has taken effect, and every call   *)
(* returns as long as the process runs. A failed call may have taken effect. *)
EXTENDS Naturals

CONSTANT Connections

VARIABLES busy, ran, ok, up

vars == <<busy, ran, ok, up>>

Init ==
  /\ busy = [c \in Connections |-> FALSE]
  /\ ran = [c \in Connections |-> 0]
  /\ ok = [c \in Connections |-> FALSE]
  /\ up = TRUE

Ask(c) ==
  /\ up /\ ~busy[c]
  /\ busy' = [busy EXCEPT ![c] = TRUE]
  /\ ran' = [ran EXCEPT ![c] = 0]
  /\ ok' = [ok EXCEPT ![c] = FALSE]
  /\ UNCHANGED up

TakeEffect(c) ==
  /\ up /\ busy[c] /\ ran[c] = 0
  /\ ran' = [ran EXCEPT ![c] = 1]
  /\ UNCHANGED <<busy, ok, up>>

Return(c) ==
  /\ up /\ busy[c]
  /\ busy' = [busy EXCEPT ![c] = FALSE]
  /\ \E n \in {ran[c], 1}, success \in BOOLEAN :
       /\ success => n = 1
       /\ ran' = [ran EXCEPT ![c] = n]
       /\ ok' = [ok EXCEPT ![c] = success]
  /\ UNCHANGED up

Die ==
  /\ up /\ up' = FALSE
  /\ UNCHANGED <<busy, ran, ok>>

Next == Die \/ \E c \in Connections : Ask(c) \/ TakeEffect(c) \/ Return(c)

Spec == Init /\ [][Next]_vars

FairSpec == Spec /\ \A c \in Connections : WF_vars(Return(c))
=============================================================================
