--------------------------- MODULE PacketPipeline ---------------------------
(* What a session promises to the peer, with no threads, queues or timers:   *)
(* packets come in one at a time, the logic handles them in arrival order,   *)
(* and the answers go out in that order, each at most once.  When the        *)
(* session closes, at most the one answer already handed to the socket may   *)
(* still go out.                                                             *)
EXTENDS Naturals, Sequences

VARIABLES
  inbox,      \* how many packets have been received
  handled,    \* how many of them are dealt with: answered, or dropped with a
              \* session that is gone
  out,        \* the answers the peer's connection has taken, in order
  open,       \* the session has not been closed
  credit      \* answers that may still go out after the close: 0 or 1

vars == <<inbox, handled, out, open, credit>>

Init ==
  /\ inbox = 0
  /\ handled = 0
  /\ out = <<>>
  /\ open = TRUE
  /\ credit = 1

Receive ==
  /\ inbox' = inbox + 1
  /\ UNCHANGED <<handled, out, open, credit>>

Handle ==
  /\ handled < inbox
  /\ handled' = handled + 1
  /\ UNCHANGED <<inbox, out, open, credit>>

(* The next answer in order goes out; a closed session spends its credit.    *)
Deliver ==
  /\ Len(out) < handled
  /\ credit = 1
  /\ out' = Append(out, Len(out) + 1)
  /\ credit' = IF open THEN 1 ELSE 0
  /\ UNCHANGED <<inbox, handled, open>>

Close ==
  /\ open
  /\ open' = FALSE
  /\ credit' \in {0, 1}
  /\ UNCHANGED <<inbox, handled, out>>

(* The write that was under way when the session closed fails instead.       *)
Forfeit ==
  /\ ~open
  /\ credit = 1
  /\ credit' = 0
  /\ UNCHANGED <<inbox, handled, out, open>>

Next == Receive \/ Handle \/ Deliver \/ Close \/ Forfeit

Spec == Init /\ [][Next]_vars
=============================================================================
